--------------------------- MODULE StrategyProofs ---------------------------
(***************************************************************************)
(* Proofs about ChaseMomentumStrategy, for all tickers, prices, amounts of  *)
(* cash and reserves, any faults and any pattern of fills: the safety       *)
(* properties, from one inductive invariant, and the refinement of          *)
(* TradeCycle.                                                              *)
(*                                                                          *)
(* The invariant says at every pc what BooksMatchAccount says between two   *)
(* callbacks: how many shares the account holds (Shares), what an open buy  *)
(* order may still spend (Committed), and which order is at the broker.     *)
(***************************************************************************)
EXTENDS ChaseMomentumStrategy, TLAPS

(* A buy order whose answer was lost: EnterTrade took it for a failed one. *)
LostBuy == \E o \in BagToSet(orphans) : o.side = "buy"

(* Where the callback has no order of its own at the broker, and where it has *)
(* one to buy or to sell.                                                     *)
Between == {"init", "idle", "submit_buy", "submit_sell", "settle", "manage"}
Buying == {"cancel_buy", "get_buy"}
Selling == {"cancel_sell", "get_sell"}

(* The types, as far as the proofs need them. *)
Types ==
  /\ cash \in Int /\ position \in [Tickers -> Nat]
  /\ order \in Order
  /\ IsABag(orphans)
  /\ trading_ \in Tickers \cup {NoTicker} /\ quantity_ \in Nat
  /\ account_cash \in Int
  /\ pc \in Between \cup Buying \cup Selling \cup {"dead"}
  /\ qty \in Nat /\ limit_price \in Nat /\ filled \in Nat
  /\ resume \in {"idle", "manage"}

(* The order at the broker is the one the callback is dealing with. *)
OrderFits ==
  /\ pc \in Between => order = NoOrder
  /\ pc \in Buying => order.side = "buy" /\ order.ticker = trading_
  /\ pc \in Selling => /\ order.side = "sell" /\ order.ticker = trading_
                       /\ order.qty = quantity_
  /\ pc \in {"get_buy", "get_sell"} => ~order.open
  /\ order.open => order.ticker \in Tickers /\ order.side \in {"buy", "sell"}
  /\ order.filled <= order.qty

(* A sell order is lost sight of only by the exception that ends the process. *)
OrphansFit ==
  \A o \in BagToSet(orphans) :
    /\ o \in Order /\ o.ticker \in Tickers /\ o.side \in {"buy", "sell"}
    /\ pc # "dead" => o.side = "buy"

(* The arguments of the call that is next, and what was traded before. *)
TradeFits ==
  /\ pc = "init" => trading_ = NoTicker
  /\ pc \in {"submit_buy", "submit_sell", "settle"} \cup Buying \cup Selling =>
       trading_ \in Tickers
  /\ pc \in {"idle", "manage"} /\ trading_ # NoTicker => quantity_ > 0
  /\ pc = "submit_buy" => qty > 0 /\ limit_price \in Prices
  /\ pc = "settle" => filled <= quantity_

(* What the books say the account holds of trading_: quantity_ is not written *)
(* before the orders of a trade are settled.                                  *)
Shares ==
  CASE pc = "submit_buy" -> 0
    [] pc \in Buying -> order.filled
    [] pc \in Selling -> quantity_ - order.filled
    [] pc = "settle" -> quantity_ - filled
    [] OTHER -> quantity_

(* The account holds at least what the books say. *)
Held == pc # "dead" /\ trading_ \in Tickers => position[trading_] >= Shares

(* Unless a buy order was lost, it holds exactly that, and nothing else. *)
Books ==
  ~LostBuy =>
    /\ \A t \in Tickers : t # trading_ => position[t] = 0
    /\ pc # "dead" /\ trading_ \in Tickers => position[trading_] = Shares
    /\ pc = "dead" => /\ order.open => order.ticker = trading_
                      /\ \A o \in BagToSet(orphans) : o.ticker = trading_

(* The cash a buy order may still take. *)
Committed ==
  IF pc = "submit_buy" THEN qty * limit_price
  ELSE IF order.open /\ order.side = "buy" THEN (order.qty - order.filled) * order.price
  ELSE 0

(* That cash is above the reserve, and account_ is fresh where it is used. *)
Money ==
  ~LostBuy =>
    /\ InitialCash >= RESERVE => cash - Committed >= RESERVE
    /\ pc = "manage" \/ pc = "submit_buy" \/ (pc = "idle" /\ trading_ = NoTicker) =>
         account_cash = cash

(* The inductive invariant. *)
IInv == Types /\ OrderFits /\ OrphansFit /\ TradeFits /\ Held /\ Books /\ Money

USE BrokerAssumption, StrategyAssumption
USE DEF broker, strategy, locals, market

(* Adding one element to a bag. *)
LEMMA AddOne ==
  ASSUME NEW B, IsABag(B), NEW e
  PROVE  /\ IsABag(B (+) SetToBag({e}))
         /\ BagToSet(B (+) SetToBag({e})) = BagToSet(B) \cup {e}
  BY DEF IsABag, BagToSet, SetToBag, (+)

(* Replacing one element of a bag, as a fill of an orphan does. *)
LEMMA ReplaceOne ==
  ASSUME NEW B, IsABag(B), NEW d \in BagToSet(B), NEW e
  PROVE  LET C == (B (-) SetToBag({d})) (+) SetToBag({e})
         IN  /\ IsABag(C)
             /\ BagToSet(C) \subseteq BagToSet(B) \cup {e}
             /\ (BagToSet(B) \ {d}) \cup {e} \subseteq BagToSet(C)
  BY DEF IsABag, BagToSet, SetToBag, (+), (-)

(* Ninety percent, rounded down to whole shares, can be afforded. *)
LEMMA Affordable ==
  ASSUME NEW m \in Int, NEW r \in Nat, NEW p \in Nat \ {0}, NEW n \in Nat \ {0},
         n = (9 * (m - r)) \div (10 * p)
  PROVE  n * p <= m - r
<1>1. (10 * p) * n <= 9 * (m - r)
  OBVIOUS
<1>2. 10 * (p * n) <= 9 * (m - r) /\ p * n \in Nat
  BY <1>1
<1> QED BY <1>2

(* The order between two trades is an order. *)
LEMMA NoOrderType == NoOrder \in Order
  BY DEF NoOrder, Order

(* Ninety percent of what is above the reserve, for a limit price. *)
LEMMA AffordableFacts ==
  ASSUME NEW m \in Int, NEW limit \in Prices
  PROVE  /\ AffordableShares(m, limit) \in Int /\ limit \in Nat \ {0}
         /\ AffordableShares(m, limit) > 0 => AffordableShares(m, limit) * limit <= m - RESERVE
<1> DEFINE n == (9 * (m - RESERVE)) \div (10 * limit)
<1>1. limit \in Nat \ {0} /\ RESERVE \in Nat
  OBVIOUS
<1>2. n \in Int
  BY <1>1
<1>3. n > 0 => n * limit <= m - RESERVE
  BY <1>1, <1>2, Affordable
<1> QED BY <1>1, <1>2, <1>3 DEF AffordableShares

(* A new order, and the same order with k shares filled. *)
LEMMA NewOrderFacts ==
  ASSUME NEW t \in Tickers, NEW side \in {"buy", "sell"}, NEW q \in Nat, NEW p \in Nat
  PROVE  /\ NewOrder(t, side, q, p) \in Order
         /\ NewOrder(t, side, q, p).ticker = t /\ NewOrder(t, side, q, p).side = side
         /\ NewOrder(t, side, q, p).qty = q /\ NewOrder(t, side, q, p).price = p
         /\ \A k \in 0 .. q :
              Filled(NewOrder(t, side, q, p), k) =
                [ticker |-> t, side |-> side, qty |-> q, price |-> p, filled |-> k,
                 open |-> k < q]
<1>1. ASSUME NEW k \in 0 .. q
      PROVE  Filled(NewOrder(t, side, q, p), k) =
               [ticker |-> t, side |-> side, qty |-> q, price |-> p, filled |-> k, open |-> k < q]
  <2> DEFINE o == NewOrder(t, side, q, p)
             b == o.open /\ o.filled + k < o.qty
             n == o.filled + k
             c == k < q
  <2>1. o = [ticker |-> t, side |-> side, qty |-> q, price |-> p, filled |-> 0, open |-> TRUE]
    BY DEF NewOrder
  <2>2. Filled(o, k) = [o EXCEPT !.filled = n, !.open = b]
    BY DEF Filled
  <2>3. o.open /\ o.filled = 0 /\ o.qty = q
    BY <2>1
  <2>4. n = k
    BY <2>3
  <2>5. b <=> c
    BY <2>3
  <2>6. b = c
    BY <2>5
  <2> HIDE DEF o, b, n, c
  <2>7. Filled(o, k) = [ticker |-> t, side |-> side, qty |-> q, price |-> p, filled |-> k, open |-> c]
    BY <2>1, <2>2, <2>4, <2>6
  <2> QED BY <2>7 DEF o, c
<1> QED BY <1>1 DEF NewOrder, Order

(* What submitOrder does to the account when k shares are filled at once. *)
LEMMA AcceptFacts ==
  ASSUME NEW t \in Tickers, NEW side \in {"buy", "sell"}, NEW q \in Nat, NEW p \in Nat,
         NEW k \in 0 .. q, Accept(NewOrder(t, side, q, p), k)
  PROVE  /\ cash' = IF side = "buy" THEN cash - k * p ELSE cash + k * p
         /\ position' = [position EXCEPT ![t] = IF side = "buy" THEN @ + k ELSE @ - k]
         /\ order' = IF k = q THEN NoOrder
                     ELSE [ticker |-> t, side |-> side, qty |-> q, price |-> p,
                           filled |-> k, open |-> TRUE]
         /\ UNCHANGED orphans
<1> DEFINE request == NewOrder(t, side, q, p)
<1>1. request.ticker = t /\ request.side = side /\ request.qty = q /\ request.price = p
  BY NewOrderFacts
<1>2. Filled(request, k) = [ticker |-> t, side |-> side, qty |-> q, price |-> p,
                            filled |-> k, open |-> k < q]
  BY NewOrderFacts
<1>3. k # q => (k < q) = TRUE
  OBVIOUS
<1> HIDE DEF request
<1>4. Accept(request, k)
  BY DEF request
<1> QED BY <1>1, <1>2, <1>3, <1>4 DEF Accept, Settle

(* What it does when the answer is lost. *)
LEMMA UnseenFacts ==
  ASSUME IsABag(orphans), NEW o, AcceptUnseen(o)
  PROVE  /\ IsABag(orphans') /\ BagToSet(orphans') = BagToSet(orphans) \cup {o}
         /\ UNCHANGED <<cash, position, order>>
  BY AddOne DEF AcceptUnseen

(* The cash for the shares that are not filled yet. *)
LEMMA Distrib ==
  ASSUME NEW q \in Int, NEW k \in Int, NEW p \in Int
  PROVE  (q - k) * p = q * p - k * p
  OBVIOUS

(* Init() of the strategy keeps the invariant. *)
LEMMA InitPreserves ==
  ASSUME IInv, StrategyInit
  PROVE  IInv'
<1>1. Types'
  BY DEF IInv, Types, Order, NoOrder, OrderFits, TradeFits, Between,
    Buying, Selling, StrategyInit, Die
<1>2. OrderFits'
  BY DEF IInv, Types, Order, NoOrder, OrderFits, TradeFits, Between,
    Buying, Selling, StrategyInit, Die
<1>3. OrphansFit'
  BY DEF IInv, Types, OrphansFit, Order, TradeFits, Between, Buying,
    Selling, StrategyInit, Die
<1>4. TradeFits'
  BY DEF IInv, Types, TradeFits, OrderFits, Order, Between, Buying,
    Selling, StrategyInit, Die
<1>5. Held'
  BY DEF IInv, Types, Held, Shares, OrderFits, TradeFits, Order, NoOrder,
    Between, Buying, Selling, StrategyInit, Die
<1>6. Books'
  BY DEF IInv, Types, Books, LostBuy, OrphansFit, Shares, OrderFits,
    TradeFits, Order, NoOrder, Between, Buying, Selling, StrategyInit, Die
<1>7. Money'
  BY DEF IInv, Types, Money, Committed, LostBuy, OrphansFit, OrderFits,
    TradeFits, Order, NoOrder, Between, Buying, Selling, StrategyInit, Die
<1> QED BY <1>1, <1>2, <1>3, <1>4, <1>5, <1>6, <1>7 DEF IInv

(* MaybeEnterTrade keeps it: the order it prepares leaves the reserve alone, *)
(* because account_ is fresh.                                                *)
LEMMA EnterPreserves ==
  ASSUME IInv, NEW ticker \in Tickers, NEW limit \in Prices, MaybeEnterTrade(ticker, limit)
  PROVE  IInv'
<1>0. /\ AffordableShares(account_cash, limit) \in Int /\ limit \in Nat \ {0}
      /\ AffordableShares(account_cash, limit) > 0 =>
           AffordableShares(account_cash, limit) * limit <= account_cash - RESERVE
  BY AffordableFacts DEF IInv, Types
<1>1. Types'
  BY <1>0 DEF IInv, Types, Order, NoOrder, OrderFits, TradeFits, Between,
    Buying, Selling, MaybeEnterTrade, LooksForEntry
<1>2. OrderFits'
  BY DEF IInv, Types, Order, NoOrder, OrderFits, TradeFits, Between,
    Buying, Selling, MaybeEnterTrade, LooksForEntry
<1>3. OrphansFit'
  BY DEF IInv, Types, OrphansFit, Order, TradeFits, Between, Buying,
    Selling, MaybeEnterTrade, LooksForEntry
<1>4. TradeFits'
  BY <1>0 DEF IInv, Types, TradeFits, OrderFits, Order, Between, Buying,
    Selling, MaybeEnterTrade, LooksForEntry
<1>5. Held'
  BY DEF IInv, Types, Held, Shares, OrderFits, TradeFits, Order, NoOrder,
    Between, Buying, Selling, MaybeEnterTrade, LooksForEntry
<1>6. Books'
  BY DEF IInv, Types, Books, LostBuy, OrphansFit, Shares, OrderFits,
    TradeFits, Order, NoOrder, Between, Buying, Selling, MaybeEnterTrade,
    LooksForEntry
<1>7. Money'
  BY <1>0 DEF IInv, Types, Money, Committed, LostBuy, OrphansFit,
    OrderFits, TradeFits, Order, NoOrder, Between, Buying, Selling,
    MaybeEnterTrade, LooksForEntry
<1> QED BY <1>1, <1>2, <1>3, <1>4, <1>5, <1>6, <1>7 DEF IInv

(* The buy order of EnterTrade keeps it: it is filled at once, in part, taken *)
(* unseen, or not taken.                                                      *)
LEMMA SubmitBuyPreserves ==
  ASSUME IInv, SubmitBuy
  PROVE  IInv'
<1> DEFINE request == NewOrder(trading_, "buy", qty, limit_price)
<1>0. /\ pc = "submit_buy" /\ trading_ \in Tickers /\ order = NoOrder
      /\ qty \in Nat \ {0} /\ limit_price \in Nat /\ NoOrder \in Order
      /\ UNCHANGED <<clear_, account_cash, market>>
  BY NoOrderType DEF IInv, Types, OrderFits, TradeFits, Between, SubmitBuy
<1>1. ASSUME NEW k \in 0 .. qty, Accept(request, k)
      PROVE  /\ cash' = cash - k * limit_price
             /\ position' = [position EXCEPT ![trading_] = @ + k]
             /\ order' = IF k = qty THEN NoOrder
                         ELSE [ticker |-> trading_, side |-> "buy", qty |-> qty,
                               price |-> limit_price, filled |-> k, open |-> TRUE]
             /\ UNCHANGED orphans
  BY <1>0, <1>1, AcceptFacts
<1> HIDE DEF request
<1>2. ASSUME NEW k \in 0 .. qty, Accept(request, k), k < qty, pc' = "cancel_buy",
             UNCHANGED <<trading_, quantity_, locals, death>>
      PROVE  IInv'
  <2>0. /\ cash' = cash - k * limit_price
        /\ position' = [position EXCEPT ![trading_] = @ + k]
        /\ order' = [ticker |-> trading_, side |-> "buy", qty |-> qty,
                     price |-> limit_price, filled |-> k, open |-> TRUE]
        /\ UNCHANGED orphans
    BY <1>1, <1>2
  <2>1. Types'
    BY <1>0, <1>2, <2>0 DEF IInv, Types, Order, Buying
  <2>2. OrderFits' /\ OrphansFit' /\ TradeFits'
    BY <1>0, <1>2, <2>0 DEF IInv, Types, OrderFits, OrphansFit, TradeFits, Between,
       Buying, Selling
  <2>3. Held' /\ Books'
    BY <1>0, <1>2, <2>0 DEF IInv, Types, Held, Books, LostBuy, Shares, Buying, Selling
  <2>4. Money'
    <3>1. (qty - k) * limit_price = qty * limit_price - k * limit_price
      BY <1>0, Distrib
    <3> QED BY <1>0, <1>2, <2>0, <3>1 DEF IInv, Types, Money, Committed, LostBuy
  <2> QED BY <2>1, <2>2, <2>3, <2>4 DEF IInv
<1>3. ASSUME Accept(request, qty), Entered(qty) PROVE IInv'
  <2>0. /\ cash' = cash - qty * limit_price
        /\ position' = [position EXCEPT ![trading_] = @ + qty]
        /\ order' = NoOrder
        /\ UNCHANGED orphans
    BY <1>0, <1>1, <1>3
  <2>1. /\ quantity_' = qty /\ trading_' = trading_ /\ pc' = "idle"
        /\ qty' = 0 /\ limit_price' = 0 /\ UNCHANGED <<filled, resume, death>>
    BY <1>0, <1>3 DEF Entered
  <2>2. Types'
    BY <1>0, <2>0, <2>1 DEF IInv, Types, Between
  <2>3. OrderFits' /\ OrphansFit' /\ TradeFits'
    BY <1>0, <2>0, <2>1 DEF IInv, Types, OrderFits, OrphansFit, TradeFits, Between,
       Buying, Selling, NoOrder
  <2>4. Held' /\ Books'
    BY <1>0, <2>0, <2>1 DEF IInv, Types, Held, Books, LostBuy, Shares, Buying, Selling
  <2>5. Money'
    BY <1>0, <2>0, <2>1 DEF IInv, Types, Money, Committed, LostBuy, NoOrder
  <2> QED BY <2>2, <2>3, <2>4, <2>5 DEF IInv
<1>4. ASSUME Entered(0), UNCHANGED <<cash, position, order>>,
             UNCHANGED orphans \/ AcceptUnseen(request)
      PROVE  IInv'
  <2>0. /\ quantity_' = 0 /\ trading_' = NoTicker /\ pc' = "idle"
        /\ qty' = 0 /\ limit_price' = 0 /\ UNCHANGED <<filled, resume, death>>
    BY <1>4 DEF Entered
  <2>1. /\ IsABag(orphans')
        /\ \/ UNCHANGED orphans
           \/ /\ BagToSet(orphans') = BagToSet(orphans) \cup {request}
              /\ request \in Order /\ request.ticker \in Tickers /\ request.side = "buy"
    <3>1. request \in Order /\ request.ticker \in Tickers /\ request.side = "buy"
      BY <1>0, NewOrderFacts DEF request
    <3>2. IsABag(orphans)
      BY DEF IInv, Types
    <3>3. AcceptUnseen(request) =>
            IsABag(orphans') /\ BagToSet(orphans') = BagToSet(orphans) \cup {request}
      BY <3>2, UnseenFacts
    <3> QED BY <1>4, <3>1, <3>2, <3>3
  <2>2. Types'
    BY <1>0, <1>4, <2>0, <2>1 DEF IInv, Types, Between
  <2>3. OrderFits' /\ OrphansFit' /\ TradeFits'
    BY <1>0, <1>4, <2>0, <2>1 DEF IInv, Types, OrderFits, OrphansFit, TradeFits,
       Between, Buying, Selling, NoOrder
  <2>4. Held' /\ Books'
    BY <1>0, <1>4, <2>0, <2>1 DEF IInv, Types, Held, Books, LostBuy, Shares, Buying,
       Selling
  <2>5. Money'
    <3>1. qty * limit_price >= 0
      BY <1>0
    <3> QED BY <1>0, <1>4, <2>0, <2>1, <3>1 DEF IInv, Types, Money, Committed,
       LostBuy, NoOrder
  <2> QED BY <2>2, <2>3, <2>4, <2>5 DEF IInv
<1> QED
  BY <1>0, <1>2, <1>3, <1>4 DEF SubmitBuy, request, AcceptUnseen

(* cancelOrder in EnterTrade keeps it. *)
LEMMA CancelBuyPreserves ==
  ASSUME IInv, CancelBuy
  PROVE  IInv'
<1>1. Types'
  BY DEF IInv, Types, Order, NoOrder, OrderFits, TradeFits, Between,
    Buying, Selling, CancelBuy, CancelOrder, CancelOpen, Die
<1>2. OrderFits'
  BY DEF IInv, Types, Order, NoOrder, OrderFits, TradeFits, Between,
    Buying, Selling, CancelBuy, CancelOrder, CancelOpen, Die
<1>3. OrphansFit'
  BY DEF IInv, Types, OrphansFit, Order, TradeFits, Between, Buying,
    Selling, CancelBuy, CancelOrder, CancelOpen, Die
<1>4. TradeFits'
  BY DEF IInv, Types, TradeFits, OrderFits, Order, Between, Buying,
    Selling, CancelBuy, CancelOrder, CancelOpen, Die
<1>5. Held'
  BY DEF IInv, Types, Held, Shares, OrderFits, TradeFits, Order, NoOrder,
    Between, Buying, Selling, CancelBuy, CancelOrder, CancelOpen, Die
<1>6. Books'
  BY DEF IInv, Types, Books, LostBuy, OrphansFit, Shares, OrderFits,
    TradeFits, Order, NoOrder, Between, Buying, Selling, CancelBuy,
    CancelOrder, CancelOpen, Die
<1>7. Money'
  BY DEF IInv, Types, Money, Committed, LostBuy, OrphansFit, OrderFits,
    TradeFits, Order, NoOrder, Between, Buying, Selling, CancelBuy,
    CancelOrder, CancelOpen, Die
<1> QED BY <1>1, <1>2, <1>3, <1>4, <1>5, <1>6, <1>7 DEF IInv

(* getOrder in EnterTrade keeps it: quantity_ becomes what was bought. *)
LEMMA GetBuyPreserves ==
  ASSUME IInv, GetBuy
  PROVE  IInv'
<1>0. NoOrder \in Order /\ order.filled \in Nat
  BY NoOrderType DEF IInv, Types, Order
<1>1. Types'
  BY <1>0 DEF IInv, Types, TradeFits, OrderFits, Between, Buying, Selling,
    GetBuy, Bought, Entered, Forget, Die
<1>2. OrderFits'
  BY DEF IInv, Types, Order, NoOrder, OrderFits, TradeFits, Between,
    Buying, Selling, GetBuy, Bought, Entered, Forget, Die
<1>3. OrphansFit'
  BY DEF IInv, Types, OrphansFit, Order, TradeFits, Between, Buying,
    Selling, GetBuy, Bought, Entered, Forget, Die
<1>4. TradeFits'
  BY DEF IInv, Types, TradeFits, OrderFits, Order, Between, Buying,
    Selling, GetBuy, Bought, Entered, Forget, Die
<1>5. Held'
  BY DEF IInv, Types, Held, Shares, OrderFits, TradeFits, Order, NoOrder,
    Between, Buying, Selling, GetBuy, Bought, Entered, Forget, Die
<1>6. Books'
  BY DEF IInv, Types, Books, LostBuy, OrphansFit, Shares, OrderFits,
    TradeFits, Order, NoOrder, Between, Buying, Selling, GetBuy, Bought,
    Entered, Forget, Die
<1>7. Money'
  BY DEF IInv, Types, Money, Committed, LostBuy, OrphansFit, OrderFits,
    TradeFits, Order, NoOrder, Between, Buying, Selling, GetBuy, Bought,
    Entered, Forget, Die
<1> QED BY <1>1, <1>2, <1>3, <1>4, <1>5, <1>6, <1>7 DEF IInv

(* The exit rules keep it. *)
LEMMA RulesPreserves ==
  ASSUME IInv, NEW rule, NEW later, pc \in {"idle", "manage"}, trading_ # NoTicker, ExitRules(rule, later)
  PROVE  IInv'
<1>1. Types'
  BY DEF IInv, Types, Order, NoOrder, OrderFits, TradeFits, Between,
    Buying, Selling, ExitRules
<1>2. OrderFits'
  BY DEF IInv, Types, Order, NoOrder, OrderFits, TradeFits, Between,
    Buying, Selling, ExitRules
<1>3. OrphansFit'
  BY DEF IInv, Types, OrphansFit, Order, TradeFits, Between, Buying,
    Selling, ExitRules
<1>4. TradeFits'
  BY DEF IInv, Types, TradeFits, OrderFits, Order, Between, Buying,
    Selling, ExitRules
<1>5. Held'
  BY DEF IInv, Types, Held, Shares, OrderFits, TradeFits, Order, NoOrder,
    Between, Buying, Selling, ExitRules
<1>6. Books'
  BY DEF IInv, Types, Books, LostBuy, OrphansFit, Shares, OrderFits,
    TradeFits, Order, NoOrder, Between, Buying, Selling, ExitRules
<1>7. Money'
  BY DEF IInv, Types, Money, Committed, LostBuy, OrphansFit, OrderFits,
    TradeFits, Order, NoOrder, Between, Buying, Selling, ExitRules
<1> QED BY <1>1, <1>2, <1>3, <1>4, <1>5, <1>6, <1>7 DEF IInv

(* Line 160 keeps it. *)
LEMMA KeepClearingPreserves ==
  ASSUME IInv, KeepClearing
  PROVE  IInv'
<1>1. Types'
  BY DEF IInv, Types, Order, NoOrder, OrderFits, TradeFits, Between,
    Buying, Selling, KeepClearing
<1>2. OrderFits'
  BY DEF IInv, Types, Order, NoOrder, OrderFits, TradeFits, Between,
    Buying, Selling, KeepClearing
<1>3. OrphansFit'
  BY DEF IInv, Types, OrphansFit, Order, TradeFits, Between, Buying,
    Selling, KeepClearing
<1>4. TradeFits'
  BY DEF IInv, Types, TradeFits, OrderFits, Order, Between, Buying,
    Selling, KeepClearing
<1>5. Held'
  BY DEF IInv, Types, Held, Shares, OrderFits, TradeFits, Order, NoOrder,
    Between, Buying, Selling, KeepClearing
<1>6. Books'
  BY DEF IInv, Types, Books, LostBuy, OrphansFit, Shares, OrderFits,
    TradeFits, Order, NoOrder, Between, Buying, Selling, KeepClearing
<1>7. Money'
  BY DEF IInv, Types, Money, Committed, LostBuy, OrphansFit, OrderFits,
    TradeFits, Order, NoOrder, Between, Buying, Selling, KeepClearing
<1> QED BY <1>1, <1>2, <1>3, <1>4, <1>5, <1>6, <1>7 DEF IInv

(* The exit rules on a position that is gone keep it. *)
LEMMA ManageNothingPreserves ==
  ASSUME IInv, ManageNothing
  PROVE  IInv'
<1>1. Types'
  BY DEF IInv, Types, Order, NoOrder, OrderFits, TradeFits, Between,
    Buying, Selling, ManageNothing, Die
<1>2. OrderFits'
  BY DEF IInv, Types, Order, NoOrder, OrderFits, TradeFits, Between,
    Buying, Selling, ManageNothing, Die
<1>3. OrphansFit'
  BY DEF IInv, Types, OrphansFit, Order, TradeFits, Between, Buying,
    Selling, ManageNothing, Die
<1>4. TradeFits'
  BY DEF IInv, Types, TradeFits, OrderFits, Order, Between, Buying,
    Selling, ManageNothing, Die
<1>5. Held'
  BY DEF IInv, Types, Held, Shares, OrderFits, TradeFits, Order, NoOrder,
    Between, Buying, Selling, ManageNothing, Die
<1>6. Books'
  BY DEF IInv, Types, Books, LostBuy, OrphansFit, Shares, OrderFits,
    TradeFits, Order, NoOrder, Between, Buying, Selling, ManageNothing, Die
<1>7. Money'
  BY DEF IInv, Types, Money, Committed, LostBuy, OrphansFit, OrderFits,
    TradeFits, Order, NoOrder, Between, Buying, Selling, ManageNothing, Die
<1> QED BY <1>1, <1>2, <1>3, <1>4, <1>5, <1>6, <1>7 DEF IInv

(* The sell order of ClearPosition keeps it. *)
LEMMA SubmitSellPreserves ==
  ASSUME IInv, SubmitSell
  PROVE  IInv'
<1>1. PICK limit \in Prices :
       LET request == NewOrder(trading_, "sell", quantity_, limit)
       IN  \/ \E k \in 0 .. quantity_ :
                /\ Accept(request, k)
                /\ IF k < quantity_
                   THEN pc' = "cancel_sell" /\ UNCHANGED filled
                   ELSE pc' = "settle" /\ filled' = k
                /\ UNCHANGED <<qty, limit_price, resume, death>>
           \/ Die("stoi") /\ UNCHANGED broker
           \/ Die("stoi") /\ AcceptUnseen(request)
  BY DEF SubmitSell, SellFails
<1> DEFINE request == NewOrder(trading_, "sell", quantity_, limit)
<1>0. /\ pc = "submit_sell" /\ trading_ \in Tickers /\ order = NoOrder
      /\ quantity_ \in Nat /\ limit \in Nat /\ NoOrder \in Order
      /\ UNCHANGED <<strategy, market>>
      /\ position[trading_] \in Nat /\ position[trading_] >= quantity_
  BY NoOrderType DEF IInv, Types, OrderFits, TradeFits, Held, Shares, Between, Buying,
     Selling, SubmitSell
<1>2. ASSUME NEW k \in 0 .. quantity_, Accept(request, k),
             IF k < quantity_ THEN pc' = "cancel_sell" /\ UNCHANGED filled
                              ELSE pc' = "settle" /\ filled' = k,
             UNCHANGED <<qty, limit_price, resume, death>>
      PROVE  IInv'
  <2>0. /\ cash' = cash + k * limit
        /\ position' = [position EXCEPT ![trading_] = @ - k]
        /\ order' = IF k = quantity_ THEN NoOrder
                    ELSE [ticker |-> trading_, side |-> "sell", qty |-> quantity_,
                          price |-> limit, filled |-> k, open |-> TRUE]
        /\ UNCHANGED orphans
    BY <1>0, <1>2, AcceptFacts
  <2>a. k * limit \in Nat /\ position[trading_] - k \in Nat
    BY <1>0
  <2> HIDE DEF request
  <2>1. Types'
    <3>1. order' \in Order
      BY <1>0, <2>0 DEF Order
    <3> QED BY <1>0, <1>2, <2>0, <2>a, <3>1 DEF IInv, Types, Between, Selling
  <2>2. OrderFits' /\ OrphansFit' /\ TradeFits'
    BY <1>0, <1>2, <2>0 DEF IInv, Types, OrderFits, OrphansFit, TradeFits, Between,
       Buying, Selling, NoOrder
  <2>3. Held' /\ Books'
    BY <1>0, <1>2, <2>0 DEF IInv, Types, Held, Books, LostBuy, Shares, Buying, Selling
  <2>4. Money'
    BY <1>0, <1>2, <2>0, <2>a DEF IInv, Types, Money, Committed, LostBuy, NoOrder
  <2> QED BY <2>1, <2>2, <2>3, <2>4 DEF IInv
<1>3. ASSUME Die("stoi"), UNCHANGED <<cash, position, order>>,
             UNCHANGED orphans \/ AcceptUnseen(request)
      PROVE  IInv'
  <2>0. pc' = "dead" /\ UNCHANGED locals
    BY <1>3 DEF Die
  <2>1. /\ IsABag(orphans')
        /\ \/ UNCHANGED orphans
           \/ /\ BagToSet(orphans') = BagToSet(orphans) \cup {request}
              /\ request \in Order /\ request.ticker = trading_ /\ request.side = "sell"
    BY <1>0, <1>3, UnseenFacts, NewOrderFacts DEF request, IInv, Types
  <2> HIDE DEF request
  <2>2. Types'
    BY <1>0, <1>3, <2>0, <2>1 DEF IInv, Types
  <2>3. OrderFits' /\ OrphansFit' /\ TradeFits'
    BY <1>0, <1>3, <2>0, <2>1 DEF IInv, Types, OrderFits, OrphansFit, TradeFits,
       Between, Buying, Selling, NoOrder
  <2>4. Held' /\ Books'
    BY <1>0, <1>3, <2>0, <2>1 DEF IInv, Types, Held, Books, LostBuy, OrphansFit,
       Shares, Buying, Selling, NoOrder
  <2>5. Money'
    BY <1>0, <1>3, <2>0, <2>1 DEF IInv, Types, Money, Committed, LostBuy, NoOrder
  <2> QED BY <2>2, <2>3, <2>4, <2>5 DEF IInv
<1> QED
  BY <1>1, <1>2, <1>3 DEF request, AcceptUnseen

(* cancelOrder in ClearPosition keeps it. *)
LEMMA CancelSellPreserves ==
  ASSUME IInv, CancelSell
  PROVE  IInv'
<1>1. Types'
  BY DEF IInv, Types, Order, NoOrder, OrderFits, TradeFits, Between,
    Buying, Selling, CancelSell, CancelOrder, CancelOpen, Die
<1>2. OrderFits'
  BY DEF IInv, Types, Order, NoOrder, OrderFits, TradeFits, Between,
    Buying, Selling, CancelSell, CancelOrder, CancelOpen, Die
<1>3. OrphansFit'
  BY DEF IInv, Types, OrphansFit, Order, TradeFits, Between, Buying,
    Selling, CancelSell, CancelOrder, CancelOpen, Die
<1>4. TradeFits'
  BY DEF IInv, Types, TradeFits, OrderFits, Order, Between, Buying,
    Selling, CancelSell, CancelOrder, CancelOpen, Die
<1>5. Held'
  BY DEF IInv, Types, Held, Shares, OrderFits, TradeFits, Order, NoOrder,
    Between, Buying, Selling, CancelSell, CancelOrder, CancelOpen, Die
<1>6. Books'
  BY DEF IInv, Types, Books, LostBuy, OrphansFit, Shares, OrderFits,
    TradeFits, Order, NoOrder, Between, Buying, Selling, CancelSell,
    CancelOrder, CancelOpen, Die
<1>7. Money'
  BY DEF IInv, Types, Money, Committed, LostBuy, OrphansFit, OrderFits,
    TradeFits, Order, NoOrder, Between, Buying, Selling, CancelSell,
    CancelOrder, CancelOpen, Die
<1> QED BY <1>1, <1>2, <1>3, <1>4, <1>5, <1>6, <1>7 DEF IInv

(* getOrder in ClearPosition keeps it. *)
LEMMA GetSellPreserves ==
  ASSUME IInv, GetSell
  PROVE  IInv'
<1>0. NoOrder \in Order /\ order.filled \in Nat
  BY NoOrderType DEF IInv, Types, Order
<1>1. Types'
  BY <1>0 DEF IInv, Types, TradeFits, OrderFits, Between, Buying, Selling,
    GetSell, Forget, Die
<1>2. OrderFits'
  BY DEF IInv, Types, Order, NoOrder, OrderFits, TradeFits, Between,
    Buying, Selling, GetSell, Forget, Die
<1>3. OrphansFit'
  BY DEF IInv, Types, OrphansFit, Order, TradeFits, Between, Buying,
    Selling, GetSell, Forget, Die
<1>4. TradeFits'
  BY DEF IInv, Types, TradeFits, OrderFits, Order, Between, Buying,
    Selling, GetSell, Forget, Die
<1>5. Held'
  BY DEF IInv, Types, Held, Shares, OrderFits, TradeFits, Order, NoOrder,
    Between, Buying, Selling, GetSell, Forget, Die
<1>6. Books'
  BY DEF IInv, Types, Books, LostBuy, OrphansFit, Shares, OrderFits,
    TradeFits, Order, NoOrder, Between, Buying, Selling, GetSell, Forget,
    Die
<1>7. Money'
  BY DEF IInv, Types, Money, Committed, LostBuy, OrphansFit, OrderFits,
    TradeFits, Order, NoOrder, Between, Buying, Selling, GetSell, Forget,
    Die
<1> QED BY <1>1, <1>2, <1>3, <1>4, <1>5, <1>6, <1>7 DEF IInv

(* The end of ClearPosition keeps it: quantity_ goes down by what was sold, and *)
(* account_ is fresh again.                                                     *)
LEMMA SettlePreserves ==
  ASSUME IInv, SettleAccount
  PROVE  IInv'
<1>1. Types'
  BY DEF IInv, Types, Order, NoOrder, OrderFits, TradeFits, Between,
    Buying, Selling, SettleAccount, Unsold, IsSoldOut, Refreshed, Die
<1>2. OrderFits'
  BY DEF IInv, Types, Order, NoOrder, OrderFits, TradeFits, Between,
    Buying, Selling, SettleAccount, Unsold, IsSoldOut, Refreshed, Die
<1>3. OrphansFit'
  BY DEF IInv, Types, OrphansFit, Order, TradeFits, Between, Buying,
    Selling, SettleAccount, Unsold, IsSoldOut, Refreshed, Die
<1>4. TradeFits'
  BY DEF IInv, Types, TradeFits, OrderFits, Order, Between, Buying,
    Selling, SettleAccount, Unsold, IsSoldOut, Refreshed, Die
<1>5. Held'
  BY DEF IInv, Types, Held, Shares, OrderFits, TradeFits, Order, NoOrder,
    Between, Buying, Selling, SettleAccount, Unsold, IsSoldOut, Refreshed,
    Die
<1>6. Books'
  BY DEF IInv, Types, Books, LostBuy, OrphansFit, Shares, OrderFits,
    TradeFits, Order, NoOrder, Between, Buying, Selling, SettleAccount,
    Unsold, IsSoldOut, Refreshed, Die
<1>7. Money'
  BY DEF IInv, Types, Money, Committed, LostBuy, OrphansFit, OrderFits,
    TradeFits, Order, NoOrder, Between, Buying, Selling, SettleAccount,
    Unsold, IsSoldOut, Refreshed, Die
<1> QED BY <1>1, <1>2, <1>3, <1>4, <1>5, <1>6, <1>7 DEF IInv

(* One more share of an order. *)
LEMMA FilledFacts ==
  ASSUME NEW o \in Order, o.filled + 1 <= o.qty
  PROVE  LET f == Filled(o, 1)
         IN  /\ f \in Order /\ f.filled = o.filled + 1
             /\ f.ticker = o.ticker /\ f.side = o.side /\ f.qty = o.qty /\ f.price = o.price
             /\ f.open => o.open
             /\ f.open <=> (o.open /\ o.filled + 1 < o.qty)
<1> DEFINE f == Filled(o, 1)
           b == o.open /\ o.filled + 1 < o.qty
           n == o.filled + 1
<1>1. /\ b \in BOOLEAN /\ n \in Nat
      /\ DOMAIN o = {"ticker", "side", "qty", "price", "filled", "open"}
      /\ o = [ticker |-> o.ticker, side |-> o.side, qty |-> o.qty, price |-> o.price,
              filled |-> o.filled, open |-> o.open]
  BY DEF Order
<1>2. f = [o EXCEPT !.filled = n, !.open = b]
  BY DEF Filled
<1>3. b => o.open
  OBVIOUS
<1> HIDE DEF f, b, n
<1>4. f \in Order
  BY <1>1, <1>2 DEF Order
<1>5. /\ f.filled = n /\ f.open = b
      /\ f.ticker = o.ticker /\ f.side = o.side /\ f.qty = o.qty /\ f.price = o.price
  BY <1>1, <1>2
<1> QED BY <1>3, <1>4, <1>5 DEF f, b, n

(* The cash and the position after one more share. *)
LEMMA SettleFacts ==
  ASSUME NEW o \in Order, o.ticker \in Tickers, o.side \in {"buy", "sell"},
         o.side = "sell" => position[o.ticker] >= 1,
         cash \in Int, position \in [Tickers -> Nat], Settle(o, 1)
  PROVE  /\ cash' = IF o.side = "buy" THEN cash - o.price ELSE cash + o.price
         /\ position' = [position EXCEPT ![o.ticker] = IF o.side = "buy" THEN @ + 1 ELSE @ - 1]
         /\ cash' \in Int /\ position' \in [Tickers -> Nat]
<1>1. o.price \in Nat /\ 1 * o.price = o.price
  BY DEF Order
<1>2. /\ cash' = IF o.side = "buy" THEN cash - o.price ELSE cash + o.price
      /\ position' = [position EXCEPT ![o.ticker] = IF o.side = "buy" THEN @ + 1 ELSE @ - 1]
  BY <1>1 DEF Settle
<1> QED BY <1>1, <1>2

(* The amounts of the invariant are integers. *)
LEMMA AmountTypes ==
  ASSUME Types
  PROVE  Shares \in Int /\ Committed \in Int
<1>1. /\ order.filled \in Nat /\ order.qty \in Nat /\ order.price \in Nat
  BY DEF Types, Order
<1>2. qty * limit_price \in Int /\ (order.qty - order.filled) * order.price \in Int
  BY <1>1 DEF Types
<1> QED BY <1>1, <1>2 DEF Types, Shares, Committed

(* A fill of the strategy's own order keeps it. *)
LEMMA FillOrderPreserves ==
  ASSUME IInv, FillOrder, UNCHANGED <<strategy, pc, locals, market, death>>
  PROVE  IInv'
<1>1. /\ order \in Order /\ order.open /\ order.filled + 1 <= order.qty
      /\ order.ticker \in Tickers /\ order.side \in {"buy", "sell"}
      /\ pc \in {"cancel_buy", "cancel_sell", "dead"}
      /\ order.side = "sell" => position[order.ticker] >= 1
  BY DEF IInv, Types, OrderFits, FillOrder, CanFill, Between, Buying, Selling, NoOrder
<1>2. /\ order' \in Order /\ order'.filled = order.filled + 1
      /\ order'.ticker = order.ticker /\ order'.side = order.side
      /\ order'.qty = order.qty /\ order'.price = order.price
      /\ order'.open <=> (order.filled + 1 < order.qty)
  BY <1>1, FilledFacts DEF FillOrder
<1>3. /\ cash' = IF order.side = "buy" THEN cash - order.price ELSE cash + order.price
      /\ position' = [position EXCEPT ![order.ticker] = IF order.side = "buy" THEN @ + 1 ELSE @ - 1]
      /\ cash' \in Int /\ position' \in [Tickers -> Nat]
      /\ UNCHANGED orphans
  BY <1>1, SettleFacts DEF IInv, Types, FillOrder
<1>4. order.filled \in Nat /\ order.qty \in Nat /\ order.price \in Nat
  BY <1>1 DEF Order
<1>5. Types'
  BY <1>2, <1>3 DEF IInv, Types
<1>6. OrderFits' /\ OrphansFit' /\ TradeFits'
  BY <1>1, <1>2, <1>3, <1>4 DEF IInv, Types, OrderFits, OrphansFit, TradeFits,
     Between, Buying, Selling
<1>7. Held' /\ Books'
  BY <1>1, <1>2, <1>3, <1>4 DEF IInv, Types, OrderFits, Held, Books, LostBuy, Shares,
     Between, Buying, Selling
<1>8. Money'
  <2>1. (order.qty - (order.filled + 1)) * order.price = (order.qty - order.filled) * order.price - order.price
    BY <1>4, Distrib
  <2>2. order.filled + 1 = order.qty => (order.qty - order.filled) * order.price = order.price
    BY <1>4
  <2>3. (order.qty - order.filled) * order.price \in Int
    BY <1>4
  <2> DEFINE before == (order.qty - order.filled) * order.price
             after == (order.qty - (order.filled + 1)) * order.price
  <2>4. order'.open /\ order.side = "buy" => Committed' = after
    BY <1>1, <1>2 DEF Committed
  <2>5. ~order'.open \/ order.side # "buy" => Committed' = 0
    BY <1>1, <1>2 DEF Committed
  <2>6. order.side = "buy" => Committed = before
    BY <1>1 DEF Committed
  <2>7. order.side # "buy" => Committed = 0
    BY <1>1 DEF Committed
  <2>8. ~order'.open => order.filled + 1 = order.qty
    BY <1>1, <1>2, <1>4
  <2> HIDE DEF before, after
  <2>9. cash' - Committed' >= cash - Committed
    BY <1>3, <1>4, <2>1, <2>2, <2>3, <2>4, <2>5, <2>6, <2>7, <2>8 DEF before, after,
       IInv, Types
  <2>10. Committed \in Int /\ Committed' \in Int /\ RESERVE \in Int /\ cash \in Int
    BY <1>5, AmountTypes, <2>1, <2>3, <2>4, <2>5, <1>4 DEF before, after, IInv, Types
  <2>11. pc # "manage" /\ pc # "submit_buy" /\ pc # "idle" /\ (LostBuy <=> LostBuy') /\ pc' = pc
    BY <1>1, <1>3 DEF LostBuy
  <2> QED BY <1>3, <2>9, <2>10, <2>11 DEF IInv, Money
<1> QED BY <1>5, <1>6, <1>7, <1>8 DEF IInv

(* A fill of an order the strategy lost keeps it. *)
LEMMA FillOrphanPreserves ==
  ASSUME IInv, FillOrphan, UNCHANGED <<strategy, pc, locals, market, death>>
  PROVE  IInv'
<1>1. PICK o \in BagToSet(orphans) :
        /\ CanFill(o, 1) /\ Settle(o, 1)
        /\ orphans' = (orphans (-) SetToBag({o})) (+) SetToBag({Filled(o, 1)})
        /\ UNCHANGED order
  BY DEF FillOrphan
<1>2. /\ o \in Order /\ o.ticker \in Tickers
      /\ pc # "dead" => o.side = "buy"
      /\ o.filled + 1 <= o.qty /\ (o.side = "sell" => position[o.ticker] >= 1)
  BY <1>1 DEF IInv, OrphansFit, CanFill
<1> DEFINE f == Filled(o, 1)
<1>3. f \in Order /\ f.ticker = o.ticker /\ f.side = o.side
  BY <1>2, FilledFacts
<1>4. /\ IsABag(orphans')
      /\ BagToSet(orphans') \subseteq BagToSet(orphans) \cup {f}
      /\ (BagToSet(orphans) \ {o}) \cup {f} \subseteq BagToSet(orphans')
  <2>1. /\ IsABag(orphans) /\ o \in BagToSet(orphans)
        /\ orphans' = (orphans (-) SetToBag({o})) (+) SetToBag({f})
    BY <1>1 DEF IInv, Types
  <2> HIDE DEF f
  <2> DEFINE C == (orphans (-) SetToBag({o})) (+) SetToBag({f})
  <2>2. /\ IsABag(C)
        /\ BagToSet(C) \subseteq BagToSet(orphans) \cup {f}
        /\ (BagToSet(orphans) \ {o}) \cup {f} \subseteq BagToSet(C)
    BY <2>1, ReplaceOne
  <2>3. orphans' = C
    BY <2>1
  <2> HIDE DEF C
  <2> QED BY <2>2, <2>3
<1> HIDE DEF f
<1>5. (LostBuy <=> LostBuy') /\ (o.side = "buy" => LostBuy)
  BY <1>1, <1>3, <1>4 DEF LostBuy
<1>6. o.side = "sell" \/ o.side = "buy"
  BY <1>1, <1>2 DEF IInv, OrphansFit
<1>7. /\ cash' = IF o.side = "buy" THEN cash - o.price ELSE cash + o.price
      /\ position' = [position EXCEPT ![o.ticker] = IF o.side = "buy" THEN @ + 1 ELSE @ - 1]
      /\ cash' \in Int /\ position' \in [Tickers -> Nat]
  BY <1>1, <1>2, <1>6, SettleFacts DEF IInv, Types
<1>8. Types' /\ OrderFits' /\ TradeFits' /\ OrphansFit'
  BY <1>1, <1>2, <1>3, <1>4, <1>7 DEF IInv, Types, OrderFits, OrphansFit, TradeFits
<1>9. Held'
  <2>1. Shares' = Shares /\ Shares \in Int
    BY <1>1, AmountTypes DEF IInv, Shares
  <2> QED BY <1>1, <1>2, <1>7, <2>1 DEF IInv, Types, Held
<1>10. Books'
  BY <1>1, <1>2, <1>3, <1>4, <1>5, <1>6, <1>7 DEF IInv, Types, Books
<1>11. Money'
  <2>1. o.price \in Nat
    BY <1>2 DEF Order
  <2>2. Committed' = Committed /\ Committed \in Int
    BY <1>1, AmountTypes DEF IInv, Committed
  <2>3. ~LostBuy => o.side = "sell" /\ pc = "dead"
    BY <1>2, <1>5, <1>6
  <2> QED BY <1>5, <1>7, <2>1, <2>2, <2>3 DEF IInv, Types, Money
<1> QED BY <1>8, <1>9, <1>10, <1>11 DEF IInv

(* It holds initially. *)
LEMMA InitIInv == Init => IInv
<1> SUFFICES ASSUME Init PROVE IInv
  OBVIOUS
<1>1. BagToSet(orphans) = {} /\ IsABag(orphans)
  BY DEF Init, BrokerInit, EmptyBag, SetToBag, BagToSet, IsABag
<1>2. Types
  BY <1>1, NoOrderType DEF Init, BrokerInit, Types, Between
<1>3. OrderFits /\ OrphansFit /\ TradeFits
  BY <1>1 DEF Init, BrokerInit, OrderFits, OrphansFit, TradeFits, Between, Buying,
     Selling, NoOrder
<1>4. Held /\ Books /\ Money
  BY <1>1 DEF Init, BrokerInit, Held, Books, Money, Committed, NoOrder
<1> QED BY <1>2, <1>3, <1>4 DEF IInv

(* Every step keeps it. *)
LEMMA NextIInv == IInv /\ [Next]_vars => IInv'
<1> SUFFICES ASSUME IInv, [Next]_vars PROVE IInv'
  OBVIOUS
<1>1. CASE UNCHANGED vars
  BY <1>1 DEF vars, IInv, Types, OrderFits, OrphansFit, TradeFits, Held, Shares,
     Books, Money, Committed, LostBuy
<1>2. ASSUME NEW rule, NEW later,
             PositionManagement(rule, later) \/ ManageAfterClearing(rule, later)
      PROVE  IInv'
  BY <1>2, RulesPreserves DEF PositionManagement, ManageAfterClearing
<1>3. CASE BrokerFills
  BY <1>3, FillOrderPreserves, FillOrphanPreserves DEF BrokerFills, Fill
<1> QED
  BY <1>1, <1>2, <1>3, InitPreserves, EnterPreserves, SubmitBuyPreserves,
     CancelBuyPreserves,
     GetBuyPreserves, KeepClearingPreserves, ManageNothingPreserves, SubmitSellPreserves,
     CancelSellPreserves, GetSellPreserves, SettlePreserves DEF Next

(* So it always holds. *)
LEMMA SpecIInv == Spec => []IInv
  BY InitIInv, NextIInv, PTL DEF Spec

(* When no answer was lost, no buy order was. *)
LEMMA AnsweredFacts == AllAnswered => BagToSet(orphans) = {} /\ ~LostBuy
  BY DEF AllAnswered, EmptyBag, SetToBag, BagToSet, LostBuy

(* Between two callbacks trading_ and quantity_ are what the account holds, for *)
(* every number of tickers, prices and reserve and every pattern of fills.      *)
THEOREM BooksAgree == Spec => []BooksMatchAccount
<1>1. IInv => BooksMatchAccount
  <2> SUFFICES ASSUME IInv, pc \in {"idle", "manage"}, AllAnswered
               PROVE  /\ position = [t \in Tickers |-> IF t = trading_ THEN quantity_ ELSE 0]
                      /\ trading_ # NoTicker => quantity_ > 0
                      /\ ~order.open
    BY DEF BooksMatchAccount
  <2>1. \A t \in Tickers : position[t] = IF t = trading_ THEN quantity_ ELSE 0
    BY AnsweredFacts DEF IInv, Types, Books, Shares, Buying, Selling
  <2>2. position = [t \in Tickers |-> IF t = trading_ THEN quantity_ ELSE 0]
    BY <2>1 DEF IInv, Types
  <2> QED BY <2>2 DEF IInv, TradeFits, OrderFits, Between, NoOrder
<1> QED BY <1>1, SpecIInv, PTL

(* The account never holds two stocks (line 62). *)
THEOREM OneStock == Spec => []OneStockAtATime
<1>1. IInv => OneStockAtATime
  BY AnsweredFacts DEF IInv, Books, OneStockAtATime
<1> QED BY <1>1, SpecIInv, PTL

(* Buying never takes the cash below the reserve of EnterTrade (line 120). *)
THEOREM ReserveIsKept == Spec => []ReserveKeptWhenAnswered
<1>1. IInv => ReserveKeptWhenAnswered
  <2> SUFFICES ASSUME IInv, AllAnswered, InitialCash >= RESERVE PROVE cash >= RESERVE
    BY DEF ReserveKeptWhenAnswered, ReserveKept
  <2>1. Committed \in Nat
    BY DEF IInv, Types, Committed, Order, OrderFits
  <2> QED BY <2>1, AnsweredFacts DEF IInv, Types, Money
<1> QED BY <1>1, SpecIInv, PTL

(* account_, which only ClearPosition refreshes, is the account's cash whenever *)
(* EnterTrade sizes an order with it.                                           *)
THEOREM CashStaysFresh == Spec => []CashIsFresh
<1>1. IInv => CashIsFresh
  BY AnsweredFacts DEF IInv, Money, CashIsFresh
<1> QED BY <1>1, SpecIInv, PTL

(* ClearPosition never asks the broker for more than the account holds, whatever *)
(* answers are lost.                                                             *)
THEOREM SellsWhatIsHeld == Spec => []NeverSellsMoreThanHeld
<1>1. IInv => NeverSellsMoreThanHeld
  BY DEF IInv, Types, TradeFits, Held, Shares, Buying, Selling, NeverSellsMoreThanHeld
<1> QED BY <1>1, SpecIInv, PTL

(* ClearPosition never lets the strategy go on after a sell order it lost. *)
THEOREM SellOrdersAreSeen == Spec => []NoSellOrderIsLost
<1>1. IInv => NoSellOrderIsLost
  BY DEF IInv, OrphansFit, NoSellOrderIsLost
<1> QED BY <1>1, SpecIInv, PTL

(* The phase of TradeCycle, read off pc and trading_. *)
PhaseShown ==
  /\ LostBuy => CyclePhase = "lost"
  /\ ~LostBuy =>
       /\ pc = "dead" => CyclePhase = "halted"
       /\ pc \in {"submit_buy", "cancel_buy", "get_buy"} => CyclePhase = "opening"
       /\ pc \in {"submit_sell", "cancel_sell", "get_sell", "settle"} => CyclePhase = "closing"
       /\ pc \in {"init", "idle", "manage"} =>
            CyclePhase = IF trading_ = NoTicker THEN "flat" ELSE "holding"

(* CyclePhase is that, before and after a step. *)
LEMMA PhaseFacts == PhaseShown /\ PhaseShown'
  BY DEF PhaseShown, CyclePhase, LostBuy

(* What a step of the strategy has to be. *)
CycleStep == [Cycle!Next]_Cycle!vars

(* A fill of an orphan leaves its side alone. *)
LEMMA OrphanFillKeepsSides ==
  ASSUME IInv, FillOrphan
  PROVE  LostBuy <=> LostBuy'
<1>1. PICK o \in BagToSet(orphans) :
        /\ CanFill(o, 1)
        /\ orphans' = (orphans (-) SetToBag({o})) (+) SetToBag({Filled(o, 1)})
  BY DEF FillOrphan
<1> DEFINE f == Filled(o, 1)
           C == (orphans (-) SetToBag({o})) (+) SetToBag({f})
<1>2. o \in Order /\ o.filled + 1 <= o.qty /\ IsABag(orphans)
  BY <1>1 DEF IInv, Types, OrphansFit, CanFill
<1>3. f.side = o.side
  BY <1>2, FilledFacts
<1>4. orphans' = C
  BY <1>1
<1> HIDE DEF f
<1>5. /\ BagToSet(C) \subseteq BagToSet(orphans) \cup {f}
      /\ (BagToSet(orphans) \ {o}) \cup {f} \subseteq BagToSet(C)
  BY <1>2, ReplaceOne
<1> HIDE DEF C
<1> QED BY <1>3, <1>4, <1>5 DEF LostBuy

(* A lost buy order stays lost. *)
LEMMA LostBuyStays ==
  ASSUME IInv, Next, LostBuy
  PROVE  LostBuy'
<1>1. CASE UNCHANGED orphans
  BY <1>1 DEF LostBuy
<1>2. ASSUME NEW o, AcceptUnseen(o) PROVE LostBuy'
  BY <1>2, UnseenFacts DEF LostBuy, IInv, Types
<1>3. CASE FillOrphan
  BY <1>3, OrphanFillKeepsSides
<1>4. UNCHANGED orphans \/ (\E o : AcceptUnseen(o)) \/ FillOrphan
  BY DEF Next, StrategyInit, MaybeEnterTrade, SubmitBuy, CancelBuy, CancelSell,
     CancelOrder,
     CancelOpen, GetBuy, GetSell, Forget, PositionManagement, ManageAfterClearing, ExitRules,
     KeepClearing, ManageNothing, SubmitSell, SettleAccount, BrokerFills, Fill, FillOrder, Accept
<1> QED BY <1>1, <1>2, <1>3, <1>4

(* After that TradeCycle allows everything. *)
LEMMA AfterLossMaps ==
  ASSUME IInv', LostBuy, LostBuy'
  PROVE  CycleStep
<1>1. Cycle!AfterLoss
  BY PhaseFacts DEF PhaseShown, IInv, Types, Cycle!AfterLoss
<1> QED BY <1>1 DEF CycleStep, Cycle!Next

(* No shares of any stock. *)
LEMMA NothingHeld ==
  ASSUME Types, \A t \in Tickers : position[t] = 0
  PROVE  position = Cycle!Nothing
  BY DEF Types, Cycle!Nothing

(* A step that ends the process is a Halt. *)
LEMMA HaltMaps ==
  ASSUME IInv, ~LostBuy, ~LostBuy', pc' = "dead", UNCHANGED <<trading_, position>>
  PROVE  CycleStep
<1>1. Cycle!Halt
  BY PhaseFacts DEF PhaseShown, Cycle!Halt
<1> QED BY <1>1 DEF CycleStep, Cycle!Next

(* A step within a phase that trades nothing is a stutter. *)
LEMMA StutterMaps ==
  ASSUME IInv, UNCHANGED LostBuy, UNCHANGED <<trading_, position>>,
         \/ pc \in {"init", "idle", "manage"} /\ pc' \in {"init", "idle", "manage"}
         \/ /\ pc \in {"submit_buy", "cancel_buy", "get_buy"}
            /\ pc' \in {"submit_buy", "cancel_buy", "get_buy"}
         \/ /\ pc \in {"submit_sell", "cancel_sell", "get_sell", "settle"}
            /\ pc' \in {"submit_sell", "cancel_sell", "get_sell", "settle"}
         \/ pc = "dead" /\ pc' = "dead"
  PROVE  CycleStep
<1>1. CyclePhase' = CyclePhase
  BY PhaseFacts DEF PhaseShown
<1> QED BY <1>1 DEF CycleStep, Cycle!vars

(* A step that starts ClearPosition is a Close. *)
LEMMA CloseMaps ==
  ASSUME IInv, ~LostBuy, ~LostBuy', UNCHANGED <<trading_, position>>,
         trading_ # NoTicker, pc \in {"idle", "manage"}, pc' = "submit_sell"
  PROVE  CycleStep
<1>1. Cycle!Close
  BY PhaseFacts DEF PhaseShown, Cycle!Close
<1> QED BY <1>1 DEF CycleStep, Cycle!Next

(* A step that buys is a Buy. *)
LEMMA BuyMaps ==
  ASSUME IInv, IInv', ~LostBuy, ~LostBuy', trading_ \in Tickers, UNCHANGED trading_,
         pc \in {"submit_buy", "cancel_buy", "get_buy"},
         pc' \in {"submit_buy", "cancel_buy", "get_buy", "idle"},
         NEW n \in Nat, position' = [position EXCEPT ![trading_] = @ + n],
         pc' = "idle" => position'[trading_] > 0
  PROVE  CycleStep
<1>1. /\ position'[trading_] = position[trading_] + n /\ position[trading_] \in Nat
      /\ position' = [position EXCEPT ![trading_] = position'[trading_]]
  BY DEF IInv, Types
<1>2. Cycle!Buy
  BY <1>1, PhaseFacts DEF PhaseShown, Cycle!Buy, Cycle!HoldNow
<1> QED BY <1>2 DEF CycleStep, Cycle!Next

(* A step that sells is a Sell. *)
LEMMA SellMaps ==
  ASSUME IInv, IInv', ~LostBuy, ~LostBuy', trading_ \in Tickers, UNCHANGED trading_,
         pc \in {"submit_sell", "cancel_sell", "get_sell", "settle"},
         pc' \in {"submit_sell", "cancel_sell", "get_sell", "settle", "idle", "manage"},
         NEW n \in Nat, position' = [position EXCEPT ![trading_] = @ - n],
         pc' \in {"idle", "manage"} => position'[trading_] > 0
  PROVE  CycleStep
<1>1. /\ position'[trading_] = position[trading_] - n /\ position[trading_] \in Nat
      /\ position' = [position EXCEPT ![trading_] = position'[trading_]]
      /\ position'[trading_] \in Nat
  BY DEF IInv, Types
<1>2. Cycle!Sell
  BY <1>1, PhaseFacts DEF PhaseShown, Cycle!Sell, Cycle!HoldNow
<1> QED BY <1>2 DEF CycleStep, Cycle!Next

(* Without a new orphan no buy order is lost. *)
LEMMA SameOrphans == UNCHANGED orphans => UNCHANGED LostBuy
  BY DEF LostBuy

(* Buying or selling nothing. *)
LEMMA NoneTraded ==
  ASSUME Types, NEW t \in Tickers
  PROVE  /\ UNCHANGED position => position' = [position EXCEPT ![t] = @ + 0]
         /\ UNCHANGED position => position' = [position EXCEPT ![t] = @ - 0]
  BY DEF Types

(* MaybeEnterTrade is an Open, or nothing. *)
LEMMA EnterMaps ==
  ASSUME IInv, NEW t \in Tickers, NEW limit \in Prices, MaybeEnterTrade(t, limit), ~LostBuy
  PROVE  CycleStep
<1>1. /\ UNCHANGED <<position, orphans>> /\ pc = "idle" /\ trading_ = NoTicker
      /\ UNCHANGED <<trading_, pc>> \/ (trading_' = t /\ pc' = "submit_buy")
  BY DEF MaybeEnterTrade, LooksForEntry
<1>2. CASE UNCHANGED <<trading_, pc>>
  BY <1>1, <1>2, SameOrphans, StutterMaps
<1>3. CASE trading_' = t /\ pc' = "submit_buy"
  <2>1. Cycle!Open
    BY <1>1, <1>3, SameOrphans, PhaseFacts DEF PhaseShown, Cycle!Open
  <2> QED BY <2>1 DEF CycleStep, Cycle!Next
<1> QED BY <1>1, <1>2, <1>3

(* The buy order is a Buy, a GiveUp when it fails, a Lose when its answer is lost. *)
LEMMA SubmitBuyMaps ==
  ASSUME IInv, IInv', SubmitBuy, ~LostBuy
  PROVE  CycleStep
<1> DEFINE request == NewOrder(trading_, "buy", qty, limit_price)
<1>0. /\ pc = "submit_buy" /\ trading_ \in Tickers /\ trading_ # NoTicker
      /\ qty \in Nat \ {0} /\ limit_price \in Nat
      /\ \A t \in Tickers : position[t] = 0
  <2>1. pc = "submit_buy" /\ Shares = 0
    BY DEF SubmitBuy, Shares, Buying, Selling
  <2> QED BY <2>1 DEF IInv, Types, TradeFits, Books
<1>1. ASSUME NEW k \in 0 .. qty, Accept(request, k),
             UNCHANGED trading_, pc' = "cancel_buy" \/ (pc' = "idle" /\ k = qty)
      PROVE  CycleStep
  <2>1. position' = [position EXCEPT ![trading_] = @ + k] /\ UNCHANGED orphans
    BY <1>0, <1>1, AcceptFacts
  <2>2. position'[trading_] = k
    BY <1>0, <2>1 DEF IInv, Types
  <2> HIDE DEF request
  <2>3. k \in Nat /\ ~LostBuy' /\ (pc' = "idle" => position'[trading_] > 0)
    BY <1>0, <1>1, <2>1, <2>2, SameOrphans
  <2> QED BY <1>0, <1>1, <2>1, <2>3, BuyMaps
<1>2. CASE Entered(0) /\ UNCHANGED broker
  <2>1. position = Cycle!Nothing
    BY <1>0, NothingHeld DEF IInv
  <2>2. Cycle!GiveUp
    BY <1>0, <1>2, <2>1, SameOrphans, PhaseFacts DEF PhaseShown, Entered, Cycle!GiveUp
  <2> QED BY <2>2 DEF CycleStep, Cycle!Next
<1>3. CASE Entered(0) /\ AcceptUnseen(request)
  <2>1. LostBuy' /\ UNCHANGED position
    <3>1. request.side = "buy"
      BY <1>0, NewOrderFacts
    <3> HIDE DEF request
    <3>2. IsABag(orphans)
      BY DEF IInv, Types
    <3> QED BY <1>3, <3>1, <3>2, UnseenFacts DEF LostBuy
  <2> HIDE DEF request
  <2>2. Cycle!Lose
    BY <1>0, <1>3, <2>1, PhaseFacts DEF PhaseShown, Entered, Cycle!Lose
  <2> QED BY <2>2 DEF CycleStep, Cycle!Next
<1> HIDE DEF request
<1>4. \/ \E k \in 0 .. qty : /\ Accept(request, k) /\ UNCHANGED trading_
                             /\ pc' = "cancel_buy" \/ (pc' = "idle" /\ k = qty)
      \/ Entered(0) /\ UNCHANGED broker
      \/ Entered(0) /\ AcceptUnseen(request)
  BY <1>0 DEF SubmitBuy, Entered, request
<1> QED BY <1>1, <1>2, <1>3, <1>4

(* cancelOrder is a stutter or a Halt. *)
LEMMA CancelMaps ==
  ASSUME IInv, CancelBuy \/ CancelSell, ~LostBuy
  PROVE  CycleStep
<1>1. /\ UNCHANGED <<position, orphans, trading_>>
      /\ \/ pc' = "dead"
         \/ pc = "cancel_buy" /\ pc' = "get_buy"
         \/ pc = "cancel_sell" /\ pc' = "get_sell"
  BY DEF CancelBuy, CancelSell, CancelOrder, CancelOpen, Die
<1> QED BY <1>1, SameOrphans, StutterMaps, HaltMaps

(* getOrder in EnterTrade ends the opening phase, or halts. *)
LEMMA GetBuyMaps ==
  ASSUME IInv, IInv', GetBuy, ~LostBuy
  PROVE  CycleStep
<1>1. /\ UNCHANGED <<position, orphans>> /\ pc = "get_buy" /\ trading_ \in Tickers
      /\ position[trading_] = order.filled /\ order.filled \in Nat
  <2>1. pc = "get_buy" /\ Shares = order.filled
    BY DEF GetBuy, Shares, Buying, Selling
  <2> QED BY <2>1 DEF GetBuy, Forget, IInv, Types, Order, TradeFits, Books, Buying
<1>2. CASE Bought > 0 /\ Entered(Bought)
  <2>1. pc' = "idle" /\ UNCHANGED trading_ /\ position'[trading_] > 0
    BY <1>1, <1>2 DEF Entered, Bought
  <2> QED BY <1>1, <2>1, SameOrphans, NoneTraded, BuyMaps DEF IInv
<1>3. CASE pc' = "dead" /\ UNCHANGED trading_
  BY <1>1, <1>3, SameOrphans, HaltMaps
<1> QED BY <1>2, <1>3 DEF GetBuy, Die

(* The exit rules are a Close, or nothing. *)
LEMMA RulesMaps ==
  ASSUME IInv, NEW rule, NEW later, pc \in {"idle", "manage"}, trading_ # NoTicker,
         ExitRules(rule, later), ~LostBuy
  PROVE  CycleStep
<1>1. UNCHANGED <<position, orphans, trading_>> /\ pc' \in {"idle", "submit_sell"}
  BY DEF ExitRules
<1> QED BY <1>1, SameOrphans, StutterMaps, CloseMaps

(* Line 160 is a Close. *)
LEMMA KeepClearingMaps ==
  ASSUME IInv, KeepClearing, ~LostBuy
  PROVE  CycleStep
  BY SameOrphans, CloseMaps DEF KeepClearing

(* Init() and the exit rules on a position that is gone are stutters or a Halt. *)
LEMMA IdleMaps ==
  ASSUME IInv, StrategyInit \/ ManageNothing, ~LostBuy
  PROVE  CycleStep
<1>1. /\ UNCHANGED <<position, orphans, trading_>> /\ pc \in {"init", "manage"}
      /\ pc' \in {"idle", "dead"}
  BY DEF StrategyInit, ManageNothing, Die
<1> QED BY <1>1, SameOrphans, StutterMaps, HaltMaps

(* The sell order is a Sell or a Halt. *)
LEMMA SubmitSellMaps ==
  ASSUME IInv, IInv', SubmitSell, ~LostBuy, ~LostBuy'
  PROVE  CycleStep
<1>0. /\ pc = "submit_sell" /\ trading_ \in Tickers /\ quantity_ \in Nat /\ UNCHANGED trading_
  BY DEF IInv, Types, TradeFits, SubmitSell
<1>1. ASSUME NEW limit \in Prices, NEW k \in 0 .. quantity_,
             Accept(NewOrder(trading_, "sell", quantity_, limit), k),
             pc' \in {"cancel_sell", "settle"}
      PROVE  CycleStep
  <2>1. position' = [position EXCEPT ![trading_] = @ - k]
    BY <1>0, <1>1, AcceptFacts
  <2>2. k \in Nat
    OBVIOUS
  <2> QED BY <1>0, <1>1, <2>1, <2>2, SellMaps
<1>2. CASE pc' = "dead" /\ UNCHANGED position
  BY <1>0, <1>2, HaltMaps
<1>3. \/ pc' = "dead" /\ UNCHANGED position
      \/ \E limit \in Prices : \E k \in 0 .. quantity_ :
           /\ Accept(NewOrder(trading_, "sell", quantity_, limit), k)
           /\ pc' \in {"cancel_sell", "settle"}
  BY DEF SubmitSell, SellFails, Die, AcceptUnseen
<1> QED BY <1>1, <1>2, <1>3

(* getOrder in ClearPosition is a stutter or a Halt. *)
LEMMA GetSellMaps ==
  ASSUME IInv, GetSell, ~LostBuy
  PROVE  CycleStep
<1>1. /\ UNCHANGED <<position, orphans, trading_>> /\ pc = "get_sell"
      /\ pc' \in {"settle", "dead"}
  BY DEF GetSell, Forget, Die
<1> QED BY <1>1, SameOrphans, StutterMaps, HaltMaps

(* The end of ClearPosition is a Finish, a Sell of nothing, or a Halt. *)
LEMMA SettleMaps ==
  ASSUME IInv, IInv', SettleAccount, ~LostBuy
  PROVE  CycleStep
<1>1. /\ pc = "settle" /\ UNCHANGED <<position, orphans>> /\ trading_ \in Tickers
      /\ trading_ # NoTicker /\ pc' \in {"idle", "manage", "dead"}
      /\ ~LostBuy'
      /\ \A t \in Tickers : position[t] = IF t = trading_ THEN quantity_ - filled ELSE 0
      /\ filled <= quantity_ /\ filled \in Nat /\ quantity_ \in Nat
      /\ IF quantity_ - filled <= 0 THEN trading_' = NoTicker ELSE UNCHANGED trading_
  BY SameOrphans DEF SettleAccount, IInv, Types, TradeFits, Books, Shares, Buying,
     Selling,
     Die, IsSoldOut, Unsold
<1>2. CASE quantity_ - filled <= 0
  <2>1. \A t \in Tickers : position[t] = 0
    BY <1>1, <1>2
  <2>2. position = Cycle!Nothing
    BY <2>1, NothingHeld DEF IInv
  <2>3. Cycle!Finish \/ Cycle!Halt
    BY <1>1, <1>2, <2>2, PhaseFacts DEF PhaseShown, Cycle!Finish, Cycle!Halt
  <2> QED BY <2>3 DEF CycleStep, Cycle!Next
<1>3. CASE quantity_ - filled > 0
  <2>1. UNCHANGED trading_ /\ position'[trading_] > 0
    BY <1>1, <1>3
  <2> QED BY <1>1, <2>1, NoneTraded, SellMaps, HaltMaps DEF IInv
<1> QED BY <1>1, <1>2, <1>3

(* A fill is a Buy or a Sell, or comes after the halt. *)
LEMMA FillMaps ==
  ASSUME IInv, IInv', BrokerFills, ~LostBuy, ~LostBuy'
  PROVE  CycleStep
<1>1. UNCHANGED <<trading_, pc>>
  BY DEF BrokerFills
<1>2. PICK o \in Order : /\ CanFill(o, 1) /\ Settle(o, 1)
                         /\ o.ticker = trading_ /\ o.side \in {"buy", "sell"}
                         /\ trading_ \in Tickers
                         /\ \/ pc = "dead"
                            \/ pc = "cancel_buy" /\ o.side = "buy"
                            \/ pc = "cancel_sell" /\ o.side = "sell"
  <2>1. CASE FillOrder
    BY <2>1 DEF FillOrder, CanFill, IInv, Types, OrderFits, Books, Between, Buying,
       Selling, NoOrder
  <2>2. CASE FillOrphan
    BY <2>2 DEF FillOrphan, IInv, OrphansFit, Books, LostBuy
  <2> QED BY <2>1, <2>2 DEF BrokerFills, Fill
<1>3. position' = [position EXCEPT ![trading_] = IF o.side = "buy" THEN @ + 1 ELSE @ - 1]
  BY <1>2, SettleFacts DEF IInv, Types, CanFill
<1>4. CASE pc = "dead"
  <2>1. /\ position'[trading_] \in Nat
        /\ position' = [position EXCEPT ![trading_] = position'[trading_]]
    BY <1>1, <1>2, <1>3 DEF IInv, Types
  <2>2. Cycle!OpenOrderAfterHalt
    BY <1>1, <1>4, <2>1, PhaseFacts DEF PhaseShown, Cycle!OpenOrderAfterHalt,
       Cycle!HoldNow
  <2> QED BY <2>2 DEF CycleStep, Cycle!Next
<1>5. CASE pc = "cancel_buy" /\ o.side = "buy"
  BY <1>1, <1>2, <1>3, <1>5, BuyMaps
<1>6. CASE pc = "cancel_sell" /\ o.side = "sell"
  BY <1>1, <1>2, <1>3, <1>6, SellMaps
<1> QED BY <1>2, <1>4, <1>5, <1>6

(* Every step of the strategy is a step of TradeCycle or a stutter. *)
LEMMA StepMaps == IInv /\ IInv' /\ [Next]_vars => CycleStep
<1> SUFFICES ASSUME IInv, IInv', [Next]_vars PROVE CycleStep
  OBVIOUS
<1>1. CASE UNCHANGED vars
  <2>1. UNCHANGED <<CyclePhase, trading_, position>>
    BY <1>1 DEF vars, CyclePhase
  <2> QED BY <2>1 DEF CycleStep, Cycle!vars
<1>2. CASE Next /\ LostBuy
  BY <1>2, LostBuyStays, AfterLossMaps
<1>3. CASE Next /\ ~LostBuy
  <2>1. ASSUME NEW rule, NEW later,
               PositionManagement(rule, later) \/ ManageAfterClearing(rule, later)
        PROVE  CycleStep
    BY <1>3, <2>1, RulesMaps DEF PositionManagement, ManageAfterClearing
  <2>2. CASE SubmitSell
    <3>1. ~LostBuy'
      <4>1. pc # "dead" /\ pc' # "dead" => ~LostBuy'
        BY <1>3, <2>2, SameOrphans DEF SubmitSell, Accept, SellFails, Die
      <4>2. ASSUME NEW limit \in Prices, 
                   AcceptUnseen(NewOrder(trading_, "sell", quantity_, limit))
            PROVE  ~LostBuy'
        <5> DEFINE o == NewOrder(trading_, "sell", quantity_, limit)
        <5>1. trading_ \in Tickers /\ quantity_ \in Nat /\ limit \in Nat /\ IsABag(orphans)
          BY <2>2 DEF IInv, Types, TradeFits, SubmitSell
        <5>2. o.side = "sell"
          BY <5>1, NewOrderFacts
        <5> HIDE DEF o
        <5>3. AcceptUnseen(o)
          BY <4>2 DEF o
        <5> QED BY <1>3, <5>1, <5>2, <5>3, UnseenFacts DEF LostBuy
      <4> QED BY <1>3, <2>2, <4>1, <4>2, SameOrphans DEF SubmitSell, Accept,
         SellFails, Die
    <3> QED BY <1>3, <2>2, <3>1, SubmitSellMaps
  <2>3. CASE BrokerFills
    <3>1. ~LostBuy'
      BY <1>3, <2>3, SameOrphans, OrphanFillKeepsSides DEF BrokerFills, Fill, FillOrder
    <3> QED BY <1>3, <2>3, <3>1, FillMaps
  <2> QED
    BY <1>3, <2>1, <2>2, <2>3, EnterMaps, SubmitBuyMaps, CancelMaps, GetBuyMaps,
       KeepClearingMaps, IdleMaps, GetSellMaps, SettleMaps DEF Next
<1> QED BY <1>1, <1>2, <1>3

(* The initial states map to the initial state. *)
LEMMA InitMaps == Init => Cycle!Init
<1> SUFFICES ASSUME Init PROVE Cycle!Init
  OBVIOUS
<1>1. BagToSet(orphans) = {}
  BY DEF Init, BrokerInit, EmptyBag, SetToBag, BagToSet
<1> QED BY <1>1, PhaseFacts DEF Init, BrokerInit, PhaseShown, LostBuy, Cycle!Init,
   Cycle!Nothing

(* The strategy goes through flat, opening, holding and closing in that order, *)
(* with the shares the account really holds, unless a buy order is lost.       *)
THEOREM TradeCycleIsFollowed == Spec => ImplementsTradeCycle
<1>1. IInv /\ IInv' /\ [Next]_vars => [Cycle!Next]_Cycle!vars
  BY StepMaps DEF CycleStep
<1> QED BY <1>1, InitMaps, SpecIInv, PTL DEF Spec, ImplementsTradeCycle, Cycle!Spec
=============================================================================
