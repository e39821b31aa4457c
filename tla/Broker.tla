------------------------------- MODULE Broker -------------------------------
(***************************************************************************)
(* The brokerage behind alpaca::Client (external), as far as the strategy   *)
(* can tell: an account with cash and positions, and limit orders that are  *)
(* filled share by share until they are complete or cancelled.              *)
(*                                                                          *)
(* order    the order the strategy is dealing with, NoOrder between trades  *)
(* orphans  the orders whose answer was lost: the strategy does not know    *)
(*          them, open or not                                               *)
(*                                                                          *)
(* A fill happens at the limit price, the worst the broker may do.          *)
(***************************************************************************)
EXTENDS Integers, Bags

CONSTANTS Tickers, NoTicker,
          InitialCash,
          Prices,         \* limit prices, cents included
          Faults          \* what may go wrong, a subset of AllFaults

AllFaults == {"call_lost",    \* a request does not arrive, or is refused
              "reply_lost",   \* it is carried out, the answer is lost
              "blocked"}      \* the account is blocked from trading

ASSUME BrokerAssumption ==
  /\ NoTicker \notin Tickers
  /\ InitialCash \in Nat
  /\ Prices \subseteq Nat \ {0}
  /\ Faults \subseteq AllFaults

VARIABLES cash, position, order, orphans

broker == <<cash, position, order, orphans>>

NoOrder == [ticker |-> NoTicker, side |-> "none", qty |-> 0, price |-> 0,
            filled |-> 0, open |-> FALSE]

BrokerInit ==
  /\ cash = InitialCash
  /\ position = [ticker \in Tickers |-> 0]
  /\ order = NoOrder
  /\ orphans = EmptyBag

NewOrder(ticker, side, qty, price) ==
  [ticker |-> ticker, side |-> side, qty |-> qty, price |-> price,
   filled |-> 0, open |-> TRUE]

(* k more shares of an order are bought or sold. *)
Filled(o, k) ==
  [o EXCEPT !.filled = @ + k, !.open = @ /\ o.filled + k < o.qty]

Settle(o, k) ==
  /\ cash' = IF o.side = "buy" THEN cash - k * o.price ELSE cash + k * o.price
  /\ position' = [position EXCEPT
                    ![o.ticker] = IF o.side = "buy" THEN @ + k ELSE @ - k]

(* What a broker may still fill: shares cannot be sold short. *)
CanFill(o, k) ==
  /\ o.open /\ o.filled + k <= o.qty
  /\ o.side = "sell" => position[o.ticker] >= k

(* Fills between two calls of the client. *)
FillOrder ==
  /\ CanFill(order, 1)
  /\ order' = Filled(order, 1)
  /\ Settle(order, 1)
  /\ UNCHANGED orphans

FillOrphan ==
  /\ \E o \in BagToSet(orphans) :
       /\ CanFill(o, 1)
       /\ Settle(o, 1)
       /\ orphans' = (orphans (-) SetToBag({o})) (+) SetToBag({Filled(o, 1)})
  /\ UNCHANGED order

Fill == FillOrder \/ FillOrphan

-----------------------------------------------------------------------------
(* POST /v2/orders: the broker takes no order to sell short.  k shares are  *)
(* filled by the time it answers; a complete order needs no more attention. *)
CanAccept(o) == o.side = "sell" => position[o.ticker] >= o.qty

Accept(o, k) ==
  /\ CanAccept(o)
  /\ order' = IF k = o.qty THEN NoOrder ELSE Filled(o, k)
  /\ Settle(o, k)
  /\ UNCHANGED orphans

(* The order is taken, but the client does not learn of it. *)
AcceptUnseen(o) ==
  /\ CanAccept(o)
  /\ orphans' = orphans (+) SetToBag({o})
  /\ UNCHANGED <<cash, position, order>>

(* DELETE /v2/orders/<id> of an open order: the cancellation is final.      *)
CancelOpen ==
  /\ order.open
  /\ order' = [order EXCEPT !.open = FALSE]
  /\ UNCHANGED <<cash, position, orphans>>

(* The client is done with its order. *)
Forget ==
  /\ order' = NoOrder
  /\ UNCHANGED <<cash, position, orphans>>
=============================================================================
