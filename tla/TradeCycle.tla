----------------------------- MODULE TradeCycle -----------------------------
(***************************************************************************)
(* What the strategy promises its account, without calls, orders or market  *)
(* data: it opens a position in one stock, holds it, and sells it off, in   *)
(* that order, before it opens another.  shares is what the account really  *)
(* holds, of every stock.  After a halt the account is left as it is, but   *)
(* for an order that is still at the broker; and nothing is promised of an  *)
(* account from which a buy order was lost sight of (phase "lost").         *)
(***************************************************************************)
EXTENDS Naturals

CONSTANTS Tickers, NoTicker

VARIABLES phase, ticker, shares

vars == <<phase, ticker, shares>>

Nothing == [t \in Tickers |-> 0]

(* Only shares of t change hands, and n of them are held afterwards. *)
HoldNow(t, n) == shares' = [shares EXCEPT ![t] = n]

Init == phase = "flat" /\ ticker = NoTicker /\ shares = Nothing

Open ==
  /\ phase = "flat" /\ phase' = "opening"
  /\ ticker' \in Tickers
  /\ UNCHANGED shares

Buy ==
  /\ phase = "opening"
  /\ phase' \in {"opening", "holding"}
  /\ shares'[ticker] >= shares[ticker] /\ HoldNow(ticker, shares'[ticker])
  /\ phase' = "holding" => shares'[ticker] > 0
  /\ UNCHANGED ticker

GiveUp ==
  /\ phase = "opening" /\ phase' = "flat"
  /\ ticker' = NoTicker /\ shares = Nothing
  /\ UNCHANGED shares

Close ==
  /\ phase = "holding" /\ phase' = "closing"
  /\ UNCHANGED <<ticker, shares>>

Sell ==
  /\ phase = "closing"
  /\ phase' \in {"closing", "holding"}
  /\ shares'[ticker] \in 0 .. shares[ticker] /\ HoldNow(ticker, shares'[ticker])
  /\ phase' = "holding" => shares'[ticker] > 0
  /\ UNCHANGED ticker

Finish ==
  /\ phase = "closing" /\ phase' = "flat"
  /\ ticker' = NoTicker /\ shares' = Nothing

(* A halt can come with the last share sold. *)
Halt ==
  /\ phase' = "halted"
  /\ \/ UNCHANGED ticker
     \/ phase = "closing" /\ shares = Nothing /\ ticker' = NoTicker
  /\ UNCHANGED shares

OpenOrderAfterHalt ==
  /\ phase = "halted"
  /\ shares'[ticker] \in Nat /\ HoldNow(ticker, shares'[ticker])
  /\ UNCHANGED <<phase, ticker>>

Lose ==
  /\ phase = "opening" /\ phase' = "lost"
  /\ ticker' = NoTicker
  /\ UNCHANGED shares

AfterLoss ==
  /\ phase = "lost" /\ phase' = "lost"
  /\ ticker' \in Tickers \cup {NoTicker}
  /\ shares' \in [Tickers -> Nat]

Next ==
  \/ Lose \/ AfterLoss
  \/ Open \/ Buy \/ GiveUp \/ Close \/ Sell \/ Finish
  \/ Halt \/ OpenOrderAfterHalt

Spec == Init /\ [][Next]_vars
=============================================================================
