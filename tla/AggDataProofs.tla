---------------------------- MODULE AggDataProofs ----------------------------
(***************************************************************************)
(* What AddData does to the queue of one ticker, for every window size w    *)
(* and store size n: the queue stays bounded, aligned, ordered and in       *)
(* range, and no CHECK fails.  When the feed is in order, it also holds the *)
(* newest candles of CandleReference, and AddData tells when a window is    *)
(* closed; in any order, no volume is lost.  Candles of coarse windows are  *)
(* the merges of those of fine ones.  AggDataStoreProofs and                *)
(* DataHandlerProofs rest on these lemmas.                                  *)
(***************************************************************************)
EXTENDS CandleReference, TLAPS, WellFoundedInduction

M == NUM_MILLIS_PER_SECOND
WM(w) == WindowMillis(w)

-----------------------------------------------------------------------------
(* Arithmetic of aligned timestamps. *)

(* Seconds and windows have a positive length. *)
LEMMA WindowMillisPositive ==
  ASSUME NEW w \in Nat \ {0}
  PROVE  M \in Nat \ {0} /\ WM(w) \in Nat \ {0}
  BY MillisAssumption DEF M, WM, WindowMillis

(* What integer division and remainder are. *)
LEMMA DivMod ==
  ASSUME NEW a \in Nat, NEW m \in Nat \ {0}
  PROVE  /\ a % m \in 0 .. m - 1
         /\ a \div m \in Nat
         /\ a = (a \div m) * m + (a % m)
OBVIOUS

(* The remainder of a number that is written as quotient and remainder. *)
LEMMA ModUnique ==
  ASSUME NEW m \in Nat \ {0}, NEW q \in Nat, NEW r \in 0 .. m - 1
  PROVE  (q * m + r) % m = r
OBVIOUS

(* Between two successive multiples there is no other. *)
LEMMA MultipleBeyond ==
  ASSUME NEW m \in Nat \ {0}, NEW p \in Int, NEW q \in Int, q * m > p * m - m
  PROVE  q * m >= p * m
OBVIOUS

(* A window starts on a boundary, not after its first second, which it      *)
(* contains whole.                                                          *)
LEMMA WindowOfSecond ==
  ASSUME NEW w \in Nat \ {0}, NEW second \in Nat
  PROVE  LET start == AggWindowStart(w, second * M)
         IN  /\ start \in Nat
             /\ start % WM(w) = 0
             /\ start <= second * M
             /\ second * M + M <= start + WM(w)
<1> DEFINE q == second \div w
           r == second % w
<1>1. w \in Nat \ {0} /\ M \in Nat \ {0} /\ WM(w) \in Nat \ {0}
  BY WindowMillisPositive
<1>2. /\ q \in Nat /\ r \in 0 .. w - 1
      /\ second = q * w + r
  BY <1>1, DivMod
<1> HIDE DEF q, r
<1>3. WM(w) = w * M
  BY DEF WM, WindowMillis, M
<1>4. second * M = q * WM(w) + r * M
  BY <1>1, <1>2, <1>3
<1>5. r * M \in Nat /\ r * M + M <= WM(w)
  BY <1>1, <1>2, <1>3
<1>6. (second * M) % WM(w) = r * M
  BY <1>1, <1>2, <1>4, <1>5, ModUnique
<1>7. AggWindowStart(w, second * M) = q * WM(w)
  <2>1. q * WM(w) \in Nat /\ second * M \in Nat
    BY <1>1, <1>2
  <2>2. (q * WM(w) + r * M) - r * M = q * WM(w)
    BY <2>1, <1>5
  <2> QED BY <1>4, <1>6, <2>2 DEF AggWindowStart, WM
<1>8. (q * WM(w)) % WM(w) = 0
  <2>1. q * WM(w) = q * WM(w) + 0 /\ 0 \in 0 .. WM(w) - 1
    BY <1>1, <1>2
  <2> QED BY <2>1, <1>1, <1>2, ModUnique
<1>9. q * WM(w) \in Nat /\ second * M \in Nat
  BY <1>1, <1>2
<1> QED
  BY <1>1, <1>4, <1>5, <1>7, <1>8, <1>9

(* Two multiples of the window size a window apart. *)
LEMMA AlignedBeyond ==
  ASSUME NEW w \in Nat \ {0}, NEW a \in Nat, NEW b \in Nat, NEW s \in Nat,
         a % WM(w) = 0, b % WM(w) = 0, s < b + WM(w), s - a >= WM(w)
  PROVE  b >= a + WM(w)
<1> DEFINE m == WM(w)
           p == a \div m
           q == b \div m
<1>1. m \in Nat \ {0}
  BY WindowMillisPositive
<1>a. /\ a % m = 0 /\ b % m = 0
      /\ s < b + m /\ s - a >= m
  OBVIOUS
<1> HIDE DEF m
<1>b. p \in Nat /\ a = p * m
  <2>1. a = (a \div m) * m + (a % m) /\ a \div m \in Nat
    BY <1>1, DivMod
  <2> HIDE DEF p
  <2>2. a = p * m + (a % m) /\ p \in Nat
    BY <2>1 DEF p
  <2> QED BY <1>1, <1>a, <2>2
<1>c. q \in Nat /\ b = q * m
  <2>1. b = (b \div m) * m + (b % m) /\ b \div m \in Nat
    BY <1>1, DivMod
  <2> HIDE DEF q
  <2>2. b = q * m + (b % m) /\ q \in Nat
    BY <2>1 DEF q
  <2> QED BY <1>1, <1>a, <2>2
<1>2. p \in Nat /\ a = p * m /\ q \in Nat /\ b = q * m
  BY <1>b, <1>c
<1> HIDE DEF p, q
<1>3. (p + 1) * m = p * m + m
  BY <1>1, <1>2
<1>4. q * m > (p + 1) * m - m
  BY <1>a, <1>1, <1>2, <1>3
<1>5. q * m >= (p + 1) * m
  BY <1>1, <1>2, <1>4, MultipleBeyond
<1>6. b >= a + m
  BY <1>1, <1>2, <1>3, <1>5
<1> QED BY <1>6 DEF m

(* A second that starts inside an aligned window also ends inside it. *)
LEMMA SecondFits ==
  ASSUME NEW w \in Nat \ {0}, NEW a \in Nat, NEW second \in Nat,
         a % WM(w) = 0, second * M - a < WM(w)
  PROVE  second * M + M <= a + WM(w)
<1> DEFINE m == WM(w)
           p == a \div m
<1>1. w \in Nat \ {0} /\ M \in Nat \ {0} /\ m \in Nat \ {0}
  BY WindowMillisPositive
<1>3. m = w * M
  BY DEF WM, WindowMillis, M
<1>a. a % m = 0 /\ second * M - a < m
  OBVIOUS
<1> HIDE DEF m
<1>2. p \in Nat /\ a = p * m
  BY <1>a, <1>1, DivMod
<1> HIDE DEF p
<1> DEFINE k == p * w + w
<1>4. k \in Nat /\ k * M = a + m
  BY <1>1, <1>2, <1>3
<1> HIDE DEF k
<1>5. second * M < k * M
  BY <1>a, <1>1, <1>2, <1>4
<1>6. second < k
  BY <1>1, <1>4, <1>5
<1>7. (second + 1) * M <= k * M
  BY <1>1, <1>4, <1>6
<1>8. second * M + M <= a + m
  BY <1>1, <1>4, <1>7
<1> QED BY <1>8 DEF m
-----------------------------------------------------------------------------
(* What holds of a candle and of a queue of one ticker. *)

CandleOf(ticker) ==
  [ticker_ : {ticker}, vol_ : Nat, open_ : Int, close_ : Int,
   high_ : Int, low_ : Int, start_ : Nat, end_ : Nat]

CandleInv(w, ticker, agg) ==
  /\ agg \in CandleOf(ticker)
  /\ agg.start_ % WM(w) = 0
  /\ agg.end_ <= agg.start_ + WM(w)
  /\ agg.low_ <= agg.open_ /\ agg.open_ <= agg.high_
  /\ agg.low_ <= agg.close_ /\ agg.close_ <= agg.high_

QueueInv(w, n, ticker, q) ==
  /\ q \in Seq(CandleOf(ticker))
  /\ Len(q) <= n
  /\ \A i \in 1 .. Len(q) : CandleInv(w, ticker, q[i])
  /\ \A i, j \in 1 .. Len(q) : i < j => q[i].start_ >= q[j].start_ + WM(w)

TickFields(tick, second) ==
  /\ tick.v \in Nat
  /\ tick.o \in Int /\ tick.c \in Int /\ tick.h \in Int /\ tick.l \in Int
  /\ tick.l <= tick.o /\ tick.o <= tick.h
  /\ tick.l <= tick.c /\ tick.c <= tick.h
  /\ tick.s = second * M /\ tick.e = second * M + M

(* A queue without candles. *)
LEMMA EmptyQueueInv ==
  ASSUME NEW w \in Nat \ {0}, NEW n \in Nat \ {0}, NEW ticker
  PROVE  QueueInv(w, n, ticker, <<>>)
<1>1. <<>> \in Seq(CandleOf(ticker)) /\ Len(<<>>) = 0 /\ 1 .. 0 = {}
  OBVIOUS
<1> QED BY <1>1 DEF QueueInv

(* The candle a window opens with. *)
LEMMA NewWindowInv ==
  ASSUME NEW w \in Nat \ {0}, NEW tick, NEW second \in Nat, TickFields(tick, second)
  PROVE  CandleInv(w, tick.sym, NewWindow(w, tick))
<1> DEFINE agg == NewWindow(w, tick)
           start == AggWindowStart(w, second * M)
<1>1. /\ start \in Nat /\ start % WM(w) = 0 /\ second * M + M <= start + WM(w)
  BY WindowOfSecond
<1>2. second * M + M \in Nat
  BY WindowMillisPositive
<1>3. agg = [ticker_ |-> tick.sym, vol_ |-> tick.v, open_ |-> tick.o,
             close_ |-> tick.c, high_ |-> tick.h, low_ |-> tick.l,
             start_ |-> start, end_ |-> second * M + M]
  BY DEF NewWindow, AggregateData, TickFields
<1> HIDE DEF start, agg
<1>4. agg \in CandleOf(tick.sym)
  BY <1>1, <1>2, <1>3 DEF CandleOf, TickFields
<1> QED BY <1>1, <1>3, <1>4 DEF CandleInv, TickFields, agg

(* Merging a second into the candle of its window, or, when it is late, of  *)
(* a later window.                                                          *)
LEMMA UpdateWithInv ==
  ASSUME NEW w \in Nat \ {0}, NEW tick, NEW second \in Nat, TickFields(tick, second),
         NEW agg, CandleInv(w, tick.sym, agg),
         ~IsNewAggregate(w, tick, agg)
  PROVE  /\ CandleInv(w, tick.sym, UpdateWith(agg, tick))
         /\ UpdateWith(agg, tick).start_ = agg.start_
<1> DEFINE upd == UpdateWith(agg, tick)
<1>1. agg \in CandleOf(tick.sym) /\ agg.start_ \in Nat
  BY DEF CandleInv, CandleOf
<1>2. M \in Nat \ {0} /\ WM(w) \in Nat \ {0} /\ second * M \in Nat
  BY WindowMillisPositive
<1>3. second * M - agg.start_ < WM(w)
  BY <1>1, <1>2 DEF IsNewAggregate, TickFields, WM
<1>4. second * M + M <= agg.start_ + WM(w)
  BY <1>1, <1>3, SecondFits DEF CandleInv
<1>5. upd = [ticker_ |-> agg.ticker_, vol_ |-> agg.vol_ + tick.v,
             open_ |-> agg.open_, close_ |-> tick.c,
             high_ |-> MaxOf(agg.high_, tick.h), low_ |-> MinOf(agg.low_, tick.l),
             start_ |-> agg.start_, end_ |-> second * M + M]
  BY DEF UpdateWith, TickFields
<1>6. /\ MaxOf(agg.high_, tick.h) \in Int
      /\ MaxOf(agg.high_, tick.h) >= agg.high_ /\ MaxOf(agg.high_, tick.h) >= tick.h
      /\ MinOf(agg.low_, tick.l) \in Int
      /\ MinOf(agg.low_, tick.l) <= agg.low_ /\ MinOf(agg.low_, tick.l) <= tick.l
  BY <1>1 DEF MaxOf, MinOf, CandleOf, TickFields
<1> HIDE DEF upd
<1>7. upd \in CandleOf(tick.sym)
  BY <1>1, <1>2, <1>5, <1>6 DEF CandleOf, TickFields
<1>8. upd.low_ <= upd.open_ /\ upd.open_ <= upd.high_
  BY <1>1, <1>5, <1>6 DEF CandleInv, CandleOf
<1>9. upd.low_ <= upd.close_ /\ upd.close_ <= upd.high_
  BY <1>1, <1>5, <1>6 DEF TickFields
<1> QED BY <1>4, <1>5, <1>7, <1>8, <1>9 DEF CandleInv, upd
-----------------------------------------------------------------------------
(* The two branches of AddData. *)

(* A new window in front, and the eviction of the oldest candle. *)
LEMMA PushFrontInv ==
  ASSUME NEW w \in Nat \ {0}, NEW n \in Nat \ {0},
         NEW ticker, NEW q, QueueInv(w, n, ticker, q),
         NEW agg, CandleInv(w, ticker, agg),
         q # <<>> => agg.start_ >= q[1].start_ + WM(w)
  PROVE  /\ QueueInv(w, n, ticker, PushFront(n, q, agg))
         /\ Head(PushFront(n, q, agg)) = agg
<1> DEFINE r == PushFront(n, q, agg)
<1>1. q \in Seq(CandleOf(ticker)) /\ agg \in CandleOf(ticker) /\ n \in Nat \ {0}
  BY DEF QueueInv, CandleInv
<1>2. Len(q) \in Nat /\ Len(q) <= n
  BY <1>1 DEF QueueInv
<1>3. \E k \in 0 .. Len(q) : r = <<agg>> \o SubSeq(q, 1, k) /\ k + 1 <= n
  <2>1. CASE Len(q) + 1 > n
    <3>1. r = <<agg>> \o SubSeq(q, 1, Len(q) - 1)
      BY <2>1 DEF PushFront
    <3>2. Len(q) - 1 \in 0 .. Len(q) /\ (Len(q) - 1) + 1 <= n
      BY <1>1, <1>2, <2>1
    <3> QED BY <3>1, <3>2
  <2>2. CASE ~(Len(q) + 1 > n)
    <3>1. r = <<agg>> \o q
      BY <2>2 DEF PushFront
    <3>2. SubSeq(q, 1, Len(q)) = q
      BY <1>1
    <3> QED BY <1>1, <1>2, <2>2, <3>1, <3>2
  <2> QED BY <2>1, <2>2
<1> HIDE DEF r
<1>4. PICK k \in 0 .. Len(q) : r = <<agg>> \o SubSeq(q, 1, k) /\ k + 1 <= n
  BY <1>3
<1>5. /\ SubSeq(q, 1, k) \in Seq(CandleOf(ticker))
      /\ Len(SubSeq(q, 1, k)) = k
      /\ \A i \in 1 .. k : SubSeq(q, 1, k)[i] = q[i]
  BY <1>1, <1>2
<1>6. /\ r \in Seq(CandleOf(ticker))
      /\ Len(r) = k + 1
      /\ r[1] = agg
      /\ \A i \in 2 .. k + 1 : r[i] = q[i - 1]
  BY <1>1, <1>4, <1>5
<1>7. \A i \in 1 .. Len(r) : CandleInv(w, ticker, r[i])
  BY <1>2, <1>6 DEF QueueInv
<1>8. \A i \in 1 .. k : agg.start_ >= q[i].start_ + WM(w)
  <2> SUFFICES ASSUME NEW i \in 1 .. k
               PROVE  agg.start_ >= q[i].start_ + WM(w)
    OBVIOUS
  <2>1. q # <<>> /\ 1 \in 1 .. Len(q) /\ i \in 1 .. Len(q)
    BY <1>1, <1>2
  <2>2. q[1] \in CandleOf(ticker) /\ q[i] \in CandleOf(ticker)
    BY <1>1, <2>1
  <2>3. /\ agg.start_ \in Nat /\ q[1].start_ \in Nat /\ q[i].start_ \in Nat
        /\ WM(w) \in Nat
    BY <1>1, <2>2, WindowMillisPositive DEF CandleOf
  <2>4. i = 1 \/ q[1].start_ >= q[i].start_ + WM(w)
    BY <2>1 DEF QueueInv
  <2> QED BY <2>1, <2>3, <2>4
<1>9. \A i, j \in 1 .. Len(r) : i < j => r[i].start_ >= r[j].start_ + WM(w)
  <2> SUFFICES ASSUME NEW i \in 1 .. Len(r), NEW j \in 1 .. Len(r), i < j
               PROVE  r[i].start_ >= r[j].start_ + WM(w)
    OBVIOUS
  <2>1. j \in 2 .. k + 1 /\ j - 1 \in 1 .. k /\ r[j] = q[j - 1]
    BY <1>6
  <2>2. CASE i = 1
    BY <1>6, <1>8, <2>1, <2>2
  <2>3. CASE i # 1
    <3>1. /\ i - 1 \in 1 .. Len(q) /\ j - 1 \in 1 .. Len(q) /\ i - 1 < j - 1
          /\ r[i] = q[i - 1]
      BY <1>2, <1>6, <2>1, <2>3
    <3> QED BY <2>1, <3>1 DEF QueueInv
  <2> QED BY <2>2, <2>3
<1>10. Len(r) <= n
  BY <1>4, <1>6
<1>11. Head(r) = agg
  BY <1>6
<1>12. QueueInv(w, n, ticker, r)
  BY <1>6, <1>7, <1>9, <1>10 DEF QueueInv
<1> QED
  BY <1>11, <1>12 DEF r

ReplaceFront(q, agg) == [q EXCEPT ![1] = agg]

(* A candle in front that keeps its window. *)
LEMMA UpdateFrontInv ==
  ASSUME NEW w \in Nat \ {0}, NEW n \in Nat \ {0},
         NEW ticker, NEW q, QueueInv(w, n, ticker, q), q # <<>>,
         NEW agg, CandleInv(w, ticker, agg), agg.start_ = q[1].start_
  PROVE  /\ QueueInv(w, n, ticker, ReplaceFront(q, agg))
         /\ Head(ReplaceFront(q, agg)) = agg
<1> DEFINE r == ReplaceFront(q, agg)
<1>1. q \in Seq(CandleOf(ticker)) /\ agg \in CandleOf(ticker) /\ 1 \in 1 .. Len(q)
  BY DEF QueueInv, CandleInv
<1>2. /\ r \in Seq(CandleOf(ticker)) /\ Len(r) = Len(q) /\ r[1] = agg
      /\ \A i \in 1 .. Len(q) : i # 1 => r[i] = q[i]
  BY <1>1 DEF ReplaceFront
<1> HIDE DEF r
<1>3. \A i \in 1 .. Len(r) : CandleInv(w, ticker, r[i])
  BY <1>2 DEF QueueInv
<1>4. \A i \in 1 .. Len(r) : r[i].start_ = q[i].start_
  BY <1>2
<1>5. Len(r) <= n
  BY <1>2 DEF QueueInv
<1>6. \A i, j \in 1 .. Len(r) : i < j => r[i].start_ >= r[j].start_ + WM(w)
  BY <1>2, <1>4 DEF QueueInv
<1>7. Head(r) = agg
  BY <1>1, <1>2
<1> QED
  BY <1>2, <1>3, <1>5, <1>6, <1>7 DEF QueueInv, r

(* AddData as a whole: the queue stays good, and every CHECK is passed. *)
LEMMA AddDataInv ==
  ASSUME NEW w \in Nat \ {0}, NEW n \in Nat \ {0},
         NEW tick, NEW second \in Nat, TickFields(tick, second),
         NEW q, QueueInv(w, n, tick.sym, q)
  PROVE  /\ QueueInv(w, n, tick.sym, AddDataQueue(w, n, q, tick))
         /\ AddDataChecks(w, n, q, tick)
<1> DEFINE r == AddDataQueue(w, n, q, tick)
<1>1. /\ q \in Seq(CandleOf(tick.sym))
      /\ w \in Nat \ {0} /\ n \in Nat \ {0}
  BY DEF QueueInv
<1>2. q # <<>> => /\ Head(q) = q[1] /\ q[1] \in CandleOf(tick.sym)
                 /\ CandleInv(w, tick.sym, q[1])
  BY <1>1 DEF QueueInv
<1>3. ASSUME NEW agg, CandleInv(w, tick.sym, agg)
      PROVE  IsClosedCheck(w, agg)
  <2>1. agg.end_ \in Nat /\ agg.start_ \in Nat /\ WM(w) \in Nat
    BY <1>3, WindowMillisPositive DEF CandleInv, CandleOf
  <2>2. agg.end_ <= agg.start_ + WM(w)
    BY <1>3 DEF CandleInv
  <2>3. agg.end_ - agg.start_ <= WM(w)
    BY <2>1, <2>2
  <2> QED BY <2>3 DEF IsClosedCheck, WM
<1>4. CASE OpensWindow(w, q, tick)
  <2> DEFINE agg == NewWindow(w, tick)
  <2>1. CandleInv(w, tick.sym, agg)
    BY NewWindowInv
  <2>2. q # <<>> => agg.start_ >= q[1].start_ + WM(w)
    <3> SUFFICES ASSUME q # <<>>
                 PROVE  agg.start_ >= q[1].start_ + WM(w)
      OBVIOUS
    <3>1. tick.s - q[1].start_ >= WM(w)
      BY <1>2, <1>4 DEF OpensWindow, IsNewAggregate, WM
    <3>2. tick.s = second * M /\ second * M \in Nat /\ M \in Nat \ {0} /\ WM(w) \in Nat
      BY WindowMillisPositive DEF TickFields
    <3>3. q[1].start_ \in Nat /\ q[1].start_ % WM(w) = 0
      BY <1>2 DEF CandleInv, CandleOf
    <3>4. agg.start_ = AggWindowStart(w, second * M)
      BY <3>2 DEF NewWindow, AggregateData
    <3>5. /\ agg.start_ \in Nat /\ agg.start_ % WM(w) = 0
          /\ second * M + M <= agg.start_ + WM(w)
      BY <3>4, WindowOfSecond
    <3>6. second * M < agg.start_ + WM(w)
      BY <3>2, <3>5
    <3>7. second * M - q[1].start_ >= WM(w)
      BY <3>1, <3>2
    <3> HIDE DEF agg
    <3> QED BY <3>2, <3>3, <3>5, <3>6, <3>7, AlignedBeyond
  <2>3. r = PushFront(n, q, agg)
    BY <1>4 DEF AddDataQueue
  <2> HIDE DEF agg, r
  <2>4. QueueInv(w, n, tick.sym, r) /\ Head(r) = agg
    BY <1>1, <2>1, <2>2, <2>3, PushFrontInv, SMTT(30)
  <2>5. IsClosedCheck(w, agg)
    BY <1>3, <2>1
  <2>6. q # <<>> => IsClosedCheck(w, Head(q))
    BY <1>2, <1>3
  <2> QED
    BY <1>4, <2>4, <2>5, <2>6 DEF AddDataChecks, r
<1>5. CASE ~OpensWindow(w, q, tick)
  <2> DEFINE agg == UpdateWith(q[1], tick)
  <2>1. q # <<>> /\ ~IsNewAggregate(w, tick, q[1])
    BY <1>2, <1>5 DEF OpensWindow
  <2>2. CandleInv(w, tick.sym, agg) /\ agg.start_ = q[1].start_
    BY <1>2, <2>1, UpdateWithInv
  <2>3. r = ReplaceFront(q, agg)
    BY <1>5 DEF AddDataQueue, ReplaceFront
  <2> HIDE DEF agg, r
  <2>4. QueueInv(w, n, tick.sym, r) /\ Head(r) = agg
    <3>1. QueueInv(w, n, tick.sym, q) /\ q # <<>> /\ CandleInv(w, tick.sym, agg)
      BY <2>1, <2>2
    <3>2. agg.start_ = q[1].start_
      BY <2>2
    <3>3. /\ QueueInv(w, n, tick.sym, ReplaceFront(q, agg))
          /\ Head(ReplaceFront(q, agg)) = agg
      BY <1>1, <3>1, <3>2, UpdateFrontInv, SMTT(30)
    <3> QED BY <2>3, <3>3
  <2>5. IsClosedCheck(w, agg)
    BY <1>3, <2>2
  <2>6. Head(q).ticker_ = tick.sym
    BY <1>2, <2>1 DEF CandleInv, CandleOf
  <2> QED
    BY <1>5, <2>4, <2>5, <2>6 DEF AddDataChecks, r
<1> QED BY <1>4, <1>5
-----------------------------------------------------------------------------
(* The candle in front after AddData. *)

(* It shows the newest tick, and starts no later than the tick or where the *)
(* front started before.                                                    *)
LEMMA AddDataFront ==
  ASSUME NEW w \in Nat \ {0}, NEW n \in Nat \ {0},
         NEW tick, NEW second \in Nat, TickFields(tick, second),
         NEW q, QueueInv(w, n, tick.sym, q)
  PROVE  LET r == AddDataQueue(w, n, q, tick)
         IN  /\ r # <<>>
             /\ Head(r).end_ = tick.e /\ Head(r).close_ = tick.c
             /\ \/ Head(r).start_ <= tick.s
                \/ q # <<>> /\ Head(r).start_ = Head(q).start_
             /\ OpensWindow(w, q, tick) => Head(r) = NewWindow(w, tick)
<1> DEFINE r == AddDataQueue(w, n, q, tick)
<1>1. q \in Seq(CandleOf(tick.sym))
  BY DEF QueueInv
<1>2. CASE OpensWindow(w, q, tick)
  <2> DEFINE agg == NewWindow(w, tick)
             start == AggWindowStart(w, second * M)
  <2>1. start <= second * M
    BY WindowOfSecond
  <2>2. agg.start_ <= tick.s /\ agg.end_ = tick.e /\ agg.close_ = tick.c
    <3>1. agg = [ticker_ |-> tick.sym, vol_ |-> tick.v, open_ |-> tick.o,
                 close_ |-> tick.c, high_ |-> tick.h, low_ |-> tick.l,
                 start_ |-> start, end_ |-> tick.e]
      BY DEF NewWindow, AggregateData, TickFields
    <3> HIDE DEF agg, start
    <3> QED BY <2>1, <3>1 DEF TickFields
  <2>3. agg \in CandleOf(tick.sym)
    BY NewWindowInv DEF CandleInv
  <2> HIDE DEF agg
  <2>4. r = PushFront(n, q, agg)
    BY <1>2 DEF AddDataQueue, agg
  <2>5. r # <<>> /\ Head(r) = agg
    <3>1. \E x \in Seq(CandleOf(tick.sym)) : r = <<agg>> \o x
      <4>1. CASE Len(q) + 1 > n
        <5>1. r = <<agg>> \o SubSeq(q, 1, Len(q) - 1)
          BY <2>4, <4>1 DEF PushFront
        <5>2. SubSeq(q, 1, Len(q) - 1) \in Seq(CandleOf(tick.sym))
          BY <1>1
        <5> QED BY <5>1, <5>2
      <4>2. CASE ~(Len(q) + 1 > n)
        BY <1>1, <2>4, <4>2 DEF PushFront
      <4> QED BY <4>1, <4>2
    <3> HIDE DEF r
    <3> QED BY <2>3, <3>1
  <2> QED BY <2>2, <2>5 DEF agg
<1>3. CASE ~OpensWindow(w, q, tick)
  <2> DEFINE agg == UpdateWith(q[1], tick)
  <2>1. q # <<>> /\ Head(q) = q[1] /\ 1 \in 1 .. Len(q)
    BY <1>1, <1>3 DEF OpensWindow
  <2>2. r = ReplaceFront(q, agg)
    BY <1>3 DEF AddDataQueue, ReplaceFront
  <2>3. agg.start_ = q[1].start_ /\ agg.end_ = tick.e /\ agg.close_ = tick.c
    BY DEF UpdateWith
  <2> HIDE DEF agg, r
  <2>4. r # <<>> /\ Head(r) = agg
    BY <1>1, <2>1, <2>2 DEF ReplaceFront
  <2> QED BY <1>3, <2>1, <2>3, <2>4 DEF r
<1> QED BY <1>2, <1>3

(* In a store of one-second windows, a later tick is a candle of its own.   *)
LEMMA AddDataSecond ==
  ASSUME NEW n \in Nat \ {0},
         NEW tick, NEW second \in Nat, TickFields(tick, second),
         NEW q, QueueInv(1, n, tick.sym, q),
         q # <<>> => Head(q).start_ < tick.s
  PROVE  Head(AddDataQueue(1, n, q, tick)) = AggregateData(tick)
<1>1. M \in Nat \ {0} /\ WM(1) = M /\ tick.s = second * M
  BY WindowMillisPositive DEF WM, WindowMillis, M, TickFields
<1>2. NewWindow(1, tick) = AggregateData(tick)
  <2>1. (second * M + 0) % M = 0 /\ second * M \in Nat
    BY <1>1, ModUnique
  <2>2. AggWindowStart(1, tick.s) = tick.s
    BY <1>1, <2>1 DEF AggWindowStart, WM
  <2> QED BY <2>2 DEF NewWindow, AggregateData
<1>3. OpensWindow(1, q, tick)
  <2> SUFFICES ASSUME q # <<>>
               PROVE  tick.s - Head(q).start_ >= M
    BY <1>1 DEF OpensWindow, IsNewAggregate, WM
  <2>1. Head(q) = q[1] /\ q[1] \in CandleOf(tick.sym) /\ CandleInv(1, tick.sym, q[1])
    BY DEF QueueInv
  <2> DEFINE a == Head(q).start_
             p == a \div M
  <2>2. a \in Nat /\ a % M = 0 /\ a < second * M
    BY <1>1, <2>1 DEF CandleInv, CandleOf
  <2> HIDE DEF a
  <2>3. a = p * M + (a % M) /\ p \in Nat
    BY <1>1, <2>2, DivMod
  <2> HIDE DEF p
  <2>4. p * M < second * M
    BY <1>1, <2>2, <2>3
  <2>5. p < second
    BY <1>1, <2>3, <2>4
  <2>6. (p + 1) * M <= second * M
    BY <1>1, <2>3, <2>5
  <2>7. second * M - a >= M
    BY <1>1, <2>2, <2>3, <2>6
  <2> QED BY <1>1, <2>7 DEF a
<1> QED
  BY <1>2, <1>3, AddDataFront

-----------------------------------------------------------------------------
(* Induction: a set of numbers that is not empty has a least element, so    *)
(* what fails for some number has a least number for which it fails.        *)

(* The least element. *)
LEMMA LeastNat ==
  ASSUME NEW T, T \subseteq Nat, T # {}
  PROVE  \E n \in T : \A m \in T : n <= m
<1> DEFINE R == {ss \in Nat \X Nat : ss[1] < ss[2]}
<1>1. IsWellFoundedOn(R, Nat)
  BY NatLessThanWellFounded DEF OpToRel
<1> HIDE DEF R
<1>2. PICK n \in T : \A m \in T : ~(<<m, n>> \in R)
  BY <1>1, WFMin
<1>3. ASSUME NEW m \in T
      PROVE  n <= m
  <2>1. m \in Nat /\ n \in Nat
    OBVIOUS
  <2>2. m < n => <<m, n>> \in R
    BY <2>1 DEF R
  <2> QED BY <1>2, <2>1, <2>2
<1> QED BY <1>3

-----------------------------------------------------------------------------
(* Sums. *)

(* sums[i] is the sum of the first i numbers of seq. *)
SumsOf(sums, seq) ==
  /\ sums[0] = 0
  /\ \A i \in 1 .. Len(seq) : sums[i] = sums[i - 1] + seq[i]

(* Every sequence has its sums up to every place. *)
LEMMA SumsExist ==
  ASSUME NEW seq
  PROVE  \A n \in Nat : \E sum :
           sum = [i \in 0 .. n |-> IF i = 0 THEN 0 ELSE sum[i - 1] + seq[i]]
<1> DEFINE Sums(sum, n) ==
             sum = [i \in 0 .. n |-> IF i = 0 THEN 0 ELSE sum[i - 1] + seq[i]]
           T == {n \in Nat : ~\E sum : Sums(sum, n)}
<1> SUFFICES ASSUME T # {}
             PROVE  FALSE
  OBVIOUS
<1>1. T \subseteq Nat
  OBVIOUS
<1> HIDE DEF T
<1>2. PICK n \in T : \A m \in T : n <= m
  BY <1>1, LeastNat
<1>3. n \in Nat /\ ~\E sum : Sums(sum, n)
  BY DEF T
<1>4. CASE n = 0
  <2>1. Sums([i \in 0 .. 0 |-> 0], 0)
    OBVIOUS
  <2> QED BY <1>3, <1>4, <2>1
<1>5. CASE n # 0
  <2>1. n - 1 \in Nat /\ ~(n <= n - 1)
    BY <1>3, <1>5
  <2>2. PICK sum : Sums(sum, n - 1)
    BY <1>2, <2>1 DEF T
  <2> DEFINE more == [i \in 0 .. n |-> IF i = n THEN sum[n - 1] + seq[n] ELSE sum[i]]
  <2>3. \A i \in 0 .. n : more[i] = IF i = 0 THEN 0 ELSE more[i - 1] + seq[i]
    BY <1>3, <1>5, <2>1, <2>2
  <2>4. Sums(more, n)
    BY <2>3
  <2> QED BY <1>3, <2>4
<1> QED BY <1>4, <1>5

(* Total is the last of the sums. *)
LEMMA TotalIsSum ==
  ASSUME NEW seq, Len(seq) \in Nat
  PROVE  \E sums : SumsOf(sums, seq) /\ Total(seq) = sums[Len(seq)]
<1> DEFINE S == CHOOSE sum : sum = [i \in 0 .. Len(seq) |->
                                      IF i = 0 THEN 0 ELSE sum[i - 1] + seq[i]]
<1>1. S = [i \in 0 .. Len(seq) |-> IF i = 0 THEN 0 ELSE S[i - 1] + seq[i]]
  BY SumsExist
<1>2. Total(seq) = S[Len(seq)]
  BY DEF Total
<1> HIDE DEF S
<1>3. \A i \in 0 .. Len(seq) : S[i] = IF i = 0 THEN 0 ELSE S[i - 1] + seq[i]
  BY <1>1
<1>4. SumsOf(S, seq)
  BY <1>3 DEF SumsOf
<1> QED BY <1>2, <1>4

(* There is one such last sum only. *)
LEMMA TotalIs ==
  ASSUME NEW seq, Len(seq) \in Nat, NEW sums, SumsOf(sums, seq)
  PROVE  Total(seq) = sums[Len(seq)]
<1>1. PICK other : SumsOf(other, seq) /\ Total(seq) = other[Len(seq)]
  BY TotalIsSum
<1> DEFINE T == {i \in 0 .. Len(seq) : sums[i] # other[i]}
<1>2. T = {}
  <2> SUFFICES ASSUME T # {}
               PROVE  FALSE
    OBVIOUS
  <2>1. T \subseteq Nat
    OBVIOUS
  <2> HIDE DEF T
  <2>2. PICK n \in T : \A m \in T : n <= m
    BY <2>1, LeastNat
  <2>3. n \in 0 .. Len(seq) /\ sums[n] # other[n]
    BY DEF T
  <2>4. n # 0
    BY <1>1, <2>3 DEF SumsOf
  <2>5. n \in 1 .. Len(seq) /\ n - 1 \in 0 .. Len(seq) /\ ~(n <= n - 1)
    BY <2>3, <2>4
  <2>6. sums[n - 1] = other[n - 1]
    BY <2>2, <2>5 DEF T
  <2> QED BY <1>1, <2>3, <2>5, <2>6 DEF SumsOf
<1>3. Len(seq) \in 0 .. Len(seq)
  OBVIOUS
<1> QED BY <1>1, <1>2, <1>3

(* The sums of natural numbers are natural numbers. *)
LEMMA SumsNat ==
  ASSUME NEW seq, Len(seq) \in Nat, \A i \in 1 .. Len(seq) : seq[i] \in Nat,
         NEW sums, SumsOf(sums, seq)
  PROVE  \A i \in 0 .. Len(seq) : sums[i] \in Nat
<1> DEFINE T == {i \in 0 .. Len(seq) : sums[i] \notin Nat}
<1> SUFFICES ASSUME T # {}
             PROVE  FALSE
  OBVIOUS
<1>1. T \subseteq Nat
  OBVIOUS
<1> HIDE DEF T
<1>2. PICK n \in T : \A m \in T : n <= m
  BY <1>1, LeastNat
<1>3. n \in 0 .. Len(seq) /\ sums[n] \notin Nat
  BY DEF T
<1>4. n # 0
  BY <1>3 DEF SumsOf
<1>5. n \in 1 .. Len(seq) /\ n - 1 \in 0 .. Len(seq) /\ ~(n <= n - 1)
  BY <1>3, <1>4
<1>6. sums[n - 1] \in Nat
  BY <1>2, <1>5 DEF T
<1> QED BY <1>3, <1>5, <1>6 DEF SumsOf

(* A sum of natural numbers is one. *)
LEMMA TotalNat ==
  ASSUME NEW seq, Len(seq) \in Nat, \A i \in 1 .. Len(seq) : seq[i] \in Nat
  PROVE  Total(seq) \in Nat
<1>1. PICK sums : SumsOf(sums, seq) /\ Total(seq) = sums[Len(seq)]
  BY TotalIsSum
<1>2. Len(seq) \in 0 .. Len(seq)
  OBVIOUS
<1> QED BY <1>1, <1>2, SumsNat

(* The sum of nothing, and of nothing but zeros. *)
LEMMA TotalZero ==
  ASSUME NEW seq, Len(seq) \in Nat, \A i \in 1 .. Len(seq) : seq[i] = 0
  PROVE  Total(seq) = 0
<1> DEFINE sums == [i \in 0 .. Len(seq) |-> 0]
<1>1. SumsOf(sums, seq)
  <2>1. \A i \in 1 .. Len(seq) : i - 1 \in 0 .. Len(seq) /\ i \in 0 .. Len(seq)
    OBVIOUS
  <2> QED BY <2>1 DEF SumsOf
<1>2. sums[Len(seq)] = 0
  OBVIOUS
<1> QED BY <1>1, <1>2, TotalIs

(* One number more at the end. *)
LEMMA TotalLonger ==
  ASSUME NEW seq, NEW longer, Len(seq) \in Nat, Len(longer) = Len(seq) + 1,
         \A i \in 1 .. Len(seq) : longer[i] = seq[i]
  PROVE  Total(longer) = Total(seq) + longer[Len(longer)]
<1>0. Len(longer) \in Nat
  OBVIOUS
<1>1. PICK sums : SumsOf(sums, longer) /\ Total(longer) = sums[Len(longer)]
  BY <1>0, TotalIsSum
<1>2. SumsOf(sums, seq)
  <2>1. \A i \in 1 .. Len(seq) : i \in 1 .. Len(longer)
    OBVIOUS
  <2> QED BY <1>1, <2>1 DEF SumsOf
<1>3. Total(seq) = sums[Len(seq)]
  BY <1>2, TotalIs
<1>4. Len(longer) \in 1 .. Len(longer) /\ Len(longer) - 1 = Len(seq)
  OBVIOUS
<1> QED BY <1>1, <1>3, <1>4 DEF SumsOf

(* One number more at the front. *)
LEMMA TotalPushed ==
  ASSUME NEW seq, NEW longer, Len(seq) \in Nat, Len(longer) = Len(seq) + 1,
         \A i \in 1 .. Len(seq) : seq[i] \in Nat /\ longer[i + 1] = seq[i],
         longer[1] \in Nat
  PROVE  Total(longer) = longer[1] + Total(seq)
<1>1. PICK sums : SumsOf(sums, seq) /\ Total(seq) = sums[Len(seq)]
  BY TotalIsSum
<1>2. \A i \in 0 .. Len(seq) : sums[i] \in Nat
  BY <1>1, SumsNat
<1> DEFINE more == [i \in 0 .. Len(longer) |->
                      IF i = 0 THEN 0 ELSE longer[1] + sums[i - 1]]
<1>3. SumsOf(more, longer)
  <2>1. more[0] = 0
    OBVIOUS
  <2>2. ASSUME NEW i \in 1 .. Len(longer)
        PROVE  more[i] = more[i - 1] + longer[i]
    <3>1. CASE i = 1
      <4>1. more[1] = longer[1] + sums[0] /\ more[0] = 0 /\ sums[0] = 0
        BY <1>1 DEF SumsOf
      <4> QED BY <3>1, <4>1
    <3>2. CASE i # 1
      <4>1. /\ i - 1 \in 1 .. Len(seq) /\ i - 1 # 0 /\ i # 0
            /\ i \in 0 .. Len(longer) /\ i - 1 \in 0 .. Len(longer)
            /\ (i - 1) + 1 = i /\ (i - 1) - 1 \in 0 .. Len(seq)
            /\ i - 1 \in 0 .. Len(seq)
        BY <3>2
      <4>2. more[i] = longer[1] + sums[i - 1] /\ more[i - 1] = longer[1] + sums[(i - 1) - 1]
        BY <4>1
      <4>3. sums[i - 1] = sums[(i - 1) - 1] + seq[i - 1] /\ longer[i] = seq[i - 1]
        BY <1>1, <4>1 DEF SumsOf
      <4>4. sums[i - 1] \in Nat /\ sums[(i - 1) - 1] \in Nat /\ seq[i - 1] \in Nat
        BY <1>2, <4>1
      <4> HIDE DEF more
      <4> QED BY <4>2, <4>3, <4>4
    <3> QED BY <3>1, <3>2
  <2> QED BY <2>1, <2>2 DEF SumsOf
<1>4. more[Len(longer)] = longer[1] + sums[Len(seq)]
  OBVIOUS
<1> HIDE DEF more
<1>5. Len(longer) \in Nat
  OBVIOUS
<1> QED BY <1>1, <1>3, <1>4, <1>5, TotalIs

(* The sum of two sequences, place by place. *)
LEMMA TotalAdds ==
  ASSUME NEW seq, NEW left, NEW right, Len(seq) \in Nat,
         Len(left) = Len(seq), Len(right) = Len(seq),
         \A i \in 1 .. Len(seq) : /\ left[i] \in Nat /\ right[i] \in Nat
                                  /\ seq[i] = left[i] + right[i]
  PROVE  Total(seq) = Total(left) + Total(right)
<1>1. PICK sl : SumsOf(sl, left) /\ Total(left) = sl[Len(seq)]
  BY TotalIsSum
<1>2. PICK sr : SumsOf(sr, right) /\ Total(right) = sr[Len(seq)]
  BY TotalIsSum
<1>3. \A i \in 0 .. Len(seq) : sl[i] \in Nat /\ sr[i] \in Nat
  BY <1>1, <1>2, SumsNat
<1> DEFINE sums == [i \in 0 .. Len(seq) |-> sl[i] + sr[i]]
<1>4. SumsOf(sums, seq)
  <2>1. sums[0] = 0
    BY <1>1, <1>2 DEF SumsOf
  <2>2. ASSUME NEW i \in 1 .. Len(seq)
        PROVE  sums[i] = sums[i - 1] + seq[i]
    <3>1. i \in 0 .. Len(seq) /\ i - 1 \in 0 .. Len(seq)
      OBVIOUS
    <3>2. sums[i] = sl[i] + sr[i] /\ sums[i - 1] = sl[i - 1] + sr[i - 1]
      BY <3>1
    <3>3. sl[i] = sl[i - 1] + left[i] /\ sr[i] = sr[i - 1] + right[i]
      BY <1>1, <1>2 DEF SumsOf
    <3>4. sl[i] \in Nat /\ sr[i] \in Nat /\ sl[i - 1] \in Nat /\ sr[i - 1] \in Nat
      BY <1>3, <3>1
    <3> HIDE DEF sums
    <3> QED BY <3>2, <3>3, <3>4
  <2> QED BY <2>1, <2>2 DEF SumsOf
<1>5. sums[Len(seq)] = sl[Len(seq)] + sr[Len(seq)]
  OBVIOUS
<1> HIDE DEF sums
<1> QED BY <1>1, <1>2, <1>4, <1>5, TotalIs

-----------------------------------------------------------------------------
(* The volumes of a sequence of candles. *)

(* What Volumes lists. *)
LEMMA VolumesAre ==
  ASSUME NEW N \in Nat, NEW parts, DOMAIN parts = 1 .. N, NEW own
  PROVE  /\ Len(Volumes(parts, own)) = N
         /\ \A i \in 1 .. N :
              Volumes(parts, own)[i] = IF i \in own THEN parts[i].vol_ ELSE 0
<1> DEFINE vols == Volumes(parts, own)
<1>1. vols = [i \in 1 .. N |-> IF i \in own THEN parts[i].vol_ ELSE 0]
  BY DEF Volumes
<1> HIDE DEF vols
<1>2. Len(vols) = N
  BY <1>1
<1> QED BY <1>1, <1>2 DEF vols

(* One candle more. *)
LEMMA VolumesLonger ==
  ASSUME NEW N \in Nat, NEW parts, DOMAIN parts = 1 .. N,
         NEW more, DOMAIN more = 1 .. N + 1,
         \A i \in 1 .. N : more[i] = parts[i],
         NEW own, NEW now, \A i \in 1 .. N : i \in now <=> i \in own
  PROVE  Total(Volumes(more, now)) =
           Total(Volumes(parts, own)) + (IF N + 1 \in now THEN more[N + 1].vol_ ELSE 0)
<1> DEFINE seq == Volumes(parts, own)
           longer == Volumes(more, now)
<1>0. N + 1 \in Nat /\ N + 1 \in 1 .. N + 1
  OBVIOUS
<1>1. /\ Len(seq) = N
      /\ \A i \in 1 .. N : seq[i] = IF i \in own THEN parts[i].vol_ ELSE 0
  BY VolumesAre
<1>2. /\ Len(longer) = N + 1
      /\ \A i \in 1 .. N + 1 : longer[i] = IF i \in now THEN more[i].vol_ ELSE 0
  BY <1>0, VolumesAre
<1> HIDE DEF seq, longer
<1>3. \A i \in 1 .. Len(seq) : longer[i] = seq[i]
  <2>1. \A i \in 1 .. N : i \in 1 .. N + 1
    OBVIOUS
  <2> QED BY <1>1, <1>2, <2>1
<1>4. Total(longer) = Total(seq) + longer[Len(longer)]
  BY <1>1, <1>2, <1>3, TotalLonger
<1>5. longer[Len(longer)] = IF N + 1 \in now THEN more[N + 1].vol_ ELSE 0
  BY <1>0, <1>2
<1> QED BY <1>4, <1>5 DEF seq, longer

(* The candles of none. *)
LEMMA VolumesNone ==
  ASSUME NEW N \in Nat, NEW parts, DOMAIN parts = 1 .. N,
         NEW own, \A i \in 1 .. N : i \notin own
  PROVE  Total(Volumes(parts, own)) = 0
<1> DEFINE seq == Volumes(parts, own)
<1>1. Len(seq) = N /\ \A i \in 1 .. N : seq[i] = 0
  BY VolumesAre
<1> HIDE DEF seq
<1>2. Total(seq) = 0
  BY <1>1, TotalZero
<1> QED BY <1>2 DEF seq

(* The candles of two sets that have none in common. *)
LEMMA VolumesUnion ==
  ASSUME NEW N \in Nat, NEW parts, DOMAIN parts = 1 .. N,
         \A i \in 1 .. N : parts[i].vol_ \in Nat,
         NEW own, NEW left, NEW right,
         \A i \in 1 .. N : i \in own <=> (i \in left \/ i \in right),
         \A i \in 1 .. N : ~(i \in left /\ i \in right)
  PROVE  Total(Volumes(parts, own)) =
           Total(Volumes(parts, left)) + Total(Volumes(parts, right))
<1> DEFINE a == Volumes(parts, own)
           b == Volumes(parts, left)
           c == Volumes(parts, right)
<1>1. Len(a) = N /\ \A i \in 1 .. N : a[i] = IF i \in own THEN parts[i].vol_ ELSE 0
  BY VolumesAre
<1>2. Len(b) = N /\ \A i \in 1 .. N : b[i] = IF i \in left THEN parts[i].vol_ ELSE 0
  BY VolumesAre
<1>3. Len(c) = N /\ \A i \in 1 .. N : c[i] = IF i \in right THEN parts[i].vol_ ELSE 0
  BY VolumesAre
<1> HIDE DEF a, b, c
<1>4. \A i \in 1 .. Len(a) : b[i] \in Nat /\ c[i] \in Nat /\ a[i] = b[i] + c[i]
  <2> SUFFICES ASSUME NEW i \in 1 .. N
               PROVE  b[i] \in Nat /\ c[i] \in Nat /\ a[i] = b[i] + c[i]
    BY <1>1
  <2> QED BY <1>1, <1>2, <1>3
<1>5. Total(a) = Total(b) + Total(c)
  BY <1>1, <1>2, <1>3, <1>4, TotalAdds
<1> QED BY <1>5 DEF a, b, c

-----------------------------------------------------------------------------
(* Windows of time. *)

(* The window a time lies in. *)
LEMMA InWindow ==
  ASSUME NEW m \in Nat \ {0}, NEW s \in Nat, NEW k \in Nat
  PROVE  s \div m = k <=> k * m <= s /\ s < k * m + m
<1> DEFINE q == s \div m
           r == s % m
<1>1. q \in Nat /\ r \in 0 .. m - 1 /\ s = q * m + r
  BY DivMod
<1> HIDE DEF q, r
<1>2. q = k => k * m <= s /\ s < k * m + m
  BY <1>1
<1>3. q < k => q * m + m <= k * m
  <2>1. q < k => (q + 1) * m <= k * m
    BY <1>1
  <2>2. (q + 1) * m = q * m + m
    BY <1>1
  <2> QED BY <2>1, <2>2
<1>4. k < q => k * m + m <= q * m
  <2>1. k < q => (k + 1) * m <= q * m
    BY <1>1
  <2>2. (k + 1) * m = k * m + m
    BY <1>1
  <2> QED BY <2>1, <2>2
<1>5. q * m \in Nat /\ k * m \in Nat
  BY <1>1
<1>6. q # k => ~(k * m <= s /\ s < k * m + m)
  BY <1>1, <1>3, <1>4, <1>5
<1> QED BY <1>2, <1>6 DEF q

(* Windows are ordered as their starts are. *)
LEMMA WindowOrder ==
  ASSUME NEW m \in Nat \ {0}, NEW j \in Nat, NEW k \in Nat
  PROVE  /\ k * m \in Nat
         /\ j < k <=> j * m < k * m
         /\ j < k => j * m + m <= k * m
         /\ j = k <=> j * m = k * m
<1>1. k * m \in Nat /\ j * m \in Nat
  OBVIOUS
<1>2. j < k => j * m + m <= k * m
  <2>1. j < k => (j + 1) * m <= k * m
    OBVIOUS
  <2>2. (j + 1) * m = j * m + m
    OBVIOUS
  <2> QED BY <2>1, <2>2
<1>3. k < j => k * m + m <= j * m
  <2>1. k < j => (k + 1) * m <= j * m
    OBVIOUS
  <2>2. (k + 1) * m = k * m + m
    OBVIOUS
  <2> QED BY <2>1, <2>2
<1> QED BY <1>1, <1>2, <1>3

(* Windows of a later time are not earlier. *)
LEMMA LaterWindow ==
  ASSUME NEW m \in Nat \ {0}, NEW a \in Nat, NEW b \in Nat, a <= b
  PROVE  a \div m <= b \div m /\ a \div m \in Nat /\ b \div m \in Nat
<1> DEFINE j == a \div m
           k == b \div m
<1>1. j \in Nat /\ k \in Nat
  BY DivMod
<1>2. j * m <= a
  BY <1>1, InWindow
<1>3. b < k * m + m
  BY <1>1, InWindow
<1> HIDE DEF j, k
<1>4. k < j => k * m + m <= j * m
  BY <1>1, WindowOrder
<1>5. j * m \in Nat /\ k * m \in Nat
  BY <1>1
<1>6. j <= k
  BY <1>1, <1>2, <1>3, <1>4, <1>5
<1> QED BY <1>1, <1>6 DEF j, k

(* A candle starts where its window does. *)
LEMMA WindowStart ==
  ASSUME NEW w \in Nat \ {0}, NEW s \in Nat
  PROVE  AggWindowStart(w, s) = (s \div WM(w)) * WM(w)
<1> DEFINE m == WM(w)
           q == s \div m
           r == s % m
<1>1. m \in Nat \ {0}
  BY WindowMillisPositive
<1> HIDE DEF m
<1>2. q \in Nat /\ r \in 0 .. m - 1 /\ s = q * m + r
  BY <1>1, DivMod
<1>3. AggWindowStart(w, s) = s - r
  BY DEF AggWindowStart, m, WM
<1> HIDE DEF q, r
<1>4. s - r = q * m
  <2>1. q * m \in Nat
    BY <1>1, <1>2
  <2> QED BY <1>2, <2>1
<1> QED BY <1>3, <1>4 DEF q, m

-----------------------------------------------------------------------------
(* The candles of a history, and one tick more. *)

(* Aggregates as the supplier sends them. *)
FeedInv(history) ==
  \A i \in DOMAIN history : \E second \in Nat : TickFields(history[i], second)

(* The numbers of an aggregate. *)
LEMMA FeedTypes ==
  ASSUME NEW S, NEW history \in Seq(S), FeedInv(history),
         NEW w \in Nat \ {0}, NEW i \in DOMAIN history
  PROVE  /\ history[i].s \in Nat /\ history[i].v \in Nat
         /\ history[i].l \in Int /\ history[i].h \in Int
         /\ history[i].e = history[i].s + M
         /\ history[i].s \div WM(w) \in Nat
<1>1. PICK second \in Nat : TickFields(history[i], second)
  BY DEF FeedInv
<1>2. second * M \in Nat /\ WM(w) \in Nat \ {0}
  BY WindowMillisPositive
<1>3. history[i].s \in Nat /\ history[i].e = history[i].s + M
  BY <1>1, <1>2 DEF TickFields
<1>4. history[i].s \div WM(w) \in Nat
  BY <1>2, <1>3, DivMod
<1> QED BY <1>1, <1>3, <1>4 DEF TickFields

(* What one tick more changes. *)
LEMMA OneMore ==
  ASSUME NEW S, NEW history \in Seq(S), NEW tick \in S
  PROVE  LET longer == Append(history, tick)
             N == Len(history)
         IN  /\ N \in Nat /\ DOMAIN history = 1 .. N /\ DOMAIN longer = 1 .. N + 1
             /\ longer[N + 1] = tick /\ \A i \in 1 .. N : longer[i] = history[i]
             /\ DOMAIN Parts(history) = 1 .. N /\ DOMAIN Parts(longer) = 1 .. N + 1
             /\ \A i \in 1 .. N : /\ Parts(history)[i] = AggregateData(history[i])
                                  /\ Parts(longer)[i] = Parts(history)[i]
             /\ Parts(longer)[N + 1] = AggregateData(tick)
             /\ \A w, ticker, k :
                  /\ \A i \in 1 .. N :
                       i \in TicksOf(w, ticker, longer, k) <=> i \in TicksOf(w, ticker, history, k)
                  /\ N + 1 \in TicksOf(w, ticker, longer, k)
                       <=> tick.sym = ticker /\ tick.s \div WM(w) = k
<1> DEFINE longer == Append(history, tick)
           N == Len(history)
<1>1. /\ N \in Nat /\ DOMAIN history = 1 .. N /\ DOMAIN longer = 1 .. N + 1
      /\ longer[N + 1] = tick /\ \A i \in 1 .. N : longer[i] = history[i]
      /\ N + 1 \in 1 .. N + 1 /\ \A i \in 1 .. N : i \in 1 .. N + 1
  OBVIOUS
<1> HIDE DEF longer, N
<1>2. /\ DOMAIN Parts(history) = 1 .. N /\ DOMAIN Parts(longer) = 1 .. N + 1
      /\ \A i \in 1 .. N : /\ Parts(history)[i] = AggregateData(history[i])
                           /\ Parts(longer)[i] = Parts(history)[i]
      /\ Parts(longer)[N + 1] = AggregateData(tick)
  BY <1>1 DEF Parts
<1>3. ASSUME NEW w, NEW ticker, NEW k
      PROVE  /\ \A i \in 1 .. N :
                  i \in TicksOf(w, ticker, longer, k) <=> i \in TicksOf(w, ticker, history, k)
             /\ N + 1 \in TicksOf(w, ticker, longer, k)
                  <=> tick.sym = ticker /\ tick.s \div WM(w) = k
  BY <1>1 DEF TicksOf, WM
<1> QED BY <1>1, <1>2, <1>3 DEF longer, N

(* The windows with a tick. *)
LEMMA OneMoreWindow ==
  ASSUME NEW S, NEW history \in Seq(S), NEW tick \in S, NEW w, NEW ticker
  PROVE  TradedWindows(w, ticker, Append(history, tick)) =
           TradedWindows(w, ticker, history)
             \cup (IF tick.sym = ticker THEN {tick.s \div WM(w)} ELSE {})
<1> DEFINE longer == Append(history, tick)
           N == Len(history)
<1>1. /\ N \in Nat /\ DOMAIN history = 1 .. N /\ DOMAIN longer = 1 .. N + 1
      /\ longer[N + 1] = tick /\ \A i \in 1 .. N : longer[i] = history[i]
  BY OneMore
<1> HIDE DEF longer, N
<1>2. \A k : k \in TradedWindows(w, ticker, history)
              <=> \E i \in 1 .. N : history[i].sym = ticker /\ k = history[i].s \div WM(w)
  BY <1>1 DEF TradedWindows, WM
<1>3. \A k : k \in TradedWindows(w, ticker, longer)
              <=> \E i \in 1 .. N + 1 : longer[i].sym = ticker /\ k = longer[i].s \div WM(w)
  BY <1>1 DEF TradedWindows, WM
<1>4. \A i : i \in 1 .. N + 1 <=> i \in 1 .. N \/ i = N + 1
  BY <1>1
<1>5. \A k : k \in TradedWindows(w, ticker, longer)
              <=> \/ k \in TradedWindows(w, ticker, history)
                  \/ tick.sym = ticker /\ k = tick.s \div WM(w)
  BY <1>1, <1>2, <1>3, <1>4
<1> QED BY <1>5 DEF longer

(* The volume of a window, and one tick more. *)
LEMMA OneMoreVolume ==
  ASSUME NEW S, NEW history \in Seq(S), NEW tick \in S, tick.v \in Nat,
         NEW w, NEW ticker, NEW k
  PROVE  Total(Volumes(Parts(Append(history, tick)),
                       TicksOf(w, ticker, Append(history, tick), k))) =
           Total(Volumes(Parts(history), TicksOf(w, ticker, history, k)))
             + (IF tick.sym = ticker /\ tick.s \div WM(w) = k THEN tick.v ELSE 0)
<1> DEFINE longer == Append(history, tick)
           N == Len(history)
           parts == Parts(history)
           more == Parts(longer)
           own == TicksOf(w, ticker, history, k)
           now == TicksOf(w, ticker, longer, k)
<1>1. /\ N \in Nat /\ DOMAIN parts = 1 .. N /\ DOMAIN more = 1 .. N + 1
      /\ \A i \in 1 .. N : more[i] = parts[i]
      /\ more[N + 1] = AggregateData(tick)
      /\ \A i \in 1 .. N : i \in now <=> i \in own
      /\ N + 1 \in now <=> tick.sym = ticker /\ tick.s \div WM(w) = k
  BY OneMore
<1> HIDE DEF N, parts, more, own, now
<1>2. Total(Volumes(more, now)) =
        Total(Volumes(parts, own)) + (IF N + 1 \in now THEN more[N + 1].vol_ ELSE 0)
  BY <1>1, VolumesLonger
<1>3. more[N + 1].vol_ = tick.v
  BY <1>1 DEF AggregateData
<1> QED BY <1>1, <1>2, <1>3 DEF parts, more, own, now

(* The volume of a window is a number. *)
LEMMA WindowVolumeNat ==
  ASSUME NEW S, NEW history \in Seq(S), FeedInv(history), NEW own
  PROVE  Total(Volumes(Parts(history), own)) \in Nat
<1> DEFINE N == Len(history)
           parts == Parts(history)
           seq == Volumes(parts, own)
<1>1. N \in Nat /\ DOMAIN history = 1 .. N
  OBVIOUS
<1>2. DOMAIN parts = 1 .. N /\ \A i \in 1 .. N : parts[i] = AggregateData(history[i])
  BY <1>1 DEF Parts
<1>3. \A i \in 1 .. N : parts[i].vol_ \in Nat
  <2>1. \A i \in 1 .. N : history[i].v \in Nat
    BY <1>1 DEF FeedInv, TickFields
  <2> QED BY <1>2, <2>1 DEF AggregateData
<1>4. Len(seq) = N /\ \A i \in 1 .. N : seq[i] = IF i \in own THEN parts[i].vol_ ELSE 0
  BY <1>1, <1>2, VolumesAre
<1> HIDE DEF seq
<1>5. \A i \in 1 .. Len(seq) : seq[i] \in Nat
  BY <1>3, <1>4
<1>6. Total(seq) \in Nat
  BY <1>1, <1>4, <1>5, TotalNat
<1> QED BY <1>6 DEF seq

(* A candle of another window, or ticker, stays what it is. *)
LEMMA CandleKept ==
  ASSUME NEW S, NEW history \in Seq(S), NEW tick \in S, FeedInv(history),
         tick.v \in Nat, NEW w, NEW ticker, NEW k, NEW agg,
         IsCandle(w, ticker, history, k, agg),
         ~(tick.sym = ticker /\ tick.s \div WM(w) = k)
  PROVE  IsCandle(w, ticker, Append(history, tick), k, agg)
<1> DEFINE longer == Append(history, tick)
           N == Len(history)
           parts == Parts(history)
           more == Parts(longer)
           own == TicksOf(w, ticker, history, k)
           now == TicksOf(w, ticker, longer, k)
<1>1. /\ N \in Nat /\ DOMAIN history = 1 .. N /\ DOMAIN longer = 1 .. N + 1
      /\ \A i \in 1 .. N : more[i] = parts[i]
      /\ \A i \in 1 .. N : i \in now <=> i \in own
      /\ N + 1 \notin now
  BY OneMore
<1>2. own \subseteq 1 .. N /\ now \subseteq 1 .. N + 1
  BY <1>1 DEF TicksOf
<1>3. Total(Volumes(parts, own)) \in Nat
  BY WindowVolumeNat
<1>4. Total(Volumes(more, now)) = Total(Volumes(parts, own)) + 0
  BY OneMoreVolume
<1>5. agg.start_ = k * WM(w) /\ IsMerge(agg, parts, own)
  BY DEF IsCandle, WM
<1> HIDE DEF longer, N, parts, more, own, now
<1>6. now = own
  <2>1. \A i : i \in 1 .. N + 1 <=> i \in 1 .. N \/ i = N + 1
    BY <1>1
  <2> QED BY <1>1, <1>2, <2>1
<1>7. \A i \in own : more[i] = parts[i]
  BY <1>1, <1>2
<1>8. IsMerge(agg, more, own)
  <2>1. agg.vol_ = Total(Volumes(more, own))
    BY <1>3, <1>4, <1>5, <1>6 DEF IsMerge
  <2> QED BY <1>5, <1>7, <2>1 DEF IsMerge
<1> QED BY <1>5, <1>6, <1>8 DEF IsCandle, WM, more, now, longer

(* The candle a window opens with is that of its first tick. *)
LEMMA CandleOpens ==
  ASSUME NEW S, NEW history \in Seq(S), NEW tick \in S, FeedInv(history),
         NEW second \in Nat, TickFields(tick, second), NEW w \in Nat \ {0},
         tick.s \div WM(w) \notin TradedWindows(w, tick.sym, history)
  PROVE  IsCandle(w, tick.sym, Append(history, tick), tick.s \div WM(w), NewWindow(w, tick))
<1> DEFINE longer == Append(history, tick)
           N == Len(history)
           K == tick.s \div WM(w)
           parts == Parts(history)
           more == Parts(longer)
           own == TicksOf(w, tick.sym, history, K)
           now == TicksOf(w, tick.sym, longer, K)
           agg == NewWindow(w, tick)
<1>1. /\ N \in Nat /\ DOMAIN history = 1 .. N /\ DOMAIN longer = 1 .. N + 1
      /\ \A i \in 1 .. N : i \in now <=> i \in own
      /\ N + 1 \in now
      /\ DOMAIN parts = 1 .. N
      /\ more[N + 1] = AggregateData(tick)
  BY OneMore
<1>2. \A i \in 1 .. N : i \notin own
  BY <1>1 DEF TradedWindows, TicksOf, WM
<1>3. now = {N + 1}
  <2>1. now \subseteq 1 .. N + 1
    BY <1>1 DEF TicksOf
  <2>2. \A i : i \in 1 .. N + 1 <=> i \in 1 .. N \/ i = N + 1
    BY <1>1
  <2> HIDE DEF now, own, N
  <2> QED BY <1>1, <1>2, <2>1, <2>2
<1>4. tick.v \in Nat /\ tick.s \in Nat
  <2>1. second * M \in Nat
    BY WindowMillisPositive
  <2> QED BY <2>1 DEF TickFields
<1>5. Total(Volumes(parts, own)) = 0
  BY <1>1, <1>2, VolumesNone
<1>6. Total(Volumes(more, now)) = 0 + tick.v
  BY <1>4, <1>5, OneMoreVolume
<1>7. agg = [ticker_ |-> tick.sym, vol_ |-> tick.v, open_ |-> tick.o,
             close_ |-> tick.c, high_ |-> tick.h, low_ |-> tick.l,
             start_ |-> AggWindowStart(w, tick.s), end_ |-> tick.e]
  BY DEF NewWindow, AggregateData
<1>8. AggWindowStart(w, tick.s) = K * WM(w)
  BY <1>4, WindowStart
<1>9. more[N + 1] = [ticker_ |-> tick.sym, vol_ |-> tick.v, open_ |-> tick.o,
             close_ |-> tick.c, high_ |-> tick.h, low_ |-> tick.l,
             start_ |-> tick.s, end_ |-> tick.e]
  BY <1>1 DEF AggregateData
<1> HIDE DEF longer, N, K, parts, more, own, now, agg
<1>10. IsMerge(agg, more, now)
  <2>1. agg.vol_ = Total(Volumes(more, now))
    BY <1>4, <1>6, <1>7
  <2>2. tick.l \in Int /\ tick.h \in Int
    BY DEF TickFields
  <2>3. \E first, last \in now :
          /\ \A i \in now : /\ more[first].start_ <= more[i].start_
                            /\ more[i].start_ <= more[last].start_
          /\ agg.ticker_ = more[first].ticker_
          /\ agg.open_ = more[first].open_
          /\ agg.close_ = more[last].close_
          /\ agg.end_ = more[last].end_
    BY <1>3, <1>4, <1>7, <1>9
  <2>4. \A i \in now : agg.low_ <= more[i].low_ /\ more[i].high_ <= agg.high_
    BY <1>3, <1>7, <1>9, <2>2
  <2>5. (\E i \in now : agg.low_ = more[i].low_) /\ (\E i \in now : agg.high_ = more[i].high_)
    BY <1>3, <1>7, <1>9
  <2> QED BY <2>1, <2>3, <2>4, <2>5 DEF IsMerge
<1>11. agg.start_ = K * WM(w)
  BY <1>7, <1>8
<1> QED BY <1>10, <1>11 DEF IsCandle, WM, K, more, now, longer, agg

(* The candle of a window stays that of its ticks when the next is merged.  *)
LEMMA CandleUpdated ==
  ASSUME NEW S, NEW history \in Seq(S), NEW tick \in S, FeedInv(history),
         NEW second \in Nat, TickFields(tick, second), NEW w \in Nat \ {0},
         InOrder(Append(history, tick)),
         NEW agg, IsCandle(w, tick.sym, history, tick.s \div WM(w), agg)
  PROVE  IsCandle(w, tick.sym, Append(history, tick), tick.s \div WM(w), UpdateWith(agg, tick))
<1> DEFINE longer == Append(history, tick)
           N == Len(history)
           K == tick.s \div WM(w)
           parts == Parts(history)
           more == Parts(longer)
           own == TicksOf(w, tick.sym, history, K)
           now == TicksOf(w, tick.sym, longer, K)
           upd == UpdateWith(agg, tick)
<1>1. /\ N \in Nat /\ DOMAIN history = 1 .. N /\ DOMAIN longer = 1 .. N + 1
      /\ longer[N + 1] = tick /\ \A i \in 1 .. N : longer[i] = history[i]
      /\ \A i \in 1 .. N : i \in now <=> i \in own
      /\ N + 1 \in now
      /\ \A i \in 1 .. N : parts[i] = AggregateData(history[i]) /\ more[i] = parts[i]
      /\ more[N + 1] = AggregateData(tick)
  BY OneMore
<1>2. own \subseteq 1 .. N /\ now \subseteq 1 .. N + 1
  BY <1>1 DEF TicksOf
<1>3. \A i \in own : history[i].sym = tick.sym
  BY DEF TicksOf
<1>4. tick.v \in Nat /\ tick.s \in Nat /\ tick.l \in Int /\ tick.h \in Int
  <2>1. second * M \in Nat
    BY WindowMillisPositive
  <2> QED BY <2>1 DEF TickFields
<1>5. Total(Volumes(parts, own)) \in Nat
  BY WindowVolumeNat
<1>6. Total(Volumes(more, now)) = Total(Volumes(parts, own)) + tick.v
  BY <1>4, OneMoreVolume
<1>7. upd = [ticker_ |-> agg.ticker_, vol_ |-> agg.vol_ + tick.v,
             open_ |-> agg.open_, close_ |-> tick.c,
             high_ |-> MaxOf(agg.high_, tick.h), low_ |-> MinOf(agg.low_, tick.l),
             start_ |-> agg.start_, end_ |-> tick.e]
  BY DEF UpdateWith
<1>8. more[N + 1] = [ticker_ |-> tick.sym, vol_ |-> tick.v, open_ |-> tick.o,
             close_ |-> tick.c, high_ |-> tick.h, low_ |-> tick.l,
             start_ |-> tick.s, end_ |-> tick.e]
  BY <1>1 DEF AggregateData
<1>9. agg.start_ = K * WM(w) /\ IsMerge(agg, parts, own)
  BY DEF IsCandle, WM
<1>10. ASSUME NEW i \in own
       PROVE  /\ more[i] = parts[i] /\ more[i].start_ \in Nat
              /\ more[i].low_ \in Int /\ more[i].high_ \in Int
              /\ more[i].start_ < tick.s
  <2>1. i \in 1 .. N /\ i \in DOMAIN history
    BY <1>1, <1>2
  <2>2. history[i].s \in Nat /\ history[i].l \in Int /\ history[i].h \in Int
    BY <2>1, FeedTypes
  <2>3. history[i].s < tick.s
    <3>1. i \in DOMAIN longer /\ N + 1 \in DOMAIN longer /\ i < N + 1
      BY <1>1, <2>1
    <3>2. longer[i].sym = longer[N + 1].sym
      BY <1>1, <1>3, <2>1
    <3>3. longer[i].s < longer[N + 1].s
      BY <3>1, <3>2 DEF InOrder
    <3> QED BY <1>1, <2>1, <3>3
  <2>4. more[i] = AggregateData(history[i]) /\ more[i] = parts[i]
    BY <1>1, <2>1
  <2> HIDE DEF more, parts
  <2> QED BY <2>2, <2>3, <2>4 DEF AggregateData
<1> HIDE DEF longer, N, K, parts, more, own, now, upd
<1>11. now = own \cup {N + 1}
  <2>1. \A i : i \in 1 .. N + 1 <=> i \in 1 .. N \/ i = N + 1
    BY <1>1
  <2> QED BY <1>1, <1>2, <2>1
<1>12. PICK first \in own, last \in own :
         /\ \A i \in own : /\ parts[first].start_ <= parts[i].start_
                           /\ parts[i].start_ <= parts[last].start_
         /\ agg.ticker_ = parts[first].ticker_
         /\ agg.open_ = parts[first].open_
         /\ agg.close_ = parts[last].close_
         /\ agg.end_ = parts[last].end_
  BY <1>9 DEF IsMerge
<1>13. PICK lowest \in own : agg.low_ = parts[lowest].low_
  BY <1>9 DEF IsMerge
<1>14. PICK highest \in own : agg.high_ = parts[highest].high_
  BY <1>9 DEF IsMerge
<1>15. \A i \in own : agg.low_ <= parts[i].low_ /\ parts[i].high_ <= agg.high_
  BY <1>9 DEF IsMerge
<1>16. agg.low_ \in Int /\ agg.high_ \in Int
  BY <1>10, <1>13, <1>14
<1>17. /\ upd.low_ \in Int /\ upd.low_ <= agg.low_ /\ upd.low_ <= tick.l
       /\ upd.low_ = agg.low_ \/ upd.low_ = tick.l
       /\ upd.high_ \in Int /\ upd.high_ >= agg.high_ /\ upd.high_ >= tick.h
       /\ upd.high_ = agg.high_ \/ upd.high_ = tick.h
  BY <1>4, <1>7, <1>16 DEF MinOf, MaxOf
<1>18. IsMerge(upd, more, now)
  <2>1. upd.vol_ = Total(Volumes(more, now))
    BY <1>6, <1>7, <1>9 DEF IsMerge
  <2>2. \E f, l \in now :
          /\ \A i \in now : /\ more[f].start_ <= more[i].start_
                            /\ more[i].start_ <= more[l].start_
          /\ upd.ticker_ = more[f].ticker_
          /\ upd.open_ = more[f].open_
          /\ upd.close_ = more[l].close_
          /\ upd.end_ = more[l].end_
    <3>1. first \in now /\ N + 1 \in now
      BY <1>11
    <3>2. ASSUME NEW i \in now
          PROVE  /\ more[first].start_ <= more[i].start_
                 /\ more[i].start_ <= more[N + 1].start_
      <4>1. CASE i = N + 1
        BY <1>4, <1>8, <1>10, <4>1
      <4>2. CASE i \in own
        BY <1>4, <1>8, <1>10, <1>12, <4>2
      <4> QED BY <1>11, <4>1, <4>2
    <3>3. /\ upd.ticker_ = more[first].ticker_
          /\ upd.open_ = more[first].open_
          /\ upd.close_ = more[N + 1].close_
          /\ upd.end_ = more[N + 1].end_
      BY <1>7, <1>8, <1>10, <1>12
    <3> QED BY <3>1, <3>2, <3>3
  <2>3. ASSUME NEW i \in now
        PROVE  upd.low_ <= more[i].low_ /\ more[i].high_ <= upd.high_
    <3>1. CASE i = N + 1
      BY <1>8, <1>17, <3>1
    <3>2. CASE i \in own
      BY <1>10, <1>15, <1>16, <1>17, <3>2
    <3> QED BY <1>11, <3>1, <3>2
  <2>4. \E i \in now : upd.low_ = more[i].low_
    BY <1>8, <1>10, <1>11, <1>13, <1>17
  <2>5. \E i \in now : upd.high_ = more[i].high_
    BY <1>8, <1>10, <1>11, <1>14, <1>17
  <2> QED BY <2>1, <2>2, <2>3, <2>4, <2>5 DEF IsMerge
<1>19. upd.start_ = K * WM(w)
  BY <1>7, <1>9
<1> QED BY <1>18, <1>19 DEF IsCandle, WM, K, more, now, longer, upd

-----------------------------------------------------------------------------
(* A store, and one tick more. *)

(* The windows with a tick are numbers, and none lies beyond the last tick  *)
(* of an ordered feed.                                                      *)
LEMMA WindowsSoFar ==
  ASSUME NEW S, NEW history \in Seq(S), NEW tick \in S, FeedInv(history),
         NEW second \in Nat, TickFields(tick, second), NEW w \in Nat \ {0},
         InOrder(Append(history, tick)),
         NEW k \in TradedWindows(w, tick.sym, history)
  PROVE  k \in Nat /\ k <= tick.s \div WM(w)
<1> DEFINE longer == Append(history, tick)
           N == Len(history)
<1>1. /\ N \in Nat /\ DOMAIN history = 1 .. N /\ DOMAIN longer = 1 .. N + 1
      /\ longer[N + 1] = tick /\ \A i \in 1 .. N : longer[i] = history[i]
  BY OneMore
<1> HIDE DEF longer, N
<1>2. PICK i \in DOMAIN history : history[i].sym = tick.sym /\ k = history[i].s \div WM(w)
  BY DEF TradedWindows, WM
<1>3. i \in DOMAIN longer /\ N + 1 \in DOMAIN longer /\ i < N + 1 /\ longer[i] = history[i]
  BY <1>1
<1>4. history[i].s < tick.s
  BY <1>1, <1>2, <1>3 DEF InOrder, longer
<1>5. tick.s \in Nat /\ history[i].s \in Nat /\ WM(w) \in Nat \ {0}
  <2>1. second * M \in Nat /\ WM(w) \in Nat \ {0}
    BY WindowMillisPositive
  <2>2. history[i].s \in Nat
    BY FeedTypes
  <2> QED BY <2>1, <2>2 DEF TickFields
<1> DEFINE a == history[i].s
           b == tick.s
           m == WM(w)
<1>6. a \in Nat /\ b \in Nat /\ m \in Nat \ {0} /\ a <= b
  BY <1>4, <1>5
<1>7. k = a \div m
  BY <1>2
<1> HIDE DEF a, b, m
<1>8. a \div m <= b \div m /\ a \div m \in Nat
  BY <1>6, LaterWindow
<1> QED BY <1>7, <1>8 DEF b, m

(* An ordered feed was ordered before its last tick. *)
LEMMA OrderedBefore ==
  ASSUME NEW S, NEW history \in Seq(S), NEW tick \in S,
         InOrder(Append(history, tick))
  PROVE  InOrder(history)
<1> DEFINE longer == Append(history, tick)
           N == Len(history)
<1>1. /\ N \in Nat /\ DOMAIN history = 1 .. N /\ DOMAIN longer = 1 .. N + 1
      /\ \A i \in 1 .. N : longer[i] = history[i]
  BY OneMore
<1> HIDE DEF longer, N
<1>2. \A i \in 1 .. N : i \in 1 .. N + 1
  BY <1>1
<1>3. InOrder(longer)
  BY DEF longer
<1> QED BY <1>1, <1>2, <1>3 DEF InOrder

(* What AddData does to a queue that holds the newest candles: a tick of a  *)
(* window without one opens it, and any other updates the front.            *)
LEMMA AddDataHolds ==
  ASSUME NEW S, NEW history \in Seq(S), NEW tick \in S, FeedInv(history),
         NEW second \in Nat, TickFields(tick, second),
         NEW w \in Nat \ {0}, NEW n \in Nat \ {0},
         InOrder(Append(history, tick)),
         NEW q, QueueInv(w, n, tick.sym, q), HoldsNewest(w, n, tick.sym, history, q)
  PROVE  HoldsNewest(w, n, tick.sym, Append(history, tick), AddDataQueue(w, n, q, tick))
<1> DEFINE longer == Append(history, tick)
           W == TradedWindows(w, tick.sym, history)
           now == TradedWindows(w, tick.sym, longer)
           K == tick.s \div WM(w)
           r == AddDataQueue(w, n, q, tick)
           m == WM(w)
<1>1. now = W \cup {K}
  BY OneMoreWindow
<1>2. \A k \in W : k \in Nat /\ k <= K
  BY WindowsSoFar
<1>3. m \in Nat \ {0} /\ tick.s \in Nat /\ K \in Nat /\ tick.v \in Nat
  <2>1. second * M \in Nat /\ m \in Nat \ {0}
    BY WindowMillisPositive
  <2>2. tick.s \in Nat
    BY <2>1 DEF TickFields
  <2>3. K \in Nat
    BY <2>1, <2>2, DivMod
  <2> QED BY <2>1, <2>2, <2>3 DEF TickFields
<1>4. K * m <= tick.s /\ tick.s < K * m + m
  BY <1>3, InWindow
<1>5. /\ Len(q) \in Nat /\ Len(q) <= n /\ DOMAIN q = 1 .. Len(q)
      /\ q \in Seq(CandleOf(tick.sym)) /\ n \in Nat \ {0}
      /\ \A i \in 1 .. Len(q) : q[i].start_ \in Nat
  <2>1. q \in Seq(CandleOf(tick.sym)) /\ Len(q) <= n
    BY DEF QueueInv
  <2>2. Len(q) \in Nat /\ DOMAIN q = 1 .. Len(q)
        /\ \A i \in 1 .. Len(q) : q[i] \in CandleOf(tick.sym)
    BY <2>1
  <2> QED BY <2>1, <2>2 DEF CandleOf
<1>a. Len(q) \in Nat /\ n \in Nat /\ n # 0 /\ Len(q) <= n
  BY <1>5
<1>6. \A i \in 1 .. Len(q) : \E k \in W : IsCandle(w, tick.sym, history, k, q[i])
  BY <1>5 DEF HoldsNewest
<1>7. \A i, j \in 1 .. Len(q) : i < j => q[j].start_ < q[i].start_
  BY <1>5 DEF HoldsNewest
<1>8. \A k \in W : \/ \E i \in 1 .. Len(q) : q[i].start_ = k * m
                   \/ Len(q) = n /\ \A i \in 1 .. Len(q) : k * m < q[i].start_
  BY <1>5 DEF HoldsNewest, WM
<1>9. \A k, agg : IsCandle(w, tick.sym, history, k, agg) => agg.start_ = k * m
  BY DEF IsCandle, WM
<1>10. \A k, agg : k # K /\ IsCandle(w, tick.sym, history, k, agg)
                     => IsCandle(w, tick.sym, longer, k, agg)
  BY <1>3, CandleKept
<1>11. CASE OpensWindow(w, q, tick)
  <2>1. q # <<>> => q[1].start_ <= tick.s - m
    <3>1. q # <<>> => Head(q) = q[1] /\ 1 \in 1 .. Len(q)
      BY <1>5
    <3> QED BY <1>3, <1>5, <1>11, <3>1 DEF OpensWindow, IsNewAggregate, WM
  <2>2. \A i \in 1 .. Len(q) : q[i].start_ < K * m
    <3> SUFFICES ASSUME NEW i \in 1 .. Len(q)
                 PROVE  q[i].start_ < K * m
      OBVIOUS
    <3>1. 1 \in 1 .. Len(q) /\ q # <<>>
      BY <1>5
    <3>2. q[i].start_ <= q[1].start_
      BY <1>5, <1>7, <3>1
    <3>3. K * m \in Nat
      BY <1>3
    <3> HIDE DEF K, m
    <3> QED BY <1>3, <1>4, <1>5, <2>1, <3>1, <3>2, <3>3
  <2>3. K \notin W
    <3> SUFFICES ASSUME K \in W
                 PROVE  FALSE
      OBVIOUS
    <3>1. ~\E i \in 1 .. Len(q) : q[i].start_ = K * m
      <4>1. K * m \in Nat
        BY <1>3
      <4> HIDE DEF K, m
      <4> QED BY <1>5, <2>2, <4>1
    <3>2. Len(q) = n /\ \A i \in 1 .. Len(q) : K * m < q[i].start_
      BY <1>8, <3>1
    <3>3. 1 \in 1 .. Len(q)
      BY <3>2
    <3>4. K * m \in Nat
      BY <1>3
    <3> HIDE DEF K, m
    <3> QED BY <1>5, <2>2, <3>2, <3>3, <3>4
  <2> DEFINE agg == NewWindow(w, tick)
  <2>4. IsCandle(w, tick.sym, longer, K, agg)
    BY <2>3, CandleOpens
  <2>5. agg.start_ = K * m
    BY <2>4 DEF IsCandle, WM
  <2>6. agg \in CandleOf(tick.sym)
    BY NewWindowInv DEF CandleInv
  <2>7. r = PushFront(n, q, agg)
    BY <1>11 DEF AddDataQueue
  <2> HIDE DEF agg, r, longer, W, now, K, m
  <2>8. \E c \in 0 .. Len(q) : /\ r = <<agg>> \o SubSeq(q, 1, c)
                               /\ \/ c = Len(q) /\ c + 1 <= n
                                  \/ c = Len(q) - 1 /\ Len(q) = n
    <3>1. CASE Len(q) + 1 > n
      <4>1. r = <<agg>> \o SubSeq(q, 1, Len(q) - 1)
        BY <2>7, <3>1 DEF PushFront
      <4>2. Len(q) - 1 \in 0 .. Len(q) /\ Len(q) = n
        BY <1>a, <3>1
      <4> QED BY <4>1, <4>2
    <3>2. CASE ~(Len(q) + 1 > n)
      <4>1. r = <<agg>> \o q
        BY <2>7, <3>2 DEF PushFront
      <4>2. SubSeq(q, 1, Len(q)) = q
        BY <1>5
      <4>3. Len(q) \in 0 .. Len(q) /\ Len(q) + 1 <= n
        BY <1>a, <3>2
      <4> QED BY <4>1, <4>2, <4>3
    <3> QED BY <3>1, <3>2
  <2>9. PICK c \in 0 .. Len(q) : /\ r = <<agg>> \o SubSeq(q, 1, c)
                                 /\ \/ c = Len(q) /\ c + 1 <= n
                                    \/ c = Len(q) - 1 /\ Len(q) = n
    BY <2>8
  <2>10. /\ SubSeq(q, 1, c) \in Seq(CandleOf(tick.sym))
         /\ Len(SubSeq(q, 1, c)) = c
         /\ \A i \in 1 .. c : SubSeq(q, 1, c)[i] = q[i]
    BY <1>5
  <2>11. /\ DOMAIN r = 1 .. c + 1 /\ Len(r) = c + 1 /\ r[1] = agg
         /\ \A i \in 2 .. c + 1 : r[i] = q[i - 1]
    BY <2>6, <2>9, <2>10
  <2>12. Len(r) <= n
    <3>1. Len(r) = c + 1
      BY <2>11
    <3> QED BY <1>a, <2>9, <3>1
  <2>13. ASSUME NEW i \in DOMAIN r, NEW j \in DOMAIN r, i < j
         PROVE  r[j].start_ < r[i].start_
    <3>1. j \in 2 .. c + 1 /\ r[j] = q[j - 1] /\ j - 1 \in 1 .. Len(q)
      BY <1>5, <2>11, <2>13
    <3>2. CASE i = 1
      BY <2>2, <2>5, <2>11, <3>1, <3>2
    <3>3. CASE i # 1
      <4>1. r[i] = q[i - 1] /\ i - 1 \in 1 .. Len(q) /\ i - 1 < j - 1
        BY <1>5, <2>11, <2>13, <3>3
      <4> QED BY <1>7, <3>1, <4>1
    <3> QED BY <3>2, <3>3
  <2>14. ASSUME NEW i \in DOMAIN r
         PROVE  \E k \in now : IsCandle(w, tick.sym, longer, k, r[i])
    <3>1. CASE i = 1
      BY <1>1, <2>4, <2>11, <3>1
    <3>2. CASE i # 1
      <4>1. r[i] = q[i - 1] /\ i - 1 \in 1 .. Len(q)
        BY <1>5, <2>11, <3>2
      <4>2. PICK k \in W : IsCandle(w, tick.sym, history, k, q[i - 1])
        BY <1>6, <4>1
      <4>3. k # K
        BY <2>3
      <4> QED BY <1>1, <1>10, <4>1, <4>2, <4>3
    <3> QED BY <3>1, <3>2
  <2>15. ASSUME NEW k \in now
         PROVE  \/ \E i \in DOMAIN r : r[i].start_ = k * m
                \/ Len(r) = n /\ \A i \in DOMAIN r : k * m < r[i].start_
    <3>1. CASE k = K
      <4>1. 1 \in DOMAIN r
        BY <1>5, <2>11
      <4> QED BY <2>5, <2>11, <3>1, <4>1
    <3>2. CASE k # K
      <4>1. k \in W /\ k \in Nat
        BY <1>1, <1>2, <3>2
      <4>2. k * m < K * m /\ k * m \in Nat /\ K * m \in Nat
        <5>1. k < K
          BY <1>2, <1>3, <3>2, <4>1
        <5> QED BY <1>3, <4>1, <5>1, WindowOrder
      <4>3. CASE \E i \in 1 .. Len(q) : q[i].start_ = k * m
        <5>1. PICK i \in 1 .. Len(q) : q[i].start_ = k * m
          BY <4>3
        <5>2. CASE i <= c
          <6>1. i + 1 \in 2 .. c + 1 /\ i + 1 \in DOMAIN r /\ (i + 1) - 1 = i
            BY <2>11, <5>2
          <6>2. r[i + 1] = q[i]
            BY <2>11, <6>1
          <6> QED BY <5>1, <6>1, <6>2
        <5>3. CASE i > c
          <6>1. i = Len(q) /\ c = Len(q) - 1 /\ Len(r) = n
            <7>1. Len(r) = c + 1
              BY <2>11
            <7> QED BY <1>a, <2>9, <5>3, <7>1
          <6>2. ASSUME NEW j \in DOMAIN r
                PROVE  k * m < r[j].start_
            <7>1. CASE j = 1
              BY <2>5, <2>11, <4>2, <7>1
            <7>2. CASE j # 1
              <8>1. r[j] = q[j - 1] /\ j - 1 \in 1 .. Len(q) /\ j - 1 < i
                BY <1>5, <2>11, <6>1, <7>2
              <8> QED BY <1>7, <5>1, <8>1
            <7> QED BY <7>1, <7>2
          <6> QED BY <6>1, <6>2
        <5> QED BY <1>5, <5>2, <5>3
      <4>4. CASE Len(q) = n /\ \A i \in 1 .. Len(q) : k * m < q[i].start_
        <5>1. Len(r) = n
          BY <1>5, <2>9, <2>11, <4>4
        <5>2. ASSUME NEW j \in DOMAIN r
              PROVE  k * m < r[j].start_
          <6>1. CASE j = 1
            BY <2>5, <2>11, <4>2, <6>1
          <6>2. CASE j # 1
            <7>1. r[j] = q[j - 1] /\ j - 1 \in 1 .. Len(q)
              BY <1>5, <2>11, <6>2
            <7> QED BY <4>4, <7>1
          <6> QED BY <6>1, <6>2
        <5> QED BY <5>1, <5>2
      <4> QED BY <1>8, <4>1, <4>3, <4>4
    <3> QED BY <3>1, <3>2
  <2> QED
    BY <2>12, <2>13, <2>14, <2>15 DEF HoldsNewest, WM, m, r, longer, now
<1>12. CASE ~OpensWindow(w, q, tick)
  <2>1. /\ q # <<>> /\ Head(q) = q[1] /\ 1 \in 1 .. Len(q)
        /\ tick.s - q[1].start_ < m
    <3>1. q # <<>> => Head(q) = q[1] /\ 1 \in 1 .. Len(q)
      BY <1>5
    <3> QED BY <1>3, <1>5, <1>12, <3>1 DEF OpensWindow, IsNewAggregate, WM
  <2>2. PICK k1 \in W : IsCandle(w, tick.sym, history, k1, q[1])
    BY <1>6, <2>1
  <2>3. q[1].start_ = k1 * m /\ k1 \in Nat /\ k1 <= K
    BY <1>2, <1>9, <2>2
  <2>4. k1 = K
    <3>1. k1 < K => k1 * m + m <= K * m
      BY <1>3, <2>3, WindowOrder
    <3>2. k1 * m \in Nat /\ K * m \in Nat
      BY <1>3, <2>3
    <3>3. tick.s < k1 * m + m
      BY <1>3, <2>1, <2>3, <3>2
    <3> DEFINE a == k1 * m
               b == K * m
    <3>4. /\ a \in Nat /\ b \in Nat /\ tick.s \in Nat /\ m \in Nat
          /\ k1 < K => a + m <= b
          /\ b <= tick.s /\ tick.s < a + m
      BY <1>3, <1>4, <3>1, <3>2, <3>3
    <3>5. k1 \in Nat /\ K \in Nat /\ k1 <= K
      BY <1>3, <2>3
    <3> HIDE DEF K, m, a, b
    <3>6. ~(k1 < K)
      BY <3>4
    <3> QED BY <3>5, <3>6
  <2> DEFINE upd == UpdateWith(q[1], tick)
  <2>5. IsCandle(w, tick.sym, longer, K, upd)
    BY <2>2, <2>4, CandleUpdated
  <2>6. upd.start_ = q[1].start_
    BY DEF UpdateWith
  <2>7. r = [q EXCEPT ![1] = upd]
    BY <1>12 DEF AddDataQueue
  <2> HIDE DEF upd, r, longer, W, now, K, m
  <2>8. /\ DOMAIN r = 1 .. Len(q) /\ Len(r) = Len(q) /\ r[1] = upd
        /\ \A i \in 1 .. Len(q) : i # 1 => r[i] = q[i]
    BY <1>5, <2>1, <2>7
  <2>9. \A i \in 1 .. Len(q) : r[i].start_ = q[i].start_
    BY <2>6, <2>8
  <2>10. ASSUME NEW i \in DOMAIN r
         PROVE  \E k \in now : IsCandle(w, tick.sym, longer, k, r[i])
    <3>1. CASE i = 1
      BY <1>1, <2>5, <2>8, <3>1
    <3>2. CASE i # 1
      <4>1. PICK k \in W : IsCandle(w, tick.sym, history, k, q[i])
        BY <1>6, <2>8
      <4>2. q[i].start_ < q[1].start_ /\ q[i].start_ = k * m
        BY <1>5, <1>7, <1>9, <2>1, <2>8, <3>2, <4>1
      <4>3. k # K
        BY <1>3, <2>3, <2>4, <4>2, <1>5, <2>1, <2>8
      <4> QED BY <1>1, <1>10, <2>8, <3>2, <4>1, <4>3
    <3> QED BY <3>1, <3>2
  <2>11. \A k \in now : \/ \E i \in DOMAIN r : r[i].start_ = k * m
                        \/ Len(r) = n /\ \A i \in DOMAIN r : k * m < r[i].start_
    <3> SUFFICES ASSUME NEW k \in now
                 PROVE  \/ \E i \in DOMAIN r : r[i].start_ = k * m
                        \/ Len(r) = n /\ \A i \in DOMAIN r : k * m < r[i].start_
      OBVIOUS
    <3>1. k \in W
      BY <1>1, <2>4
    <3>2. CASE \E i \in 1 .. Len(q) : q[i].start_ = k * m
      BY <2>8, <2>9, <3>2
    <3>3. CASE Len(q) = n /\ \A i \in 1 .. Len(q) : k * m < q[i].start_
      BY <2>8, <2>9, <3>3
    <3> QED BY <1>8, <3>1, <3>2, <3>3
  <2>12. Len(r) <= n /\ \A i, j \in DOMAIN r : i < j => r[j].start_ < r[i].start_
    BY <1>5, <1>7, <2>8, <2>9
  <2> QED
    BY <2>10, <2>11, <2>12 DEF HoldsNewest, WM, m, r, longer, now
<1> QED BY <1>11, <1>12

(* A tick of another ticker changes nothing of what a queue holds. *)
LEMMA OtherHolds ==
  ASSUME NEW S, NEW history \in Seq(S), NEW tick \in S, FeedInv(history),
         tick.v \in Nat, NEW w \in Nat \ {0}, NEW n \in Nat \ {0},
         NEW ticker, tick.sym # ticker, NEW q, HoldsNewest(w, n, ticker, history, q)
  PROVE  HoldsNewest(w, n, ticker, Append(history, tick), q)
<1> DEFINE longer == Append(history, tick)
<1>1. TradedWindows(w, ticker, longer) = TradedWindows(w, ticker, history)
  <2>1. TradedWindows(w, ticker, longer) =
          TradedWindows(w, ticker, history)
            \cup (IF tick.sym = ticker THEN {tick.s \div WM(w)} ELSE {})
    BY OneMoreWindow
  <2> QED BY <2>1
<1>2. \A k, agg : IsCandle(w, ticker, history, k, agg) => IsCandle(w, ticker, longer, k, agg)
  BY CandleKept
<1> HIDE DEF longer
<1>3. HoldsNewest(w, n, ticker, longer, q)
  BY <1>1, <1>2 DEF HoldsNewest
<1> QED BY <1>3 DEF longer

(* An empty queue holds the candles of an empty history. *)
LEMMA NothingHolds ==
  ASSUME NEW w \in Nat \ {0}, NEW n \in Nat \ {0}, NEW ticker
  PROVE  HoldsNewest(w, n, ticker, <<>>, <<>>)
<1>1. Len(<<>>) = 0 /\ DOMAIN <<>> = {} /\ 0 <= n
  OBVIOUS
<1>2. TradedWindows(w, ticker, <<>>) = {}
  BY <1>1 DEF TradedWindows
<1> QED BY <1>1, <1>2 DEF HoldsNewest

(* The front is the candle of the newest window. *)
LEMMA FrontNewest ==
  ASSUME NEW S, NEW history \in Seq(S), FeedInv(history),
         NEW w \in Nat \ {0}, NEW n \in Nat \ {0}, NEW ticker,
         NEW q, QueueInv(w, n, ticker, q), HoldsNewest(w, n, ticker, history, q)
  PROVE  /\ TradedWindows(w, ticker, history) # {} => q # <<>>
         /\ q # <<>> =>
              \E k1 \in TradedWindows(w, ticker, history) :
                /\ k1 \in Nat /\ IsCandle(w, ticker, history, k1, q[1])
                /\ \A k \in TradedWindows(w, ticker, history) : k <= k1 /\ k \in Nat
<1> DEFINE W == TradedWindows(w, ticker, history)
           m == WM(w)
<1>1. m \in Nat \ {0}
  BY WindowMillisPositive
<1>2. \A k \in W : k \in Nat
  <2> SUFFICES ASSUME NEW k \in W
               PROVE  k \in Nat
    OBVIOUS
  <2>1. PICK i \in DOMAIN history : k = history[i].s \div WM(w)
    BY DEF TradedWindows, WM
  <2> QED BY <2>1, FeedTypes
<1>3. /\ Len(q) \in Nat /\ DOMAIN q = 1 .. Len(q) /\ n \in Nat \ {0}
      /\ q \in Seq(CandleOf(ticker))
  BY DEF QueueInv
<1>4. \A k \in W : \/ \E i \in 1 .. Len(q) : q[i].start_ = k * m
                   \/ Len(q) = n /\ \A i \in 1 .. Len(q) : k * m < q[i].start_
  BY <1>3 DEF HoldsNewest, WM
<1>5. W # {} => q # <<>>
  <2> SUFFICES ASSUME W # {}
               PROVE  Len(q) # 0
    BY <1>3
  <2>1. PICK k : k \in W
    OBVIOUS
  <2> HIDE DEF W
  <2>2. \/ \E i \in 1 .. Len(q) : q[i].start_ = k * m
        \/ Len(q) = n
    BY <1>4, <2>1
  <2>3. n # 0
    OBVIOUS
  <2>4. (\E i \in 1 .. Len(q) : q[i].start_ = k * m) => Len(q) # 0
    BY <1>3
  <2> QED BY <2>2, <2>3, <2>4
<1>6. ASSUME q # <<>>
      PROVE  \E k1 \in W : /\ k1 \in Nat /\ IsCandle(w, ticker, history, k1, q[1])
                           /\ \A k \in W : k <= k1 /\ k \in Nat
  <2>1. 1 \in DOMAIN q
    BY <1>3, <1>6
  <2>2. PICK k1 \in W : IsCandle(w, ticker, history, k1, q[1])
    BY <2>1 DEF HoldsNewest
  <2>3. q[1].start_ = k1 * m
    BY <2>2 DEF IsCandle, WM
  <2>4. ASSUME NEW k \in W
        PROVE  k <= k1
    <3>1. k * m <= q[1].start_
      <4>1. \A i \in 1 .. Len(q) : i # 1 => q[i].start_ < q[1].start_
        <5>1. \A i \in 1 .. Len(q) : i # 1 => 1 < i
          BY <1>3
        <5>2. \A i, j \in DOMAIN q : i < j => q[j].start_ < q[i].start_
          BY DEF HoldsNewest
        <5> QED BY <1>3, <2>1, <5>1, <5>2
      <4>2. k \in Nat /\ k1 \in Nat
        BY <1>2
      <4>3. k * m \in Nat /\ k1 * m \in Nat
        BY <1>1, <4>2
      <4> HIDE DEF W, m
      <4>4. CASE \E i \in 1 .. Len(q) : q[i].start_ = k * m
        BY <2>3, <4>1, <4>3, <4>4
      <4>5. CASE \A i \in 1 .. Len(q) : k * m < q[i].start_
        BY <1>3, <2>1, <2>3, <4>3, <4>5
      <4> QED BY <1>4, <4>4, <4>5
    <3>2. k \in Nat /\ k1 \in Nat
      BY <1>2
    <3>3. k1 < k <=> k1 * m < k * m
      BY <1>1, <3>2, WindowOrder
    <3>4. k * m \in Nat /\ k1 * m \in Nat
      BY <1>1, <3>2
    <3> HIDE DEF W, m
    <3>5. ~(k1 * m < k * m)
      BY <2>3, <3>1, <3>4
    <3> QED BY <3>2, <3>3, <3>5
  <2> QED BY <1>2, <2>2, <2>4
<1> QED BY <1>5, <1>6

(* The last second of a window ends where the window does, every other one  *)
(* before.                                                                  *)
LEMMA EndWindow ==
  ASSUME NEW m \in Nat \ {0}, NEW k \in Nat, NEW e \in Nat, e <= k * m + m
  PROVE  /\ e \div m \in Nat
         /\ e = k * m + m => e \div m = k + 1
         /\ e # k * m + m => e \div m <= k
<1> DEFINE a == k * m
<1>1. a \in Nat /\ (k + 1) * m = a + m /\ k + 1 \in Nat
  OBVIOUS
<1>2. e \div m \in Nat
  BY DivMod
<1>3. e = a + m => e \div m = k + 1
  <2>1. e = a + m => (k + 1) * m <= e /\ e < (k + 1) * m + m
    BY <1>1
  <2> QED BY <1>1, <2>1, InWindow
<1>4. e # a + m => e \div m <= k
  <2> DEFINE b == a + m - 1
  <2>1. b \in Nat /\ a <= b /\ b < a + m
    BY <1>1
  <2>2. b \div m = k
    BY <2>1, InWindow
  <2>3. e # a + m => e <= b
    BY <1>1
  <2> HIDE DEF a, b
  <2>4. e <= b => e \div m <= b \div m
    BY <2>1, LaterWindow
  <2> QED BY <2>2, <2>3, <2>4
<1> QED BY <1>2, <1>3, <1>4

(* A second is over before the next one of an ordered feed begins.          *)
LEMMA SecondsApart ==
  ASSUME NEW a \in Nat, NEW b \in Nat, a * M < b * M
  PROVE  a * M + M <= b * M
<1>1. M \in Nat \ {0}
  BY WindowMillisPositive
<1> QED BY <1>1, WindowOrder

(* AddData reports exactly the ticks that close a window. *)
LEMMA AddDataCloses ==
  ASSUME NEW S, NEW history \in Seq(S), NEW tick \in S, FeedInv(history),
         NEW second \in Nat, TickFields(tick, second),
         NEW w \in Nat \ {0}, NEW n \in Nat \ {0},
         InOrder(Append(history, tick)), FeedInv(Append(history, tick)),
         NEW q, QueueInv(w, n, tick.sym, q), HoldsNewest(w, n, tick.sym, history, q)
  PROVE  AddDataReturns(w, n, q, tick)
           <=> ClosedWindows(w, tick.sym, Append(history, tick))
                 # ClosedWindows(w, tick.sym, history)
<1> DEFINE longer == Append(history, tick)
           N == Len(history)
           W == TradedWindows(w, tick.sym, history)
           now == TradedWindows(w, tick.sym, longer)
           K == tick.s \div WM(w)
           E == tick.e \div WM(w)
           r == AddDataQueue(w, n, q, tick)
           m == WM(w)
           closed == ClosedWindows(w, tick.sym, history)
           after == ClosedWindows(w, tick.sym, longer)
           Old == {i \in DOMAIN history : history[i].sym = tick.sym}
<1>1. now = W \cup {K}
  BY OneMoreWindow
<1>2. \A k \in W : k \in Nat /\ k <= K
  BY WindowsSoFar
<1>3. m \in Nat \ {0} /\ M \in Nat \ {0} /\ tick.s \in Nat /\ K \in Nat
      /\ tick.e = tick.s + M /\ tick.e \in Nat /\ second * M \in Nat
      /\ tick.s = second * M
  <2>1. second * M \in Nat /\ m \in Nat \ {0} /\ M \in Nat \ {0}
    BY WindowMillisPositive
  <2>2. tick.s \in Nat /\ tick.e = tick.s + M /\ tick.s = second * M
    BY <2>1 DEF TickFields
  <2>3. K \in Nat
    BY <2>1, <2>2, DivMod
  <2> QED BY <2>1, <2>2, <2>3
<1>4. K * m \in Nat /\ tick.e <= K * m + m
  <2>1. AggWindowStart(w, tick.s) = K * m
    BY <1>3, WindowStart
  <2>2. tick.s + M <= AggWindowStart(w, tick.s) + m
    BY <1>3, WindowOfSecond
  <2> QED BY <1>3, <2>1, <2>2
<1>5. E \in Nat /\ (tick.e = K * m + m => E = K + 1) /\ (tick.e # K * m + m => E <= K)
  BY <1>3, <1>4, EndWindow
<1>6. K <= E
  <2>1. tick.s <= tick.e
    BY <1>3
  <2> QED BY <1>3, <2>1, LaterWindow
<1>7. /\ N \in Nat /\ DOMAIN history = 1 .. N /\ DOMAIN longer = 1 .. N + 1
      /\ longer[N + 1] = tick /\ \A i \in 1 .. N : longer[i] = history[i]
  BY OneMore
<1>8. ASSUME NEW i \in Old
      PROVE  /\ history[i].e \in Nat /\ history[i].s \in Nat
             /\ history[i].e = history[i].s + M
             /\ history[i].e \div m <= K
             /\ history[i].e \div m \in Nat /\ history[i].s \div m \in Nat
             /\ history[i].s \div m <= history[i].e \div m
             /\ history[i].s \div m \in W
             /\ \A k \in Nat : history[i].s \div m = k => history[i].e <= k * m + m
  <2>1. history[i].s \in Nat /\ history[i].e = history[i].s + M /\ i \in 1 .. N
    BY <1>7, FeedTypes
  <2>2. PICK old \in Nat : TickFields(history[i], old)
    BY DEF FeedInv
  <2>3. history[i].s = old * M
    BY <2>2 DEF TickFields
  <2>4. history[i].s < tick.s
    <3>1. i \in DOMAIN longer /\ N + 1 \in DOMAIN longer /\ i < N + 1 /\ longer[i] = history[i]
      BY <1>7, <2>1
    <3> QED BY <1>7, <3>1 DEF InOrder
  <2>5. old * M + M <= second * M
    BY <1>3, <2>3, <2>4, SecondsApart
  <2>6. history[i].e <= tick.s /\ history[i].e \in Nat /\ history[i].s <= history[i].e
    BY <1>3, <2>1, <2>3, <2>5
  <2>7. history[i].e \div m <= K /\ history[i].e \div m \in Nat
    BY <1>3, <2>6, LaterWindow
  <2>8. history[i].s \div m <= history[i].e \div m /\ history[i].s \div m \in Nat
    BY <1>3, <2>1, <2>6, LaterWindow
  <2>9. history[i].s \div m \in W
    BY DEF TradedWindows, WM
  <2>10. ASSUME NEW k \in Nat, history[i].s \div m = k
         PROVE  history[i].e <= k * m + m
    <3>1. AggWindowStart(w, history[i].s) = k * m
      BY <2>1, <2>10, WindowStart
    <3>2. old * M + M <= AggWindowStart(w, old * M) + m
      BY WindowOfSecond
    <3> QED BY <2>1, <2>3, <3>1, <3>2
  <2> QED BY <2>1, <2>6, <2>7, <2>8, <2>9, <2>10
<1>9. \A k : k \in closed <=> k \in W /\ \E i \in Old : k < history[i].e \div m
  BY DEF ClosedWindows, WM
<1>10. \A k : k \in after <=> k \in now /\ (k < E \/ \E i \in Old : k < history[i].e \div m)
  <2>1. \A k : k \in after <=> k \in now /\ \E i \in 1 .. N + 1 :
                longer[i].sym = tick.sym /\ k < longer[i].e \div m
    BY <1>7 DEF ClosedWindows, WM
  <2>2. \A i : i \in 1 .. N + 1 <=> i \in 1 .. N \/ i = N + 1
    BY <1>7
  <2> HIDE DEF longer, now, after, N
  <2>3. \A i \in 1 .. N : i \in Old <=> longer[i].sym = tick.sym
    BY <1>7
  <2>4. \A i : i \in Old => i \in 1 .. N
    BY <1>7
  <2> QED BY <1>7, <2>1, <2>2, <2>3, <2>4
<1>11. r # <<>> /\ Head(r) = r[1] /\ r[1].end_ = tick.e /\ r[1].start_ = K * m
  <2>1. QueueInv(w, n, tick.sym, r)
    BY AddDataInv
  <2>2. HoldsNewest(w, n, tick.sym, longer, r)
    BY AddDataHolds
  <2>3. r # <<>> /\ Head(r).end_ = tick.e
    BY AddDataFront
  <2>4. longer \in Seq(S)
    OBVIOUS
  <2>5. r \in Seq(CandleOf(tick.sym))
    BY <2>1 DEF QueueInv
  <2> HIDE DEF r, longer
  <2>6. Head(r) = r[1]
    BY <2>3, <2>5
  <2>7. FeedInv(longer)
    BY DEF longer
  <2>8. PICK k1 \in now : /\ k1 \in Nat /\ IsCandle(w, tick.sym, longer, k1, r[1])
                          /\ \A k \in now : k <= k1
    BY <2>1, <2>2, <2>3, <2>4, <2>7, FrontNewest
  <2>9. k1 = K
    <3>1. K <= k1 /\ k1 <= K
      BY <1>1, <1>2, <1>3, <2>8
    <3> QED BY <1>3, <2>8, <3>1
  <2> QED BY <2>3, <2>6, <2>8, <2>9 DEF IsCandle, WM
<1>12. IsClosed(w, Head(r)) <=> tick.e = K * m + m
  <2> DEFINE b == K * m
  <2>1. b \in Nat /\ m \in Nat /\ tick.e \in Nat
    BY <1>3, <1>4
  <2>2. Head(r).end_ = tick.e /\ Head(r).start_ = b
    BY <1>11
  <2>3. IsClosed(w, Head(r)) <=> Head(r).end_ - Head(r).start_ = m
    BY DEF IsClosed, WM
  <2> HIDE DEF b, m, r
  <2>4. IsClosed(w, Head(r)) <=> tick.e = b + m
    BY <2>1, <2>2, <2>3
  <2> QED BY <2>4 DEF b
<1>13. q \in Seq(CandleOf(tick.sym))
  BY DEF QueueInv
<1>14. q # <<>> => Head(q) = q[1] /\ q[1] \in CandleOf(tick.sym)
                   /\ CandleInv(w, tick.sym, q[1])
  BY <1>13 DEF QueueInv
<1>15. AddDataReturns(w, n, q, tick)
         <=> \/ tick.e = K * m + m
             \/ OpensWindow(w, q, tick) /\ q # <<>> /\ ~IsClosed(w, q[1])
  BY <1>12, <1>14 DEF AddDataReturns
<1>16. CASE q = <<>>
  <2>1. W = {}
    BY <1>16, FrontNewest
  <2>2. closed = {} /\ now = {K}
    BY <1>1, <1>9, <2>1
  <2>3. \A i \in Old : FALSE
    BY <1>8, <2>1
  <2>4. K \in after <=> K < E
    BY <1>10, <2>2, <2>3
  <2>5. after # {} <=> K \in after
    BY <1>10, <2>2
  <2>6. K < E <=> tick.e = K * m + m
    BY <1>3, <1>5
  <2> QED BY <1>15, <1>16, <2>2, <2>4, <2>5, <2>6
<1>17. CASE q # <<>>
  <2>1. PICK k1 \in W : /\ k1 \in Nat /\ IsCandle(w, tick.sym, history, k1, q[1])
                        /\ \A k \in W : k <= k1 /\ k \in Nat
    BY <1>17, FrontNewest
  <2>2. q[1].start_ = k1 * m /\ k1 * m \in Nat /\ q[1].end_ \in Nat
        /\ q[1].end_ <= k1 * m + m
    BY <1>3, <1>14, <1>17, <2>1 DEF IsCandle, CandleInv, CandleOf, WM
  <2>3. IsClosed(w, q[1]) <=> q[1].end_ = k1 * m + m
    BY <1>3, <2>2 DEF IsClosed, WM
  <2>4. PICK last \in Old : /\ history[last].s \div m = k1 /\ q[1].end_ = history[last].e
                            /\ \A i \in Old : history[i].s \div m = k1
                                                => history[i].s <= history[last].s
    <3> DEFINE own == TicksOf(w, tick.sym, history, k1)
               parts == Parts(history)
    <3>1. \E l \in own : /\ \A i \in own : parts[i].start_ <= parts[l].start_
                         /\ q[1].end_ = parts[l].end_
      BY <2>1 DEF IsCandle, IsMerge
    <3>2. \A i : i \in own <=> i \in Old /\ history[i].s \div m = k1
      BY DEF TicksOf, WM
    <3>3. \A i \in Old : parts[i].start_ = history[i].s /\ parts[i].end_ = history[i].e
      BY DEF Parts, AggregateData
    <3> HIDE DEF own, parts, Old
    <3> QED BY <3>1, <3>2, <3>3
  <2>5. OpensWindow(w, q, tick) <=> k1 < K
    <3>1. OpensWindow(w, q, tick) <=> tick.s - q[1].start_ >= m
      BY <1>14, <1>17 DEF OpensWindow, IsNewAggregate, WM
    <3>2. k1 <= K
      BY <1>2
    <3>3. K = k1 <=> k1 * m <= tick.s /\ tick.s < k1 * m + m
      BY <1>3, <2>1, InWindow
    <3>4. k1 < K => k1 * m + m <= K * m
      BY <1>3, <2>1, WindowOrder
    <3>5. K * m <= tick.s
      BY <1>3, InWindow
    <3> DEFINE a == k1 * m
               b == K * m
    <3>6. /\ a \in Nat /\ b \in Nat /\ q[1].start_ = a /\ b <= tick.s
          /\ k1 < K => a + m <= b
          /\ K = k1 <=> a <= tick.s /\ tick.s < a + m
          /\ tick.s \in Nat /\ m \in Nat /\ k1 \in Nat /\ K \in Nat /\ k1 <= K
      BY <1>3, <1>4, <2>1, <2>2, <3>2, <3>3, <3>4, <3>5
    <3> HIDE DEF a, b, K, m
    <3>7. k1 < K => tick.s - q[1].start_ >= m
      BY <3>6
    <3>8. ~(k1 < K) => ~(tick.s - q[1].start_ >= m)
      <4>1. ~(k1 < K) => K = k1
        BY <3>6
      <4> QED BY <3>6, <4>1
    <3> QED BY <3>1, <3>7, <3>8
  <2>6. \A i \in Old : history[i].e \div m <= k1 \/ IsClosed(w, q[1])
    <3> SUFFICES ASSUME NEW i \in Old, ~IsClosed(w, q[1])
                 PROVE  history[i].e \div m <= k1
      OBVIOUS
    <3> DEFINE j == history[i].s \div m
    <3>1. j \in W /\ j \in Nat /\ j <= k1
      BY <1>8, <2>1
    <3>2. history[i].e <= j * m + m /\ history[i].e \in Nat
      BY <1>8, <3>1
    <3>3. CASE j = k1
      <4>1. history[i].e <= history[last].e
        <5>1. history[i].e = history[i].s + M /\ history[i].s \in Nat
          BY <1>8
        <5>2. history[last].e = history[last].s + M /\ history[last].s \in Nat
          BY <1>8
        <5>3. history[i].s <= history[last].s
          BY <2>4, <3>3
        <5> QED BY <1>3, <5>1, <5>2, <5>3
      <4>2. history[i].e # k1 * m + m
        BY <2>2, <2>3, <2>4, <3>2, <4>1
      <4>3. history[i].e <= k1 * m + m
        BY <3>2, <3>3
      <4> QED BY <1>3, <2>1, <3>2, <4>2, <4>3, EndWindow
    <3>4. CASE j # k1
      <4>1. j < k1
        BY <2>1, <3>1, <3>4
      <4>2. j * m + m <= k1 * m
        BY <1>3, <2>1, <3>1, <4>1, WindowOrder
      <4>3. j * m \in Nat
        BY <1>3, <3>1
      <4> HIDE DEF j, m
      <4>4. history[i].e <= k1 * m + m /\ history[i].e # k1 * m + m
        BY <1>3, <2>2, <3>2, <4>2, <4>3
      <4> QED BY <1>3, <2>1, <3>2, <4>4, EndWindow
    <3> QED BY <3>3, <3>4
  <2>7. IsClosed(w, q[1]) => history[last].e \div m = k1 + 1
    <3> DEFINE e == q[1].end_
    <3>1. e \in Nat /\ e <= k1 * m + m
      BY <2>2
    <3> HIDE DEF e
    <3>2. e = k1 * m + m => e \div m = k1 + 1
      BY <1>3, <2>1, <3>1, EndWindow
    <3> QED BY <2>3, <2>4, <3>2 DEF e
  <2>8. K \notin closed
    <3>1. \A i \in Old : ~(K < history[i].e \div m)
      BY <1>3, <1>8
    <3> QED BY <1>9, <3>1
  <2>9. ASSUME tick.e = K * m + m
        PROVE  after # closed
    <3>1. K < E
      BY <1>3, <1>5, <2>9
    <3>2. K \in after
      BY <1>1, <1>10, <3>1
    <3> QED BY <2>8, <3>2
  <2>10. ASSUME OpensWindow(w, q, tick), ~IsClosed(w, q[1])
         PROVE  after # closed
    <3>1. k1 < E /\ k1 \in now
      BY <1>1, <1>3, <1>5, <1>6, <2>1, <2>5, <2>10
    <3>2. k1 \in after
      BY <1>10, <3>1
    <3>3. \A i \in Old : ~(k1 < history[i].e \div m)
      BY <1>8, <2>1, <2>6, <2>10
    <3>4. k1 \notin closed
      BY <1>9, <3>3
    <3> QED BY <3>2, <3>4
  <2>11. ASSUME tick.e # K * m + m, OpensWindow(w, q, tick) => IsClosed(w, q[1])
         PROVE  after = closed
    <3>1. E = K
      BY <1>3, <1>5, <1>6, <2>11
    <3>2. ASSUME NEW k \in after
          PROVE  k \in closed
      <4>1. k # K
        <5>1. ~(K < E) /\ \A i \in Old : ~(K < history[i].e \div m)
          BY <1>3, <1>8, <3>1
        <5> QED BY <1>10, <5>1
      <4>2. k \in W /\ k \in Nat /\ k <= k1
        BY <1>1, <1>10, <2>1, <4>1
      <4>3. CASE \E i \in Old : k < history[i].e \div m
        BY <1>9, <4>2, <4>3
      <4>4. CASE k < K
        <5>1. CASE OpensWindow(w, q, tick)
          <6>1. k < history[last].e \div m
            BY <2>1, <2>7, <2>11, <4>2, <5>1
          <6> QED BY <1>9, <4>2, <6>1
        <5>2. CASE ~OpensWindow(w, q, tick)
          <6>1. k1 = K
            BY <1>2, <1>3, <2>1, <2>5, <5>2
          <6>2. k < history[last].e \div m
            BY <1>3, <1>8, <2>4, <4>2, <4>4, <6>1
          <6> QED BY <1>9, <4>2, <6>2
        <5> QED BY <5>1, <5>2
      <4> QED BY <1>10, <3>1, <4>3, <4>4
    <3>3. \A k \in closed : k \in after
      BY <1>1, <1>9, <1>10
    <3> QED BY <3>2, <3>3
  <2> QED BY <1>15, <1>17, <2>9, <2>10, <2>11
<1> QED BY <1>16, <1>17

-----------------------------------------------------------------------------
(* The volume of a queue, and one tick more, in whatever order. *)

(* More at the front of a sequence of numbers. *)
LEMMA TotalFront ==
  ASSUME NEW seq, NEW other, Len(seq) \in Nat \ {0}, Len(other) = Len(seq),
         \A i \in 1 .. Len(seq) : seq[i] \in Nat,
         NEW x \in Nat, other[1] = seq[1] + x,
         \A i \in 1 .. Len(seq) : i # 1 => other[i] = seq[i]
  PROVE  Total(other) = Total(seq) + x
<1> DEFINE N == Len(seq)
           more == [i \in 1 .. N |-> IF i = 1 THEN x ELSE 0]
           sums == [i \in 0 .. N |-> IF i = 0 THEN 0 ELSE x]
<1>1. Len(more) = N /\ \A i \in 1 .. N : more[i] = IF i = 1 THEN x ELSE 0
  OBVIOUS
<1>2. SumsOf(sums, more) /\ sums[N] = x
  <2>1. sums[0] = 0 /\ sums[N] = x
    OBVIOUS
  <2>2. ASSUME NEW i \in 1 .. N
        PROVE  sums[i] = sums[i - 1] + more[i]
    <3>1. sums[i] = x /\ i - 1 \in 0 .. N
      OBVIOUS
    <3>2. CASE i = 1
      BY <2>1, <3>1, <3>2
    <3>3. CASE i # 1
      BY <3>1, <3>3
    <3> QED BY <3>2, <3>3
  <2> QED BY <1>1, <2>1, <2>2 DEF SumsOf
<1> HIDE DEF more, sums
<1>3. Total(more) = x
  BY <1>1, <1>2, TotalIs
<1>4. \A i \in 1 .. Len(other) : /\ seq[i] \in Nat /\ more[i] \in Nat
                                 /\ other[i] = seq[i] + more[i]
  <2> SUFFICES ASSUME NEW i \in 1 .. N
               PROVE  seq[i] \in Nat /\ more[i] \in Nat /\ other[i] = seq[i] + more[i]
    OBVIOUS
  <2>1. seq[i] \in Nat /\ more[i] \in Nat
    BY <1>1
  <2>2. CASE i = 1
    BY <1>1, <2>2
  <2>3. CASE i # 1
    BY <1>1, <2>1, <2>3
  <2> QED BY <2>1, <2>2, <2>3
<1>5. Total(other) = Total(seq) + Total(more)
  BY <1>1, <1>4, TotalAdds
<1> QED BY <1>3, <1>5

(* No volume is lost before a candle is evicted. *)
VolumeKept(n, history, q) ==
  Len(q) < n => Total(Volumes(q, DOMAIN q)) = Total(Volumes(Parts(history), DOMAIN history))

(* AddData adds the volume of the tick to the front. *)
LEMMA AddDataVolume ==
  ASSUME NEW S, NEW history \in Seq(S), NEW tick \in S, FeedInv(history),
         NEW second \in Nat, TickFields(tick, second),
         NEW w \in Nat \ {0}, NEW n \in Nat \ {0},
         NEW q, QueueInv(w, n, tick.sym, q), VolumeKept(n, history, q)
  PROVE  VolumeKept(n, Append(history, tick), AddDataQueue(w, n, q, tick))
<1> DEFINE longer == Append(history, tick)
           N == Len(history)
           parts == Parts(history)
           more == Parts(longer)
           r == AddDataQueue(w, n, q, tick)
           before == Total(Volumes(parts, DOMAIN history))
           vols == Volumes(q, DOMAIN q)
           volr == Volumes(r, DOMAIN r)
<1> SUFFICES ASSUME Len(r) < n
             PROVE  Total(volr) = Total(Volumes(more, DOMAIN longer))
  BY DEF VolumeKept
<1>1. /\ N \in Nat /\ DOMAIN history = 1 .. N /\ DOMAIN longer = 1 .. N + 1
      /\ DOMAIN parts = 1 .. N /\ DOMAIN more = 1 .. N + 1
      /\ \A i \in 1 .. N : more[i] = parts[i]
      /\ more[N + 1] = AggregateData(tick)
  BY OneMore
<1>2. before \in Nat /\ tick.v \in Nat
  BY WindowVolumeNat DEF TickFields
<1>3. Total(Volumes(more, DOMAIN longer)) = before + tick.v
  <2> DEFINE own == DOMAIN history
             now == DOMAIN longer
  <2>1. \A i \in 1 .. N : i \in now <=> i \in own
    BY <1>1
  <2>2. N + 1 \in now
    BY <1>1
  <2> HIDE DEF own, now, more, parts, N
  <2>3. Total(Volumes(more, now)) =
          Total(Volumes(parts, own)) + (IF N + 1 \in now THEN more[N + 1].vol_ ELSE 0)
    BY <1>1, <2>1, VolumesLonger
  <2>4. more[N + 1].vol_ = tick.v
    BY <1>1 DEF AggregateData
  <2> QED BY <2>2, <2>3, <2>4 DEF own, now
<1>4. /\ q \in Seq(CandleOf(tick.sym)) /\ Len(q) \in Nat /\ DOMAIN q = 1 .. Len(q)
      /\ \A i \in 1 .. Len(q) : q[i].vol_ \in Nat
      /\ n \in Nat \ {0}
  <2>1. q \in Seq(CandleOf(tick.sym))
    BY DEF QueueInv
  <2>2. \A i \in 1 .. Len(q) : q[i] \in CandleOf(tick.sym)
    BY <2>1
  <2>3. \A i \in 1 .. Len(q) : q[i].vol_ \in Nat
    BY <2>2 DEF CandleOf
  <2>4. Len(q) \in Nat /\ DOMAIN q = 1 .. Len(q)
    BY <2>1
  <2> QED BY <2>1, <2>3, <2>4
<1>5. Len(vols) = Len(q) /\ \A i \in 1 .. Len(q) : vols[i] = q[i].vol_
  <2>1. Len(vols) = Len(q)
        /\ \A i \in 1 .. Len(q) : vols[i] = IF i \in DOMAIN q THEN q[i].vol_ ELSE 0
    BY <1>4, VolumesAre
  <2> QED BY <1>4, <2>1
<1>6. CASE OpensWindow(w, q, tick)
  <2> DEFINE agg == NewWindow(w, tick)
  <2>1. agg \in CandleOf(tick.sym) /\ agg.vol_ = tick.v
    BY NewWindowInv DEF CandleInv, NewWindow, AggregateData
  <2>2. r = PushFront(n, q, agg)
    BY <1>6 DEF AddDataQueue
  <2> HIDE DEF agg, r
  <2>3. ~(Len(q) + 1 > n)
    <3> SUFFICES ASSUME Len(q) + 1 > n
                 PROVE  FALSE
      OBVIOUS
    <3>1. r = <<agg>> \o SubSeq(q, 1, Len(q) - 1)
      BY <2>2 DEF PushFront
    <3>2. Len(q) # 0 /\ Len(q) - 1 \in Nat
      BY <1>4
    <3>3. SubSeq(q, 1, Len(q) - 1) \in Seq(CandleOf(tick.sym))
          /\ Len(SubSeq(q, 1, Len(q) - 1)) = Len(q) - 1
      BY <1>4, <3>2
    <3>4. Len(r) = Len(q)
      BY <1>4, <2>1, <3>1, <3>3
    <3>5. Len(q) <= n
      BY DEF QueueInv
    <3> QED BY <1>4, <3>4, <3>5
  <2>4. r = <<agg>> \o q
    BY <2>2, <2>3 DEF PushFront
  <2>5. /\ Len(r) = Len(q) + 1 /\ DOMAIN r = 1 .. Len(q) + 1 /\ r[1] = agg
        /\ \A i \in 1 .. Len(q) : r[i + 1] = q[i]
    BY <1>4, <2>1, <2>4
  <2>6. Len(volr) = Len(q) + 1 /\ \A i \in 1 .. Len(q) + 1 : volr[i] = r[i].vol_
    <3>1. Len(q) + 1 \in Nat
      BY <1>4
    <3>2. Len(volr) = Len(q) + 1
          /\ \A i \in 1 .. Len(q) + 1 : volr[i] = IF i \in DOMAIN r THEN r[i].vol_ ELSE 0
      BY <2>5, <3>1, VolumesAre
    <3> QED BY <2>5, <3>2
  <2> HIDE DEF volr, vols
  <2>7. Len(vols) \in Nat /\ Len(volr) = Len(vols) + 1
    BY <1>4, <1>5, <2>6
  <2>8. volr[1] = tick.v
    BY <1>4, <2>1, <2>5, <2>6
  <2>9. \A i \in 1 .. Len(vols) : vols[i] \in Nat /\ volr[i + 1] = vols[i]
    <3> SUFFICES ASSUME NEW i \in 1 .. Len(q)
                 PROVE  vols[i] \in Nat /\ volr[i + 1] = vols[i]
      BY <1>5
    <3>1. i + 1 \in 1 .. Len(q) + 1
      BY <1>4
    <3> QED BY <1>4, <1>5, <2>5, <2>6, <3>1
  <2>10. Total(volr) = volr[1] + Total(vols)
    BY <1>2, <2>7, <2>8, <2>9, TotalPushed
  <2>11. Total(vols) = before
    <3>1. Len(q) < n
      BY <1>4, <2>5
    <3> QED BY <3>1 DEF VolumeKept, vols
  <2> QED BY <1>2, <1>3, <2>8, <2>10, <2>11
<1>7. CASE ~OpensWindow(w, q, tick)
  <2> DEFINE upd == UpdateWith(q[1], tick)
  <2>1. q # <<>> /\ 1 \in 1 .. Len(q) /\ Len(q) \in Nat \ {0}
    BY <1>4, <1>7 DEF OpensWindow
  <2>2. r = [q EXCEPT ![1] = upd]
    BY <1>7 DEF AddDataQueue
  <2>3. upd.vol_ = q[1].vol_ + tick.v
    BY DEF UpdateWith
  <2> HIDE DEF upd, r
  <2>4. /\ DOMAIN r = 1 .. Len(q) /\ Len(r) = Len(q) /\ r[1] = upd
        /\ \A i \in 1 .. Len(q) : i # 1 => r[i] = q[i]
    BY <1>4, <2>1, <2>2
  <2>5. Len(volr) = Len(q) /\ \A i \in 1 .. Len(q) : volr[i] = r[i].vol_
    <3>1. Len(volr) = Len(q)
          /\ \A i \in 1 .. Len(q) : volr[i] = IF i \in DOMAIN r THEN r[i].vol_ ELSE 0
      BY <1>4, <2>4, VolumesAre
    <3> QED BY <2>4, <3>1
  <2> HIDE DEF volr, vols
  <2>6. /\ Len(vols) \in Nat \ {0} /\ Len(volr) = Len(vols)
        /\ \A i \in 1 .. Len(vols) : vols[i] \in Nat
        /\ volr[1] = vols[1] + tick.v
        /\ \A i \in 1 .. Len(vols) : i # 1 => volr[i] = vols[i]
    BY <1>4, <1>5, <2>1, <2>3, <2>4, <2>5
  <2>7. Total(volr) = Total(vols) + tick.v
    BY <1>2, <2>6, TotalFront
  <2>8. Total(vols) = before
    <3>1. Len(q) < n
      BY <2>4
    <3> QED BY <3>1 DEF VolumeKept, vols
  <2> QED BY <1>3, <2>7, <2>8
<1> QED BY <1>6, <1>7

-----------------------------------------------------------------------------
(* Merging candles that were merged themselves. *)

(* The candles seq[j], j in own, merge the ticks of the sets Group[j] of a  *)
(* partition; what merges all the ticks also merges these candles.          *)
MergeGroups(N, parts, all, L, seq, own, Group) ==
  /\ DOMAIN parts = 1 .. N /\ all \subseteq 1 .. N
  /\ \A i \in 1 .. N : /\ parts[i].vol_ \in Nat /\ parts[i].start_ \in Int
                       /\ parts[i].low_ \in Int /\ parts[i].high_ \in Int
  /\ \A i1, i2 \in all : parts[i1].start_ = parts[i2].start_ => i1 = i2
  /\ DOMAIN seq = 1 .. L /\ own \subseteq 1 .. L
  /\ \A j \in own : Group[j] \subseteq all /\ IsMerge(seq[j], parts, Group[j])
  /\ \A i \in all : \E j \in own : i \in Group[j]
  /\ \A j1, j2 \in own : j1 # j2 => Group[j1] \cap Group[j2] = {}
  /\ \A j1, j2 \in own : \A i1 \in Group[j1], i2 \in Group[j2] :
       parts[i1].start_ <= parts[i2].start_ => seq[j1].start_ <= seq[j2].start_

(* Their volumes add up. *)
LEMMA GroupVolumes ==
  ASSUME NEW N \in Nat, NEW parts, NEW all, NEW L \in Nat, NEW seq, NEW own, NEW Group,
         MergeGroups(N, parts, all, L, seq, own, Group)
  PROVE  Total(Volumes(seq, own)) = Total(Volumes(parts, all))
<1> DEFINE U(m) == {i \in all : \E j \in own : j <= m /\ i \in Group[j]}
           V(m) == Total(Volumes(parts, U(m)))
           sums == [m \in 0 .. L |-> V(m)]
           vols == Volumes(seq, own)
<1>1. /\ DOMAIN parts = 1 .. N /\ all \subseteq 1 .. N
      /\ \A i \in 1 .. N : parts[i].vol_ \in Nat
      /\ DOMAIN seq = 1 .. L /\ own \subseteq 1 .. L
  BY DEF MergeGroups
<1>2. Len(vols) = L
      /\ \A m \in 1 .. L : vols[m] = IF m \in own THEN seq[m].vol_ ELSE 0
  BY <1>1, VolumesAre
<1>3. V(0) = 0
  <2>1. \A i \in 1 .. N : i \notin U(0)
    BY <1>1
  <2> DEFINE none == U(0)
  <2>2. \A i \in 1 .. N : i \notin none
    BY <2>1
  <2> HIDE DEF none
  <2>3. Total(Volumes(parts, none)) = 0
    BY <1>1, <2>2, VolumesNone
  <2> QED BY <2>3 DEF none
<1>4. ASSUME NEW m \in 1 .. L
      PROVE  V(m) = V(m - 1) + vols[m]
  <2>0. m - 1 \in Int /\ m \in Int /\ \A j \in own : j \in Int /\ (j <= m <=> j <= m - 1 \/ j = m)
    BY <1>1
  <2>1. CASE m \in own
    <3> DEFINE this == U(m)
               left == U(m - 1)
               right == Group[m]
    <3>1. right \subseteq all /\ IsMerge(seq[m], parts, right)
      BY <2>1 DEF MergeGroups
    <3>2. \A i \in 1 .. N : i \in this <=> (i \in left \/ i \in right)
      BY <2>0, <2>1, <3>1
    <3>3. \A i \in 1 .. N : ~(i \in left /\ i \in right)
      <4> SUFFICES ASSUME NEW i \in left, i \in right
                   PROVE  FALSE
        OBVIOUS
      <4>1. PICK j \in own : j <= m - 1 /\ i \in Group[j]
        OBVIOUS
      <4>2. j # m
        BY <2>0, <4>1
      <4>3. Group[j] \cap Group[m] = {}
        BY <2>1, <4>2 DEF MergeGroups
      <4> QED BY <4>1, <4>3
    <3> HIDE DEF this, left, right
    <3>4. Total(Volumes(parts, this)) =
            Total(Volumes(parts, left)) + Total(Volumes(parts, right))
      BY <1>1, <3>2, <3>3, VolumesUnion
    <3>5. vols[m] = Total(Volumes(parts, right))
      BY <1>2, <2>1, <3>1 DEF IsMerge
    <3> QED BY <3>4, <3>5 DEF this, left
  <2>2. CASE m \notin own
    <3>1. U(m) = U(m - 1)
      BY <2>0, <2>2
    <3>2. V(m) = V(m - 1)
      BY <3>1
    <3>3. V(m - 1) \in Nat
      <4> DEFINE set == U(m - 1)
                 pv == Volumes(parts, set)
      <4>1. Len(pv) = N /\ \A i \in 1 .. N : pv[i] = IF i \in set THEN parts[i].vol_ ELSE 0
        BY <1>1, VolumesAre
      <4> HIDE DEF pv, set
      <4>2. \A i \in 1 .. Len(pv) : pv[i] \in Nat
        BY <1>1, <4>1
      <4>3. Total(pv) \in Nat
        BY <4>1, <4>2, TotalNat
      <4> QED BY <4>3 DEF pv, set
    <3>4. vols[m] = 0
      BY <1>2, <2>2
    <3> HIDE DEF V, vols
    <3> QED BY <3>2, <3>3, <3>4
  <2> QED BY <2>1, <2>2
<1> HIDE DEF V, vols
<1>5. SumsOf(sums, vols)
  <2>1. sums[0] = 0
    BY <1>3
  <2>2. \A m \in 1 .. L : m \in 0 .. L /\ m - 1 \in 0 .. L
    OBVIOUS
  <2>3. \A m \in 1 .. L : sums[m] = sums[m - 1] + vols[m]
    BY <1>4, <2>2
  <2> QED BY <1>2, <2>1, <2>3 DEF SumsOf
<1>6. sums[L] = V(L)
  OBVIOUS
<1> HIDE DEF sums
<1>7. Total(vols) = V(L)
  BY <1>2, <1>5, <1>6, TotalIs
<1>8. U(L) = all
  <2>1. \A j \in own : j <= L
    BY <1>1
  <2>2. \A i \in all : \E j \in own : i \in Group[j]
    BY DEF MergeGroups
  <2> QED BY <2>1, <2>2
<1> QED BY <1>7, <1>8 DEF V, vols

(* So does the rest of the candle. *)
LEMMA MergeOfMerges ==
  ASSUME NEW N \in Nat, NEW parts, NEW all, NEW L \in Nat, NEW seq, NEW own, NEW Group,
         MergeGroups(N, parts, all, L, seq, own, Group),
         NEW agg, IsMerge(agg, parts, all)
  PROVE  IsMerge(agg, seq, own)
<1>1. Total(Volumes(seq, own)) = Total(Volumes(parts, all))
  BY GroupVolumes
<1>2. \A i \in all : /\ i \in 1 .. N
                     /\ parts[i].start_ \in Int
                     /\ parts[i].low_ \in Int /\ parts[i].high_ \in Int
  BY DEF MergeGroups
<1>3. \A j \in own : Group[j] \subseteq all
  BY DEF MergeGroups
<1>4. \A i \in all : \E j \in own : i \in Group[j]
  BY DEF MergeGroups
<1>5. \A i1, i2 \in all : parts[i1].start_ = parts[i2].start_ => i1 = i2
  BY DEF MergeGroups
<1>6. \A j1, j2 \in own : \A i1 \in Group[j1], i2 \in Group[j2] :
        parts[i1].start_ <= parts[i2].start_ => seq[j1].start_ <= seq[j2].start_
  BY DEF MergeGroups
<1>7. ASSUME NEW j \in own
      PROVE  \E f, l \in Group[j] :
               /\ \A i \in Group[j] : /\ parts[f].start_ <= parts[i].start_
                                      /\ parts[i].start_ <= parts[l].start_
               /\ seq[j].ticker_ = parts[f].ticker_
               /\ seq[j].open_ = parts[f].open_
               /\ seq[j].close_ = parts[l].close_
               /\ seq[j].end_ = parts[l].end_
  <2>1. IsMerge(seq[j], parts, Group[j])
    BY DEF MergeGroups
  <2> QED BY <2>1 DEF IsMerge
<1>8. ASSUME NEW j \in own
      PROVE  /\ \A i \in Group[j] : seq[j].low_ <= parts[i].low_ /\ parts[i].high_ <= seq[j].high_
             /\ \E i \in Group[j] : seq[j].low_ = parts[i].low_
             /\ \E i \in Group[j] : seq[j].high_ = parts[i].high_
  <2>1. IsMerge(seq[j], parts, Group[j])
    BY DEF MergeGroups
  <2> QED BY <2>1 DEF IsMerge
<1>9. PICK first \in all, last \in all :
        /\ \A i \in all : /\ parts[first].start_ <= parts[i].start_
                          /\ parts[i].start_ <= parts[last].start_
        /\ agg.ticker_ = parts[first].ticker_
        /\ agg.open_ = parts[first].open_
        /\ agg.close_ = parts[last].close_
        /\ agg.end_ = parts[last].end_
  BY DEF IsMerge
<1>10. PICK j1 \in own : first \in Group[j1]
  BY <1>4
<1>11. PICK j2 \in own : last \in Group[j2]
  BY <1>4
<1>12. \A j \in own : \E i \in all : i \in Group[j]
  BY <1>3, <1>7
<1>13. \A j \in own : seq[j1].start_ <= seq[j].start_ /\ seq[j].start_ <= seq[j2].start_
  <2> SUFFICES ASSUME NEW j \in own
               PROVE  seq[j1].start_ <= seq[j].start_ /\ seq[j].start_ <= seq[j2].start_
    OBVIOUS
  <2>1. PICK i \in all : i \in Group[j]
    BY <1>12
  <2>2. parts[first].start_ <= parts[i].start_ /\ parts[i].start_ <= parts[last].start_
    BY <1>9
  <2> QED BY <1>6, <1>10, <1>11, <2>1, <2>2
<1>14. seq[j1].ticker_ = parts[first].ticker_ /\ seq[j1].open_ = parts[first].open_
  <2>1. PICK f \in Group[j1] : /\ \A i \in Group[j1] : parts[f].start_ <= parts[i].start_
                               /\ seq[j1].ticker_ = parts[f].ticker_
                               /\ seq[j1].open_ = parts[f].open_
    BY <1>7
  <2>2. f \in all /\ parts[f].start_ <= parts[first].start_ /\ parts[first].start_ <= parts[f].start_
    BY <1>3, <1>9, <1>10, <2>1
  <2>3. parts[f].start_ = parts[first].start_
    BY <1>2, <2>2
  <2>4. f = first
    BY <1>5, <2>2, <2>3
  <2> QED BY <2>1, <2>4
<1>15. seq[j2].close_ = parts[last].close_ /\ seq[j2].end_ = parts[last].end_
  <2>1. PICK l \in Group[j2] : /\ \A i \in Group[j2] : parts[i].start_ <= parts[l].start_
                               /\ seq[j2].close_ = parts[l].close_
                               /\ seq[j2].end_ = parts[l].end_
    BY <1>7
  <2>2. l \in all /\ parts[l].start_ <= parts[last].start_ /\ parts[last].start_ <= parts[l].start_
    BY <1>3, <1>9, <1>11, <2>1
  <2>3. parts[l].start_ = parts[last].start_
    BY <1>2, <2>2
  <2>4. l = last
    BY <1>5, <2>2, <2>3
  <2> QED BY <2>1, <2>4
<1>16. \A i \in all : agg.low_ <= parts[i].low_ /\ parts[i].high_ <= agg.high_
  BY DEF IsMerge
<1>17. \A j \in own : agg.low_ <= seq[j].low_ /\ seq[j].high_ <= agg.high_
  BY <1>3, <1>8, <1>16
<1>18. \A j \in own : seq[j].low_ \in Int /\ seq[j].high_ \in Int
  BY <1>2, <1>3, <1>8
<1>19. \E j \in own : agg.low_ = seq[j].low_
  <2>1. PICK i \in all : agg.low_ = parts[i].low_
    BY DEF IsMerge
  <2>2. PICK j \in own : i \in Group[j]
    BY <1>4
  <2>3. seq[j].low_ <= agg.low_ /\ agg.low_ <= seq[j].low_ /\ agg.low_ \in Int
    BY <1>2, <1>8, <1>17, <2>1, <2>2
  <2>4. agg.low_ = seq[j].low_
    BY <1>18, <2>3
  <2> QED BY <2>4
<1>20. \E j \in own : agg.high_ = seq[j].high_
  <2>1. PICK i \in all : agg.high_ = parts[i].high_
    BY DEF IsMerge
  <2>2. PICK j \in own : i \in Group[j]
    BY <1>4
  <2>3. seq[j].high_ <= agg.high_ /\ agg.high_ <= seq[j].high_ /\ agg.high_ \in Int
    BY <1>2, <1>8, <1>17, <2>1, <2>2
  <2>4. agg.high_ = seq[j].high_
    BY <1>18, <2>3
  <2> QED BY <2>4
<1>21. agg.vol_ = Total(Volumes(seq, own))
  BY <1>1 DEF IsMerge
<1>22. \E f, l \in own :
         /\ \A j \in own : /\ seq[f].start_ <= seq[j].start_
                           /\ seq[j].start_ <= seq[l].start_
         /\ agg.ticker_ = seq[f].ticker_
         /\ agg.open_ = seq[f].open_
         /\ agg.close_ = seq[l].close_
         /\ agg.end_ = seq[l].end_
  BY <1>9, <1>13, <1>14, <1>15
<1> QED BY <1>17, <1>19, <1>20, <1>21, <1>22 DEF IsMerge
=============================================================================
