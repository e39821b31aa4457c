--------------------------- MODULE MCDataHandler ---------------------------
EXTENDS DataHandler, TLC

MCShapes == {[v |-> 1, o |-> 2, c |-> 3, h |-> 4, l |-> 1],
             [v |-> 2, o |-> 6, c |-> 5, h |-> 7, l |-> 5]}

(* 1, 10, 60 and 300 seconds scaled down; each divides the next. *)
MCWindowSizes == <<1, 2, 4, 8>>

Symmetry == Permutations(Tickers) \cup Permutations(Names)
=============================================================================
