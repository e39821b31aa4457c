--------------------------- MODULE MCAggDataStore ---------------------------
EXTENDS AggDataStore

MCShapes == {[v |-> 1, o |-> 2, c |-> 3, h |-> 4, l |-> 1],
             [v |-> 2, o |-> 6, c |-> 5, h |-> 7, l |-> 5]}
=============================================================================
