----------------------------- MODULE MCEntryRule -----------------------------
(***************************************************************************)
(* Model checking of EntryRule: quiet seconds, rises and heavy trade, from  *)
(* the end of the first trading hour on.                                    *)
(***************************************************************************)
EXTENDS EntryRule

MCShapes ==
  {[v |-> 2000, o |-> 5, c |-> 5, h |-> 5, l |-> 5],
   [v |-> 2000, o |-> 5, c |-> 7, h |-> 7, l |-> 5],
   [v |-> 5000, o |-> 5, c |-> 7, h |-> 7, l |-> 5]}

(* 9:24:49 am and 9:45 am. *)
MCOpenings == {33889, 35100}
=============================================================================
