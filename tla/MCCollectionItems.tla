------------------------- MODULE MCCollectionItems -------------------------
(***************************************************************************)
(* A workflow of two pages of crawls, and bounds, for model checking.      *)
(***************************************************************************)
EXTENDS CollectionItems

CONSTANTS c1, c2, c3, u1

TwoPages == << <<c1, c2>>, <<c3>> >>

\* Many changes and one save, or few and saves that fail, or lapses.
MCLimits ==
    {[edits |-> 3, loads |-> 2, saves |-> 1, failures |-> 0, lapses |-> 0],
     [edits |-> 2, loads |-> 1, saves |-> 2, failures |-> 1, lapses |-> 0],
     [edits |-> 2, loads |-> 2, saves |-> 1, failures |-> 0, lapses |-> 1]}
=============================================================================
