--------------------------- MODULE MCFetchFrontier ---------------------------
(* Model checking of FetchFrontier.                                          *)
EXTENDS FetchFrontier, TLC

CONSTANTS w1, w2, o1, o2

=============================================================================
