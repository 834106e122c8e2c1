------------------------- MODULE MCBookRefinesNaive -------------------------
(***************************************************************************)
(* The refinement for TLC, on the commands and the view of MCOrderBook.    *)
(***************************************************************************)
EXTENDS BookRefinesNaive, MCOrderBook
=============================================================================
