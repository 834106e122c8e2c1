--------------------------- MODULE MCMatchingEngine --------------------------
(***************************************************************************)
(* The engine for TLC, on the commands of MCOrderBook.                     *)
(***************************************************************************)
EXTENDS MatchingEngine, MCOrderBook

EngineView == <<BookView, stats, base, filled>>
=============================================================================
