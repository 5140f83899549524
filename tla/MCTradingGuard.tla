--------------------------- MODULE MCTradingGuard ---------------------------
(* Instances of TradingGuard for TLC.                                      *)
EXTENDS TradingGuard, TLC
=============================================================================
