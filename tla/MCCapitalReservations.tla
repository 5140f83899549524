----------------------- MODULE MCCapitalReservations -----------------------
(* Instances of CapitalReservations for TLC.                               *)
EXTENDS CapitalReservations, FiniteSetsExt

(* Every plan blocks 2, so a capital of 4 with a floor of 1, or of 3       *)
(* without one, takes one of two.                                          *)
MCCost == [r \in Rsv |-> 2]

MCTotal(S) == MapThenSumSet(LAMBDA r : Cost[r], S)
=============================================================================
