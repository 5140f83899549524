-------------------------- MODULE MCOrderExecution --------------------------
(* Instances of OrderExecution for TLC.                                    *)
EXTENDS OrderExecution, TLC
=============================================================================
