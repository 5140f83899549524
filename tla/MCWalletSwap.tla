---------------------------- MODULE MCWalletSwap ----------------------------
(* Instances of WalletSwap for TLC: two swaps of one chain.                *)
EXTENDS WalletSwap

CONSTANTS bsc

MCChainOf == [s \in Swap |-> bsc]
=============================================================================
