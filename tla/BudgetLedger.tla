---------------------------- MODULE BudgetLedger ----------------------------
(***************************************************************************)
(* What the capital ledger of one account promises, without saying how:    *)
(* a claim is admitted at most once and only while the claims outstanding  *)
(* fit the budget; an outstanding claim may be retired, alone or together  *)
(* with others, and a retired claim never comes back.                      *)
(* CapitalReservations is shown to implement it.                           *)
(***************************************************************************)
EXTENDS Integers

CONSTANTS Claims,      \* the claims that may ever be made
          Total(_),    \* what the claims of a set block together
          Budget       \* what the outstanding claims may block together

VARIABLES outstanding, retired

ledgerVars == <<outstanding, retired>>

LedgerInit == outstanding = {} /\ retired = {}

(* Retire the claims of S.                                                 *)
Retire(S) ==
    /\ outstanding' = outstanding \ S
    /\ retired' = retired \union S

(* Retire the claims of S and admit c beside the others, in one step.      *)
Admit(c, S) ==
    /\ c \notin outstanding \union retired
    /\ Total((outstanding \ S) \union {c}) <= Budget
    /\ outstanding' = (outstanding \ S) \union {c}
    /\ retired' = retired \union S

LedgerNext ==
    \E S \in SUBSET outstanding :
        \/ Retire(S)
        \/ \E c \in Claims : Admit(c, S)

LedgerSpec == LedgerInit /\ [][LedgerNext]_ledgerVars
=============================================================================
