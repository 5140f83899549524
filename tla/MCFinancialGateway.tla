------------------------ MODULE MCFinancialGateway --------------------------
(* Instances of FinancialGateway for TLC.                                  *)
EXTENDS FinancialGateway, FiniteSetsExt, TLC

CONSTANTS Bridge, Transfer, Permit, Purse

(* A bridge that may ask for an allowance, the permit of the same signer   *)
(* that gives it, and a transfer between exchange accounts.                *)
MCWalletOf == [a \in Action |-> IF a = Transfer THEN NoWallet ELSE Purse]
MCParent == [a \in Action |-> IF a = Permit THEN Bridge ELSE NoAction]
MCValue == [x \in Action \X Version |-> IF x[1] = Bridge THEN 1 + x[2] ELSE 2]
MCWorth(Q) == MapThenSumSet(LAMBDA x : Value[x], Q)

Callers == Permutations(Worker)

(* The complications of a behaviour: two meet around the bridge alone; a   *)
(* new quote and another grant while the transfer exists too; a discard    *)
(* while the permit does. Only the bridge is quoted twice and approved by  *)
(* hand; a grant replaces an ended one.                                    *)
Complications ==
    {x \in {"refresh", "expiry", "end", "regrant", "approval", "discard"} :
        \/ x = "refresh" /\ row[Bridge].quote > 1
        \/ x = "expiry" /\ expired # {}
        \/ x = "end" /\ \E g \in Grant : grant[g] = "ended"
        \/ x = "regrant" /\ \E g \in Grant \ {1} : grant[g] # "draft"
        \/ x = "approval" /\ \E q \in Version : approval[Bridge][q] # "none"
        \/ x = "discard" /\ \E w \in Worker : Working(w, {"discard", "discarding"})}

Others == {a \in Action \ {Bridge} : row[a].state # "none"}

Few ==
    /\ \A a \in Action \ {Bridge} : row[a].quote <= 1 /\ approval[a][1] = "none"
    /\ \A g \in Grant \ {1} : grant[g] # "draft" => grant[g - 1] = "ended"
    /\ \/ Others = {} /\ Cardinality(Complications) <= 2
       \/ Others = {Permit} /\ Complications \subseteq {"discard"}
       \/ /\ Others = {Transfer}
          /\ \E C \in {{"refresh"}, {"end", "regrant"}} : Complications \subseteq C
=============================================================================
