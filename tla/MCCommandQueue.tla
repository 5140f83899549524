-------------------------- MODULE MCCommandQueue ---------------------------
(* Instances of CommandQueue for TLC.                                      *)
EXTENDS CommandQueue, FiniteSets

(* The complications of a behaviour.                                       *)
Complications ==
    {x \in {"second", "approval", "guide", "death", "failure"} :
        \/ x = "second" /\ Cardinality({c \in Cmd : state[<<c, 0>>] # "none"}) > 1
        \/ x = "approval" /\ \E t \in Turn : did[t] = "awaiting"
        \/ x = "guide" /\ \E g \in Guide : guide[g].state # "none"
        \/ x = "death" /\ dead # {}
        \/ x = "failure" /\ failed # {}}

(* One process acts, and keeps the epoch. With neither death nor failure    *)
(* the processes are alike: the one that does not die stands for both.     *)
Alone == \E p \in Proc \ Mortal : /\ queue.epoch = p
                                  /\ \A q \in Proc \ {p} : /\ worker[q].pc = "none"
                                                           /\ resolver[q].pc = "none"

(* Each complication meets a death while two processes act; an approval    *)
(* meets a second command while one does.                                  *)
Pairwise ==
    \/ Cardinality(Complications) <= 1
    \/ "death" \in Complications /\ Cardinality(Complications) = 2
    \/ Complications = {"second", "approval"} /\ Alone
=============================================================================
