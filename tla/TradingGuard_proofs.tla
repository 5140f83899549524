------------------------- MODULE TradingGuard_proofs -------------------------
(* Proofs about TradingGuard, for any number of guards and any lease.      *)
EXTENDS TradingGuard, TLAPS

(* A guard that works holds the lock; OneGuardWorks follows.               *)
IInv == TypeOK /\ \A g \in Guards : guard[g] \in Recovering => lock = g

LEMMA InitIInv == Init => IInv
  BY GuardAssumption DEF Init, IInv, TypeOK, NoLease, Recovering

LEMMA NextIInv == IInv /\ [Next]_vars => IInv'
<1> SUFFICES ASSUME IInv, [Next]_vars PROVE IInv'
  OBVIOUS
<1> USE GuardAssumption DEF IInv, TypeOK, Recovering
<1>1. ASSUME NEW g \in Guards, Claim(g) PROVE IInv'
  BY <1>1 DEF Claim
<1>2. ASSUME NEW g \in Guards, BeginWork(g) PROVE IInv'
  BY <1>2 DEF BeginWork
<1>3. ASSUME NEW g \in Guards, Step(g) \/ Fail(g) \/ FinishWork(g) PROVE IInv'
  BY <1>3 DEF Step, Fail, FinishWork
<1>4. ASSUME NEW g \in Guards, NEW killed \in BOOLEAN, Stop(g, killed) PROVE IInv'
  BY <1>4 DEF Stop, Released, NoLease
<1>5. CASE ServerBegin \/ ServerFinish
  BY <1>5 DEF ServerBegin, ServerFinish
<1>6. CASE Tick
  BY <1>6 DEF Tick
<1>7. CASE UNCHANGED vars
  BY <1>7 DEF vars
<1> QED
  BY <1>1, <1>2, <1>3, <1>4, <1>5, <1>6, <1>7 DEF Next, Loop

(* guard.py, run_once: the file lock keeps two guards from working at once *)
(* for any number of guards and any length of the lease.                   *)
THEOREM GuardsExclude == Spec => []OneGuardWorks
<1>1. IInv => OneGuardWorks
  BY GuardAssumption DEF IInv, OneGuardWorks
<1> QED
  BY <1>1, InitIInv, NextIInv, PTL DEF Spec

(* guard.py, claim and release: a valid lease is only lost by its owner.   *)
THEOREM LeaseSafe == Spec => LeaseIsKept
<1>1. IInv /\ [Next]_vars
        => [\A g \in Guards : lease.owner = g /\ lease.left > 0
              => lease'.owner = g \/ guard'[g] = "stopped"]_vars
  <2> SUFFICES ASSUME IInv, Next, NEW g \in Guards, lease.owner = g, lease.left > 0
               PROVE  lease'.owner = g \/ guard'[g] = "stopped"
    OBVIOUS
  <2> USE GuardAssumption DEF IInv, TypeOK
  <2>1. ASSUME NEW h \in Guards, Loop(h) PROVE lease'.owner = g
    BY <2>1 DEF Loop, Claim, BeginWork, Step, Fail, FinishWork, Active
  <2>2. ASSUME NEW h \in Guards, NEW killed \in BOOLEAN, Stop(h, killed)
        PROVE  lease'.owner = g \/ guard'[g] = "stopped"
    BY <2>2 DEF Stop, Released
  <2>3. CASE ServerBegin \/ ServerFinish \/ Tick
    BY <2>3 DEF ServerBegin, ServerFinish, Tick
  <2> QED
    BY <2>1, <2>2, <2>3 DEF Next
<1> QED
  BY <1>1, InitIInv, NextIInv, PTL DEF Spec, LeaseIsKept
=============================================================================
