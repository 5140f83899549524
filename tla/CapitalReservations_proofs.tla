---------------------- MODULE CapitalReservations_proofs ----------------------
(***************************************************************************)
(* Proofs about CapitalReservations, for every set of reservations, every  *)
(* cost, capital, floor, clock bound and combination of faults: the type   *)
(* invariant, NoOvercommit, SettledIsFinal and that the table implements   *)
(* BudgetLedger.                                                           *)
(***************************************************************************)
EXTENDS CapitalReservations, TLAPS

Live == {r \in Rsv : order[r] = "live"}

(* No snapshot ever shows more than the capital the account began with,    *)
(* because the venue's own accounts balance.                               *)
Accounts ==
    /\ free + Total(Live) <= Capital
    /\ latest.free <= Capital
    /\ \A r \in Rsv : snap[r].free <= Capital

(* A submission that has not reached reserve_checked has no row.           *)
NoRowYet == \A r \in Rsv : pc[r] \in {"idle", "snapped", "allowed"}
                              => rsv[r] = "none"

IInv == TypeOK /\ Accounts /\ NoRowYet /\ NoOvercommit

-----------------------------------------------------------------------------
(* What the proofs use of the constants.                                   *)

LEMMA ConstantTypes ==
    /\ Capital \in Nat /\ Floor \in Nat /\ Floor <= Capital
    /\ TTL \in Nat \ {0} /\ Cost \in [Rsv -> Nat]
BY CapitalAssumption

LEMMA TotalIsNat ==
    ASSUME NEW S \in SUBSET Rsv
    PROVE  Total(S) \in Nat
BY CapitalAssumption

LEMMA TotalGrows ==
    ASSUME NEW S \in SUBSET Rsv, NEW T \in SUBSET Rsv, S \subseteq T
    PROVE  Total(S) <= Total(T)
BY CapitalAssumption

LEMMA TotalAdd ==
    ASSUME NEW S \in SUBSET Rsv, NEW r \in Rsv \ S
    PROVE  Total(S \union {r}) = Total(S) + Cost[r]
BY CapitalAssumption

LEMMA TotalRemove ==
    ASSUME NEW S \in SUBSET Rsv, NEW r \in S
    PROVE  Total(S) = Total(S \ {r}) + Cost[r]
<1>1. S \ {r} \in SUBSET Rsv /\ r \in Rsv \ (S \ {r})
  OBVIOUS
<1>2. (S \ {r}) \union {r} = S
  OBVIOUS
<1> QED
  BY <1>1, <1>2, TotalAdd

-----------------------------------------------------------------------------
(* How the actions move the set of active reservations.                    *)

LEMMA TransitionOnlySettles ==
    ASSUME TypeOK, NEW r \in Rsv, NEW s \in Settled,
           rsv' = TransitionIfActive(r, s)
    PROVE  /\ rsv' \in [Rsv -> {"none", "reserved"} \union Settled]
           /\ Active' \subseteq Active
           /\ \A q \in Rsv : rsv[q] # "reserved" => rsv'[q] = rsv[q]
           /\ \A q \in Rsv : rsv[q] = "reserved" => rsv'[q] # "none"
BY DEF TypeOK, TransitionIfActive, Active, Settled

LEMMA SweepOnlySettles ==
    ASSUME TypeOK, rsv' = ExpireDue
    PROVE  /\ rsv' \in [Rsv -> {"none", "reserved"} \union Settled]
           /\ Active' \subseteq Active
           /\ \A q \in Rsv : rsv[q] # "reserved" => rsv'[q] = rsv[q]
           /\ \A q \in Rsv : rsv[q] = "reserved" => rsv'[q] # "none"
BY DEF TypeOK, ExpireDue, Active, Due, Settled

(* Fewer active reservations block no more.                                *)
LEMMA FewerActiveFit ==
    ASSUME TypeOK, TypeOK', NoOvercommit, Active' \subseteq Active
    PROVE  NoOvercommit'
<1>1. Active \in SUBSET Rsv /\ Active' \in SUBSET Rsv
  BY DEF Active
<1>2. Total(Active') <= Total(Active)
  BY <1>1, TotalGrows
<1>3. Total(Active) \in Nat /\ Total(Active') \in Nat
  BY <1>1, TotalIsNat
<1> QED
  BY <1>2, <1>3, CapitalAssumption DEF NoOvercommit

(* An admission fits beside what is left after its own sweep.              *)
LEMMA AdmissionFits ==
    ASSUME IInv, NEW r \in Rsv, ReserveChecked(r), Fits(r)
    PROVE  /\ Active' = (Active \ Due) \union {r}
           /\ rsv[r] = "none"
           /\ Total(Active') + Floor <= Capital
<1>1. rsv[r] = "none"
  BY DEF IInv, NoRowYet, ReserveChecked
<1>2. Active' = (Active \ Due) \union {r}
  BY <1>1 DEF IInv, TypeOK, ReserveChecked, Active, ExpireDue, Due
<1>3. Active \ Due \in SUBSET Rsv /\ r \in Rsv \ (Active \ Due)
  BY <1>1 DEF Active, Due
<1>4. Total(Active') = Blocked + Cost[r]
  BY <1>2, <1>3, TotalAdd DEF Blocked
<1>5. Blocked \in Nat /\ Cost[r] \in Nat
  BY <1>3, TotalIsNat, CapitalAssumption DEF Blocked
<1>6. snap[r].free \in Nat /\ snap[r].free <= Capital
  BY DEF IInv, TypeOK, Snapshot, Accounts
<1> QED
  BY <1>1, <1>2, <1>4, <1>5, <1>6, CapitalAssumption DEF Fits

-----------------------------------------------------------------------------
(* The invariant is inductive.                                             *)

LEMMA InitIInv == Init => IInv
<1> SUFFICES ASSUME Init PROVE IInv
  OBVIOUS
<1>1. TypeOK
  BY CapitalAssumption DEF Init, TypeOK, Snapshot, PcStates, RunStates, OrderStates
<1>2. Live = {} /\ Active = {}
  BY DEF Init, Live, Active
<1>3. Accounts
  BY <1>2, CapitalAssumption DEF Init, Accounts
<1>4. NoOvercommit
  BY <1>2, CapitalAssumption DEF NoOvercommit
<1> QED
  BY <1>1, <1>3, <1>4 DEF Init, IInv, NoRowYet

(* The steps of a submission.                                              *)
LEMMA SubmissionStep ==
    ASSUME IInv, NEW r \in Rsv, Submission(r)
    PROVE  IInv'
<1> USE DEF IInv
<1>1. CASE TakeSnapshot(r)
  <2>1. TypeOK'
    BY <1>1 DEF TypeOK, TakeSnapshot, Snapshot, PcStates
  <2>2. UNCHANGED <<Live, Active>>
    BY <1>1 DEF TakeSnapshot, Live, Active
  <2>3. free <= Capital
    <3>1. Total(Live) \in Nat
      BY TotalIsNat DEF Live
    <3> QED
      BY <3>1, CapitalAssumption DEF TypeOK, Accounts
  <2>4. latest'.free <= Capital
    BY <1>1, <2>3 DEF TakeSnapshot, Accounts
  <2>5. Accounts'
    BY <1>1, <2>2, <2>4 DEF TakeSnapshot, Accounts, TypeOK
  <2> QED
    BY <1>1, <2>1, <2>2, <2>5 DEF TakeSnapshot, NoRowYet, NoOvercommit, TypeOK
<1>2. CASE Evaluate(r)
  <2>1. /\ rsv' \in [Rsv -> {"none", "reserved"} \union Settled]
        /\ Active' \subseteq Active
        /\ \A q \in Rsv : rsv[q] # "reserved" => rsv'[q] = rsv[q]
    BY <1>2, SweepOnlySettles DEF Evaluate
  <2>2. TypeOK'
    BY <1>2, <2>1 DEF TypeOK, Evaluate, PcStates
  <2>3. NoRowYet'
    BY <1>2, <2>1 DEF TypeOK, Evaluate, NoRowYet
  <2>4. Accounts'
    BY <1>2 DEF Evaluate, Accounts, Live
  <2> QED
    BY <2>1, <2>2, <2>3, <2>4, FewerActiveFit
<1>3. CASE ReserveChecked(r)
  <2>1. CASE Fits(r)
    <3>1. TypeOK'
      <4>1. ExpireDue \in [Rsv -> {"none", "reserved"} \union Settled]
        BY DEF TypeOK, ExpireDue, Settled
      <4>2. rsv' \in [Rsv -> {"none", "reserved"} \union Settled]
        BY <1>3, <2>1, <4>1 DEF ReserveChecked
      <4>3. expiry' \in [Rsv -> Nat]
        BY <1>3, <2>1, ConstantTypes DEF TypeOK, ReserveChecked
      <4>4. pc' \in [Rsv -> PcStates]
        BY <1>3, <2>1 DEF TypeOK, ReserveChecked, PcStates
      <4> QED
        BY <1>3, <4>2, <4>3, <4>4 DEF TypeOK, ReserveChecked
    <3>2. NoRowYet'
      BY <1>3, <2>1 DEF TypeOK, ReserveChecked, ExpireDue, NoRowYet, Due, Active
    <3>3. Accounts'
      BY <1>3 DEF ReserveChecked, Accounts, Live
    <3>4. NoOvercommit'
      BY <1>3, <2>1, AdmissionFits DEF NoOvercommit
    <3> QED
      BY <3>1, <3>2, <3>3, <3>4
  <2>2. CASE ~Fits(r)
    <3>1. UNCHANGED <<free, latest, snap, order, rsv>> /\ TypeOK'
      BY <1>3, <2>2 DEF TypeOK, ReserveChecked, PcStates
    <3>2. NoRowYet'
      BY <1>3, <2>2 DEF TypeOK, ReserveChecked, NoRowYet
    <3> QED
      BY <3>1, <3>2 DEF Accounts, Live, NoOvercommit, Active
  <2> QED
    BY <2>1, <2>2
<1>4. CASE CreateExecutor(r) \/ AttachExecutor(r) \/ SubmitterCrash(r)
  <2>1. UNCHANGED <<free, latest, snap, order, rsv>> /\ TypeOK'
    BY <1>4
    DEF TypeOK, CreateExecutor, AttachExecutor, SubmitterCrash, PcStates, RunStates
  <2>2. NoRowYet'
    BY <1>4 DEF TypeOK, CreateExecutor, AttachExecutor, SubmitterCrash, NoRowYet
  <2> QED
    BY <2>1, <2>2 DEF Accounts, Live, NoOvercommit, Active
<1> QED
  BY <1>1, <1>2, <1>3, <1>4 DEF Submission

(* The steps of executors and of the poller: a reservation can only be     *)
(* settled by them, and what the venue sets aside leaves `free`.           *)
LEMMA ExecutorStep ==
    ASSUME IInv, NEW r \in Rsv, Executor(r)
    PROVE  IInv'
<1> USE DEF IInv
<1>0. UNCHANGED <<now, latest, pc, snap, expiry, owned>>
  BY DEF Executor, Prepare, PlaceAccepted, PlaceRefused, CloseOrder, LoseOrder,
         Finalize, AbandonRun
<1>1. run' \in [Rsv -> RunStates]
  BY DEF Executor, Prepare, PlaceAccepted, PlaceRefused, CloseOrder, LoseOrder,
         Finalize, AbandonRun, TypeOK, RunStates
<1>2. order' \in [Rsv -> OrderStates]
  BY DEF Executor, Prepare, PlaceAccepted, PlaceRefused, CloseOrder, LoseOrder,
         Finalize, AbandonRun, TypeOK, OrderStates
<1>3. \/ UNCHANGED rsv
      \/ \E s \in Settled : rsv' = TransitionIfActive(r, s)
  BY DEF Executor, Prepare, PlaceAccepted, PlaceRefused, CloseOrder, LoseOrder,
         Finalize, AbandonRun, Settled
<1>4. /\ rsv' \in [Rsv -> {"none", "reserved"} \union Settled]
      /\ Active' \subseteq Active
      /\ \A q \in Rsv : rsv[q] # "reserved" => rsv'[q] = rsv[q]
  BY <1>3, TransitionOnlySettles DEF TypeOK, Active
<1>5. free' \in Nat /\ free' + Total(Live') <= Capital
  <2>0. Live \in SUBSET Rsv /\ Total(Live) \in Nat /\ Cost[r] \in Nat
    BY TotalIsNat, ConstantTypes DEF Live
  <2>1. CASE PlaceAccepted(r)
    <3>1. Live' = Live \union {r} /\ r \in Rsv \ Live
      BY <2>1 DEF PlaceAccepted, Live, TypeOK
    <3>2. Total(Live') = Total(Live) + Cost[r]
      BY <3>1, <2>0, TotalAdd
    <3> QED
      BY <2>0, <2>1, <3>2, ConstantTypes DEF PlaceAccepted, TypeOK, Accounts
  <2>2. ASSUME NEW end \in {"filled", "canceled"}, CloseOrder(r, end)
        PROVE  free' \in Nat /\ free' + Total(Live') <= Capital
    <3>1. Live' = Live \ {r} /\ r \in Live
      BY <2>2 DEF CloseOrder, Live, TypeOK
    <3>2. Total(Live) = Total(Live') + Cost[r]
      BY <3>1, <2>0, TotalRemove
    <3>3. Total(Live') \in Nat
      BY <3>1, <2>0, TotalIsNat
    <3>4. free' = free \/ free' = free + Cost[r]
      BY <2>2 DEF CloseOrder
    <3> QED
      BY <2>0, <3>2, <3>3, <3>4, ConstantTypes DEF TypeOK, Accounts
  <2>3. CASE /\ UNCHANGED free
             /\ Live' \subseteq Live
    <3>1. Total(Live') <= Total(Live) /\ Total(Live') \in Nat
      BY <2>0, <2>3, TotalGrows, TotalIsNat
    <3> QED
      BY <2>0, <2>3, <3>1, ConstantTypes DEF TypeOK, Accounts
  <2>4. CASE \/ Prepare(r)
             \/ \E byBlocker \in BOOLEAN : PlaceRefused(r, byBlocker)
             \/ LoseOrder(r)
             \/ Finalize(r)
             \/ \E fault \in Faults \ {"attach"} : AbandonRun(r, fault)
    <3>1. UNCHANGED free
      BY <2>4 DEF Prepare, PlaceRefused, LoseOrder, Finalize, AbandonRun
    <3>2. Live' \subseteq Live
      BY <2>4 DEF Prepare, PlaceRefused, LoseOrder, Finalize, AbandonRun,
                  Live, TypeOK
    <3> QED
      BY <2>3, <3>1, <3>2
  <2> QED
    BY <2>1, <2>2, <2>4 DEF Executor
<1>6. TypeOK'
  BY <1>0, <1>1, <1>2, <1>4, <1>5 DEF TypeOK
<1>7. Accounts'
  BY <1>0, <1>5 DEF Accounts
<1>8. NoRowYet'
  BY <1>0, <1>4 DEF NoRowYet
<1> QED
  BY <1>4, <1>6, <1>7, <1>8, FewerActiveFit

LEMMA NextIInv == IInv /\ [Next]_vars => IInv'
<1> SUFFICES ASSUME IInv, [Next]_vars PROVE IInv'
  OBVIOUS
<1>1. CASE \E r \in Rsv : Submission(r) \/ Executor(r)
  BY <1>1, SubmissionStep, ExecutorStep
<1>2. CASE Sweep
  <2>1. /\ rsv' \in [Rsv -> {"none", "reserved"} \union Settled]
        /\ Active' \subseteq Active
        /\ \A q \in Rsv : rsv[q] # "reserved" => rsv'[q] = rsv[q]
    BY <1>2, SweepOnlySettles DEF Sweep, IInv
  <2>2. TypeOK'
    BY <1>2, <2>1 DEF IInv, TypeOK, Sweep
  <2>3. NoRowYet' /\ Accounts'
    BY <1>2, <2>1 DEF IInv, Sweep, NoRowYet, Accounts, Live
  <2> QED
    BY <2>1, <2>2, <2>3, FewerActiveFit DEF IInv
<1>3. CASE Tick
  <2>1. TypeOK'
    BY <1>3 DEF IInv, TypeOK, Tick
  <2> QED
    BY <1>3, <2>1 DEF IInv, Tick, Accounts, Live, NoRowYet, NoOvercommit, Active
<1>4. CASE UNCHANGED vars
  BY <1>4 DEF vars, IInv, TypeOK, Accounts, Live, NoRowYet, NoOvercommit, Active
<1> QED
  BY <1>1, <1>2, <1>3, <1>4 DEF Next

THEOREM InvariantHolds == Spec => []IInv
<1>1. Init => IInv
  BY InitIInv
<1>2. IInv /\ [Next]_vars => IInv'
  BY NextIInv
<1> QED
  BY <1>1, <1>2, PTL DEF Spec

-----------------------------------------------------------------------------
(* The results.                                                            *)

(* Every variable of the ledger keeps its type; in particular the venue's  *)
(* free collateral never goes below zero.                                  *)
THEOREM TypeCorrect == Spec => []TypeOK
<1>1. IInv => TypeOK
  BY DEF IInv
<1> QED
  BY <1>1, InvariantHolds, PTL

(* capital.py, reserve_checked: whatever snapshots the submissions decided *)
(* on, the outstanding reservations and the floor fit the capital.         *)
THEOREM NeverOvercommitted == Spec => []NoOvercommit
<1>1. IInv => NoOvercommit
  BY DEF IInv
<1> QED
  BY <1>1, InvariantHolds, PTL

(* Every step of the system either leaves the rows, or settles active      *)
(* ones, or admits one reservation beside those its sweep left.            *)
OnlySettles ==
    /\ Active' \subseteq Active
    /\ \A q \in Rsv : rsv[q] # "reserved" => rsv'[q] = rsv[q]
    /\ \A q \in Rsv : rsv[q] = "reserved" => rsv'[q] # "none"

Admits(r) ==
    /\ rsv[r] = "none"
    /\ rsv' = [ExpireDue EXCEPT ![r] = "reserved"]
    /\ Active' = (Active \ Due) \union {r}
    /\ Total(Active') + Floor <= Capital

LEMMA StepKinds ==
    ASSUME IInv, [Next]_vars
    PROVE  OnlySettles \/ \E r \in Rsv : Admits(r)
<1> USE DEF IInv
<1>1. ASSUME NEW r \in Rsv, Executor(r) PROVE OnlySettles
  <2>1. \/ UNCHANGED rsv
        \/ \E s \in Settled : rsv' = TransitionIfActive(r, s)
    BY <1>1 DEF Executor, Prepare, PlaceAccepted, PlaceRefused, CloseOrder,
                LoseOrder, Finalize, AbandonRun, Settled
  <2> QED
    BY <2>1, TransitionOnlySettles DEF OnlySettles, Active
<1>2. ASSUME NEW r \in Rsv, Submission(r), ~(ReserveChecked(r) /\ Fits(r))
      PROVE  OnlySettles
  <2>1. UNCHANGED rsv \/ rsv' = ExpireDue
    BY <1>2 DEF Submission, TakeSnapshot, Evaluate, ReserveChecked, CreateExecutor,
                AttachExecutor, SubmitterCrash
  <2> QED
    BY <2>1, SweepOnlySettles DEF OnlySettles, Active
<1>3. ASSUME NEW r \in Rsv, ReserveChecked(r), Fits(r) PROVE Admits(r)
  BY <1>3, AdmissionFits DEF Admits, ReserveChecked
<1>4. CASE Sweep
  BY <1>4, SweepOnlySettles DEF Sweep, OnlySettles
<1>5. CASE Tick \/ UNCHANGED vars
  BY <1>5 DEF Tick, vars, OnlySettles, Active
<1> QED
  BY <1>1, <1>2, <1>3, <1>4, <1>5 DEF Next

(* capital.py, _transition_if_active and expire_due: a settled reservation *)
(* never changes again, however the settling calls race.                   *)
THEOREM SettledStaysFinal == Spec => SettledIsFinal
<1>1. IInv /\ [Next]_vars
        => [\A r \in Rsv : rsv[r] \in Settled => rsv'[r] = rsv[r]]_vars
  <2> SUFFICES ASSUME IInv, [Next]_vars, NEW r \in Rsv, rsv[r] \in Settled
               PROVE  rsv'[r] = rsv[r]
    OBVIOUS
  <2>1. CASE OnlySettles
    BY <2>1 DEF OnlySettles, Settled
  <2>2. ASSUME NEW q \in Rsv, Admits(q) PROVE rsv'[r] = rsv[r]
    BY <2>2 DEF Admits, ExpireDue, Due, Active, Settled, IInv, TypeOK
  <2> QED
    BY <2>1, <2>2, StepKinds
<1> QED
  BY <1>1, InvariantHolds, PTL DEF Spec, SettledIsFinal

(* The table implements the abstract ledger: an admission happens once per *)
(* claim and within the budget, and nothing settled comes back.            *)
THEOREM LedgerImplemented == Spec => ImplementsLedger
<1> DEFINE gone == {r \in Rsv : rsv[r] \in Settled}
<1>1. Init => Ledger!LedgerInit
  BY DEF Init, Ledger!LedgerInit, Active, Settled
<1>2. IInv /\ [Next]_vars => [Ledger!LedgerNext]_(Ledger!ledgerVars)
  <2> SUFFICES ASSUME IInv, [Next]_vars PROVE Ledger!LedgerNext
    BY DEF Ledger!ledgerVars
  <2>0. TypeOK /\ TypeOK'
    BY NextIInv DEF IInv
  <2>1. CASE OnlySettles
    <3> DEFINE S == Active \ Active'
    <3>1. S \in SUBSET Active /\ Active' = Active \ S
      BY <2>1 DEF OnlySettles
    <3>2. gone' = gone \union S
      BY <2>0, <2>1 DEF OnlySettles, TypeOK, Active, Settled
    <3>3. Ledger!Retire(S)
      BY <3>1, <3>2 DEF Ledger!Retire
    <3> HIDE DEF S, gone
    <3> QED
      BY <3>1, <3>3 DEF Ledger!LedgerNext, Ledger!Retire
  <2>2. ASSUME NEW r \in Rsv, Admits(r) PROVE Ledger!LedgerNext
    <3>1. r \notin Active \union gone
      BY <2>2 DEF Admits, Active, Settled
    <3>2. Due \in SUBSET Active
      BY DEF Due
    <3>3. gone' = gone \union Due
      BY <2>0, <2>2 DEF Admits, ExpireDue, Due, Active, Settled, TypeOK
    <3>4. Total(Active') <= Capital - Floor
      <4>1. Total(Active') \in Nat
        BY TotalIsNat DEF Active
      <4> QED
        BY <2>2, <4>1, ConstantTypes DEF Admits
    <3>5. Ledger!Admit(r, Due)
      BY <2>2, <3>1, <3>3, <3>4 DEF Ledger!Admit, Admits
    <3> HIDE DEF gone
    <3> QED
      BY <3>2, <3>5 DEF Ledger!LedgerNext, Ledger!Admit
  <2> QED
    BY <2>1, <2>2, StepKinds
<1> QED
  BY <1>1, <1>2, InvariantHolds, PTL DEF Spec, ImplementsLedger, Ledger!LedgerSpec

-----------------------------------------------------------------------------
(* Why the sweep spares live orders. A submitter that lives is in time, so *)
(* an expired reservation belongs to one that died before it linked its    *)
(* run, or to an order that is over.                                       *)
NoRunYet == \A r \in Rsv : pc[r] \in {"idle", "snapped", "allowed", "reserved"}
                              => run[r] = "none"

OrderWithRun == \A r \in Rsv : order[r] = "none" <=> run[r] \in {"none", "created"}

InTime == \A r \in Rsv : pc[r] \in {"reserved", "created"} => now < expiry[r]

ExpiredIsOver ==
    \A r \in Rsv : rsv[r] = "expired" =>
        \/ order[r] \in ClosedOrder
        \/ ~owned[r] /\ pc[r] \notin {"reserved", "created"}

Spares == NoRunYet /\ OrderWithRun /\ InTime /\ ExpiredIsOver

LEMMA SweptIsOver ==
    ASSUME IInv, Spares, NEW r \in Rsv, ExpireDue[r] = "expired"
    PROVE  \/ order[r] \in ClosedOrder
           \/ ~owned[r] /\ pc[r] \notin {"reserved", "created"}
<1>1. CASE r \in Due
  <2>1. ~(now < expiry[r])
    BY <1>1 DEF Due, IInv, TypeOK
  <2>2. order[r] = "none" => ~owned[r]
    BY <1>1 DEF Due, Spares, OrderWithRun, EndedRun
  <2> QED
    BY <1>1, <2>1, <2>2 DEF Due, Spares, InTime
<1>2. CASE r \notin Due
  BY <1>2 DEF ExpireDue, Spares, ExpiredIsOver
<1> QED
  BY <1>1, <1>2

LEMMA SubmissionSpares ==
    ASSUME IInv, Spares, NEW r \in Rsv, Submission(r)
    PROVE  Spares'
<1> USE DEF IInv, Spares
<1>0. /\ pc \in [Rsv -> PcStates] /\ owned \in [Rsv -> BOOLEAN]
      /\ run \in [Rsv -> RunStates] /\ expiry \in [Rsv -> Nat] /\ now \in Nat
      /\ ExpireDue \in [Rsv -> {"none", "reserved"} \union Settled]
  BY DEF TypeOK, ExpireDue, Settled
<1>1. NoRunYet' /\ OrderWithRun'
  BY <1>0 DEF Submission, TakeSnapshot, Evaluate, ReserveChecked, CreateExecutor,
              AttachExecutor, SubmitterCrash, NoRunYet, OrderWithRun
<1>2. InTime'
  <2>1. CASE ReserveChecked(r)
    <3>1. \A q \in Rsv : \/ q # r /\ pc'[q] = pc[q] /\ expiry'[q] = expiry[q]
                         \/ pc'[q] = "rejected"
                         \/ expiry'[q] = now + TTL
      BY <1>0, <2>1 DEF ReserveChecked
    <3>2. now' = now /\ now < now + TTL
      BY <1>0, <2>1, ConstantTypes DEF ReserveChecked
    <3> QED
      BY <3>1, <3>2 DEF InTime
  <2>2. CASE ~ReserveChecked(r)
    BY <1>0, <2>2 DEF Submission, TakeSnapshot, Evaluate, CreateExecutor, AttachExecutor,
                      SubmitterCrash, InTime
  <2> QED
    BY <2>1, <2>2
<1>3. ExpiredIsOver'
  <2> SUFFICES ASSUME NEW q \in Rsv, rsv'[q] = "expired"
               PROVE  \/ order'[q] \in ClosedOrder
                      \/ ~owned'[q] /\ pc'[q] \notin {"reserved", "created"}
    BY DEF ExpiredIsOver
  <2>1. order' = order
    BY DEF Submission, TakeSnapshot, Evaluate, ReserveChecked, CreateExecutor, AttachExecutor,
           SubmitterCrash
  <2>2. /\ rsv[q] = "expired" \/ ExpireDue[q] = "expired"
        /\ rsv[q] # "none"
    <3>1. CASE ReserveChecked(r) /\ Fits(r)
      <4>1. q # r /\ ExpireDue[q] = "expired"
        BY <1>0, <3>1 DEF ReserveChecked
      <4> QED
        BY <4>1 DEF ExpireDue, Due, Active
    <3>2. CASE rsv' = rsv \/ rsv' = ExpireDue
      BY <3>2 DEF ExpireDue, Due, Active
    <3> QED
      BY <3>1, <3>2 DEF Submission, TakeSnapshot, Evaluate, ReserveChecked, CreateExecutor,
                        AttachExecutor, SubmitterCrash
  <2>3. \/ order[q] \in ClosedOrder
        \/ ~owned[q] /\ pc[q] \notin {"reserved", "created"}
    BY <2>2, SweptIsOver DEF ExpiredIsOver
  <2>4. pc[q] \notin {"idle", "snapped", "allowed"}
    BY <2>2 DEF NoRowYet
  <2>5. CASE ~owned[q] /\ pc[q] \notin {"reserved", "created"}
    BY <1>0, <2>4, <2>5 DEF Submission, TakeSnapshot, Evaluate, ReserveChecked, CreateExecutor,
                            AttachExecutor, SubmitterCrash
  <2> QED
    BY <2>1, <2>3, <2>5
<1> QED
  BY <1>1, <1>2, <1>3

LEMMA ExecutorSpares ==
    ASSUME IInv, Spares, NEW r \in Rsv, Executor(r)
    PROVE  Spares'
<1> USE DEF IInv, Spares
<1>0. /\ UNCHANGED <<now, pc, expiry, owned>>
      /\ run \in [Rsv -> RunStates] /\ order \in [Rsv -> OrderStates]
  BY DEF TypeOK, Executor, Prepare, PlaceAccepted, PlaceRefused, CloseOrder, LoseOrder,
         Finalize, AbandonRun
<1>1. \/ /\ run[r] = "created" /\ order[r] = "none"
         /\ run' = [run EXCEPT ![r] = "working"] /\ order' = [order EXCEPT ![r] = "created"]
      \/ /\ order[r] \in {"created", "live"}
         /\ \E s \in OrderStates \ {"none"} : order' = [order EXCEPT ![r] = s]
         /\ \/ run' = run
            \/ run[r] = "working" /\ run' = [run EXCEPT ![r] = "failed"]
      \/ /\ order' = order
         /\ run[r] = "working" /\ \E s \in EndedRun : run' = [run EXCEPT ![r] = s]
  BY DEF Executor, Prepare, PlaceAccepted, PlaceRefused, CloseOrder, LoseOrder, Finalize,
         AbandonRun, OrderWithRun, OrderStates, EndedRun
<1>2. NoRunYet' /\ OrderWithRun'
  BY <1>0, <1>1 DEF NoRunYet, OrderWithRun, EndedRun
<1>3. \A q \in Rsv : order[q] \in ClosedOrder => order'[q] = order[q]
  BY <1>0, <1>1 DEF ClosedOrder
<1>4. \A q \in Rsv : rsv'[q] = "expired" => rsv[q] = "expired"
  <2>1. \/ UNCHANGED rsv
        \/ \E s \in {"consumed", "released"} : rsv' = TransitionIfActive(r, s)
    BY DEF Executor, Prepare, PlaceAccepted, PlaceRefused, CloseOrder, LoseOrder,
           Finalize, AbandonRun
  <2> QED
    BY <2>1 DEF TransitionIfActive, TypeOK
<1>5. InTime' /\ ExpiredIsOver'
  BY <1>0, <1>3, <1>4 DEF InTime, ExpiredIsOver
<1> QED
  BY <1>2, <1>5

LEMMA SparesHolds == Spec => []Spares
<1>1. Init => Spares
  BY DEF Init, Spares, NoRunYet, OrderWithRun, InTime, ExpiredIsOver
<1>2. IInv /\ Spares /\ [Next]_vars => Spares'
  <2> SUFFICES ASSUME IInv, Spares, [Next]_vars PROVE Spares'
    OBVIOUS
  <2>1. CASE \E r \in Rsv : Submission(r) \/ Executor(r)
    BY <2>1, SubmissionSpares, ExecutorSpares
  <2>2. CASE Sweep
    <3>1. ExpiredIsOver'
      BY <2>2, SweptIsOver DEF Sweep, ExpiredIsOver
    <3> QED
      BY <2>2, <3>1 DEF Sweep, Spares, NoRunYet, OrderWithRun, InTime
  <2>3. CASE Tick
    BY <2>3 DEF Tick, Spares, NoRunYet, OrderWithRun, InTime, ExpiredIsOver
  <2>4. CASE UNCHANGED vars
    BY <2>4 DEF vars, Spares, NoRunYet, OrderWithRun, InTime, ExpiredIsOver
  <2> QED
    BY <2>1, <2>2, <2>3, <2>4 DEF Next
<1> QED
  BY <1>1, <1>2, InvariantHolds, PTL DEF Spec

(* capital.py, expire_due: no sweep, whoever calls it and whenever, takes  *)
(* the reservation a run is linked to from under its live order.           *)
THEOREM LiveOrdersSpared == Spec => []TtlSparesLiveOrders
<1>1. IInv /\ Spares => TtlSparesLiveOrders
  BY DEF Spares, ExpiredIsOver, TtlSparesLiveOrders, ClosedOrder
<1> QED
  BY <1>1, InvariantHolds, SparesHolds, PTL
=============================================================================
