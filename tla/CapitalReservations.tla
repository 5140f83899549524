------------------------ MODULE CapitalReservations ------------------------
(***************************************************************************)
(* The capital ledger of one trading account (trading/capital.py), with    *)
(* the submissions that write it (trading/submit.py) and, reduced to what  *)
(* the ledger reads of them, the executor runs and the tracked orders.     *)
(*                                                                         *)
(* Each member of Rsv is one submission: a thread that takes a snapshot,   *)
(* asks the BudgetChecker, admits its reservation in one transaction,      *)
(* persists an executor run and, in a later statement, links the two.      *)
(* Every submission, the executors and the sweeps run concurrently on the  *)
(* same database, one transaction per action.                              *)
(***************************************************************************)
EXTENDS Integers

CONSTANTS
    Rsv,                 \* reservation ids, one per submitted plan
    Cost,                \* Cost[r]: collateral plus fees of r's candidate
    Total(_),            \* the sum of Cost over a set of reservations
    Capital,             \* free collateral of the account at the start
    Floor,               \* nav * min_free_balance_pct, kept free
    TTL,                 \* ttl_seconds of a reservation
    MaxAge,              \* trading.snapshot.max_age_seconds
    DefaultMaxAge,       \* DEFAULT_MAX_AGE_S, of the budget checks
    MaxTime,             \* bound of the clock
    Faults               \* which of FaultKinds may happen

FaultKinds ==
    {"attach",      \* a submitter dies between persisting its run and linking it
     "profile",     \* an account profile cannot be loaded when a run is stepped
     "exception"}   \* a step raises

ASSUME CapitalAssumption ==
    /\ Capital \in Nat /\ Floor \in Nat /\ Floor <= Capital
    /\ TTL \in Nat \ {0} /\ MaxTime \in Nat
    /\ MaxAge \in Nat /\ DefaultMaxAge \in Nat
    /\ Faults \subseteq FaultKinds
    /\ Cost \in [Rsv -> Nat]
    /\ \A S \in SUBSET Rsv : Total(S) \in Nat
    /\ Total({}) = 0
    /\ \A S \in SUBSET Rsv : \A r \in Rsv \ S :
          Total(S \union {r}) = Total(S) + Cost[r]
    /\ \A S, T \in SUBSET Rsv : S \subseteq T => Total(S) <= Total(T)

VARIABLES
    now,      \* the clock
    free,     \* the account's free collateral, as the venue has it
    latest,   \* newest persisted account snapshot
    pc,       \* pc[r]: where the submission of r stands
    snap,     \* snap[r]: the snapshot r's submission decides on
    rsv,      \* rsv[r]: the row's state; "none" before the INSERT
    expiry,   \* expiry[r]: its expires_at
    owned,    \* owned[r]: attach_executor has linked the row to its run
    run,      \* run[r]: the executor run
    order     \* order[r]: the tracked order that carries the reservation

vars == <<now, free, latest, pc, snap, rsv, expiry, owned, run, order>>

Settled  == {"consumed", "released", "expired"}
PcStates == {"idle", "snapped", "allowed", "reserved", "created", "done",
             "rejected", "crashed"}
RunStates   == {"none", "created", "working", "done", "failed", "canceled"}
OrderStates == {"none", "created", "live", "filled", "canceled", "rejected",
                "lost"}

(* The states expire_due's two NOT EXISTS clauses let go. A lost order is  *)
(* not among them: its venue outcome is unknown.                           *)
ClosedOrder == {"filled", "canceled", "rejected"}
EndedRun    == {"done", "failed", "canceled"}

Active == {r \in Rsv : rsv[r] = "reserved"}

Snapshot == [ts : Nat, free : Nat]

TypeOK ==
    /\ now \in Nat
    /\ free \in Nat
    /\ latest \in Snapshot
    /\ pc \in [Rsv -> PcStates]
    /\ snap \in [Rsv -> Snapshot]
    /\ rsv \in [Rsv -> {"none", "reserved"} \union Settled]
    /\ expiry \in [Rsv -> Nat]
    /\ owned \in [Rsv -> BOOLEAN]
    /\ run \in [Rsv -> RunStates]
    /\ order \in [Rsv -> OrderStates]

Init ==
    /\ now = 0
    /\ free = Capital
    /\ latest = [ts |-> 0, free |-> Capital]
    /\ pc = [r \in Rsv |-> "idle"]
    /\ snap = [r \in Rsv |-> latest]
    /\ rsv = [r \in Rsv |-> "none"]
    /\ expiry = [r \in Rsv |-> 0]
    /\ owned = [r \in Rsv |-> FALSE]
    /\ run = [r \in Rsv |-> "none"]
    /\ order = [r \in Rsv |-> "none"]

-----------------------------------------------------------------------------
(* The store.                                                              *)

(* Broken on purpose: the sweep does not ask for orders.                   *)
DueWithoutOrders == {r \in Active : /\ expiry[r] <= now
                                    /\ owned[r] => run[r] \in EndedRun}

(* Broken on purpose: a reservation needs a closed order to expire.        *)
DueOnlyAfterOrder == {r \in Active : /\ expiry[r] <= now
                                     /\ order[r] \in ClosedOrder
                                     /\ owned[r] => run[r] \in EndedRun}

(* The rows one UPDATE of expire_due turns to 'expired'. The executor is   *)
(* found through the row's own executor_id, so before attach_executor the  *)
(* run does not protect the reservation.                                   *)
Due == {r \in Active :
           /\ expiry[r] <= now
           /\ order[r] \in ClosedOrder \union {"none"}
           /\ owned[r] => run[r] \in EndedRun}

ExpireDue == [r \in Rsv |-> IF r \in Due THEN "expired" ELSE rsv[r]]

(* total_blocked_usd: the active rows once the due ones are swept.         *)
Blocked == Total(Active \ Due)

(* Broken on purpose: the unconditional write of before R2B6.              *)
WriteState(r, s) == [rsv EXCEPT ![r] = s]

(* _transition_if_active: only an active row moves, anything else is kept. *)
TransitionIfActive(r, s) ==
    [rsv EXCEPT ![r] = IF @ = "reserved" THEN s ELSE @]

-----------------------------------------------------------------------------
(* A submission.                                                           *)

(* fresh_snapshot: the latest persisted snapshot unless it is older than   *)
(* MaxAge, else a new one, persisted for the next caller.                  *)
TakeSnapshot(r) ==
    /\ pc[r] = "idle"
    /\ pc' = [pc EXCEPT ![r] = "snapped"]
    /\ IF now - latest.ts > MaxAge
       THEN latest' = [ts |-> now, free |-> free]
       ELSE UNCHANGED latest
    /\ snap' = [snap EXCEPT ![r] = latest']
    /\ UNCHANGED <<now, free, rsv, expiry, owned, run, order>>

(* Broken on purpose: the candidate alone is compared with the snapshot.   *)
FitsAlone(r) ==
    /\ now - snap[r].ts <= DefaultMaxAge
    /\ Cost[r] + Floor <= snap[r].free

(* What BudgetChecker.evaluate and reserve_checked both ask: the snapshot  *)
(* is recent, and what is blocked plus this candidate leaves the floor.    *)
Fits(r) ==
    /\ now - snap[r].ts <= DefaultMaxAge
    /\ Blocked + Cost[r] + Floor <= snap[r].free

(* Broken on purpose: the budget of the earlier check is trusted.          *)
ReserveUnchecked(r) ==
    /\ pc[r] = "allowed"
    /\ now + TTL <= MaxTime
    /\ rsv' = [ExpireDue EXCEPT ![r] = "reserved"]
    /\ expiry' = [expiry EXCEPT ![r] = now + TTL]
    /\ pc' = [pc EXCEPT ![r] = "reserved"]
    /\ UNCHANGED <<now, free, latest, snap, owned, run, order>>

(* BudgetChecker.evaluate: advisory, but it sweeps. A resized candidate is *)
(* one of smaller Cost.                                                    *)
Evaluate(r) ==
    /\ pc[r] = "snapped"
    /\ rsv' = ExpireDue
    /\ pc' = [pc EXCEPT ![r] = IF Fits(r) THEN "allowed" ELSE "rejected"]
    /\ UNCHANGED <<now, free, latest, snap, expiry, owned, run, order>>

(* reserve_checked: sweep, check and INSERT under one BEGIN IMMEDIATE; a   *)
(* failed check rolls the sweep back too.                                  *)
ReserveChecked(r) ==
    /\ pc[r] = "allowed"
    /\ now + TTL <= MaxTime
    /\ IF Fits(r)
       THEN /\ rsv' = [ExpireDue EXCEPT ![r] = "reserved"]
            /\ expiry' = [expiry EXCEPT ![r] = now + TTL]
            /\ pc' = [pc EXCEPT ![r] = "reserved"]
       ELSE /\ pc' = [pc EXCEPT ![r] = "rejected"]
            /\ UNCHANGED <<rsv, expiry>>
    /\ UNCHANGED <<now, free, latest, snap, owned, run, order>>

(* create_market_order persists the run; from here any orchestrator may    *)
(* step it.                                                                *)
CreateExecutor(r) ==
    /\ pc[r] = "reserved"
    /\ run' = [run EXCEPT ![r] = "created"]
    /\ pc' = [pc EXCEPT ![r] = "created"]
    /\ UNCHANGED <<now, free, latest, snap, rsv, expiry, owned, order>>

AttachExecutor(r) ==
    /\ pc[r] = "created"
    /\ owned' = [owned EXCEPT ![r] = TRUE]
    /\ pc' = [pc EXCEPT ![r] = "done"]
    /\ UNCHANGED <<now, free, latest, snap, rsv, expiry, run, order>>

(* The process dies; what it wrote stays.                                  *)
SubmitterCrash(r) ==
    /\ \/ pc[r] \in {"snapped", "allowed", "reserved"}
       \/ pc[r] = "created" /\ "attach" \in Faults
    /\ pc' = [pc EXCEPT ![r] = "crashed"]
    /\ UNCHANGED <<now, free, latest, snap, rsv, expiry, owned, run, order>>

-----------------------------------------------------------------------------
(* Executors, orders and sweeps, as far as the ledger depends on them.     *)

(* The first step registers the order with its reservation_id.             *)
Prepare(r) ==
    /\ run[r] = "created"
    /\ run' = [run EXCEPT ![r] = "working"]
    /\ order' = [order EXCEPT ![r] = "created"]
    /\ UNCHANGED <<now, free, latest, pc, snap, rsv, expiry, owned>>

(* place_order: the venue sets the collateral aside.                       *)
PlaceAccepted(r) ==
    /\ run[r] = "working" /\ order[r] = "created"
    /\ Cost[r] <= free
    /\ free' = free - Cost[r]
    /\ order' = [order EXCEPT ![r] = "live"]
    /\ UNCHANGED <<now, latest, pc, snap, rsv, expiry, owned, run>>

(* The venue refuses, or a live-execution blocker does before it is asked. *)
(* Only the blocker's path releases the reservation; a refusal leaves it   *)
(* to its TTL.                                                             *)
PlaceRefused(r, byBlocker) ==
    /\ run[r] = "working" /\ order[r] = "created"
    /\ order' = [order EXCEPT ![r] = "rejected"]
    /\ run' = [run EXCEPT ![r] = "failed"]
    /\ rsv' = IF byBlocker THEN TransitionIfActive(r, "released") ELSE rsv
    /\ UNCHANGED <<now, free, latest, pc, snap, expiry, owned>>

(* The poller (or the run's own poll) writes the order's venue end; the    *)
(* poller settles right after, unless it dies between the two writes.      *)
CloseOrder(r, end) ==
    /\ order[r] = "live"
    /\ order' = [order EXCEPT ![r] = end]
    /\ free' = IF end = "canceled" THEN free + Cost[r] ELSE free
    /\ \/ rsv' = TransitionIfActive(r, IF end = "filled" THEN "consumed"
                                                         ELSE "released")
       \/ UNCHANGED rsv
    /\ UNCHANGED <<now, latest, pc, snap, expiry, owned, run>>

(* The poller stops looking: not found too often, which also happens to an *)
(* order not placed yet, or an unknown placement that was never adopted.   *)
LoseOrder(r) ==
    /\ order[r] \in {"created", "live"}
    /\ order' = [order EXCEPT ![r] = "lost"]
    /\ UNCHANGED <<now, free, latest, pc, snap, rsv, expiry, owned, run>>

(* _finalize: consume on a fill, release on any other end.                 *)
Finalize(r) ==
    /\ run[r] = "working"
    /\ order[r] \in ClosedOrder \union {"lost"}
    /\ rsv' = TransitionIfActive(r, IF order[r] = "filled" THEN "consumed"
                                                           ELSE "released")
    /\ run' = [run EXCEPT ![r] = CASE order[r] = "filled"   -> "done"
                                   [] order[r] = "canceled" -> "canceled"
                                   [] OTHER                 -> "failed"]
    /\ UNCHANGED <<now, free, latest, pc, snap, expiry, owned, order>>

(* A step that ends the run and leaves its order as it is: the account     *)
(* profile cannot be loaded, and the reservation stays too; or the step    *)
(* raises, and the orchestrator releases what the run reserved.            *)
AbandonRun(r, fault) ==
    /\ run[r] = "working"
    /\ run' = [run EXCEPT ![r] = "failed"]
    /\ rsv' = IF fault = "exception" THEN TransitionIfActive(r, "released")
                                     ELSE rsv
    /\ UNCHANGED <<now, free, latest, pc, snap, expiry, owned, order>>

(* A reader of the ledger, or a submission up front, calls expire_due.     *)
Sweep ==
    /\ Due # {}
    /\ rsv' = ExpireDue
    /\ UNCHANGED <<now, free, latest, pc, snap, expiry, owned, run, order>>

(* Time passes; a submitter that lives links its run to the reservation    *)
(* before the TTL is over.                                                 *)
Tick ==
    /\ now < MaxTime
    /\ \A r \in Rsv : pc[r] \in {"reserved", "created"} => now + 1 < expiry[r]
    /\ now' = now + 1
    /\ UNCHANGED <<free, latest, pc, snap, rsv, expiry, owned, run, order>>

Executor(r) ==
    \/ Prepare(r)
    \/ PlaceAccepted(r)
    \/ \E byBlocker \in BOOLEAN : PlaceRefused(r, byBlocker)
    \/ \E end \in {"filled", "canceled"} : CloseOrder(r, end)
    \/ LoseOrder(r)
    \/ Finalize(r)
    \/ \E fault \in Faults \ {"attach"} : AbandonRun(r, fault)

Submission(r) ==
    \/ TakeSnapshot(r)
    \/ Evaluate(r)
    \/ ReserveChecked(r)
    \/ CreateExecutor(r)
    \/ AttachExecutor(r)
    \/ SubmitterCrash(r)

Next ==
    \/ \E r \in Rsv : Submission(r) \/ Executor(r)
    \/ Sweep
    \/ Tick

Spec == Init /\ [][Next]_vars

-----------------------------------------------------------------------------
(* Fairness. The poller loop ticks every run and polls every order, a      *)
(* submission thread goes on or dies, every use of the budget sweeps       *)
(* first, and time passes.                                                 *)
Fairness ==
    /\ WF_vars(Tick)
    /\ WF_vars(Sweep)
    /\ \A r \in Rsv : WF_vars(Submission(r)) /\ WF_vars(Executor(r))

FairSpec == Spec /\ Fairness

-----------------------------------------------------------------------------
(* Properties.                                                             *)

(* The collateral blocked by the outstanding reservations, with the free   *)
(* balance floor beside it, never exceeds the capital the account started  *)
(* with, however many submissions raced on one snapshot: reserve_checked   *)
(* repeats the check in the transaction of its INSERT.                     *)
NoOvercommit == Total(Active) + Floor <= Capital

(* What was claimed and not given back: outstanding or spent.              *)
Claimed == {r \in Rsv : rsv[r] \in {"reserved", "consumed"}}

(* The module docstring of capital.py: concurrent strategies "must not     *)
(* double-spend the same balance". What is reserved and what was consumed  *)
(* by fills never add up to more than the account had.                     *)
NoDoubleSpend == Total(Claimed) <= Capital

(* The TTL sweep never takes the reservation of a run that has been linked *)
(* to it while the order is live at the venue, whatever process reads the  *)
(* ledger, and also after the run itself has failed.                       *)
TtlSparesLiveOrders ==
    \A r \in Rsv : owned[r] /\ order[r] = "live" => rsv[r] # "expired"

(* consume, release and expire_due race on one row: whichever settles it   *)
(* first is final, a settled reservation never changes again.              *)
SettledIsFinal ==
    [][\A r \in Rsv : rsv[r] \in Settled => rsv'[r] = rsv[r]]_vars

(* A run that failed for want of a profile, and whose order nobody will    *)
(* close any more: the sweep waits for such an order for ever.             *)
Forsaken(r) == run[r] = "failed" /\ order[r] \in {"created", "lost"}

(* Every reservation is settled at last, whichever process dies on the     *)
(* way: "a crashed executor can't permanently leak budget". Only a run     *)
(* that was forsaken may leak its own.                                     *)
NoLeak == \A r \in Rsv :
    rsv[r] = "reserved" ~> (rsv[r] \in Settled \/ Forsaken(r))

(* The rows of the table are a BudgetLedger of what the account had above  *)
(* its floor.                                                              *)
Ledger == INSTANCE BudgetLedger WITH
    Claims <- Rsv, Budget <- Capital - Floor,
    outstanding <- Active, retired <- {r \in Rsv : rsv[r] \in Settled}

ImplementsLedger == Ledger!LedgerSpec
=============================================================================
