---------------------------- MODULE TradingGuard ----------------------------
(***************************************************************************)
(* Who steps the executors of a workspace (trading/guard.py and the poller *)
(* loop of api/local_server.py). Guard processes compete for one row of    *)
(* trading_guard_lease; the server steps the executors itself while no     *)
(* lease is valid. A guard that works holds a file lock besides, since its *)
(* lease may run out under it.                                             *)
(***************************************************************************)
EXTENDS Integers

CONSTANTS Guards, NoGuard,
          LeaseLen,   \* interval * 3, in ticks of the clock
          MaxFailures \* how many rounds of guards fail before they step

ASSUME GuardAssumption ==
    NoGuard \notin Guards /\ LeaseLen \in Nat \ {0} /\ MaxFailures \in Nat

VARIABLES
    lease,     \* the row: owner (NoGuard: no row), and the time left of it
    lock,      \* who holds the trading_lock "trading_guard"
    guard,     \* guard[g]: where the loop of g is
    server,    \* where the server's loop is
    failures   \* rounds that failed so far

vars == <<lease, lock, guard, server, failures>>

(* A round of run_once polls the live orders, then steps the executors.    *)
Recovering == {"polling", "stepping"}

TypeOK ==
    /\ lease \in [owner : Guards \union {NoGuard}, left : 0..LeaseLen]
    /\ lock \in Guards \union {NoGuard}
    /\ guard \in [Guards -> {"idle", "claimed", "stopped"} \union Recovering]
    /\ server \in {"idle", "stepping"}
    /\ failures \in 0..MaxFailures

NoLease == [owner |-> NoGuard, left |-> 0]

Init ==
    /\ lease = NoLease
    /\ lock = NoGuard
    /\ guard = [g \in Guards |-> "idle"]
    /\ server = "idle"
    /\ failures = 0

(* Broken on purpose: a row is a lease, however old.                       *)
RowExists == lease.owner # NoGuard

(* active(): a lease row that has not run out.                             *)
Active == lease.owner # NoGuard /\ lease.left > 0

(* claim: one transaction; a valid lease of another is standby, and the    *)
(* loop sleeps.                                                            *)
Claim(g) ==
    /\ guard[g] = "idle"
    /\ ~(Active /\ lease.owner # g)
    /\ lease' = [owner |-> g, left |-> LeaseLen]
    /\ guard' = [guard EXCEPT ![g] = "claimed"]
    /\ UNCHANGED <<lock, server, failures>>

(* Broken on purpose: the lease alone lets a guard work.                   *)
BeginAnyway(g) ==
    /\ guard[g] = "claimed"
    /\ lock' = g
    /\ guard' = [guard EXCEPT ![g] = "polling"]
    /\ UNCHANGED <<lease, server, failures>>

(* The lock is tried once; busy is the end of this round.                  *)
BeginWork(g) ==
    /\ guard[g] = "claimed"
    /\ IF lock = NoGuard
       THEN lock' = g /\ guard' = [guard EXCEPT ![g] = "polling"]
       ELSE guard' = [guard EXCEPT ![g] = "idle"] /\ UNCHANGED lock
    /\ UNCHANGED <<lease, server, failures>>

(* poll_active_live_orders returns.                                        *)
Step(g) ==
    /\ guard[g] = "polling"
    /\ guard' = [guard EXCEPT ![g] = "stepping"]
    /\ UNCHANGED <<lease, lock, server, failures>>

(* It raises, and so does the round, before it steps anything: run() logs  *)
(* the error, and the lease stays with this guard, which renews it in its  *)
(* next round.                                                             *)
Fail(g) ==
    /\ guard[g] = "polling" /\ failures < MaxFailures
    /\ failures' = failures + 1
    /\ lock' = NoGuard
    /\ guard' = [guard EXCEPT ![g] = "idle"]
    /\ UNCHANGED <<lease, server>>

(* The round ends, or fails after it has stepped the executors.            *)
FinishWork(g) ==
    /\ guard[g] = "stepping"
    /\ lock' = NoGuard
    /\ guard' = [guard EXCEPT ![g] = "idle"]
    /\ UNCHANGED <<lease, server, failures>>

(* Broken on purpose: release does not ask whose lease it is.              *)
ReleaseAny(g) == NoLease

(* release: DELETE ... WHERE owner is this guard.                          *)
Released(g) == IF lease.owner = g THEN NoLease ELSE lease

(* run() is interrupted: the lock goes with its block, then the finally    *)
(* clause releases. A guard that is killed leaves its row.                 *)
Stop(g, killed) ==
    /\ guard[g] # "stopped"
    /\ guard' = [guard EXCEPT ![g] = "stopped"]
    /\ lock' = IF lock = g THEN NoGuard ELSE lock
    /\ lease' = IF killed THEN lease ELSE Released(g)
    /\ UNCHANGED <<server, failures>>

(* The server looks once and then steps the executors without the lock.    *)
ServerBegin ==
    /\ server = "idle" /\ ~Active
    /\ server' = "stepping"
    /\ UNCHANGED <<lease, lock, guard, failures>>

ServerFinish ==
    /\ server = "stepping"
    /\ server' = "idle"
    /\ UNCHANGED <<lease, lock, guard, failures>>

Tick ==
    /\ lease.left > 0
    /\ lease' = [lease EXCEPT !.left = @ - 1]
    /\ UNCHANGED <<lock, guard, server, failures>>

Loop(g) == Claim(g) \/ BeginWork(g) \/ Step(g) \/ Fail(g) \/ FinishWork(g)

Next ==
    \/ \E g \in Guards : Loop(g) \/ \E killed \in BOOLEAN : Stop(g, killed)
    \/ ServerBegin \/ ServerFinish \/ Tick

Spec == Init /\ [][Next]_vars

(* Every loop goes on, a round comes to its end or fails, and time passes. *)
(* Nothing makes a guard stop.                                             *)
Fairness ==
    /\ \A g \in Guards : WF_vars(Loop(g))
    /\ WF_vars(ServerBegin) /\ WF_vars(ServerFinish)
    /\ WF_vars(Tick)

FairSpec == Spec /\ Fairness

(* Two guards never recover orders at once, though the lease of the first  *)
(* can run out while it works and the second then claims it.               *)
OneGuardWorks ==
    \A g, h \in Guards : guard[g] \in Recovering /\ guard[h] \in Recovering => g = h

(* A lease that has not run out is lost only by its owner stopping: no     *)
(* claim and no release of another takes it.                               *)
LeaseIsKept ==
    [][\A g \in Guards : lease.owner = g /\ lease.left > 0
          => lease'.owner = g \/ guard'[g] = "stopped"]_vars

(* Whatever guards stop or are killed at whatever point, and whatever      *)
(* rounds fail, as long as not all of them do (README section 5), somebody *)
(* goes on stepping the executors.                                         *)
AlwaysStepped ==
    []<>(server = "stepping" \/ \E g \in Guards : guard[g] = "stepping")
=============================================================================
