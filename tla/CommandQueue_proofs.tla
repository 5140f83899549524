------------------------ MODULE CommandQueue_proofs ------------------------
(***************************************************************************)
(* Proofs about CommandQueue, for any commands, processes, deaths and      *)
(* failures: no two turns of a conversation are executed at the same time, *)
(* the lease matches the running turn, settled turns stay settled.         *)
(*                                                                         *)
(* The invariant is an operator Safe of the queue row, the command rows,   *)
(* the workers, the outcomes and the history, so that what the sweep of    *)
(* _queue computes first can be shown safe before the rest of an action.   *)
(***************************************************************************)
EXTENDS CommandQueue, TLAPS

Unsaved == {"claimed", "executing", "ended"}
Fresh == {"none", "queued", "removed"}

SafeTypes(q, st, w, out, d) ==
    /\ q \in Queue
    /\ st \in [Turn -> States]
    /\ w \in [Proc -> Worker]
    /\ out \in [Turn -> Outcomes \union {"none"}]
    /\ d \in [Turn -> Outcomes \union {"none", "begun"}]

(* The turn of a worker that has not saved its outcome has none, and is    *)
(* either active under that worker's lease or unconfirmed.                 *)
HeldOrUnconfirmed(q, st, w, out) ==
    \A p \in Proc : w[p].pc \in Unsaved =>
        /\ out[w[p].turn] = "none"
        /\ \/ st[w[p].turn] = "unconfirmed"
           \/ st[w[p].turn] \in Active /\ q.owner = p

OneUnsaved(w) ==
    \A p, r \in Proc : w[p].pc \in Unsaved /\ w[r].pc \in Unsaved => p = r

FreshIsClean(st, out, d) ==
    \A t \in Turn : st[t] \in Fresh => out[t] = "none" /\ d[t] = "none"

OwnerHasTurn(q, st) == q.owner # NoOne => \E t \in Turn : st[t] \in Active
TurnHasOwner(q, st) == \A t \in Turn : st[t] \in Active => q.owner # NoOne
OneActive(st) == \A t, u \in Turn : st[t] \in Active /\ st[u] \in Active => t = u

OwnerHasIt(q, st, w) ==
    \A t \in Turn : \A p \in Proc :
        st[t] \in Active /\ q.owner = p /\ w[p].pc \in Busy => w[p].turn = t

ClaimedIsUnrun(w, d) == \A p \in Proc : w[p].pc = "claimed" => d[w[p].turn] = "none"

Safe(q, st, w, out, d) ==
    /\ SafeTypes(q, st, w, out, d)
    /\ HeldOrUnconfirmed(q, st, w, out)
    /\ OneUnsaved(w)
    /\ FreshIsClean(st, out, d)
    /\ OwnerHasTurn(q, st)
    /\ TurnHasOwner(q, st)
    /\ OneActive(st)
    /\ OwnerHasIt(q, st, w)
    /\ ClaimedIsUnrun(w, d)

Inv == /\ Safe(queue, state, worker, outcome, did)
       /\ resolver \in [Proc -> Resolver]

USE DEF Unsaved, Fresh
-----------------------------------------------------------------------------
(* What the sweep makes of a safe queue is safe, and leaves the turns that *)
(* are not active as they are.                                             *)
LEMMA SweepSafe ==
    ASSUME Safe(queue, state, worker, outcome, did), NEW p \in Proc
    PROVE  /\ Safe(SweptQueue(p), Swept, worker, outcome, did)
           /\ \A t \in Turn : state[t] \notin Active => Swept[t] = state[t]
           /\ \A t \in Turn : Swept[t] \in Active => Swept[t] = state[t] /\ ~Expired
           /\ ~Expired => Swept = state /\ SweptQueue(p).owner = queue.owner
           /\ Expired => SweptQueue(p).owner = NoOne
<1>0. /\ queue \in Queue /\ state \in [Turn -> States]
      /\ NoOne \notin Proc
      BY CommandAssumption DEF Safe, SafeTypes
<1>1. /\ Swept \in [Turn -> States]
      /\ \A t \in Turn : Swept[t] = IF Expired /\ state[t] \in Active THEN "unconfirmed"
                                    ELSE state[t]
      BY <1>0 DEF Swept, States, Outcomes, Active
<1>2. /\ SweptQueue(p) \in Queue
      /\ ~Expired => SweptQueue(p).owner = queue.owner
      /\ Expired => SweptQueue(p).owner = NoOne
      BY <1>0 DEF SweptQueue, Queue, Reasons, Expired
<1>3. ~Expired => Swept = state
      BY <1>0, <1>1
<1>4. CASE Expired
  <2>1. \A t \in Turn : Swept[t] \notin Active
        BY <1>1, <1>4 DEF Active
  <2>2. SafeTypes(SweptQueue(p), Swept, worker, outcome, did)
        BY <1>1, <1>2 DEF Safe, SafeTypes
  <2>3. HeldOrUnconfirmed(SweptQueue(p), Swept, worker, outcome)
        BY <1>0, <1>1, <1>4 DEF Safe, SafeTypes, HeldOrUnconfirmed, Worker, Active
  <2>4. FreshIsClean(Swept, outcome, did)
        BY <1>1, <1>4 DEF Safe, FreshIsClean, Active
  <2>. QED
        BY <1>1, <1>2, <1>4, <2>1, <2>2, <2>3, <2>4
        DEF Safe, OwnerHasTurn, TurnHasOwner, OneActive, OwnerHasIt
<1>5. CASE ~Expired
  <2>1. HeldOrUnconfirmed(SweptQueue(p), Swept, worker, outcome)
        BY <1>2, <1>3, <1>5 DEF Safe, HeldOrUnconfirmed
  <2>2. OwnerHasTurn(SweptQueue(p), Swept) /\ TurnHasOwner(SweptQueue(p), Swept)
        BY <1>2, <1>3, <1>5 DEF Safe, OwnerHasTurn, TurnHasOwner
  <2>3. OwnerHasIt(SweptQueue(p), Swept, worker)
        BY <1>2, <1>3, <1>5 DEF Safe, OwnerHasIt
  <2>. QED
        BY <1>1, <1>2, <1>3, <1>5, <2>1, <2>2, <2>3 DEF Safe, SafeTypes
<1>. QED BY <1>4, <1>5

(* Pauses, epochs and the freshness of the lease do not matter to safety.  *)
LEMMA QueueFieldsSafe ==
    ASSUME NEW q, NEW q2, NEW st, NEW w, NEW out, NEW d,
           Safe(q, st, w, out, d), q2 \in Queue, q2.owner = q.owner
    PROVE  Safe(q2, st, w, out, d)
<1>. USE DEF Safe
<1>1. SafeTypes(q2, st, w, out, d) BY DEF SafeTypes
<1>2. HeldOrUnconfirmed(q2, st, w, out) BY DEF HeldOrUnconfirmed
<1>3. OwnerHasTurn(q2, st) /\ TurnHasOwner(q2, st) BY DEF OwnerHasTurn, TurnHasOwner
<1>4. OwnerHasIt(q2, st, w) BY DEF OwnerHasIt
<1>. QED BY <1>1, <1>2, <1>3, <1>4

(* A turn that no worker can be executing may change its state, as long as *)
(* only a row that was never claimed becomes or stays fresh.               *)
LEMMA MarkSafe ==
    ASSUME NEW q, NEW st, NEW w, NEW out, NEW d, NEW t \in Turn, NEW s,
           Safe(q, st, w, out, d),
           s \in States \ Active, st[t] \notin Active,
           st[t] = "unconfirmed" => out[t] # "none",
           s \in Fresh => st[t] \in Fresh
    PROVE  Safe(q, [st EXCEPT ![t] = s], w, out, d)
<1>. DEFINE m == [st EXCEPT ![t] = s]
<1>. USE DEF Safe
<1>0. /\ st \in [Turn -> States] /\ m \in [Turn -> States]
      /\ \A u \in Turn : m[u] = IF u = t THEN s ELSE st[u]
      BY DEF SafeTypes
<1>. HIDE DEF m
<1>1. \A u \in Turn : m[u] \in Active <=> st[u] \in Active
      BY <1>0
<1>2. SafeTypes(q, m, w, out, d) BY <1>0 DEF SafeTypes
<1>3. HeldOrUnconfirmed(q, m, w, out)
      BY <1>0 DEF HeldOrUnconfirmed, SafeTypes, Worker
<1>4. FreshIsClean(m, out, d) BY <1>0 DEF FreshIsClean
<1>5. OwnerHasTurn(q, m) /\ TurnHasOwner(q, m) /\ OneActive(m)
      BY <1>1 DEF OwnerHasTurn, TurnHasOwner, OneActive
<1>6. OwnerHasIt(q, m, w) BY <1>1 DEF OwnerHasIt
<1>7. Safe(q, m, w, out, d) BY <1>2, <1>3, <1>4, <1>5, <1>6
<1>. QED BY <1>7 DEF m

(* A worker that goes, or one that comes, is safe.                         *)
LEMMA IdleSafe ==
    ASSUME NEW q, NEW st, NEW w, NEW w2, NEW out, NEW d,
           Safe(q, st, w, out, d), w2 \in [Proc -> Worker],
           \A p \in Proc : w2[p] = w[p] \/ w2[p].pc \in {"none", "idle"}
    PROVE  Safe(q, st, w2, out, d)
<1>. USE DEF Safe
<1>1. SafeTypes(q, st, w2, out, d) BY DEF SafeTypes
<1>2. HeldOrUnconfirmed(q, st, w2, out) BY DEF HeldOrUnconfirmed
<1>4. OneUnsaved(w2) BY DEF OneUnsaved
<1>5. OwnerHasIt(q, st, w2) BY DEF OwnerHasIt, Busy
<1>6. ClaimedIsUnrun(w2, d) BY DEF ClaimedIsUnrun
<1>. QED BY <1>1, <1>2, <1>4, <1>5, <1>6

-----------------------------------------------------------------------------
(* The initial states, and the actions one by one.                         *)

LEMMA InitInv == Init => Inv
<1>. SUFFICES ASSUME Init PROVE Inv
     OBVIOUS
<1>1. PICK p \in Proc : queue = [owner |-> NoOne, live |-> FALSE, paused |-> FALSE,
                                 reason |-> "", epoch |-> p]
      BY DEF Init
<1>2. SomeTurn \in Turn
  <2>1. PICK c \in Cmd : TRUE
        BY CommandAssumption
  <2>2. <<c, 0>> \in Turn
        BY DEF Turn
  <2>. QED BY <2>2 DEF SomeTurn
<1>3. SafeTypes(queue, state, worker, outcome, did)
      BY <1>1, <1>2 DEF Init, SafeTypes, Queue, Reasons, States, NoWorker, Worker, Pcs,
                        Outcomes
<1>4. resolver \in [Proc -> Resolver]
      BY <1>2 DEF Init, NoResolver, Resolver
<1>5. /\ \A p2 \in Proc : worker[p2].pc = "none"
      /\ \A t \in Turn : state[t] = "none" /\ outcome[t] = "none" /\ did[t] = "none"
      /\ queue.owner = NoOne
      BY <1>1 DEF Init, NoWorker
<1>. QED
      BY <1>3, <1>4, <1>5
      DEF Inv, Safe, HeldOrUnconfirmed, OneUnsaved, FreshIsClean, OwnerHasTurn,
          TurnHasOwner, OneActive, OwnerHasIt, ClaimedIsUnrun, Busy, Active

(* Submit and ResolveAccept: a row that was never there is queued.         *)
LEMMA InsertSafe ==
    ASSUME Inv, NEW p \in Proc, NEW t \in Turn, NEW front, state[t] = "none",
           Insert(p, t, front)
    PROVE  Safe(queue', state', worker, outcome, did)
<1>1. /\ Safe(SweptQueue(p), Swept, worker, outcome, did)
      /\ Swept[t] = "none"
      BY SweepSafe DEF Inv, Active
<1>2. Safe(SweptQueue(p), [Swept EXCEPT ![t] = "queued"], worker, outcome, did)
      BY <1>1, MarkSafe DEF States, Active
<1>. QED BY <1>2 DEF Insert

(* What begins with the sweep and changes at most a pause, an epoch and    *)
(* the worker it kicks.                                                    *)
LEMMA SweptStepSafe ==
    ASSUME Inv, NEW p \in Proc,
           queue' \in Queue, queue'.owner = SweptQueue(p).owner, state' = Swept,
           worker' \in [Proc -> Worker],
           \A r \in Proc : worker'[r] = worker[r] \/ worker'[r].pc \in {"none", "idle"},
           outcome' = outcome, did' = did
    PROVE  Safe(queue', state', worker', outcome', did')
<1>1. Safe(SweptQueue(p), Swept, worker, outcome, did)
      BY SweepSafe DEF Inv
<1>2. Safe(queue', Swept, worker, outcome, did)
      BY <1>1, QueueFieldsSafe
<1>3. Safe(queue', Swept, worker', outcome, did)
      BY <1>2, IdleSafe
<1>. QED BY <1>3

LEMMA KickedSafe ==
    ASSUME worker \in [Proc -> Worker], NEW p \in Proc
    PROVE  /\ Kicked(p) \in [Proc -> Worker]
           /\ \A r \in Proc : Kicked(p)[r] = worker[r] \/ Kicked(p)[r].pc \in {"none", "idle"}
BY DEF Kicked, Worker, Pcs

(* claim: the queue is free and nothing is unconfirmed, so no worker has a *)
(* turn it could still be executing.                                       *)
LEMMA ClaimSafe ==
    ASSUME Inv, NEW p \in Proc, Claim(p)
    PROVE  Safe(queue', state', worker', outcome', did')
<1>. DEFINE h == Head(line)
            q2 == [SweptQueue(p) EXCEPT !.owner = p, !.live = TRUE, !.epoch = p]
            s2 == [Swept EXCEPT ![h] = "running"]
            w2 == [worker EXCEPT ![p] = [@ EXCEPT !.pc = "claimed", !.turn = h]]
<1>1. /\ Safe(SweptQueue(p), Swept, worker, outcome, did)
      /\ \A t \in Turn : state[t] \notin Active => Swept[t] = state[t]
      BY SweepSafe DEF Inv
<1>2. /\ h \in Turn /\ state[h] = "queued"
      /\ SweptQueue(p).owner = NoOne
      /\ \A t \in Turn : Swept[t] # "unconfirmed"
      BY DEF Claim, Claimable, Queued, Unconfirmed
<1>3. Swept[h] = "queued" /\ outcome[h] = "none" /\ did[h] = "none"
      BY <1>1, <1>2 DEF Active, Safe, FreshIsClean
<1>4. \A t \in Turn : Swept[t] \notin Active
      BY <1>1, <1>2 DEF Safe, TurnHasOwner
<1>5. \A r \in Proc : worker[r].pc \notin Unsaved
      BY <1>1, <1>2, <1>4 DEF Safe, SafeTypes, HeldOrUnconfirmed, Worker
<1>6. /\ q2 \in Queue /\ q2.owner = p
      BY <1>1 DEF Safe, SafeTypes, Queue
<1>7. /\ s2 \in [Turn -> States]
      /\ \A t \in Turn : s2[t] = IF t = h THEN "running" ELSE Swept[t]
      BY <1>1, <1>2 DEF Safe, SafeTypes, States, Active
<1>8. /\ w2 \in [Proc -> Worker]
      /\ \A r \in Proc : r # p => w2[r] = worker[r]
      /\ w2[p].pc = "claimed" /\ w2[p].turn = h
      BY <1>1, <1>2 DEF Safe, SafeTypes, Worker, Pcs
<1>9. queue' = q2 /\ state' = s2 /\ worker' = w2 /\ outcome' = outcome /\ did' = did
      BY DEF Claim, past
<1>. HIDE DEF h, q2, s2, w2
<1>10. NoOne # p
      BY CommandAssumption
<1>11. SafeTypes(q2, s2, w2, outcome, did)
      BY <1>1, <1>6, <1>7, <1>8 DEF Safe, SafeTypes
<1>12. HeldOrUnconfirmed(q2, s2, w2, outcome)
      BY <1>3, <1>5, <1>6, <1>7, <1>8, <1>2 DEF HeldOrUnconfirmed, Active
<1>13. OneUnsaved(w2) /\ ClaimedIsUnrun(w2, did)
      BY <1>3, <1>5, <1>8 DEF OneUnsaved, ClaimedIsUnrun
<1>14. FreshIsClean(s2, outcome, did)
      BY <1>1, <1>7 DEF Safe, FreshIsClean
<1>15. OwnerHasTurn(q2, s2) /\ TurnHasOwner(q2, s2) /\ OneActive(s2)
      BY <1>2, <1>4, <1>6, <1>7, <1>10 DEF OwnerHasTurn, TurnHasOwner, OneActive, Active
<1>16. OwnerHasIt(q2, s2, w2)
      BY <1>4, <1>6, <1>7, <1>8 DEF OwnerHasIt
<1>. QED BY <1>9, <1>11, <1>12, <1>13, <1>14, <1>15, <1>16 DEF Safe

(* Begin, End and Save: the worker that has the only unsaved turn goes on  *)
(* with it.                                                                *)
LEMMA ProgressSafe ==
    ASSUME NEW q, NEW st, NEW w, NEW out, NEW d, NEW p \in Proc,
           NEW w2 \in [Proc -> Worker], NEW out2, NEW d2,
           Safe(q, st, w, out, d),
           w[p].pc \in Unsaved,
           \A r \in Proc : r # p => w2[r] = w[r],
           w2[p].turn = w[p].turn, w2[p].pc \in Busy \ {"claimed"},
           out2 \in [Turn -> Outcomes \union {"none"}],
           d2 \in [Turn -> Outcomes \union {"none", "begun"}],
           \A t \in Turn : t # w[p].turn => out2[t] = out[t],
           \A t \in Turn : t # w[p].turn => d2[t] = d[t],
           w2[p].pc = "saved" \/ out2[w[p].turn] = out[w[p].turn]
    PROVE  Safe(q, st, w2, out2, d2)
<1>. USE DEF Safe
<1>1. w[p].turn \in Turn
      BY DEF SafeTypes, Worker
<1>2. st[w[p].turn] \notin Fresh
      BY DEF HeldOrUnconfirmed, Active
<1>3. \A r \in Proc : w2[r].pc \in Unsaved => r = p
      BY DEF OneUnsaved
<1>4. SafeTypes(q, st, w2, out2, d2)
      BY DEF SafeTypes
<1>5. HeldOrUnconfirmed(q, st, w2, out2)
      BY <1>1, <1>3 DEF HeldOrUnconfirmed
<1>6. OneUnsaved(w2)
      BY <1>3 DEF OneUnsaved
<1>7. FreshIsClean(st, out2, d2)
      BY <1>2 DEF FreshIsClean
<1>8. OwnerHasIt(q, st, w2)
      BY DEF OwnerHasIt, Busy
<1>9. ClaimedIsUnrun(w2, d2)
      BY <1>3 DEF ClaimedIsUnrun
<1>. QED BY <1>4, <1>5, <1>6, <1>7, <1>8, <1>9

(* finish: an owner has the only active turn, and leaves none.             *)
LEMMA FinishSafe ==
    ASSUME Inv, NEW p \in Proc, Finish(p)
    PROVE  /\ Safe(queue', state', worker', outcome', did')
           /\ \A t \in Turn : state'[t] = state[t] \/ state[t] \in Active
<1>. DEFINE w2 == [worker EXCEPT ![p] = [NoWorker EXCEPT !.pc = "idle"]]
            t0 == worker[p].turn
            r0 == IF state[t0] = "stopping" /\ worker[p].result # "unconfirmed"
                  THEN "interrupted" ELSE worker[p].result
            s2 == [state EXCEPT ![t0] = r0]
<1>1. SafeTypes(queue, state, worker, outcome, did)
      BY DEF Inv, Safe
<1>2. /\ t0 \in Turn /\ r0 \in Outcomes /\ worker[p].pc = "saved"
      /\ SomeTurn \in Turn
  <2>1. t0 \in Turn /\ r0 \in Outcomes /\ worker[p].pc = "saved"
        BY <1>1 DEF SafeTypes, Worker, Outcomes, Finish
  <2>2. \E t : t \in Turn
        BY <2>1
  <2>. QED BY <2>1, <2>2 DEF SomeTurn
<1>3. /\ w2 \in [Proc -> Worker]
      /\ \A r \in Proc : w2[r] = worker[r] \/ w2[r].pc \in {"none", "idle"}
      BY <1>1, <1>2 DEF SafeTypes, Worker, NoWorker, Pcs, Outcomes
<1>4. worker' = w2 /\ outcome' = outcome /\ did' = did
      BY DEF Finish, past
<1>. HIDE DEF w2
<1>5. Safe(queue, state, w2, outcome, did)
      BY <1>3, IdleSafe DEF Inv
<1>6. CASE queue.owner # p
      BY <1>4, <1>5, <1>6 DEF Finish
<1>7. CASE queue.owner = p
  <2>1. state' = s2 /\ queue' = Released(r0, s2)
        BY <1>7 DEF Finish
  <2>. HIDE DEF r0
  <2>2. /\ s2 \in [Turn -> States]
        /\ \A t \in Turn : s2[t] = IF t = t0 THEN r0 ELSE state[t]
        BY <1>1, <1>2 DEF SafeTypes, States
  <2>. HIDE DEF s2, t0
  <2>3. Released(r0, s2) \in Queue /\ Released(r0, s2).owner = NoOne
        BY <1>1, <1>2 DEF SafeTypes, Released, Queue, Reasons, Outcomes
  <2>4. \A t \in Turn : state[t] \in Active <=> t = t0
    <3>1. PICK u \in Turn : state[u] \in Active
          BY <1>7, CommandAssumption DEF Inv, Safe, OwnerHasTurn
    <3>2. u = t0
          BY <1>2, <1>7, <3>1 DEF Inv, Safe, OwnerHasIt, Busy, t0
    <3>. QED BY <3>1, <3>2 DEF Inv, Safe, OneActive
  <2>5. \A t \in Turn : s2[t] \notin Active
        BY <1>2, <2>2, <2>4 DEF Active, Outcomes
  <2>6. SafeTypes(Released(r0, s2), s2, w2, outcome, did)
        BY <1>1, <1>3, <2>2, <2>3 DEF SafeTypes
  <2>7. HeldOrUnconfirmed(Released(r0, s2), s2, w2, outcome)
    <3>. SUFFICES ASSUME NEW r \in Proc, w2[r].pc \in Unsaved
                  PROVE  /\ outcome[w2[r].turn] = "none"
                         /\ s2[w2[r].turn] = "unconfirmed"
         BY DEF HeldOrUnconfirmed
    <3>1. /\ w2[r] = worker[r] /\ r # p /\ w2[r].turn \in Turn
          BY <1>1, <1>2, <1>3 DEF SafeTypes, Worker
    <3>2. /\ outcome[w2[r].turn] = "none"
          /\ state[w2[r].turn] = "unconfirmed"
          BY <1>7, <3>1, <1>5 DEF Safe, HeldOrUnconfirmed
    <3>. QED BY <2>2, <2>4, <3>1, <3>2 DEF Active
  <2>8. FreshIsClean(s2, outcome, did)
        BY <1>2, <1>5, <2>2 DEF Safe, FreshIsClean, Outcomes
  <2>9. Safe(Released(r0, s2), s2, w2, outcome, did)
        BY <1>5, <2>3, <2>5, <2>6, <2>7, <2>8
        DEF Safe, OwnerHasTurn, TurnHasOwner, OneActive, OwnerHasIt
  <2>. QED BY <1>4, <2>1, <2>2, <2>4, <2>9
<1>. QED BY <1>6, <1>7

(* control's stop: an active turn stays active.                            *)
LEMMA StopSafe ==
    ASSUME Inv, NEW p \in Proc, NEW t0 \in Turn, Stop(p, t0)
    PROVE  Safe(queue', state', worker', outcome', did')
<1>. DEFINE q2 == [queue EXCEPT !.paused = TRUE, !.reason =
                      IF queue.paused /\ @ = "operator" THEN @ ELSE "stopping"]
            s2 == [state EXCEPT ![t0] = "stopping"]
<1>1. Safe(queue, state, worker, outcome, did) /\ state[t0] \in Active
      BY SweepSafe DEF Inv, Stop
<1>2. q2 \in Queue /\ q2.owner = queue.owner
      BY <1>1 DEF Safe, SafeTypes, Queue, Reasons
<1>3. /\ s2 \in [Turn -> States]
      /\ \A t \in Turn : s2[t] = IF t = t0 THEN "stopping" ELSE state[t]
      BY <1>1 DEF Safe, SafeTypes, States, Active
<1>4. queue' = q2 /\ state' = s2 /\ worker' = worker /\ outcome' = outcome /\ did' = did
      BY DEF Stop, threads, past
<1>. HIDE DEF q2, s2
<1>5. Safe(q2, state, worker, outcome, did)
      BY <1>1, <1>2, QueueFieldsSafe
<1>6. \A t \in Turn : /\ s2[t] \in Active <=> state[t] \in Active
                      /\ s2[t] \notin Active => s2[t] = state[t]
      BY <1>1, <1>3 DEF Active
<1>7. SafeTypes(q2, s2, worker, outcome, did)
      BY <1>3, <1>5 DEF Safe, SafeTypes
<1>8. HeldOrUnconfirmed(q2, s2, worker, outcome)
      BY <1>1, <1>3, <1>5, <1>6 DEF Safe, SafeTypes, HeldOrUnconfirmed, Worker, Active
<1>9. FreshIsClean(s2, outcome, did)
      BY <1>5, <1>6 DEF Safe, FreshIsClean, Active
<1>10. Safe(q2, s2, worker, outcome, did)
      BY <1>5, <1>6, <1>7, <1>8, <1>9
      DEF Safe, OwnerHasTurn, TurnHasOwner, OneActive, OwnerHasIt
<1>. QED BY <1>4, <1>10

(* end_decision.                                                           *)
LEMMA EndDecisionSafe ==
    ASSUME Inv, NEW t0 \in Turn, NEW final \in {"succeeded", "interrupted"},
           NEW why \in Reasons, EndDecision(t0, final, why)
    PROVE  Safe(queue', state', worker, outcome, did)
<1>. DEFINE q2 == [queue EXCEPT !.paused = TRUE, !.reason =
                      IF queue.paused /\ @ \notin DecisionPauses THEN @ ELSE why]
<1>1. CASE state[t0] = "awaiting"
  <2>1. queue' = q2 /\ state' = [state EXCEPT ![t0] = final]
        BY <1>1 DEF EndDecision
  <2>2. q2 \in Queue /\ q2.owner = queue.owner
        BY DEF Inv, Safe, SafeTypes, Queue, Reasons
  <2>. HIDE DEF q2
  <2>3. Safe(q2, state, worker, outcome, did)
        BY <2>2, QueueFieldsSafe DEF Inv
  <2>4. Safe(q2, [state EXCEPT ![t0] = final], worker, outcome, did)
        BY <1>1, <2>3, MarkSafe DEF States, Active, Outcomes
  <2>. QED BY <2>1, <2>4
<1>2. CASE state[t0] # "awaiting"
      BY <1>2 DEF EndDecision, Inv
<1>. QED BY <1>1, <1>2

-----------------------------------------------------------------------------
(* Every step keeps the invariant.                                         *)

LEMMA NextInv == Inv /\ [Next]_vars => Inv'
<1>. SUFFICES ASSUME Inv, [Next]_vars PROVE Inv'
     OBVIOUS
<1>0. /\ worker \in [Proc -> Worker] /\ resolver \in [Proc -> Resolver]
      /\ queue \in Queue
      BY DEF Inv, Safe, SafeTypes
<1>1. ASSUME NEW p \in Proc, Poll(p) \/ Pause(p) \/ Resume(p) PROVE Inv'
  <2>1. SweptQueue(p) \in Queue
        BY SweepSafe DEF Inv, Safe, SafeTypes
  <2>2. /\ queue' \in Queue /\ queue'.owner = SweptQueue(p).owner
        /\ state' = Swept /\ outcome' = outcome /\ did' = did /\ resolver' = resolver
        BY <1>1, <2>1 DEF Poll, Pause, Resume, threads, past, Queue, Reasons
  <2>3. worker' = worker \/ worker' = Kicked(p)
        BY <1>1 DEF Poll, Pause, Resume, threads
  <2>4. Safe(queue', state', worker', outcome', did')
        BY <1>0, <2>2, <2>3, KickedSafe, SweptStepSafe
  <2>. QED BY <1>0, <2>2, <2>4 DEF Inv
<1>2. ASSUME NEW p \in Proc, NEW g \in Guide, SubmitGuide(p, g) PROVE Inv'
  <2>1. PICK t \in Turn : Swept[t] = "running"
        BY <1>2 DEF SubmitGuide
  <2>2. Swept = state /\ SweptQueue(p) \in Queue
        BY <2>1, SweepSafe DEF Inv, Safe, SafeTypes, Active
  <2>3. Safe(queue', state', worker', outcome', did')
        BY <1>0, <1>2, <2>2, KickedSafe, SweptStepSafe DEF SubmitGuide, rows, past
  <2>. QED BY <1>0, <1>2, <2>3 DEF Inv, SubmitGuide
<1>3. ASSUME NEW p \in Proc, GoIdle(p) PROVE Inv'
  <2>1. SweptQueue(p) \in Queue
        BY SweepSafe DEF Inv, Safe, SafeTypes
  <2>2. /\ queue' = SweptQueue(p) /\ state' = Swept
        /\ outcome' = outcome /\ did' = did /\ resolver' = resolver
        BY <1>3 DEF GoIdle, past
  <2>3. /\ worker' \in [Proc -> Worker]
        /\ \A r \in Proc : worker'[r] = worker[r] \/ worker'[r].pc \in {"none", "idle"}
        BY <1>0, <1>3 DEF GoIdle, Worker, Pcs
  <2>4. Safe(queue', state', worker', outcome', did')
        BY <2>1, <2>2, <2>3, SweptStepSafe
  <2>. QED BY <1>0, <2>2, <2>4 DEF Inv
<1>4. ASSUME NEW p \in Proc, NEW c \in Cmd, Submit(p, c) PROVE Inv'
  <2>1. /\ <<c, 0>> \in Turn /\ state[<<c, 0>>] = "none"
        /\ Insert(p, <<c, 0>>, c \in RunOnly)
        BY <1>4 DEF Submit, Turn
  <2>2. Safe(queue', state', worker, outcome, did)
        BY <2>1, InsertSafe
  <2>3. Safe(queue', state', Kicked(p), outcome, did)
        BY <1>0, <2>2, KickedSafe, IdleSafe
  <2>. QED BY <1>0, <1>4, <2>3 DEF Inv, Submit, past
<1>5. ASSUME NEW p \in Proc, Claim(p) PROVE Inv'
      BY <1>0, <1>5, ClaimSafe DEF Inv, Claim
<1>6. ASSUME NEW p \in Proc, Begin(p) PROVE Inv'
  <2>1. Safe(SweptQueue(p), Swept, worker, outcome, did)
        BY SweepSafe DEF Inv
  <2>2. /\ worker' \in [Proc -> Worker]
        /\ worker[p].pc = "claimed"
        /\ \A r \in Proc : r # p => worker'[r] = worker[r]
        /\ worker'[p].turn = worker[p].turn /\ worker'[p].pc \in {"executing", "ended"}
        BY <1>0, <1>6 DEF Begin, Worker, Pcs, Outcomes
  <2>3. /\ did' \in [Turn -> Outcomes \union {"none", "begun"}]
        /\ \A t \in Turn : t # worker[p].turn => did'[t] = did[t]
        /\ outcome' = outcome /\ outcome \in [Turn -> Outcomes \union {"none"}]
        BY <1>6 DEF Begin, Outcomes, Inv, Safe, SafeTypes
  <2>4. Safe(SweptQueue(p), Swept, worker', outcome, did')
        BY <2>1, <2>2, <2>3, ProgressSafe DEF Busy
  <2>. QED BY <1>0, <1>6, <2>3, <2>4 DEF Inv, Begin
<1>7. ASSUME NEW p \in Proc, NEW r0 \in Outcomes, End(p, r0) PROVE Inv'
  <2>1. /\ worker' \in [Proc -> Worker]
        /\ worker[p].pc = "executing"
        /\ \A r \in Proc : r # p => worker'[r] = worker[r]
        /\ worker'[p].turn = worker[p].turn /\ worker'[p].pc = "ended"
        BY <1>0, <1>7 DEF End, Worker, Pcs
  <2>2. /\ did' \in [Turn -> Outcomes \union {"none", "begun"}]
        /\ \A t \in Turn : t # worker[p].turn => did'[t] = did[t]
        /\ outcome' = outcome /\ outcome \in [Turn -> Outcomes \union {"none"}]
        /\ queue' = queue /\ state' = state /\ resolver' = resolver
        BY <1>7 DEF End, rows, Inv, Safe, SafeTypes
  <2>3. Safe(queue, state, worker', outcome, did')
        BY <2>1, <2>2, ProgressSafe DEF Busy, Inv
  <2>. QED BY <1>0, <2>2, <2>3 DEF Inv
<1>8. ASSUME NEW p \in Proc, Save(p) PROVE Inv'
  <2>1. /\ worker' \in [Proc -> Worker]
        /\ worker[p].pc = "ended"
        /\ \A r \in Proc : r # p => worker'[r] = worker[r]
        /\ worker'[p].turn = worker[p].turn /\ worker'[p].pc = "saved"
        BY <1>0, <1>8 DEF Save, Worker, Pcs
  <2>2. worker[p].turn \in Turn /\ worker[p].result \in Outcomes
        BY <1>0 DEF Worker
  <2>3. /\ outcome' \in [Turn -> Outcomes \union {"none"}]
        /\ \A t \in Turn : t # worker[p].turn => outcome'[t] = outcome[t]
        BY <1>8, <2>2 DEF Save, Inv, Safe, SafeTypes, Outcomes
  <2>4. /\ did' \in [Turn -> Outcomes \union {"none", "begun"}]
        /\ \A t \in Turn : did'[t] = did[t]
        /\ queue' = queue /\ state' = state /\ resolver' = resolver
        BY <1>8 DEF Save, rows, past, Inv, Safe, SafeTypes
  <2>5. /\ Safe(queue, state, worker, outcome, did)
        /\ worker[p].pc \in Unsaved /\ worker'[p].pc \in Busy \ {"claimed"}
        BY <2>1 DEF Busy, Inv
  <2>6. \A t \in Turn : t # worker[p].turn => did'[t] = did[t]
        BY <2>4
  <2>7. worker'[p].pc = "saved" \/ outcome'[worker[p].turn] = outcome[worker[p].turn]
        BY <2>1
  <2>. DEFINE w2 == worker'  o2 == outcome'  d2 == did'
  <2>8. /\ w2 \in [Proc -> Worker]
        /\ \A r \in Proc : r # p => w2[r] = worker[r]
        /\ w2[p].turn = worker[p].turn /\ w2[p].pc \in Busy \ {"claimed"}
        /\ o2 \in [Turn -> Outcomes \union {"none"}]
        /\ \A t \in Turn : t # worker[p].turn => o2[t] = outcome[t]
        /\ d2 \in [Turn -> Outcomes \union {"none", "begun"}]
        /\ \A t \in Turn : t # worker[p].turn => d2[t] = did[t]
        /\ w2[p].pc = "saved" \/ o2[worker[p].turn] = outcome[worker[p].turn]
        BY <2>1, <2>3, <2>4, <2>5, <2>6, <2>7
  <2>. HIDE DEF w2, o2, d2
  <2>9. Safe(queue, state, w2, o2, d2)
        BY <2>5, <2>8, ProgressSafe
  <2>. QED BY <1>0, <2>4, <2>9 DEF Inv, w2, o2, d2
<1>9. ASSUME NEW p \in Proc, Finish(p) PROVE Inv'
      BY <1>0, <1>9, FinishSafe DEF Inv, Finish
<1>10. ASSUME NEW p \in Proc, WorkerFails(p) \/ Die(p) PROVE Inv'
  <2>1. SomeTurn \in Turn
        BY <1>0, <1>10 DEF SomeTurn, Worker
  <2>2. /\ worker' \in [Proc -> Worker]
        /\ \A r \in Proc : worker'[r] = worker[r] \/ worker'[r].pc \in {"none", "idle"}
    <3>1. NoWorker \in Worker /\ NoWorker.pc = "none"
          BY <2>1 DEF NoWorker, Worker, Pcs, Outcomes
    <3>2. worker' = [worker EXCEPT ![p] = NoWorker]
          BY <1>10 DEF WorkerFails, Die
    <3>. QED BY <1>0, <3>1, <3>2
  <2>3. queue' = queue /\ state' = state /\ outcome' = outcome /\ did' = did
        BY <1>10 DEF WorkerFails, Die, rows, past
  <2>4. resolver' \in [Proc -> Resolver]
    <3>1. NoResolver \in Resolver
          BY <2>1 DEF NoResolver, Resolver
    <3>2. resolver' = resolver \/ resolver' = [resolver EXCEPT ![p] = NoResolver]
          BY <1>10 DEF WorkerFails, Die
    <3>. QED BY <1>0, <3>1, <3>2
  <2>5. Safe(queue, state, worker', outcome, did)
        BY <2>2, IdleSafe DEF Inv
  <2>. QED BY <2>3, <2>4, <2>5 DEF Inv
<1>11. ASSUME Expire \/ \E p \in Proc : Heartbeat(p) PROVE Inv'
  <2>1. /\ queue' \in Queue /\ queue'.owner = queue.owner
        BY <1>0, <1>11 DEF Expire, Heartbeat, Queue
  <2>2. /\ state' = state /\ worker' = worker /\ outcome' = outcome /\ did' = did
        /\ resolver' = resolver
        BY <1>11 DEF Expire, Heartbeat, rows, threads, past
  <2>3. Safe(queue', state, worker, outcome, did)
        BY <2>1, QueueFieldsSafe DEF Inv
  <2>. QED BY <1>0, <2>2, <2>3 DEF Inv
<1>12. ASSUME NEW p \in Proc, NEW t \in Turn, Stop(p, t) PROVE Inv'
      BY <1>0, <1>12, StopSafe DEF Inv, Stop, threads
<1>13. ASSUME NEW p \in Proc, NEW t \in Turn, Remove(p, t) PROVE Inv'
  <2>1. /\ Safe(SweptQueue(p), Swept, worker, outcome, did)
        /\ Swept[t] = "queued"
        BY <1>13, SweepSafe DEF Inv, Active, Remove
  <2>2. Safe(SweptQueue(p), [Swept EXCEPT ![t] = "removed"], worker, outcome, did)
        BY <2>1, MarkSafe DEF States, Active
  <2>. QED BY <1>0, <1>13, <2>2 DEF Inv, Remove, threads, past
<1>14. ASSUME NEW p \in Proc, NEW t \in Turn, NEW n \in 0..Len(line), Move(p, t, n) PROVE Inv'
  <2>1. Safe(SweptQueue(p), Swept, worker, outcome, did)
        BY SweepSafe DEF Inv
  <2>. QED BY <1>0, <1>14, <2>1 DEF Inv, Move, threads, past
<1>15. ASSUME NEW t \in Turn, Reconcile(t) PROVE Inv'
  <2>1. Reconciled(t) \in Outcomes
        BY <1>15 DEF Reconcile, Reconciled, Outcomes, Inv, Safe, SafeTypes
  <2>2. Safe(queue, [state EXCEPT ![t] = Reconciled(t)], worker, outcome, did)
        BY <1>15, <2>1, MarkSafe DEF Reconcile, Inv, States, Active, Outcomes
  <2>. QED BY <1>0, <1>15, <2>2 DEF Inv, Reconcile, threads, past
<1>16. ASSUME NEW p \in Proc, NEW c \in Cmd, Resolve(p, c) PROVE Inv'
  <2>1. <<c, 0>> \in Turn
        BY DEF Turn
  <2>2. /\ worker' = worker /\ outcome' = outcome /\ did' = did
        /\ resolver' \in [Proc -> Resolver]
        BY <1>0, <1>16, <2>1 DEF Resolve, past, Resolver
  <2>3. \/ EndDecision(<<c, 0>>, "succeeded", "approval_continued")
        \/ EndDecision(<<c, 0>>, "interrupted", "approval_rejected")
        \/ UNCHANGED <<state, queue>>
        BY <1>16 DEF Resolve
  <2>4. Safe(queue', state', worker, outcome, did)
        BY <2>1, <2>3, EndDecisionSafe DEF Inv, Reasons, DecisionPauses
  <2>. QED BY <2>2, <2>4 DEF Inv
<1>17. ASSUME NEW p \in Proc, ResolveAccept(p) PROVE Inv'
  <2>1. resolver[p].turn \in Turn /\ Heir(resolver[p].turn) \in Turn
        BY <1>0 DEF Resolver, Heir, Turn
  <2>2. SomeTurn \in Turn
        BY <2>1 DEF SomeTurn
  <2>3. /\ worker' = worker /\ outcome' = outcome /\ did' = did
        /\ resolver' \in [Proc -> Resolver]
    <3>1. NoResolver \in Resolver
          BY <2>2 DEF NoResolver, Resolver
    <3>2. [resolver EXCEPT ![p].pc = "end"] \in [Proc -> Resolver]
          BY <1>0 DEF Resolver
    <3>3. \/ resolver' = [resolver EXCEPT ![p].pc = "end"]
          \/ resolver' = [resolver EXCEPT ![p] = NoResolver]
          BY <1>17 DEF ResolveAccept
    <3>. QED BY <1>0, <1>17, <3>1, <3>2, <3>3 DEF ResolveAccept, past
  <2>4. \/ /\ queue' = SweptQueue(p) /\ state' = Swept
        \/ /\ queue' = queue /\ state' = state
        \/ /\ state[Heir(resolver[p].turn)] = "none"
           /\ Insert(p, Heir(resolver[p].turn), TRUE)
        BY <1>17 DEF ResolveAccept, rows
  <2>5. Safe(queue', state', worker, outcome, did)
        BY <2>1, <2>4, SweepSafe, InsertSafe DEF Inv
  <2>. QED BY <2>3, <2>5 DEF Inv
<1>18. ASSUME NEW p \in Proc, ResolveEnd(p) PROVE Inv'
  <2>1. resolver[p].turn \in Turn
        BY <1>0 DEF Resolver
  <2>2. SomeTurn \in Turn
        BY <2>1 DEF SomeTurn
  <2>3. /\ worker' = Kicked(p) /\ outcome' = outcome /\ did' = did
        /\ resolver' \in [Proc -> Resolver]
        BY <1>0, <1>18, <2>2 DEF ResolveEnd, past, Resolver, NoResolver
  <2>4. Safe(queue', state', worker, outcome, did)
        BY <1>18, <2>1, EndDecisionSafe DEF ResolveEnd, Reasons, DecisionPauses
  <2>5. Safe(queue', state', Kicked(p), outcome, did)
        BY <1>0, <2>4, KickedSafe, IdleSafe
  <2>. QED BY <2>3, <2>5 DEF Inv
<1>19. ASSUME \/ UNCHANGED vars
              \/ \E g \in Guide : NoteSteer(g)
              \/ \E p \in Proc, g \in Guide : Take(p, g) \/ Steer(p, g) \/ Consume(p, g)
              \/ \E c \in Cmd, v \in {"approved", "rejected"} : Decide(c, v)
       PROVE  Inv'
      BY <1>0, <1>19 DEF Inv, vars, rows, threads, past, NoteSteer, Take, Steer, Consume, Decide
<1>. QED
     BY <1>1, <1>2, <1>3, <1>4, <1>5, <1>6, <1>7, <1>8, <1>9, <1>10, <1>11, <1>12, <1>13,
        <1>14, <1>15, <1>16, <1>17, <1>18, <1>19, ZenonT(60) DEF Next

LEMMA InvariantHolds == Spec => []Inv
<1>1. Init => Inv BY InitInv
<1>2. Inv /\ [Next]_vars => Inv' BY NextInv
<1>. QED BY <1>1, <1>2, PTL DEF Spec

-----------------------------------------------------------------------------
(* Two turns of a conversation are never executed at the same time, for    *)
(* any number of commands, processes, deaths and lost leases: whoever has  *)
(* not saved its outcome keeps its turn active or unconfirmed, and claim   *)
(* and the restart of a queue wait for either.                             *)
THEOREM OneTurnAtATime == Spec => []OneAtATime
<1>1. Inv => OneAtATime
      BY DEF Inv, Safe, OneUnsaved, OneAtATime, Executing
<1>. QED BY <1>1, InvariantHolds, PTL

(* The queue has an owner exactly while one of its turns is active: no     *)
(* sequence of claims, expiries, stops and late results leaves a lease     *)
(* without a turn or a turn that no sweep would find.                      *)
THEOREM LeaseIsTheTurn == Spec => []LeaseMatchesTurn
<1>1. Inv => LeaseMatchesTurn
      BY DEF Inv, Safe, OwnerHasTurn, TurnHasOwner, OneActive, LeaseMatchesTurn
<1>. QED BY <1>1, InvariantHolds, PTL

(* A turn that has been settled is left alone by every action.             *)
LEMMA FinalStays ==
    ASSUME Inv, Next, NEW t \in Turn, state[t] \in Final
    PROVE  state'[t] = state[t]
<1>. DEFINE Stays == state'[t] = state[t]
<1>0. /\ state \in [Turn -> States] /\ resolver \in [Proc -> Resolver]
      /\ state[t] \notin Active \union {"none", "queued", "awaiting", "unconfirmed"}
      BY DEF Inv, Safe, SafeTypes, Final, Active
<1>a. /\ Swept[t] = state[t]
      /\ Swept \in [Turn -> States]
  <2>. SUFFICES ASSUME TRUE PROVE Swept[t] = state[t] /\ Swept \in [Turn -> States]
       OBVIOUS
  <2>. QED BY <1>0 DEF Swept, States, Outcomes, Active
<1>1. ASSUME NEW p \in Proc, Poll(p) \/ Pause(p) \/ Resume(p) \/ GoIdle(p) \/ Begin(p)
      PROVE  Stays
      BY <1>a, <1>1 DEF Poll, Pause, Resume, GoIdle, Begin
<1>2. ASSUME NEW p \in Proc, NEW u \in Turn, NEW front, state[u] = "none", Insert(p, u, front)
      PROVE  Stays
      BY <1>0, <1>a, <1>2 DEF Insert
<1>3. ASSUME NEW p \in Proc, NEW c \in Cmd, Submit(p, c) PROVE Stays
      BY <1>2, <1>3 DEF Submit, Turn
<1>4. ASSUME NEW p \in Proc, Claim(p) PROVE Stays
      BY <1>0, <1>a, <1>4 DEF Claim, Claimable, Queued
<1>5. ASSUME NEW p \in Proc, Finish(p) PROVE Stays
      BY <1>0, <1>5, FinishSafe
<1>6. ASSUME NEW p \in Proc, NEW u \in Turn, Stop(p, u) PROVE Stays
  <2>1. state[u] \in Active
        BY <1>6, SweepSafe DEF Inv, Stop
  <2>. QED BY <1>0, <1>6, <2>1 DEF Stop
<1>7. ASSUME NEW p \in Proc, NEW u \in Turn, Remove(p, u) PROVE Stays
      BY <1>0, <1>a, <1>7 DEF Remove
<1>8. ASSUME NEW p \in Proc, NEW u \in Turn, NEW n \in 0..Len(line), Move(p, u, n)
      PROVE  Stays
      BY <1>a, <1>8 DEF Move
<1>9. ASSUME NEW u \in Turn, Reconcile(u) PROVE Stays
      BY <1>0, <1>9 DEF Reconcile
<1>10. ASSUME NEW u \in Turn, NEW final, NEW why, EndDecision(u, final, why) PROVE Stays
      BY <1>0, <1>10 DEF EndDecision
<1>11. ASSUME NEW p \in Proc, NEW c \in Cmd, Resolve(p, c) PROVE Stays
      BY <1>10, <1>11 DEF Resolve, Turn
<1>12. ASSUME NEW p \in Proc, ResolveAccept(p) PROVE Stays
  <2>1. Heir(resolver[p].turn) \in Turn
        BY <1>0 DEF Resolver, Heir, Turn
  <2>. QED BY <1>2, <1>12, <1>a, <2>1 DEF ResolveAccept, rows
<1>13. ASSUME NEW p \in Proc, ResolveEnd(p) PROVE Stays
      BY <1>0, <1>10, <1>13 DEF ResolveEnd, Resolver
<1>14. ASSUME \/ Expire
              \/ \E p \in Proc : Die(p) \/ Save(p) \/ WorkerFails(p) \/ Heartbeat(p)
              \/ \E p \in Proc, r \in Outcomes : End(p, r)
              \/ \E g \in Guide : NoteSteer(g)
              \/ \E p \in Proc, g \in Guide : \/ SubmitGuide(p, g) \/ Take(p, g)
                                              \/ Steer(p, g) \/ Consume(p, g)
              \/ \E c \in Cmd, v \in {"approved", "rejected"} : Decide(c, v)
       PROVE  Stays
      BY <1>14 DEF rows, Expire, Die, Save, WorkerFails, Heartbeat, End, NoteSteer,
                   SubmitGuide, Take, Steer, Consume, Decide
<1>. HIDE DEF Stays
<1>15. Stays
      BY <1>1, <1>3, <1>4, <1>5, <1>6, <1>7, <1>8, <1>9, <1>11, <1>12, <1>13, <1>14,
         ZenonT(60) DEF Next
<1>. QED BY <1>15 DEF Stays

(* Only Begin starts to execute a turn, and no worker claims a turn that   *)
(* has been executed.                                                      *)
LEMMA StartsOnce ==
    ASSUME Inv, Next, NEW p \in Proc, NEW t \in Turn, Executing(p, t)', ~Executing(p, t)
    PROVE  did[t] = "none"
<1>. DEFINE Same == worker'[p].pc = "executing" => worker'[p] = worker[p]
<1>0. worker \in [Proc -> Worker]
      BY DEF Inv, Safe, SafeTypes
<1>1. ASSUME NEW r \in Proc, Begin(r) PROVE Same \/ did[t] = "none"
  <2>1. \/ worker'[p] = worker[p]
        \/ r = p /\ worker[p].pc = "claimed" /\ worker'[p].turn = worker[p].turn
        BY <1>0, <1>1 DEF Begin, Worker
  <2>2. worker'[p].turn = t
        BY DEF Executing
  <2>. QED BY <2>1, <2>2 DEF Inv, Safe, ClaimedIsUnrun
<1>2. ASSUME NEW r \in Proc, \/ Claim(r) \/ GoIdle(r) \/ Save(r) \/ Finish(r) \/ WorkerFails(r)
                             \/ Die(r) \/ \E x \in Outcomes : End(r, x)
      PROVE  Same
  <2>1. worker'[p] = worker[p] \/ worker'[p].pc # "executing"
    <3>1. CASE Claim(r) BY <1>0, <3>1 DEF Claim, Worker
    <3>2. CASE GoIdle(r) BY <1>0, <3>2 DEF GoIdle, Worker
    <3>3. CASE Save(r) BY <1>0, <3>3 DEF Save, Worker
    <3>4. CASE Finish(r) BY <1>0, <3>4 DEF Finish, NoWorker
    <3>5. CASE WorkerFails(r) \/ Die(r)
      <4>1. worker' = [worker EXCEPT ![r] = NoWorker]
            BY <3>5 DEF WorkerFails, Die
      <4>. QED BY <1>0, <4>1 DEF NoWorker
    <3>6. CASE \E x \in Outcomes : End(r, x) BY <1>0, <3>6 DEF End, Worker
    <3>. QED BY <1>2, <3>1, <3>2, <3>3, <3>4, <3>5, <3>6
  <2>. QED BY <2>1
<1>3. ASSUME NEW r \in Proc, worker' = Kicked(r) PROVE Same
      BY <1>0, <1>3 DEF Kicked, Worker
<1>4. ASSUME NEW r \in Proc, \/ Resume(r) \/ ResolveEnd(r) \/ \E c \in Cmd : Submit(r, c)
                             \/ \E g \in Guide : SubmitGuide(r, g)
      PROVE  Same
      BY <1>3, <1>4 DEF Resume, ResolveEnd, Submit, SubmitGuide
<1>5. ASSUME \/ Expire
             \/ \E r \in Proc : Poll(r) \/ Pause(r) \/ Heartbeat(r) \/ ResolveAccept(r)
             \/ \E r \in Proc, c \in Cmd : Resolve(r, c)
             \/ \E r \in Proc, u \in Turn : \/ Stop(r, u) \/ Remove(r, u)
                                            \/ \E n \in 0..Len(line) : Move(r, u, n)
             \/ \E g \in Guide : NoteSteer(g)
             \/ \E r \in Proc, g \in Guide : Take(r, g) \/ Steer(r, g) \/ Consume(r, g)
             \/ \E u \in Turn : Reconcile(u)
             \/ \E c \in Cmd, v \in {"approved", "rejected"} : Decide(c, v)
      PROVE  Same
  <2>1. worker' = worker
        BY <1>5 DEF threads, Expire, Poll, Pause, Heartbeat, ResolveAccept, Resolve, Stop,
                    Remove, Move, NoteSteer, Take, Steer, Consume, Reconcile, Decide
  <2>. QED BY <2>1
<1>6. ~Same
      BY DEF Executing
<1>. HIDE DEF Same
<1>. QED BY <1>1, <1>2, <1>4, <1>5, <1>6, ZenonT(60) DEF Next

(* What has been settled stays settled, and no turn is executed twice.     *)
THEOREM SettledForGood == Spec => SettledStays
<1>1. ASSUME Inv, [Next]_vars
      PROVE  [/\ \A t \in Turn : state[t] \in Final => state'[t] = state[t]
              /\ \A p \in Proc : \A t \in Turn :
                    Executing(p, t)' /\ ~Executing(p, t) => did[t] = "none"]_vars
      BY <1>1, FinalStays, StartsOnce
<1>. QED BY <1>1, InvariantHolds, PTL DEF Spec, SettledStays
=============================================================================
