-------------------- MODULE CommandQueueRecords_proofs ----------------------
(***************************************************************************)
(* More proofs about CommandQueue, for any commands, guides, processes,    *)
(* deaths and failures: what the records of the queue tell clients and the *)
(* operator is true, a stop and a restart are honoured, and no queued      *)
(* command is stranded.                                                    *)
(*                                                                         *)
(* They build on Inv of CommandQueue_proofs, and on Edge: however many     *)
(* processes and people act, a row only ever moves along these edges.      *)
(***************************************************************************)
EXTENDS CommandQueue_proofs, SequenceTheorems

USE DEF Unsaved, Fresh

Finished(p) == IF state[worker[p].turn] = "stopping" /\ worker[p].result # "unconfirmed"
               THEN "interrupted" ELSE worker[p].result

(* How the row of t may change in a step.                                  *)
Edge(t) ==
    \/ state'[t] = state[t]
    \/ /\ state[t] = "none" /\ state'[t] = "queued"
       /\ \/ t[2] = 0
          \/ \E p \in Proc : resolver[p].pc = "accept" /\ t = Heir(resolver[p].turn)
    \/ state[t] = "queued" /\ state'[t] \in {"running", "removed"}
    \/ state[t] \in Active /\ state'[t] = "unconfirmed"
    \/ state[t] \in Active /\ state'[t] = "stopping"
    \/ \E p \in Proc : /\ state[t] \in Active /\ worker[p].pc = "saved"
                       /\ worker[p].turn = t /\ state'[t] = Finished(p)
    \/ /\ state[t] = "unconfirmed" /\ outcome[t] \notin {"none", "unconfirmed"}
       /\ state'[t] = Reconciled(t)
    \/ /\ state[t] = "awaiting" /\ state'[t] = "succeeded"
       /\ \/ t[2] = 0 /\ state[Heir(t)] # "none"
          \/ \E p \in Proc : resolver[p].pc = "end" /\ resolver[p].turn = t
    \/ /\ state[t] = "awaiting" /\ state'[t] = "interrupted"
       /\ verdict[t[1]] = "rejected"

HeirsAreApproved ==
    \A c \in Cmd : state[<<c, 1>>] # "none" => verdict[c] = "approved"

ResolversAreApproved ==
    \A p \in Proc : resolver[p].pc # "none" =>
        /\ resolver[p].turn[2] = 0
        /\ verdict[resolver[p].turn[1]] = "approved"
        /\ resolver[p].pc = "end" => state[Heir(resolver[p].turn)] # "none"
        /\ resolver[p].pc = "accept" /\ state[Heir(resolver[p].turn)] = "none"
              => state[resolver[p].turn] = "awaiting"

Approvals == /\ verdict \in [Cmd -> {"none", "approved", "rejected"}]
             /\ HeirsAreApproved
             /\ ResolversAreApproved

WorkersKnow ==
    \A p \in Proc :
        /\ worker[p].pc = "executing" => did[worker[p].turn] = "begun"
        /\ worker[p].pc \in {"ended", "saved"} => did[worker[p].turn] = worker[p].result

OutcomesAreReal ==
    \A t \in Turn : outcome[t] # "none" => outcome[t] \in {did[t], "interrupted"}

AwaitingIsReal == \A t \in Turn : state[t] = "awaiting" => did[t] = "awaiting"

Records == WorkersKnow /\ OutcomesAreReal /\ AwaitingIsReal /\ SuccessIsReal

StopsAreKept ==
    /\ stopReq \in [Turn -> BOOLEAN]
    /\ \A t \in Turn : OwnStop(t) => state[t] \notin Fresh \union {"running"}

DeadAreGone == \A p \in dead : worker[p].pc = "none" /\ resolver[p].pc = "none"

-----------------------------------------------------------------------------
(* What the helpers leave of a row.                                        *)
LEMMA SweepMoves ==
    ASSUME Inv
    PROVE  /\ Swept \in [Turn -> States]
           /\ \A t \in Turn : \/ Swept[t] = state[t]
                              \/ state[t] \in Active /\ Swept[t] = "unconfirmed"
BY DEF Inv, Safe, SafeTypes, Swept, States, Outcomes, Active

LEMMA TurnFacts ==
    /\ \A t \in Turn : Heir(t) \in Turn /\ t[1] \in Cmd /\ t[2] \in {0, 1}
                       /\ (t[2] = 0 => t = <<t[1], 0>>)
    /\ \A c \in Cmd : /\ <<c, 0>> \in Turn /\ <<c, 1>> \in Turn
                      /\ Heir(<<c, 0>>) = <<c, 1>> /\ <<c, 0>> # <<c, 1>>
BY DEF Turn, Heir

LEMMA RowMoves ==
    ASSUME Inv, Next, NEW t \in Turn
    PROVE  Edge(t)
<1>0. /\ state \in [Turn -> States] /\ resolver \in [Proc -> Resolver]
      /\ worker \in [Proc -> Worker]
      /\ Swept \in [Turn -> States]
      /\ \/ Swept[t] = state[t]
         \/ state[t] \in Active /\ Swept[t] = "unconfirmed"
      BY SweepMoves DEF Inv, Safe, SafeTypes
<1>1. ASSUME state' = Swept \/ state' = state PROVE Edge(t)
      BY <1>0, <1>1 DEF Edge
<1>2. ASSUME NEW p \in Proc, NEW u \in Turn, NEW front, state[u] = "none", Insert(p, u, front),
             u[2] = 0 \/ (resolver[p].pc = "accept" /\ u = Heir(resolver[p].turn))
      PROVE  Edge(t)
  <2>1. state'[t] = IF t = u THEN "queued" ELSE Swept[t]
        BY <1>0, <1>2 DEF Insert
  <2>. QED BY <1>0, <1>2, <2>1 DEF Edge
<1>3. ASSUME NEW p \in Proc, NEW c \in Cmd, Submit(p, c) PROVE Edge(t)
  <2>1. <<c, 0>> \in Turn /\ <<c, 0>>[2] = 0
        BY DEF Turn
  <2>. QED BY <1>2, <1>3, <2>1 DEF Submit
<1>4. ASSUME NEW p \in Proc, Claim(p) PROVE Edge(t)
  <2>1. state[Head(line)] = "queued" /\ state' = [Swept EXCEPT ![Head(line)] = "running"]
        BY <1>4 DEF Claim, Claimable, Queued
  <2>. QED BY <1>0, <2>1 DEF Edge
<1>5. ASSUME NEW p \in Proc, Finish(p) PROVE Edge(t)
  <2>1. /\ worker[p].pc = "saved"
        /\ state' = state \/ state' = [state EXCEPT ![worker[p].turn] = Finished(p)]
        BY <1>5 DEF Finish, Finished
  <2>2. state'[t] = state[t] \/ state[t] \in Active
        BY <1>5, FinishSafe
  <2>3. state'[t] = state[t] \/ (worker[p].turn = t /\ state'[t] = Finished(p))
        BY <1>0, <2>1
  <2>. QED BY <2>1, <2>2, <2>3 DEF Edge
<1>6. ASSUME NEW p \in Proc, NEW u \in Turn, Stop(p, u) PROVE Edge(t)
  <2>1. state[u] \in Active
        BY <1>6, SweepSafe DEF Inv, Stop
  <2>. QED BY <1>0, <1>6, <2>1 DEF Stop, Edge
<1>7. ASSUME NEW p \in Proc, NEW u \in Turn, Remove(p, u) PROVE Edge(t)
      BY <1>0, <1>7 DEF Remove, Edge
<1>8. ASSUME NEW u \in Turn, Reconcile(u) PROVE Edge(t)
      BY <1>0, <1>8 DEF Reconcile, Edge
<1>9. ASSUME NEW p \in Proc, NEW c \in Cmd, Resolve(p, c) PROVE Edge(t)
  <2>1. /\ <<c, 0>>[1] = c /\ <<c, 0>>[2] = 0
        BY DEF Turn
  <2>. QED BY <1>0, <1>9, <2>1 DEF Resolve, EndDecision, Edge
<1>10. ASSUME NEW p \in Proc, ResolveAccept(p) PROVE Edge(t)
  <2>1. Heir(resolver[p].turn) \in Turn
        BY <1>0, TurnFacts DEF Resolver
  <2>. QED BY <1>1, <1>2, <1>10, <2>1 DEF ResolveAccept, rows
<1>11. ASSUME NEW p \in Proc, ResolveEnd(p) PROVE Edge(t)
      BY <1>0, <1>11 DEF ResolveEnd, EndDecision, Edge
<1>12. ASSUME \/ Expire
              \/ \E p \in Proc : \/ Poll(p) \/ Pause(p) \/ Resume(p) \/ Die(p) \/ GoIdle(p)
                                 \/ Begin(p) \/ Save(p) \/ WorkerFails(p) \/ Heartbeat(p)
              \/ \E p \in Proc, u \in Turn : \E n \in 0..Len(line) : Move(p, u, n)
              \/ \E p \in Proc, r \in Outcomes : End(p, r)
              \/ \E p \in Proc, g \in Guide : \/ SubmitGuide(p, g) \/ Take(p, g)
                                              \/ Steer(p, g) \/ Consume(p, g)
              \/ \E g \in Guide : NoteSteer(g)
              \/ \E c \in Cmd, v \in {"approved", "rejected"} : Decide(c, v)
       PROVE  Edge(t)
  <2>1. state' = Swept \/ state' = state
        BY <1>12 DEF rows, Expire, Poll, Pause, Resume, Die, GoIdle, Begin, Save, WorkerFails,
                     Heartbeat, Move, End, SubmitGuide, Take, Steer, Consume, NoteSteer, Decide
  <2>. QED BY <1>1, <2>1
<1>. QED BY <1>3, <1>4, <1>5, <1>6, <1>7, <1>8, <1>9, <1>10, <1>11, <1>12, ZenonT(60) DEF Next

-----------------------------------------------------------------------------
(* An approval that continues a turn was given.                            *)
LEMMA VerdictsStay ==
    ASSUME Next, Approvals
    PROVE  /\ verdict' \in [Cmd -> {"none", "approved", "rejected"}]
           /\ \A c \in Cmd : verdict[c] # "none" => verdict'[c] = verdict[c]
<1>1. ASSUME NEW c \in Cmd, NEW v \in {"approved", "rejected"}, Decide(c, v)
      PROVE  /\ verdict' \in [Cmd -> {"none", "approved", "rejected"}]
             /\ \A d \in Cmd : verdict[d] # "none" => verdict'[d] = verdict[d]
      BY <1>1 DEF Decide, Approvals
<1>2. ASSUME \/ Expire
             \/ \E p \in Proc : \/ Poll(p) \/ Pause(p) \/ Resume(p) \/ Die(p) \/ GoIdle(p)
                                \/ Claim(p) \/ Begin(p) \/ Save(p) \/ Finish(p)
                                \/ WorkerFails(p) \/ Heartbeat(p) \/ ResolveAccept(p)
                                \/ ResolveEnd(p)
             \/ \E p \in Proc, r \in Outcomes : End(p, r)
             \/ \E p \in Proc, c \in Cmd : Submit(p, c) \/ Resolve(p, c)
             \/ \E p \in Proc, t \in Turn : \/ Stop(p, t) \/ Remove(p, t)
                                            \/ \E n \in 0..Len(line) : Move(p, t, n)
             \/ \E p \in Proc, g \in Guide : \/ SubmitGuide(p, g) \/ Take(p, g)
                                             \/ Steer(p, g) \/ Consume(p, g)
             \/ \E g \in Guide : NoteSteer(g)
             \/ \E t \in Turn : Reconcile(t)
      PROVE  verdict' = verdict
      BY <1>2 DEF Expire, Poll, Pause, Resume, Die, GoIdle, Claim, Begin, Save, Finish,
                  WorkerFails, Heartbeat, ResolveAccept, ResolveEnd, End, Submit, Resolve,
                  Stop, Remove, Move, SubmitGuide, Take, Steer, Consume, NoteSteer, Reconcile
<1>3. verdict' = verdict \/ \E c \in Cmd, v \in {"approved", "rejected"} : Decide(c, v)
      BY <1>2, ZenonT(60) DEF Next
<1>. QED BY <1>1, <1>3 DEF Approvals

(* What a callback holds changes only by its own steps and its death.      *)
LEMMA ResolverMoves ==
    ASSUME Inv, Next, NEW p \in Proc
    PROVE  \/ resolver'[p] = resolver[p]
           \/ resolver'[p].pc = "none"
           \/ \E c \in Cmd : Resolve(p, c)
           \/ ResolveAccept(p)
<1>0. resolver \in [Proc -> Resolver]
      BY DEF Inv
<1>. DEFINE Moves == \/ resolver'[p] = resolver[p]
                     \/ resolver'[p].pc = "none"
                     \/ \E c \in Cmd : Resolve(p, c)
                     \/ ResolveAccept(p)
<1>1. ASSUME NEW r \in Proc, Die(r) PROVE Moves
      BY <1>0, <1>1 DEF Die, NoResolver
<1>2. ASSUME NEW r \in Proc, ResolveEnd(r) PROVE Moves
      BY <1>0, <1>2 DEF ResolveEnd, NoResolver
<1>3. ASSUME NEW r \in Proc, ResolveAccept(r) PROVE Moves
      BY <1>0, <1>3 DEF ResolveAccept, rows
<1>4. ASSUME NEW r \in Proc, NEW c \in Cmd, Resolve(r, c) PROVE Moves
      BY <1>0, <1>4 DEF Resolve
<1>5. ASSUME \/ Expire
             \/ \E r \in Proc : \/ Poll(r) \/ Pause(r) \/ Resume(r) \/ GoIdle(r)
                                \/ Claim(r) \/ Begin(r) \/ Save(r) \/ Finish(r)
                                \/ WorkerFails(r) \/ Heartbeat(r)
             \/ \E r \in Proc, o \in Outcomes : End(r, o)
             \/ \E r \in Proc, c \in Cmd : Submit(r, c)
             \/ \E r \in Proc, t \in Turn : \/ Stop(r, t) \/ Remove(r, t)
                                            \/ \E n \in 0..Len(line) : Move(r, t, n)
             \/ \E r \in Proc, g \in Guide : \/ SubmitGuide(r, g) \/ Take(r, g)
                                             \/ Steer(r, g) \/ Consume(r, g)
             \/ \E g \in Guide : NoteSteer(g)
             \/ \E t \in Turn : Reconcile(t)
             \/ \E c \in Cmd, v \in {"approved", "rejected"} : Decide(c, v)
      PROVE  resolver' = resolver
      BY <1>5 DEF threads, Expire, Poll, Pause, Resume, GoIdle, Claim, Begin, Save, Finish,
                  WorkerFails, Heartbeat, End, Submit, Stop, Remove, Move, SubmitGuide, Take,
                  Steer, Consume, NoteSteer, Reconcile, Decide
<1>6. resolver' = resolver => Moves
      OBVIOUS
<1>. HIDE DEF Moves
<1>7. Moves
      BY <1>1, <1>2, <1>3, <1>4, <1>5, <1>6, ZenonT(60) DEF Next
<1>. QED BY <1>7 DEF Moves

(* A row that exists never goes.                                           *)
LEMMA RowsStay ==
    ASSUME Inv, Next, NEW t \in Turn, state[t] # "none"
    PROVE  state'[t] # "none"
<1>1. \A p \in Proc : worker[p].result \in Outcomes
      BY DEF Inv, Safe, SafeTypes, Worker
<1>2. outcome[t] \in Outcomes \union {"none"}
      BY DEF Inv, Safe, SafeTypes
<1>. QED BY <1>1, <1>2, RowMoves DEF Edge, Finished, Reconciled, Outcomes

LEMMA ApprovalsStep ==
    ASSUME Inv, Next, Approvals
    PROVE  Approvals'
<1>0. /\ verdict' \in [Cmd -> {"none", "approved", "rejected"}]
      /\ \A c \in Cmd : verdict[c] # "none" => verdict'[c] = verdict[c]
      /\ \A p \in Proc : resolver[p] \in Resolver
      BY VerdictsStay DEF Inv
<1>1. HeirsAreApproved'
  <2>. SUFFICES ASSUME NEW c \in Cmd, state'[<<c, 1>>] # "none"
                PROVE  verdict'[c] = "approved"
       BY DEF HeirsAreApproved
  <2>1. CASE state[<<c, 1>>] # "none"
        BY <1>0, <2>1 DEF Approvals, HeirsAreApproved
  <2>2. CASE state[<<c, 1>>] = "none"
    <3>1. Edge(<<c, 1>>) /\ <<c, 1>> \in Turn
          BY RowMoves, TurnFacts
    <3>2. PICK p \in Proc : resolver[p].pc = "accept" /\ <<c, 1>> = Heir(resolver[p].turn)
          BY <2>2, <3>1 DEF Edge, Active
    <3>3. resolver[p].turn[1] = c
          BY <3>2 DEF Heir
    <3>. QED BY <1>0, <3>2, <3>3 DEF Approvals, ResolversAreApproved
  <2>. QED BY <2>1, <2>2
<1>2. ASSUME NEW p \in Proc, resolver'[p].pc # "none"
      PROVE  /\ resolver'[p].turn[2] = 0
             /\ verdict'[resolver'[p].turn[1]] = "approved"
             /\ resolver'[p].pc = "end" => state'[Heir(resolver'[p].turn)] # "none"
             /\ resolver'[p].pc = "accept" /\ state'[Heir(resolver'[p].turn)] = "none"
                   => state'[resolver'[p].turn] = "awaiting"
  <2>1. CASE resolver'[p] = resolver[p]
    <3>. DEFINE t == resolver[p].turn
    <3>1. /\ t \in Turn /\ Heir(t) \in Turn /\ t[1] \in Cmd
          /\ resolver[p].pc # "none"
          BY <1>0, <1>2, <2>1, TurnFacts DEF Resolver
    <3>2. /\ t[2] = 0 /\ verdict[t[1]] = "approved"
          /\ resolver[p].pc = "end" => state[Heir(t)] # "none"
          /\ resolver[p].pc = "accept" /\ state[Heir(t)] = "none" => state[t] = "awaiting"
          BY <3>1 DEF Approvals, ResolversAreApproved
    <3>3. verdict'[t[1]] = "approved"
          BY <1>0, <3>1, <3>2
    <3>4. state[Heir(t)] # "none" => state'[Heir(t)] # "none"
          BY <3>1, RowsStay
    <3>5. ASSUME resolver[p].pc = "accept", state'[Heir(t)] = "none"
          PROVE  state'[t] = "awaiting"
      <4>1. state[Heir(t)] = "none" /\ state[t] = "awaiting"
            BY <3>2, <3>4, <3>5
      <4>2. \A r \in Proc : resolver[r].pc = "end" => resolver[r].turn # t
            BY <4>1 DEF Approvals, ResolversAreApproved
      <4>. QED BY <3>1, <3>2, <4>1, <4>2, RowMoves DEF Edge, Active
    <3>. QED BY <2>1, <3>2, <3>3, <3>4, <3>5
  <2>2. ASSUME NEW c \in Cmd, Resolve(p, c), resolver'[p] # resolver[p]
        PROVE  /\ resolver'[p] = [pc |-> "accept", turn |-> <<c, 0>>]
               /\ state'[<<c, 0>>] = "awaiting" /\ verdict'[c] = "approved"
        BY <2>2, <1>0 DEF Resolve, Inv
  <2>3. ASSUME NEW c \in Cmd, resolver'[p] = [pc |-> "accept", turn |-> <<c, 0>>],
               state'[<<c, 0>>] = "awaiting", verdict'[c] = "approved"
        PROVE  /\ resolver'[p].turn[2] = 0
               /\ verdict'[resolver'[p].turn[1]] = "approved"
               /\ resolver'[p].pc # "end"
               /\ state'[resolver'[p].turn] = "awaiting"
        BY <2>3
  <2>4. CASE ResolveAccept(p)
    <3>. DEFINE t == resolver[p].turn
    <3>1. /\ t \in Turn /\ Heir(t) \in Turn /\ t[1] \in Cmd
          /\ resolver[p].pc = "accept"
          BY <1>0, <2>4, TurnFacts DEF Resolver, ResolveAccept
    <3>2. t[2] = 0 /\ verdict'[t[1]] = "approved"
          BY <1>0, <3>1 DEF Approvals, ResolversAreApproved
    <3>3. resolver'[p].turn = t /\ resolver'[p].pc = "end"
      <4>1. \/ resolver' = [resolver EXCEPT ![p].pc = "end"]
            \/ resolver' = [resolver EXCEPT ![p] = NoResolver]
            BY <2>4 DEF ResolveAccept
      <4>. QED BY <1>2, <4>1 DEF Inv, Resolver, NoResolver
    <3>4. state'[Heir(t)] # "none"
      <4>1. CASE state[Heir(t)] # "none"
            BY <3>1, <4>1, RowsStay
      <4>2. CASE state[Heir(t)] = "none" /\ Insert(p, Heir(t), TRUE)
            BY <3>1, <4>2, SweepMoves DEF Insert
      <4>3. CASE resolver' = [resolver EXCEPT ![p] = NoResolver]
            BY <1>2, <4>3 DEF NoResolver, Inv
      <4>4. \/ state[Heir(t)] # "none"
            \/ state[Heir(t)] = "none" /\ Insert(p, Heir(t), TRUE)
            \/ resolver' = [resolver EXCEPT ![p] = NoResolver]
            BY <2>4 DEF ResolveAccept
      <4>. QED BY <4>1, <4>2, <4>3, <4>4
    <3>. QED BY <3>2, <3>3, <3>4
  <2>. QED BY <1>2, <2>1, <2>2, <2>3, <2>4, ResolverMoves
<1>3. ResolversAreApproved'
      BY <1>2 DEF ResolversAreApproved
<1>. QED BY <1>0, <1>1, <1>3 DEF Approvals

-----------------------------------------------------------------------------
(* What a worker knows of its turn, and what is recorded of it, is what    *)
(* executing the turn came to.                                             *)
LEMMA WorkersKnowStep ==
    ASSUME Inv, Next, WorkersKnow, OutcomesAreReal
    PROVE  /\ WorkersKnow' /\ OutcomesAreReal'
           /\ \A t \in Turn : \/ did'[t] = did[t]
                              \/ /\ did[t] \in {"none", "begun"} /\ outcome[t] = "none"
                                 /\ state[t] \in Active \union {"unconfirmed"}
<1>. DEFINE Known == /\ WorkersKnow' /\ OutcomesAreReal'
                     /\ \A t \in Turn : \/ did'[t] = did[t]
                                        \/ /\ did[t] \in {"none", "begun"}
                                           /\ outcome[t] = "none"
                                           /\ state[t] \in Active \union {"unconfirmed"}
<1>0. /\ worker \in [Proc -> Worker]
      /\ outcome \in [Turn -> Outcomes \union {"none"}]
      /\ did \in [Turn -> Outcomes \union {"none", "begun"}]
      /\ \A p \in Proc : worker[p].turn \in Turn /\ worker[p].result \in Outcomes
      /\ \A p, r \in Proc : worker[p].pc \in Unsaved /\ worker[r].pc \in Unsaved => p = r
      /\ \A p \in Proc : worker[p].pc \in Unsaved =>
            /\ outcome[worker[p].turn] = "none"
            /\ state[worker[p].turn] \in Active \union {"unconfirmed"}
      /\ \A p \in Proc : worker[p].pc = "claimed" => did[worker[p].turn] = "none"
      BY DEF Inv, Safe, SafeTypes, Worker, OneUnsaved, HeldOrUnconfirmed, ClaimedIsUnrun
<1>1. ASSUME did' = did, outcome' = outcome,
             \A r \in Proc : worker'[r] = worker[r] \/ worker'[r].pc \in {"none", "idle", "claimed"}
      PROVE  Known
      BY <1>0, <1>1 DEF WorkersKnow, OutcomesAreReal
<1>2. ASSUME NEW p \in Proc, worker[p].pc \in Unsaved, outcome' = outcome,
             \A r \in Proc : r # p => worker'[r] = worker[r],
             worker'[p].turn = worker[p].turn,
             \/ worker'[p].pc = "executing" /\ did'[worker[p].turn] = "begun"
             \/ worker'[p].pc = "ended" /\ did'[worker[p].turn] = worker'[p].result,
             \A t \in Turn : t # worker[p].turn => did'[t] = did[t],
             did[worker[p].turn] \in {"none", "begun"}
      PROVE  Known
  <2>1. ASSUME NEW r \in Proc, r # p, worker[r].pc \in {"executing", "ended", "saved"}
        PROVE  worker[r].turn # worker[p].turn
    <3>1. worker[r].pc = "saved"
          BY <1>0, <1>2, <2>1
    <3>2. did[worker[r].turn] = worker[r].result
          BY <3>1 DEF WorkersKnow
    <3>. QED BY <1>0, <1>2, <3>2 DEF Outcomes
  <2>2. WorkersKnow'
        BY <1>0, <1>2, <2>1 DEF WorkersKnow
  <2>3. OutcomesAreReal'
        BY <1>0, <1>2 DEF OutcomesAreReal
  <2>. QED BY <1>0, <1>2, <2>2, <2>3
<1>3. ASSUME NEW p \in Proc, Begin(p) PROVE Known
  <2>1. /\ worker[p].pc = "claimed" /\ outcome' = outcome
        /\ \A r \in Proc : r # p => worker'[r] = worker[r]
        /\ worker'[p].turn = worker[p].turn
        /\ \/ worker'[p].pc = "executing" /\ did'[worker[p].turn] = "begun"
           \/ worker'[p].pc = "ended" /\ did'[worker[p].turn] = worker'[p].result
        /\ \A t \in Turn : t # worker[p].turn => did'[t] = did[t]
        BY <1>0, <1>3 DEF Begin, Worker
  <2>2. worker[p].pc \in Unsaved /\ did[worker[p].turn] \in {"none", "begun"}
        BY <1>0, <2>1
  <2>. QED BY <1>2, <2>1, <2>2
<1>4. ASSUME NEW p \in Proc, NEW result \in Outcomes, End(p, result) PROVE Known
  <2>1. /\ worker[p].pc = "executing" /\ outcome' = outcome
        /\ \A r \in Proc : r # p => worker'[r] = worker[r]
        /\ worker'[p].turn = worker[p].turn
        /\ worker'[p].pc = "ended" /\ did'[worker[p].turn] = worker'[p].result
        /\ \A t \in Turn : t # worker[p].turn => did'[t] = did[t]
        BY <1>0, <1>4 DEF End, Worker
  <2>2. worker[p].pc \in Unsaved /\ did[worker[p].turn] \in {"none", "begun"}
        BY <2>1 DEF WorkersKnow
  <2>. QED BY <1>2, <2>1, <2>2
<1>5. ASSUME NEW p \in Proc, Save(p) PROVE Known
  <2>. DEFINE t == worker[p].turn
  <2>1. /\ worker[p].pc = "ended" /\ did' = did
        /\ \A r \in Proc : r # p => worker'[r] = worker[r]
        /\ worker'[p].turn = t /\ worker'[p].result = worker[p].result
        /\ worker'[p].pc = "saved"
        BY <1>0, <1>5 DEF Save, past, Worker
  <2>2. WorkersKnow'
        BY <2>1 DEF WorkersKnow
  <2>3. /\ outcome'[t] \in {worker[p].result, "interrupted"}
        /\ \A u \in Turn : u # t => outcome'[u] = outcome[u]
        BY <1>0, <1>5, <2>1 DEF Save
  <2>4. did[t] = worker[p].result
        BY <2>1 DEF WorkersKnow
  <2>5. OutcomesAreReal'
        BY <2>1, <2>3, <2>4 DEF OutcomesAreReal
  <2>. QED BY <2>1, <2>2, <2>5
<1>6. ASSUME NEW p \in Proc, \/ worker' = Kicked(p) \/ Claim(p) \/ GoIdle(p) \/ Finish(p)
                             \/ WorkerFails(p) \/ Die(p)
      PROVE  \A r \in Proc : worker'[r] = worker[r] \/ worker'[r].pc \in {"none", "idle", "claimed"}
  <2>1. CASE worker' = Kicked(p) BY <1>0, <2>1 DEF Kicked, Worker
  <2>2. CASE Claim(p) BY <1>0, <2>2 DEF Claim, Worker
  <2>3. CASE GoIdle(p) BY <1>0, <2>3 DEF GoIdle, Worker
  <2>4. CASE Finish(p) BY <1>0, <2>4 DEF Finish, NoWorker
  <2>5. CASE WorkerFails(p) \/ Die(p)
    <3>1. worker' = [worker EXCEPT ![p] = NoWorker]
          BY <2>5 DEF WorkerFails, Die
    <3>. QED BY <1>0, <3>1 DEF NoWorker
  <2>. QED BY <1>6, <2>1, <2>2, <2>3, <2>4, <2>5
<1>7. ASSUME NEW p \in Proc, \/ Claim(p) \/ GoIdle(p) \/ Finish(p) \/ WorkerFails(p) \/ Die(p)
                             \/ Resume(p) \/ ResolveEnd(p) \/ \E c \in Cmd : Submit(p, c)
                             \/ \E g \in Guide : SubmitGuide(p, g)
      PROVE  Known
  <2>1. did' = did /\ outcome' = outcome
        BY <1>7 DEF past, Claim, GoIdle, Finish, WorkerFails, Die, Resume, ResolveEnd, Submit,
                    SubmitGuide
  <2>2. \/ worker' = Kicked(p) \/ Claim(p) \/ GoIdle(p) \/ Finish(p) \/ WorkerFails(p)
        \/ Die(p)
        BY <1>7 DEF Resume, ResolveEnd, Submit, SubmitGuide
  <2>. HIDE DEF Known
  <2>. QED BY <1>1, <1>6, <2>1, <2>2
<1>8. ASSUME \/ Expire
             \/ \E p \in Proc : Poll(p) \/ Pause(p) \/ Heartbeat(p) \/ ResolveAccept(p)
             \/ \E p \in Proc, c \in Cmd : Resolve(p, c)
             \/ \E p \in Proc, t \in Turn : \/ Stop(p, t) \/ Remove(p, t)
                                            \/ \E n \in 0..Len(line) : Move(p, t, n)
             \/ \E g \in Guide : NoteSteer(g)
             \/ \E p \in Proc, g \in Guide : Take(p, g) \/ Steer(p, g) \/ Consume(p, g)
             \/ \E t \in Turn : Reconcile(t)
             \/ \E c \in Cmd, v \in {"approved", "rejected"} : Decide(c, v)
      PROVE  Known
  <2>1. did' = did /\ outcome' = outcome /\ worker' = worker
        BY <1>8 DEF past, threads, Expire, Poll, Pause, Heartbeat, ResolveAccept, Resolve, Stop,
                    Remove, Move, NoteSteer, Take, Steer, Consume, Reconcile, Decide
  <2>. HIDE DEF Known
  <2>. QED BY <1>1, <2>1
<1>. HIDE DEF Known
<1>9. Known
      BY <1>3, <1>4, <1>5, <1>7, <1>8, ZenonT(60) DEF Next
<1>. QED BY <1>9 DEF Known

LEMMA RecordsStep ==
    ASSUME Inv, Next, Approvals, Records
    PROVE  Records'
<1>0. /\ WorkersKnow' /\ OutcomesAreReal'
      /\ \A t \in Turn : \/ did'[t] = did[t]
                         \/ /\ did[t] \in {"none", "begun"} /\ outcome[t] = "none"
                            /\ state[t] \in Active \union {"unconfirmed"}
      BY WorkersKnowStep DEF Records
<1>1. \A p \in Proc : /\ worker[p].pc = "saved" => did[worker[p].turn] = worker[p].result
                      /\ worker[p].result \in Outcomes /\ worker[p].turn \in Turn
      BY DEF Records, WorkersKnow, Inv, Safe, SafeTypes, Worker
<1>2. ASSUME NEW t \in Turn, state'[t] \in {"awaiting", "succeeded"}, state'[t] # state[t]
      PROVE  /\ did'[t] = did[t]
             /\ \/ did[t] = state'[t]
                \/ /\ did[t] = "awaiting" /\ state'[t] = "succeeded"
                   /\ verdict[t[1]] = "approved" /\ state[Heir(t)] # "none"
  <2>1. Edge(t)
        BY RowMoves
  <2>2. ASSUME NEW p \in Proc, worker[p].pc = "saved", worker[p].turn = t,
               state'[t] = Finished(p)
        PROVE  did'[t] = did[t] /\ did[t] = state'[t]
    <3>1. did[t] = worker[p].result /\ worker[p].result \in Outcomes
          BY <1>1, <2>2
    <3>2. state'[t] = worker[p].result
          BY <1>2, <2>2 DEF Finished
    <3>. QED BY <1>0, <3>1, <3>2 DEF Outcomes
  <2>3. ASSUME outcome[t] \notin {"none", "unconfirmed"}, state'[t] = Reconciled(t)
        PROVE  did'[t] = did[t] /\ did[t] = state'[t]
        BY <1>0, <1>2, <2>3 DEF Reconciled, Records, OutcomesAreReal
  <2>4. ASSUME state[t] = "awaiting", state'[t] = "succeeded",
               \/ t[2] = 0 /\ state[Heir(t)] # "none"
               \/ \E p \in Proc : resolver[p].pc = "end" /\ resolver[p].turn = t
        PROVE  /\ did'[t] = did[t] /\ did[t] = "awaiting"
               /\ verdict[t[1]] = "approved" /\ state[Heir(t)] # "none"
    <3>1. did'[t] = did[t] /\ did[t] = "awaiting"
          BY <1>0, <2>4 DEF Records, AwaitingIsReal, Active
    <3>2. CASE t[2] = 0 /\ state[Heir(t)] # "none"
      <4>1. t[1] \in Cmd /\ Heir(t) = <<t[1], 1>>
            BY TurnFacts DEF Heir
      <4>. QED BY <3>1, <3>2, <4>1 DEF Approvals, HeirsAreApproved
    <3>3. CASE \E p \in Proc : resolver[p].pc = "end" /\ resolver[p].turn = t
          BY <3>1, <3>3 DEF Approvals, ResolversAreApproved
    <3>. QED BY <2>4, <3>2, <3>3
  <2>. QED BY <1>2, <2>1, <2>2, <2>3, <2>4 DEF Edge, Active
<1>3. AwaitingIsReal'
  <2>. SUFFICES ASSUME NEW t \in Turn, state'[t] = "awaiting" PROVE did'[t] = "awaiting"
       BY DEF AwaitingIsReal
  <2>. QED BY <1>0, <1>2 DEF Records, AwaitingIsReal, Active
<1>4. SuccessIsReal'
  <2>. SUFFICES ASSUME NEW t \in Turn, state'[t] = "succeeded"
                PROVE  \/ did'[t] = "succeeded"
                       \/ /\ did'[t] = "awaiting" /\ verdict'[t[1]] = "approved"
                          /\ state'[Heir(t)] # "none"
       BY DEF SuccessIsReal
  <2>1. \/ did'[t] = "succeeded"
        \/ did'[t] = "awaiting" /\ verdict[t[1]] = "approved" /\ state[Heir(t)] # "none"
    <3>1. CASE state[t] = "succeeded"
          BY <1>0, <3>1 DEF Records, SuccessIsReal, Active
    <3>2. CASE state[t] # "succeeded"
          BY <1>2, <3>2
    <3>. QED BY <3>1, <3>2
  <2>2. t[1] \in Cmd /\ Heir(t) \in Turn
        BY TurnFacts
  <2>. QED BY <2>1, <2>2, VerdictsStay, RowsStay
<1>. QED BY <1>0, <1>3, <1>4 DEF Records

-----------------------------------------------------------------------------
(* A stop is kept with the turn it was sent to, which can then neither     *)
(* start nor succeed.                                                      *)
LEMMA StopRequestsMove ==
    ASSUME Inv, Next, Approvals, StopsAreKept
    PROVE  /\ stopReq' \in [Turn -> BOOLEAN]
           /\ \A t \in Turn : OwnStop(t)' => state'[t] = "stopping" \/ OwnStop(t)
<1>. DEFINE Kept == /\ stopReq' \in [Turn -> BOOLEAN]
                    /\ \A t \in Turn :
                          OwnStop(t)' => state'[t] = "stopping" \/ OwnStop(t)
<1>0. /\ state \in [Turn -> States] /\ stopReq \in [Turn -> BOOLEAN]
      BY DEF Inv, Safe, SafeTypes, StopsAreKept
<1>1. ASSUME NEW p \in Proc, NEW t \in Turn, Stop(p, t) PROVE Kept
  <2>1. /\ stopReq' = [stopReq EXCEPT ![t] = TRUE]
        /\ state' = [state EXCEPT ![t] = "stopping"]
        BY <1>1 DEF Stop
  <2>2. stopReq' \in [Turn -> BOOLEAN]
        BY <1>0, <2>1, Zenon
  <2>3. state'[t] = "stopping"
        BY <1>0, <2>1
  <2>4. \A u \in Turn : <<u[1], 0>> \in Turn
        BY DEF Turn
  <2>5. ASSUME NEW u \in Turn, u # t, OwnStop(u)' PROVE OwnStop(u)
    <3>1. stopReq'[u] /\ stopReq[u]
          BY <1>0, <2>1, <2>5 DEF OwnStop
    <3>2. stopReq[<<u[1], 0>>] => stopReq'[<<u[1], 0>>]
          BY <1>0, <2>1, <2>4
    <3>. QED BY <2>5, <3>1, <3>2 DEF OwnStop
  <2>6. ASSUME NEW u \in Turn, OwnStop(u)'
        PROVE  state'[u] = "stopping" \/ OwnStop(u)
    <3>1. CASE u = t
          BY <2>3, <3>1
    <3>2. CASE u # t
          BY <2>5, <2>6, <3>2
    <3>. QED BY <3>1, <3>2
  <2>. QED BY <2>2, <2>6
<1>2. ASSUME NEW p \in Proc, ResolveAccept(p) PROVE Kept
  <2>1. PICK t \in Turn : t = resolver[p].turn /\ t[2] = 0
        BY <1>2 DEF ResolveAccept, Inv, Resolver, Approvals, ResolversAreApproved
  <2>2. PICK h \in Turn : /\ h = Heir(t) /\ h[2] = 1 /\ h # t
                          /\ <<h[1], 0>> = t
    <3>1. PICK c \in Cmd : t = <<c, 0>>
          BY <2>1 DEF Turn
    <3>2. <<c, 1>> \in Turn /\ Heir(t) = <<c, 1>>
          BY <3>1 DEF Turn, Heir
    <3>. QED BY <3>1, <3>2
  <2>3. \A u \in Turn : <<u[1], 0>> \in Turn /\ <<u[1], 0>> # h
        BY <2>2 DEF Turn, Heir
  <2>4. \/ stopReq' = stopReq
        \/ stopReq' = [stopReq EXCEPT ![h] = stopReq[t]]
        BY <1>2, <2>1, <2>2 DEF ResolveAccept, rows
  <2>5. CASE stopReq' = stopReq
        BY <1>0, <2>5 DEF OwnStop
  <2>6. CASE stopReq' = [stopReq EXCEPT ![h] = stopReq[t]]
    <3>1. stopReq[t] \in BOOLEAN
          BY <1>0, <2>1
    <3>2. stopReq' \in [Turn -> BOOLEAN]
          BY <1>0, <2>6, <3>1, Zenon
    <3>3. /\ (stopReq'[h] <=> stopReq[t]) /\ (stopReq'[t] <=> stopReq[t])
          /\ \A u \in Turn : u # h => (stopReq'[u] <=> stopReq[u])
          BY <1>0, <2>2, <2>6
    <3>4. ~OwnStop(h)'
          BY <2>2, <3>3 DEF OwnStop
    <3>5. ASSUME NEW u \in Turn, u # h, OwnStop(u)' PROVE OwnStop(u)
          BY <2>3, <3>3, <3>5 DEF OwnStop
    <3>. QED BY <3>2, <3>4, <3>5
  <2>. QED BY <2>4, <2>5, <2>6
<1>3. ASSUME \/ Expire
             \/ \E p \in Proc : \/ Poll(p) \/ Pause(p) \/ Resume(p) \/ Die(p) \/ GoIdle(p)
                                \/ Claim(p) \/ Begin(p) \/ Save(p) \/ Finish(p)
                                \/ WorkerFails(p) \/ Heartbeat(p) \/ ResolveEnd(p)
             \/ \E p \in Proc, r \in Outcomes : End(p, r)
             \/ \E p \in Proc, c \in Cmd : Submit(p, c) \/ Resolve(p, c)
             \/ \E p \in Proc, t \in Turn : Remove(p, t) \/ \E n \in 0..Len(line) : Move(p, t, n)
             \/ \E p \in Proc, g \in Guide : \/ SubmitGuide(p, g) \/ Take(p, g)
                                             \/ Steer(p, g) \/ Consume(p, g)
             \/ \E g \in Guide : NoteSteer(g)
             \/ \E t \in Turn : Reconcile(t)
             \/ \E c \in Cmd, v \in {"approved", "rejected"} : Decide(c, v)
      PROVE  stopReq' = stopReq
      BY <1>3 DEF rows, Expire, Poll, Pause, Resume, Die, GoIdle, Claim, Begin, Save, Finish,
                  WorkerFails, Heartbeat, ResolveEnd, End, Submit, Resolve, Remove, Move,
                  SubmitGuide, Take, Steer, Consume, NoteSteer, Reconcile, Decide
<1>4. stopReq' = stopReq => Kept
      BY <1>0 DEF OwnStop
<1>. HIDE DEF Kept
<1>5. Kept
      BY <1>1, <1>2, <1>3, <1>4, ZenonT(60) DEF Next
<1>. QED BY <1>5 DEF Kept

LEMMA StopsStep ==
    ASSUME Inv, Next, Approvals, Records, StopsAreKept, StopWins
    PROVE  StopsAreKept' /\ StopWins'
<1>1. /\ stopReq' \in [Turn -> BOOLEAN]
      /\ \A t \in Turn : OwnStop(t)' => state'[t] = "stopping" \/ OwnStop(t)
      BY StopRequestsMove
<1>2. \A p \in Proc : worker[p].result \in Outcomes
      BY DEF Inv, Safe, SafeTypes, Worker
<1>3. ASSUME NEW t \in Turn, OwnStop(t)'
      PROVE  /\ state'[t] \notin Fresh \union {"running"}
             /\ did'[t] # "awaiting" => state'[t] # "succeeded"
  <2>1. Edge(t) /\ outcome[t] \in Outcomes \union {"none"}
        BY RowMoves DEF Inv, Safe, SafeTypes
  <2>2. CASE state'[t] = "stopping"
        BY <2>2
  <2>3. CASE OwnStop(t)
    <3>1. stopReq[t] /\ state[t] \notin Fresh \union {"running"}
          BY <2>3 DEF StopsAreKept, OwnStop
    <3>2. state'[t] \notin Fresh \union {"running"}
          BY <1>2, <2>1, <3>1 DEF Edge, Finished, Reconciled, Outcomes, Active
    <3>3. ASSUME state'[t] = "succeeded" PROVE did'[t] = "awaiting"
      <4>1. \/ did'[t] = did[t]
            \/ outcome[t] = "none" /\ state[t] \in Active \union {"unconfirmed"}
            BY <2>1, WorkersKnowStep DEF Records
      <4>2. CASE state[t] = "succeeded"
            BY <2>3, <4>1, <4>2 DEF StopWins, Active
      <4>3. CASE state[t] = "awaiting"
            BY <2>1, <4>1, <4>3 DEF Records, AwaitingIsReal, Active
      <4>4. CASE state[t] \notin {"succeeded", "awaiting"}
        <5>1. \A p \in Proc : state[t] \in Active => Finished(p) # "succeeded" \/ worker[p].turn # t
              BY <3>1 DEF Finished, Active
        <5>2. Reconciled(t) # "succeeded"
              BY <3>1 DEF Reconciled
        <5>. QED BY <2>1, <3>3, <4>4, <5>1, <5>2 DEF Edge
      <4>. QED BY <4>2, <4>3, <4>4
    <3>. QED BY <3>2, <3>3
  <2>. QED BY <1>1, <1>3, <2>2, <2>3
<1>4. StopsAreKept'
      BY <1>1, <1>3 DEF StopsAreKept
<1>5. StopWins'
      BY <1>3 DEF StopWins
<1>. QED BY <1>4, <1>5

-----------------------------------------------------------------------------
(* Guides: the sweep and finish close them with their turn.                *)
GuidesFit(st, gd) ==
    /\ gd \in [Guide -> GuideRow]
    /\ \A g \in Guide : /\ gd[g].state \in OpenGuide => st[gd[g].turn] \in Active
                        /\ gd[g].state = "injected" => gd[g].heard

LEMMA ClosedGuidesFit ==
    ASSUME GuidesFit(state, guide), NEW st
    PROVE  GuidesFit(st, CloseGuides)
BY DEF GuidesFit, CloseGuides, GuideRow, OpenGuide, GuideStates

LEMMA SweptGuidesFit ==
    ASSUME GuidesFit(state, guide), Inv, NEW st,
           \A t \in Turn : Swept[t] \in Active => st[t] \in Active
    PROVE  GuidesFit(st, SweptGuides)
<1>1. CASE Expired
      BY <1>1, ClosedGuidesFit DEF SweptGuides
<1>2. CASE ~Expired
  <2>1. \A t \in Turn : Swept[t] = state[t]
        BY <1>2 DEF Swept
  <2>2. SweptGuides = guide
        BY <1>2 DEF SweptGuides
  <2>. QED BY <2>1, <2>2 DEF GuidesFit, GuideRow
<1>. QED BY <1>1, <1>2

(* A guide that goes on, for a turn that stays active.                     *)
LEMMA MovedGuidesFit ==
    ASSUME GuidesFit(state, guide), NEW st, NEW gd \in [Guide -> GuideRow],
           \A t \in Turn : state[t] \in Active => st[t] \in Active,
           \A g \in Guide : /\ gd[g].turn = guide[g].turn
                            /\ gd[g].state \in OpenGuide => guide[g].state \in OpenGuide
                            /\ gd[g].state = "injected" =>
                                  gd[g].heard \/ (guide[g].state = "injected"
                                                  /\ gd[g].heard = guide[g].heard)
    PROVE  GuidesFit(st, gd)
BY DEF GuidesFit, GuideRow

(* One guide at a time goes on.                                            *)
GoesOn(old, new) ==
    /\ new \in GuideRow
    /\ new.turn = old.turn
    /\ new.state \in OpenGuide => old.state \in OpenGuide
    /\ new.state = "injected" =>
          new.heard \/ (old.state = "injected" /\ new.heard = old.heard)

LEMMA GuidesStep ==
    ASSUME Inv, Next, GuidesFit(state, guide)
    PROVE  GuidesFit(state', guide')
<1>. DEFINE Fit == GuidesFit(state', guide')
<1>0. /\ guide \in [Guide -> GuideRow]
      /\ state \in [Turn -> States] /\ Swept \in [Turn -> States]
      /\ \A t \in Turn : \/ Swept[t] = state[t]
                         \/ state[t] \in Active /\ Swept[t] = "unconfirmed"
      BY SweepMoves DEF GuidesFit, Inv, Safe, SafeTypes
<1>1. ASSUME guide' = guide, \A t \in Turn : state[t] \in Active => state'[t] \in Active
      PROVE  Fit
      BY <1>1 DEF GuidesFit, GuideRow
<1>2. ASSUME NEW p \in Proc, \/ Poll(p) \/ Pause(p) \/ Resume(p) \/ GoIdle(p) \/ Begin(p)
                             \/ \E t \in Turn : \E n \in 0..Len(line) : Move(p, t, n)
      PROVE  Fit
  <2>1. state' = Swept /\ guide' = SweptGuides
        BY <1>2 DEF Poll, Pause, Resume, GoIdle, Begin, Move
  <2>. QED BY <2>1, SweptGuidesFit
<1>3. ASSUME NEW p \in Proc, NEW t \in Turn, NEW front, state[t] = "none", Insert(p, t, front)
      PROVE  Fit
  <2>1. \A u \in Turn : Swept[u] \in Active => state'[u] \in Active
        BY <1>0, <1>3 DEF Insert, Active
  <2>. QED BY <1>3, <2>1, SweptGuidesFit DEF Insert
<1>4. ASSUME NEW p \in Proc, NEW c \in Cmd, Submit(p, c) PROVE Fit
      BY <1>3, <1>4, TurnFacts DEF Submit
<1>5. ASSUME NEW p \in Proc, ResolveAccept(p) PROVE Fit
  <2>1. Heir(resolver[p].turn) \in Turn
        BY <1>5, TurnFacts DEF Inv, Resolver
  <2>2. \/ state' = Swept /\ guide' = SweptGuides
        \/ state' = state /\ guide' = guide
        \/ /\ state[Heir(resolver[p].turn)] = "none"
           /\ Insert(p, Heir(resolver[p].turn), TRUE)
        BY <1>5 DEF ResolveAccept, rows
  <2>. QED BY <1>3, <2>1, <2>2, SweptGuidesFit
<1>6. ASSUME NEW p \in Proc, Claim(p) PROVE Fit
  <2>1. \A u \in Turn : Swept[u] \in Active => state'[u] \in Active
        BY <1>0, <1>6 DEF Claim, Active
  <2>. QED BY <1>6, <2>1, SweptGuidesFit DEF Claim
<1>7. ASSUME NEW p \in Proc, NEW t \in Turn, Remove(p, t) PROVE Fit
  <2>1. \A u \in Turn : Swept[u] \in Active => state'[u] \in Active
        BY <1>0, <1>7 DEF Remove, Active
  <2>. QED BY <1>7, <2>1, SweptGuidesFit DEF Remove
<1>8. ASSUME NEW p \in Proc, Finish(p) PROVE Fit
  <2>1. \/ guide' = CloseGuides
        \/ guide' = guide /\ state' = state
        BY <1>8 DEF Finish
  <2>. QED BY <1>1, <2>1, ClosedGuidesFit
<1>9. ASSUME NEW p \in Proc, \/ \E t \in Turn : Stop(p, t) \/ Reconcile(t)
                             \/ \E c \in Cmd : Resolve(p, c)
                             \/ ResolveEnd(p)
      PROVE  Fit
  <2>1. guide' = guide
        BY <1>9 DEF Stop, Reconcile, Resolve, ResolveEnd
  <2>2. ASSUME NEW t \in Turn, state[t] \in Active PROVE state'[t] \in Active
        BY <1>0, <1>9, <2>2 DEF Stop, Reconcile, Resolve, ResolveEnd, EndDecision, Active
  <2>. QED BY <1>1, <2>1, <2>2
<1>10. ASSUME NEW p \in Proc, NEW g \in Guide, SubmitGuide(p, g) PROVE Fit
  <2>1. PICK t \in Turn : /\ Swept[t] = "running"
                          /\ guide' = [guide EXCEPT ![g].state = "queued", ![g].turn = t]
        BY <1>10 DEF SubmitGuide
  <2>. DEFINE row == [guide[g] EXCEPT !.state = "queued", !.turn = t]
  <2>2. guide' = [guide EXCEPT ![g] = row]
        BY <1>0, <2>1
  <2>3. row \in GuideRow /\ row.turn = t /\ row.state = "queued"
        BY <1>0 DEF GuideRow, GuideStates, OpenGuide
  <2>4. state' = state /\ state[t] \in Active
        BY <1>0, <1>10, <2>1 DEF SubmitGuide, rows, Active
  <2>. HIDE DEF row
  <2>. QED BY <1>0, <2>2, <2>3, <2>4 DEF GuidesFit
<1>11. ASSUME \/ \E g \in Guide : NoteSteer(g)
              \/ \E p \in Proc, g \in Guide : Take(p, g) \/ Steer(p, g) \/ Consume(p, g)
              \/ \E p \in Proc : Die(p)
              \/ \E p \in Proc, r \in Outcomes : End(p, r)
       PROVE  Fit
  <2>1. state' = state
        BY <1>11 DEF rows, NoteSteer, Take, Steer, Consume, Die, End
  <2>2. ASSUME NEW g \in Guide, \/ NoteSteer(g)
                                \/ \E p \in Proc : Take(p, g) \/ Steer(p, g) \/ Consume(p, g)
        PROVE  /\ GoesOn(guide[g], guide'[g])
               /\ guide' = [guide EXCEPT ![g] = guide'[g]]
    <3>. DEFINE old == guide[g]
    <3>0. old \in GuideRow
          BY <1>0
    <3>1. ASSUME NEW row, guide' = [guide EXCEPT ![g] = row], GoesOn(old, row)
          PROVE  GoesOn(guide[g], guide'[g]) /\ guide' = [guide EXCEPT ![g] = guide'[g]]
          BY <1>0, <3>1
    <3>2. CASE NoteSteer(g)
      <4>. DEFINE row == [old EXCEPT !.hand = "no", !.state =
                  IF @ # "delivering" THEN @
                  ELSE IF old.hand = "accepted" THEN "delivered" ELSE "queued"]
      <4>1. guide' = [guide EXCEPT ![g] = row]
            BY <1>0, <3>2 DEF NoteSteer
      <4>2. GoesOn(old, row)
            BY <3>0 DEF GoesOn, GuideRow, GuideStates, OpenGuide
      <4>. QED BY <3>1, <4>1, <4>2
    <3>3. CASE \E p \in Proc : Take(p, g)
      <4>. DEFINE row == [old EXCEPT !.state = "delivering", !.hand = "taken"]
      <4>1. guide' = [guide EXCEPT ![g] = row] /\ old.state = "queued"
            BY <1>0, <3>3 DEF Take
      <4>2. GoesOn(old, row)
            BY <3>0, <4>1 DEF GoesOn, GuideRow, GuideStates, OpenGuide
      <4>. QED BY <3>1, <4>1, <4>2
    <3>4. CASE \E p \in Proc : Steer(p, g)
      <4>1. PICK ok \in BOOLEAN :
                guide' = [guide EXCEPT ![g] = [old EXCEPT !.hand = IF ok THEN "accepted"
                                                                   ELSE "refused",
                                                          !.inbox = ok]]
            BY <1>0, <3>4 DEF Steer
      <4>2. GoesOn(old, [old EXCEPT !.hand = IF ok THEN "accepted" ELSE "refused",
                                    !.inbox = ok])
            BY <3>0 DEF GoesOn, GuideRow, GuideStates, OpenGuide
      <4>. QED BY <3>1, <4>1, <4>2
    <3>5. CASE \E p \in Proc : Consume(p, g)
      <4>. DEFINE row == [old EXCEPT !.inbox = FALSE, !.heard = TRUE, !.state =
                  IF @ \in {"delivering", "delivered"} THEN "injected" ELSE @]
      <4>1. guide' = [guide EXCEPT ![g] = row]
            BY <1>0, <3>5 DEF Consume
      <4>2. GoesOn(old, row)
            BY <3>0 DEF GoesOn, GuideRow, GuideStates, OpenGuide
      <4>. QED BY <3>1, <4>1, <4>2
    <3>. QED BY <2>2, <3>2, <3>3, <3>4, <3>5
  <2>3. ASSUME NEW p \in Proc, Die(p) \/ \E r \in Outcomes : End(p, r)
        PROVE  /\ \A g \in Guide : GoesOn(guide[g], guide'[g])
               /\ guide' \in [Guide -> GuideRow]
    <3>1. \A g \in Guide : guide[g] \in GuideRow
          BY <1>0
    <3>2. CASE Die(p)
          BY <3>1, <3>2 DEF Die, GoesOn, GuideRow
    <3>3. CASE \E r \in Outcomes : End(p, r)
      <4>1. ASSUME NEW old \in GuideRow, NEW b \in BOOLEAN
            PROVE  GoesOn(old, [old EXCEPT !.inbox = b])
            BY DEF GoesOn, GuideRow
      <4>2. /\ guide' = [g \in Guide |-> guide'[g]]
            /\ \A g \in Guide : \E b \in BOOLEAN : guide'[g] = [guide[g] EXCEPT !.inbox = b]
            BY <3>3 DEF End
      <4>3. \A g \in Guide : GoesOn(guide[g], guide'[g])
            BY <3>1, <4>1, <4>2
      <4>. QED BY <4>2, <4>3 DEF GoesOn
    <3>. QED BY <2>3, <3>2, <3>3
  <2>4. /\ \A g \in Guide : GoesOn(guide[g], guide'[g])
        /\ guide' \in [Guide -> GuideRow]
    <3>1. ASSUME NEW g \in Guide, GoesOn(guide[g], guide'[g]),
                 guide' = [guide EXCEPT ![g] = guide'[g]]
          PROVE  /\ \A h \in Guide : GoesOn(guide[h], guide'[h])
                 /\ guide' \in [Guide -> GuideRow]
          BY <1>0, <3>1 DEF GoesOn
    <3>. QED BY <1>11, <2>2, <2>3, <3>1
  <2>5. \A t \in Turn : state[t] \in Active => state'[t] \in Active
        BY <2>1
  <2>. DEFINE gd == guide'
  <2>6. GuidesFit(state', gd)
        BY <2>4, <2>5, MovedGuidesFit DEF GoesOn
  <2>. QED BY <2>6
<1>12. ASSUME \/ Expire
              \/ \E p \in Proc : Save(p) \/ WorkerFails(p) \/ Heartbeat(p)
              \/ \E c \in Cmd, v \in {"approved", "rejected"} : Decide(c, v)
       PROVE  Fit
  <2>1. guide' = guide /\ state' = state
        BY <1>12 DEF rows, Expire, Save, WorkerFails, Heartbeat, Decide
  <2>. QED BY <1>1, <2>1
<1>13. ASSUME NEW t \in Turn, Reconcile(t) PROVE Fit
  <2>1. \A u \in Turn : state[u] \in Active => state'[u] \in Active
        BY <1>0, <1>13 DEF Reconcile, Active
  <2>. QED BY <1>1, <1>13, <2>1 DEF Reconcile
<1>. HIDE DEF Fit
<1>14. Fit
       BY <1>2, <1>4, <1>5, <1>6, <1>7, <1>8, <1>9, <1>10, <1>11, <1>12, <1>13, ZenonT(60)
       DEF Next
<1>. QED BY <1>14 DEF Fit

-----------------------------------------------------------------------------
(* The line has every queued turn once. First about sequences: what        *)
(* joining, leaving and moving do to a line that fits the states.          *)
FitsLine(st, ln) ==
    /\ ln \in Seq(Turn)
    /\ \A i \in 1..Len(ln) : st[ln[i]] = "queued"
    /\ \A i, j \in 1..Len(ln) : ln[i] = ln[j] => i = j
    /\ \A t \in Turn : st[t] = "queued" => \E i \in 1..Len(ln) : ln[i] = t

(* t joins the line after its first n, or the one at place n leaves it.    *)
Joins(t, n, st, ln, st2, ln2) ==
    /\ t \in Turn /\ st[t] # "queued"
    /\ \A u \in Turn : st2[u] = "queued" <=> st[u] = "queued" \/ u = t
    /\ n \in 0..Len(ln)
    /\ ln2 \in Seq(Turn) /\ Len(ln2) = Len(ln) + 1
    /\ \A i \in 1..Len(ln2) : ln2[i] = IF i <= n THEN ln[i]
                                       ELSE IF i = n + 1 THEN t ELSE ln[i - 1]

Leaves(n, st, ln, st2, ln2) ==
    /\ n \in 1..Len(ln)
    /\ \A u \in Turn : st2[u] = "queued" <=> st[u] = "queued" /\ u # ln[n]
    /\ ln2 \in Seq(Turn) /\ Len(ln2) = Len(ln) - 1
    /\ \A i \in 1..Len(ln2) : ln2[i] = IF i < n THEN ln[i] ELSE ln[i + 1]

LEMMA SameLineFits ==
    ASSUME NEW st, NEW st2, NEW ln, FitsLine(st, ln),
           \A t \in Turn : st2[t] = "queued" <=> st[t] = "queued"
    PROVE  FitsLine(st2, ln)
<1>1. \A i \in 1..Len(ln) : ln[i] \in Turn
      BY ElementOfSeq DEF FitsLine
<1>. QED BY <1>1 DEF FitsLine

LEMMA JoinFits ==
    ASSUME NEW t, NEW n, NEW st, NEW ln, NEW st2, NEW ln2,
           FitsLine(st, ln), Joins(t, n, st, ln, st2, ln2)
    PROVE  FitsLine(st2, ln2)
<1>. USE DEF Joins
<1>0. /\ \A i \in 1..Len(ln) : ln[i] \in Turn /\ st[ln[i]] = "queued"
      /\ Len(ln) \in Nat
      BY ElementOfSeq, LenProperties DEF FitsLine
<1>1. \A i \in 1..Len(ln2) : i # n + 1 =>
          \E j \in 1..Len(ln) : j = (IF i <= n THEN i ELSE i - 1) /\ ln2[i] = ln[j]
      BY <1>0
<1>2. ln2[n + 1] = t /\ n + 1 \in 1..Len(ln2)
      BY <1>0
<1>3. \A i \in 1..Len(ln2) : st2[ln2[i]] = "queued"
      BY <1>0, <1>1, <1>2
<1>4. \A i, j \in 1..Len(ln2) : ln2[i] = ln2[j] => i = j
  <2>. SUFFICES ASSUME NEW i \in 1..Len(ln2), NEW j \in 1..Len(ln2), ln2[i] = ln2[j]
                PROVE  i = j
       OBVIOUS
  <2>1. i = n + 1 <=> j = n + 1
        BY <1>0, <1>1, <1>2
  <2>2. ASSUME i # n + 1, j # n + 1 PROVE i = j
    <3>1. PICK k \in 1..Len(ln) : k = (IF i <= n THEN i ELSE i - 1) /\ ln2[i] = ln[k]
          BY <1>1, <2>2
    <3>2. PICK m \in 1..Len(ln) : m = (IF j <= n THEN j ELSE j - 1) /\ ln2[j] = ln[m]
          BY <1>1, <2>2
    <3>3. ln[k] = ln[m]
          BY <3>1, <3>2
    <3>4. k = m
          BY <3>3 DEF FitsLine
    <3>. QED BY <1>0, <2>2, <3>1, <3>2, <3>4
  <2>. QED BY <2>1, <2>2
<1>5. \A u \in Turn : st2[u] = "queued" => \E i \in 1..Len(ln2) : ln2[i] = u
  <2>. SUFFICES ASSUME NEW u \in Turn, st2[u] = "queued"
                PROVE  \E i \in 1..Len(ln2) : ln2[i] = u
       OBVIOUS
  <2>1. CASE u = t
        BY <1>2, <2>1
  <2>2. CASE u # t
    <3>1. PICK j \in 1..Len(ln) : ln[j] = u
          BY <2>2 DEF FitsLine
    <3>2. CASE j <= n
          BY <1>0, <3>1, <3>2
    <3>3. CASE j > n
      <4>1. j + 1 \in 1..Len(ln2) /\ ln2[j + 1] = ln[j]
            BY <1>0, <3>3
      <4>. QED BY <3>1, <4>1
    <3>. QED BY <1>0, <3>2, <3>3
  <2>. QED BY <2>1, <2>2
<1>. QED BY <1>3, <1>4, <1>5 DEF FitsLine

LEMMA LeaveFits ==
    ASSUME NEW n, NEW st, NEW ln, NEW st2, NEW ln2,
           FitsLine(st, ln), Leaves(n, st, ln, st2, ln2)
    PROVE  FitsLine(st2, ln2)
<1>. USE DEF Leaves
<1>0. /\ \A i \in 1..Len(ln) : ln[i] \in Turn /\ st[ln[i]] = "queued"
      /\ Len(ln) \in Nat
      BY ElementOfSeq, LenProperties DEF FitsLine
<1>1. \A i \in 1..Len(ln2) :
          \E j \in 1..Len(ln) : j = (IF i < n THEN i ELSE i + 1) /\ ln2[i] = ln[j]
  <2>. SUFFICES ASSUME NEW i \in 1..Len(ln2)
                PROVE  \E j \in 1..Len(ln) : j = (IF i < n THEN i ELSE i + 1) /\ ln2[i] = ln[j]
       OBVIOUS
  <2>1. CASE i < n
        BY <1>0, <2>1
  <2>2. CASE ~(i < n)
    <3>1. i + 1 \in 1..Len(ln) /\ ln2[i] = ln[i + 1]
          BY <1>0, <2>2
    <3>. QED BY <2>2, <3>1
  <2>. QED BY <2>1, <2>2
<1>2. \A i, j \in 1..Len(ln) : ln[i] = ln[j] => i = j
      BY DEF FitsLine
<1>3. \A i \in 1..Len(ln2) : st2[ln2[i]] = "queued"
  <2>. SUFFICES ASSUME NEW i \in 1..Len(ln2) PROVE st2[ln2[i]] = "queued"
       OBVIOUS
  <2>1. PICK j \in 1..Len(ln) : j = (IF i < n THEN i ELSE i + 1) /\ ln2[i] = ln[j]
        BY <1>1
  <2>2. ln[j] # ln[n]
        BY <1>0, <1>2, <2>1
  <2>. QED BY <1>0, <2>1, <2>2
<1>4. \A i, j \in 1..Len(ln2) : ln2[i] = ln2[j] => i = j
  <2>. SUFFICES ASSUME NEW i \in 1..Len(ln2), NEW j \in 1..Len(ln2), ln2[i] = ln2[j]
                PROVE  i = j
       OBVIOUS
  <2>1. PICK k \in 1..Len(ln) : k = (IF i < n THEN i ELSE i + 1) /\ ln2[i] = ln[k]
        BY <1>1
  <2>2. PICK m \in 1..Len(ln) : m = (IF j < n THEN j ELSE j + 1) /\ ln2[j] = ln[m]
        BY <1>1
  <2>3. k = m
        BY <1>2, <2>1, <2>2
  <2>. QED BY <1>0, <2>1, <2>2, <2>3
<1>5. \A u \in Turn : st2[u] = "queued" => \E i \in 1..Len(ln2) : ln2[i] = u
  <2>. SUFFICES ASSUME NEW u \in Turn, st2[u] = "queued"
                PROVE  \E i \in 1..Len(ln2) : ln2[i] = u
       OBVIOUS
  <2>1. PICK j \in 1..Len(ln) : ln[j] = u /\ j # n
        BY DEF FitsLine
  <2>2. CASE j < n
        BY <1>0, <2>1, <2>2
  <2>3. CASE j > n
    <3>1. j - 1 \in 1..Len(ln2) /\ ln2[j - 1] = ln[j]
          BY <1>0, <2>3
    <3>. QED BY <2>1, <3>1
  <2>. QED BY <1>0, <2>1, <2>2, <2>3
<1>. QED BY <1>3, <1>4, <1>5 DEF FitsLine

(* The positions after the operations of the model.                        *)
LEMMA FrontPositions ==
    ASSUME NEW ln \in Seq(Turn), NEW t \in Turn
    PROVE  /\ <<t>> \o ln \in Seq(Turn) /\ Len(<<t>> \o ln) = Len(ln) + 1
           /\ \A i \in 1..(Len(ln) + 1) :
                 (<<t>> \o ln)[i] = IF i = 1 THEN t ELSE ln[i - 1]
<1>1. <<t>> \in Seq(Turn) /\ Len(<<t>>) = 1 /\ <<t>>[1] = t
      OBVIOUS
<1>. QED BY <1>1, ConcatProperties, LenProperties

LEMMA WithoutPositions ==
    ASSUME line \in Seq(Turn), NEW t, \E i \in 1..Len(line) : line[i] = t
    PROVE  \E n \in 1..Len(line) :
              /\ line[n] = t
              /\ Without(t) \in Seq(Turn) /\ Len(Without(t)) = Len(line) - 1
              /\ \A i \in 1..(Len(line) - 1) :
                    Without(t)[i] = IF i < n THEN line[i] ELSE line[i + 1]
<1>. DEFINE n == CHOOSE i \in 1..Len(line) : line[i] = t
            left == SubSeq(line, 1, n - 1)
            right == SubSeq(line, n + 1, Len(line))
<1>1. n \in 1..Len(line) /\ line[n] = t
      OBVIOUS
<1>2. Without(t) = left \o right
      BY DEF Without
<1>. HIDE DEF n
<1>3. Len(line) \in Nat /\ \A i \in 1..Len(line) : line[i] \in Turn
      BY LenProperties, ElementOfSeq
<1>4. /\ left \in Seq(Turn) /\ Len(left) = n - 1
      /\ \A i \in 1..(n - 1) : left[i] = line[i]
      BY <1>1, <1>3, SubSeqProperties
<1>5. /\ right \in Seq(Turn) /\ Len(right) = Len(line) - n
      /\ \A i \in 1..(Len(line) - n) : right[i] = line[i + n]
      BY <1>1, <1>3, SubSeqProperties
<1>. HIDE DEF left, right
<1>a. Len(left) + Len(right) = Len(line) - 1
      BY <1>1, <1>3, <1>4, <1>5
<1>6. /\ left \o right \in Seq(Turn) /\ Len(left \o right) = Len(line) - 1
      /\ \A i \in 1..(Len(line) - 1) :
            (left \o right)[i] = IF i <= n - 1 THEN left[i] ELSE right[i - (n - 1)]
  <2>1. /\ left \o right \in Seq(Turn) /\ Len(left \o right) = Len(left) + Len(right)
        /\ \A i \in 1..(Len(left) + Len(right)) :
              (left \o right)[i] = IF i <= Len(left) THEN left[i] ELSE right[i - Len(left)]
        BY <1>4, <1>5, ConcatProperties
  <2>. QED BY <1>a, <1>4, <2>1
<1>7. ASSUME NEW i \in 1..(Len(line) - 1)
      PROVE  Without(t)[i] = IF i < n THEN line[i] ELSE line[i + 1]
      BY <1>1, <1>2, <1>3, <1>4, <1>5, <1>6, <1>7
<1>. QED BY <1>1, <1>2, <1>6, <1>7

LEMMA SplicePositions ==
    ASSUME NEW s \in Seq(Turn), NEW t \in Turn, NEW n \in 0..Len(s)
    PROVE  LET new == SubSeq(s, 1, n) \o <<t>> \o SubSeq(s, n + 1, Len(s))
           IN  /\ new \in Seq(Turn) /\ Len(new) = Len(s) + 1
               /\ \A i \in 1..(Len(s) + 1) :
                     new[i] = IF i <= n THEN s[i] ELSE IF i = n + 1 THEN t ELSE s[i - 1]
<1>. DEFINE left == SubSeq(s, 1, n)
            mid == left \o <<t>>
            right == SubSeq(s, n + 1, Len(s))
            new == mid \o right
<1>1. Len(s) \in Nat /\ \A i \in 1..Len(s) : s[i] \in Turn
      BY LenProperties, ElementOfSeq
<1>2. /\ left \in Seq(Turn) /\ Len(left) = n
      /\ \A i \in 1..n : left[i] = s[i]
      BY <1>1, SubSeqProperties
<1>3. /\ right \in Seq(Turn) /\ Len(right) = Len(s) - n
      /\ \A i \in 1..(Len(s) - n) : right[i] = s[i + n]
      BY <1>1, SubSeqProperties
<1>. HIDE DEF left, right
<1>4. <<t>> \in Seq(Turn) /\ Len(<<t>>) = 1 /\ <<t>>[1] = t
      OBVIOUS
<1>5. /\ mid \in Seq(Turn) /\ Len(mid) = n + 1
      /\ \A i \in 1..(n + 1) : mid[i] = IF i <= n THEN left[i] ELSE <<t>>[i - n]
      BY <1>1, <1>2, <1>4, ConcatProperties
<1>. HIDE DEF mid
<1>6. /\ new \in Seq(Turn) /\ Len(new) = Len(s) + 1
      /\ \A i \in 1..(Len(s) + 1) :
            new[i] = IF i <= n + 1 THEN mid[i] ELSE right[i - (n + 1)]
      BY <1>1, <1>3, <1>5, ConcatProperties
<1>7. ASSUME NEW i \in 1..(Len(s) + 1)
      PROVE  new[i] = IF i <= n THEN s[i] ELSE IF i = n + 1 THEN t ELSE s[i - 1]
  <2>1. CASE i <= n
        BY <1>1, <1>2, <1>5, <1>6, <2>1
  <2>2. CASE i = n + 1
    <3>1. /\ n + 1 \in 1..(n + 1) /\ ~(n + 1 <= n) /\ (n + 1) - n = 1
          BY <1>1
    <3>2. mid[n + 1] = <<t>>[(n + 1) - n]
          BY <1>5, <3>1
    <3>3. new[i] = mid[n + 1]
          BY <1>6, <2>2
    <3>. QED BY <1>4, <2>2, <3>1, <3>2, <3>3
  <2>3. CASE i > n + 1
    <3>1. new[i] = right[i - (n + 1)] /\ i - (n + 1) \in 1..(Len(s) - n)
          BY <1>1, <1>6, <2>3
    <3>2. (i - (n + 1)) + n = i - 1 /\ ~(i <= n) /\ i # n + 1
          BY <1>1, <2>3
    <3>3. right[i - (n + 1)] = s[(i - (n + 1)) + n]
          BY <1>3, <3>1
    <3>4. new[i] = s[i - 1]
      <4>1. s[(i - (n + 1)) + n] = s[i - 1]
            BY <3>2
      <4>. QED BY <3>1, <3>3, <4>1
    <3>. QED BY <3>2, <3>4
  <2>4. i <= n \/ i = n + 1 \/ i > n + 1
        BY <1>1
  <2>. HIDE DEF new
  <2>. QED BY <2>1, <2>2, <2>3, <2>4
<1>. HIDE DEF new
<1>8. new \in Seq(Turn) /\ Len(new) = Len(s) + 1
      BY <1>6
<1>. QED BY <1>7, <1>8 DEF new, mid, left, right

LEMMA SweepKeepsQueued ==
    ASSUME Inv
    PROVE  \A t \in Turn : Swept[t] = "queued" <=> state[t] = "queued"
BY SweepMoves DEF Active

LEMMA InsertFits ==
    ASSUME Inv, FitsLine(state, line), NEW p \in Proc, NEW t \in Turn, NEW front \in BOOLEAN,
           state[t] = "none", Insert(p, t, front)
    PROVE  FitsLine(state', line')
<1>1. \A u \in Turn : state'[u] = "queued" <=> state[u] = "queued" \/ u = t
      BY SweepMoves, SweepKeepsQueued DEF Insert
<1>2. line \in Seq(Turn) /\ Len(line) \in Nat /\ \A i \in 1..Len(line) : line[i] \in Turn
      BY LenProperties, ElementOfSeq DEF FitsLine
<1>. DEFINE st2 == state'  ln2 == line'
<1>3. CASE front
  <2>1. ln2 = <<t>> \o line
        BY <1>3 DEF Insert
  <2>2. /\ ln2 \in Seq(Turn) /\ Len(ln2) = Len(line) + 1
        /\ \A i \in 1..Len(ln2) : ln2[i] = IF i <= 0 THEN line[i]
                                           ELSE IF i = 0 + 1 THEN t ELSE line[i - 1]
    <3>1. /\ ln2 \in Seq(Turn) /\ Len(ln2) = Len(line) + 1
          /\ \A i \in 1..(Len(line) + 1) : ln2[i] = IF i = 1 THEN t ELSE line[i - 1]
          BY <1>2, <2>1, FrontPositions
    <3>. HIDE DEF ln2
    <3>. QED BY <1>2, <3>1
  <2>3. 0 \in 0..Len(line)
        BY <1>2
  <2>. HIDE DEF st2, ln2
  <2>4. \A u \in Turn : st2[u] = "queued" <=> state[u] = "queued" \/ u = t
        BY <1>1 DEF st2
  <2>5. Joins(t, 0, state, line, st2, ln2)
        BY <2>2, <2>3, <2>4 DEF Joins
  <2>6. FitsLine(st2, ln2)
        BY <2>5, JoinFits
  <2>. QED BY <2>6 DEF st2, ln2
<1>4. CASE ~front
  <2>1. ln2 = Append(line, t)
        BY <1>4 DEF Insert
  <2>. DEFINE n == Len(line)
  <2>2. /\ ln2 \in Seq(Turn) /\ Len(ln2) = Len(line) + 1
        /\ \A i \in 1..Len(ln2) : ln2[i] = IF i <= n THEN line[i]
                                           ELSE IF i = n + 1 THEN t ELSE line[i - 1]
        BY <1>2, <2>1
  <2>3. n \in 0..Len(line)
        BY <1>2
  <2>. HIDE DEF st2, ln2, n
  <2>4. \A u \in Turn : st2[u] = "queued" <=> state[u] = "queued" \/ u = t
        BY <1>1 DEF st2
  <2>5. Joins(t, n, state, line, st2, ln2)
        BY <2>2, <2>3, <2>4 DEF Joins
  <2>6. FitsLine(st2, ln2)
        BY <2>5, JoinFits
  <2>. QED BY <2>6 DEF st2, ln2
<1>. QED BY <1>3, <1>4

LEMMA RemovedFits ==
    ASSUME Inv, FitsLine(state, line), NEW t \in Turn, state[t] = "queued"
    PROVE  /\ FitsLine([Swept EXCEPT ![t] = "removed"], Without(t))
           /\ line # <<>>
<1>. DEFINE st2 == [Swept EXCEPT ![t] = "removed"]
<1>1. \A u \in Turn : st2[u] = "queued" <=> state[u] = "queued" /\ u # t
      BY SweepMoves, SweepKeepsQueued
<1>2. line \in Seq(Turn) /\ \E i \in 1..Len(line) : line[i] = t
      BY DEF FitsLine
<1>3. PICK n \in 1..Len(line) :
              /\ line[n] = t
              /\ Without(t) \in Seq(Turn) /\ Len(Without(t)) = Len(line) - 1
              /\ \A i \in 1..(Len(line) - 1) :
                    Without(t)[i] = IF i < n THEN line[i] ELSE line[i + 1]
      BY <1>2, WithoutPositions
<1>. HIDE DEF st2
<1>. DEFINE ln2 == Without(t)
<1>4. /\ \A u \in Turn : st2[u] = "queued" <=> state[u] = "queued" /\ u # line[n]
      /\ ln2 \in Seq(Turn) /\ Len(ln2) = Len(line) - 1
      /\ \A i \in 1..Len(ln2) : ln2[i] = IF i < n THEN line[i] ELSE line[i + 1]
      BY <1>1, <1>3
<1>. HIDE DEF ln2
<1>5. FitsLine(st2, ln2)
  <2>1. Leaves(n, state, line, st2, ln2)
        BY <1>4 DEF Leaves
  <2>. QED BY <2>1, LeaveFits
<1>6. line # <<>>
      BY <1>2
<1>. QED BY <1>5, <1>6 DEF st2, ln2

LEMMA LineStep ==
    ASSUME Inv, Next, FitsLine(state, line)
    PROVE  FitsLine(state', line')
<1>. DEFINE Fit == FitsLine(state', line')
<1>0. /\ state \in [Turn -> States] /\ Swept \in [Turn -> States]
      /\ \A t \in Turn : Swept[t] = "queued" <=> state[t] = "queued"
      BY SweepMoves, SweepKeepsQueued DEF Inv, Safe, SafeTypes
<1>1. ASSUME line' = line, \A t \in Turn : state'[t] = "queued" <=> state[t] = "queued"
      PROVE  Fit
      BY <1>1, SameLineFits
<1>2. ASSUME NEW p \in Proc, NEW c \in Cmd, Submit(p, c) PROVE Fit
  <2>1. Insert(p, <<c, 0>>, c \in RunOnly) /\ state[<<c, 0>>] = "none"
        BY <1>2 DEF Submit
  <2>2. (c \in RunOnly) \in BOOLEAN
        OBVIOUS
  <2>. QED BY <2>1, <2>2, InsertFits, TurnFacts
<1>3. ASSUME NEW p \in Proc, ResolveAccept(p) PROVE Fit
  <2>1. Heir(resolver[p].turn) \in Turn
        BY <1>3, TurnFacts DEF Inv, Resolver
  <2>2. \/ state' \in {state, Swept} /\ line' = line
        \/ /\ state[Heir(resolver[p].turn)] = "none"
           /\ Insert(p, Heir(resolver[p].turn), TRUE)
        BY <1>3 DEF ResolveAccept, rows
  <2>3. TRUE \in BOOLEAN
        OBVIOUS
  <2>. HIDE DEF Fit
  <2>4. CASE state' \in {state, Swept} /\ line' = line
        BY <1>0, <1>1, <2>4
  <2>5. CASE Insert(p, Heir(resolver[p].turn), TRUE) /\ state[Heir(resolver[p].turn)] = "none"
        BY <2>1, <2>3, <2>5, InsertFits DEF Fit
  <2>. QED BY <2>2, <2>4, <2>5
<1>4. ASSUME NEW p \in Proc, Claim(p) PROVE Fit
  <2>1. /\ line # <<>> /\ state' = [Swept EXCEPT ![Head(line)] = "running"]
        /\ line' = Tail(line) /\ Head(line) \in Turn
        BY <1>4 DEF Claim, Claimable, Queued
  <2>2. /\ line \in Seq(Turn) /\ Len(line) \in Nat /\ 1 \in 1..Len(line) /\ Head(line) = line[1]
        /\ Tail(line) \in Seq(Turn) /\ Len(Tail(line)) = Len(line) - 1
        /\ \A i \in 1..Len(Tail(line)) : Tail(line)[i] = line[i + 1]
        BY <2>1, HeadTailProperties, EmptySeq, LenProperties DEF FitsLine
  <2>3. \A i \in 1..Len(Tail(line)) :
            Tail(line)[i] = IF i < 1 THEN line[i] ELSE line[i + 1]
        BY <2>2
  <2>. DEFINE st2 == state'
  <2>4. \A u \in Turn : st2[u] = "queued" <=> state[u] = "queued" /\ u # line[1]
        BY <1>0, <2>1, <2>2
  <2>. DEFINE ln2 == Tail(line)  n == 1
  <2>5. /\ \A u \in Turn : st2[u] = "queued" <=> state[u] = "queued" /\ u # line[n]
        /\ n \in 1..Len(line) /\ ln2 \in Seq(Turn) /\ Len(ln2) = Len(line) - 1
        /\ \A i \in 1..Len(ln2) : ln2[i] = IF i < n THEN line[i] ELSE line[i + 1]
        BY <2>2, <2>3, <2>4
  <2>. HIDE DEF st2, ln2, n
  <2>6. Leaves(n, state, line, st2, ln2)
        BY <2>5 DEF Leaves
  <2>7. FitsLine(st2, ln2)
        BY <2>6, LeaveFits
  <2>. QED BY <2>1, <2>7 DEF st2, ln2
<1>5. ASSUME NEW p \in Proc, NEW t \in Turn, Remove(p, t) PROVE Fit
      BY <1>5, RemovedFits DEF Remove
<1>6. ASSUME NEW p \in Proc, NEW t \in Turn, NEW n \in 0..Len(line), Move(p, t, n) PROVE Fit
  <2>. DEFINE rest == Without(t)
              new == SubSeq(rest, 1, n) \o <<t>> \o SubSeq(rest, n + 1, Len(rest))
              mid == [Swept EXCEPT ![t] = "removed"]
  <2>1. /\ state[t] = "queued" /\ n <= Len(rest) /\ line' = new /\ state' = Swept
        BY <1>6 DEF Move
  <2>2. FitsLine(mid, rest)
        BY <2>1, RemovedFits
  <2>3. \A u \in Turn : state[u] = "queued" <=> mid[u] = "queued" \/ u = t
        BY <1>0, <2>1
  <2>4. mid[t] # "queued"
        BY <1>0
  <2>. HIDE DEF mid
  <2>5. rest \in Seq(Turn) /\ n \in 0..Len(rest)
        BY <2>1, <2>2, LenProperties DEF FitsLine
  <2>. HIDE DEF rest
  <2>6. /\ new \in Seq(Turn) /\ Len(new) = Len(rest) + 1
        /\ \A i \in 1..(Len(rest) + 1) :
              new[i] = IF i <= n THEN rest[i] ELSE IF i = n + 1 THEN t ELSE rest[i - 1]
        BY <2>5, SplicePositions
  <2>. HIDE DEF new
  <2>a. /\ new \in Seq(Turn) /\ Len(new) = Len(rest) + 1 /\ n \in 0..Len(rest)
        /\ \A i \in 1..Len(new) :
              new[i] = IF i <= n THEN rest[i] ELSE IF i = n + 1 THEN t ELSE rest[i - 1]
        BY <2>5, <2>6
  <2>b. Joins(t, n, mid, rest, state, new)
        BY <2>3, <2>4, <2>a DEF Joins
  <2>7. FitsLine(state, new)
        BY <2>2, <2>b, JoinFits
  <2>8. FitsLine(Swept, new)
        BY <1>0, <2>7, SameLineFits
  <2>. QED BY <2>1, <2>8
<1>7. ASSUME NEW p \in Proc, \/ Finish(p) \/ ResolveEnd(p)
                             \/ \E c \in Cmd : Resolve(p, c)
                             \/ \E t \in Turn : Stop(p, t)
      PROVE  Fit
  <2>1. line' = line
        BY <1>7 DEF Finish, ResolveEnd, Resolve, Stop
  <2>2. ASSUME NEW t \in Turn, state'[t] # state[t]
        PROVE  state'[t] # "queued" /\ state[t] # "queued"
    <3>1. CASE Finish(p)
      <4>1. state[t] # "queued"
            BY <2>2, <3>1, FinishSafe DEF Active
      <4>2. Edge(t)
            BY RowMoves
      <4>3. outcome[t] \in Outcomes \union {"none"} /\ \A r \in Proc : worker[r].result \in Outcomes
            BY DEF Inv, Safe, SafeTypes, Worker
      <4>. QED BY <2>2, <3>1, <4>2, <4>3, FinishSafe
           DEF Edge, Finished, Reconciled, Outcomes, Active
    <3>2. CASE ResolveEnd(p)
          BY <1>0, <2>2, <3>2 DEF ResolveEnd, EndDecision
    <3>3. CASE \E c \in Cmd : Resolve(p, c)
          BY <1>0, <2>2, <3>3 DEF Resolve, EndDecision
    <3>4. CASE \E u \in Turn : Stop(p, u)
      <4>1. PICK u \in Turn : state' = [state EXCEPT ![u] = "stopping"] /\ Swept[u] \in Active
            BY <3>4 DEF Stop
      <4>2. t = u
            BY <1>0, <2>2, <4>1
      <4>. QED BY <1>0, <4>1, <4>2 DEF Active
    <3>. QED BY <1>7, <3>1, <3>2, <3>3, <3>4
  <2>. QED BY <1>1, <2>1, <2>2
<1>8. ASSUME NEW t \in Turn, Reconcile(t) PROVE Fit
  <2>1. /\ line' = line /\ state' = [state EXCEPT ![t] = Reconciled(t)]
        /\ state[t] = "unconfirmed" /\ outcome[t] # "none"
        BY <1>8 DEF Reconcile
  <2>2. Reconciled(t) # "queued"
        BY <2>1 DEF Reconciled, Inv, Safe, SafeTypes, Outcomes
  <2>. QED BY <1>0, <1>1, <2>1, <2>2
<1>9. ASSUME \/ Expire
             \/ \E p \in Proc : \/ Poll(p) \/ Pause(p) \/ Resume(p) \/ Die(p) \/ GoIdle(p)
                                \/ Begin(p) \/ Save(p) \/ WorkerFails(p) \/ Heartbeat(p)
             \/ \E p \in Proc, r \in Outcomes : End(p, r)
             \/ \E p \in Proc, g \in Guide : \/ SubmitGuide(p, g) \/ Take(p, g)
                                             \/ Steer(p, g) \/ Consume(p, g)
             \/ \E g \in Guide : NoteSteer(g)
             \/ \E c \in Cmd, v \in {"approved", "rejected"} : Decide(c, v)
      PROVE  Fit
  <2>1. line' = line /\ (state' = Swept \/ state' = state)
        BY <1>9 DEF rows, Expire, Poll, Pause, Resume, Die, GoIdle, Begin, Save, WorkerFails,
                    Heartbeat, End, SubmitGuide, Take, Steer, Consume, NoteSteer, Decide
  <2>. HIDE DEF Fit
  <2>. QED BY <1>0, <1>1, <2>1
<1>. HIDE DEF Fit
<1>10. Fit
       BY <1>2, <1>3, <1>4, <1>5, <1>6, <1>7, <1>8, <1>9, ZenonT(60) DEF Next
<1>. QED BY <1>10 DEF Fit

-----------------------------------------------------------------------------
(* The dead do nothing, and the types of the rest.                         *)
OtherTypes ==
    /\ created \in Seq(Turn)
    /\ once \in [Turn -> Proc \union {NoOne}]
    /\ dead \subseteq Proc
    /\ failed \subseteq Proc
    /\ stale \subseteq Turn

LEMMA OtherTypesStep ==
    ASSUME Inv, Next, OtherTypes
    PROVE  OtherTypes'
<1>0. state \in [Turn -> States] /\ resolver \in [Proc -> Resolver]
      BY DEF Inv, Safe, SafeTypes
<1>1. ASSUME NEW p \in Proc, NEW t \in Turn, NEW front, Insert(p, t, front)
      PROVE  created' \in Seq(Turn) /\ once' \in [Turn -> Proc \union {NoOne}]
      BY <1>1 DEF Insert, OtherTypes
<1>2. ASSUME NEW p \in Proc, NEW c \in Cmd, Submit(p, c) PROVE OtherTypes'
      BY <1>1, <1>2, TurnFacts DEF Submit, past, OtherTypes
<1>3. ASSUME NEW p \in Proc, ResolveAccept(p) PROVE OtherTypes'
  <2>1. Heir(resolver[p].turn) \in Turn
        BY <1>0, TurnFacts DEF Resolver
  <2>2. \/ created' = created /\ once' = once
        \/ Insert(p, Heir(resolver[p].turn), TRUE)
        BY <1>3 DEF ResolveAccept, rows
  <2>3. dead' = dead /\ failed' = failed /\ stale' = stale
        BY <1>3 DEF ResolveAccept, past
  <2>. QED BY <1>1, <2>1, <2>2, <2>3 DEF OtherTypes
<1>4. ASSUME NEW p \in Proc, Die(p) \/ WorkerFails(p) \/ Resume(p) PROVE OtherTypes'
  <2>1. CASE Die(p)
        BY <2>1 DEF Die, rows, OtherTypes
  <2>2. CASE WorkerFails(p)
        BY <2>2 DEF WorkerFails, rows, past, OtherTypes
  <2>3. CASE Resume(p)
        BY <2>3 DEF Resume, OtherTypes
  <2>. QED BY <1>4, <2>1, <2>2, <2>3
<1>5. ASSUME \/ Expire
             \/ \E p \in Proc : \/ Poll(p) \/ Pause(p) \/ Claim(p) \/ GoIdle(p) \/ Begin(p)
                                \/ Save(p) \/ Finish(p) \/ Heartbeat(p) \/ ResolveEnd(p)
             \/ \E p \in Proc, r \in Outcomes : End(p, r)
             \/ \E p \in Proc, c \in Cmd : Resolve(p, c)
             \/ \E p \in Proc, t \in Turn : \/ Stop(p, t) \/ Remove(p, t)
                                            \/ \E n \in 0..Len(line) : Move(p, t, n)
             \/ \E p \in Proc, g \in Guide : \/ SubmitGuide(p, g) \/ Take(p, g)
                                             \/ Steer(p, g) \/ Consume(p, g)
             \/ \E g \in Guide : NoteSteer(g)
             \/ \E t \in Turn : Reconcile(t)
             \/ \E c \in Cmd, v \in {"approved", "rejected"} : Decide(c, v)
      PROVE  UNCHANGED <<created, once, dead, failed, stale>>
      BY <1>5 DEF rows, threads, past, Expire, Poll, Pause, Claim, GoIdle, Begin, Save, Finish,
                  Heartbeat, ResolveEnd, End, Resolve, Stop, Remove, Move, SubmitGuide, Take,
                  Steer, Consume, NoteSteer, Reconcile, Decide
<1>6. UNCHANGED <<created, once, dead, failed, stale>> => OtherTypes'
      BY DEF OtherTypes
<1>. QED BY <1>2, <1>3, <1>4, <1>5, <1>6, ZenonT(60) DEF Next

LEMMA DeadStep ==
    ASSUME Inv, Next, OtherTypes, DeadAreGone
    PROVE  DeadAreGone'
<1>0. /\ worker \in [Proc -> Worker] /\ resolver \in [Proc -> Resolver]
      /\ dead \subseteq Proc
      BY DEF Inv, Safe, SafeTypes, OtherTypes
<1>1. ASSUME NEW p \in Proc \ dead, dead' = dead,
             \A r \in Proc : r # p => worker'[r] = worker[r] /\ resolver'[r] = resolver[r]
      PROVE  DeadAreGone'
      BY <1>0, <1>1 DEF DeadAreGone
<1>2. ASSUME NEW p \in Proc, Die(p) PROVE DeadAreGone'
      BY <1>0, <1>2 DEF Die, DeadAreGone, NoWorker, NoResolver
<1>3. ASSUME NEW p \in Proc, \/ Resume(p) \/ ResolveEnd(p) \/ GoIdle(p) \/ Claim(p) \/ Begin(p)
                             \/ Save(p) \/ Finish(p) \/ WorkerFails(p) \/ ResolveAccept(p)
                             \/ \E c \in Cmd : Submit(p, c) \/ Resolve(p, c)
                             \/ \E g \in Guide : SubmitGuide(p, g)
                             \/ \E r \in Outcomes : End(p, r)
      PROVE  DeadAreGone'
  <2>1. p \notin dead
        BY <1>3 DEF DeadAreGone, Resume, ResolveEnd, GoIdle, Claim, Begin, Save, Finish,
                    WorkerFails, ResolveAccept, Submit, Resolve, SubmitGuide, End
  <2>2. dead' = dead
        BY <1>3 DEF Resume, ResolveEnd, GoIdle, Claim, Begin, Save, Finish, WorkerFails,
                    ResolveAccept, Submit, Resolve, SubmitGuide, End
  <2>3. \A r \in Proc : r # p => worker'[r] = worker[r]
    <3>1. CASE worker' = Kicked(p)
          BY <1>0, <3>1 DEF Kicked
    <3>2. CASE worker' = worker
          BY <3>2
    <3>3. CASE \/ GoIdle(p) \/ Claim(p) \/ Begin(p) \/ Save(p) \/ Finish(p) \/ WorkerFails(p)
               \/ \E r \in Outcomes : End(p, r)
          BY <1>0, <3>3 DEF GoIdle, Claim, Begin, Save, Finish, WorkerFails, End
    <3>4. \/ worker' = Kicked(p) \/ worker' = worker
          \/ GoIdle(p) \/ Claim(p) \/ Begin(p) \/ Save(p) \/ Finish(p) \/ WorkerFails(p)
          \/ \E r \in Outcomes : End(p, r)
          BY <1>3 DEF Resume, ResolveEnd, ResolveAccept, Submit, Resolve, SubmitGuide
    <3>. QED BY <3>1, <3>2, <3>3, <3>4
  <2>4. \A r \in Proc : r # p => resolver'[r] = resolver[r]
    <3>1. CASE resolver' = resolver
          BY <3>1
    <3>2. CASE ResolveEnd(p)
          BY <1>0, <3>2 DEF ResolveEnd
    <3>3. CASE ResolveAccept(p)
          BY <1>0, <3>3 DEF ResolveAccept, rows
    <3>4. CASE \E c \in Cmd : Resolve(p, c)
          BY <1>0, <3>4 DEF Resolve
    <3>5. \/ resolver' = resolver \/ ResolveEnd(p) \/ ResolveAccept(p)
          \/ \E c \in Cmd : Resolve(p, c)
          BY <1>3 DEF Resume, GoIdle, Claim, Begin, Save, Finish, WorkerFails, Submit,
                      SubmitGuide, End
    <3>. QED BY <3>1, <3>2, <3>3, <3>4, <3>5
  <2>. QED BY <1>1, <2>1, <2>2, <2>3, <2>4
<1>4. ASSUME \/ Expire
             \/ \E p \in Proc : Poll(p) \/ Pause(p) \/ Heartbeat(p)
             \/ \E p \in Proc, t \in Turn : \/ Stop(p, t) \/ Remove(p, t)
                                            \/ \E n \in 0..Len(line) : Move(p, t, n)
             \/ \E p \in Proc, g \in Guide : Take(p, g) \/ Steer(p, g) \/ Consume(p, g)
             \/ \E g \in Guide : NoteSteer(g)
             \/ \E t \in Turn : Reconcile(t)
             \/ \E c \in Cmd, v \in {"approved", "rejected"} : Decide(c, v)
      PROVE  worker' = worker /\ resolver' = resolver /\ dead' = dead
      BY <1>4 DEF threads, Expire, Poll, Pause, Heartbeat, Stop, Remove, Move, Take, Steer,
                  Consume, NoteSteer, Reconcile, Decide
<1>5. worker' = worker /\ resolver' = resolver /\ dead' = dead => DeadAreGone'
      BY DEF DeadAreGone
<1>. QED BY <1>2, <1>3, <1>4, <1>5, ZenonT(60) DEF Next

-----------------------------------------------------------------------------
(* An unconfirmed turn holds the queue, and so does a turn left over by a  *)
(* death: the next process to look finds another's epoch or an expired     *)
(* lease, and only the operator lets go.                                   *)
UnconfirmedHeld(q, st) == (\E t \in Turn : st[t] = "unconfirmed") => q.paused

Barred(q, d) == q.paused \/ q.epoch \in d \/ q.owner \in d

StaleHeld(q, st, on, d, left) ==
    \A t \in left :
        /\ st[t] \in {"queued", "removed"}
        /\ st[t] = "queued" => on[t] \in d \union {NoOne} /\ Barred(q, d)

Held == /\ UnconfirmedHeld(queue, state)
        /\ StaleHeld(queue, state, once, dead, stale)

LEMMA SweptHeld ==
    ASSUME Inv, OtherTypes, Held, NEW p \in Proc, p \notin dead
    PROVE  /\ UnconfirmedHeld(SweptQueue(p), Swept)
           /\ StaleHeld(SweptQueue(p), Swept, once, dead, stale)
           /\ \A t \in stale : Swept[t] = state[t]
           /\ \A t \in stale : Swept[t] = "queued" /\ SweptQueue(p).owner = NoOne
                                  => SweptQueue(p).paused
           /\ queue.paused => SweptQueue(p).paused
<1>. DEFINE held == queue.paused \/ \E t \in Turn : Swept[t] \in {"queued", "unconfirmed"}
            restarted == queue.epoch # p /\ queue.owner = NoOne
            q2 == SweptQueue(p)
<1>0. /\ queue \in Queue /\ queue.paused \in BOOLEAN
      /\ Swept \in [Turn -> States] /\ stale \subseteq Turn /\ dead \subseteq Proc
      /\ \A t \in Turn : Swept[t] = state[t] \/ state[t] \in Active
      /\ NoOne \notin dead
      BY SweepMoves, CommandAssumption DEF Inv, Safe, SafeTypes, Queue, OtherTypes
<1>1. \A t \in stale : Swept[t] = state[t]
      BY <1>0 DEF Held, StaleHeld, Active
<1>2. CASE Expired \/ restarted
  <2>1. q2.paused <=> held
        BY <1>2 DEF SweptQueue
  <2>. HIDE DEF q2
  <2>2. UnconfirmedHeld(q2, Swept)
        BY <2>1 DEF UnconfirmedHeld
  <2>3. \A t \in stale : Swept[t] = "queued" => q2.paused
        BY <1>0, <2>1
  <2>4. StaleHeld(q2, Swept, once, dead, stale)
        BY <1>1, <2>3 DEF Held, StaleHeld, Barred
  <2>. QED BY <1>1, <2>1, <2>2, <2>3, <2>4 DEF q2
<1>3. CASE ~Expired /\ ~restarted
  <2>1. q2 = queue
        BY <1>3 DEF SweptQueue
  <2>. HIDE DEF q2
  <2>2. \A t \in Turn : Swept[t] = state[t]
        BY <1>3 DEF Swept
  <2>3. UnconfirmedHeld(q2, Swept)
        BY <2>1, <2>2 DEF Held, UnconfirmedHeld
  <2>4. StaleHeld(q2, Swept, once, dead, stale)
        BY <1>1, <2>1 DEF Held, StaleHeld
  <2>5. \A t \in stale : Swept[t] = "queued" /\ q2.owner = NoOne => q2.paused
        BY <1>0, <1>3, <2>1, <2>4 DEF StaleHeld, Barred
  <2>. QED BY <1>1, <2>1, <2>3, <2>4, <2>5 DEF q2
<1>. QED BY <1>2, <1>3

(* Steps that change nothing of the past and may only remove a stale turn. *)
LEMMA StaleKept ==
    ASSUME NEW q, NEW st, NEW on, NEW d, NEW left, NEW q2, NEW st2, NEW on2,
           StaleHeld(q, st, on, d, left),
           \A t \in left : /\ st2[t] = st[t] \/ (st[t] = "queued" /\ st2[t] = "removed")
                           /\ on2[t] = on[t],
           Barred(q, d) => Barred(q2, d)
    PROVE  StaleHeld(q2, st2, on2, d, left)
BY DEF StaleHeld

Bars == /\ Held'
        /\ \A t \in stale : state'[t] \in {"queued", "removed"}

LEMMA KeptBars ==
    ASSUME NEW q, NEW st, StaleHeld(q, st, once, dead, stale),
           once' = once, dead' = dead, stale' = stale,
           UnconfirmedHeld(queue', state'),
           \A t \in stale : state'[t] = st[t] \/ (st[t] = "queued" /\ state'[t] = "removed"),
           Barred(q, dead) => Barred(queue', dead)
    PROVE  Bars
<1>. DEFINE q2 == queue'  st2 == state'
<1>. HIDE DEF q2, st2
<1>1. StaleHeld(q2, st2, once, dead, stale)
      BY StaleKept DEF q2, st2
<1>. QED BY <1>1 DEF Bars, Held, StaleHeld, q2, st2

LEMMA InsertBars ==
    ASSUME Inv, OtherTypes, Held, NEW p \in Proc, p \notin dead, NEW t \in Turn, NEW front,
           state[t] = "none", Insert(p, t, front), dead' = dead, stale' = stale
    PROVE  Bars
<1>0. /\ UnconfirmedHeld(SweptQueue(p), Swept)
      /\ StaleHeld(SweptQueue(p), Swept, once, dead, stale)
      BY SweptHeld
<1>1. /\ t \notin stale /\ stale \subseteq Turn
      /\ Swept \in [Turn -> States]
      BY SweepMoves DEF Held, StaleHeld, OtherTypes
<1>2. /\ queue' = SweptQueue(p)
      /\ \A u \in Turn : state'[u] = IF u = t THEN "queued" ELSE Swept[u]
      /\ \A u \in Turn : u # t => once'[u] = once[u]
      BY <1>1 DEF Insert, OtherTypes
<1>. DEFINE st2 == state'  on2 == once'
<1>3. \A u \in stale : st2[u] = Swept[u] /\ on2[u] = once[u]
      BY <1>1, <1>2
<1>4. UnconfirmedHeld(queue', state')
      BY <1>0, <1>2 DEF UnconfirmedHeld
<1>. HIDE DEF st2, on2
<1>5. StaleHeld(SweptQueue(p), st2, on2, dead, stale)
      BY <1>0, <1>3, StaleKept
<1>. QED BY <1>2, <1>4, <1>5 DEF Bars, Held, StaleHeld, st2, on2

(* No stale turn is claimed: the queue is held, and the turn is not one    *)
(* that this process lets run alone.                                       *)
LEMMA ClaimBars ==
    ASSUME Inv, OtherTypes, DeadAreGone, Held, NEW p \in Proc, Claim(p)
    PROVE  Bars
<1>. DEFINE h == Head(line)
<1>1. p \notin dead /\ p # NoOne
      BY CommandAssumption DEF Claim, DeadAreGone
<1>2. /\ state[h] = "queued" /\ h \in Turn
      /\ SweptQueue(p).owner = NoOne /\ ~Unconfirmed
      /\ SweptQueue(p).paused => once[h] = p
      BY DEF Claim, Claimable, Queued
<1>3. /\ queue' = [SweptQueue(p) EXCEPT !.owner = p, !.live = TRUE, !.epoch = p]
      /\ state' = [Swept EXCEPT ![h] = "running"]
      /\ once' = once /\ dead' = dead /\ stale' = stale
      BY DEF Claim, past
<1>4. /\ Swept \in [Turn -> States] /\ SweptQueue(p) \in Queue
      /\ stale \subseteq Turn
      BY SweepSafe DEF Inv, Safe, SafeTypes, OtherTypes
<1>5. h \notin stale
  <2>. SUFFICES ASSUME h \in stale PROVE FALSE
       OBVIOUS
  <2>1. Swept[h] = "queued"
        BY <1>1, <1>2, SweptHeld
  <2>2. SweptQueue(p).paused
        BY <1>1, <1>2, <2>1, SweptHeld
  <2>. QED BY <1>1, <1>2, <2>2 DEF Held, StaleHeld
<1>. HIDE DEF h
<1>6. queue'.paused = SweptQueue(p).paused
      BY <1>3, <1>4 DEF Queue
<1>7. \A t \in stale : state'[t] = Swept[t] /\ Swept[t] = state[t]
      BY <1>1, <1>3, <1>4, <1>5, SweptHeld
<1>8. Barred(SweptQueue(p), dead) /\ (\E t \in stale : Swept[t] = "queued")
         => Barred(queue', dead)
      BY <1>1, <1>2, <1>6, SweptHeld DEF Barred
<1>9. UnconfirmedHeld(queue', state')
      BY <1>2, <1>3, <1>4 DEF UnconfirmedHeld, Unconfirmed
<1>10. StaleHeld(SweptQueue(p), Swept, once, dead, stale)
      BY <1>1, SweptHeld
<1>. QED BY <1>3, <1>7, <1>8, <1>9, <1>10 DEF Bars, Held, StaleHeld

LEMMA ReleasedHolds ==
    ASSUME queue \in Queue, NEW r, NEW st
    PROVE  /\ Released(r, st).owner = NoOne /\ Released(r, st).epoch = queue.epoch
           /\ r # "succeeded" => Released(r, st).paused
           /\ queue.paused /\ (\E t \in Turn : st[t] \in {"queued", "unconfirmed"})
                 => Released(r, st).paused
<1>. DEFINE free == [queue EXCEPT !.owner = NoOne, !.live = FALSE]
<1>1. /\ DOMAIN queue = {"owner", "live", "paused", "reason", "epoch"}
      /\ queue = [x \in DOMAIN queue |-> queue[x]]
      BY DEF Queue
<1>2. /\ free.owner = NoOne /\ free.epoch = queue.epoch /\ free.paused = queue.paused
      /\ DOMAIN free = {"owner", "live", "paused", "reason", "epoch"}
      BY <1>1
<1>3. CASE r # "succeeded"
  <2>1. \E x : Released(r, st) = [free EXCEPT !.paused = TRUE, !.reason = x]
        BY <1>3 DEF Released
  <2>. HIDE DEF free
  <2>. QED BY <1>2, <1>3, <2>1
<1>4. CASE r = "succeeded"
  <2>1. \/ Released(r, st) = free
        \/ /\ Released(r, st) = [free EXCEPT !.paused = FALSE, !.reason = ""]
           /\ \A t \in Turn : st[t] \notin {"queued", "unconfirmed"}
        BY <1>4 DEF Released
  <2>. HIDE DEF free
  <2>. QED BY <1>2, <1>4, <2>1
<1>. QED BY <1>3, <1>4

LEMMA FinishBars ==
    ASSUME Inv, OtherTypes, DeadAreGone, Held, NEW p \in Proc, Finish(p)
    PROVE  Bars
<1>. DEFINE t0 == worker[p].turn
<1>0. /\ queue \in Queue /\ state \in [Turn -> States]
      /\ stale \subseteq Turn /\ p \notin dead /\ NoOne \notin dead
      /\ t0 \in Turn /\ worker[p].result \in Outcomes
      BY CommandAssumption DEF Inv, Safe, SafeTypes, OtherTypes, Finish, DeadAreGone, Worker
<1>1. once' = once /\ dead' = dead /\ stale' = stale
      BY DEF Finish, past
<1>2. CASE queue' = queue /\ state' = state
      BY <1>1, <1>2 DEF Bars, Held, StaleHeld
<1>3. CASE queue.owner = p
  <2>1. /\ state' = [state EXCEPT ![t0] = Finished(p)]
        /\ queue' = Released(Finished(p), state')
        BY <1>3 DEF Finish, Finished
  <2>2. Finished(p) \in Outcomes
        BY <1>0 DEF Finished, Outcomes
  <2>3. /\ queue'.epoch = queue.epoch
        /\ Finished(p) # "succeeded" => queue'.paused
        /\ queue.paused /\ (\E t \in Turn : state'[t] \in {"queued", "unconfirmed"})
              => queue'.paused
        BY <1>0, <2>1, ReleasedHolds
  <2>4. UnconfirmedHeld(queue', state')
    <3>. SUFFICES ASSUME NEW t \in Turn, state'[t] = "unconfirmed" PROVE queue'.paused
         BY DEF UnconfirmedHeld
    <3>1. CASE t = t0
          BY <1>0, <2>1, <2>3, <3>1
    <3>2. CASE t # t0
      <4>1. state[t] = "unconfirmed"
            BY <1>0, <2>1, <3>2
      <4>. QED BY <2>3, <4>1 DEF Held, UnconfirmedHeld
    <3>. QED BY <3>1, <3>2
  <2>5. \A t \in stale : state'[t] = state[t]
        BY FinishSafe, <1>0 DEF Held, StaleHeld, Active
  <2>6. \A t \in stale : state'[t] = "queued" => Barred(queue', dead)
        BY <1>0, <1>3, <2>3, <2>5 DEF Held, StaleHeld, Barred
  <2>. QED BY <1>1, <2>4, <2>5, <2>6 DEF Bars, Held, StaleHeld
<1>. QED BY <1>2, <1>3 DEF Finish

LEMMA DieBars ==
    ASSUME Inv, OtherTypes, Held, NEW p \in Proc, Die(p)
    PROVE  Bars
<1>1. /\ queue' = queue /\ state' = state /\ once' = once
      /\ dead' = dead \union {p}
      /\ \/ stale' = stale
         \/ /\ queue.epoch = p \/ queue.owner = p
            /\ stale' = stale \union {t \in Turn : state[t] = "queued" /\ once[t] \in {p, NoOne}}
      BY DEF Die, rows
<1>2. \A t \in stale' : /\ state[t] \in {"queued", "removed"}
                        /\ state[t] = "queued" => /\ once[t] \in dead' \union {NoOne}
                                                  /\ Barred(queue, dead')
      BY <1>1 DEF Held, StaleHeld, Barred
<1>. QED BY <1>1, <1>2 DEF Bars, Held, StaleHeld, UnconfirmedHeld

(* end_decision leaves the queue as it is or holds it.                     *)
LEMMA EndDecisionBars ==
    ASSUME Inv, OtherTypes, Held, NEW t \in Turn, NEW final \in {"succeeded", "interrupted"},
           NEW why, EndDecision(t, final, why), once' = once, dead' = dead, stale' = stale
    PROVE  Bars
<1>0. /\ state \in [Turn -> States] /\ queue \in Queue /\ stale \subseteq Turn
      BY DEF Inv, Safe, SafeTypes, OtherTypes
<1>1. CASE queue' = queue /\ state' = state
      BY <1>1 DEF Bars, Held, StaleHeld
<1>2. CASE state[t] = "awaiting"
  <2>1. /\ state' = [state EXCEPT ![t] = final]
        /\ \E x : queue' = [queue EXCEPT !.paused = TRUE, !.reason = x]
        BY <1>2 DEF EndDecision
  <2>2. queue'.paused
        BY <1>0, <2>1 DEF Queue
  <2>3. \A u \in stale : state'[u] = state[u]
        BY <1>0, <1>2, <2>1 DEF Held, StaleHeld
  <2>. QED BY <2>2, <2>3 DEF Bars, Held, StaleHeld, UnconfirmedHeld, Barred
<1>. QED BY <1>1, <1>2 DEF EndDecision

LEMMA HeldStep ==
    ASSUME Inv, Next, OtherTypes, DeadAreGone, Held
    PROVE  Bars
<1>0. /\ state \in [Turn -> States] /\ queue \in Queue /\ Swept \in [Turn -> States]
      /\ stale \subseteq Turn /\ dead \subseteq Proc
      BY SweepMoves DEF Inv, Safe, SafeTypes, OtherTypes
<1>1. ASSUME queue' = queue, state' = state, once' = once, dead' = dead, stale' = stale
      PROVE  Bars
      BY <1>1 DEF Bars, Held, StaleHeld
<1>2. ASSUME NEW p \in Proc, p \notin dead, queue' = SweptQueue(p), state' = Swept,
             once' = once, dead' = dead, stale' = stale
      PROVE  Bars
      BY <1>2, SweptHeld DEF Bars, Held, StaleHeld
<1>3. ASSUME NEW p \in Proc, \/ Poll(p) \/ GoIdle(p) \/ Begin(p)
                             \/ \E t \in Turn : \E n \in 0..Len(line) : Move(p, t, n)
      PROVE  Bars
  <2>1. p \notin dead
        BY <1>3 DEF Poll, GoIdle, Begin, Move, DeadAreGone
  <2>2. queue' = SweptQueue(p) /\ state' = Swept /\ once' = once /\ dead' = dead /\ stale' = stale
        BY <1>3 DEF Poll, GoIdle, Begin, Move, threads, past
  <2>. QED BY <1>2, <2>1, <2>2
<1>4. ASSUME NEW p \in Proc, Pause(p) PROVE Bars
  <2>1. /\ p \notin dead /\ state' = Swept /\ once' = once /\ dead' = dead /\ stale' = stale
        /\ queue' = [SweptQueue(p) EXCEPT !.paused = TRUE, !.reason = "operator", !.epoch = p]
        BY <1>4 DEF Pause, threads, past
  <2>2. queue'.paused
    <3>1. SweptQueue(p) \in Queue
          BY SweepSafe DEF Inv, Safe, SafeTypes
    <3>. QED BY <2>1, <3>1 DEF Queue
  <2>. QED BY <2>1, <2>2, SweptHeld DEF Bars, Held, StaleHeld, UnconfirmedHeld, Barred
<1>5. ASSUME NEW p \in Proc, Resume(p) PROVE Bars
  <2>1. p \notin dead /\ state' = Swept /\ stale' = {} /\ ~Unconfirmed
        BY <1>5 DEF Resume
  <2>2. \A t \in stale : state'[t] = state[t]
        BY <2>1, SweptHeld
  <2>. QED BY <2>1, <2>2 DEF Bars, Held, StaleHeld, UnconfirmedHeld, Unconfirmed
<1>6. ASSUME NEW p \in Proc, NEW c \in Cmd, Submit(p, c) PROVE Bars
  <2>1. /\ p \notin dead /\ state[<<c, 0>>] = "none" /\ Insert(p, <<c, 0>>, c \in RunOnly)
        /\ dead' = dead /\ stale' = stale /\ <<c, 0>> \in Turn
        BY <1>6, TurnFacts DEF Submit, past
  <2>. QED BY <2>1, InsertBars
<1>7. ASSUME NEW p \in Proc, ResolveAccept(p) PROVE Bars
  <2>1. /\ p \notin dead /\ dead' = dead /\ stale' = stale
        /\ Heir(resolver[p].turn) \in Turn
        BY <1>7, TurnFacts DEF ResolveAccept, past, DeadAreGone, Inv, Resolver
  <2>2. \/ queue' = SweptQueue(p) /\ state' = Swept /\ once' = once
        \/ queue' = queue /\ state' = state /\ once' = once
        \/ /\ state[Heir(resolver[p].turn)] = "none"
           /\ Insert(p, Heir(resolver[p].turn), TRUE)
        BY <1>7 DEF ResolveAccept, rows
  <2>. QED BY <1>1, <1>2, <2>1, <2>2, InsertBars
<1>8. ASSUME NEW p \in Proc, \/ ResolveEnd(p) \/ \E c \in Cmd : Resolve(p, c)
      PROVE  Bars
  <2>1. once' = once /\ dead' = dead /\ stale' = stale
        BY <1>8 DEF ResolveEnd, Resolve, past
  <2>2. \/ \E t \in Turn, final \in {"succeeded", "interrupted"}, why \in Reasons :
              EndDecision(t, final, why)
        \/ queue' = queue /\ state' = state
    <3>1. CASE ResolveEnd(p)
      <4>1. resolver[p].turn \in Turn
            BY DEF Inv, Resolver
      <4>. QED BY <3>1, <4>1 DEF ResolveEnd, Reasons, DecisionPauses
    <3>2. CASE \E c \in Cmd : Resolve(p, c)
          BY <3>2, TurnFacts DEF Resolve, Reasons, DecisionPauses
    <3>. QED BY <1>8, <3>1, <3>2
  <2>. QED BY <1>1, <2>1, <2>2, EndDecisionBars
<1>9. ASSUME NEW p \in Proc, NEW t \in Turn, Stop(p, t) PROVE Bars
  <2>1. /\ Swept[t] \in Active /\ state' = [state EXCEPT ![t] = "stopping"]
        /\ \E x : queue' = [queue EXCEPT !.paused = TRUE, !.reason = x]
        /\ once' = once /\ dead' = dead /\ stale' = stale
        BY <1>9 DEF Stop, threads, past
  <2>2. queue'.paused
        BY <1>0, <2>1 DEF Queue
  <2>3. state[t] \in Active
        BY <2>1, SweepMoves DEF Active
  <2>4. \A u \in stale : state'[u] = state[u]
        BY <1>0, <2>1, <2>3 DEF Held, StaleHeld, Active
  <2>. QED BY <2>1, <2>2, <2>4 DEF Bars, Held, StaleHeld, UnconfirmedHeld, Barred
<1>10. ASSUME NEW p \in Proc, NEW t \in Turn, Remove(p, t) PROVE Bars
  <2>1. /\ p \notin dead /\ state[t] = "queued" /\ state' = [Swept EXCEPT ![t] = "removed"]
        /\ queue' = SweptQueue(p) /\ once' = once /\ dead' = dead /\ stale' = stale
        BY <1>10 DEF Remove, threads, past
  <2>2. /\ UnconfirmedHeld(SweptQueue(p), Swept)
        /\ StaleHeld(SweptQueue(p), Swept, once, dead, stale)
        BY <2>1, SweptHeld
  <2>3. UnconfirmedHeld(queue', state')
        BY <1>0, <2>1, <2>2 DEF UnconfirmedHeld
  <2>4. \A u \in stale : \/ state'[u] = Swept[u]
                         \/ Swept[u] = "queued" /\ state'[u] = "removed"
        BY <1>0, <2>1, SweepKeepsQueued
  <2>. QED BY <2>1, <2>2, <2>3, <2>4, KeptBars
<1>11. ASSUME NEW t \in Turn, Reconcile(t) PROVE Bars
  <2>1. /\ queue' = queue /\ state' = [state EXCEPT ![t] = Reconciled(t)]
        /\ state[t] = "unconfirmed" /\ outcome[t] \notin {"none", "unconfirmed"}
        /\ once' = once /\ dead' = dead /\ stale' = stale
        BY <1>11 DEF Reconcile, threads, past
  <2>2. UnconfirmedHeld(queue', state')
        BY <1>0, <2>1 DEF Held, UnconfirmedHeld
  <2>3. \A u \in stale : state'[u] = state[u]
        BY <1>0, <2>1 DEF Held, StaleHeld
  <2>. QED BY <2>1, <2>2, <2>3 DEF Bars, Held, StaleHeld
<1>12. ASSUME \/ Expire \/ \E p \in Proc : Heartbeat(p) PROVE Bars
  <2>1. /\ \E b \in BOOLEAN : queue' = [queue EXCEPT !.live = b]
        /\ state' = state /\ once' = once /\ dead' = dead /\ stale' = stale
        BY <1>12 DEF Expire, Heartbeat, rows, threads, past
  <2>2. queue'.paused = queue.paused /\ queue'.epoch = queue.epoch /\ queue'.owner = queue.owner
        BY <1>0, <2>1 DEF Queue
  <2>. QED BY <2>1, <2>2 DEF Bars, Held, StaleHeld, UnconfirmedHeld, Barred
<1>13. ASSUME \/ \E p \in Proc : Save(p) \/ WorkerFails(p)
              \/ \E p \in Proc, r \in Outcomes : End(p, r)
              \/ \E p \in Proc, g \in Guide : Take(p, g) \/ Steer(p, g) \/ Consume(p, g)
              \/ \E g \in Guide : NoteSteer(g)
              \/ \E c \in Cmd, v \in {"approved", "rejected"} : Decide(c, v)
       PROVE  Bars
  <2>1. queue' = queue /\ state' = state /\ once' = once /\ dead' = dead /\ stale' = stale
        BY <1>13 DEF rows, threads, past, Save, WorkerFails, End, Take, Steer, Consume,
                     NoteSteer, Decide
  <2>. QED BY <1>1, <2>1
<1>14. ASSUME NEW p \in Proc, NEW g \in Guide, SubmitGuide(p, g) PROVE Bars
  <2>1. /\ p \notin dead /\ queue' = SweptQueue(p) /\ state' = state
        /\ once' = once /\ dead' = dead /\ stale' = stale
        /\ \E t \in Turn : Swept[t] = "running"
        BY <1>14 DEF SubmitGuide, rows, past
  <2>2. state = Swept
        BY <2>1, SweepSafe DEF Inv, Active
  <2>. QED BY <1>2, <2>1, <2>2
<1>15. ASSUME NEW p \in Proc, Claim(p) PROVE Bars
       BY <1>15, ClaimBars
<1>16. ASSUME NEW p \in Proc, Finish(p) PROVE Bars
       BY <1>16, FinishBars
<1>17. ASSUME NEW p \in Proc, Die(p) PROVE Bars
       BY <1>17, DieBars
<1>. QED
     BY <1>3, <1>4, <1>5, <1>6, <1>7, <1>8, <1>9, <1>10, <1>11, <1>12, <1>13, <1>14, <1>15,
        <1>16, <1>17, ZenonT(60) DEF Next

-----------------------------------------------------------------------------
(* A queue that is ready has a worker: what makes it ready kicks one, and  *)
(* a worker that goes has just seen that it is not.                        *)
Ready(q, st, ln) == /\ q.owner = NoOne /\ ~q.paused /\ ln # <<>>
                    /\ \A t \in Turn : st[t] \notin {"unconfirmed", "awaiting"}

HasWorker(w) == \E p \in Proc : w[p].pc # "none"

(* The sweep makes no queue ready.                                         *)
LEMMA SweptReady ==
    ASSUME Inv, OtherTypes, Held, NEW p \in Proc, p \notin dead, NEW st, NEW ln,
           \A t \in Turn : Swept[t] \in {"unconfirmed", "awaiting"} => st[t] = Swept[t],
           ln # <<>> => line # <<>>,
           Ready(SweptQueue(p), st, ln)
    PROVE  Ready(queue, state, line) /\ Ready(SweptQueue(p), Swept, line)
<1>1. /\ ~Expired => Swept = state /\ SweptQueue(p).owner = queue.owner
      /\ queue.paused => SweptQueue(p).paused
      BY SweepSafe, SweptHeld DEF Inv
<1>2. ~Expired
  <2>. SUFFICES ASSUME Expired PROVE FALSE
       OBVIOUS
  <2>1. PICK t \in Turn : state[t] \in Active
        BY DEF Expired, Inv, Safe, OwnerHasTurn
  <2>2. Swept[t] = "unconfirmed"
        BY <2>1 DEF Swept
  <2>. QED BY <2>2 DEF Ready
<1>. QED BY <1>1, <1>2 DEF Ready

LEMMA IdleIsIdle ==
    ASSUME Inv, OtherTypes, FitsLine(state, line), NEW p \in Proc,
           Ready(SweptQueue(p), Swept, line)
    PROVE  Claimable(p)
<1>1. SweptQueue(p).owner = NoOne /\ ~Unconfirmed /\ line # <<>> /\ ~SweptQueue(p).paused
      BY DEF Ready, Unconfirmed
<1>2. Head(line) \in Queued
  <2>1. line \in Seq(Turn) /\ 1 \in 1..Len(line) /\ Head(line) = line[1]
        BY <1>1 DEF FitsLine
  <2>2. line[1] \in Turn /\ state[line[1]] = "queued"
        BY <2>1, ElementOfSeq DEF FitsLine
  <2>. QED BY <2>1, <2>2 DEF Queued
<1>3. ~DecisionPending(Swept)
  <2>1. \A i \in 1..Len(created) : created[i] \in Turn
        BY ElementOfSeq DEF OtherTypes
  <2>. QED BY <2>1 DEF DecisionPending, Ready
<1>. QED BY <1>1, <1>2, <1>3 DEF Claimable

LEMMA KickedHasWorker ==
    ASSUME worker \in [Proc -> Worker], NEW p \in Proc
    PROVE  HasWorker(Kicked(p))
<1>1. Kicked(p)[p].pc # "none"
      BY DEF Kicked, Worker
<1>. QED BY <1>1 DEF HasWorker

LEMMA NoStrandingStep ==
    ASSUME Inv, Next, OtherTypes, DeadAreGone, Approvals, FitsLine(state, line), Held, NoStranding
    PROVE  NoStranding'
<1>. DEFINE Manned == Ready(queue', state', line') /\ dead' = {} /\ failed' = {}
                         => HasWorker(worker')
<1>0. /\ state \in [Turn -> States] /\ queue \in Queue /\ Swept \in [Turn -> States]
      /\ worker \in [Proc -> Worker] /\ resolver \in [Proc -> Resolver]
      /\ NoOne \notin Proc
      BY SweepMoves, CommandAssumption DEF Inv, Safe, SafeTypes
<1>1. ASSUME worker' = worker, dead' = dead, failed' = failed,
             Ready(queue', state', line') => Ready(queue, state, line)
      PROVE  Manned
      BY <1>1 DEF NoStranding, Drainable, Ready, HasWorker
<1>2. ASSUME NEW p \in Proc, \/ Resume(p) \/ ResolveEnd(p) \/ \E c \in Cmd : Submit(p, c)
                             \/ \E g \in Guide : SubmitGuide(p, g)
      PROVE  Manned
  <2>1. worker' = Kicked(p)
        BY <1>2 DEF Resume, ResolveEnd, Submit, SubmitGuide
  <2>. QED BY <1>0, <2>1, KickedHasWorker
<1>3. ASSUME NEW p \in Proc, \/ Claim(p) \/ Begin(p) \/ Save(p) \/ Finish(p)
                             \/ \E r \in Outcomes : End(p, r)
      PROVE  Manned
  <2>1. ASSUME Claim(p) \/ \E r \in Outcomes : End(p, r) PROVE worker'[p].pc # "none"
    <3>1. ASSUME Claim(p) PROVE worker'[p].pc = "claimed"
          BY <1>0, <3>1 DEF Claim, Worker
    <3>2. ASSUME NEW r \in Outcomes, End(p, r) PROVE worker'[p].pc = "ended"
          BY <1>0, <3>2 DEF End, Worker
    <3>. QED BY <2>1, <3>1, <3>2
  <2>0. ASSUME Begin(p) PROVE worker'[p].pc # "none"
        BY <1>0, <2>0 DEF Begin, Worker
  <2>2. ASSUME Save(p) \/ Finish(p) PROVE worker'[p].pc # "none"
        BY <1>0, <2>2 DEF Save, Finish, Worker, NoWorker
  <2>3. worker'[p].pc # "none"
        BY <1>3, <2>0, <2>1, <2>2
  <2>. QED BY <2>3 DEF HasWorker
<1>4. ASSUME NEW p \in Proc, GoIdle(p) PROVE Manned
  <2>1. /\ p \notin dead /\ ~Claimable(p)
        /\ queue' = SweptQueue(p) /\ state' = Swept /\ line' = line
        BY <1>4 DEF GoIdle, DeadAreGone
  <2>. QED BY <2>1, IdleIsIdle
<1>5. ASSUME NEW p \in Proc, Die(p) \/ WorkerFails(p) PROVE Manned
      BY <1>5 DEF Die, WorkerFails
<1>6. ASSUME NEW p \in Proc, Poll(p) \/ \E t \in Turn : \/ Remove(p, t)
                                                       \/ \E n \in 0..Len(line) : Move(p, t, n)
      PROVE  Manned
  <2>1. /\ p \notin dead /\ queue' = SweptQueue(p)
        /\ worker' = worker /\ dead' = dead /\ failed' = failed
        BY <1>6 DEF Poll, Remove, Move, threads
  <2>2. \A u \in Turn : Swept[u] \in {"unconfirmed", "awaiting"} => state'[u] = Swept[u]
    <3>1. CASE state' = Swept
          BY <3>1
    <3>2. CASE \E t \in Turn : state[t] = "queued" /\ state' = [Swept EXCEPT ![t] = "removed"]
          BY <1>0, <3>2, SweepKeepsQueued
    <3>. QED BY <1>6, <3>1, <3>2 DEF Poll, Remove, Move
  <2>3. line # <<>>  \/ line' = line
        BY <1>6, RemovedFits DEF Poll, Remove, Move
  <2>. DEFINE st2 == state'  ln2 == line'
  <2>. HIDE DEF st2, ln2
  <2>4. Ready(SweptQueue(p), st2, ln2) => Ready(queue, state, line)
        BY <2>1, <2>2, <2>3, SweptReady DEF st2, ln2
  <2>. QED BY <1>1, <2>1, <2>4 DEF st2, ln2
<1>7. ASSUME NEW p \in Proc, ResolveAccept(p) PROVE Manned
  <2>. DEFINE t == resolver[p].turn  h == Heir(t)
  <2>1. /\ resolver[p].pc = "accept" /\ p \notin dead
        /\ worker' = worker /\ dead' = dead /\ failed' = failed
        /\ \/ queue' = SweptQueue(p) /\ state' = Swept /\ line' = line
           \/ queue' = queue /\ state' = state /\ line' = line
           \/ state[h] = "none" /\ Insert(p, h, TRUE)
        BY <1>7 DEF ResolveAccept, rows, DeadAreGone
  <2>2. t \in Turn /\ h \in Turn /\ t # h
        BY <1>0, <2>1, TurnFacts DEF Resolver, Approvals, ResolversAreApproved, Heir
  <2>3. CASE queue' = SweptQueue(p) /\ state' = Swept /\ line' = line
        BY <1>1, <2>1, <2>3, SweptReady
  <2>4. CASE queue' = queue /\ state' = state /\ line' = line
        BY <1>1, <2>1, <2>4
  <2>5. CASE state[h] = "none" /\ Insert(p, h, TRUE)
    <3>1. state[t] = "awaiting"
          BY <2>1, <2>5 DEF Approvals, ResolversAreApproved
    <3>2. Swept[t] = "awaiting"
          BY <2>2, <3>1, SweepMoves DEF Active
    <3>3. state'[t] = "awaiting"
          BY <1>0, <2>2, <2>5, <3>2 DEF Insert
    <3>. QED BY <2>2, <3>3 DEF Ready
  <2>. QED BY <2>1, <2>3, <2>4, <2>5
<1>8. ASSUME NEW p \in Proc, Pause(p) \/ \E t \in Turn : Stop(p, t) PROVE Manned
  <2>1. SweptQueue(p) \in Queue
        BY SweepSafe DEF Inv, Safe, SafeTypes
  <2>2. queue'.paused
        BY <1>0, <1>8, <2>1 DEF Pause, Stop, Queue
  <2>. QED BY <2>2 DEF Ready
<1>9. ASSUME NEW p \in Proc, NEW c \in Cmd, Resolve(p, c) PROVE Manned
  <2>1. \/ queue'.paused
        \/ queue' = queue /\ state' = state
        BY <1>0, <1>9 DEF Resolve, EndDecision, Queue
  <2>2. worker' = worker /\ dead' = dead /\ failed' = failed /\ line' = line
        BY <1>9 DEF Resolve
  <2>. QED BY <1>1, <2>1, <2>2 DEF Ready
<1>10. ASSUME \/ Expire \/ \E p \in Proc : Heartbeat(p) PROVE Manned
  <2>1. queue'.owner # NoOne
        BY <1>0, <1>10 DEF Expire, Heartbeat, Queue
  <2>. QED BY <2>1 DEF Ready
<1>11. ASSUME NEW t \in Turn, Reconcile(t) PROVE Manned
  <2>1. queue' = queue /\ queue.paused
        BY <1>11 DEF Reconcile, Held, UnconfirmedHeld
  <2>. QED BY <2>1 DEF Ready
<1>12. ASSUME \/ \E p \in Proc, g \in Guide : Take(p, g) \/ Steer(p, g) \/ Consume(p, g)
              \/ \E g \in Guide : NoteSteer(g)
              \/ \E c \in Cmd, v \in {"approved", "rejected"} : Decide(c, v)
       PROVE  Manned
  <2>1. /\ queue' = queue /\ state' = state /\ line' = line
        /\ worker' = worker /\ dead' = dead /\ failed' = failed
        BY <1>12 DEF rows, threads, Take, Steer, Consume, NoteSteer, Decide
  <2>. QED BY <1>1, <2>1
<1>. HIDE DEF Manned
<1>13. Manned
       BY <1>2, <1>3, <1>4, <1>5, <1>6, <1>7, <1>8, <1>9, <1>10, <1>11, <1>12, ZenonT(60)
       DEF Next
<1>. QED BY <1>13 DEF Manned, NoStranding, Drainable, Ready, HasWorker

-----------------------------------------------------------------------------
(* All of it together. The parts lean on each other: the line and the held *)
(* queue on the types, the records on the approvals, a stop on the records,*)
(* the worker of a ready queue on the line and on what holds the queue.    *)
Kept == /\ Inv /\ OtherTypes /\ DeadAreGone
        /\ Approvals /\ Records /\ StopsAreKept /\ StopWins
        /\ GuidesFit(state, guide)
        /\ FitsLine(state, line)
        /\ Held /\ NoStranding

LEMMA InitKept == Init => Kept
<1>. SUFFICES ASSUME Init PROVE Kept
     OBVIOUS
<1>1. SomeTurn \in Turn
  <2>1. PICK c \in Cmd : TRUE
        BY CommandAssumption
  <2>2. <<c, 0>> \in Turn
        BY DEF Turn
  <2>. QED BY <2>2 DEF SomeTurn
<1>2. OtherTypes /\ DeadAreGone
  <2>1. created \in Seq(Turn) /\ once \in [Turn -> Proc \union {NoOne}]
        BY EmptySeq DEF Init
  <2>. QED BY <2>1 DEF Init, OtherTypes, DeadAreGone
<1>3. Approvals /\ Records
      BY TurnFacts
      DEF Init, Approvals, HeirsAreApproved, ResolversAreApproved, NoResolver, Records,
          WorkersKnow, NoWorker, OutcomesAreReal, AwaitingIsReal, SuccessIsReal
<1>4. StopsAreKept /\ StopWins
      BY DEF Init, StopsAreKept, StopWins, OwnStop
<1>5. GuidesFit(state, guide)
      BY <1>1 DEF Init, GuidesFit, GuideRow, GuideStates, OpenGuide
<1>6. FitsLine(state, line)
  <2>1. line \in Seq(Turn) /\ Len(line) = 0
        BY EmptySeq DEF Init
  <2>2. \A t \in Turn : state[t] = "none"
        BY DEF Init
  <2>. QED BY <2>1, <2>2 DEF FitsLine
<1>7. Held /\ NoStranding
      BY DEF Init, Held, UnconfirmedHeld, StaleHeld, NoStranding, Drainable
<1>. QED BY <1>2, <1>3, <1>4, <1>5, <1>6, <1>7, InitInv DEF Kept

LEMMA StutterKept == Kept /\ UNCHANGED vars => Kept'
<1>. SUFFICES ASSUME Kept, UNCHANGED vars PROVE Kept'
     OBVIOUS
<1>. USE DEF Kept, vars, rows, threads, past
<1>1. Inv' /\ OtherTypes' /\ DeadAreGone'
      BY NextInv DEF OtherTypes, DeadAreGone
<1>2. Approvals' /\ Records'
      BY DEF Approvals, HeirsAreApproved, ResolversAreApproved, Records, WorkersKnow,
             OutcomesAreReal, AwaitingIsReal, SuccessIsReal
<1>3. StopsAreKept' /\ StopWins'
      BY DEF StopsAreKept, StopWins, OwnStop
<1>4. Held' /\ NoStranding'
      BY DEF Held, UnconfirmedHeld, StaleHeld, Barred, NoStranding, Drainable
<1>. QED BY <1>1, <1>2, <1>3, <1>4 DEF GuidesFit, FitsLine

LEMMA NextKept == Kept /\ Next => Kept'
<1>. SUFFICES ASSUME Kept, Next PROVE Kept'
     OBVIOUS
<1>. USE DEF Kept
<1>1. Inv' /\ OtherTypes' /\ DeadAreGone'
      BY NextInv, OtherTypesStep, DeadStep
<1>2. Approvals' /\ Records' /\ StopsAreKept' /\ StopWins'
      BY ApprovalsStep, RecordsStep, StopsStep
<1>3. GuidesFit(state', guide')
      BY GuidesStep
<1>4. FitsLine(state', line')
      BY LineStep
<1>5. Held' /\ NoStranding'
      BY HeldStep, NoStrandingStep DEF Bars
<1>. QED BY <1>1, <1>2, <1>3, <1>4, <1>5

LEMMA KeptHolds == Spec => []Kept
<1>1. Init => Kept
      BY InitKept
<1>2. Kept /\ [Next]_vars => Kept'
      BY NextKept, StutterKept
<1>. QED BY <1>1, <1>2, PTL DEF Spec

(* Every row, thread and history variable keeps its type.                  *)
THEOREM TypeCorrect == Spec => []TypeOK
<1>1. Kept => TypeOK
      BY DEF Kept, Inv, Safe, SafeTypes, OtherTypes, Approvals, StopsAreKept, GuidesFit,
             FitsLine, TypeOK
<1>. QED BY <1>1, KeptHolds, PTL

(* Whatever dies, expires or is decided late, finish, reconcile and        *)
(* end_decision make a turn succeeded only when executing it succeeded, or *)
(* when it waited for an approval that was given and its continuation has  *)
(* a row.                                                                  *)
THEOREM SuccessesAreReal == Spec => []SuccessIsReal
<1>1. Kept => SuccessIsReal
      BY DEF Kept, Records
<1>. QED BY <1>1, KeptHolds, PTL

(* A stop sent to a turn, a command's first or the continuation of an      *)
(* approval, is not answered by a success, however it races the end of the *)
(* turn, the loss of its lease, the restart and the reconcile after it. The *)
(* turns that ended by asking for an approval are not claimed: one of them *)
(* can lose its worker after the stop and be settled by the approval.      *)
THEOREM StopsWin == Spec => []StopWins
<1>1. Kept => StopWins
      BY DEF Kept
<1>. QED BY <1>1, KeptHolds, PTL

(* A guide is open only while its turn is active, and told to be injected  *)
(* only when the turn has read it, whatever the watcher, the inbox and the *)
(* sweep do in between.                                                    *)
THEOREM GuidesSettled == Spec => []GuidesSettle
<1>1. Kept => GuidesSettle
      BY DEF Kept, GuidesFit, GuidesSettle
<1>. QED BY <1>1, KeptHolds, PTL

(* While nothing dies, a queue that could be drained has a worker: no last *)
(* claim of a leaving worker misses the command of a submit, of a resume   *)
(* or of an approval.                                                      *)
THEOREM NobodyStranded == Spec => []NoStranding
<1>1. Kept => NoStranding
      BY DEF Kept
<1>. QED BY <1>1, KeptHolds, PTL

(* A turn left in the queue by a death runs only after a resume.           *)
THEOREM RestartsAsk == Spec => RestartAsks
<1>1. ASSUME Kept, [Next]_vars
      PROVE  [\A t \in stale : state'[t] # "running"]_vars
  <2>1. CASE Next
        BY <1>1, <2>1, HeldStep DEF Kept, Bars
  <2>. QED BY <1>1, <2>1
<1>. QED BY <1>1, KeptHolds, PTL DEF Spec, RestartAsks
=============================================================================
