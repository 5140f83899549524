---------------------------- MODULE CommandQueue ----------------------------
(***************************************************************************)
(* The durable queue of the commands of one conversation:                  *)
(* agent/command_store.py, whose every operation is one BEGIN IMMEDIATE    *)
(* transaction, and agent/command_runtime.py, the worker, watcher and      *)
(* callback threads of the processes that share the database.              *)
(*                                                                         *)
(* A process of Proc is one incarnation of the service, with its own       *)
(* runtime epoch: a restart is the death of one member and the work of     *)
(* another, and two may be up at once. A client sends each command of Cmd  *)
(* once (a second delivery of the same command_id is answered from the     *)
(* row). <<c, 0>> is the turn that runs it and <<c, 1>> the continuation   *)
(* that an approval of it adds, under an id derived from the approval.     *)
(***************************************************************************)
EXTENDS Integers, Sequences, FiniteSets

CONSTANTS
    Cmd,         \* commands a client sends
    RunOnly,     \* those sent with run_only
    Asking,      \* those whose first turn may stop to ask for an approval
    Guide,       \* operator messages for the running turn
    Proc,        \* incarnations of the service
    Mortal,      \* those that may die
    Failing,     \* those whose worker may see the database fail
    NoOne,       \* '' in worker_owner and run_once_epoch
    MaxQueue     \* MAX_QUEUE

ASSUME CommandAssumption ==
    /\ Cmd # {} /\ RunOnly \subseteq Cmd /\ Asking \subseteq Cmd
    /\ Mortal \subseteq Proc /\ Failing \subseteq Proc
    /\ NoOne \notin Proc
    /\ MaxQueue \in Nat

Turn == Cmd \X {0, 1}
Heir(t) == <<t[1], 1>>

VARIABLES
    queue,     \* the row of agent_command_queues
    line,      \* the queued turns by position
    state,     \* state[t]: the state of t's row of agent_commands
    created,   \* the turns with a row by created_at
    once,      \* once[t]: run_once_epoch of its context
    stopReq,   \* stop_requested in its context
    outcome,   \* the outcome event save_outcome wrote
    verdict,   \* verdict[c]: the approval record of <<c, 0>>
    guide,     \* guide[g]: the row of g and the watcher's progress with it
    worker,    \* worker[p]: p's worker thread
    resolver,  \* resolver[p]: p's approval callback
    dead,      \* the processes that have died
    failed,    \* history: the processes whose worker has raised
    did,       \* history: did[t]: what executing t came to, "begun" before
    stale      \* history: turns queued at a death nobody has resumed since

rows == <<line, state, created, once, stopReq>>
threads == <<worker, resolver, dead, failed>>
past == <<did, stale>>
vars == <<queue, rows, outcome, verdict, guide, threads, past>>

Active == {"running", "stopping"}
Outcomes == {"succeeded", "failed", "interrupted", "awaiting", "unconfirmed"}
States == {"none", "queued", "removed"} \union Active \union Outcomes
Final == {"succeeded", "failed", "interrupted", "removed"}
DecisionPauses == {"awaiting", "approval_continued"}
Reasons == {"", "operator", "restarted", "stopping", "approval_rejected"}
              \union DecisionPauses \union (Outcomes \ {"succeeded"})
OpenGuide == {"queued", "delivering", "delivered"}
GuideStates == {"none", "injected", "not_consumed"} \union OpenGuide
Pcs == {"none", "idle", "claimed", "executing", "ended", "saved"}
Busy == {"claimed", "executing", "ended", "saved"}

Queue == [owner : Proc \union {NoOne}, live : BOOLEAN, paused : BOOLEAN,
          reason : Reasons, epoch : Proc]
GuideRow == [state : GuideStates, turn : Turn,
             hand : {"no", "taken", "accepted", "refused"},
             inbox : BOOLEAN, heard : BOOLEAN]
Worker == [pc : Pcs, turn : Turn, result : Outcomes]
Resolver == [pc : {"none", "accept", "end"}, turn : Turn]

TypeOK ==
    /\ queue \in Queue
    /\ line \in Seq(Turn)
    /\ state \in [Turn -> States]
    /\ created \in Seq(Turn)
    /\ once \in [Turn -> Proc \union {NoOne}]
    /\ stopReq \in [Turn -> BOOLEAN]
    /\ outcome \in [Turn -> Outcomes \union {"none"}]
    /\ verdict \in [Cmd -> {"none", "approved", "rejected"}]
    /\ guide \in [Guide -> GuideRow]
    /\ worker \in [Proc -> Worker]
    /\ resolver \in [Proc -> Resolver]
    /\ dead \subseteq Proc
    /\ failed \subseteq Proc
    /\ did \in [Turn -> Outcomes \union {"none", "begun"}]
    /\ stale \subseteq Turn

SomeTurn == CHOOSE t \in Turn : TRUE
NoWorker == [pc |-> "none", turn |-> SomeTurn, result |-> "failed"]
NoResolver == [pc |-> "none", turn |-> SomeTurn]

Init ==
    /\ \E p \in Proc : queue = [owner |-> NoOne, live |-> FALSE,
                                paused |-> FALSE, reason |-> "", epoch |-> p]
    /\ line = <<>>
    /\ state = [t \in Turn |-> "none"]
    /\ created = <<>>
    /\ once = [t \in Turn |-> NoOne]
    /\ stopReq = [t \in Turn |-> FALSE]
    /\ outcome = [t \in Turn |-> "none"]
    /\ verdict = [c \in Cmd |-> "none"]
    /\ guide = [g \in Guide |-> [state |-> "none", turn |-> SomeTurn, hand |-> "no",
                                 inbox |-> FALSE, heard |-> FALSE]]
    /\ worker = [p \in Proc |-> NoWorker]
    /\ resolver = [p \in Proc |-> NoResolver]
    /\ dead = {} /\ failed = {}
    /\ did = [t \in Turn |-> "none"]
    /\ stale = {}

-----------------------------------------------------------------------------
(* _queue: what accept, claim, control and a snapshot do first. The worker *)
(* of an expired lease gives up its turn and its guides; a process that    *)
(* finds the queue under another epoch, or free after an expiry, holds it  *)
(* when anything is pending.                                               *)
Expired == queue.owner # NoOne /\ ~queue.live

(* Broken on purpose: a stopping turn is not swept.                        *)
SweptIfRunning == [t \in Turn |-> IF Expired /\ state[t] = "running" THEN "unconfirmed"
                                                                     ELSE state[t]]

Swept == [t \in Turn |-> IF Expired /\ state[t] \in Active THEN "unconfirmed"
                                                           ELSE state[t]]

(* Broken on purpose: a guide on its way is forgotten.                     *)
CloseQueuedGuides == [g \in Guide |-> [guide[g] EXCEPT !.state =
                         IF @ = "queued" THEN "not_consumed" ELSE @]]

CloseGuides == [g \in Guide |-> [guide[g] EXCEPT !.state =
                   IF @ \in OpenGuide THEN "not_consumed" ELSE @]]

SweptGuides == IF Expired THEN CloseGuides ELSE guide

(* Broken on purpose: a new process takes the queue over as it is.         *)
SweptQueueIfExpired(p) ==
    IF Expired THEN [owner |-> NoOne, live |-> FALSE, paused |-> TRUE,
                     reason |-> "restarted", epoch |-> p]
               ELSE queue

SweptQueue(p) ==
    LET restarted == queue.epoch # p /\ queue.owner = NoOne
        held == queue.paused \/ \E t \in Turn : Swept[t] \in {"queued", "unconfirmed"}
    IN IF Expired \/ restarted
       THEN [owner |-> NoOne, live |-> FALSE, paused |-> held,
             reason |-> IF ~held THEN ""
                        ELSE IF queue.reason = "operator" THEN "operator" ELSE "restarted",
             epoch |-> p]
       ELSE queue

Queued == {t \in Turn : state[t] = "queued"}
Unconfirmed == \E t \in Turn : Swept[t] = "unconfirmed"

(* _decision_pending: the turn created last among those that have started  *)
(* waits for its approval.                                                 *)
DecisionPending(st) ==
    \E i \in 1..Len(created) :
        /\ st[created[i]] = "awaiting"
        /\ \A j \in (i + 1)..Len(created) : st[created[j]] \in {"queued", "removed"}

(* The line without t, which is in it once.                                *)
Without(t) ==
    LET i == CHOOSE i \in 1..Len(line) : line[i] = t
    IN SubSeq(line, 1, i - 1) \o SubSeq(line, i + 1, Len(line))

-----------------------------------------------------------------------------
(* Admission.                                                              *)

(* Broken on purpose: a snapshot recovers nothing.                         *)
PollOnly(p) == p \notin dead /\ UNCHANGED vars

(* snapshot, or any call that ends in one, by a client or a thread of p.   *)
Poll(p) ==
    /\ p \notin dead
    /\ queue' = SweptQueue(p)
    /\ state' = Swept
    /\ guide' = SweptGuides
    /\ UNCHANGED <<line, created, once, stopReq, outcome, verdict, threads, past>>

(* The queued rows, guides included, which MAX_QUEUE bounds.               *)
Count == Len(line) + Cardinality({g \in Guide : SweptGuides[g].state = "queued"})

(* The INSERT of accept, at the front for a turn that runs alone.          *)
Insert(p, t, front) ==
    /\ Count < MaxQueue
    /\ state' = [Swept EXCEPT ![t] = "queued"]
    /\ line' = IF front THEN <<t>> \o line ELSE Append(line, t)
    /\ created' = Append(created, t)
    /\ once' = [once EXCEPT ![t] = IF front THEN p ELSE NoOne]
    /\ queue' = SweptQueue(p)
    /\ guide' = SweptGuides

(* kick: a process has at most one worker for the conversation. It follows *)
(* the commit of its caller at once here: a process that dies in between   *)
(* leaves what one leaves whose new worker has done nothing yet.           *)
Kicked(p) == [worker EXCEPT ![p].pc = IF @ = "none" THEN "idle" ELSE @]

(* submit: accept and kick, of a message that is sent as such. A request   *)
(* that resumes a checkpoint or answers an interaction, which accept       *)
(* admits as a continuation, is not modelled.                              *)
Submit(p, c) ==
    LET t == <<c, 0>> IN
    /\ p \notin dead /\ state[t] = "none"
    /\ c \in RunOnly => /\ ~Unconfirmed
                        /\ SweptQueue(p).owner = NoOne
                        /\ ~DecisionPending(Swept)
                        /\ SweptQueue(p).paused \/ Count = 0
    /\ Insert(p, t, c \in RunOnly)
    /\ worker' = Kicked(p)
    /\ UNCHANGED <<stopReq, outcome, verdict, resolver, dead, failed, past>>

(* accept of a guide: only a running turn takes one.                       *)
SubmitGuide(p, g) ==
    /\ p \notin dead /\ guide[g].state = "none" /\ Count < MaxQueue
    /\ \E t \in Turn : /\ Swept[t] = "running"
                       /\ guide' = [guide EXCEPT ![g].state = "queued", ![g].turn = t]
    /\ queue' = SweptQueue(p)
    /\ worker' = Kicked(p)
    /\ UNCHANGED <<rows, outcome, verdict, resolver, dead, failed, past>>

-----------------------------------------------------------------------------
(* The worker thread of p: _drain and _run.                                *)

(* Broken on purpose: an unconfirmed turn blocks nothing.                  *)
ClaimableAnyway(p) ==
    /\ SweptQueue(p).owner = NoOne
    /\ line # <<>> /\ Head(line) \in Queued
    /\ DecisionPending(Swept) => Head(line)[2] = 1
    /\ SweptQueue(p).paused => once[Head(line)] = p

(* What claim asks of the queue after the sweep.                           *)
Claimable(p) ==
    /\ SweptQueue(p).owner = NoOne
    /\ ~Unconfirmed
    /\ line # <<>> /\ Head(line) \in Queued
    /\ DecisionPending(Swept) => Head(line)[2] = 1
    /\ SweptQueue(p).paused => once[Head(line)] = p

Claim(p) ==
    /\ worker[p].pc = "idle" /\ Claimable(p)
    /\ worker' = [worker EXCEPT ![p] = [@ EXCEPT !.pc = "claimed", !.turn = Head(line)]]
    /\ queue' = [SweptQueue(p) EXCEPT !.owner = p, !.live = TRUE, !.epoch = p]
    /\ state' = [Swept EXCEPT ![Head(line)] = "running"]
    /\ line' = Tail(line)
    /\ guide' = SweptGuides
    /\ UNCHANGED <<created, once, stopReq, outcome, verdict, resolver, dead,
                   failed, past>>

(* check_approvals: an approval nobody has decided keeps the worker.       *)
Waiting == \E c \in Cmd : state[<<c, 0>>] = "awaiting" /\ verdict[c] = "none"

(* A claim that finds nothing, and the exit under the same lock.           *)
GoIdle(p) ==
    /\ worker[p].pc = "idle" /\ ~Claimable(p)
    /\ worker' = [worker EXCEPT ![p].pc = IF Waiting THEN "idle" ELSE "none"]
    /\ queue' = SweptQueue(p)
    /\ state' = Swept
    /\ guide' = SweptGuides
    /\ UNCHANGED <<line, created, once, stopReq, outcome, verdict, resolver, dead, failed, past>>

(* The look at the row before executing.                                   *)
Begin(p) ==
    LET t == worker[p].turn
        stopped == Swept[t] = "stopping"
    IN  /\ worker[p].pc = "claimed"
        /\ worker' = [worker EXCEPT ![p] =
               IF stopped THEN [@ EXCEPT !.pc = "ended", !.result = "interrupted"]
                          ELSE [@ EXCEPT !.pc = "executing"]]
        /\ did' = [did EXCEPT ![t] = IF stopped THEN "interrupted" ELSE "begun"]
        /\ queue' = SweptQueue(p)
        /\ state' = Swept
        /\ guide' = SweptGuides
        /\ UNCHANGED <<line, created, once, stopReq, outcome, verdict, resolver, dead, failed, stale>>

(* run_turn returns or raises; its inbox goes with it.                     *)
End(p, result) ==
    LET t == worker[p].turn IN
    /\ worker[p].pc = "executing"
    /\ result = "awaiting" => t[2] = 0 /\ t[1] \in Asking
    /\ worker' = [worker EXCEPT ![p] = [@ EXCEPT !.pc = "ended", !.result = result]]
    /\ did' = [did EXCEPT ![t] = result]
    /\ guide' = [g \in Guide |-> [guide[g] EXCEPT !.inbox = @ /\ guide[g].turn # t]]
    /\ UNCHANGED <<queue, rows, outcome, verdict, resolver, dead, failed, stale>>

(* save_outcome.                                                           *)
Save(p) ==
    LET t == worker[p].turn
        result == IF state[t] = "stopping" /\ worker[p].result = "succeeded"
                  THEN "interrupted" ELSE worker[p].result
    IN  /\ worker[p].pc = "ended"
        /\ worker' = [worker EXCEPT ![p].pc = "saved"]
        /\ outcome' = [outcome EXCEPT ![t] = IF @ = "none" THEN result ELSE @]
        /\ UNCHANGED <<queue, rows, verdict, guide, resolver, dead, failed, past>>

(* The queue after its owner has finished with result r.                   *)
Released(r, st) ==
    LET hold == /\ queue.paused
                /\ \/ queue.reason = "operator"
                   \/ r \in DecisionPauses /\ queue.reason \notin DecisionPauses
        done == /\ r = "succeeded" /\ queue.reason \in DecisionPauses
                /\ ~DecisionPending(st)
                /\ \A t \in Turn : st[t] \notin {"queued", "unconfirmed"} \union Active
        free == [queue EXCEPT !.owner = NoOne, !.live = FALSE]
    IN IF r # "succeeded"
       THEN [free EXCEPT !.paused = TRUE, !.reason = IF hold THEN @ ELSE r]
       ELSE IF done THEN [free EXCEPT !.paused = FALSE, !.reason = ""] ELSE free

(* Broken on purpose: the late worker of a lost lease settles its turn.    *)
FinishAnyway(p) ==
    /\ worker[p].pc = "saved"
    /\ worker' = [worker EXCEPT ![p] = [NoWorker EXCEPT !.pc = "idle"]]
    /\ state' = [state EXCEPT ![worker[p].turn] = worker[p].result]
    /\ queue' = IF queue.owner = p THEN Released(worker[p].result, state') ELSE queue
    /\ guide' = CloseGuides
    /\ UNCHANGED <<line, created, once, stopReq, outcome, verdict, resolver, dead, failed, past>>

(* finish: the owner settles its turn, anyone else changes nothing.        *)
Finish(p) ==
    LET t == worker[p].turn
        r == IF state[t] = "stopping" /\ worker[p].result # "unconfirmed"
             THEN "interrupted" ELSE worker[p].result
    IN  /\ worker[p].pc = "saved"
        /\ worker' = [worker EXCEPT ![p] = [NoWorker EXCEPT !.pc = "idle"]]
        /\ IF queue.owner = p
           THEN /\ state' = [state EXCEPT ![t] = r]
                /\ queue' = Released(r, state')
                /\ guide' = CloseGuides
           ELSE UNCHANGED <<state, queue, guide>>
        /\ UNCHANGED <<line, created, once, stopReq, outcome, verdict, resolver, dead, failed, past>>

(* The database refuses claim, save_outcome or finish: the worker goes.    *)
WorkerFails(p) ==
    /\ p \in Failing /\ worker[p].pc \in {"idle", "ended", "saved"}
    /\ worker' = [worker EXCEPT ![p] = NoWorker]
    /\ failed' = failed \union {p}
    /\ UNCHANGED <<queue, rows, outcome, verdict, guide, resolver, dead, past>>

-----------------------------------------------------------------------------
(* The lease, and the guides, which the watcher of a turn hands over.      *)

Heartbeat(p) ==
    /\ worker[p].pc \in {"claimed", "executing"} /\ queue.owner = p
    /\ queue' = [queue EXCEPT !.live = TRUE]
    /\ UNCHANGED <<rows, outcome, verdict, guide, threads, past>>

(* LEASE_SECONDS go by without a heartbeat.                                *)
Expire ==
    /\ queue.owner # NoOne /\ queue.live
    /\ queue' = [queue EXCEPT !.live = FALSE]
    /\ UNCHANGED <<rows, outcome, verdict, guide, threads, past>>

Watches(p, g) == worker[p].pc \in {"claimed", "executing"} /\ worker[p].turn = guide[g].turn

Take(p, g) ==
    /\ Watches(p, g) /\ guide[g].hand = "no" /\ guide[g].state = "queued"
    /\ guide' = [guide EXCEPT ![g].state = "delivering", ![g].hand = "taken"]
    /\ UNCHANGED <<queue, rows, outcome, verdict, threads, past>>

(* signal_steer: only an executing turn has an inbox, and it may be full.  *)
Steer(p, g) ==
    /\ worker[p].turn = guide[g].turn /\ worker[p].pc \in Busy /\ guide[g].hand = "taken"
    /\ \E ok \in BOOLEAN :
          /\ ok => worker[p].pc = "executing"
          /\ guide' = [guide EXCEPT ![g].hand = IF ok THEN "accepted" ELSE "refused",
                                    ![g].inbox = ok]
    /\ UNCHANGED <<queue, rows, outcome, verdict, threads, past>>

(* The UPDATE after signal_steer, which finds the row still 'delivering'   *)
(* or does nothing.                                                        *)
NoteSteer(g) ==
    /\ guide[g].hand \in {"accepted", "refused"}
    /\ guide' = [guide EXCEPT ![g].hand = "no", ![g].state =
           IF @ # "delivering" THEN @
           ELSE IF guide[g].hand = "accepted" THEN "delivered" ELSE "queued"]
    /\ UNCHANGED <<queue, rows, outcome, verdict, threads, past>>

(* The turn reads its inbox and calls consumed.                            *)
Consume(p, g) ==
    /\ worker[p].pc = "executing" /\ worker[p].turn = guide[g].turn /\ guide[g].inbox
    /\ guide' = [guide EXCEPT ![g].inbox = FALSE, ![g].heard = TRUE, ![g].state =
           IF @ \in {"delivering", "delivered"} THEN "injected" ELSE @]
    /\ UNCHANGED <<queue, rows, outcome, verdict, threads, past>>

-----------------------------------------------------------------------------
(* The operator: control and reconcile. A call whose revision is stale is  *)
(* refused, so what is left acts on the rows as they are.                  *)

Pause(p) ==
    /\ p \notin dead
    /\ queue' = [SweptQueue(p) EXCEPT !.paused = TRUE, !.reason = "operator", !.epoch = p]
    /\ state' = Swept /\ guide' = SweptGuides
    /\ UNCHANGED <<line, created, once, stopReq, outcome, verdict, threads, past>>

(* Broken on purpose: nobody is told of the resumed queue.                 *)
ResumeUnkicked(p) ==
    /\ p \notin dead /\ ~DecisionPending(Swept) /\ ~Unconfirmed
    /\ queue' = [SweptQueue(p) EXCEPT !.paused = FALSE, !.reason = "", !.epoch = p]
    /\ state' = Swept /\ guide' = SweptGuides /\ stale' = {}
    /\ UNCHANGED <<line, created, once, stopReq, outcome, verdict, worker, resolver, dead,
                   failed, did>>

Resume(p) ==
    /\ p \notin dead /\ ~DecisionPending(Swept) /\ ~Unconfirmed
    /\ queue' = [SweptQueue(p) EXCEPT !.paused = FALSE, !.reason = "", !.epoch = p]
    /\ state' = Swept /\ guide' = SweptGuides
    /\ worker' = Kicked(p)
    /\ stale' = {}
    /\ UNCHANGED <<line, created, once, stopReq, outcome, verdict, resolver, dead,
                   failed, did>>

Stop(p, t) ==
    /\ p \notin dead /\ Swept[t] \in Active
    /\ state' = [state EXCEPT ![t] = "stopping"]
    /\ stopReq' = [stopReq EXCEPT ![t] = TRUE]
    /\ queue' = [queue EXCEPT !.paused = TRUE, !.reason =
           IF queue.paused /\ @ = "operator" THEN @ ELSE "stopping"]
    /\ UNCHANGED <<line, created, once, outcome, verdict, guide, threads, past>>

Remove(p, t) ==
    /\ p \notin dead /\ state[t] = "queued"
    /\ line' = Without(t)
    /\ state' = [Swept EXCEPT ![t] = "removed"]
    /\ queue' = SweptQueue(p) /\ guide' = SweptGuides
    /\ UNCHANGED <<created, once, stopReq, outcome, verdict, threads, past>>

(* move: to the end, or before another queued turn.                        *)
Move(p, t, n) ==
    LET rest == Without(t) IN
    /\ p \notin dead /\ state[t] = "queued" /\ n <= Len(rest)
    /\ line' = SubSeq(rest, 1, n) \o <<t>> \o SubSeq(rest, n + 1, Len(rest))
    /\ state' = Swept
    /\ queue' = SweptQueue(p) /\ guide' = SweptGuides
    /\ UNCHANGED <<created, once, stopReq, outcome, verdict, threads, past>>

(* Broken on purpose: an outcome is taken for a success.                   *)
ReconciledByPresence(t) == IF stopReq[t] THEN "interrupted" ELSE "succeeded"

(* Broken on purpose: the stop request is not looked at.                   *)
ReconciledAsSaved(t) == outcome[t]

(* What reconcile makes of the saved outcome. The other evidence it may    *)
(* use, an assistant message with the command's id in its meta, is written *)
(* only by finish, so after the outcome: a turn without the one has not    *)
(* the other.                                                              *)
Reconciled(t) == IF outcome[t] = "succeeded" /\ stopReq[t] THEN "interrupted" ELSE outcome[t]

Reconcile(t) ==
    /\ dead # Proc /\ state[t] = "unconfirmed"
    /\ outcome[t] \notin {"none", "unconfirmed"}
    /\ state' = [state EXCEPT ![t] = Reconciled(t)]
    /\ UNCHANGED <<queue, line, created, once, stopReq, outcome, verdict, guide,
                   threads, past>>

-----------------------------------------------------------------------------
(* Approvals: resolve_approval, called by callbacks, by the worker and by  *)
(* reconcile, as often as they like. financial_decision, which continues a *)
(* turn after a decision on funds in much the same steps, is not modelled. *)

Decide(c, v) ==
    /\ did[<<c, 0>>] = "awaiting" /\ verdict[c] = "none"
    /\ verdict' = [verdict EXCEPT ![c] = v]
    /\ UNCHANGED <<queue, rows, outcome, guide, threads, past>>

(* end_decision; a turn that no longer waits is left alone.                *)
EndDecision(t, final, why) ==
    IF state[t] = "awaiting"
    THEN /\ state' = [state EXCEPT ![t] = final]
         /\ queue' = [queue EXCEPT !.paused = TRUE, !.reason =
                IF queue.paused /\ @ \notin DecisionPauses THEN @ ELSE why]
    ELSE UNCHANGED <<state, queue>>

(* The first transaction.                                                  *)
Resolve(p, c) ==
    LET t == <<c, 0>> IN
    /\ p \notin dead /\ resolver[p].pc = "none" /\ verdict[c] # "none"
    /\ \/ /\ state[Heir(t)] # "none"
          /\ EndDecision(t, "succeeded", "approval_continued")
          /\ UNCHANGED resolver
       \/ /\ state[Heir(t)] = "none" /\ verdict[c] = "rejected"
          /\ EndDecision(t, "interrupted", "approval_rejected")
          /\ UNCHANGED resolver
       \/ /\ state[Heir(t)] = "none" /\ verdict[c] = "approved" /\ state[t] = "awaiting"
          /\ resolver' = [resolver EXCEPT ![p] = [pc |-> "accept", turn |-> t]]
          /\ UNCHANGED <<state, queue>>
    /\ UNCHANGED <<line, created, once, stopReq, outcome, verdict, guide, worker, dead, failed, past>>

(* accept of the continuation, whose context is the original's.            *)
ResolveAccept(p) ==
    LET t == resolver[p].turn
        h == Heir(t)
        refused == Unconfirmed \/ SweptQueue(p).owner # NoOne \/ Count >= MaxQueue
    IN
    /\ resolver[p].pc = "accept"
    /\ \/ /\ state[h] # "none"
          /\ resolver' = [resolver EXCEPT ![p].pc = "end"]
          /\ queue' = SweptQueue(p) /\ state' = Swept /\ guide' = SweptGuides
          /\ UNCHANGED <<line, created, once, stopReq>>
       \/ /\ state[h] = "none" /\ refused
          /\ resolver' = [resolver EXCEPT ![p] = NoResolver]
          /\ UNCHANGED <<queue, rows, guide>>
       \/ /\ state[h] = "none" /\ ~refused
          /\ Insert(p, h, TRUE)
          /\ stopReq' = [stopReq EXCEPT ![h] = stopReq[t]]
          /\ resolver' = [resolver EXCEPT ![p].pc = "end"]
    /\ UNCHANGED <<outcome, verdict, worker, dead, failed, past>>

ResolveEnd(p) ==
    /\ resolver[p].pc = "end"
    /\ EndDecision(resolver[p].turn, "succeeded", "approval_continued")
    /\ resolver' = [resolver EXCEPT ![p] = NoResolver]
    /\ worker' = Kicked(p)
    /\ UNCHANGED <<line, created, once, stopReq, outcome, verdict, guide, dead, failed,
                   past>>

-----------------------------------------------------------------------------
(* A process dies with its threads and the inbox of its turn.              *)
Die(p) ==
    /\ p \in Mortal \ dead
    /\ dead' = dead \union {p}
    /\ worker' = [worker EXCEPT ![p] = NoWorker]
    /\ resolver' = [resolver EXCEPT ![p] = NoResolver]
    /\ guide' = [g \in Guide |->
           IF worker[p].pc \in Busy /\ worker[p].turn = guide[g].turn
           THEN [guide[g] EXCEPT !.hand = "no", !.inbox = FALSE] ELSE guide[g]]
    /\ stale' = IF queue.epoch = p \/ queue.owner = p
                THEN stale \union {t \in Turn : state[t] = "queued" /\ once[t] \in {p, NoOne}}
                ELSE stale
    /\ UNCHANGED <<queue, rows, outcome, verdict, failed, did>>

Next ==
    \/ Expire
    \/ \E p \in Proc :
          \/ Poll(p) \/ Pause(p) \/ Resume(p) \/ Die(p)
          \/ Claim(p) \/ GoIdle(p) \/ Begin(p) \/ Save(p) \/ Finish(p)
          \/ WorkerFails(p) \/ Heartbeat(p) \/ ResolveAccept(p) \/ ResolveEnd(p)
          \/ \E r \in Outcomes : End(p, r)
          \/ \E c \in Cmd : Submit(p, c) \/ Resolve(p, c)
          \/ \E t \in Turn : \/ Stop(p, t) \/ Remove(p, t)
                             \/ \E n \in 0..Len(line) : Move(p, t, n)
          \/ \E g \in Guide : SubmitGuide(p, g) \/ Take(p, g) \/ Steer(p, g) \/ Consume(p, g)
    \/ \E g \in Guide : NoteSteer(g)
    \/ \E t \in Turn : Reconcile(t)
    \/ \E c \in Cmd, v \in {"approved", "rejected"} : Decide(c, v)

Spec == Init /\ [][Next]_vars

(* Threads of a living process run, time passes for a lease nobody renews, *)
(* and some living process keeps being asked for its snapshot. Executing a *)
(* turn, the operator and the faults are under no obligation.              *)
Unattended(p) == queue.owner = p /\ worker[p].pc \notin {"claimed", "executing"}

FairSpec ==
    /\ Spec
    /\ WF_vars(\E p \in Proc : Unattended(p) /\ Expire)
    /\ \A p \in Proc : /\ WF_vars(Poll(p))
                       /\ WF_vars(Claim(p)) /\ WF_vars(GoIdle(p)) /\ WF_vars(Begin(p))
                       /\ WF_vars(Save(p)) /\ WF_vars(Finish(p))

-----------------------------------------------------------------------------
(* Properties.                                                             *)

Executing(p, t) == worker[p].pc = "executing" /\ worker[p].turn = t

(* Two turns of a conversation are never executed at the same time, in one *)
(* process or in two, whatever leases expire under a turn that still runs  *)
(* and whatever the operator reconciles (claim and the unconfirmed state).  *)
OneAtATime ==
    \A p, q \in Proc : \A t, u \in Turn :
        Executing(p, t) /\ Executing(q, u) => p = q

(* The queue has an owner exactly while one of its turns is running or     *)
(* stopping, and never two: no path leaves a lease without a turn, which   *)
(* would block the queue, or a running turn that no sweep would find.      *)
LeaseMatchesTurn ==
    /\ queue.owner # NoOne <=> \E t \in Turn : state[t] \in Active
    /\ \A t, u \in Turn : state[t] \in Active /\ state[u] \in Active => t = u

(* A turn counts as succeeded only if executing it succeeded, or if it     *)
(* stopped for an approval that was given and its continuation is in the   *)
(* queue's records (finish, reconcile, end_decision).                      *)
SuccessIsReal ==
    \A t \in Turn : state[t] = "succeeded" =>
        \/ did[t] = "succeeded"
        \/ did[t] = "awaiting" /\ verdict[t[1]] = "approved" /\ state[Heir(t)] # "none"

(* The stop was sent to t itself: a continuation has its original's too.   *)
OwnStop(t) == stopReq[t] /\ (t[2] = 1 => ~stopReq[<<t[1], 0>>])

(* A stop the operator was told of is reported as the end of its turn even *)
(* if the turn succeeds meanwhile or is settled only by reconcile. Out of  *)
(* this is a turn that stopped to ask for an approval: reconcile restores  *)
(* its wait, and the approval then settles it as continued.                *)
StopWins ==
    \A t \in Turn : OwnStop(t) /\ did[t] # "awaiting" => state[t] # "succeeded"

(* No guide stays open once its turn is over, and a guide reported as      *)
(* injected was read by the turn it was sent to.                           *)
GuidesSettle ==
    \A g \in Guide :
        /\ guide[g].state \in OpenGuide => state[guide[g].turn] \in Active
        /\ guide[g].state = "injected" => guide[g].heard

(* The queue could be drained, and nothing is left to wait for.            *)
Drainable == /\ queue.owner = NoOne /\ ~queue.paused /\ line # <<>>
             /\ \A t \in Turn : state[t] \notin {"unconfirmed", "awaiting"}

(* While no worker has died, a queue that could be drained has a worker:   *)
(* the last claim of a worker and its exit leave no command behind, and    *)
(* everything that makes the queue drainable again kicks one.              *)
NoStranding ==
    Drainable /\ dead = {} /\ failed = {} =>
        \E p \in Proc : worker[p].pc # "none"

(* What the operator and the clients were told stays: a settled turn is    *)
(* never changed again, and a turn is executed at most once.               *)
SettledStays ==
    [][/\ \A t \in Turn : state[t] \in Final => state'[t] = state[t]
       /\ \A p \in Proc : \A t \in Turn :
             Executing(p, t)' /\ ~Executing(p, t) => did[t] = "none"]_vars

(* A turn that was queued when its process died runs in another only after *)
(* the operator has resumed the queue there.                               *)
RestartAsks ==
    [][\A t \in stale : state'[t] # "running"]_vars

(* A turn is running or stopping in the rows, and no worker has it.        *)
Orphaned == \E t \in Turn :
                /\ state[t] \in Active
                /\ ~\E p \in Proc : worker[p].turn = t /\ worker[p].pc \in Busy

(* A turn whose process has died, or whose worker could not finish it, does *)
(* not stay running in the eyes of the operator: it turns unconfirmed.     *)
OrphansSurface == Orphaned ~> (~Orphaned \/ dead = Proc)

(* With one process left, a drainable queue that has that process's epoch  *)
(* and worker, or still the epoch of a dead one, is drained or held at     *)
(* last, unless the worker dies of the database.                           *)
Left(p) == /\ Drainable /\ dead = Proc \ {p}
           /\ queue.epoch \in dead \/ worker[p].pc # "none"
Drains == (\E p \in Proc : Left(p)) ~> (~Drainable \/ dead = Proc \/ failed # {})

(* No turn starts while another waits for its decision, except the         *)
(* continuation that resolves it.                                          *)
DecisionHolds ==
    [][\A t, u \in Turn :
          state[t] = "awaiting" /\ state[u] = "queued" /\ state'[u] = "running"
              => u = Heir(t)]_vars
=============================================================================
