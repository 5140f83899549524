----------------------------- MODULE WalletSwap -----------------------------
(***************************************************************************)
(* Swaps of a wallet that an operator approves one by one: the approval in *)
(* approval_service.py, its execution and reconciliation in                *)
(* wallet/swap_approval.py, the state file of wallet/execution_state.py    *)
(* and the booking of wallet/strategy_execution.py.                        *)
(*                                                                         *)
(* A swap of Swap is one approval id with its frozen request. A worker of  *)
(* Worker is one call: a request, a decision with the execution it starts, *)
(* a second delivery of an approval, or a reconciliation by the server's   *)
(* loop, the guard or an HTTP client. Every write of a row or a file is a  *)
(* step, and the call may die before each.                                 *)
(***************************************************************************)
EXTENDS Integers, FiniteSets

CONSTANTS
    Swap,       \* approval ids
    NoSwap,
    Chain,
    ChainOf,    \* the chain of a swap, which its file lock is named after
    Early,      \* swaps whose provider knows the identity before it sends
    Worker,     \* concurrent calls
    MaxFaults   \* how many calls die or lose the database while they book

ASSUME SwapAssumption ==
    /\ NoSwap \notin Swap
    /\ ChainOf \in [Swap -> Chain]
    /\ Early \subseteq Swap
    /\ MaxFaults \in Nat

VARIABLES
    approval,   \* approval[s]: the state of the row of approvals
    shown,      \* the swaps in the file of pending approvals
    filed,      \* filed[s]: the file of decided approvals that holds s
    expired,    \* the swaps whose expires_at has passed
    exec,       \* exec[s]: the state file
    fate,       \* the network: what has become of the transaction; "short" if
                \* it landed and its receiver got nothing
    book,       \* book[s]: the order, its fill and the strategy's position
    worker,     \* worker[w]: a call under way
    sent,       \* history: how many times s was sent
    torn,       \* history: the swaps whose booking stopped between two writes
    faults

papers == <<approval, shown, filed, expired>>
network == <<fate, sent>>
vars == <<papers, exec, network, book, worker, torn, faults>>

(* "resumed" stands for resumed and resume_failed, "rejected" for the      *)
(* decisions other than an approval.                                       *)
ApprovalStates == {"none", "pending", "approved", "rejected", "resuming", "resumed"}
Unresolved == {"submitting", "submitted", "unknown"}
Ends == {"landed", "short", "failed"}
Exec == [status : {"none", "confirmed", "failed"} \union Unresolved,
         known : BOOLEAN, booked : BOOLEAN]
Book == [fill : BOOLEAN, rolled : BOOLEAN, size : Nat, event : BOOLEAN]

Deciding == {"deciding", "filing"}
InProvider == {"submitting", "signed", "sent"}
Booking == {"booking", "rolling", "applying", "sharing", "noting"}
Holding == InProvider \union Booking \union {"quoting", "asking"}
Pcs == {"idle", "asked", "decided", "dispatch", "claimed", "finish"} \union Deciding \union Holding
Call == [pc : Pcs, swap : Swap \union {NoSwap}, seen : SUBSET Swap,
         verdict : {"none", "approved", "rejected"}, again : BOOLEAN]

TypeOK ==
    /\ approval \in [Swap -> ApprovalStates]
    /\ shown \subseteq Swap
    /\ filed \in [Swap -> {"none", "approved", "rejected"}]
    /\ expired \subseteq Swap
    /\ exec \in [Swap -> Exec]
    /\ fate \in [Swap -> {"none", "pending"} \union Ends]
    /\ book \in [Swap -> Book]
    /\ worker \in [Worker -> Call]
    /\ sent \in [Swap -> Nat]
    /\ torn \subseteq Swap
    /\ faults \in 0..MaxFaults

Idle == [pc |-> "idle", swap |-> NoSwap, seen |-> {}, verdict |-> "none", again |-> FALSE]

Init ==
    /\ approval = [s \in Swap |-> "none"]
    /\ shown = {}
    /\ filed = [s \in Swap |-> "none"]
    /\ expired = {}
    /\ exec = [s \in Swap |-> [status |-> "none", known |-> FALSE, booked |-> FALSE]]
    /\ fate = [s \in Swap |-> "none"]
    /\ book = [s \in Swap |-> [fill |-> FALSE, rolled |-> FALSE, size |-> 0,
                               event |-> FALSE]]
    /\ worker = [w \in Worker |-> Idle]
    /\ sent = [s \in Swap |-> 0]
    /\ torn = {}
    /\ faults = 0

At(w, pc) == worker[w].pc = pc
Goto(w, pc) == worker' = [worker EXCEPT ![w].pc = pc]
Return(w) == worker' = [worker EXCEPT ![w] = Idle]
Enter(w, s, pc) ==
    /\ At(w, "idle")
    /\ worker' = [worker EXCEPT ![w] = [Idle EXCEPT !.pc = pc, !.swap = s]]

-----------------------------------------------------------------------------
(* request_approval: the row, then the line of the pending file.           *)

RequestInsert(w, s) ==
    /\ approval[s] = "none"
    /\ approval' = [approval EXCEPT ![s] = "pending"]
    /\ Enter(w, s, "asked")
    /\ UNCHANGED <<shown, filed, expired, exec, network, book, torn, faults>>

RequestShow(w) ==
    /\ At(w, "asked")
    /\ shown' = shown \union {worker[w].swap}
    /\ Return(w)
    /\ UNCHANGED <<approval, filed, expired, exec, network, book, torn, faults>>

-----------------------------------------------------------------------------
(* move: under a lock that moves share, and appends to the pending file do *)
(* not take, the file is read and replaced by what was read without s,     *)
(* which is then filed. The row follows if the database allows. Only an    *)
(* approval minds the expiry; the sweep of expired requests is a rejection.*)

(* Broken on purpose: moves do not exclude each other.                     *)
ReadUnlocked(w, s, verdict) ==
    /\ s \in shown
    /\ verdict = "approved" => s \notin expired
    /\ At(w, "idle")
    /\ worker' = [worker EXCEPT ![w] = [Idle EXCEPT !.pc = "deciding", !.swap = s,
                                                   !.seen = shown, !.verdict = verdict]]
    /\ UNCHANGED <<papers, exec, network, book, torn, faults>>

DecideRead(w, s, verdict) ==
    /\ s \in shown
    /\ verdict = "approved" => s \notin expired
    /\ \A v \in Worker : worker[v].pc \notin Deciding
    /\ At(w, "idle")
    /\ worker' = [worker EXCEPT ![w] = [Idle EXCEPT !.pc = "deciding", !.swap = s,
                                                   !.seen = shown, !.verdict = verdict]]
    /\ UNCHANGED <<papers, exec, network, book, torn, faults>>

DecideReplace(w) ==
    /\ At(w, "deciding")
    /\ shown' = worker[w].seen \ {worker[w].swap}
    /\ worker' = [worker EXCEPT ![w].pc = "filing", ![w].seen = {}]
    /\ UNCHANGED <<approval, filed, expired, exec, network, book, torn, faults>>

DecideFile(w) ==
    /\ At(w, "filing")
    /\ filed' = [filed EXCEPT ![worker[w].swap] = worker[w].verdict]
    /\ worker' = [worker EXCEPT ![w].pc = "decided", ![w].verdict = "none"]
    /\ UNCHANGED <<approval, shown, expired, exec, network, book, torn, faults>>

(* set_state, unconditional, whose failure is ignored; publish_resolution  *)
(* goes on with an approval.                                               *)
DecideNote(w) ==
    LET s == worker[w].swap
    IN /\ At(w, "decided")
       /\ \/ approval' = [approval EXCEPT ![s] = filed[s]]
          \/ UNCHANGED approval
       /\ IF filed[s] = "approved" THEN Goto(w, "dispatch") ELSE Return(w)
       /\ UNCHANGED <<shown, filed, expired, exec, network, book, torn, faults>>

-----------------------------------------------------------------------------
(* resume_approved. The file says approved, and the row is claimed once;   *)
(* a claim is never taken over.                                            *)

(* Broken on purpose: the claim of a call that died is taken over.         *)
Reclaimed(w, s) == approval[s] \in {"approved", "resuming"}

Claimable(w, s) == approval[s] = "approved"

Claim(w, s) ==
    /\ filed[s] = "approved"
    /\ \/ At(w, "dispatch") /\ worker[w].swap = s
       \/ At(w, "idle")
    /\ Claimable(w, s)
    /\ approval' = [approval EXCEPT ![s] = "resuming"]
    /\ worker' = [worker EXCEPT ![w] = [Idle EXCEPT !.pc = "claimed", !.swap = s]]
    /\ UNCHANGED <<shown, filed, expired, exec, network, book, torn, faults>>

NotClaimed(w) ==
    /\ At(w, "dispatch")
    /\ ~Claimable(w, worker[w].swap)
    /\ Return(w)
    /\ UNCHANGED <<papers, exec, network, book, torn, faults>>

(* execute_frozen_swap, under the file lock of the chain: the live         *)
(* controls, the expiry, and the state files of this swap and of the       *)
(* others of the chain; then a quote of the network. The controls are read *)
(* again before the submission; nothing here writes them, so either read   *)
(* may pass, or may be a reason to Refuse.                                 *)
Free(c) == \A w \in Worker :
               worker[w].pc \in Holding => ChainOf[worker[w].swap] # c

(* Broken on purpose: only a submission under way counts as unresolved.    *)
UnresolvedIfSubmitting(s) ==
    /\ exec[s].status \notin Unresolved \union {"confirmed"}
    /\ \A t \in Swap : ChainOf[t] = ChainOf[s] => exec[t].status \notin {"submitting", "submitted"}

Admissible(s) ==
    /\ exec[s].status \notin Unresolved \union {"confirmed"}
    /\ \A t \in Swap : ChainOf[t] = ChainOf[s] => exec[t].status \notin Unresolved

Quote(w) ==
    LET s == worker[w].swap
    IN /\ At(w, "claimed")
       /\ Free(ChainOf[s])
       /\ s \notin expired
       /\ Admissible(s)
       /\ Goto(w, "quoting")
       /\ UNCHANGED <<papers, exec, network, book, torn, faults>>

(* The lock is taken, a check fails, or the quote or one of the policies   *)
(* of account, strategy and wallet does: the approval is used up.          *)
Refuse(w) ==
    /\ worker[w].pc \in {"claimed", "quoting"}
    /\ Goto(w, "finish")
    /\ UNCHANGED <<papers, exec, network, book, torn, faults>>

Write(s, status) == exec' = [exec EXCEPT ![s].status = status]

Begin(w) ==
    /\ At(w, "quoting")
    /\ Write(worker[w].swap, "submitting")
    /\ Goto(w, "submitting")
    /\ UNCHANGED <<papers, network, book, torn, faults>>

(* on_broadcast: the identity is on disk before or after the transaction   *)
(* is sent, as the provider has it.                                        *)
Record(w) ==
    LET s == worker[w].swap
    IN /\ \/ At(w, "submitting") /\ s \in Early /\ Goto(w, "signed")
          \/ At(w, "sent") /\ s \notin Early /\ ~exec[s].known /\ UNCHANGED worker
       /\ exec' = [exec EXCEPT ![s].status = "submitted", ![s].known = TRUE]
       /\ UNCHANGED <<papers, network, book, torn, faults>>

Send(w) ==
    LET s == worker[w].swap
    IN /\ At(w, IF s \in Early THEN "signed" ELSE "submitting")
       /\ fate' = [fate EXCEPT ![s] = "pending"]
       /\ sent' = [sent EXCEPT ![s] = @ + 1]
       /\ Goto(w, "sent")
       /\ UNCHANGED <<papers, exec, book, torn, faults>>

(* The provider raises. What it refused was not sent.                      *)
(* Broken on purpose: an error after the broadcast counts as a failure.    *)
RaisedAsFailed(w, s) == {"failed"}

Raised(w, s) == IF exec[s].known THEN {"submitted"}
                ELSE IF At(w, "submitting") THEN {"failed", "unknown"} ELSE {"unknown"}

Raise(w) ==
    LET s == worker[w].swap
    IN /\ worker[w].pc \in InProvider
       /\ \E status \in Raised(w, s) : Write(s, status)
       /\ Goto(w, "finish")
       /\ UNCHANGED <<papers, network, book, torn, faults>>

(* The provider answers: confirmed with an amount received, failed, or     *)
(* anything else. A confirmed swap whose receipt shows that nothing was    *)
(* received is called failed.                                              *)
AnswerConfirmed(w) ==
    LET s == worker[w].swap
    IN /\ At(w, "sent") /\ exec[s].known /\ fate[s] = "landed"
       /\ Write(s, "confirmed")
       /\ Goto(w, "booking")
       /\ UNCHANGED <<papers, network, book, torn, faults>>

AnswerFailed(w) ==
    LET s == worker[w].swap
    IN /\ At(w, "sent") /\ fate[s] \in {"failed", "short"}
       /\ Write(s, "failed")
       /\ Goto(w, "finish")
       /\ UNCHANGED <<papers, network, book, torn, faults>>

AnswerOpen(w) ==
    LET s == worker[w].swap
    IN /\ At(w, "sent")
       /\ Write(s, IF exec[s].known THEN "submitted" ELSE "unknown")
       /\ Goto(w, "finish")
       /\ UNCHANGED <<papers, network, book, torn, faults>>

(* finish_resume.                                                          *)
Finish(w) ==
    LET s == worker[w].swap
    IN /\ At(w, "finish")
       /\ approval' = [approval EXCEPT ![s] = IF @ = "resuming" THEN "resumed" ELSE @]
       /\ Return(w)
       /\ UNCHANGED <<shown, filed, expired, exec, network, book, torn, faults>>

-----------------------------------------------------------------------------
(* record_fill, reached with the lock of the chain by an execution or, as  *)
(* often as anyone asks, by a reconciliation: the INSERT of the fill, the  *)
(* order's totals, the position.                                           *)

Leave(w) == IF worker[w].again THEN Return(w) ELSE Goto(w, "finish")

BookInsert(w) ==
    LET s == worker[w].swap
    IN /\ At(w, "booking") /\ ~book[s].rolled /\ ~book[s].fill
       /\ book' = [book EXCEPT ![s].fill = TRUE]
       /\ Goto(w, "rolling")
       /\ UNCHANGED <<papers, exec, network, torn, faults>>

(* The fill exists and the totals lack it: IntegrityError.                 *)
BookClash(w) ==
    LET s == worker[w].swap
    IN /\ At(w, "booking") /\ ~book[s].rolled /\ book[s].fill
       /\ Leave(w)
       /\ UNCHANGED <<papers, exec, network, book, torn, faults>>

BookFound(w) ==
    /\ At(w, "booking") /\ book[worker[w].swap].rolled
    /\ Goto(w, "applying")
    /\ UNCHANGED <<papers, exec, network, book, torn, faults>>

BookRoll(w) ==
    /\ At(w, "rolling")
    /\ book' = [book EXCEPT ![worker[w].swap].rolled = TRUE]
    /\ Goto(w, "applying")
    /\ UNCHANGED <<papers, exec, network, torn, faults>>

(* apply_fill: nothing if the fill has an event; a first position writes   *)
(* the event and then the share, a later fill the share and then the event.*)

(* Broken on purpose: the event of the fill is not looked for.             *)
AppliesAlways(s) == TRUE

Applies(s) == ~book[s].event

BookOpen(w) ==
    LET s == worker[w].swap
    IN /\ At(w, "applying") /\ Applies(s)
       /\ book' = [book EXCEPT ![s].event = TRUE]
       /\ Goto(w, "sharing")
       /\ UNCHANGED <<papers, exec, network, torn, faults>>

BookShare(w) ==
    LET s == worker[w].swap
    IN /\ \/ At(w, "applying") /\ Applies(s) /\ Goto(w, "noting")
          \/ At(w, "sharing") /\ Goto(w, "applying")
       /\ book' = [book EXCEPT ![s].size = @ + 1]
       /\ UNCHANGED <<papers, exec, network, torn, faults>>

BookNote(w) ==
    /\ At(w, "noting")
    /\ book' = [book EXCEPT ![worker[w].swap].event = TRUE]
    /\ Goto(w, "applying")
    /\ UNCHANGED <<papers, exec, network, torn, faults>>

Booked(w) ==
    LET s == worker[w].swap
    IN /\ At(w, "applying") /\ ~Applies(s)
       /\ exec' = [exec EXCEPT ![s].status = "confirmed", ![s].booked = TRUE]
       /\ Leave(w)
       /\ UNCHANGED <<papers, network, book, torn, faults>>

-----------------------------------------------------------------------------
(* reconcile_execution, called by reconcile_pending and for the status of  *)
(* a swap.                                                                 *)

(* Broken on purpose: only what is confirmed and booked is looked up.      *)
LooksUpConfirmed(s) == exec[s].status = "confirmed"

LooksUp(s) == exec[s].status = "confirmed" \/ (exec[s].status = "submitted" /\ exec[s].known)

Reconcile(w, s) ==
    /\ At(w, "idle") /\ Free(ChainOf[s]) /\ LooksUp(s)
    /\ worker' = [worker EXCEPT ![w] = [Idle EXCEPT !.swap = s, !.again = TRUE,
           !.pc = IF exec[s].status = "confirmed" THEN "booking" ELSE "asking"]]
    /\ UNCHANGED <<papers, exec, network, book, torn, faults>>

AskLanded(w) ==
    /\ At(w, "asking") /\ fate[worker[w].swap] = "landed"
    /\ Goto(w, "booking")
    /\ UNCHANGED <<papers, exec, network, book, torn, faults>>

AskFailed(w) ==
    LET s == worker[w].swap
    IN /\ At(w, "asking") /\ fate[s] = "failed"
       /\ Write(s, "failed")
       /\ Return(w)
       /\ UNCHANGED <<papers, network, book, torn, faults>>

(* Still open, without evidence of an amount received, or nobody answers:  *)
(* a swap that brought nothing stays submitted.                            *)
AskOpen(w) ==
    /\ At(w, "asking")
    /\ Return(w)
    /\ UNCHANGED <<papers, exec, network, book, torn, faults>>

-----------------------------------------------------------------------------
(* The world.                                                              *)

Settle(s) ==
    /\ fate[s] = "pending"
    /\ \E end \in Ends : fate' = [fate EXCEPT ![s] = end]
    /\ UNCHANGED <<papers, exec, sent, book, worker, torn, faults>>

(* An expiry after the claim is one more reason to Refuse.                 *)
Expire(s) ==
    /\ approval[s] \in {"pending", "approved"} /\ s \notin expired
    /\ expired' = expired \union {s}
    /\ UNCHANGED <<approval, shown, filed, exec, network, book, worker, torn, faults>>

Torn(w) == IF worker[w].pc \in {"rolling", "sharing", "noting"}
           THEN torn \union {worker[w].swap} ELSE torn

(* A call dies and its file locks with it, or the database fails it while  *)
(* it books.                                                               *)
Die(w) ==
    /\ ~At(w, "idle") /\ faults < MaxFaults
    /\ faults' = faults + 1
    /\ torn' = Torn(w)
    /\ \/ Return(w)
       \/ worker[w].pc \in Booking /\ Leave(w)
    /\ UNCHANGED <<papers, exec, network, book>>

Executes(w) ==
    \/ NotClaimed(w) \/ Quote(w) \/ Refuse(w) \/ Begin(w) \/ Record(w) \/ Send(w) \/ Raise(w)
    \/ AnswerConfirmed(w) \/ AnswerFailed(w) \/ AnswerOpen(w) \/ Finish(w)
    \/ AskLanded(w) \/ AskFailed(w) \/ AskOpen(w)
    \/ \E s \in Swap : Claim(w, s) /\ At(w, "dispatch")

Books(w) ==
    \/ BookInsert(w) \/ BookClash(w) \/ BookFound(w) \/ BookRoll(w)
    \/ BookOpen(w) \/ BookShare(w) \/ BookNote(w) \/ Booked(w)

Decides(w) ==
    \/ RequestShow(w) \/ DecideReplace(w) \/ DecideFile(w) \/ DecideNote(w)

Next ==
    \/ \E w \in Worker :
          \/ Decides(w) \/ Executes(w) \/ Books(w) \/ Die(w)
          \/ \E s \in Swap : RequestInsert(w, s) \/ Claim(w, s) \/ Reconcile(w, s)
          \/ \E s \in Swap, verdict \in {"approved", "rejected"} : DecideRead(w, s, verdict)
    \/ \E s \in Swap : Settle(s) \/ Expire(s)

Spec == Init /\ [][Next]_vars

(* Calls go on unless they die, some loop comes round to every swap it     *)
(* looks up, and a network that is asked again and again tells at last     *)
(* what it knows.                                                          *)
FairSpec ==
    /\ Spec
    /\ \A w \in Worker : WF_vars(Decides(w) \/ Executes(w) \/ Books(w))
    /\ \A s \in Swap :
          /\ SF_vars(\E w \in Worker : Reconcile(w, s))
          /\ SF_vars(\E w \in Worker : worker[w].swap = s /\ (AskLanded(w) \/ AskFailed(w)))

-----------------------------------------------------------------------------
(* Properties.                                                             *)

(* However often an approval is delivered, whoever dies and whatever is    *)
(* reconciled, a swap is sent at most once (the claim of resume_approved   *)
(* and the state file).                                                    *)
SentOnce == \A s \in Swap : sent[s] <= 1

(* The swaps of a chain may share a signer: none is sent while another one *)
(* of the chain is on its way, known or forgotten by the process that sent *)
(* it.                                                                     *)
OneOnItsWay ==
    \A s, t \in Swap : /\ ChainOf[s] = ChainOf[t]
                       /\ fate[s] = "pending" /\ fate[t] = "pending"
                       => s = t

(* The state file never denies what the network has: a swap that was sent  *)
(* is on file, "failed" never stands for one that may land or that brought *)
(* anything, though it may have landed and brought nothing, and            *)
(* "confirmed" only for one that brought what it was sent for.             *)
VerdictIsTrue ==
    \A s \in Swap :
        /\ fate[s] # "none" => exec[s].status # "none"
        /\ exec[s].status = "failed" => fate[s] \in {"none", "failed", "short"}
        /\ exec[s].status = "confirmed" => fate[s] = "landed"

(* What the operator's file says in the end is what was done: a swap on    *)
(* file as rejected was not sent, though two answers to one card may race. *)
OperatorObeyed == \A s \in Swap : sent[s] > 0 => filed[s] = "approved"

(* Unless its booking stopped between two writes, a swap is in the         *)
(* strategy's position once when it is booked, and never twice, however    *)
(* often it is reconciled.                                                 *)
BookedOnce ==
    \A s \in Swap \ torn :
        /\ book[s].size <= 1
        /\ exec[s].booked => book[s].size = 1

(* A swap that has landed and brought something, and whose identity is     *)
(* known, is booked at last, and one that has failed no longer blocks its  *)
(* chain, whatever process sent it and how that ended. One that landed and *)
(* brought nothing is never booked, and blocks its chain if the call that  *)
(* sent it did not see its receipt (README section 5).                     *)
ReceiptsArrive ==
    \A s \in Swap :
        exec[s].known /\ fate[s] \in {"landed", "failed"}
            ~> IF fate[s] = "landed" THEN exec[s].booked \/ s \in torn
               ELSE exec[s].status \notin Unresolved

(* A pending request is on the operator's list until it expires.           *)
RequestsShown ==
    \A s \in Swap : approval[s] = "pending" /\ s \notin expired =>
        \/ s \in shown
        \/ \E w \in Worker : worker[w].swap = s /\ worker[w].pc # "idle"
=============================================================================
