-------------------------- MODULE FinancialGateway --------------------------
(***************************************************************************)
(* The funds gateway: financial/gateway.py and financial/store.py. Every   *)
(* transfer, withdrawal, swap, bridge or contract approval is an action    *)
(* that is prepared with a quote, authorised by a grant or by a human      *)
(* approval of exactly that quote, reserved, submitted through an adapter  *)
(* and reconciled until its outcome is known.                              *)
(*                                                                         *)
(* The rows live in SQLite and each database transaction is one action of  *)
(* this module. The calls of the gateway are made of several of them, with *)
(* network calls of the adapter in between, by threads and processes that  *)
(* nothing serialises: agent tools, HTTP routes, the SDK, the trading      *)
(* guard and the run worker. A worker of Worker is one such call, which    *)
(* may raise or die after any of its transactions.                         *)
(***************************************************************************)
EXTENDS Integers

CONSTANTS
    Action,          \* the actions, by actor and action_key
    Worker,          \* concurrent calls of the gateway
    Wallet,          \* signer and chain of a lease
    WalletOf,        \* the wallet of an action, or NoWallet
    NoWallet,
    NoAction,
    Parent,          \* parent_action_id, or NoAction
    Allowance,       \* the actions of kind contract_approval, permit2_approval
    NeedsAllowance,  \* those whose validation may ask for an allowance first
    Grant,           \* the grants of the family, numbered in order of creation
    MaxQuote,        \* how many quotes an action may get
    Value,           \* risk_usd of an action's quote
    Worth(_),        \* the sum of Value over a set of quotes
    Single, Total, Rolling   \* the limits of a grant

Version == 1..MaxQuote

ASSUME FundsAssumption ==
    /\ WalletOf \in [Action -> Wallet \union {NoWallet}]
    /\ NoWallet \notin Wallet
    /\ NoAction \notin Action
    /\ Parent \in [Action -> Action \union {NoAction}]
    /\ Allowance \subseteq Action /\ NeedsAllowance \subseteq Action
    /\ Grant \subseteq Nat \ {0}
    /\ MaxQuote \in Nat \ {0}
    /\ Value \in [Action \X Version -> Nat]
    /\ Single \in Nat /\ Total \in Nat /\ Rolling \in Nat

(* There are finitely many grants.                                         *)
ASSUME GrantAssumption ==
    \A G \in SUBSET Grant : G # {} => \E g \in G : \A h \in G : h <= g

(* What makes Worth the sum over a set, for the finitely many quotes there *)
(* are.                                                                    *)
ASSUME WorthAssumption ==
    /\ Worth({}) = 0
    /\ \A Q \in SUBSET (Action \X Version) :
          /\ Worth(Q) \in Nat
          /\ \A x \in (Action \X Version) \ Q : Worth(Q \union {x}) = Worth(Q) + Value[x]
          /\ \A R \in SUBSET Q : Worth(R) <= Worth(Q)

VARIABLES
    row,       \* row[a]: financial_actions
    approval,  \* approval[a][q]: the approval of quote q of a
    expired,   \* the actions whose current quote has expired
    grant,     \* grant[g]: financial_grants
    usage,     \* usage[a]: financial_usage, the quota a takes
    hold,      \* hold[a]: its row of capital_reservations
    lease,     \* lease[w]: financial_resource_leases
    worker,    \* worker[w]: a call under way
    fate,      \* the network: what has become of a's funds
    sent       \* history: how many times a was broadcast

rows == <<row, usage, hold, lease>>
vars == <<rows, approval, expired, grant, worker, fate, sent>>

(* "submitted" stands for submitted, confirming and unconfirmed, which no  *)
(* test of the gateway tells apart.                                        *)
Uncertain == {"submitted", "needs_recovery"}
Submitting == {"submitting", "confirmed"} \union Uncertain
Open == {"prepared", "awaiting_approval", "awaiting_prerequisite", "needs_recovery"}
Ended == {"confirmed", "failed_before_submission", "rejected"}
States == {"none", "reserved"} \union Submitting \union Open \union Ended
Answers == Uncertain \union Ended
ApprovalStates == {"none", "pending", "approved", "rejected", "cancelled"}
Held == {"reserved", "consumed"}

Row == [state : States, quote : 0..MaxQuote, approval : 0..MaxQuote,
        grant : Grant \union {0}, submission : BOOLEAN]
Usage == [state : Held \union {"none", "released"}, grant : Grant \union {0},
          quote : 0..MaxQuote]
Call == [pc : {"idle", "check", "ask", "fence", "drop", "send", "broadcast", "sent",
               "discard", "discarding", "reconciling"},
         act : Action \union {NoAction}, quote : 0..MaxQuote,
         approval : 0..MaxQuote, seen : States, moved : BOOLEAN]

TypeOK ==
    /\ row \in [Action -> Row]
    /\ approval \in [Action -> [Version -> ApprovalStates]]
    /\ expired \subseteq Action
    /\ grant \in [Grant -> {"draft", "active", "ended"}]
    /\ usage \in [Action -> Usage]
    /\ hold \in [Action -> Held \union {"none", "released"}]
    /\ lease \in [Wallet -> Action \union {NoAction}]
    /\ worker \in [Worker -> Call]
    /\ fate \in [Action -> {"none", "pending", "landed", "failed"}]
    /\ sent \in [Action -> Nat]

Idle == [pc |-> "idle", act |-> NoAction, quote |-> 0, approval |-> 0,
         seen |-> "none", moved |-> FALSE]

Init ==
    /\ row = [a \in Action |-> [state |-> "none", quote |-> 0, approval |-> 0,
                                grant |-> 0, submission |-> FALSE]]
    /\ approval = [a \in Action |-> [q \in Version |-> "none"]]
    /\ expired = {}
    /\ grant = [g \in Grant |-> "draft"]
    /\ usage = [a \in Action |-> [state |-> "none", grant |-> 0, quote |-> 0]]
    /\ hold = [a \in Action |-> "none"]
    /\ lease = [w \in Wallet |-> NoAction]
    /\ worker = [w \in Worker |-> Idle]
    /\ fate = [a \in Action |-> "none"]
    /\ sent = [a \in Action |-> 0]

-----------------------------------------------------------------------------
(* store.mark, one transaction: a's row goes to state s, with ref if the   *)
(* caller supplies a submission; moved says that the receipt settles a fee *)
(* or confirms the debit at the source.                                    *)
Sticky(a, s) == row[a].state = "confirmed" /\ s # "confirmed"
Known(a, ref) == ref \/ row[a].submission

(* Broken on purpose: a late error erases a recorded transaction.          *)
MarkedAsTold(a, s, ref) == s

Marked(a, s, ref) ==
    IF s = "failed_before_submission" /\ Known(a, ref) THEN "submitted" ELSE s

(* Broken on purpose: only a confirmation unlocks the wallet.              *)
UnlockedIfConfirmed(a, end) ==
    [w \in Wallet |-> IF end = "confirmed" /\ lease[w] = a THEN NoAction ELSE lease[w]]

Unlocked(a, end) ==
    [w \in Wallet |-> IF end \in Ended /\ lease[w] = a THEN NoAction ELSE lease[w]]

Mark(a, s, ref, moved) ==
    LET end == Marked(a, s, ref)
    IN IF Sticky(a, s)
       THEN UNCHANGED rows
       ELSE /\ row' = [row EXCEPT ![a].state = end, ![a].submission = Known(a, ref)]
            /\ usage' = [usage EXCEPT ![a].state =
                  CASE @ = "reserved" /\ (end = "confirmed" \/ (end \in Ended /\ moved))
                                                          -> "consumed"
                    [] @ = "reserved" /\ end \in Ended /\ end # "confirmed" /\ ~moved
                                                          -> "released"
                    [] OTHER -> @]
            /\ hold' = [hold EXCEPT ![a] =
                  CASE @ = "reserved" /\ (end = "confirmed" \/ (end \notin Ended /\ moved))
                                                          -> "consumed"
                    [] @ = "reserved" /\ end \in Ended /\ end # "confirmed" -> "released"
                    [] OTHER -> @]
            /\ lease' = Unlocked(a, end)

Working(w, pcs) == worker[w].pc \in pcs
Finish(w) == worker' = [worker EXCEPT ![w] = Idle]
At(w, pc) == worker' = [worker EXCEPT ![w].pc = pc]

(* prepare: the child of a parent is added once while a child that did not *)
(* fail exists. The parent's state is read before the quote is made and    *)
(* not again, so all that is left of that check is that it had a quote.    *)
Prepare(a) ==
    /\ row[a].state = "none"
    /\ Parent[a] # NoAction =>
          /\ row[Parent[a]].state # "none"
          /\ \A b \in Action : Parent[b] = Parent[a] =>
                row[b].state \in {"none", "rejected", "failed_before_submission"}
    /\ row' = [row EXCEPT ![a].state = "prepared", ![a].quote = 1]
    /\ UNCHANGED <<approval, expired, grant, usage, hold, lease, worker, fate, sent>>

(* refresh: the revision it checks again in its transaction is raised by   *)
(* every other write of the row, so that the state it read is the state it *)
(* replaces. The check on children precedes the new quote and is not       *)
(* repeated.                                                               *)
Refresh(a) ==
    /\ row[a].state \in Open
    /\ ~row[a].submission
    /\ row[a].quote < MaxQuote
    /\ approval' = [approval EXCEPT ![a] = [q \in Version |->
           IF q = row[a].approval /\ @[q] = "pending" THEN "cancelled" ELSE @[q]]]
    /\ row' = [row EXCEPT ![a].state = "prepared", ![a].quote = @ + 1, ![a].approval = 0]
    /\ expired' = expired \ {a}
    /\ UNCHANGED <<grant, usage, hold, lease, worker, fate, sent>>

-----------------------------------------------------------------------------
(* discard: read, cancel the approval it read, then mark the action failed *)
(* if it is still in the state it was read in.                             *)
DiscardRead(w, a) ==
    /\ Working(w, {"idle"})
    /\ row[a].state \in Open
    /\ ~row[a].submission
    /\ worker' = [worker EXCEPT ![w] = [Idle EXCEPT !.pc = "discard", !.act = a,
                      !.approval = row[a].approval, !.seen = row[a].state]]
    /\ UNCHANGED <<rows, approval, expired, grant, fate, sent>>

DiscardCancel(w) ==
    LET a == worker[w].act
    IN /\ Working(w, {"discard"})
       /\ \A b \in Action : Parent[b] = a =>
             row[b].state \notin {"submitting"} \union Uncertain
       /\ approval' = [approval EXCEPT ![a] = [q \in Version |->
              IF q = worker[w].approval /\ @[q] = "pending" THEN "cancelled" ELSE @[q]]]
       /\ At(w, "discarding")
       /\ UNCHANGED <<rows, expired, grant, fate, sent>>

DiscardMark(w) ==
    LET a == worker[w].act
    IN /\ Working(w, {"discarding"})
       /\ IF row[a].state = worker[w].seen
          THEN Mark(a, "failed_before_submission", FALSE, FALSE)
          ELSE UNCHANGED rows
       /\ Finish(w)
       /\ UNCHANGED <<approval, expired, grant, fate, sent>>

-----------------------------------------------------------------------------
(* execute, up to its reservation: read the action, refuse a submitted one *)
(* and one with another quote; the first fence and the adapter's           *)
(* validation follow, neither of which writes unless an allowance is       *)
(* missing.                                                                *)
ExecuteRead(w, a) ==
    /\ Working(w, {"idle"})
    /\ row[a].state \notin {"none"} \union Submitting
    /\ worker' = [worker EXCEPT ![w] = [Idle EXCEPT !.pc = "check", !.act = a,
                      !.quote = row[a].quote, !.approval = row[a].approval]]
    /\ UNCHANGED <<rows, approval, expired, grant, fate, sent>>

(* The validation asks for an allowance: the action is marked without      *)
(* looking at the state it is in by now.                                   *)
MissingAllowance(w) ==
    LET a == worker[w].act
    IN /\ Working(w, {"check"})
       /\ a \in NeedsAllowance
       /\ Mark(a, "awaiting_prerequisite", FALSE, FALSE)
       /\ Finish(w)
       /\ UNCHANGED <<approval, expired, grant, fate, sent>>

(* reserve. The newest active grant whose single-action limit allows the   *)
(* quote; the quota taken under it and under its family, for principal and *)
(* allowances apart; the approval of exactly this quote.                   *)
Candidates(a) == {g \in Grant : grant[g] = "active" /\ Value[a, row[a].quote] <= Single}
Newest(a) == CHOOSE g \in Candidates(a) : \A h \in Candidates(a) : h <= g

Quotes(S) == {<<b, usage[b].quote>> : b \in S}
Kind(a) == IF a \in Allowance THEN Allowance ELSE Action \ Allowance

(* Broken on purpose: quota is taken when a transfer is confirmed.         *)
TakersWhenConfirmed(S, G) ==
    {b \in S : usage[b].state = "consumed" /\ usage[b].grant \in G}

Takers(S, G) == {b \in S : usage[b].state \in Held /\ usage[b].grant \in G}

Taken(a, G) == Worth(Quotes(Takers(Kind(a), G)))

WithinLimits(a, g) ==
    /\ Taken(a, {g}) + Value[a, row[a].quote] <= Total
    /\ Taken(a, Grant) + Value[a, row[a].quote] <= Rolling

(* Broken on purpose: the approval may be one of an earlier quote.         *)
ApprovedOnce(w) ==
    LET a == worker[w].act
    IN /\ worker[w].approval # 0
       /\ row[a].approval # 0
       /\ approval[a][row[a].approval] = "approved"

Approved(w) ==
    LET a == worker[w].act
    IN /\ worker[w].approval # 0
       /\ row[a].approval = row[a].quote
       /\ approval[a][row[a].approval] = "approved"

Reservable(w) ==
    LET a == worker[w].act
    IN /\ row[a].quote = worker[w].quote
       /\ row[a].state \in {"prepared", "awaiting_approval"}
       /\ a \notin expired

LeaseFree(a) == WalletOf[a] # NoWallet => lease[WalletOf[a]] \in {a, NoAction}

Reserve(w) ==
    LET a == worker[w].act
        g == IF Candidates(a) # {} THEN Newest(a) ELSE 0
    IN /\ Working(w, {"check"})
       /\ Reservable(w)
       /\ g # 0 => WithinLimits(a, g)
       /\ g = 0 => Approved(w)
       /\ LeaseFree(a)
       /\ usage[a].state = "none"    \* action_id is its primary key
       /\ usage' = [usage EXCEPT ![a] = [state |-> "reserved", grant |-> g,
                                         quote |-> row[a].quote]]
       /\ hold' = [hold EXCEPT ![a] = "reserved"]
       /\ row' = [row EXCEPT ![a].state = "reserved", ![a].grant = g]
       /\ lease' = [x \in Wallet |-> IF x = WalletOf[a] THEN a ELSE lease[x]]
       /\ At(w, "fence")
       /\ UNCHANGED <<approval, expired, grant, fate, sent>>

NeedsApproval(w) ==
    LET a == worker[w].act
    IN /\ Working(w, {"check"})
       /\ Reservable(w)
       /\ IF Candidates(a) = {} THEN ~Approved(w) ELSE ~WithinLimits(a, Newest(a))
       /\ At(w, "ask")
       /\ UNCHANGED <<rows, approval, expired, grant, fate, sent>>

(* _approval, with the quote the call read.                                *)
Ask(w) ==
    LET a == worker[w].act
        q == worker[w].quote
    IN /\ Working(w, {"ask"})
       /\ approval' = [approval EXCEPT ![a][q] = IF @ = "none" THEN "pending" ELSE @]
       /\ row' = IF row[a].state \in {"prepared", "awaiting_approval"}
                 THEN [row EXCEPT ![a].state = "awaiting_approval", ![a].approval = q]
                 ELSE row
       /\ Finish(w)
       /\ UNCHANGED <<expired, grant, usage, hold, lease, fate, sent>>

-----------------------------------------------------------------------------
(* execute, from its reservation on: the last fence shares a transaction   *)
(* with the submission marker.                                             *)
Authorized(a) ==
    IF row[a].grant # 0
    THEN grant[row[a].grant] = "active"
    ELSE /\ row[a].approval # 0
         /\ approval[a][row[a].approval] = "approved"
         /\ a \notin expired

LastFence(w) ==
    LET a == worker[w].act
    IN /\ Working(w, {"fence"})
       /\ row[a].state = "reserved"
       /\ IF Authorized(a)
          THEN /\ row' = [row EXCEPT ![a].state = "submitting"]
               /\ At(w, "send")
          ELSE /\ At(w, "drop")
               /\ UNCHANGED row
       /\ UNCHANGED <<usage, hold, lease, approval, expired, grant, fate, sent>>

(* The second fence, or the last one, refuses.                             *)
Drop(w) ==
    /\ Working(w, {"fence", "drop"})
    /\ Mark(worker[w].act, "failed_before_submission", FALSE, FALSE)
    /\ Finish(w)
    /\ UNCHANGED <<approval, expired, grant, fate, sent>>

(* The signer supplies the identity of the transaction before it is        *)
(* broadcast: submitted().                                                 *)
Identify(w) ==
    /\ Working(w, {"send"})
    /\ Mark(worker[w].act, "submitted", TRUE, FALSE)
    /\ At(w, "broadcast")
    /\ UNCHANGED <<approval, expired, grant, fate, sent>>

Broadcast(w) ==
    LET a == worker[w].act
    IN /\ Working(w, {"broadcast"})
       /\ fate' = [fate EXCEPT ![a] = "pending"]
       /\ sent' = [sent EXCEPT ![a] = @ + 1]
       /\ At(w, "sent")
       /\ UNCHANGED <<rows, approval, expired, grant>>

(* What an adapter may say of an action. A late error may still claim that *)
(* nothing was submitted.                                                  *)
Truthful(a, s, moved) ==
    /\ s = "confirmed" => fate[a] = "landed"
    /\ s = "rejected" => fate[a] \in {"none", "failed"}
    /\ moved => fate[a] = "landed" \/ (s = "rejected" /\ fate[a] = "failed")

(* A state the gateway does not know is unconfirmed.                       *)
Answered(s, known) == IF s \in known THEN s ELSE "submitted"

(* The adapter answers, with the identity again.                           *)
Answer(w) ==
    LET a == worker[w].act
    IN /\ Working(w, {"send", "broadcast", "sent"})
       /\ \E s \in Answers \union {"other"}, moved \in BOOLEAN :
             /\ Truthful(a, s, moved)
             /\ Mark(a, Answered(s, Answers), Working(w, {"sent"}), moved)
       /\ Finish(w)
       /\ UNCHANGED <<approval, expired, grant, fate, sent>>

(* Broken on purpose: an error of the adapter is tried again.              *)
RaiseRetries(w) ==
    /\ Working(w, {"send", "broadcast", "sent"})
    /\ At(w, "send")
    /\ UNCHANGED <<rows, approval, expired, grant, fate, sent>>

(* The adapter raises, perhaps after its broadcast: never a retry.         *)
Raise(w) ==
    /\ Working(w, {"send", "broadcast", "sent"})
    /\ Mark(worker[w].act, "submitted", FALSE, FALSE)
    /\ Finish(w)
    /\ UNCHANGED <<approval, expired, grant, fate, sent>>

(* A call ends with what it has written: it is refused, raises or dies.    *)
GiveUp(w) ==
    /\ ~Working(w, {"idle"})
    /\ Finish(w)
    /\ UNCHANGED <<rows, approval, expired, grant, fate, sent>>

-----------------------------------------------------------------------------
(* reconcile: the status is read from the network and written later. With  *)
(* no identity there is nothing to look up, but the component may fail to  *)
(* load.                                                                   *)
ReconcileRead(w, a) ==
    /\ Working(w, {"idle"})
    /\ row[a].state \in Uncertain
    /\ \E s \in Answers, moved \in BOOLEAN :
          /\ ~row[a].submission => s \in Uncertain /\ ~moved
          /\ Truthful(a, s, moved)
          /\ s = "rejected" => fate[a] = "failed"
          /\ worker' = [worker EXCEPT ![w] = [Idle EXCEPT !.pc = "reconciling",
                            !.act = a, !.moved = moved,
                            !.seen = Answered(s, Answers \ {"failed_before_submission"})]]
    /\ UNCHANGED <<rows, approval, expired, grant, fate, sent>>

ReconcileMark(w) ==
    /\ Working(w, {"reconciling"})
    /\ Mark(worker[w].act, worker[w].seen, FALSE, worker[w].moved)
    /\ Finish(w)
    /\ UNCHANGED <<approval, expired, grant, fate, sent>>

(* financial_tick: a submission that has been open for 120 seconds is not  *)
(* waited for, whether its signer still works or not.                      *)
SweepSubmitting(a) ==
    /\ row[a].state = "submitting"
    /\ row' = [row EXCEPT ![a].state = "submitted"]
    /\ UNCHANGED <<usage, hold, lease, approval, expired, grant, worker, fate, sent>>

-----------------------------------------------------------------------------
(* The operator and the clock. The decision on an approval overwrites its  *)
(* state in the database without looking at it.                            *)
Decide(a, q) ==
    /\ approval[a][q] \in {"pending", "cancelled"}
    /\ \E s \in {"approved", "rejected"} :
          /\ s = "approved" => ~(q = row[a].quote /\ a \in expired)
          /\ approval' = [approval EXCEPT ![a][q] = s]
    /\ UNCHANGED <<rows, expired, grant, worker, fate, sent>>

ApproveGrant(g) ==
    /\ grant[g] = "draft"
    /\ grant' = [grant EXCEPT ![g] = "active"]
    /\ UNCHANGED <<rows, approval, expired, worker, fate, sent>>

(* Revoked by the operator, or past expires_at.                            *)
EndGrant(g) ==
    /\ grant[g] # "ended"
    /\ grant' = [grant EXCEPT ![g] = "ended"]
    /\ UNCHANGED <<rows, approval, expired, worker, fate, sent>>

(* A quote expires, and with it the approval of it.                        *)
ExpireQuote(a) ==
    /\ row[a].state # "none"
    /\ expired' = expired \union {a}
    /\ UNCHANGED <<rows, approval, grant, worker, fate, sent>>

(* The network decides.                                                    *)
Settle(a) ==
    /\ fate[a] = "pending"
    /\ \E f \in {"landed", "failed"} : fate' = [fate EXCEPT ![a] = f]
    /\ UNCHANGED <<rows, approval, expired, grant, worker, sent>>

CallStep(w) ==
    \/ \E a \in Action : DiscardRead(w, a) \/ ExecuteRead(w, a) \/ ReconcileRead(w, a)
    \/ DiscardCancel(w) \/ DiscardMark(w)
    \/ MissingAllowance(w) \/ Reserve(w) \/ NeedsApproval(w) \/ Ask(w)
    \/ LastFence(w) \/ Drop(w) \/ Identify(w) \/ Broadcast(w) \/ Answer(w) \/ Raise(w)
    \/ ReconcileMark(w) \/ GiveUp(w)

ActionStep(a) ==
    \/ Prepare(a) \/ Refresh(a) \/ SweepSubmitting(a) \/ ExpireQuote(a) \/ Settle(a)
    \/ \E q \in Version : Decide(a, q)

GrantStep(g) == ApproveGrant(g) \/ EndGrant(g)

Next ==
    \/ \E w \in Worker : CallStep(w)
    \/ \E a \in Action : ActionStep(a)
    \/ \E g \in Grant : GrantStep(g)

Spec == Init /\ [][Next]_vars

-----------------------------------------------------------------------------
(* Properties.                                                             *)

(* Whatever calls repeat, refresh, discard or revive an action, its funds  *)
(* go out to the network at most once.                                     *)
SentOnce == \A a \in Action : sent[a] <= 1

(* Submitted or uncertain funds stay reserved: an action whose transfer is *)
(* on its way or has landed keeps its quota; while it is on its way its    *)
(* capital stays blocked and its wallet is not lent to another action.     *)
(* README section 5: so store.py puts it, but a late validation, or a      *)
(* sweep before the signer answers, lets an action be discarded that then  *)
(* is broadcast.                                                           *)
AtRisk == {"pending", "landed"}

HeldWhileUncertain ==
    \A a \in Action :
        /\ fate[a] \in AtRisk => usage[a].state \in Held
        /\ fate[a] = "pending" =>
              /\ hold[a] = "reserved"
              /\ WalletOf[a] # NoWallet => lease[WalletOf[a]] = a

(* What an action still holds once its funds have left is never given      *)
(* back: the quota for good, the capital and the wallet until the network  *)
(* has decided, whatever a late error, a stale reconcile, a discard or an  *)
(* adapter that denies the submission makes of the row.                    *)
NothingGivenBack ==
    [][\A a \in Action :
          /\ fate[a] \in AtRisk /\ usage[a].state \in Held
                => usage'[a].state \in Held
          /\ fate[a] = "pending" /\ fate'[a] = "pending" =>
                /\ hold[a] = "reserved" => hold'[a] = "reserved"
                /\ \A w \in Wallet : lease[w] = a => lease'[w] = a]_vars

(* What the actions hold under a grant never exceeds its total, nor what   *)
(* they hold under all grants of the family its rolling limit: neither     *)
(* concurrent calls, nor a new quote, nor a new grant start the count      *)
(* again.                                                                  *)
Committed(S, G) ==
    Worth(Quotes({a \in S : usage[a].state \in {"reserved", "consumed"}
                             /\ usage[a].grant \in G}))

WithinQuota ==
    \A S \in {Allowance, Action \ Allowance} :
        /\ \A g \in Grant : Committed(S, {g}) <= Total
        /\ Committed(S, Grant) <= Rolling

(* A wallet is locked only by an action that holds quota: an action that   *)
(* ended, was discarded or rejected leaves it to others.                   *)
LeaseHasReason ==
    \A w \in Wallet : lease[w] # NoAction => usage[lease[w]].state = "reserved"

(* The quote a call takes to the signer is authorised as it does so: by a  *)
(* grant that is still active and covers it, or by an unexpired approval   *)
(* of that quote, however the action was refreshed meanwhile.              *)
AuthorizedQuote(w) ==
    LET a == worker[w].act
        q == worker[w].quote
        g == row[a].grant
    IN IF g # 0 THEN grant[g] = "active" /\ Value[a, q] <= Single
                ELSE approval[a][q] = "approved" /\ a \notin expired

AuthorizedSubmission ==
    [][\A w \in Worker : Working(w, {"fence"}) /\ worker'[w].pc = "send"
                             => AuthorizedQuote(w)]_vars
=============================================================================
