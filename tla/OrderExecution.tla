--------------------------- MODULE OrderExecution ---------------------------
(***************************************************************************)
(* One live market order, from its executor run to the settled capital     *)
(* reservation: the executor's step (executors/market_order.py), the       *)
(* background poller (order_polling.py), an operator's cancel              *)
(* (cancellation.py) and the orchestrator's (executors/orchestrator.py),   *)
(* on the rows of order_tracker.py.                                        *)
(*                                                                         *)
(* Connections are in autocommit mode, so a statement is a transaction and *)
(* every read or write another actor can get in between is an action.      *)
(* Executor steps and cancels hold the executor's file lock; the poller    *)
(* does not.                                                               *)
(***************************************************************************)
EXTENDS Integers, FiniteSets, FiniteSetsExt

CONSTANTS
    Ticks,            \* callers of step_executor: submissions, guards, loops
    Polls,            \* pollers
    Cancels,          \* callers of cancel_tracked_order
    Stops,            \* callers of ExecutorOrchestrator.cancel
    NoActor,
    Size,             \* size_base, in lots
    Bucket,           \* the position_side the candidate carries
    LostThreshold,    \* LOST_ORDER_NOT_FOUND_THRESHOLD
    MinAbsentCycles,  \* ADOPT_ABSENT_MIN_CYCLES
    VenueEnds,        \* how the venue may end an order besides filling it
    Dedupe,           \* the venue refuses a client order id it has seen
    Faults,           \* which of FaultKinds may happen
    MaxFaults         \* bound on how many do

FaultKinds == {"crash",       \* an actor dies between two statements
               "transport",   \* a venue call fails, or its answer is lost
               "profile",     \* the account profile cannot be loaded
               "blocker"}     \* a live-execution gate is closed

Actors == Ticks \union Polls \union Cancels \union Stops

ASSUME ExecutionAssumption ==
    /\ Size \in Nat \ {0}
    /\ LostThreshold \in Nat \ {0} /\ MinAbsentCycles \in Nat \ {0}
    /\ VenueEnds \subseteq {"canceled", "rejected", "expired"}
    /\ Bucket \in {"net", "long", "short"}
    /\ Dedupe \in BOOLEAN
    /\ Faults \subseteq FaultKinds /\ MaxFaults \in Nat
    /\ NoActor \notin Actors

VARIABLES
    order,    \* the row of orders
    fills,    \* the rows of fills; fill_id is <order_id>:<cum>
    book,     \* the fills the PositionBook has applied, by fill id
    venue,    \* the order as the venue has it; placed counts its acceptances
    run,      \* the persisted state of the executor run
    rsv,      \* the state of the capital reservation
    lock,     \* who holds the executor's trading_lock
    aged,     \* PLACE_UNKNOWN_MAX_AGE_S has passed
    faults,   \* faults so far
    act       \* act[a]: what a is doing, its locals and the run it will persist

vars == <<order, fills, book, venue, run, rsv, lock, aged, faults, act>>

(* TERMINAL_STATES; Dead are those a late fill must not resurrect.         *)
Dead      == {"lost", "rejected", "failed", "expired"}
Terminal  == Dead \union {"filled", "canceled"}
RunEnded  == {"done", "failed", "canceled"}
VenueOver == {"filled", "canceled", "rejected", "expired"}

OrderStates == Terminal \union {"none", "created", "submitted",
                                "partially_filled", "cancel_requested"}
VenueStates == VenueOver \union {"none", "open"}
Buckets     == {"net", "long", "short"}

(* sub: submitted_at is set; xid: exchange_order_id is known; unk and      *)
(* cnote: meta notes "place_unknown" and "cancel_requested".               *)
Row == [state : OrderStates, filled : Nat, sub : BOOLEAN, xid : BOOLEAN,
        streak : Nat, absent : Nat, unk : BOOLEAN, cnote : BOOLEAN]

(* What an actor still uses of a row it has read.                          *)
Seen(row) == [filled |-> row.filled, xid |-> row.xid, unk |-> row.unk,
              unsent |-> row.state = "created" /\ ~row.sub]

Pcs == {"idle", "step", "look", "place", "submitted", "doubt", "note", "fetch",
        "adopt", "read", "insert", "roll", "book", "status", "settle", "request", "mark",
        "send", "tail", "after", "persist"}

(* op is the caller, flow the code that handles a venue answer for it,     *)
(* base the watermark record_fill has read, next the run state to persist. *)
Local == [pc : Pcs,
          op : {"none", "tick", "poll", "cancel", "stop"},
          flow : {"none", "submit", "tick", "poll", "cancel"},
          seen : [filled : Nat, xid : BOOLEAN, unk : BOOLEAN, unsent : BOOLEAN],
          ack : [state : VenueStates, filled : Nat],
          base : Nat,
          next : {"none", "active"} \union RunEnded]

TypeOK ==
    /\ order \in Row
    /\ fills \subseteq [cum : Nat, size : Nat]
    /\ book \subseteq [id : Nat, size : Int, bucket : Buckets]
    /\ venue \in [state : VenueStates, filled : 0..Size, placed : Nat]
    /\ run \in {"created", "active"} \union RunEnded
    /\ rsv \in {"reserved", "consumed", "released"}
    /\ lock \in Actors \union {NoActor}
    /\ aged \in BOOLEAN
    /\ faults \in 0..MaxFaults
    /\ act \in [Actors -> Local]

NoRow == [state |-> "none", filled |-> 0, sub |-> FALSE, xid |-> FALSE,
          streak |-> 0, absent |-> 0, unk |-> FALSE, cnote |-> FALSE]
Idle  == [pc |-> "idle", op |-> "none", flow |-> "none", seen |-> Seen(NoRow),
          ack |-> [state |-> "none", filled |-> 0], base |-> 0, next |-> "none"]

Init ==
    /\ order = NoRow
    /\ fills = {} /\ book = {}
    /\ venue = [state |-> "none", filled |-> 0, placed |-> 0]
    /\ run = "created" /\ rsv = "reserved"
    /\ lock = NoActor
    /\ aged = FALSE
    /\ faults = 0
    /\ act = [a \in Actors |-> Idle]

-----------------------------------------------------------------------------
(* Helpers.                                                                *)

At(a, l) == act[a].pc = l

Become(a, l) == act' = [act EXCEPT ![a] = l]

Goto(a, l) == Become(a, [act[a] EXCEPT !.pc = l])

(* The step is over; the orchestrator persists the run as s.               *)
Return(a, s) == Become(a, [act[a] EXCEPT !.pc = "persist", !.next = s])

Fault(kind) ==
    /\ kind \in Faults /\ faults < MaxFaults
    /\ faults' = faults + 1

(* consume and release: only an active reservation moves.                  *)
Settled(s) == IF rsv = "reserved" THEN s ELSE rsv

(* How _finalize closes a run whose order ended in state s.                *)
EndOf(s) == CASE s = "filled"   -> "done"
              [] s = "canceled" -> "canceled"
              [] OTHER          -> "failed"

IsTerminal   == order.state \in Terminal
CancelWanted == \/ order.state = "cancel_requested"
                \/ ~IsTerminal /\ order.cnote

(* record_fill is due when the venue reports more than the row once read.  *)
Answered(a, seen, ack) ==
    Become(a, [act[a] EXCEPT
        !.seen = seen, !.ack = ack,
        !.pc = IF ack.filled > seen.filled THEN "read" ELSE "status"])

(* No usable answer: the caller leaves the row for a later round.          *)
NoAnswer(a) ==
    CASE act[a].flow = "cancel" -> Goto(a, "tail")
      [] act[a].flow = "poll"   -> Become(a, Idle)
      [] OTHER                  -> Return(a, "active")

-----------------------------------------------------------------------------
(* The executor's step.                                                    *)

(* step_executor, up to step(): lock, load, and prepare a new run, which   *)
(* registers the order unless an earlier attempt has.                      *)
TickBegin(a) ==
    /\ a \in Ticks /\ At(a, "idle")
    /\ lock = NoActor /\ run \notin RunEnded
    /\ lock' = a
    /\ order' = IF run = "created" /\ order.state = "none"
                THEN [order EXCEPT !.state = "created"] ELSE order
    /\ Become(a, [Idle EXCEPT !.pc = "step", !.op = "tick"])
    /\ UNCHANGED <<fills, book, venue, run, rsv, aged, faults>>

(* step(): what the row says decides.                                      *)
StepCancels(a) ==
    /\ At(a, "step") /\ CancelWanted
    /\ Become(a, [act[a] EXCEPT !.pc = "request", !.flow = "cancel"])
    /\ UNCHANGED <<order, fills, book, venue, run, rsv, lock, aged, faults>>

(* Broken on purpose: a lost order is left to more polling.                *)
StepFinalizesUnlessLost(a) ==
    /\ At(a, "step") /\ IsTerminal
    /\ IF order.state = "lost" THEN Return(a, "active")
       ELSE Become(a, [act[a] EXCEPT
                !.pc = "settle", !.next = EndOf(order.state)])
    /\ UNCHANGED <<order, fills, book, venue, run, rsv, lock, aged, faults>>

StepFinalizes(a) ==
    /\ At(a, "step") /\ IsTerminal
    /\ Become(a, [act[a] EXCEPT !.pc = "settle", !.next = EndOf(order.state)])
    /\ UNCHANGED <<order, fills, book, venue, run, rsv, lock, aged, faults>>

StepPlaces(a) ==
    /\ At(a, "step") /\ order.state = "created" /\ ~CancelWanted
    /\ Become(a, [act[a] EXCEPT !.pc = "place", !.flow = "submit"])
    /\ UNCHANGED <<order, fills, book, venue, run, rsv, lock, aged, faults>>

StepPolls(a) ==
    /\ At(a, "step") /\ ~IsTerminal /\ ~CancelWanted
    /\ order.state # "created"
    /\ Become(a, [act[a] EXCEPT !.pc = "look", !.flow = "tick"])
    /\ UNCHANGED <<order, fills, book, venue, run, rsv, lock, aged, faults>>

(* _poll_live reads the row again, which may be a terminal one by now.     *)
PollLive(a) ==
    /\ At(a, "look")
    /\ Become(a, [act[a] EXCEPT
           !.pc = IF ~order.xid /\ order.unk THEN "adopt" ELSE "fetch",
           !.seen = Seen(order)])
    /\ UNCHANGED <<order, fills, book, venue, run, rsv, lock, aged, faults>>

(* The account profile cannot be loaded: the run fails, nothing else moves.*)
StepFails(a) ==
    /\ At(a, "step") /\ Fault("profile")
    /\ Return(a, "failed")
    /\ UNCHANGED <<order, fills, book, venue, run, rsv, lock, aged>>

(* A gate closed since the submission: rejected and released unsent.       *)
StepBlocked(a) ==
    /\ At(a, "step") /\ order.state = "created" /\ ~CancelWanted
    /\ Fault("blocker")
    /\ order' = [order EXCEPT !.state = "rejected"]
    /\ rsv' = Settled("released")
    /\ Return(a, "failed")
    /\ UNCHANGED <<fills, book, venue, run, lock, aged>>

-----------------------------------------------------------------------------
(* _submit_live.                                                           *)

Accept(n) ==
    IF venue.placed = 0
    THEN venue' = [state |-> IF n = Size THEN "filled" ELSE "open",
                   filled |-> n, placed |-> 1]
    ELSE venue' = [venue EXCEPT !.placed = @ + 1]

(* The venue takes the order, and may fill it on the spot. Of a second     *)
(* acceptance only the number is kept.                                     *)
PlaceAccepted(a) ==
    /\ At(a, "place") /\ ~(Dedupe /\ venue.placed > 0)
    /\ \E n \in 0..(IF venue.placed = 0 THEN Size ELSE 0) :
          /\ Accept(n)
          /\ Become(a, [act[a] EXCEPT
                 !.pc = "submitted", !.ack = [state |-> "open", filled |-> n]])
    /\ UNCHANGED <<order, fills, book, run, rsv, lock, aged, faults>>

(* A definitive refusal: the row is rejected, the run fails and the        *)
(* reservation is left to its TTL.                                         *)
PlaceRefused(a) ==
    /\ At(a, "place")
    /\ order' = [order EXCEPT !.state = "rejected"]
    /\ Return(a, "failed")
    /\ UNCHANGED <<fills, book, venue, run, rsv, lock, aged, faults>>

(* Broken on purpose: a placement in doubt is taken for a refusal.         *)
DoubtIsRefusal(a) ==
    /\ At(a, "place") /\ Fault("transport")
    /\ Accept(0)
    /\ order' = [order EXCEPT !.state = "rejected"]
    /\ Return(a, "failed")
    /\ UNCHANGED <<fills, book, run, rsv, lock, aged>>

(* _is_ambiguous_place_error: the venue may have taken it or not.          *)
PlaceInDoubt(a) ==
    /\ At(a, "place") /\ Fault("transport")
    /\ \/ ~(Dedupe /\ venue.placed > 0) /\ Accept(0)
       \/ UNCHANGED venue
    /\ Goto(a, "doubt")
    /\ UNCHANGED <<order, fills, book, run, rsv, lock, aged>>

(* Broken on purpose: an order in doubt is kept as it was and sent again.  *)
MarkDoubtNothing(a) ==
    /\ At(a, "doubt")
    /\ Goto(a, "note")
    /\ UNCHANGED <<order, fills, book, venue, run, rsv, lock, aged, faults>>

MarkDoubt(a) ==
    /\ At(a, "doubt")
    /\ order' = [order EXCEPT !.state = "submitted", !.sub = TRUE]
    /\ Goto(a, "note")
    /\ UNCHANGED <<fills, book, venue, run, rsv, lock, aged, faults>>

NoteDoubt(a) ==
    /\ At(a, "note")
    /\ order' = [order EXCEPT !.unk = TRUE]
    /\ Return(a, "active")
    /\ UNCHANGED <<fills, book, venue, run, rsv, lock, aged, faults>>

MarkSubmitted(a) ==
    /\ At(a, "submitted")
    /\ order' = [order EXCEPT !.state = "submitted", !.sub = TRUE, !.xid = TRUE]
    /\ IF act[a].ack.filled > 0 THEN Goto(a, "read") ELSE Return(a, "active")
    /\ UNCHANGED <<fills, book, venue, run, rsv, lock, aged, faults>>

-----------------------------------------------------------------------------
(* Asking the venue: _poll_live, the poller and the cancel.                *)

(* One row of active_orders, as the poller has it in hand. A cancel that   *)
(* is wanted is the cancel's business, if its lock can be had.             *)
PollBegin(a) ==
    /\ a \in Polls /\ At(a, "idle")
    /\ order.state # "none" /\ ~IsTerminal
    /\ IF CancelWanted
       THEN /\ lock = NoActor /\ lock' = a
            /\ Become(a, [Idle EXCEPT
                 !.pc = "request", !.op = "poll", !.flow = "cancel"])
       ELSE /\ Become(a, [Idle EXCEPT
                 !.pc = IF ~order.xid /\ order.unk THEN "adopt" ELSE "fetch",
                 !.op = "poll", !.flow = "poll", !.seen = Seen(order)])
            /\ UNCHANGED lock
    /\ UNCHANGED <<order, fills, book, venue, run, rsv, aged, faults>>

(* get_order and mark_seen. The venue does not know an order by our id, so *)
(* without its own the recovery by client id is tried.                     *)
Fetch(a) ==
    /\ At(a, "fetch")
    /\ IF act[a].seen.xid
       THEN /\ Answered(a, act[a].seen,
                        [state |-> venue.state, filled |-> venue.filled])
            /\ order' = [order EXCEPT !.streak =
                            IF act[a].flow = "cancel" THEN @ ELSE 0]
       ELSE Goto(a, "adopt") /\ UNCHANGED order
    /\ UNCHANGED <<fills, book, venue, run, rsv, lock, aged, faults>>

FetchFails(a) ==
    /\ At(a, "fetch") /\ Fault("transport")
    /\ NoAnswer(a)
    /\ UNCHANGED <<order, fills, book, venue, run, rsv, lock, aged>>

(* adopt_venue_order finds the client id and writes the venue's id; the    *)
(* caller reads the row again.                                             *)
AdoptFound(a) ==
    /\ At(a, "adopt") /\ venue.state # "none"
    /\ order' = [order EXCEPT
           !.state = "submitted", !.sub = TRUE, !.xid = TRUE,
           !.streak = IF act[a].flow = "cancel" THEN @ ELSE 0]
    /\ IF act[a].flow = "cancel"
       THEN Become(a, [act[a] EXCEPT !.pc = "send", !.seen = Seen(order')])
       ELSE Answered(a, Seen(order'),
                     [state |-> venue.state, filled |-> venue.filled])
    /\ UNCHANGED <<fills, book, venue, run, rsv, lock, aged, faults>>

(* mark_not_found: a strike toward "lost".                                 *)
Struck ==
    LET n == IF order.streak < LostThreshold THEN order.streak + 1
                                             ELSE LostThreshold
    IN  [order EXCEPT !.streak = n,
                      !.state = IF ~IsTerminal /\ n >= LostThreshold
                                THEN "lost" ELSE @]

(* _adopt_absent_bump and expire_place_unknown_order: one clean cycle in   *)
(* which a placement in doubt was nowhere; enough of them, and old enough, *)
(* and it is lost.                                                         *)
Absent ==
    LET n == IF order.absent < MinAbsentCycles THEN order.absent + 1
                                               ELSE MinAbsentCycles
    IN  [order EXCEPT !.absent = n,
                      !.state = IF n >= MinAbsentCycles /\ aged
                                THEN "lost" ELSE @]

AdoptAbsent(a) ==
    /\ At(a, "adopt") /\ venue.state = "none"
    /\ order' = CASE act[a].flow # "cancel" /\ ~act[a].seen.unk -> Struck
                  [] act[a].flow = "poll" /\ act[a].seen.unk    -> Absent
                  [] OTHER                                      -> order
    /\ NoAnswer(a)
    /\ UNCHANGED <<fills, book, venue, run, rsv, lock, aged, faults>>

(* A source could not be asked. A placement in doubt starts its clean      *)
(* cycles again; after a not-found answer the strike counts all the same.  *)
AdoptFails(a) ==
    /\ At(a, "adopt") /\ Fault("transport")
    /\ order' = CASE act[a].flow # "cancel" /\ ~act[a].seen.unk -> Struck
                  [] act[a].flow = "poll" /\ act[a].seen.unk ->
                         [order EXCEPT !.absent = 0]
                  [] OTHER                                      -> order
    /\ NoAnswer(a)
    /\ UNCHANGED <<fills, book, venue, run, rsv, lock, aged>>

-----------------------------------------------------------------------------
(* record_fill, statement by statement, then the book and the status.      *)

ReadWatermark(a) ==
    /\ At(a, "read")
    /\ IF order.state \in Dead \/ act[a].ack.filled <= order.filled
       THEN Goto(a, "status")
       ELSE Become(a, [act[a] EXCEPT !.pc = "insert", !.base = order.filled])
    /\ UNCHANGED <<order, fills, book, venue, run, rsv, lock, aged, faults>>

(* The fill id is the cumulative size: a second INSERT of it raises. The   *)
(* poller takes that for a replay, the cancel notes it, the executor's     *)
(* step fails and the orchestrator releases.                               *)
InsertFill(a) ==
    /\ At(a, "insert")
    /\ IF \E f \in fills : f.cum = act[a].ack.filled
       THEN /\ CASE act[a].flow = "poll"   -> Goto(a, "status") /\ UNCHANGED rsv
                 [] act[a].flow = "cancel" -> Goto(a, "tail") /\ UNCHANGED rsv
                 [] OTHER -> Return(a, "failed") /\ rsv' = Settled("released")
            /\ UNCHANGED fills
       ELSE /\ fills' = fills \union
                  {[cum |-> act[a].ack.filled,
                    size |-> act[a].ack.filled - act[a].base]}
            /\ Goto(a, "roll") /\ UNCHANGED rsv
    /\ UNCHANGED <<order, book, venue, run, lock, aged, faults>>

(* Broken on purpose: the rollup adds its increment to the row as it is.   *)
RollUpAdds(a) ==
    /\ At(a, "roll")
    /\ order' = [order EXCEPT
           !.filled = @ + act[a].ack.filled - act[a].base,
           !.state = IF act[a].ack.filled >= Size THEN "filled"
                                                  ELSE "partially_filled"]
    /\ Goto(a, "book")
    /\ UNCHANGED <<fills, book, venue, run, rsv, lock, aged, faults>>

(* The rollup writes what was read plus the increment, and the state.      *)
RollUp(a) ==
    /\ At(a, "roll")
    /\ order' = [order EXCEPT
           !.filled = act[a].ack.filled,
           !.state = IF act[a].ack.filled >= Size THEN "filled"
                                                  ELSE "partially_filled"]
    /\ Goto(a, "book")
    /\ UNCHANGED <<fills, book, venue, run, rsv, lock, aged, faults>>

(* Broken on purpose: the cancel does not mirror the fill it has found.    *)
ApplyBookUnlessCancel(a) ==
    /\ At(a, "book")
    /\ book' = IF act[a].flow = "cancel" THEN book
               ELSE book \union {[id |-> act[a].ack.filled, bucket |-> Bucket,
                                  size |-> act[a].ack.filled - act[a].base]}
    /\ Become(a, [act[a] EXCEPT !.pc = "status", !.base = 0])
    /\ UNCHANGED <<order, fills, venue, run, rsv, lock, aged, faults>>

(* apply_fill, idempotent on the fill id. The executor applies the fill's  *)
(* own size, the other two what the venue said beyond the row they once    *)
(* read; the cancel names no bucket.                                       *)
ApplyBook(a) ==
    /\ At(a, "book")
    /\ book' = IF \E e \in book : e.id = act[a].ack.filled THEN book
               ELSE book \union
                 {[id     |-> act[a].ack.filled,
                   size   |-> act[a].ack.filled -
                                 (IF act[a].flow \in {"submit", "tick"}
                                  THEN act[a].base ELSE act[a].seen.filled),
                   bucket |-> IF act[a].flow = "cancel" THEN "net" ELSE Bucket]}
    /\ Become(a, [act[a] EXCEPT !.pc = "status", !.base = 0])
    /\ UNCHANGED <<order, fills, venue, run, rsv, lock, aged, faults>>

(* Broken on purpose: any fill in the answer to a placement completes it.  *)
StatusAnyFillCompletes(flow, ack) ==
    IF flow = "submit" THEN {"filled"}
    ELSE IF ack.state \in VenueOver THEN {ack.state} ELSE {"none"}

(* The states the answer may give the row, "none" if it leaves it alone:   *)
(* after a placement by the fill it came with; after a cancel "filled"     *)
(* only for the whole size, and "partially_filled" for an open order that  *)
(* the venue calls so; else the venue's terminal state, whatever the row   *)
(* has become.                                                             *)
StatusToWrite(flow, ack) ==
    CASE flow = "submit" -> IF ack.filled >= Size THEN {"filled"}
                                                  ELSE {"partially_filled"}
      [] flow = "cancel" /\ ack.state = "filled" ->
            IF ack.filled >= Size THEN {"filled"} ELSE {"partially_filled"}
      [] flow = "cancel" /\ ack.state = "open" /\ ack.filled > 0 ->
            {"none", "partially_filled"}
      [] OTHER -> IF ack.state \in VenueOver THEN {ack.state} ELSE {"none"}

WriteStatus(a) ==
    /\ At(a, "status")
    /\ \E new \in StatusToWrite(act[a].flow, act[a].ack) :
          /\ order' = IF new = "none" THEN order ELSE [order EXCEPT !.state = new]
          /\ CASE act[a].flow = "cancel" -> Goto(a, "tail")
               [] act[a].flow = "submit" \/ new = "none" -> NoAnswer(a)
               [] act[a].flow = "tick" /\ new # "none" ->
                    Become(a, [act[a] EXCEPT
                        !.pc = "settle", !.next = EndOf(act[a].ack.state)])
               [] OTHER -> Goto(a, "settle")
    /\ UNCHANGED <<fills, book, venue, run, rsv, lock, aged, faults>>

-----------------------------------------------------------------------------
(* Settling.                                                               *)

(* Broken on purpose: any end that is not a complete fill releases.        *)
SettleByState(a) ==
    /\ At(a, "settle")
    /\ IF act[a].op = "poll"
       THEN /\ rsv' = Settled(IF act[a].ack.state = "filled" THEN "consumed"
                                                             ELSE "released")
            /\ Become(a, Idle)
       ELSE /\ rsv' = Settled(IF act[a].next = "done" THEN "consumed"
                                                      ELSE "released")
            /\ Return(a, act[a].next)
    /\ UNCHANGED <<order, fills, book, venue, run, lock, aged, faults>>

(* _finalize and _settle_reservation: what has a fill is consumed.         *)
Settle(a) ==
    /\ At(a, "settle")
    /\ IF act[a].op = "poll"
       THEN /\ rsv' = Settled(IF \/ act[a].ack.state = "filled"
                                 \/ act[a].ack.filled > 0
                                 \/ act[a].seen.filled > 0
                              THEN "consumed" ELSE "released")
            /\ Become(a, Idle)
       ELSE /\ rsv' = Settled(IF act[a].next = "done" \/ order.filled > 0
                              THEN "consumed" ELSE "released")
            /\ Return(a, act[a].next)
    /\ UNCHANGED <<order, fills, book, venue, run, lock, aged, faults>>

(* _persist, in the finally clause, and the end of the lock.               *)
Persist(a) ==
    /\ At(a, "persist")
    /\ run' = act[a].next
    /\ lock' = NoActor
    /\ Become(a, Idle)
    /\ UNCHANGED <<order, fills, book, venue, rsv, aged, faults>>

-----------------------------------------------------------------------------
(* Cancelling. A cancel of a terminal order, or of an ended run, returns   *)
(* at once and is left out, unless it becomes one on the way.              *)

CancelBegin(a) ==
    /\ a \in Cancels /\ At(a, "idle")
    /\ lock = NoActor /\ order.state # "none" /\ ~IsTerminal
    /\ lock' = a
    /\ Become(a, [Idle EXCEPT
           !.pc = "request", !.op = "cancel", !.flow = "cancel"])
    /\ UNCHANGED <<order, fills, book, venue, run, rsv, aged, faults>>

(* The orchestrator's: a run that was never persisted with its order has   *)
(* none to cancel.                                                         *)
StopBegin(a) ==
    /\ a \in Stops /\ At(a, "idle")
    /\ lock = NoActor /\ run \notin RunEnded
    /\ lock' = a
    /\ Become(a, IF run = "created"
           THEN [Idle EXCEPT !.pc = "persist", !.op = "stop", !.next = "canceled"]
           ELSE [Idle EXCEPT !.pc = "request", !.op = "stop", !.flow = "cancel"])
    /\ UNCHANGED <<order, fills, book, venue, run, rsv, aged, faults>>

(* Broken on purpose: a terminal row is not let alone.                     *)
RequestAlways(a) ==
    /\ At(a, "request")
    /\ Become(a, [act[a] EXCEPT !.pc = "mark", !.seen = Seen(order)])
    /\ UNCHANGED <<order, fills, book, venue, run, rsv, lock, aged, faults>>

(* _cancel_locked reads the row.                                           *)
Request(a) ==
    /\ At(a, "request")
    /\ Become(a, [act[a] EXCEPT
           !.pc = IF IsTerminal THEN "after" ELSE "mark", !.seen = Seen(order)])
    /\ UNCHANGED <<order, fills, book, venue, run, rsv, lock, aged, faults>>

(* Broken on purpose: the request alone makes the row canceled.            *)
MarkCanceled(a) ==
    /\ At(a, "mark")
    /\ order' = [order EXCEPT !.cnote = TRUE, !.state = "canceled"]
    /\ Goto(a, IF act[a].seen.unsent THEN "tail"
               ELSE IF act[a].seen.xid THEN "send" ELSE "adopt")
    /\ UNCHANGED <<fills, book, venue, run, rsv, lock, aged, faults>>

(* request_cancel and its note; what was never submitted is canceled here. *)
MarkRequested(a) ==
    /\ At(a, "mark")
    /\ order' = [order EXCEPT
           !.cnote = TRUE,
           !.state = IF act[a].seen.unsent THEN "canceled" ELSE "cancel_requested"]
    /\ Goto(a, IF act[a].seen.unsent THEN "tail"
               ELSE IF act[a].seen.xid THEN "send" ELSE "adopt")
    /\ UNCHANGED <<fills, book, venue, run, rsv, lock, aged, faults>>

(* cancel_order, if the last attempt is old enough. Its outcome is not     *)
(* believed: the order is fetched next.                                    *)
SendCancel(a) ==
    /\ At(a, "send")
    /\ IF venue.state = "open"
       THEN venue' \in {venue, [venue EXCEPT !.state = "canceled"]}
       ELSE UNCHANGED venue
    /\ Goto(a, "fetch")
    /\ UNCHANGED <<order, fills, book, run, rsv, lock, aged, faults>>

(* Broken on purpose: the reservation goes with the cancel request.        *)
TailReleases(a) ==
    /\ At(a, "tail")
    /\ rsv' = Settled(IF order.filled > 0 THEN "consumed" ELSE "released")
    /\ Goto(a, "after")
    /\ UNCHANGED <<order, fills, book, venue, run, lock, aged, faults>>

(* The row is read again and settles the reservation if it is terminal.    *)
Tail(a) ==
    /\ At(a, "tail")
    /\ rsv' = IF IsTerminal
              THEN Settled(IF order.filled > 0 THEN "consumed" ELSE "released")
              ELSE rsv
    /\ Goto(a, "after")
    /\ UNCHANGED <<order, fills, book, venue, run, lock, aged, faults>>

(* What the caller of cancel_tracked_order does next.                      *)
AfterCancel(a) ==
    /\ At(a, "after")
    /\ \/ /\ act[a].op \in {"cancel", "poll"}
          /\ Become(a, Idle) /\ lock' = NoActor
       \/ /\ act[a].op \in {"tick", "stop"} /\ UNCHANGED lock
          /\ \/ ~IsTerminal /\ Return(a, "active")
             \/ /\ act[a].op = "tick" /\ IsTerminal
                /\ Become(a, [act[a] EXCEPT
                       !.pc = "settle", !.next = EndOf(order.state)])
             \/ /\ act[a].op = "stop" /\ IsTerminal
                /\ IF order.state = "filled" THEN Goto(a, "step")
                                             ELSE Return(a, "canceled")
    /\ UNCHANGED <<order, fills, book, venue, run, rsv, aged, faults>>

-----------------------------------------------------------------------------
(* The surroundings.                                                       *)

(* The process of a dies: its locals are gone and its file lock is free.   *)
Crash(a) ==
    /\ ~At(a, "idle") /\ Fault("crash")
    /\ lock' = IF lock = a THEN NoActor ELSE lock
    /\ Become(a, Idle)
    /\ UNCHANGED <<order, fills, book, venue, run, rsv, aged>>

VenueFill ==
    /\ venue.state = "open"
    /\ venue' = [venue EXCEPT
           !.filled = @ + 1,
           !.state = IF venue.filled + 1 = Size THEN "filled" ELSE "open"]
    /\ UNCHANGED <<order, fills, book, run, rsv, lock, aged, faults, act>>

VenueEnd ==
    /\ venue.state = "open"
    /\ \E s \in VenueEnds : venue' = [venue EXCEPT !.state = s]
    /\ UNCHANGED <<order, fills, book, run, rsv, lock, aged, faults, act>>

Age ==
    /\ order.unk /\ ~aged
    /\ aged' = TRUE
    /\ UNCHANGED <<order, fills, book, venue, run, rsv, lock, faults, act>>

Work(a) ==
    \/ StepCancels(a) \/ StepFinalizes(a) \/ StepPlaces(a) \/ StepPolls(a)
    \/ PollLive(a) \/ StepFails(a) \/ StepBlocked(a)
    \/ PlaceAccepted(a) \/ PlaceRefused(a) \/ PlaceInDoubt(a)
    \/ MarkDoubt(a) \/ NoteDoubt(a) \/ MarkSubmitted(a)
    \/ Fetch(a) \/ FetchFails(a)
    \/ AdoptFound(a) \/ AdoptAbsent(a) \/ AdoptFails(a)
    \/ ReadWatermark(a) \/ InsertFill(a) \/ RollUp(a) \/ ApplyBook(a)
    \/ WriteStatus(a) \/ Settle(a) \/ Persist(a)
    \/ Request(a) \/ MarkRequested(a) \/ SendCancel(a) \/ Tail(a)
    \/ AfterCancel(a)

Begin(a) == TickBegin(a) \/ PollBegin(a) \/ CancelBegin(a) \/ StopBegin(a)

Next ==
    \/ \E a \in Actors : Begin(a) \/ Work(a) \/ Crash(a)
    \/ VenueFill \/ VenueEnd \/ Age

Spec == Init /\ [][Next]_vars

(* The loops come round, and find the lock free at some of their rounds; a *)
(* call once begun goes on; the venue works on an open order; time passes. *)
(* Nothing is assumed of cancels being asked for, or of faults.            *)
Fairness ==
    /\ \A a \in Actors : WF_vars(Work(a))
    /\ \A a \in Ticks \union Polls : SF_vars(Begin(a))
    /\ WF_vars(VenueFill)
    /\ WF_vars(Age)

FairSpec == Spec /\ Fairness

-----------------------------------------------------------------------------
(* Properties.                                                             *)

SizeOfFills == MapThenSumSet(LAMBDA f : f.size, fills)
SizeInBook  == MapThenSumSet(LAMBDA e : e.size, {e \in book : e.bucket = Bucket})

(* The lots of the order that fill f stands for.                           *)
Lots(f) == (f.cum - f.size + 1)..f.cum

Quiet == \A a \in Actors : At(a, "idle")

(* Whoever races, crashes or reads stale rows, the row never holds more    *)
(* than the venue has filled, and it says "filled" only of an order the    *)
(* venue has filled completely.                                            *)
RowBehindVenue ==
    /\ order.filled <= venue.filled
    /\ order.state = "filled" => venue.filled = Size

(* record_fill: the executor and the poller "converge on the same row      *)
(* instead of double-counting a partial fill": no lot is in two recorded   *)
(* fills.                                                                  *)
FillsNotDoubled ==
    \A f, g \in fills : f # g => Lots(f) \intersect Lots(g) = {}

(* A fill the row has rolled up is never lost, whoever races or dies: each *)
(* lot of it is in some recorded fill, and no fill records what the venue  *)
(* has not filled.                                                         *)
NoFillLost ==
    /\ 1..order.filled \subseteq UNION {Lots(f) : f \in fills}
    /\ \A f \in fills : Lots(f) \subseteq 1..venue.filled

(* Between two calls, the row, its fills and the book agree: the fills are *)
(* what the row says is filled, and the book has applied each of them.     *)
InLockStep ==
    Quiet =>
        /\ UNION {Lots(f) : f \in fills} = 1..order.filled
        /\ book = {[id |-> f.cum, size |-> f.size, bucket |-> Bucket] : f \in fills}

(* The book in lock-step with the broker: once every recorded fill is      *)
(* applied, the position is what was recorded.                             *)
BookMatchesFills ==
    (Quiet /\ {e.id : e \in book} = {f.cum : f \in fills})
        => SizeInBook = SizeOfFills

(* Capital is given back only for an order that has no fill and can get    *)
(* none: the venue never had it, or has closed it empty.                   *)
ReleasedMeansNoExposure ==
    rsv = "released" => venue.filled = 0 /\ venue.state # "open"

(* A fill another actor has recorded first is "a replay, not a fault": it  *)
(* never makes anyone release the capital the fill is using.               *)
ReleasedMeansUnfilled == rsv = "released" => fills = {}

(* A row is canceled only when the venue cannot fill it any more.          *)
CanceledIsOver == order.state = "canceled" => venue.state # "open"

(* No live venue order hides behind a local rejected row.                  *)
RejectedIsNotLive == order.state = "rejected" => venue.state # "open"

(* A placement in doubt is looked up, never repeated: the venue takes the  *)
(* order at most once.                                                     *)
PlacedOnce == venue.placed <= 1

(* "A failed lookup is NOT evidence of absence": a placement in doubt is   *)
(* given up as lost only if the venue never had the order.                 *)
LostIsAbsent == order.state = "lost" /\ order.unk => venue.state = "none"

(* A row that is lost, rejected, failed or expired never comes back as     *)
(* partially filled or filled.                                             *)
DeadStaysDead ==
    [][order.state \in Dead
          => order'.state \notin {"partially_filled", "filled"}]_vars

(* A terminal row keeps its state.                                         *)
TerminalIsFinal ==
    [][order.state \in Terminal => order'.state = order.state]_vars

(* An order the venue has closed is terminal here at last and for good,    *)
(* and the run that sent it ends.                                          *)
ClosesAtLast ==
    (venue.state \in VenueOver) ~> [](IsTerminal /\ run \in RunEnded)

(* What was bought is paid for: if the venue filled anything, the          *)
(* reservation ends up consumed.                                           *)
FilledIsConsumed == (venue.filled > 0) ~> (rsv = "consumed")
=============================================================================
