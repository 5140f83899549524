------------------------ MODULE OrderExecution_proofs ------------------------
(***************************************************************************)
(* Proofs about OrderExecution, for any number of executor callers,        *)
(* pollers, cancels and faults: what the order row says of fills never     *)
(* runs ahead of the venue, no fill of it is lost, every variable keeps    *)
(* its type, and the file lock is kept; if no process dies in the middle   *)
(* of a call, the order is placed once, and no row is closed over a live   *)
(* order.                                                                  *)
(***************************************************************************)
EXTENDS OrderExecution, TLAPS

(* The venue only fills, and never beyond the size.                        *)
VenueInv ==
    /\ venue \in [state : VenueStates, filled : 0..Size, placed : Nat]
    /\ venue.state = "open" => venue.filled < Size
    /\ venue.state = "filled" => venue.filled = Size
    /\ venue.placed = 0 => venue.filled = 0 /\ venue.state = "none"

(* The answer in hand is one the venue has given, now or earlier.          *)
AckInv(a) ==
    /\ act[a].ack \in [state : VenueStates, filled : Nat]
    /\ act[a].ack.filled <= venue.filled
    /\ act[a].ack.state = "filled" => venue.filled = Size

RowInv ==
    /\ order \in Row
    /\ order.filled <= venue.filled
    /\ order.state = "filled" => venue.filled = Size

IInv == /\ VenueInv
        /\ act \in [Actors -> Local]
        /\ \A a \in Actors : AckInv(a)
        /\ RowInv

(* The constants, without the parts of the assumption nobody needs here.   *)
LEMMA Constants ==
    /\ Size \in Nat /\ Size > 0
    /\ VenueEnds \subseteq {"canceled", "rejected", "expired"}
    /\ LostThreshold \in Nat /\ MinAbsentCycles \in Nat
  BY ExecutionAssumption DEF ExecutionAssumption

LEMMA InitIInv == Init => IInv
<1> SUFFICES ASSUME Init PROVE IInv
  OBVIOUS
<1> USE Constants DEF Init, NoRow, Idle
<1>1. VenueInv
  BY DEF VenueInv, VenueStates, VenueOver
<1>2. act \in [Actors -> Local]
  BY DEF Local, Seen, Pcs, VenueStates
<1>3. RowInv
  BY DEF RowInv, Row, OrderStates, Terminal
<1>4. \A a \in Actors : AckInv(a)
  BY DEF AckInv, VenueStates
<1> QED
  BY <1>1, <1>2, <1>3, <1>4 DEF IInv

(* Only the surroundings and a placement touch the venue's order.          *)
VenueGoesOn ==
    /\ VenueInv'
    /\ venue.filled <= venue'.filled

LEMMA VenueStep ==
    ASSUME IInv, [Next]_vars
    PROVE  VenueGoesOn
<1> USE Constants DEF IInv, VenueInv, VenueGoesOn
<1>1. ASSUME NEW a \in Actors, Work(a) PROVE VenueGoesOn
  <2>1. CASE PlaceAccepted(a)
    BY <2>1 DEF PlaceAccepted, Accept, VenueStates, VenueOver
  <2>2. CASE PlaceInDoubt(a)
    BY <2>2 DEF PlaceInDoubt, Accept, VenueStates, VenueOver
  <2>3. CASE SendCancel(a)
    BY <2>3 DEF SendCancel, VenueStates, VenueOver
  <2>4. CASE UNCHANGED venue
    BY <2>4
  <2>5. \/ PlaceAccepted(a) \/ PlaceInDoubt(a) \/ SendCancel(a)
        \/ UNCHANGED venue
    BY <1>1, ZenonT(30)
    DEF Work, StepCancels, StepFinalizes, StepPlaces, StepPolls, PollLive, StepFails,
        StepBlocked, PlaceRefused, MarkDoubt, NoteDoubt, MarkSubmitted, Fetch,
        FetchFails, AdoptFound, AdoptAbsent, AdoptFails, ReadWatermark,
        InsertFill, RollUp, ApplyBook, WriteStatus, Settle, Persist, Request,
        MarkRequested, Tail, AfterCancel
  <2> HIDE DEF IInv, VenueInv, VenueGoesOn
  <2> QED
    BY <2>1, <2>2, <2>3, <2>4, <2>5
<1>2. ASSUME NEW a \in Actors, Begin(a) \/ Crash(a) PROVE VenueGoesOn
  BY <1>2 DEF Begin, TickBegin, PollBegin, CancelBegin, StopBegin, Crash
<1>3. CASE VenueFill
  <2>1. /\ venue.filled \in Nat /\ venue.placed \in Nat
        /\ venue.filled < Size /\ venue.state = "open"
    BY <1>3 DEF VenueFill
  <2>2. \E s \in {"open", "filled"} :
           /\ venue' = [venue EXCEPT !.filled = venue.filled + 1, !.state = s]
           /\ s = "filled" <=> venue.filled + 1 = Size
    BY <1>3 DEF VenueFill
  <2>3. PICK s \in {"open", "filled"} :
           /\ venue' = [venue EXCEPT !.filled = venue.filled + 1, !.state = s]
           /\ s = "filled" <=> venue.filled + 1 = Size
    BY <2>2
  <2>4. /\ venue'.filled = venue.filled + 1 /\ venue'.state = s
        /\ venue'.placed = venue.placed
    BY <2>3
  <2>5. venue' \in [state : VenueStates, filled : 0..Size, placed : Nat]
    <3>1. s \in VenueStates
      BY DEF VenueStates, VenueOver
    <3>2. venue.filled + 1 \in 0..Size
      BY <2>1
    <3> HIDE DEF VenueStates
    <3> QED
      BY <2>3, <3>1, <3>2
  <2>6. venue'.placed # 0
    BY <2>1, <2>4
  <2> QED
    BY <2>1, <2>3, <2>4, <2>5, <2>6
<1>4. CASE VenueEnd
  BY <1>4 DEF VenueEnd, VenueStates, VenueOver
<1>5. CASE Age \/ UNCHANGED vars
  BY <1>5 DEF Age, vars
<1> QED
  BY <1>1, <1>2, <1>3, <1>4, <1>5 DEF Next

-----------------------------------------------------------------------------
(* An actor changes only its own entry, and of the answer in hand it keeps *)
(* what it has, forgets it, or takes what the venue now says.              *)
Answer(k) ==
    /\ k \in [state : VenueStates, filled : Nat]
    /\ k.filled <= venue'.filled
    /\ k.state = "filled" => venue'.filled = Size

ActInv == /\ act \in [Actors -> Local]
          /\ \A a \in Actors : AckInv(a)

LEMMA OldAnswer ==
    ASSUME VenueInv, ActInv, VenueGoesOn, NEW a \in Actors
    PROVE  Answer(act[a].ack) /\ Answer(Idle.ack)
<1>1. /\ venue.filled \in 0..Size /\ venue'.filled \in 0..Size
      /\ venue.filled <= venue'.filled
  BY DEF VenueGoesOn, VenueInv
<1>2. Answer(act[a].ack)
  BY <1>1, Constants DEF ActInv, AckInv, Answer
<1>3. Answer(Idle.ack)
  BY <1>1, Constants DEF Idle, Answer, VenueStates
<1> QED
  BY <1>2, <1>3

LEMMA NewAnswer ==
    ASSUME VenueInv, UNCHANGED venue
    PROVE  Answer([state |-> venue.state, filled |-> venue.filled])
  BY Constants DEF VenueInv, Answer

LEMMA LocalIdle == Idle \in Local
  BY DEF Idle, Local, Pcs, Seen, NoRow, VenueStates

LEMMA Entry ==
    ASSUME VenueInv, ActInv, VenueGoesOn,
           NEW a \in Actors, NEW l \in Local, Answer(l.ack), Become(a, l)
    PROVE  ActInv'
<1>1. act' \in [Actors -> Local]
  BY DEF ActInv, Become
<1>2. ASSUME NEW b \in Actors PROVE AckInv(b)'
  <2>1. Answer(act'[b].ack)
    <3>1. CASE b = a
      BY <3>1 DEF Become, ActInv
    <3>2. CASE b # a
      BY <3>2, OldAnswer DEF Become, ActInv
    <3> QED
      BY <3>1, <3>2
  <2> QED
    BY <2>1 DEF Answer, AckInv
<1> QED
  BY <1>1, <1>2 DEF ActInv

(* The forms in which an actor's entry is written, as set membership.      *)
SeenSet == [filled : Nat, xid : BOOLEAN, unk : BOOLEAN, unsent : BOOLEAN]
Flows   == {"none", "submit", "tick", "poll", "cancel"}
Nexts   == {"none", "active"} \union RunEnded

LEMMA SeenType ==
    ASSUME NEW row \in Row
    PROVE  Seen(row) \in SeenSet
  BY DEF Seen, SeenSet, Row

LEMMA PutPc ==
    ASSUME VenueInv, ActInv, VenueGoesOn,
           NEW a \in Actors, NEW l \in {act[a], Idle}, NEW p \in Pcs
    PROVE  Become(a, [l EXCEPT !.pc = p]) => ActInv'
<1> DEFINE m == [l EXCEPT !.pc = p]
<1>1. l \in Local /\ Answer(l.ack)
  BY OldAnswer, LocalIdle DEF ActInv
<1>2. m \in Local /\ m.ack = l.ack
  BY <1>1 DEF Local
<1> HIDE DEF m
<1>3. Become(a, m) => ActInv'
  BY <1>1, <1>2, Entry
<1> QED
  BY <1>3 DEF m

LEMMA PutNext ==
    ASSUME VenueInv, ActInv, VenueGoesOn,
           NEW a \in Actors, NEW p \in Pcs, NEW s \in Nexts
    PROVE  Become(a, [act[a] EXCEPT !.pc = p, !.next = s]) => ActInv'
<1> DEFINE m == [act[a] EXCEPT !.pc = p, !.next = s]
<1>1. act[a] \in Local /\ Answer(act[a].ack)
  BY OldAnswer DEF ActInv
<1>2. m \in Local /\ m.ack = act[a].ack
  BY <1>1 DEF Local, Nexts
<1> HIDE DEF m
<1>3. Become(a, m) => ActInv'
  BY <1>1, <1>2, Entry
<1> QED
  BY <1>3 DEF m

LEMMA PutFlow ==
    ASSUME VenueInv, ActInv, VenueGoesOn,
           NEW a \in Actors, NEW p \in Pcs, NEW f \in Flows
    PROVE  Become(a, [act[a] EXCEPT !.pc = p, !.flow = f]) => ActInv'
<1> DEFINE m == [act[a] EXCEPT !.pc = p, !.flow = f]
<1>1. act[a] \in Local /\ Answer(act[a].ack)
  BY OldAnswer DEF ActInv
<1>2. m \in Local /\ m.ack = act[a].ack
  BY <1>1 DEF Local, Flows
<1> HIDE DEF m
<1>3. Become(a, m) => ActInv'
  BY <1>1, <1>2, Entry
<1> QED
  BY <1>3 DEF m

LEMMA PutBase ==
    ASSUME VenueInv, ActInv, VenueGoesOn,
           NEW a \in Actors, NEW p \in Pcs, NEW n \in Nat
    PROVE  Become(a, [act[a] EXCEPT !.pc = p, !.base = n]) => ActInv'
<1> DEFINE m == [act[a] EXCEPT !.pc = p, !.base = n]
<1>1. act[a] \in Local /\ Answer(act[a].ack)
  BY OldAnswer DEF ActInv
<1>2. m \in Local /\ m.ack = act[a].ack
  BY <1>1 DEF Local
<1> HIDE DEF m
<1>3. Become(a, m) => ActInv'
  BY <1>1, <1>2, Entry
<1> QED
  BY <1>3 DEF m

LEMMA PutSeen ==
    ASSUME VenueInv, ActInv, VenueGoesOn,
           NEW a \in Actors, NEW p \in Pcs, NEW w \in SeenSet
    PROVE  Become(a, [act[a] EXCEPT !.pc = p, !.seen = w]) => ActInv'
<1> DEFINE m == [act[a] EXCEPT !.pc = p, !.seen = w]
<1>1. act[a] \in Local /\ Answer(act[a].ack)
  BY OldAnswer DEF ActInv
<1>2. m \in Local /\ m.ack = act[a].ack
  BY <1>1 DEF Local, SeenSet
<1> HIDE DEF m
<1>3. Become(a, m) => ActInv'
  BY <1>1, <1>2, Entry
<1> QED
  BY <1>3 DEF m

LEMMA PutAck ==
    ASSUME VenueInv, ActInv, VenueGoesOn,
           NEW a \in Actors, NEW p \in Pcs, NEW k, Answer(k)
    PROVE  Become(a, [act[a] EXCEPT !.pc = p, !.ack = k]) => ActInv'
<1> DEFINE m == [act[a] EXCEPT !.pc = p, !.ack = k]
<1>1. act[a] \in Local
  BY DEF ActInv
<1>2. m \in Local /\ m.ack = k
  BY <1>1 DEF Local, Answer
<1> HIDE DEF m
<1>3. Become(a, m) => ActInv'
  BY <1>2, Entry
<1> QED
  BY <1>3 DEF m

LEMMA PutAnswer ==
    ASSUME VenueInv, ActInv, VenueGoesOn,
           NEW a \in Actors, NEW w \in SeenSet, NEW k, Answer(k)
    PROVE  Answered(a, w, k) => ActInv'
<1> DEFINE p == IF k.filled > w.filled THEN "read" ELSE "status"
           m == [act[a] EXCEPT !.seen = w, !.ack = k, !.pc = p]
<1>1. act[a] \in Local /\ p \in Pcs
  BY DEF ActInv, Pcs
<1> HIDE DEF p
<1>2. m \in Local /\ m.ack = k
  BY <1>1 DEF Local, SeenSet, Answer
<1> HIDE DEF m
<1>3. Become(a, m) => ActInv'
  BY <1>2, Entry
<1> QED
  BY <1>3 DEF m, p, Answered

LEMMA Moves ==
    ASSUME VenueInv, ActInv, VenueGoesOn, NEW a \in Actors
    PROVE  /\ Become(a, Idle) => ActInv'
           /\ \A p \in Pcs : Goto(a, p) => ActInv'
           /\ \A s \in Nexts : Return(a, s) => ActInv'
           /\ NoAnswer(a) => ActInv'
<1>1. Become(a, Idle) => ActInv'
  BY OldAnswer, LocalIdle, Entry
<1>2. ASSUME NEW p \in Pcs PROVE Goto(a, p) => ActInv'
  BY PutPc DEF Goto
<1>3. ASSUME NEW s \in Nexts PROVE Return(a, s) => ActInv'
  <2>1. "persist" \in Pcs
    BY DEF Pcs
  <2> QED
    BY <2>1, PutNext DEF Return
<1>4. "tail" \in Pcs /\ "active" \in Nexts
  BY DEF Pcs, Nexts
<1>5. NoAnswer(a) => ActInv'
  BY <1>1, <1>2, <1>3, <1>4 DEF NoAnswer
<1> QED
  BY <1>1, <1>2, <1>3, <1>5

LEMMA WorkMoves ==
    ASSUME VenueInv, ActInv, RowInv, VenueGoesOn, NEW a \in Actors, Work(a)
    PROVE  ActInv'
<1>1. /\ Seen(order) \in SeenSet /\ order.filled \in Nat
      /\ EndOf(order.state) \in Nexts /\ EndOf(act[a].ack.state) \in Nexts
      /\ act[a].next \in Nexts
  <2>1. order \in Row /\ act[a] \in Local
    BY DEF RowInv, ActInv
  <2>2. \A s : EndOf(s) \in Nexts
    BY DEF EndOf, Nexts, RunEnded
  <2> QED
    BY <2>1, <2>2, SeenType DEF Row, Local, Nexts
<1>2. Pcs = {"idle", "step", "look", "place", "submitted", "doubt", "note", "fetch",
             "adopt", "read", "insert", "roll", "book", "status", "settle",
             "request", "mark", "send", "tail", "after", "persist"}
  BY DEF Pcs
<1>3. /\ Nexts = {"none", "active", "done", "failed", "canceled"}
      /\ Flows = {"none", "submit", "tick", "poll", "cancel"}
  BY DEF Nexts, RunEnded, Flows
<1> USE <1>1, <1>2, <1>3, Moves
<1>7. CASE StepCancels(a)
  BY <1>7, PutFlow DEF StepCancels
<1>8. CASE StepFinalizes(a)
  BY <1>8, PutNext DEF StepFinalizes
<1>9. CASE StepPlaces(a)
  BY <1>9, PutFlow DEF StepPlaces
<1>10. CASE StepPolls(a)
  BY <1>10, PutFlow DEF StepPolls
<1>11. CASE StepFails(a) \/ StepBlocked(a) \/ PlaceRefused(a) \/ NoteDoubt(a)
  BY <1>11 DEF StepFails, StepBlocked, PlaceRefused, NoteDoubt
<1>12. CASE PlaceInDoubt(a) \/ MarkDoubt(a) \/ SendCancel(a) \/ Tail(a)
            \/ MarkRequested(a) \/ RollUp(a) \/ InsertFill(a)
  BY <1>12 DEF PlaceInDoubt, MarkDoubt, SendCancel, Tail, MarkRequested,
               RollUp, InsertFill
<1>13. CASE PlaceAccepted(a)
  <2>1. PICK n \in 0..(IF venue.placed = 0 THEN Size ELSE 0) :
           /\ Accept(n)
           /\ Become(a, [act[a] EXCEPT
                 !.pc = "submitted", !.ack = [state |-> "open", filled |-> n]])
    BY <1>13 DEF PlaceAccepted
  <2>2. n \in Nat /\ n <= venue'.filled
    <3>1. CASE venue.placed = 0
      BY <2>1, <3>1, Constants DEF Accept
    <3>2. CASE venue.placed # 0
      BY <2>1, <3>2, Constants DEF VenueInv, VenueGoesOn
    <3> QED
      BY <3>1, <3>2
  <2>3. Answer([state |-> "open", filled |-> n])
    BY <2>2 DEF Answer, VenueStates
  <2> QED
    BY <2>1, <2>3, PutAck
<1>14. CASE MarkSubmitted(a)
  BY <1>14 DEF MarkSubmitted
<1>15. CASE Fetch(a)
  <2>1. act[a].seen \in SeenSet
    BY DEF ActInv, Local, SeenSet
  <2> QED
    BY <1>15, <2>1, NewAnswer, PutAnswer DEF Fetch
<1>16. CASE FetchFails(a) \/ AdoptAbsent(a) \/ AdoptFails(a)
  BY <1>16 DEF FetchFails, AdoptAbsent, AdoptFails
<1>17. CASE AdoptFound(a)
  <2>1. Seen(order') \in SeenSet
    BY <1>17, SeenType DEF AdoptFound, RowInv, Row, OrderStates
  <2> QED
    BY <1>17, <2>1, NewAnswer, PutAnswer, PutSeen DEF AdoptFound
<1>18. CASE ReadWatermark(a)
  BY <1>18, PutBase DEF ReadWatermark
<1>19. CASE ApplyBook(a)
  BY <1>19, PutBase DEF ApplyBook
<1>20. CASE WriteStatus(a)
  BY <1>20, PutNext DEF WriteStatus
<1>21. CASE Settle(a) \/ Persist(a)
  BY <1>21 DEF Settle, Persist
<1>22. CASE Request(a) \/ PollLive(a)
  BY <1>22, PutSeen DEF Request, PollLive
<1>23. CASE AfterCancel(a)
  BY <1>23, PutNext DEF AfterCancel
<1> QED
  BY <1>7, <1>8, <1>9, <1>10, <1>11, <1>12, <1>13, <1>14, <1>15, <1>16,
     <1>17, <1>18, <1>19, <1>20, <1>21, <1>22, <1>23 DEF Work

(* A call begins from Idle, and a crash goes back to it.                   *)
LEMMA PutBegin ==
    ASSUME VenueInv, ActInv, VenueGoesOn, NEW a \in Actors,
           NEW m \in Local, m.ack = Idle.ack
    PROVE  Become(a, m) => ActInv'
<1>1. Answer(Idle.ack)
  BY OldAnswer
<1> HIDE DEF Idle
<1> QED
  BY <1>1, Entry

LEMMA BeginMoves ==
    ASSUME VenueInv, ActInv, RowInv, VenueGoesOn, NEW a \in Actors,
           Begin(a) \/ Crash(a)
    PROVE  ActInv'
<1> DEFINE tick   == [Idle EXCEPT !.pc = "step", !.op = "tick"]
           asked  == [Idle EXCEPT !.pc = "request", !.op = "poll", !.flow = "cancel"]
           poll(p) == [Idle EXCEPT !.pc = p, !.op = "poll", !.flow = "poll",
                                   !.seen = Seen(order)]
           cancel == [Idle EXCEPT !.pc = "request", !.op = "cancel", !.flow = "cancel"]
           stop   == [Idle EXCEPT !.pc = "request", !.op = "stop", !.flow = "cancel"]
           ended  == [Idle EXCEPT !.pc = "persist", !.op = "stop", !.next = "canceled"]
<1>1. /\ tick \in Local /\ tick.ack = Idle.ack
      /\ asked \in Local /\ asked.ack = Idle.ack
      /\ cancel \in Local /\ cancel.ack = Idle.ack
      /\ stop \in Local /\ stop.ack = Idle.ack
      /\ ended \in Local /\ ended.ack = Idle.ack
  <2> HIDE DEF Idle
  <2>1. tick \in Local /\ tick.ack = Idle.ack
    BY LocalIdle DEF Local, Pcs
  <2>2. asked \in Local /\ asked.ack = Idle.ack
    BY LocalIdle DEF Local, Pcs
  <2>3. cancel \in Local /\ cancel.ack = Idle.ack
    BY LocalIdle DEF Local, Pcs
  <2>4. stop \in Local /\ stop.ack = Idle.ack
    BY LocalIdle DEF Local, Pcs
  <2>5. ended \in Local /\ ended.ack = Idle.ack
    BY LocalIdle DEF Local, Pcs, RunEnded
  <2> HIDE DEF tick, asked, cancel, stop, ended
  <2> QED
    BY <2>1, <2>2, <2>3, <2>4, <2>5
<1>2. ASSUME NEW p \in {"adopt", "fetch"}
      PROVE  poll(p) \in Local /\ poll(p).ack = Idle.ack
  <2>1. Seen(order) \in SeenSet
    BY SeenType DEF RowInv
  <2> QED
    BY <2>1, LocalIdle DEF Local, Pcs, SeenSet
<1>3. /\ Become(a, tick) => ActInv'
      /\ Become(a, asked) => ActInv'
      /\ Become(a, cancel) => ActInv'
      /\ Become(a, stop) => ActInv'
      /\ Become(a, ended) => ActInv'
      /\ \A p \in {"adopt", "fetch"} : Become(a, poll(p)) => ActInv'
  <2> HIDE DEF tick, asked, poll, cancel, stop, ended
  <2> QED
    BY <1>1, <1>2, PutBegin
<1>4. CASE TickBegin(a)
  BY <1>3, <1>4 DEF TickBegin
<1>5. CASE PollBegin(a)
  BY <1>3, <1>5 DEF PollBegin
<1>6. CASE CancelBegin(a)
  BY <1>3, <1>6 DEF CancelBegin
<1>7. CASE StopBegin(a)
  BY <1>3, <1>7 DEF StopBegin
<1>8. CASE Crash(a)
  BY <1>8, Moves DEF Crash
<1> QED
  BY <1>4, <1>5, <1>6, <1>7, <1>8 DEF Begin

LEMMA ActStep ==
    ASSUME VenueInv, ActInv, RowInv, VenueGoesOn, [Next]_vars
    PROVE  ActInv'
<1>1. ASSUME UNCHANGED act PROVE ActInv'
  <2>1. \A a \in Actors : Answer(act[a].ack)
    BY OldAnswer
  <2> QED
    BY <1>1, <2>1 DEF ActInv, AckInv, Answer
<1>2. CASE VenueFill \/ VenueEnd \/ Age \/ UNCHANGED vars
  BY <1>1, <1>2 DEF VenueFill, VenueEnd, Age, vars
<1>3. CASE \E a \in Actors : Begin(a) \/ Work(a) \/ Crash(a)
  BY <1>3, WorkMoves, BeginMoves
<1> QED
  BY <1>2, <1>3 DEF Next

-----------------------------------------------------------------------------
(* The row takes a fill only from an answer, and "filled" only from an     *)
(* answer that covers the size.                                            *)
LEMMA RowStep ==
    ASSUME VenueInv, ActInv, RowInv, VenueGoesOn, [Next]_vars
    PROVE  RowInv'
<1>1. /\ venue.filled \in 0..Size /\ venue'.filled \in 0..Size
      /\ venue.filled <= venue'.filled
      /\ Size \in Nat /\ LostThreshold \in Nat /\ MinAbsentCycles \in Nat
  BY Constants DEF VenueInv, VenueGoesOn
<1>2. ASSUME UNCHANGED <<order.filled, order.state>>, order' \in Row
      PROVE  RowInv'
  BY <1>1, <1>2 DEF RowInv, Row
<1>3. ASSUME order' \in Row, order'.filled = order.filled,
             order'.state # "filled"
      PROVE  RowInv'
  BY <1>1, <1>3 DEF RowInv, Row
<1>4. ASSUME NEW a \in Actors, Work(a) PROVE RowInv'
  <2>1. /\ act[a].ack.filled \in Nat /\ act[a].ack.filled <= venue.filled
        /\ act[a].ack.state = "filled" => venue.filled = Size
        /\ act[a].ack.state \in VenueStates
    BY DEF ActInv, AckInv
  <2>2. CASE StepBlocked(a) \/ PlaceRefused(a)
    BY <1>3, <2>2 DEF StepBlocked, PlaceRefused, RowInv, Row, OrderStates, Terminal, Dead
  <2>3. CASE MarkDoubt(a) \/ MarkSubmitted(a)
    BY <1>3, <2>3 DEF MarkDoubt, MarkSubmitted, RowInv, Row, OrderStates
  <2>4. CASE NoteDoubt(a)
    BY <1>2, <2>4 DEF NoteDoubt, RowInv, Row
  <2>5. CASE Fetch(a)
    BY <1>2, <2>5 DEF Fetch, RowInv, Row
  <2>6. CASE AdoptFound(a)
    BY <1>3, <2>6 DEF AdoptFound, RowInv, Row, OrderStates
  <2>7. /\ Struck \in Row /\ Struck.filled = order.filled
        /\ Struck.state = order.state \/ Struck.state = "lost"
    <3> DEFINE n == IF order.streak < LostThreshold THEN order.streak + 1
                                         ELSE LostThreshold
               t == IF ~IsTerminal /\ n >= LostThreshold THEN "lost" ELSE order.state
    <3>1. Struck = [order EXCEPT !.streak = n, !.state = t]
      BY DEF Struck
    <3>2. n \in Nat /\ t \in {order.state, "lost"} /\ t \in OrderStates
      BY <1>1 DEF RowInv, Row, OrderStates, Terminal, Dead
    <3> HIDE DEF n, t
    <3> QED
      BY <3>1, <3>2 DEF RowInv, Row
  <2>8. /\ Absent \in Row /\ Absent.filled = order.filled
        /\ Absent.state = order.state \/ Absent.state = "lost"
    <3> DEFINE n == IF order.absent < MinAbsentCycles THEN order.absent + 1
                                         ELSE MinAbsentCycles
               t == IF n >= MinAbsentCycles /\ aged THEN "lost" ELSE order.state
    <3>1. Absent = [order EXCEPT !.absent = n, !.state = t]
      BY DEF Absent
    <3>2. n \in Nat /\ t \in {order.state, "lost"} /\ t \in OrderStates
      BY <1>1 DEF RowInv, Row, OrderStates, Terminal, Dead
    <3> HIDE DEF n, t
    <3> QED
      BY <3>1, <3>2 DEF RowInv, Row
  <2>9. CASE AdoptAbsent(a)
    BY <1>2, <1>3, <2>7, <2>8, <2>9 DEF AdoptAbsent, RowInv
  <2>10. CASE AdoptFails(a)
    <3>1. [order EXCEPT !.absent = 0] \in Row
          /\ [order EXCEPT !.absent = 0].filled = order.filled
          /\ [order EXCEPT !.absent = 0].state = order.state
      BY DEF RowInv, Row
    <3> QED
      BY <1>2, <1>3, <2>7, <2>10, <3>1 DEF AdoptFails, RowInv
  <2>11. CASE RollUp(a)
    <3>1. PICK t \in {"filled", "partially_filled"} :
             /\ order' = [order EXCEPT !.filled = act[a].ack.filled, !.state = t]
             /\ t = "filled" => act[a].ack.filled >= Size
      BY <2>11 DEF RollUp
    <3>2. t \in OrderStates /\ venue' = venue
      BY <2>11 DEF RollUp, OrderStates, Terminal
    <3>3. order' \in Row /\ order'.filled = act[a].ack.filled /\ order'.state = t
      BY <2>1, <3>1, <3>2 DEF RowInv, Row
    <3> QED
      BY <1>1, <2>1, <3>1, <3>2, <3>3 DEF RowInv
  <2>12. CASE WriteStatus(a)
    <3> DEFINE new == StatusToWrite(act[a].flow, act[a].ack)
    <3>1. new \subseteq VenueOver \union {"partially_filled", "none"}
      BY DEF StatusToWrite, VenueOver
    <3>2. "filled" \in new => venue.filled = Size
      BY <1>1, <2>1 DEF StatusToWrite, VenueOver
    <3>3. PICK t : /\ order' = [order EXCEPT !.state = t]
                   /\ t = order.state \/ t \in new
      BY <2>12 DEF WriteStatus, RowInv, Row
    <3>4. t \in OrderStates /\ (t = "filled" => venue.filled = Size)
      BY <3>1, <3>2, <3>3
      DEF RowInv, Row, OrderStates, Terminal, Dead, VenueOver
    <3>5. order' \in Row /\ order'.filled = order.filled /\ order'.state = t
      BY <3>3, <3>4 DEF RowInv, Row
    <3> QED
      BY <1>1, <3>4, <3>5, <2>12 DEF RowInv, WriteStatus
  <2>13. CASE MarkRequested(a)
    BY <1>3, <2>13 DEF MarkRequested, RowInv, Row, OrderStates, Terminal
  <2>14. CASE UNCHANGED order
    BY <1>2, <2>14 DEF RowInv
  <2>15. \/ StepBlocked(a) \/ PlaceRefused(a) \/ MarkDoubt(a)
         \/ MarkSubmitted(a) \/ NoteDoubt(a) \/ Fetch(a) \/ AdoptFound(a)
         \/ AdoptAbsent(a) \/ AdoptFails(a) \/ RollUp(a) \/ WriteStatus(a)
         \/ MarkRequested(a) \/ UNCHANGED order
    BY <1>4, ZenonT(30)
    DEF Work, StepCancels, StepFinalizes, StepPlaces, StepPolls, PollLive, StepFails,
        PlaceAccepted, PlaceInDoubt, FetchFails, ReadWatermark, InsertFill,
        ApplyBook, Settle, Persist, Request, SendCancel, Tail, AfterCancel
  <2> QED
    BY <2>2, <2>3, <2>4, <2>5, <2>6, <2>9, <2>10, <2>11, <2>12, <2>13, <2>14,
       <2>15
<1>5. ASSUME NEW a \in Actors, Begin(a) \/ Crash(a) PROVE RowInv'
  <2>1. CASE TickBegin(a)
    <3>1. \/ order' = order
          \/ order' = [order EXCEPT !.state = "created"]
      BY <2>1 DEF TickBegin
    <3> QED
      BY <1>2, <1>3, <3>1 DEF RowInv, Row, OrderStates
  <2>2. CASE UNCHANGED order
    BY <1>2, <2>2 DEF RowInv
  <2> QED
    BY <1>5, <2>1, <2>2 DEF Begin, PollBegin, CancelBegin, StopBegin, Crash
<1>6. CASE VenueFill \/ VenueEnd \/ Age \/ UNCHANGED vars
  BY <1>2, <1>6 DEF VenueFill, VenueEnd, Age, vars, RowInv
<1> QED
  BY <1>4, <1>5, <1>6 DEF Next

-----------------------------------------------------------------------------
(* The inductive step of IInv.                                             *)
LEMMA NextIInv == IInv /\ [Next]_vars => IInv'
<1> SUFFICES ASSUME IInv, [Next]_vars PROVE IInv'
  OBVIOUS
<1>1. VenueGoesOn
  BY VenueStep
<1>2. VenueInv /\ ActInv /\ RowInv
  BY DEF IInv, ActInv
<1>3. VenueInv' /\ ActInv' /\ RowInv'
  BY <1>1, <1>2, ActStep, RowStep DEF VenueGoesOn
<1> QED
  BY <1>3 DEF IInv, ActInv

(* Whoever polls, steps, cancels or crashes, in whatever order and however *)
(* often: the row never says more than the venue has filled, and "filled"  *)
(* only of an order that is.                                               *)
THEOREM RowNeverAhead == Spec => []RowBehindVenue
<1>1. IInv => RowBehindVenue
  BY DEF IInv, RowInv, RowBehindVenue
<1> QED
  BY InitIInv, NextIInv, <1>1, PTL DEF Spec

-----------------------------------------------------------------------------
(* Type correctness. Two parts of it do not hold by themselves: the size   *)
(* of a fill is a natural number only because the watermark an actor has   *)
(* read stays below the answer it records, and a run is only persisted in  *)
(* a state some path has chosen for it.                                    *)

(* Of an actor's locals l: a venue answer has a handler, only the poller   *)
(* runs the poller's, a run about to be persisted has a state, and a fill  *)
(* about to be inserted is not negative.                                   *)
Ctl(l) ==
    /\ l.pc \in {"idle", "step", "settle", "persist"} \/ l.flow # "none"
    /\ l.flow = "poll" => l.op = "poll"
    /\ (l.pc = "persist" \/ (l.pc = "settle" /\ l.op # "poll")) => l.next # "none"
    /\ l.pc = "insert" => l.base <= l.ack.filled

CtlInv == \A a \in Actors : Ctl(act[a])

RestInv ==
    /\ fills \subseteq [cum : Nat, size : Nat]
    /\ book \subseteq [id : Nat, size : Int, bucket : Buckets]
    /\ run \in {"created", "active"} \union RunEnded
    /\ rsv \in {"reserved", "consumed", "released"}
    /\ lock \in Actors \union {NoActor}
    /\ aged \in BOOLEAN
    /\ faults \in 0..MaxFaults

TInv == IInv /\ CtlInv /\ RestInv

LEMMA InitTInv == Init => TInv
<1> SUFFICES ASSUME Init PROVE TInv
  OBVIOUS
<1>1. IInv
  BY InitIInv
<1>2. CtlInv
  BY DEF Init, CtlInv, Ctl, Idle
<1>3. RestInv
  <2>1. MaxFaults \in Nat
    BY ExecutionAssumption DEF ExecutionAssumption
  <2>2. faults \in 0..MaxFaults
    BY <2>1 DEF Init
  <2> QED
    BY <2>2 DEF Init, RestInv
<1> QED
  BY <1>1, <1>2, <1>3 DEF TInv

-----------------------------------------------------------------------------
(* The control of an actor.                                                *)

LEMMA CtlIdle == Ctl(Idle)
  BY DEF Ctl, Idle

(* An actor's next locals are all a step can spoil.                        *)
LEMMA CtlEntry ==
    ASSUME act \in [Actors -> Local], CtlInv,
           NEW a \in Actors, NEW l, Ctl(l), Become(a, l)
    PROVE  CtlInv'
  BY DEF CtlInv, Become

(* Where a call goes on, ends or persists without more being said.         *)
LEMMA CtlMoves ==
    ASSUME act \in [Actors -> Local], CtlInv, NEW a \in Actors
    PROVE  /\ Become(a, Idle) => CtlInv'
           /\ \A p \in Pcs \ {"persist", "settle", "insert"} :
                 (act[a].flow # "none" \/ p \in {"idle", "step"}) /\ Goto(a, p)
                    => CtlInv'
           /\ \A s \in Nexts \ {"none"} : Return(a, s) => CtlInv'
           /\ NoAnswer(a) /\ act[a].flow # "none" => CtlInv'
<1>1. Become(a, Idle) => CtlInv'
  BY CtlIdle, CtlEntry
<1>2. ASSUME NEW p \in Pcs \ {"persist", "settle", "insert"},
             act[a].flow # "none" \/ p \in {"idle", "step"}, Goto(a, p)
      PROVE  CtlInv'
  <2> DEFINE m == [act[a] EXCEPT !.pc = p]
  <2>1. Ctl(m)
    BY <1>2 DEF Ctl, CtlInv, Local
  <2> HIDE DEF m
  <2>2. Become(a, m) => CtlInv'
    BY <2>1, CtlEntry
  <2> QED
    BY <1>2, <2>2 DEF m, Goto
<1>3. ASSUME NEW s \in Nexts \ {"none"}, Return(a, s) PROVE CtlInv'
  <2> DEFINE m == [act[a] EXCEPT !.pc = "persist", !.next = s]
  <2>1. Ctl(m)
    BY <1>3 DEF Ctl, CtlInv, Local
  <2> HIDE DEF m
  <2>2. Become(a, m) => CtlInv'
    BY <2>1, CtlEntry
  <2> QED
    BY <1>3, <2>2 DEF m, Return
<1>4. "tail" \in Pcs \ {"persist", "settle", "insert"}
      /\ "active" \in Nexts \ {"none"}
  BY DEF Pcs, Nexts
<1>5. NoAnswer(a) /\ act[a].flow # "none" => CtlInv'
  BY <1>1, <1>2, <1>3, <1>4 DEF NoAnswer
<1> QED
  BY <1>1, <1>2, <1>3, <1>5

LEMMA CtlWork ==
    ASSUME act \in [Actors -> Local], RowInv, CtlInv, NEW a \in Actors, Work(a)
    PROVE  CtlInv'
<1> DEFINE me == act[a]
<1>1. me \in Local /\ Ctl(me)
  BY DEF CtlInv
<1>2. \A s : EndOf(s) \in Nexts \ {"none"}
  BY DEF EndOf, Nexts, RunEnded
<1>3. Pcs = {"idle", "step", "look", "place", "submitted", "doubt", "note", "fetch",
             "adopt", "read", "insert", "roll", "book", "status", "settle",
             "request", "mark", "send", "tail", "after", "persist"}
  BY DEF Pcs
<1>4. Nexts = {"none", "active", "done", "failed", "canceled"}
  BY DEF Nexts, RunEnded
(* The forms of an entry that CtlMoves leaves out.                         *)
<1>5. ASSUME NEW s \in Nexts \ {"none"}
      PROVE  Become(a, [act[a] EXCEPT !.pc = "settle", !.next = s]) => CtlInv'
  <2> DEFINE m == [act[a] EXCEPT !.pc = "settle", !.next = s]
  <2>1. Ctl(m)
    BY <1>1, <1>5 DEF Ctl, Local
  <2> HIDE DEF m
  <2> QED
    BY <2>1, CtlEntry DEF m
<1>6. ASSUME NEW p \in Pcs \ {"persist", "settle", "insert"},
             NEW f \in {"submit", "tick", "cancel"}
      PROVE  Become(a, [act[a] EXCEPT !.pc = p, !.flow = f]) => CtlInv'
  <2> DEFINE m == [act[a] EXCEPT !.pc = p, !.flow = f]
  <2>1. Ctl(m)
    BY <1>1, <1>6 DEF Ctl, Local
  <2> HIDE DEF m
  <2> QED
    BY <2>1, CtlEntry DEF m
<1>8. ASSUME NEW p \in Pcs \ {"persist", "settle", "insert"}, NEW w,
             me.flow # "none"
      PROVE  Become(a, [act[a] EXCEPT !.pc = p, !.seen = w]) => CtlInv'
  <2> DEFINE m == [act[a] EXCEPT !.pc = p, !.seen = w]
  <2>1. Ctl(m)
    BY <1>1, <1>8 DEF Ctl, Local
  <2> HIDE DEF m
  <2> QED
    BY <2>1, CtlEntry DEF m
<1>9. ASSUME NEW p \in Pcs \ {"persist", "settle", "insert"}, NEW k,
             me.flow # "none"
      PROVE  Become(a, [act[a] EXCEPT !.pc = p, !.ack = k]) => CtlInv'
  <2> DEFINE m == [act[a] EXCEPT !.pc = p, !.ack = k]
  <2>1. Ctl(m)
    BY <1>1, <1>9 DEF Ctl, Local
  <2> HIDE DEF m
  <2> QED
    BY <2>1, CtlEntry DEF m
<1>10. ASSUME NEW w, NEW k, me.flow # "none", Answered(a, w, k)
       PROVE  CtlInv'
  <2> DEFINE p == IF k.filled > w.filled THEN "read" ELSE "status"
             m == [act[a] EXCEPT !.seen = w, !.ack = k, !.pc = p]
  <2>1. p \in {"read", "status"}
    OBVIOUS
  <2> HIDE DEF p
  <2>2. Ctl(m)
    BY <1>1, <1>10, <2>1 DEF Ctl, Local
  <2> HIDE DEF m
  <2>3. Become(a, m) => CtlInv'
    BY <2>2, CtlEntry
  <2> QED
    BY <1>10, <2>3 DEF m, p, Answered
<1> HIDE DEF me
<1> USE CtlMoves
<1>20. CASE StepCancels(a)
  BY <1>3, <1>6, <1>20 DEF StepCancels
<1>21. CASE StepFinalizes(a)
  BY <1>2, <1>5, <1>21 DEF StepFinalizes
<1>22. CASE StepPlaces(a)
  BY <1>3, <1>6, <1>22 DEF StepPlaces
<1>23. CASE StepPolls(a)
  BY <1>3, <1>6, <1>23 DEF StepPolls
<1>24. CASE StepFails(a) \/ StepBlocked(a) \/ PlaceRefused(a) \/ NoteDoubt(a)
  BY <1>4, <1>24 DEF StepFails, StepBlocked, PlaceRefused, NoteDoubt
<1>25. ~At(a, "idle") /\ ~At(a, "step") /\ ~At(a, "settle") /\ ~At(a, "persist")
          => me.flow # "none"
  BY <1>1 DEF Ctl, At, me
<1>26. CASE PlaceInDoubt(a) \/ MarkDoubt(a) \/ SendCancel(a) \/ Tail(a)
            \/ MarkRequested(a) \/ RollUp(a)
  BY <1>3, <1>25, <1>26 DEF PlaceInDoubt, MarkDoubt, SendCancel, Tail,
                            MarkRequested, RollUp, At, me
<1>27. CASE InsertFill(a)
  BY <1>3, <1>4, <1>25, <1>27 DEF InsertFill, At, me
<1>28. CASE PlaceAccepted(a)
  BY <1>3, <1>9, <1>25, <1>28 DEF PlaceAccepted, At
<1>29. CASE MarkSubmitted(a)
  BY <1>3, <1>4, <1>25, <1>29 DEF MarkSubmitted, At, me
<1>30. CASE Fetch(a)
  BY <1>3, <1>10, <1>25, <1>30 DEF Fetch, At, me
<1>31. CASE FetchFails(a) \/ AdoptAbsent(a) \/ AdoptFails(a)
  BY <1>25, <1>31 DEF FetchFails, AdoptAbsent, AdoptFails, At, me
<1>32. CASE AdoptFound(a)
  BY <1>3, <1>8, <1>10, <1>25, <1>32 DEF AdoptFound, At
<1>33. CASE ReadWatermark(a)
  <2>1. me.flow # "none" /\ me.ack.filled \in Nat /\ order.filled \in Nat
    BY <1>1, <1>25, <1>33 DEF ReadWatermark, At, me, RowInv, Row, Local
  <2>2. CASE Goto(a, "status")
    BY <1>3, <2>1, <2>2 DEF me
  <2>3. CASE /\ Become(a, [act[a] EXCEPT !.pc = "insert", !.base = order.filled])
             /\ ~(act[a].ack.filled <= order.filled)
    <3> DEFINE m == [act[a] EXCEPT !.pc = "insert", !.base = order.filled]
    <3>1. Ctl(m)
      BY <1>1, <2>1, <2>3 DEF Ctl, Local, me
    <3> HIDE DEF m
    <3> QED
      BY <2>3, <3>1, CtlEntry DEF m
  <2> QED
    BY <1>33, <2>2, <2>3 DEF ReadWatermark
<1>34. CASE ApplyBook(a)
  <2> DEFINE m == [act[a] EXCEPT !.pc = "status", !.base = 0]
  <2>1. Ctl(m)
    BY <1>1, <1>25, <1>34 DEF ApplyBook, At, Ctl, Local, me
  <2> HIDE DEF m
  <2>2. Become(a, m) => CtlInv'
    BY <2>1, CtlEntry
  <2> QED
    BY <1>34, <2>2 DEF ApplyBook, m
<1>35. CASE WriteStatus(a)
  <2>1. me.flow # "none" /\ me.flow \in Flows
    BY <1>1, <1>25, <1>35 DEF WriteStatus, At, me, Local, Flows
  <2>2. CASE Goto(a, "tail") \/ NoAnswer(a)
    BY <1>3, <2>1, <2>2 DEF me
  <2>3. CASE Become(a, [act[a] EXCEPT
                 !.pc = "settle", !.next = EndOf(act[a].ack.state)])
    BY <1>2, <1>5, <2>3
  <2>4. CASE me.flow = "poll" /\ Goto(a, "settle")
    <3> DEFINE m == [act[a] EXCEPT !.pc = "settle"]
    <3>1. Ctl(m)
      BY <1>1, <2>4 DEF Ctl, Local, me
    <3> HIDE DEF m
    <3>2. Become(a, m) => CtlInv'
      BY <3>1, CtlEntry
    <3> QED
      BY <2>4, <3>2 DEF m, Goto
  <2> QED
    BY <1>35, <2>1, <2>2, <2>3, <2>4 DEF WriteStatus, Flows, me
<1>36. CASE Settle(a)
  BY <1>1, <1>36 DEF Settle, At, Ctl, Local, Nexts, me
<1>37. CASE Persist(a)
  BY <1>37 DEF Persist
<1>38. CASE Request(a) \/ PollLive(a)
  BY <1>3, <1>8, <1>25, <1>38 DEF Request, PollLive, At
<1>39. CASE AfterCancel(a)
  BY <1>2, <1>3, <1>4, <1>5, <1>39 DEF AfterCancel
<1> QED
  BY <1>20, <1>21, <1>22, <1>23, <1>24, <1>26, <1>27, <1>28, <1>29, <1>30,
     <1>31, <1>32, <1>33, <1>34, <1>35, <1>36, <1>37, <1>38, <1>39 DEF Work

(* A call begins with a handler, and only the poller with the poller's.    *)
LEMMA CtlBegin ==
    ASSUME act \in [Actors -> Local], CtlInv, NEW a \in Actors,
           Begin(a) \/ Crash(a)
    PROVE  CtlInv'
<1>1. Idle.flow = "none" /\ Idle.pc = "idle"
  BY DEF Idle
<1>2. ASSUME NEW l, l \in
                {[Idle EXCEPT !.pc = "step", !.op = "tick"],
                 [Idle EXCEPT !.pc = "request", !.op = "poll", !.flow = "cancel"],
                 [Idle EXCEPT !.pc = "request", !.op = "cancel", !.flow = "cancel"],
                 [Idle EXCEPT !.pc = "request", !.op = "stop", !.flow = "cancel"],
                 [Idle EXCEPT !.pc = "persist", !.op = "stop", !.next = "canceled"]}
      PROVE  Ctl(l)
  BY <1>2 DEF Ctl, Idle
<1>3. ASSUME NEW p \in {"adopt", "fetch"}, NEW w
      PROVE  Ctl([Idle EXCEPT !.pc = p, !.op = "poll", !.flow = "poll", !.seen = w])
  BY DEF Ctl, Idle
<1>4. CASE TickBegin(a)
  <2>1. Become(a, [Idle EXCEPT !.pc = "step", !.op = "tick"])
    BY <1>4 DEF TickBegin
  <2> QED
    BY <1>2, <2>1, CtlEntry
<1>5. CASE PollBegin(a)
  <2>1. \/ Become(a, [Idle EXCEPT
                 !.pc = "request", !.op = "poll", !.flow = "cancel"])
        \/ \E p \in {"adopt", "fetch"} :
              Become(a, [Idle EXCEPT
                 !.pc = p, !.op = "poll", !.flow = "poll", !.seen = Seen(order)])
    BY <1>5 DEF PollBegin
  <2> QED
    BY <1>2, <1>3, <2>1, CtlEntry
<1>6. CASE CancelBegin(a)
  <2>1. Become(a, [Idle EXCEPT
                !.pc = "request", !.op = "cancel", !.flow = "cancel"])
    BY <1>6 DEF CancelBegin
  <2> QED
    BY <1>2, <2>1, CtlEntry
<1>7. CASE StopBegin(a)
  <2>1. \/ Become(a, [Idle EXCEPT
                 !.pc = "persist", !.op = "stop", !.next = "canceled"])
        \/ Become(a, [Idle EXCEPT
                 !.pc = "request", !.op = "stop", !.flow = "cancel"])
    BY <1>7 DEF StopBegin
  <2> QED
    BY <1>2, <2>1, CtlEntry
<1>8. CASE Crash(a)
  BY <1>8, CtlMoves DEF Crash
<1> QED
  BY <1>4, <1>5, <1>6, <1>7, <1>8 DEF Begin

LEMMA CtlStep ==
    ASSUME act \in [Actors -> Local], RowInv, CtlInv, [Next]_vars
    PROVE  CtlInv'
<1>1. CASE \E a \in Actors : Begin(a) \/ Work(a) \/ Crash(a)
  BY <1>1, CtlWork, CtlBegin
<1>2. CASE UNCHANGED act
  BY <1>2 DEF CtlInv
<1> QED
  BY <1>1, <1>2 DEF Next, VenueFill, VenueEnd, Age, vars

-----------------------------------------------------------------------------
(* The variables no other invariant types.                                 *)

LEMMA FaultCounts ==
    ASSUME RestInv, NEW k, Fault(k)
    PROVE  faults' \in 0..MaxFaults
<1>1. MaxFaults \in Nat
  BY ExecutionAssumption DEF ExecutionAssumption
<1> QED
  BY <1>1 DEF Fault, RestInv

LEMMA RestWork ==
    ASSUME ActInv, RowInv, CtlInv, RestInv, NEW a \in Actors, Work(a)
    PROVE  RestInv'
<1>1. /\ act[a].ack.filled \in Nat /\ act[a].base \in Nat
      /\ act[a].seen.filled \in Nat /\ act[a].next \in Nexts
      /\ Ctl(act[a])
  BY DEF ActInv, Local, Nexts, CtlInv
<1>2. Settled("released") \in {"reserved", "consumed", "released"}
      /\ Settled("consumed") \in {"reserved", "consumed", "released"}
  BY DEF Settled, RestInv
<1>3. CASE StepFails(a) \/ PlaceInDoubt(a) \/ FetchFails(a) \/ AdoptFails(a)
  BY <1>3, FaultCounts DEF StepFails, PlaceInDoubt, FetchFails, AdoptFails, RestInv
<1>4. CASE StepBlocked(a)
  BY <1>2, <1>4, FaultCounts DEF StepBlocked, RestInv
<1>5. CASE InsertFill(a)
  <2>1. act[a].ack.filled - act[a].base \in Nat
    BY <1>1, <1>5 DEF InsertFill, At, Ctl
  <2>2. fills' \subseteq [cum : Nat, size : Nat]
    BY <1>1, <1>5, <2>1 DEF InsertFill, RestInv
  <2>3. rsv' \in {"reserved", "consumed", "released"}
    BY <1>2, <1>5 DEF InsertFill, RestInv
  <2> QED
    BY <1>5, <2>2, <2>3 DEF InsertFill, RestInv
<1>6. CASE ApplyBook(a)
  <2> DEFINE base == IF act[a].flow \in {"submit", "tick"}
                     THEN act[a].base ELSE act[a].seen.filled
             side == IF act[a].flow = "cancel" THEN "net" ELSE Bucket
  <2>1. act[a].ack.filled - base \in Int /\ side \in Buckets
    BY <1>1, ExecutionAssumption DEF ExecutionAssumption, Buckets
  <2>2. \/ book' = book
        \/ book' = book \union {[id   |-> act[a].ack.filled,
                                 size |-> act[a].ack.filled - base,
                                 bucket |-> side]}
    BY <1>6 DEF ApplyBook
  <2> HIDE DEF base, side
  <2>3. book' \subseteq [id : Nat, size : Int, bucket : Buckets]
    BY <1>1, <2>1, <2>2 DEF RestInv
  <2> QED
    BY <1>6, <2>3 DEF ApplyBook, RestInv
<1>7. CASE Settle(a) \/ Tail(a)
  BY <1>2, <1>7 DEF Settle, Tail, RestInv
<1>8. CASE Persist(a)
  BY <1>1, <1>8 DEF Persist, At, Ctl, Nexts, RestInv
<1>9. CASE AfterCancel(a)
  BY <1>9 DEF AfterCancel, RestInv
<1>10. CASE UNCHANGED <<fills, book, run, rsv, lock, aged, faults>>
  BY <1>10 DEF RestInv
<1>11. \/ StepFails(a) \/ PlaceInDoubt(a) \/ FetchFails(a) \/ AdoptFails(a)
       \/ StepBlocked(a) \/ InsertFill(a) \/ ApplyBook(a) \/ Settle(a)
       \/ Tail(a) \/ Persist(a) \/ AfterCancel(a)
       \/ UNCHANGED <<fills, book, run, rsv, lock, aged, faults>>
  BY ZenonT(30)
  DEF Work, StepCancels, StepFinalizes, StepPlaces, StepPolls, PollLive, PlaceAccepted,
      PlaceRefused, MarkDoubt, NoteDoubt, MarkSubmitted, Fetch, AdoptFound,
      AdoptAbsent, ReadWatermark, RollUp, WriteStatus, Request, MarkRequested,
      SendCancel
<1> QED
  BY <1>3, <1>4, <1>5, <1>6, <1>7, <1>8, <1>9, <1>10, <1>11

LEMMA RestStep ==
    ASSUME ActInv, RowInv, CtlInv, RestInv, [Next]_vars
    PROVE  RestInv'
<1>1. ASSUME NEW a \in Actors, Begin(a) PROVE RestInv'
  BY <1>1 DEF Begin, TickBegin, PollBegin, CancelBegin, StopBegin, RestInv
<1>2. ASSUME NEW a \in Actors, Crash(a) PROVE RestInv'
  BY <1>2, FaultCounts DEF Crash, RestInv
<1>3. CASE VenueFill \/ VenueEnd \/ Age \/ UNCHANGED vars
  BY <1>3 DEF VenueFill, VenueEnd, Age, vars, RestInv
<1> QED
  BY <1>1, <1>2, <1>3, RestWork DEF Next

-----------------------------------------------------------------------------
LEMMA NextTInv == TInv /\ [Next]_vars => TInv'
<1> SUFFICES ASSUME TInv, [Next]_vars PROVE TInv'
  OBVIOUS
<1>1. IInv'
  BY NextIInv DEF TInv
<1>2. CtlInv'
  BY CtlStep DEF TInv, IInv
<1>3. RestInv'
  BY RestStep DEF TInv, IInv, ActInv
<1> QED
  BY <1>1, <1>2, <1>3 DEF TInv

(* Every variable keeps its type: no step of the executor, the poller or a *)
(* cancel records a fill of negative size, and no run is persisted without *)
(* a state.                                                                *)
THEOREM TypeCorrect == Spec => []TypeOK
<1>1. TInv => TypeOK
  BY DEF TInv, IInv, VenueInv, RowInv, RestInv, TypeOK
<1> QED
  BY InitTInv, NextTInv, <1>1, PTL DEF Spec

-----------------------------------------------------------------------------
(* What the executor's file lock gives. Executor steps, stops and cancels  *)
(* work under it, the poller's own lookups do not. As long as no process   *)
(* dies in the middle, only the one who holds it can place the order, so   *)
(* it is placed at most once, and nothing live hides behind a row that was *)
(* closed unsent.                                                          *)

(* Who works under the lock: everybody but the poller on its own lookup.   *)
Serves(l) == l.pc # "idle" /\ l.flow # "poll"

Fetching == {"fetch", "adopt", "read", "insert", "roll", "book", "status"}
Cancelling == Fetching \union {"request", "mark", "send", "tail", "after"}

(* Where the poller and a cancel can be.                                   *)
LockCtl(l) ==
    /\ l.flow = "poll" => l.op = "poll" /\ l.pc \in Fetching \union {"settle"}
    /\ l.op \in {"poll", "cancel"} /\ l.flow # "poll" /\ l.pc # "idle"
          => l.flow = "cancel" /\ l.pc \in Cancelling

LockInv ==
    /\ \A a \in Actors : LockCtl(act[a])
    /\ \A a \in Actors : Serves(act[a]) => lock = a

(* An answer that closes the order is the venue's last word.               *)
LastWord == \A a \in Actors : act[a].ack.state \in VenueOver => venue.state = act[a].ack.state

(* Before the order is placed, and how the row may look meanwhile.         *)
Sent(a) == act[a].pc \in {"submitted", "doubt"}

Unplaced ==
    /\ order.state = "none" => venue.placed = 0
    /\ order.state = "created" => venue.placed = 0 \/ \E a \in Actors : Sent(a)
    /\ \A a \in Actors : act[a].pc = "place" => venue.placed = 0
    /\ \A a \in Actors : act[a].pc = "mark" /\ act[a].seen.unsent => venue.placed = 0

Closed ==
    /\ \A a \in Actors :
          act[a].pc = "place" => order.state \notin {"none", "canceled", "rejected"}
    /\ CanceledIsOver
    /\ RejectedIsNotLive

PInv == TInv /\ LockInv /\ LastWord /\ Unplaced /\ Closed /\ PlacedOnce

-----------------------------------------------------------------------------
(* What an actor's entry says after a step of it.                          *)
LEMMA Fields ==
    ASSUME act \in [Actors -> Local], NEW a \in Actors, NEW l, Become(a, l)
    PROVE  act'[a] = l /\ \A b \in Actors \ {a} : act'[b] = act[b]
  BY DEF Become

Turned(a, p, f, w, k, n, s) ==
    /\ act'[a].pc = p /\ act'[a].op = act[a].op /\ act'[a].flow = f
    /\ act'[a].seen = w /\ act'[a].ack = k /\ act'[a].base = n /\ act'[a].next = s
    /\ \A b \in Actors \ {a} : act'[b] = act[b]

LEMMA PcForm ==
    ASSUME act \in [Actors -> Local], NEW a \in Actors, NEW p,
           Goto(a, p)
    PROVE  Turned(a, p, act[a].flow, act[a].seen, act[a].ack, act[a].base, act[a].next)
<1>1. act[a] \in Local
  OBVIOUS
<1> DEFINE m == [act[a] EXCEPT !.pc = p]
<1>2. act'[a] = m /\ \A b \in Actors \ {a} : act'[b] = act[b]
  BY Fields DEF Goto
<1> QED
  BY <1>1, <1>2 DEF Turned, Local

LEMMA EndForm ==
    ASSUME act \in [Actors -> Local], NEW a \in Actors, NEW s,
           Return(a, s)
    PROVE  Turned(a, "persist", act[a].flow, act[a].seen, act[a].ack, act[a].base, s)
<1>1. act[a] \in Local
  OBVIOUS
<1> DEFINE m == [act[a] EXCEPT !.pc = "persist", !.next = s]
<1>2. act'[a] = m /\ \A b \in Actors \ {a} : act'[b] = act[b]
  BY Fields DEF Return
<1> QED
  BY <1>1, <1>2 DEF Turned, Local

LEMMA FlowForm ==
    ASSUME act \in [Actors -> Local], NEW a \in Actors, NEW p, NEW f,
           Become(a, [act[a] EXCEPT !.pc = p, !.flow = f])
    PROVE  Turned(a, p, f, act[a].seen, act[a].ack, act[a].base, act[a].next)
<1>1. act[a] \in Local
  OBVIOUS
<1> DEFINE m == [act[a] EXCEPT !.pc = p, !.flow = f]
<1>2. act'[a] = m /\ \A b \in Actors \ {a} : act'[b] = act[b]
  BY Fields
<1> QED
  BY <1>1, <1>2 DEF Turned, Local

LEMMA NextForm ==
    ASSUME act \in [Actors -> Local], NEW a \in Actors, NEW p, NEW s,
           Become(a, [act[a] EXCEPT !.pc = p, !.next = s])
    PROVE  Turned(a, p, act[a].flow, act[a].seen, act[a].ack, act[a].base, s)
<1>1. act[a] \in Local
  OBVIOUS
<1> DEFINE m == [act[a] EXCEPT !.pc = p, !.next = s]
<1>2. act'[a] = m /\ \A b \in Actors \ {a} : act'[b] = act[b]
  BY Fields
<1> QED
  BY <1>1, <1>2 DEF Turned, Local

LEMMA AckForm ==
    ASSUME act \in [Actors -> Local], NEW a \in Actors, NEW p, NEW k,
           Become(a, [act[a] EXCEPT !.pc = p, !.ack = k])
    PROVE  Turned(a, p, act[a].flow, act[a].seen, k, act[a].base, act[a].next)
<1>1. act[a] \in Local
  OBVIOUS
<1> DEFINE m == [act[a] EXCEPT !.pc = p, !.ack = k]
<1>2. act'[a] = m /\ \A b \in Actors \ {a} : act'[b] = act[b]
  BY Fields
<1> QED
  BY <1>1, <1>2 DEF Turned, Local

LEMMA SeenForm ==
    ASSUME act \in [Actors -> Local], NEW a \in Actors, NEW p, NEW w,
           Become(a, [act[a] EXCEPT !.pc = p, !.seen = w])
    PROVE  Turned(a, p, act[a].flow, w, act[a].ack, act[a].base, act[a].next)
<1>1. act[a] \in Local
  OBVIOUS
<1> DEFINE m == [act[a] EXCEPT !.pc = p, !.seen = w]
<1>2. act'[a] = m /\ \A b \in Actors \ {a} : act'[b] = act[b]
  BY Fields
<1> QED
  BY <1>1, <1>2 DEF Turned, Local

LEMMA BaseForm ==
    ASSUME act \in [Actors -> Local], NEW a \in Actors, NEW p, NEW n,
           Become(a, [act[a] EXCEPT !.pc = p, !.base = n])
    PROVE  Turned(a, p, act[a].flow, act[a].seen, act[a].ack, n, act[a].next)
<1>1. act[a] \in Local
  OBVIOUS
<1> DEFINE m == [act[a] EXCEPT !.pc = p, !.base = n]
<1>2. act'[a] = m /\ \A b \in Actors \ {a} : act'[b] = act[b]
  BY Fields
<1> QED
  BY <1>1, <1>2 DEF Turned, Local

LEMMA AnswerForm ==
    ASSUME act \in [Actors -> Local], NEW a \in Actors, NEW w, NEW k,
           Answered(a, w, k)
    PROVE  Turned(a, IF k.filled > w.filled THEN "read" ELSE "status",
                  act[a].flow, w, k, act[a].base, act[a].next)
<1>1. act[a] \in Local
  OBVIOUS
<1> DEFINE m == [act[a] EXCEPT !.seen = w, !.ack = k,
                            !.pc = IF k.filled > w.filled THEN "read" ELSE "status"]
<1>2. act'[a] = m /\ \A b \in Actors \ {a} : act'[b] = act[b]
  BY Fields DEF Answered
<1> QED
  BY <1>1, <1>2 DEF Turned, Local

(* The parts of an entry that the lock depends on.                         *)
Turns(a, p, f) ==
    /\ act'[a].pc = p /\ act'[a].flow = f /\ act'[a].op = act[a].op
    /\ \A b \in Actors \ {a} : act'[b] = act[b]

LEMMA TurnForms ==
    ASSUME act \in [Actors -> Local], NEW a \in Actors
    PROVE  /\ \A p : Goto(a, p) => Turns(a, p, act[a].flow)
           /\ \A s : Return(a, s) => Turns(a, "persist", act[a].flow)
           /\ \A p, f : Become(a, [act[a] EXCEPT !.pc = p, !.flow = f]) => Turns(a, p, f)
           /\ \A p, s : Become(a, [act[a] EXCEPT !.pc = p, !.next = s])
                           => Turns(a, p, act[a].flow)
           /\ \A p, k : Become(a, [act[a] EXCEPT !.pc = p, !.ack = k])
                           => Turns(a, p, act[a].flow)
           /\ \A p, w : Become(a, [act[a] EXCEPT !.pc = p, !.seen = w])
                           => Turns(a, p, act[a].flow)
           /\ \A p, n : Become(a, [act[a] EXCEPT !.pc = p, !.base = n])
                           => Turns(a, p, act[a].flow)
           /\ \A w, k : Answered(a, w, k)
                 => Turns(a, IF k.filled > w.filled THEN "read" ELSE "status", act[a].flow)
<1>1. \A p, f, w, k, n, s : Turned(a, p, f, w, k, n, s) => Turns(a, p, f)
  BY DEF Turned, Turns
<1>2. \A p : Goto(a, p) => Turns(a, p, act[a].flow)
  BY <1>1, PcForm
<1>3. \A s : Return(a, s) => Turns(a, "persist", act[a].flow)
  BY <1>1, EndForm
<1>4. \A p, f : Become(a, [act[a] EXCEPT !.pc = p, !.flow = f]) => Turns(a, p, f)
  BY <1>1, FlowForm
<1>6. \A p, s : Become(a, [act[a] EXCEPT !.pc = p, !.next = s])
                   => Turns(a, p, act[a].flow)
  BY <1>1, NextForm
<1>7. \A p, k : Become(a, [act[a] EXCEPT !.pc = p, !.ack = k])
                   => Turns(a, p, act[a].flow)
  BY <1>1, AckForm
<1>8. \A p, w : Become(a, [act[a] EXCEPT !.pc = p, !.seen = w])
                   => Turns(a, p, act[a].flow)
  BY <1>1, SeenForm
<1>9. \A p, n : Become(a, [act[a] EXCEPT !.pc = p, !.base = n])
                   => Turns(a, p, act[a].flow)
  BY <1>1, BaseForm
<1>10. \A w, k : Answered(a, w, k)
          => Turns(a, IF k.filled > w.filled THEN "read" ELSE "status", act[a].flow)
  BY <1>1, AnswerForm
<1> QED
  BY <1>2, <1>3, <1>4, <1>6, <1>7, <1>8, <1>9, <1>10

LEMMA LockMove ==
    ASSUME LockInv, NEW a \in Actors,
           \A b \in Actors \ {a} : act'[b] = act[b],
           LockCtl(act'[a]), Serves(act'[a]) => lock' = a,
           lock' = lock \/ lock \in {a, NoActor}
    PROVE  LockInv'
<1>1. NoActor \notin Actors
  BY ExecutionAssumption DEF ExecutionAssumption
<1>2. ASSUME NEW b \in Actors PROVE LockCtl(act'[b]) /\ (Serves(act'[b]) => lock' = b)
  BY <1>1 DEF LockInv
<1> QED
  BY <1>2 DEF LockInv, LockCtl, Serves

(* Where NoAnswer leaves an actor.                                         *)
LEMMA NoAnswerTurns ==
    ASSUME act \in [Actors -> Local], NEW a \in Actors, NoAnswer(a)
    PROVE  \/ act[a].flow = "cancel" /\ Turns(a, "tail", "cancel")
           \/ act[a].flow = "poll" /\ act'[a] = Idle /\ \A b \in Actors \ {a} : act'[b] = act[b]
           \/ act[a].flow \notin {"cancel", "poll"} /\ Turns(a, "persist", act[a].flow)
  BY TurnForms, Fields DEF NoAnswer

LEMMA LockWork ==
    ASSUME act \in [Actors -> Local], CtlInv, LockInv, NEW a \in Actors, Work(a)
    PROVE  LockInv'
<1> DEFINE me == act[a]
           Apart == \A b \in Actors \ {a} : act'[b] = act[b]
<1>1. /\ me \in Local /\ Ctl(me) /\ LockCtl(me)
      /\ Serves(me) => lock = a
      /\ act[a] = me
  BY DEF CtlInv, LockInv
<1> HIDE DEF me
<1>2. ASSUME NEW p, NEW f, Turns(a, p, f), lock' = lock, Serves(me),
             f = "poll" => me.op = "poll" /\ p \in Fetching \union {"settle"},
             me.op \in {"poll", "cancel"} /\ f # "poll" => f = "cancel" /\ p \in Cancelling
      PROVE  LockInv'
  <2>1. LockCtl(act'[a])
    BY <1>1, <1>2 DEF Turns, LockCtl
  <2> QED BY <1>1, <1>2, <2>1, LockMove DEF Turns
<1>3. ASSUME NEW p, Turns(a, p, me.flow), lock' = lock, me.pc # "idle",
             p \in Fetching \/ (me.flow = "poll" /\ p = "settle")
                            \/ (me.flow = "cancel" /\ p \in Cancelling)
                            \/ (me.flow # "poll" /\ me.op \notin {"poll", "cancel"})
      PROVE  LockInv'
  <2>1. LockCtl(act'[a])
    BY <1>1, <1>3 DEF Turns, LockCtl, Cancelling
  <2>2. Serves(act'[a]) => Serves(me)
    BY <1>3 DEF Turns, Serves
  <2> QED BY <1>1, <1>3, <2>1, <2>2, LockMove DEF Turns
<1>4. ASSUME act'[a] = Idle, Apart, lock' = lock \/ lock \in {a, NoActor} PROVE LockInv'
  BY <1>4, LockMove DEF Idle, LockCtl, Serves
<1>5. ASSUME NoAnswer(a), lock' = lock, me.pc \in Fetching PROVE LockInv'
  <2>1. me.flow = "cancel" \/ me.flow = "poll" \/ me.op \notin {"poll", "cancel"}
    BY <1>1, <1>5 DEF LockCtl, Fetching
  <2> QED
    BY <1>1, <1>3, <1>4, <1>5, <2>1, NoAnswerTurns DEF Fetching, Cancelling
<1> USE <1>1, TurnForms DEF At
<1>10. CASE StepCancels(a) \/ StepFinalizes(a) \/ StepPlaces(a) \/ StepPolls(a) \/ StepFails(a)
            \/ StepBlocked(a)
  <2>1. /\ me.pc = "step" /\ lock' = lock
        /\ \E p, f : Turns(a, p, f) /\ (f = me.flow \/ f \in {"cancel", "submit", "tick"})
    <3>1. CASE StepCancels(a)
      BY <3>1 DEF StepCancels
    <3>2. CASE StepFinalizes(a)
      BY <3>2 DEF StepFinalizes
    <3>3. CASE StepPlaces(a)
      BY <3>3 DEF StepPlaces
    <3>4. CASE StepPolls(a)
      BY <3>4 DEF StepPolls
    <3>5. CASE StepFails(a) \/ StepBlocked(a)
      BY <3>5 DEF StepFails, StepBlocked
    <3> QED BY <1>10, <3>1, <3>2, <3>3, <3>4, <3>5
  <2>2. me.flow # "poll" /\ me.op \notin {"poll", "cancel"}
    BY <2>1 DEF LockCtl, Fetching, Cancelling
  <2> QED BY <1>2, <2>1, <2>2 DEF Serves
<1>11. CASE PlaceAccepted(a) \/ PlaceRefused(a) \/ PlaceInDoubt(a) \/ MarkDoubt(a) \/ NoteDoubt(a)
            \/ MarkSubmitted(a)
  <2>1. /\ me.pc \in {"place", "doubt", "note", "submitted"} /\ lock' = lock
        /\ \E p : Turns(a, p, me.flow)
    <3>1. CASE PlaceAccepted(a)
      BY <3>1 DEF PlaceAccepted
    <3>2. CASE PlaceRefused(a) \/ PlaceInDoubt(a)
      BY <3>2 DEF PlaceRefused, PlaceInDoubt
    <3>3. CASE MarkDoubt(a) \/ NoteDoubt(a) \/ MarkSubmitted(a)
      BY <3>3 DEF MarkDoubt, NoteDoubt, MarkSubmitted
    <3> QED BY <1>11, <3>1, <3>2, <3>3
  <2>2. me.flow # "poll" /\ me.op \notin {"poll", "cancel"}
    BY <2>1 DEF LockCtl, Fetching, Cancelling
  <2> QED BY <1>3, <2>1, <2>2
<1>12. CASE Fetch(a)
  BY <1>3, <1>12 DEF Fetch, Fetching
<1>13. CASE FetchFails(a) \/ AdoptAbsent(a) \/ AdoptFails(a)
  BY <1>5, <1>13 DEF FetchFails, AdoptAbsent, AdoptFails, Fetching
<1>14. CASE AdoptFound(a)
  BY <1>3, <1>14 DEF AdoptFound, Fetching, Cancelling
<1>15. CASE ReadWatermark(a) \/ RollUp(a) \/ ApplyBook(a)
  BY <1>3, <1>15 DEF ReadWatermark, RollUp, ApplyBook, Fetching
<1>16. CASE InsertFill(a)
  <2>1. me.flow = "cancel" \/ me.flow = "poll" \/ me.op \notin {"poll", "cancel"}
    BY <1>16 DEF InsertFill, LockCtl, Fetching
  <2> QED BY <1>3, <1>16, <2>1 DEF InsertFill, Fetching, Cancelling
<1>17. CASE WriteStatus(a)
  <2>1. me.flow = "cancel" \/ me.flow = "poll" \/ me.op \notin {"poll", "cancel"}
    BY <1>17 DEF WriteStatus, LockCtl, Fetching
  <2>2. me.flow \in {"submit", "tick", "poll", "cancel"} /\ me.pc = "status" /\ lock' = lock
    BY <1>17 DEF WriteStatus, Ctl, Local
  <2>3. \/ NoAnswer(a)
        \/ me.flow = "cancel" /\ Turns(a, "tail", me.flow)
        \/ me.flow = "tick" /\ Turns(a, "settle", me.flow)
        \/ me.flow = "poll" /\ Turns(a, "settle", me.flow)
    BY <1>17, <2>2 DEF WriteStatus
  <2> QED BY <1>3, <1>5, <2>1, <2>2, <2>3 DEF Fetching, Cancelling
<1>18. CASE Settle(a)
  <2>1. CASE me.op = "poll"
    BY <1>4, <1>18, <2>1, Fields DEF Settle
  <2>2. CASE me.op # "poll"
    <3>1. me.flow # "poll" /\ me.op # "cancel"
      BY <1>18, <2>2 DEF Settle, LockCtl, Fetching, Cancelling
    <3> QED BY <1>3, <1>18, <2>2, <3>1 DEF Settle
  <2> QED BY <2>1, <2>2
<1>19. CASE Persist(a)
  <2>1. Serves(me)
    BY <1>19 DEF Persist, Serves, LockCtl, Fetching
  <2> QED BY <1>4, <1>19, <2>1, Fields DEF Persist
<1>20. CASE Request(a) \/ MarkRequested(a) \/ SendCancel(a) \/ Tail(a)
  <2>1. /\ me.pc \in {"request", "mark", "send", "tail"} /\ lock' = lock
        /\ \E p \in Cancelling : Turns(a, p, me.flow)
    BY <1>20 DEF Request, MarkRequested, SendCancel, Tail, Cancelling, Fetching
  <2>2. me.flow # "poll"
    BY <2>1 DEF LockCtl, Fetching
  <2>3. me.op \in {"poll", "cancel"} => me.flow = "cancel"
    BY <2>1, <2>2 DEF LockCtl
  <2> QED BY <1>3, <2>1, <2>2, <2>3
<1>22. CASE PollLive(a)
  <2>1. \E p \in {"adopt", "fetch"} : Turns(a, p, me.flow)
    BY <1>22 DEF PollLive
  <2> QED BY <1>3, <1>22, <2>1 DEF PollLive, Fetching
<1>21. CASE AfterCancel(a)
  <2>1. Serves(me) /\ me.pc = "after" /\ me.flow # "poll"
    BY <1>21 DEF AfterCancel, Serves, LockCtl, Fetching
  <2>2. CASE Become(a, Idle) /\ lock' = NoActor
    BY <1>4, <2>1, <2>2, Fields
  <2>3. CASE me.op \in {"tick", "stop"} /\ lock' = lock /\ \E p : Turns(a, p, me.flow)
    BY <1>3, <2>1, <2>3
  <2> QED BY <1>21, <2>2, <2>3 DEF AfterCancel
<1> QED
  BY ZenonT(30), <1>10, <1>11, <1>12, <1>13, <1>14, <1>15, <1>16, <1>17, <1>18, <1>19, <1>20,
     <1>21, <1>22 DEF Work

Begins(a) ==
    /\ \A b \in Actors \ {a} : act'[b] = act[b]
    /\ LockCtl(act'[a])
    /\ Serves(act'[a]) => lock' = a
    /\ lock' = lock \/ lock = NoActor

LEMMA LockStep ==
    ASSUME act \in [Actors -> Local], CtlInv, LockInv, [Next]_vars
    PROVE  LockInv'
<1>1. ASSUME NEW a \in Actors, Begin(a) PROVE LockInv'
  <2>1. Begins(a)
    <3>0. ASSUME NEW l, Become(a, l), LockCtl(l),
                 (l.flow = "poll" /\ lock' = lock) \/ (lock' = a /\ lock = NoActor)
          PROVE  Begins(a)
      BY <3>0, Fields DEF Begins, Serves
    <3>1. CASE TickBegin(a)
      <4>1. LockCtl([Idle EXCEPT !.pc = "step", !.op = "tick"])
        BY DEF Idle, LockCtl
      <4> QED BY <3>0, <3>1, <4>1 DEF TickBegin
    <3>2. CASE PollBegin(a)
      <4>1. LockCtl([Idle EXCEPT !.pc = "request", !.op = "poll", !.flow = "cancel"])
        BY DEF Idle, LockCtl, Cancelling
      <4>2. ASSUME NEW p \in {"adopt", "fetch"}
            PROVE  LET l == [Idle EXCEPT !.pc = p, !.op = "poll", !.flow = "poll",
                                         !.seen = Seen(order)]
                   IN  LockCtl(l) /\ l.flow = "poll"
        BY DEF Idle, LockCtl, Fetching
      <4>3. CASE CancelWanted
        BY <3>0, <3>2, <4>1, <4>3 DEF PollBegin
      <4>4. CASE ~CancelWanted
        <5>1. PICK p \in {"adopt", "fetch"} :
                 Become(a, [Idle EXCEPT !.pc = p, !.op = "poll", !.flow = "poll",
                                        !.seen = Seen(order)])
          BY <3>2, <4>4 DEF PollBegin
        <5>2. lock' = lock
          BY <3>2, <4>4 DEF PollBegin
        <5> DEFINE l == [Idle EXCEPT !.pc = p, !.op = "poll", !.flow = "poll",
                                     !.seen = Seen(order)]
        <5>3. Become(a, l) /\ LockCtl(l) /\ l.flow = "poll"
          BY <4>2, <5>1
        <5> HIDE DEF l
        <5> QED BY <3>0, <5>2, <5>3
      <4> QED BY <4>3, <4>4
    <3>3. CASE CancelBegin(a)
      <4>1. LockCtl([Idle EXCEPT !.pc = "request", !.op = "cancel", !.flow = "cancel"])
        BY DEF Idle, LockCtl, Cancelling
      <4> QED BY <3>0, <3>3, <4>1 DEF CancelBegin
    <3>4. CASE StopBegin(a)
      <4>1. /\ LockCtl([Idle EXCEPT !.pc = "persist", !.op = "stop", !.next = "canceled"])
            /\ LockCtl([Idle EXCEPT !.pc = "request", !.op = "stop", !.flow = "cancel"])
        BY DEF Idle, LockCtl
      <4> QED BY <3>0, <3>4, <4>1 DEF StopBegin
    <3> QED BY <1>1, <3>1, <3>2, <3>3, <3>4 DEF Begin
  <2> QED BY <2>1, LockMove DEF Begins
<1>2. ASSUME NEW a \in Actors, Crash(a) PROVE LockInv'
  <2>1. act'[a] = Idle /\ \A b \in Actors \ {a} : act'[b] = act[b]
    BY <1>2, Fields DEF Crash
  <2>2. lock' = lock \/ lock = a
    BY <1>2 DEF Crash
  <2> QED BY <2>1, <2>2, LockMove DEF Idle, LockCtl, Serves
<1>3. CASE UNCHANGED <<act, lock>>
  BY <1>3 DEF LockInv, LockCtl, Serves
<1> QED
  BY <1>1, <1>2, <1>3, LockWork DEF Next, VenueFill, VenueEnd, Age, vars

-----------------------------------------------------------------------------
(* What the venue has closed stays as it is.                               *)
LEMMA VenueSettles ==
    ASSUME VenueInv, [Next]_vars
    PROVE  venue.state \in VenueOver => venue'.state = venue.state
<1> SUFFICES ASSUME venue.state \in VenueOver PROVE venue'.state = venue.state
  OBVIOUS
<1>0. venue.state \notin {"open", "none"} /\ venue.placed # 0
      /\ venue \in [state : VenueStates, filled : 0..Size, placed : Nat]
  BY DEF VenueInv, VenueOver
<1>1. ASSUME NEW a \in Actors, Work(a) PROVE venue'.state = venue.state
  <2>1. CASE PlaceAccepted(a) \/ PlaceInDoubt(a)
    BY <1>0, <2>1 DEF PlaceAccepted, PlaceInDoubt, Accept
  <2>2. CASE SendCancel(a)
    BY <1>0, <2>2 DEF SendCancel
  <2>3. \/ PlaceAccepted(a) \/ PlaceInDoubt(a) \/ SendCancel(a)
        \/ UNCHANGED venue
    BY <1>1, ZenonT(30)
    DEF Work, StepCancels, StepFinalizes, StepPlaces, StepPolls, PollLive, StepFails,
        StepBlocked, PlaceRefused, MarkDoubt, NoteDoubt, MarkSubmitted, Fetch,
        FetchFails, AdoptFound, AdoptAbsent, AdoptFails, ReadWatermark,
        InsertFill, RollUp, ApplyBook, WriteStatus, Settle, Persist, Request,
        MarkRequested, Tail, AfterCancel
  <2> QED BY <2>1, <2>2, <2>3
<1>2. ASSUME NEW a \in Actors, Begin(a) \/ Crash(a) PROVE venue' = venue
  BY <1>2 DEF Begin, TickBegin, PollBegin, CancelBegin, StopBegin, Crash
<1>3. CASE VenueFill \/ VenueEnd \/ Age \/ UNCHANGED vars
  BY <1>0, <1>3 DEF VenueFill, VenueEnd, Age, vars
<1> QED BY <1>1, <1>2, <1>3 DEF Next

(* What a step of a may do to its own entry, to the row and to the venue. *)
Others(a) == \A b \in Actors \ {a} : act'[b] = act[b]

Answers(a) ==
    /\ Others(a)
    /\ act'[a].pc = "place" => StepPlaces(a)
    /\ act'[a].pc = "mark" => Request(a) /\ act'[a].seen = Seen(order)
    /\ act'[a].pc = "insert" => ReadWatermark(a) /\ act'[a].base = order.filled
    /\ act'[a].pc = "roll" => InsertFill(a)
    /\ act'[a].pc = "book" => RollUp(a)
    /\ \/ act'[a].ack \in {act[a].ack, Idle.ack}
       \/ act'[a].ack.state = "open"
       \/ act'[a].ack.state = venue.state /\ venue' = venue

LEMMA WorkAnswers ==
    ASSUME act \in [Actors -> Local], NEW a \in Actors, Work(a)
    PROVE  Answers(a)
<1> DEFINE me == act[a]
           Marked == {"place", "mark", "insert", "roll", "book"}
<1>1. ASSUME NEW p, p \notin Marked, NEW f, NEW w, NEW n, NEW s,
             Turned(a, p, f, w, me.ack, n, s)
      PROVE  Answers(a)
  BY <1>1 DEF Turned, Answers, Others
<1>2. ASSUME NEW p, p \notin Marked, NEW f, NEW w, NEW k, NEW n, NEW s,
             Turned(a, p, f, w, k, n, s),
             k.state = "open" \/ (k.state = venue.state /\ venue' = venue)
      PROVE  Answers(a)
  BY <1>2 DEF Turned, Answers, Others
<1>3. ASSUME Become(a, Idle) PROVE Answers(a)
  BY <1>3, Fields DEF Answers, Others, Idle
<1>20. ASSUME NEW p, p \notin Marked, Goto(a, p) PROVE Answers(a)
  <2>1. Turned(a, p, me.flow, me.seen, me.ack, me.base, me.next)
    BY <1>20, PcForm
  <2> QED BY <1>1, <1>20, <2>1
<1>21. ASSUME NEW s, Return(a, s) PROVE Answers(a)
  <2>1. Turned(a, "persist", me.flow, me.seen, me.ack, me.base, s)
    BY <1>21, EndForm
  <2> QED BY <1>1, <2>1
<1>4. ASSUME NoAnswer(a) PROVE Answers(a)
  <2>1. Become(a, Idle) \/ Goto(a, "tail") \/ Return(a, "active")
    BY <1>4 DEF NoAnswer
  <2>2. CASE Become(a, Idle)
    BY <1>3, <2>2
  <2>3. CASE Goto(a, "tail")
    BY <1>20, <2>3
  <2>4. CASE Return(a, "active")
    BY <1>21, <2>4
  <2> QED BY <2>1, <2>2, <2>3, <2>4
<1>22. ASSUME NEW s, Become(a, [act[a] EXCEPT !.pc = "settle", !.next = s]) PROVE Answers(a)
  <2>1. Turned(a, "settle", me.flow, me.seen, me.ack, me.base, s)
    BY <1>22, NextForm
  <2> QED BY <1>1, <2>1
<1>5. CASE StepCancels(a) \/ StepFinalizes(a)
  <2>1. CASE StepCancels(a)
    <3>1. Turned(a, "request", "cancel", me.seen, me.ack, me.base, me.next)
      BY <2>1, FlowForm DEF StepCancels
    <3> QED BY <1>1, <3>1
  <2>2. CASE StepFinalizes(a)
    BY <1>22, <2>2 DEF StepFinalizes
  <2> QED BY <1>5, <2>1, <2>2
<1>6. CASE StepPlaces(a)
  <2>1. Turned(a, "place", "submit", me.seen, me.ack, me.base, me.next)
    BY <1>6, FlowForm DEF StepPlaces
  <2> QED BY <1>6, <2>1 DEF Turned, Answers, Others
<1>7. CASE StepPolls(a) \/ StepFails(a) \/ StepBlocked(a)
  <2>1. CASE StepPolls(a)
    <3>1. Turned(a, "look", "tick", me.seen, me.ack, me.base, me.next)
      BY <2>1, FlowForm DEF StepPolls
    <3> QED BY <1>1, <3>1
  <2>2. CASE StepFails(a) \/ StepBlocked(a)
    BY <1>1, <2>2, EndForm DEF StepFails, StepBlocked
  <2> QED BY <1>7, <2>1, <2>2
<1>8. CASE PlaceAccepted(a)
  <2>1. PICK k : k.state = "open" /\ Become(a, [act[a] EXCEPT !.pc = "submitted", !.ack = k])
    BY <1>8 DEF PlaceAccepted
  <2> QED BY <1>2, <2>1, AckForm
<1>9. CASE PlaceRefused(a) \/ PlaceInDoubt(a) \/ MarkDoubt(a) \/ NoteDoubt(a) \/ MarkSubmitted(a)
  BY <1>1, <1>9, PcForm, EndForm DEF PlaceRefused, PlaceInDoubt, MarkDoubt, NoteDoubt, MarkSubmitted
<1>10. CASE Fetch(a)
  BY <1>1, <1>2, <1>10, PcForm, AnswerForm DEF Fetch
<1>11. CASE FetchFails(a) \/ AdoptAbsent(a) \/ AdoptFails(a)
  BY <1>4, <1>11 DEF FetchFails, AdoptAbsent, AdoptFails
<1>12. CASE AdoptFound(a)
  <2>1. CASE me.flow = "cancel"
    <3>1. Turned(a, "send", me.flow, Seen(order'), me.ack, me.base, me.next)
      BY <1>12, <2>1, SeenForm DEF AdoptFound
    <3> QED BY <1>1, <3>1
  <2>2. CASE me.flow # "cancel"
    <3>1. \E w, k : Answered(a, w, k) /\ k.state = venue.state
      BY <1>12, <2>2 DEF AdoptFound
    <3> QED BY <1>2, <1>12, <3>1, AnswerForm DEF AdoptFound
  <2> QED BY <2>1, <2>2
<1>13. CASE ReadWatermark(a) \/ ApplyBook(a)
  <2>1. CASE Goto(a, "status")
    BY <1>20, <2>1
  <2>2. CASE ReadWatermark(a)
    <3>1. CASE Become(a, [act[a] EXCEPT !.pc = "insert", !.base = order.filled])
      <4>1. Turned(a, "insert", me.flow, me.seen, me.ack, order.filled, me.next)
        BY <3>1, BaseForm
      <4> QED BY <2>2, <4>1 DEF Turned, Answers, Others
    <3> QED BY <2>1, <2>2, <3>1 DEF ReadWatermark
  <2>3. CASE ApplyBook(a)
    <3>1. Turned(a, "status", me.flow, me.seen, me.ack, 0, me.next)
      BY <2>3, BaseForm DEF ApplyBook
    <3> QED BY <1>1, <3>1
  <2> QED BY <1>13, <2>2, <2>3
<1>14. CASE InsertFill(a) \/ RollUp(a)
  <2>1. ASSUME NEW p \in {"roll", "book"}, Goto(a, p), p = "roll" => InsertFill(a),
               p = "book" => RollUp(a)
        PROVE  Answers(a)
    <3>1. Turned(a, p, me.flow, me.seen, me.ack, me.base, me.next)
      BY <2>1, PcForm
    <3> QED BY <2>1, <3>1 DEF Turned, Answers, Others
  <2>2. CASE RollUp(a)
    BY <2>1, <2>2 DEF RollUp
  <2>3. CASE InsertFill(a)
    <3>1. Goto(a, "status") \/ Goto(a, "tail") \/ Goto(a, "roll") \/ Return(a, "failed")
      BY <2>3 DEF InsertFill
    <3> QED BY <1>20, <1>21, <2>1, <2>3, <3>1
  <2> QED BY <1>14, <2>2, <2>3
<1>15. CASE WriteStatus(a)
  <2>1. \/ NoAnswer(a) \/ Goto(a, "tail") \/ Goto(a, "settle")
        \/ \E s : Become(a, [act[a] EXCEPT !.pc = "settle", !.next = s])
    BY <1>15 DEF WriteStatus
  <2> QED BY <1>4, <1>20, <1>22, <2>1
<1>16. CASE Settle(a) \/ Persist(a)
  BY <1>3, <1>16, <1>21 DEF Settle, Persist
<1>17. CASE Request(a)
  <2>1. Turned(a, IF IsTerminal THEN "after" ELSE "mark", me.flow, Seen(order), me.ack, me.base,
               me.next)
    BY <1>17, SeenForm DEF Request
  <2> QED BY <1>17, <2>1 DEF Turned, Answers, Others
<1>23. CASE PollLive(a)
  <2>1. PICK p \in {"adopt", "fetch"} :
           Become(a, [act[a] EXCEPT !.pc = p, !.seen = Seen(order)])
    BY <1>23 DEF PollLive
  <2>2. Turned(a, p, me.flow, Seen(order), me.ack, me.base, me.next)
    BY <2>1, SeenForm
  <2> QED BY <1>1, <2>2
<1>18. CASE MarkRequested(a) \/ SendCancel(a) \/ Tail(a)
  BY <1>1, <1>18, PcForm DEF MarkRequested, SendCancel, Tail
<1>19. CASE AfterCancel(a)
  <2>1. \/ Become(a, Idle) \/ Goto(a, "step")
        \/ \E s : Return(a, s)
        \/ \E s : Become(a, [act[a] EXCEPT !.pc = "settle", !.next = s])
    BY <1>19 DEF AfterCancel
  <2>2. CASE Become(a, Idle)
    BY <1>3, <2>2
  <2>3. CASE Goto(a, "step") \/ \E s : Return(a, s)
    BY <1>20, <1>21, <2>3
  <2> QED BY <1>22, <2>1, <2>2, <2>3
<1> QED
  BY ZenonT(30), <1>5, <1>6, <1>7, <1>8, <1>9, <1>10, <1>11, <1>12, <1>13, <1>14, <1>15, <1>16,
     <1>17, <1>18, <1>19, <1>23 DEF Work

Rows(a) ==
    /\ Sent(a) => order'.state = "submitted"
    /\ order'.state \in {"none", "created"} => order'.state = order.state
    /\ order'.state = "rejected" =>
          \/ order.state = "rejected"
          \/ PlaceRefused(a) \/ StepBlocked(a)
          \/ act[a].ack.state = "rejected" /\ venue' = venue
    /\ order'.state = "canceled" =>
          \/ order.state = "canceled"
          \/ MarkRequested(a) /\ act[a].seen.unsent
          \/ act[a].ack.state = "canceled" /\ venue' = venue

(* The steps that leave the row alone.                                     *)
Silent(a) ==
    \/ StepCancels(a) \/ StepFinalizes(a) \/ StepPlaces(a) \/ StepPolls(a) \/ PollLive(a)
    \/ StepFails(a) \/ PlaceAccepted(a) \/ PlaceInDoubt(a) \/ FetchFails(a) \/ ReadWatermark(a)
    \/ InsertFill(a) \/ ApplyBook(a) \/ Settle(a) \/ Persist(a) \/ Request(a)
    \/ SendCancel(a) \/ Tail(a) \/ AfterCancel(a)

LEMMA WorkRows ==
    ASSUME RowInv, NEW a \in Actors, Work(a)
    PROVE  Rows(a)
<1> USE DEF Rows, Sent, At
<1>1. order \in Row
  BY DEF RowInv
<1>2. CASE StepBlocked(a) \/ PlaceRefused(a)
  BY <1>1, <1>2 DEF StepBlocked, PlaceRefused, Row
<1>3. CASE MarkDoubt(a) \/ MarkSubmitted(a)
  BY <1>1, <1>3 DEF MarkDoubt, MarkSubmitted, Row
<1>4. CASE NoteDoubt(a) \/ Fetch(a)
  BY <1>1, <1>4 DEF NoteDoubt, Fetch, Row
<1>5. CASE AdoptFound(a)
  BY <1>1, <1>5 DEF AdoptFound, Row
<1>6. CASE AdoptAbsent(a) \/ AdoptFails(a)
  <2>1. Struck.state \in {order.state, "lost"} /\ Absent.state \in {order.state, "lost"}
        /\ [order EXCEPT !.absent = 0].state = order.state
    BY <1>1 DEF Struck, Absent, Row
  <2>2. order'.state \in {order.state, "lost"} /\ act[a].pc = "adopt"
    BY <1>6, <2>1 DEF AdoptAbsent, AdoptFails
  <2> QED BY <2>2
<1>7. CASE RollUp(a)
  BY <1>1, <1>7 DEF RollUp, Row
<1>8. CASE WriteStatus(a)
  <2> DEFINE new == StatusToWrite(act[a].flow, act[a].ack)
  <2>1. new \subseteq ({act[a].ack.state} \intersect VenueOver)
                        \union {"none", "filled", "partially_filled"}
    BY DEF StatusToWrite
  <2>2. order'.state \in {order.state} \union (new \ {"none"})
    <3>1. CASE order' = order
      BY <3>1
    <3>2. CASE \E t \in new \ {"none"} : order' = [order EXCEPT !.state = t]
      BY <1>1, <3>2 DEF Row
    <3> QED BY <1>8, <3>1, <3>2 DEF WriteStatus
  <2>3. venue' = venue /\ act[a].pc = "status"
    BY <1>8 DEF WriteStatus
  <2> HIDE DEF new
  <2> QED BY <2>1, <2>2, <2>3 DEF VenueOver
<1>9. CASE MarkRequested(a)
  BY <1>1, <1>9 DEF MarkRequested, Row
<1>10. CASE order' = order /\ ~Sent(a)
  BY <1>10
<1>11. \/ StepBlocked(a) \/ PlaceRefused(a) \/ MarkDoubt(a)
       \/ MarkSubmitted(a) \/ NoteDoubt(a) \/ Fetch(a) \/ AdoptFound(a)
       \/ AdoptAbsent(a) \/ AdoptFails(a) \/ RollUp(a) \/ WriteStatus(a)
       \/ MarkRequested(a) \/ (order' = order /\ ~Sent(a))
  <2>1. \/ StepBlocked(a) \/ PlaceRefused(a) \/ MarkDoubt(a)
        \/ MarkSubmitted(a) \/ NoteDoubt(a) \/ Fetch(a) \/ AdoptFound(a)
        \/ AdoptAbsent(a) \/ AdoptFails(a) \/ RollUp(a) \/ WriteStatus(a)
        \/ MarkRequested(a) \/ Silent(a)
    BY ZenonT(30) DEF Work, Silent
  <2>2. Silent(a) => order' = order /\ ~Sent(a)
    BY DEF Silent, StepCancels, StepFinalizes, StepPlaces, StepPolls, PollLive, StepFails,
      PlaceAccepted, PlaceInDoubt, FetchFails, ReadWatermark, InsertFill,
      ApplyBook, Settle, Persist, Request, SendCancel, Tail, AfterCancel
  <2> QED BY <2>1, <2>2
<1> QED
  BY <1>2, <1>3, <1>4, <1>5, <1>6, <1>7, <1>8, <1>9, <1>10, <1>11

(* Only a placement counts, and only it opens an order.                    *)
Places(a) ==
    /\ At(a, "place") /\ ~(Dedupe /\ venue.placed > 0)
    /\ venue'.placed = venue.placed + 1
    /\ Sent(a)' /\ order' = order
    /\ venue.placed # 0 => venue'.state = venue.state

LEMMA WorkPlaces ==
    ASSUME act \in [Actors -> Local], VenueInv, NEW a \in Actors, Work(a)
    PROVE  \/ Places(a)
           \/ venue'.placed = venue.placed /\ (venue'.state = "open" => venue.state = "open")
<1>1. venue \in [state : VenueStates, filled : 0..Size, placed : Nat]
  BY DEF VenueInv
<1>2. CASE PlaceAccepted(a)
  <2>1. Sent(a)'
    <3>1. PICK k : Become(a, [act[a] EXCEPT !.pc = "submitted", !.ack = k])
      BY <1>2 DEF PlaceAccepted
    <3> QED BY <3>1, AckForm DEF Turned, Sent
  <2>2. \E n : Accept(n)
    BY <1>2 DEF PlaceAccepted
  <2>3. venue'.placed = venue.placed + 1 /\ (venue.placed # 0 => venue'.state = venue.state)
    BY <1>1, <2>2 DEF Accept
  <2> QED BY <1>2, <2>1, <2>3 DEF PlaceAccepted, Places
<1>3. CASE PlaceInDoubt(a)
  <2>1. Sent(a)'
    BY <1>3, PcForm DEF PlaceInDoubt, Turned, Sent
  <2>2. Accept(0) => venue'.placed = venue.placed + 1
                     /\ (venue.placed # 0 => venue'.state = venue.state)
    BY <1>1 DEF Accept
  <2> QED BY <1>3, <2>1, <2>2 DEF PlaceInDoubt, Places
<1>4. CASE SendCancel(a)
  BY <1>1, <1>4 DEF SendCancel
<1>5. \/ PlaceAccepted(a) \/ PlaceInDoubt(a) \/ SendCancel(a)
      \/ UNCHANGED venue
  BY ZenonT(30)
  DEF Work, StepCancels, StepFinalizes, StepPlaces, StepPolls, PollLive, StepFails,
      StepBlocked, PlaceRefused, MarkDoubt, NoteDoubt, MarkSubmitted, Fetch,
      FetchFails, AdoptFound, AdoptAbsent, AdoptFails, ReadWatermark,
      InsertFill, RollUp, ApplyBook, WriteStatus, Settle, Persist, Request,
      MarkRequested, Tail, AfterCancel
<1> QED BY <1>2, <1>3, <1>4, <1>5

(* A call begins without an answer, and the first of them registers the    *)
(* order.                                                                  *)
LEMMA BeginAnswers ==
    ASSUME act \in [Actors -> Local], RowInv, NEW a \in Actors, Begin(a)
    PROVE  /\ At(a, "idle") /\ Others(a) /\ venue' = venue
           /\ act'[a].ack = Idle.ack
           /\ act'[a].pc \in {"step", "request", "adopt", "fetch", "persist"}
           /\ order' = order \/ (order.state = "none" /\ order'.state = "created")
<1>1. ASSUME NEW l, Become(a, l), l.ack = Idle.ack,
             l.pc \in {"step", "request", "adopt", "fetch", "persist"}
      PROVE  /\ Others(a) /\ act'[a].ack = Idle.ack
             /\ act'[a].pc \in {"step", "request", "adopt", "fetch", "persist"}
  BY <1>1, Fields DEF Others
<1>2. CASE TickBegin(a)
  <2>1. order' = order \/ (order.state = "none" /\ order'.state = "created")
    BY <1>2 DEF TickBegin, RowInv, Row
  <2> DEFINE l == [Idle EXCEPT !.pc = "step", !.op = "tick"]
  <2>2. Become(a, l) /\ l.ack = Idle.ack /\ l.pc = "step"
    BY <1>2 DEF TickBegin, Idle
  <2> HIDE DEF l
  <2> QED BY <1>1, <1>2, <2>1, <2>2 DEF TickBegin
<1>3. CASE PollBegin(a)
  <2>1. CASE CancelWanted
    <3> DEFINE l == [Idle EXCEPT !.pc = "request", !.op = "poll", !.flow = "cancel"]
    <3>1. Become(a, l) /\ l.ack = Idle.ack /\ l.pc = "request"
      BY <1>3, <2>1 DEF PollBegin, Idle
    <3> HIDE DEF l
    <3> QED BY <1>1, <1>3, <3>1 DEF PollBegin
  <2>2. CASE ~CancelWanted
    <3>1. PICK p \in {"adopt", "fetch"} :
             Become(a, [Idle EXCEPT !.pc = p, !.op = "poll", !.flow = "poll",
                                    !.seen = Seen(order)])
      BY <1>3, <2>2 DEF PollBegin
    <3> DEFINE l == [Idle EXCEPT !.pc = p, !.op = "poll", !.flow = "poll", !.seen = Seen(order)]
    <3>2. Become(a, l) /\ l.ack = Idle.ack /\ l.pc = p
      BY <3>1 DEF Idle
    <3> HIDE DEF l
    <3> QED BY <1>1, <1>3, <3>2 DEF PollBegin
  <2> QED BY <2>1, <2>2
<1>4. CASE CancelBegin(a)
  <2> DEFINE l == [Idle EXCEPT !.pc = "request", !.op = "cancel", !.flow = "cancel"]
  <2>1. Become(a, l) /\ l.ack = Idle.ack /\ l.pc = "request"
    BY <1>4 DEF CancelBegin, Idle
  <2> HIDE DEF l
  <2> QED BY <1>1, <1>4, <2>1 DEF CancelBegin
<1>5. CASE StopBegin(a)
  <2>1. \E l : Become(a, l) /\ l.ack = Idle.ack /\ l.pc \in {"request", "persist"}
    <3> DEFINE ended == [Idle EXCEPT !.pc = "persist", !.op = "stop", !.next = "canceled"]
               asked == [Idle EXCEPT !.pc = "request", !.op = "stop", !.flow = "cancel"]
    <3>1. /\ ended.ack = Idle.ack /\ ended.pc = "persist"
          /\ asked.ack = Idle.ack /\ asked.pc = "request"
      BY DEF Idle
    <3>2. Become(a, ended) \/ Become(a, asked)
      BY <1>5 DEF StopBegin
    <3> HIDE DEF ended, asked
    <3> QED BY <3>1, <3>2
  <2> QED BY <1>1, <1>5, <2>1 DEF StopBegin
<1> QED BY <1>2, <1>3, <1>4, <1>5 DEF Begin

LEMMA LastWordStep ==
    ASSUME act \in [Actors -> Local], VenueInv, RowInv, LastWord, [Next]_vars
    PROVE  LastWord'
<1>1. venue.state \in VenueOver => venue'.state = venue.state
  BY VenueSettles
<1>2. Idle.ack.state \notin VenueOver /\ "open" \notin VenueOver
  BY DEF Idle, VenueOver
<1>3. ASSUME NEW a \in Actors, Others(a),
             \/ act'[a].ack \in {act[a].ack, Idle.ack}
             \/ act'[a].ack.state = "open"
             \/ act'[a].ack.state = venue.state /\ venue' = venue
      PROVE  LastWord'
  BY <1>1, <1>2, <1>3 DEF LastWord, Others
<1>4. ASSUME NEW a \in Actors, Work(a) PROVE LastWord'
  BY <1>3, <1>4, WorkAnswers DEF Answers
<1>5. ASSUME NEW a \in Actors, Begin(a) PROVE LastWord'
  BY <1>3, <1>5, BeginAnswers
<1>6. ASSUME NEW a \in Actors, Crash(a) PROVE LastWord'
  BY <1>3, <1>6, Fields DEF Crash, Others
<1>7. CASE UNCHANGED act
  BY <1>1, <1>7 DEF LastWord
<1> QED
  BY <1>4, <1>5, <1>6, <1>7 DEF Next, VenueFill, VenueEnd, Age, vars

(* Those who place the order, or decide that it was never sent, hold the   *)
(* lock.                                                                   *)
LEMMA LockHolders ==
    ASSUME LockInv, NEW a \in Actors,
           act[a].pc \in {"step", "place", "submitted", "doubt", "request", "mark"}
    PROVE  lock = a
  BY DEF LockInv, LockCtl, Serves, Fetching

(* A row that a lock holder finds as it was created was not sent.          *)
LEMMA CreatedIsUnplaced ==
    ASSUME LockInv, Unplaced, NEW a \in Actors, act[a].pc \in {"step", "request"},
           order.state = "created"
    PROVE  venue.placed = 0
<1>1. \A b \in Actors : Sent(b) => lock = b
  BY LockHolders DEF Sent
<1>2. lock = a
  BY LockHolders
<1> QED BY <1>1, <1>2 DEF Unplaced, Sent

LEMMA PlacesKept ==
    ASSUME LockInv, Unplaced, Closed, NEW a \in Actors, Places(a), Answers(a)
    PROVE  Unplaced' /\ Closed'
<1>1. lock = a /\ venue.placed = 0 /\ order' = order /\ Sent(a)'
  BY LockHolders DEF Places, At, Unplaced
<1>2. \A b \in Actors : b # a => act'[b] = act[b]
                                 /\ act[b].pc \notin {"place", "mark"}
  BY <1>1, LockHolders DEF Answers, Others
<1>3. order.state \notin {"none", "canceled", "rejected"}
  BY DEF Places, At, Closed
<1>4. Unplaced'
  BY <1>1, <1>2, <1>3 DEF Unplaced, Sent
<1>5. Closed'
  BY <1>1, <1>2, <1>3 DEF Closed, Sent, CanceledIsOver, RejectedIsNotLive
<1> QED BY <1>4, <1>5

LEMMA WorkClosed ==
    ASSUME TInv, LockInv, LastWord, Unplaced, Closed, NEW a \in Actors, Work(a)
    PROVE  Unplaced' /\ Closed'
<1>1. Answers(a) /\ Rows(a)
  BY WorkAnswers, WorkRows DEF TInv, IInv
<1>2. CASE Places(a)
  BY <1>1, <1>2, PlacesKept
<1>3. CASE venue'.placed = venue.placed /\ (venue'.state = "open" => venue.state = "open")
  <2>1. venue.placed = 0 => venue.state = "none"
    BY DEF TInv, IInv, VenueInv
  <2>2. /\ StepPlaces(a) => order.state = "created" /\ order' = order /\ venue.placed = 0
        /\ Request(a) /\ order.state = "created" => venue.placed = 0
    BY CreatedIsUnplaced DEF StepPlaces, Request, At
  <2>3. Unplaced'
    <3>1. order'.state = "created" => venue'.placed = 0 \/ \E b \in Actors : Sent(b)'
      BY <1>1, <1>3 DEF Answers, Others, Rows, Unplaced, Sent
    <3>2. \A b \in Actors : act'[b].pc = "place" => venue'.placed = 0
      BY <1>1, <1>3, <2>2 DEF Answers, Others, Unplaced
    <3>3. ASSUME NEW b \in Actors, act'[b].pc = "mark", act'[b].seen.unsent
          PROVE  venue'.placed = 0
      <4>1. CASE b = a
        <5>1. Request(a) /\ Seen(order).unsent
          BY <1>1, <3>3, <4>1 DEF Answers
        <5> QED BY <1>3, <2>2, <5>1 DEF Seen
      <4>2. CASE b # a
        BY <1>1, <1>3, <3>3, <4>2 DEF Answers, Others, Unplaced
      <4> QED BY <4>1, <4>2
    <3>4. order'.state = "none" => venue'.placed = 0
      BY <1>1, <1>3 DEF Rows, Unplaced
    <3> QED BY <3>1, <3>2, <3>3, <3>4 DEF Unplaced, Sent
  <2>4. /\ order'.state = "rejected" => order.state = "rejected" \/ venue.placed = 0
                                         \/ venue.state = "rejected"
        /\ order'.state = "canceled" => order.state = "canceled" \/ venue.placed = 0
                                         \/ venue.state = "canceled"
    <3>1. PlaceRefused(a) \/ StepBlocked(a) => venue.placed = 0
      BY CreatedIsUnplaced DEF PlaceRefused, StepBlocked, At, Unplaced
    <3>2. MarkRequested(a) /\ act[a].seen.unsent => venue.placed = 0
      BY DEF MarkRequested, At, Unplaced
    <3> QED BY <1>1, <3>1, <3>2 DEF Rows, LastWord, VenueOver
  <2>5. ASSUME NEW b \in Actors, act'[b].pc = "place"
        PROVE  order'.state \notin {"none", "canceled", "rejected"}
    <3>1. CASE b = a
      BY <1>1, <2>2, <2>5, <3>1 DEF Answers
    <3>2. CASE b # a
      <4>1. act[b].pc = "place" /\ lock = b /\ venue.state = "none"
            /\ order.state \notin {"none", "canceled", "rejected"}
        BY <1>1, <2>1, <2>5, <3>2, LockHolders DEF Answers, Others, Unplaced, Closed
      <4>2. act[a].pc \notin {"step", "place", "mark"}
        BY <3>2, <4>1, LockHolders
      <4> QED
        BY <1>1, <4>1, <4>2
        DEF Rows, PlaceRefused, StepBlocked, MarkRequested, At, LastWord, VenueOver
    <3> QED BY <3>1, <3>2
  <2>6. CanceledIsOver' /\ RejectedIsNotLive'
    BY <1>3, <2>1, <2>4 DEF Closed, CanceledIsOver, RejectedIsNotLive
  <2> QED BY <2>3, <2>5, <2>6 DEF Closed
<1> QED BY <1>2, <1>3, WorkPlaces DEF TInv, IInv

LEMMA ClosedStep ==
    ASSUME TInv, LockInv, LastWord, Unplaced, Closed, "crash" \notin Faults, [Next]_vars
    PROVE  Unplaced' /\ Closed'
<1>1. ASSUME NEW a \in Actors, Begin(a) PROVE Unplaced' /\ Closed'
  <2>1. /\ At(a, "idle") /\ Others(a) /\ venue' = venue
        /\ act'[a].pc \in {"step", "request", "adopt", "fetch", "persist"}
        /\ order' = order \/ (order.state = "none" /\ order'.state = "created")
    BY <1>1, BeginAnswers DEF TInv, IInv
  <2>2. /\ \A b \in Actors : Sent(b)' <=> Sent(b)
        /\ \A b \in Actors : act'[b].pc \in {"place", "mark"} => act'[b] = act[b]
    BY <2>1 DEF Others, Sent, At
  <2>3. Unplaced'
    BY <2>1, <2>2 DEF Unplaced
  <2>4. Closed'
    BY <2>1, <2>2 DEF Closed, CanceledIsOver, RejectedIsNotLive
  <2> QED BY <2>3, <2>4
<1>2. ASSUME NEW a \in Actors PROVE ~Crash(a)
  BY DEF Crash, Fault
<1>3. ASSUME UNCHANGED <<order, act>>, venue'.placed = venue.placed,
             venue'.state = "open" => venue.state = "open"
      PROVE  Unplaced' /\ Closed'
  BY <1>3 DEF Unplaced, Closed, CanceledIsOver, RejectedIsNotLive, Sent
<1>4. CASE VenueFill \/ VenueEnd
  <2>1. venue'.placed = venue.placed /\ venue.state = "open"
    BY <1>4 DEF VenueFill, VenueEnd, TInv, IInv, VenueInv
  <2> QED BY <1>3, <1>4, <2>1 DEF VenueFill, VenueEnd
<1>5. CASE Age \/ UNCHANGED vars
  BY <1>3, <1>5 DEF Age, vars
<1> QED BY <1>1, <1>2, <1>4, <1>5, WorkClosed DEF Next

LEMMA InitPInv == Init => PInv
<1> SUFFICES ASSUME Init PROVE PInv
  OBVIOUS
<1>1. TInv
  BY InitTInv
<1>2. \A a \in Actors : act[a] = Idle
  BY DEF Init
<1>3. LockInv
  BY <1>2 DEF LockInv, LockCtl, Serves, Idle
<1>4. LastWord
  BY <1>2 DEF LastWord, Idle, VenueOver
<1>5. Unplaced
  BY <1>2 DEF Unplaced, Init, NoRow, Idle
<1>6. Closed
  BY <1>2 DEF Closed, CanceledIsOver, RejectedIsNotLive, Init, NoRow, Idle
<1>7. PlacedOnce
  BY DEF Init, PlacedOnce
<1> QED
  BY <1>1, <1>3, <1>4, <1>5, <1>6, <1>7 DEF PInv

(* The order is placed a second time only after a crash, and only if the   *)
(* venue does not refuse the client id it has seen.                        *)
LEMMA PlacedOnceStep ==
    ASSUME TInv, PlacedOnce, Unplaced \/ Dedupe, [Next]_vars
    PROVE  PlacedOnce'
<1>1. venue.placed \in Nat
  BY DEF TInv, IInv, VenueInv
<1>2. ASSUME NEW a \in Actors, Work(a) PROVE PlacedOnce'
  <2>1. Places(a) \/ venue'.placed = venue.placed
    BY <1>2, WorkPlaces DEF TInv, IInv
  <2>2. Places(a) => venue.placed = 0 /\ venue'.placed = venue.placed + 1
    BY <1>1 DEF Places, Unplaced, At
  <2> QED BY <2>1, <2>2 DEF PlacedOnce
<1>3. ASSUME NEW a \in Actors, Begin(a) \/ Crash(a) PROVE venue' = venue
  BY <1>3 DEF Begin, TickBegin, PollBegin, CancelBegin, StopBegin, Crash
<1>4. CASE VenueFill \/ VenueEnd \/ Age \/ UNCHANGED vars
  BY <1>4 DEF VenueFill, VenueEnd, Age, vars, PlacedOnce, TInv, IInv, VenueInv
<1> QED BY <1>2, <1>3, <1>4 DEF Next, PlacedOnce

LEMMA NextPInv ==
    ASSUME "crash" \notin Faults, PInv, [Next]_vars
    PROVE  PInv'
<1> USE DEF PInv
<1>1. TInv'
  BY NextTInv
<1>2. LockInv'
  BY LockStep DEF TInv, IInv
<1>3. LastWord'
  BY LastWordStep DEF TInv, IInv
<1>4. Unplaced' /\ Closed'
  BY ClosedStep
<1>5. PlacedOnce'
  BY PlacedOnceStep
<1> QED
  BY <1>1, <1>2, <1>3, <1>4, <1>5

LEMMA Placing ==
    ASSUME "crash" \notin Faults
    PROVE  Spec => []PInv
<1>1. PInv /\ [Next]_vars => PInv'
  BY NextPInv
<1> QED
  BY <1>1, InitPInv, PTL DEF Spec

-----------------------------------------------------------------------------
(* The lock: whoever has begun a step, a cancel or a stop and is not       *)
(* finished holds it, so there is never more than one of them, whatever    *)
(* crashes.                                                                *)
THEOREM LockIsKept == Spec => []LockInv
<1>1. Init => TInv /\ LockInv
  BY InitPInv DEF PInv
<1>2. TInv /\ LockInv /\ [Next]_vars => TInv' /\ LockInv'
  BY NextTInv, LockStep DEF TInv, IInv
<1> QED
  BY <1>1, <1>2, PTL DEF Spec

(* _submit_live sends an order at most once, if no process dies between    *)
(* the placement and the note of it, or if the venue refuses a client      *)
(* order id it has seen. Neither pollers nor cancels can undo that.        *)
THEOREM PlacedAtMostOnce ==
    ASSUME "crash" \notin Faults \/ Dedupe
    PROVE  Spec => []PlacedOnce
<1>1. CASE "crash" \notin Faults
  <2>1. PInv => PlacedOnce
    BY DEF PInv
  <2> QED BY <1>1, <2>1, Placing, PTL
<1>2. CASE Dedupe
  <2>1. Init => TInv /\ PlacedOnce
    BY InitPInv DEF PInv
  <2>2. TInv /\ PlacedOnce /\ [Next]_vars => TInv' /\ PlacedOnce'
    BY <1>2, NextTInv, PlacedOnceStep
  <2> QED BY <2>1, <2>2, PTL DEF Spec
<1> QED BY <1>1, <1>2

(* A row that says canceled belongs to an order the venue never had or     *)
(* does not fill any more, if no process dies in the middle of a call.     *)
THEOREM CanceledAreOver ==
    ASSUME "crash" \notin Faults
    PROVE  Spec => []CanceledIsOver
<1>1. PInv => CanceledIsOver
  BY DEF PInv, Closed
<1> QED
  BY <1>1, Placing, PTL

(* The same of a row that says rejected.                                   *)
THEOREM RejectedAreNotLive ==
    ASSUME "crash" \notin Faults
    PROVE  Spec => []RejectedIsNotLive
<1>1. PInv => RejectedIsNotLive
  BY DEF PInv, Closed
<1> QED
  BY <1>1, Placing, PTL

-----------------------------------------------------------------------------
(* No fill is lost. The rollup overwrites what the row says is filled, and *)
(* pollers, executors and cancels record overlapping fills; yet what an    *)
(* actor is about to write into the row is always covered by fills that    *)
(* are recorded already, because each started from a row that was.         *)
Cover(n, F) == 1..n \subseteq UNION {Lots(f) : f \in F}

FillInv ==
    /\ \A f \in fills : f.cum <= venue.filled /\ f.size <= f.cum
    /\ Cover(order.filled, fills)
    /\ \A a \in Actors : act[a].pc = "insert" => Cover(act[a].base, fills)
    /\ \A a \in Actors : act[a].pc = "roll" => Cover(act[a].ack.filled, fills)

LEMMA FillsGrow ==
    ASSUME fills \subseteq fills', NEW n, Cover(n, fills)
    PROVE  Cover(n, fills')
  BY DEF Cover, Lots

(* A recorded fill continues what is covered up to the watermark.          *)
LEMMA Continues ==
    ASSUME NEW n \in Nat, NEW m \in Nat, n <= m, Cover(n, fills),
           fills' = fills \union {[cum |-> m, size |-> m - n]}
    PROVE  Cover(m, fills')
<1> DEFINE f == [cum |-> m, size |-> m - n]
<1> SUFFICES ASSUME NEW i \in 1..m PROVE \E g \in fills' : i \in Lots(g)
  BY DEF Cover, Lots
<1>1. CASE i <= n
  BY <1>1 DEF Cover
<1>2. CASE i > n
  <2>1. Lots(f) = (m - (m - n) + 1)..m
    BY DEF Lots
  <2>2. i \in Lots(f)
    BY <1>2, <2>1
  <2> HIDE DEF f
  <2> QED BY <2>2 DEF f
<1> QED BY <1>1, <1>2

(* Who records a fill, and who rolls it up.                                *)
Fills(a) ==
    \/ fills' = fills /\ order'.filled = order.filled
    \/ RollUp(a)
    \/ /\ act[a].pc = "insert"
       /\ fills' = fills \union {[cum |-> act[a].ack.filled,
                                  size |-> act[a].ack.filled - act[a].base]}
       /\ order' = order

LEMMA WorkFills ==
    ASSUME RowInv, NEW a \in Actors, Work(a)
    PROVE  Fills(a)
<1> USE DEF Fills
<1>1. order \in Row
  BY DEF RowInv
<1>2. CASE StepBlocked(a) \/ PlaceRefused(a) \/ MarkDoubt(a) \/ MarkSubmitted(a)
           \/ NoteDoubt(a) \/ MarkRequested(a)
  BY <1>1, <1>2 DEF StepBlocked, PlaceRefused, MarkDoubt, MarkSubmitted, NoteDoubt,
                    MarkRequested, Row
<1>3. CASE Fetch(a)
  BY <1>1, <1>3 DEF Fetch, Row
<1>4. CASE AdoptFound(a)
  BY <1>1, <1>4 DEF AdoptFound, Row
<1>5. CASE AdoptAbsent(a) \/ AdoptFails(a)
  <2>1. /\ Struck.filled = order.filled /\ Absent.filled = order.filled
        /\ [order EXCEPT !.absent = 0].filled = order.filled
    BY <1>1 DEF Struck, Absent, Row
  <2> QED BY <1>5, <2>1 DEF AdoptAbsent, AdoptFails
<1>6. CASE WriteStatus(a)
  <2>1. \A t : [order EXCEPT !.state = t].filled = order.filled
    BY <1>1 DEF Row
  <2>2. order' = order \/ \E t : order' = [order EXCEPT !.state = t]
    BY <1>6 DEF WriteStatus
  <2> QED BY <1>6, <2>1, <2>2 DEF WriteStatus
<1>7. CASE InsertFill(a)
  BY <1>7 DEF InsertFill, At
<1>8. CASE RollUp(a)
  BY <1>8
<1>9. CASE Silent(a) /\ ~InsertFill(a)
  BY <1>9 DEF Silent, StepCancels, StepFinalizes, StepPlaces, StepPolls, PollLive, StepFails,
      PlaceAccepted, PlaceInDoubt, FetchFails, ReadWatermark,
      ApplyBook, Settle, Persist, Request, SendCancel, Tail, AfterCancel
<1> QED
  BY ZenonT(30), <1>2, <1>3, <1>4, <1>5, <1>6, <1>7, <1>8, <1>9 DEF Work, Silent

LEMMA NextFillInv ==
    ASSUME TInv, FillInv, [Next]_vars
    PROVE  FillInv'
<1>0. /\ act \in [Actors -> Local] /\ RowInv /\ VenueInv
      /\ fills \subseteq [cum : Nat, size : Nat]
      /\ venue.filled <= venue'.filled
      /\ venue.filled \in Nat /\ venue'.filled \in Nat
  BY VenueStep DEF TInv, IInv, RestInv, VenueGoesOn, VenueInv
<1>1. ASSUME fills \subseteq fills',
             \A f \in fills' \ fills : f.cum <= venue.filled /\ f.size <= f.cum
                                       /\ f.cum \in Nat,
             Cover(order'.filled, fills'),
             \A a \in Actors : act'[a].pc = "insert" =>
                 \/ Cover(act'[a].base, fills')
                 \/ act[a].pc = "insert" /\ act'[a].base = act[a].base,
             \A a \in Actors : act'[a].pc = "roll" =>
                 \/ Cover(act'[a].ack.filled, fills')
                 \/ act[a].pc = "roll" /\ act'[a].ack = act[a].ack
      PROVE  FillInv'
  <2>1. \A f \in fills' : f.cum <= venue'.filled /\ f.size <= f.cum
    BY <1>0, <1>1 DEF FillInv
  <2>2. ASSUME NEW a \in Actors, act'[a].pc = "insert" PROVE Cover(act'[a].base, fills')
    BY <1>1, <2>2, FillsGrow DEF FillInv
  <2>3. ASSUME NEW a \in Actors, act'[a].pc = "roll" PROVE Cover(act'[a].ack.filled, fills')
    BY <1>1, <2>3, FillsGrow DEF FillInv
  <2> QED BY <1>1, <2>1, <2>2, <2>3 DEF FillInv
<1>2. ASSUME fills' = fills, order'.filled = order.filled PROVE Cover(order'.filled, fills')
  BY <1>2, FillsGrow DEF FillInv, Cover
<1>3. ASSUME NEW a \in Actors, Work(a) PROVE FillInv'
  <2>1. Answers(a) /\ Fills(a)
    BY <1>0, <1>3, WorkAnswers, WorkFills
  <2>2. /\ act[a].ack.filled \in Nat /\ act[a].ack.filled <= venue.filled
        /\ act[a].base \in Nat
        /\ act[a].pc = "insert" => act[a].base <= act[a].ack.filled
    BY DEF TInv, IInv, CtlInv, Ctl, AckInv, Local
  <2>3. \A b \in Actors \ {a} : act'[b] = act[b]
    BY <2>1 DEF Answers, Others
  <2>4. CASE RollUp(a)
    <3>1. fills' = fills /\ order'.filled = act[a].ack.filled /\ act[a].pc = "roll"
      BY <1>0, <2>4 DEF RollUp, At, RowInv, Row
    <3>2. Cover(order'.filled, fills')
      BY <3>1, FillsGrow DEF FillInv, Cover
    <3>3. act'[a].pc = "book"
      BY <1>0, <2>4, PcForm DEF RollUp, Turned
    <3> QED BY <1>1, <2>3, <3>1, <3>2, <3>3
  <2>5. CASE fills' = fills /\ order'.filled = order.filled
    <3>1. act'[a].pc = "insert" => Cover(act'[a].base, fills')
      BY <2>1, <2>5, FillsGrow DEF Answers, FillInv, Cover
    <3>2. act'[a].pc # "roll"
      <4>1. ASSUME act'[a].pc = "roll" PROVE FALSE
        <5>1. InsertFill(a) /\ ~(\E f \in fills : f.cum = act[a].ack.filled)
          BY <1>0, <2>1, <4>1, PcForm, EndForm DEF Answers, InsertFill, Turned
        <5>2. [cum |-> act[a].ack.filled, size |-> act[a].ack.filled - act[a].base] \in fills'
          BY <5>1 DEF InsertFill
        <5> QED BY <2>5, <5>1, <5>2
      <4> QED BY <4>1
    <3> QED BY <1>1, <1>2, <2>3, <2>5, <3>1, <3>2
  <2>6. CASE /\ act[a].pc = "insert" /\ order' = order
             /\ fills' = fills \union {[cum |-> act[a].ack.filled,
                                        size |-> act[a].ack.filled - act[a].base]}
    <3>1. Cover(act[a].ack.filled, fills')
      BY <2>2, <2>6, Continues DEF FillInv
    <3>2. Cover(order'.filled, fills')
      BY <2>6, FillsGrow DEF FillInv, Cover
    <3>3. act'[a].pc = "insert" => act'[a].base = order.filled
      BY <2>1 DEF Answers
    <3>4. act'[a].pc = "roll" => act'[a].ack = act[a].ack
      BY <1>0, <2>1, PcForm, EndForm DEF Answers, InsertFill, Turned
    <3>5. \A f \in fills' \ fills : f.cum <= venue.filled /\ f.size <= f.cum /\ f.cum \in Nat
      BY <2>2, <2>6
    <3>6. act'[a].pc = "insert" => Cover(act'[a].base, fills')
      BY <2>6, <3>2, <3>3 DEF Cover
    <3>7. act'[a].pc = "roll" => Cover(act'[a].ack.filled, fills')
      BY <3>1, <3>4 DEF Cover
    <3> QED BY <1>1, <2>3, <2>6, <3>2, <3>5, <3>6, <3>7
  <2> QED BY <2>1, <2>4, <2>5, <2>6 DEF Fills
<1>4. ASSUME NEW a \in Actors, Begin(a) \/ Crash(a) PROVE FillInv'
  <2>1. /\ \A b \in Actors \ {a} : act'[b] = act[b]
        /\ act'[a].pc \notin {"insert", "roll"}
    BY <1>0, <1>4, BeginAnswers, Fields DEF Others, Crash, Idle
  <2>2. fills' = fills /\ order'.filled = order.filled
    BY <1>0, <1>4 DEF Begin, TickBegin, PollBegin, CancelBegin, StopBegin, Crash, RowInv, Row
  <2> QED BY <1>1, <1>2, <2>1, <2>2
<1>5. CASE UNCHANGED <<act, order, fills>>
  BY <1>1, <1>2, <1>5
<1> QED
  BY <1>3, <1>4, <1>5 DEF Next, VenueFill, VenueEnd, Age, vars

(* Whoever races, crashes or reads a stale row, every lot the row has      *)
(* rolled up is in a recorded fill, and no fill claims what the venue has  *)
(* not filled: record_fill may count a lot twice, never drop one.          *)
THEOREM NoFillIsLost == Spec => []NoFillLost
<1>1. Init => TInv /\ FillInv
  BY InitTInv DEF Init, NoRow, Idle, FillInv, Cover
<1>2. TInv /\ FillInv /\ [Next]_vars => TInv' /\ FillInv'
  BY NextTInv, NextFillInv
<1>3. TInv /\ FillInv => NoFillLost
  <2> SUFFICES ASSUME TInv, FillInv, NEW f \in fills PROVE Lots(f) \subseteq 1..venue.filled
    BY DEF NoFillLost, FillInv, Cover
  <2>1. /\ f.cum \in Nat /\ f.size \in Nat /\ f.cum <= venue.filled /\ f.size <= f.cum
        /\ venue.filled \in Nat
    BY DEF TInv, IInv, RestInv, FillInv, VenueInv
  <2> QED BY <2>1 DEF Lots
<1> QED
  BY <1>1, <1>2, <1>3, PTL DEF Spec
=============================================================================
