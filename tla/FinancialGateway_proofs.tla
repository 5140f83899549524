---------------------- MODULE FinancialGateway_proofs -----------------------
(***************************************************************************)
(* Proofs about the funds gateway. Base holds for all constants: the       *)
(* primary key of financial_usage lets one call carry an action past its   *)
(* reservation, so that it is sent once and with the quote that was        *)
(* authorised. Told adds what the funds rest on: the identity of a         *)
(* transaction is on file before it is on the network, and stays there, so *)
(* that nothing releases it.                                               *)
(***************************************************************************)
EXTENDS FinancialGateway, TLAPS

Unsent == {"fence", "drop", "send", "broadcast"}
Carrying == Unsent \union {"sent"}

Carries(w, a) == worker[w].act = a /\ worker[w].pc \in Carrying
Reconciles(w, a) == worker[w].act = a /\ worker[w].pc = "reconciling"

Named ==
    \A w \in Worker :
        /\ worker[w].pc # "idle" => worker[w].act \in Action
        /\ worker[w].pc = "reconciling" => worker[w].seen \in Answers

OneCarrier ==
    \A w, v \in Worker, a \in Action : Carries(w, a) /\ Carries(v, a) => w = v

LeaseIsUsage ==
    /\ \A x \in Wallet : lease[x] # NoAction =>
          usage[lease[x]].state = "reserved" /\ WalletOf[lease[x]] = x
    /\ \A a \in Action : usage[a].state = "reserved" /\ WalletOf[a] # NoWallet
                            => lease[WalletOf[a]] = a

(* An action that never had a usage has not left the gateway.              *)
Untouched(a) ==
    usage[a].state = "none" =>
        /\ row[a].state \notin {"reserved", "submitting"} \union Uncertain
        /\ ~row[a].submission
        /\ sent[a] = 0 /\ fate[a] = "none"
        /\ \A w \in Worker : ~Carries(w, a) /\ ~Reconciles(w, a)

Fresh(w) ==
    LET a == worker[w].act
    IN worker[w].pc \in Unsent => sent[a] = 0 /\ fate[a] = "none"

(* A reserved action keeps the quote it was authorised for.                *)
QuoteKept(w) ==
    LET a == worker[w].act
        q == worker[w].quote
    IN worker[w].pc = "fence" /\ row[a].state = "reserved" =>
          /\ row[a].quote = q
          /\ row[a].grant # 0 => Value[a, q] <= Single
          /\ row[a].grant = 0 => row[a].approval = q

Base ==
    /\ TypeOK
    /\ Named
    /\ OneCarrier
    /\ LeaseIsUsage
    /\ \A a \in Action : Untouched(a) /\ sent[a] <= 1
    /\ \A w \in Worker : Fresh(w) /\ QuoteKept(w)

-----------------------------------------------------------------------------
(* What store.mark changes.                                                *)
MarkTarget == Answers \union {"awaiting_prerequisite"}

LEMMA MarkTypes ==
    ASSUME TypeOK, NEW a \in Action, NEW s \in MarkTarget, NEW ref \in BOOLEAN,
           NEW moved \in BOOLEAN, Mark(a, s, ref, moved)
    PROVE  /\ row' \in [Action -> Row]
           /\ usage' \in [Action -> Usage]
           /\ hold' \in [Action -> Held \union {"none", "released"}]
           /\ lease' \in [Wallet -> Action \union {NoAction}]
<1> DEFINE end == Marked(a, s, ref)
<1> USE DEF Held
<1>1. CASE Sticky(a, s)
  BY <1>1 DEF Mark, rows, TypeOK
<1>2. CASE ~Sticky(a, s)
  <2>1. end \in States
    BY DEF Marked, MarkTarget, Answers, States, Submitting, Uncertain, Open, Ended
  <2>2. Known(a, ref) \in BOOLEAN
    BY DEF Known, TypeOK, Row
  <2>3. row' \in [Action -> Row]
    <3>1. row[a] \in Row
      BY DEF TypeOK
    <3>2. [row[a] EXCEPT !.state = end, !.submission = Known(a, ref)] \in Row
      BY <3>1, <2>1, <2>2 DEF Row
    <3>3. row' = [row EXCEPT ![a] =
                    [row[a] EXCEPT !.state = end, !.submission = Known(a, ref)]]
      BY <1>2, <3>1 DEF Mark, TypeOK, Row
    <3> QED BY <3>2, <3>3 DEF TypeOK
  <2>4. usage' \in [Action -> Usage]
    <3>1. usage[a] \in Usage
      BY DEF TypeOK
    <3>2. \A t \in Held \union {"none", "released"} :
             [usage[a] EXCEPT !.state = t] \in Usage
      BY <3>1 DEF Usage
    <3>3. \E t \in Held \union {"none", "released"} :
             usage' = [usage EXCEPT ![a].state = t]
      BY <1>2, <3>1 DEF Mark, TypeOK, Usage
    <3>4. PICK t \in Held \union {"none", "released"} :
             usage' = [usage EXCEPT ![a].state = t]
      BY <3>3
    <3>5. usage' = [usage EXCEPT ![a] = [usage[a] EXCEPT !.state = t]]
      BY <3>4 DEF TypeOK
    <3> QED BY <3>2, <3>5 DEF TypeOK
  <2>5. hold' \in [Action -> Held \union {"none", "released"}]
    BY <1>2 DEF Mark, TypeOK
  <2>6. lease' \in [Wallet -> Action \union {NoAction}]
    BY <1>2 DEF Mark, TypeOK, Unlocked
  <2> QED BY <2>3, <2>4, <2>5, <2>6
<1> QED BY <1>1, <1>2

LEMMA MarkElsewhere ==
    ASSUME TypeOK, NEW a \in Action, NEW s \in MarkTarget, NEW ref \in BOOLEAN,
           NEW moved \in BOOLEAN, Mark(a, s, ref, moved), NEW b \in Action, b # a
    PROVE  row'[b] = row[b] /\ usage'[b] = usage[b] /\ hold'[b] = hold[b]
BY DEF Mark, rows, TypeOK

LEMMA MarkHere ==
    ASSUME TypeOK, NEW a \in Action, NEW s \in MarkTarget, NEW ref \in BOOLEAN,
           NEW moved \in BOOLEAN, Mark(a, s, ref, moved)
    PROVE  /\ row'[a].quote = row[a].quote
           /\ row'[a].approval = row[a].approval
           /\ row'[a].grant = row[a].grant
           /\ row'[a].submission => ref \/ row[a].submission
           /\ row[a].submission => row'[a].submission
           /\ row'[a].state \in {Marked(a, s, ref)} \union {"confirmed"}
           /\ ~Sticky(a, s) => row'[a].state = Marked(a, s, ref)
           /\ Sticky(a, s) => row'[a] = row[a]
           /\ usage'[a].state = "none" <=> usage[a].state = "none"
<1> USE DEF Held
<1>1. CASE Sticky(a, s)
  BY <1>1 DEF Mark, rows, Sticky
<1>2. CASE ~Sticky(a, s)
  <2>1. /\ row' = [row EXCEPT ![a].state = Marked(a, s, ref),
                              ![a].submission = Known(a, ref)]
    BY <1>2 DEF Mark
  <2>2. row'[a] = [row[a] EXCEPT !.state = Marked(a, s, ref), !.submission = Known(a, ref)]
    BY <2>1 DEF TypeOK, Row
  <2>3. usage'[a].state = "none" <=> usage[a].state = "none"
    BY <1>2 DEF Mark, TypeOK, Usage
  <2> QED BY <1>2, <2>2, <2>3 DEF Known, TypeOK, Row
<1> QED BY <1>1, <1>2

LEMMA MarkLeases ==
    ASSUME FundsAssumption, TypeOK, LeaseIsUsage, NEW a \in Action, NEW s \in MarkTarget,
           NEW ref \in BOOLEAN, NEW moved \in BOOLEAN, Mark(a, s, ref, moved)
    PROVE  LeaseIsUsage'
<1>1. CASE Sticky(a, s)
  BY <1>1 DEF Mark, rows, LeaseIsUsage
<1>2. CASE ~Sticky(a, s) /\ Marked(a, s, ref) \in Ended
  <2>1. usage'[a].state # "reserved"
    BY <1>2 DEF Mark, TypeOK, Usage, Ended
  <2>2. \A b \in Action \ {a} : usage'[b] = usage[b]
    BY MarkElsewhere
  <2>3. lease' = [x \in Wallet |-> IF lease[x] = a THEN NoAction ELSE lease[x]]
    BY <1>2 DEF Mark, Unlocked
  <2>4. ASSUME NEW x \in Wallet, lease'[x] # NoAction
        PROVE  usage'[lease'[x]].state = "reserved" /\ WalletOf[lease'[x]] = x
    <3>1. lease'[x] = lease[x] /\ lease[x] \in Action \ {a}
      BY <2>3, <2>4 DEF TypeOK
    <3> QED BY <2>2, <2>4, <3>1 DEF LeaseIsUsage
  <2>5. ASSUME NEW b \in Action, usage'[b].state = "reserved", WalletOf[b] # NoWallet
        PROVE  lease'[WalletOf[b]] = b
    <3>1. b # a /\ usage[b].state = "reserved" /\ WalletOf[b] \in Wallet
      BY <2>1, <2>2, <2>5, FundsAssumption DEF FundsAssumption
    <3> QED BY <2>3, <2>5, <3>1 DEF LeaseIsUsage
  <2> QED BY <2>4, <2>5 DEF LeaseIsUsage
<1>3. CASE ~Sticky(a, s) /\ Marked(a, s, ref) \notin Ended
  <2>1. usage'[a].state = usage[a].state
    BY <1>3 DEF Mark, TypeOK, Usage, Ended
  <2>2. \A b \in Action \ {a} : usage'[b] = usage[b]
    BY MarkElsewhere
  <2>3. lease' = lease
    BY <1>3 DEF Mark, Unlocked, TypeOK
  <2>4. \A b \in Action : usage'[b].state = usage[b].state
    BY <2>1, <2>2
  <2>5. \A x \in Wallet : lease[x] # NoAction => lease[x] \in Action
    BY DEF TypeOK
  <2> QED BY <2>3, <2>4, <2>5, FundsAssumption DEF LeaseIsUsage, FundsAssumption
<1> QED BY <1>1, <1>2, <1>3
-----------------------------------------------------------------------------
(* Base is inductive. Follows: no call starts to carry an action.          *)
Follows ==
    /\ Named'
    /\ \A v \in Worker, b \in Action :
          /\ Carries(v, b)' => Carries(v, b)
          /\ Reconciles(v, b)' => Reconciles(v, b) \/ usage[b].state # "none"
    /\ \A v \in Worker :
          /\ worker'[v].pc \in Unsent =>
                worker[v].pc \in Unsent /\ worker'[v].act = worker[v].act
          /\ worker'[v].pc = "fence" => worker'[v] = worker[v]

LEMMA CallFollows ==
    ASSUME TypeOK, Named, NEW w \in Worker, NEW c \in Call,
           worker' = [worker EXCEPT ![w] = c],
           c.pc # "idle" => c.act \in Action,
           c.pc \in Carrying => worker[w].pc \in Carrying /\ c.act = worker[w].act,
           c.pc \in Unsent => worker[w].pc \in Unsent,
           c.pc # "fence",
           c.pc = "reconciling" => usage[c.act].state # "none" /\ c.seen \in Answers
    PROVE  Follows /\ worker' \in [Worker -> Call]
<1>1. worker' \in [Worker -> Call]
  BY DEF TypeOK
<1>2. worker'[w] = c /\ \A v \in Worker \ {w} : worker'[v] = worker[v]
  BY DEF TypeOK
<1>3. Named'
  BY <1>2 DEF Named
<1>4. \A v \in Worker, b \in Action :
         /\ Carries(v, b)' => Carries(v, b)
         /\ Reconciles(v, b)' => Reconciles(v, b) \/ usage[b].state # "none"
  BY <1>2 DEF Carries, Reconciles
<1>5. \A v \in Worker :
         /\ worker'[v].pc \in Unsent =>
               worker[v].pc \in Unsent /\ worker'[v].act = worker[v].act
         /\ worker'[v].pc = "fence" => worker'[v] = worker[v]
  BY <1>2 DEF Unsent, Carrying
<1> QED BY <1>1, <1>3, <1>4, <1>5 DEF Follows

LEMMA SameCallsFollow ==
    ASSUME Named, worker' = worker
    PROVE  Follows
BY DEF Named, Follows, Carries, Reconciles

(* The rows of actions change, and none becomes reserved.                  *)
LEMMA RowBase ==
    ASSUME Base, TypeOK', Follows, UNCHANGED <<usage, lease, fate, sent>>,
           \A b \in Action : \/ row'[b] = row[b]
                             \/ /\ row'[b].state # "reserved"
                                /\ usage[b].state = "none" =>
                                      /\ row'[b].state \notin {"submitting"} \union Uncertain
                                      /\ ~row'[b].submission
    PROVE  Base'
<1>1. OneCarrier'
  BY DEF Base, OneCarrier, Follows
<1>2. LeaseIsUsage'
  BY DEF Base, LeaseIsUsage
<1>3. ASSUME NEW b \in Action PROVE Untouched(b)' /\ sent'[b] <= 1
  BY DEF Base, Untouched, Follows
<1>4. ASSUME NEW v \in Worker PROVE Fresh(v)'
  BY DEF Base, Fresh, Follows
<1>5. ASSUME NEW v \in Worker PROVE QuoteKept(v)'
  <2>1. worker'[v].pc = "fence" => worker'[v] = worker[v] /\ worker[v].act \in Action
    BY DEF Follows, Base, Named
  <2> QED BY <2>1 DEF Base, QuoteKept
<1>6. Named'
  BY DEF Follows
<1> QED BY <1>1, <1>2, <1>3, <1>4, <1>5, <1>6 DEF Base

LEMMA MarkBase ==
    ASSUME FundsAssumption, Base, Follows, NEW a \in Action, NEW s \in MarkTarget,
           NEW ref \in BOOLEAN, NEW moved \in BOOLEAN, Mark(a, s, ref, moved),
           usage[a].state = "none" =>
               s \in {"failed_before_submission", "awaiting_prerequisite"} /\ ~ref,
           worker' \in [Worker -> Call],
           UNCHANGED <<approval, expired, grant, fate, sent>>
    PROVE  Base'
<1>0. TypeOK /\ LeaseIsUsage
  BY DEF Base
<1>1. TypeOK'
  BY <1>0, MarkTypes DEF TypeOK
<1>2. LeaseIsUsage'
  BY <1>0, MarkLeases
<1>3. \A b \in Action \ {a} : row'[b] = row[b] /\ usage'[b] = usage[b]
  BY <1>0, MarkElsewhere
<1>4. /\ row'[a].submission => ref \/ row[a].submission
      /\ row'[a].state \in {Marked(a, s, ref)} \union {"confirmed"}
      /\ usage'[a].state = "none" <=> usage[a].state = "none"
  BY <1>0, MarkHere
<1>5. Marked(a, s, ref) # "reserved"
  BY DEF Marked, MarkTarget, Answers, Uncertain, Ended
<1>6. OneCarrier'
  BY DEF Base, OneCarrier, Follows
<1>7. ASSUME NEW b \in Action PROVE Untouched(b)' /\ sent'[b] <= 1
  <2>1. CASE b # a
    BY <2>1, <1>3 DEF Base, Untouched, Follows
  <2>2. CASE b = a
    <3>1. usage[a].state = "none" =>
             Marked(a, s, ref) \in {"failed_before_submission", "awaiting_prerequisite"}
      BY DEF Base, Untouched, Marked, Known
    <3> QED BY <2>2, <3>1, <1>4 DEF Base, Untouched, Follows, Uncertain
  <2> QED BY <2>1, <2>2
<1>8. ASSUME NEW v \in Worker PROVE Fresh(v)'
  BY DEF Base, Fresh, Follows
<1>9. ASSUME NEW v \in Worker PROVE QuoteKept(v)'
  <2>1. worker'[v].pc = "fence" => worker'[v] = worker[v] /\ worker[v].act \in Action
    BY DEF Follows, Base, Named
  <2>2. row'[a].state # "reserved"
    BY <1>4, <1>5
  <2>3. worker'[v].pc = "fence" /\ row'[worker'[v].act].state = "reserved"
          => row'[worker[v].act] = row[worker[v].act]
    BY <2>1, <2>2, <1>3
  <2>4. QuoteKept(v)
    BY DEF Base
  <2> QED BY <2>1, <2>3, <2>4 DEF QuoteKept
<1>10. Named'
  BY DEF Follows
<1> QED BY <1>1, <1>2, <1>6, <1>7, <1>8, <1>9, <1>10 DEF Base
-----------------------------------------------------------------------------
(* Each step of a call.                                                    *)
LEMMA IdleType == Idle \in Call
BY FundsAssumption DEF Idle, Call, FundsAssumption, States

LEMMA ReadBase ==
    ASSUME Base, NEW w \in Worker, NEW a \in Action,
           DiscardRead(w, a) \/ ExecuteRead(w, a) \/ ReconcileRead(w, a)
    PROVE  Base'
<1>0. TypeOK /\ Named /\ row[a] \in Row
  BY DEF Base, TypeOK
<1>1. CASE DiscardRead(w, a)
  <2> DEFINE c == [Idle EXCEPT !.pc = "discard", !.act = a,
                      !.approval = row[a].approval, !.seen = row[a].state]
  <2>1. c \in Call
    BY <1>0, IdleType DEF Idle, Call, Row
  <2>2. Follows /\ worker' \in [Worker -> Call]
    BY <1>0, <1>1, <2>1, CallFollows DEF DiscardRead, Idle, Carrying, Unsent
  <2>3. TypeOK'
    BY <1>0, <1>1, <2>2 DEF DiscardRead, TypeOK, rows
  <2> QED BY <1>1, <2>2, <2>3, RowBase DEF DiscardRead, rows
<1>2. CASE ExecuteRead(w, a)
  <2> DEFINE c == [Idle EXCEPT !.pc = "check", !.act = a,
                      !.quote = row[a].quote, !.approval = row[a].approval]
  <2>1. c \in Call
    BY <1>0, IdleType DEF Idle, Call, Row
  <2>2. Follows /\ worker' \in [Worker -> Call]
    BY <1>0, <1>2, <2>1, CallFollows DEF ExecuteRead, Idle, Carrying, Unsent
  <2>3. TypeOK'
    BY <1>0, <1>2, <2>2 DEF ExecuteRead, TypeOK, rows
  <2> QED BY <1>2, <2>2, <2>3, RowBase DEF ExecuteRead, rows
<1>3. CASE ReconcileRead(w, a)
  <2>1. PICK s \in Answers, moved \in BOOLEAN :
           worker' = [worker EXCEPT ![w] = [Idle EXCEPT !.pc = "reconciling",
                         !.act = a, !.moved = moved,
                         !.seen = Answered(s, Answers \ {"failed_before_submission"})]]
    BY <1>3 DEF ReconcileRead
  <2> DEFINE c == [Idle EXCEPT !.pc = "reconciling", !.act = a, !.moved = moved,
                      !.seen = Answered(s, Answers \ {"failed_before_submission"})]
  <2>2. Answered(s, Answers \ {"failed_before_submission"}) \in Answers \intersect States
    BY DEF Answered, Answers, States, Uncertain, Ended, Submitting
  <2>3. c \in Call
    BY <2>2, IdleType DEF Idle, Call
  <2>4. usage[a].state # "none"
    BY <1>3 DEF ReconcileRead, Base, Untouched
  <2>5. Follows /\ worker' \in [Worker -> Call]
    <3>1. c.pc = "reconciling" /\ c.act = a /\ c.seen \in Answers
      BY <2>2 DEF Idle
    <3> HIDE DEF c
    <3>2. worker' = [worker EXCEPT ![w] = c]
      BY <2>1 DEF c
    <3> QED BY <1>0, <2>3, <2>4, <3>1, <3>2, CallFollows DEF Carrying, Unsent
  <2>6. TypeOK'
    BY <1>0, <1>3, <2>5 DEF ReconcileRead, TypeOK, rows
  <2> QED BY <1>3, <2>5, <2>6, RowBase DEF ReconcileRead, rows
<1> QED BY <1>1, <1>2, <1>3

(* A call that ends, or moves to pc without carrying anything new.         *)
LEMMA MoveFollows ==
    ASSUME Base, NEW w \in Worker, NEW pc,
           \/ Finish(w)
           \/ /\ At(w, pc)
              /\ worker[w].pc # "idle"
              /\ \/ pc \in {"discarding", "ask"}
                 \/ /\ pc \in Carrying \ {"fence"} /\ worker[w].pc \in Unsent
    PROVE  Follows /\ worker' \in [Worker -> Call]
<1>0. TypeOK /\ Named /\ worker[w] \in Call
  BY DEF Base, TypeOK
<1>1. CASE Finish(w)
  <2> QED BY <1>0, <1>1, IdleType, CallFollows DEF Finish, Idle, Carrying, Unsent
<1>2. CASE ~Finish(w)
  <2> DEFINE c == [worker[w] EXCEPT !.pc = pc]
  <2>1. worker' = [worker EXCEPT ![w] = c]
    BY <1>0, <1>2 DEF At, TypeOK
  <2>2. c \in Call
    BY <1>0, <1>2 DEF Call, Carrying, Unsent
  <2>3. c.pc = pc /\ c.act = worker[w].act
    BY <1>0 DEF Call
  <2>4. c.act \in Action
    BY <1>0, <1>2, <2>3 DEF Named
  <2> QED BY <1>0, <1>2, <2>1, <2>2, <2>3, <2>4, CallFollows DEF Carrying, Unsent
<1> QED BY <1>1, <1>2

LEMMA MarkingBase ==
    ASSUME Base, NEW w \in Worker,
           \/ DiscardMark(w) \/ MissingAllowance(w) \/ Drop(w) \/ Identify(w)
           \/ Answer(w) \/ Raise(w) \/ ReconcileMark(w)
    PROVE  Base'
<1> DEFINE a == worker[w].act
<1> USE FundsAssumption
<1>0. TypeOK /\ Named /\ worker[w] \in Call
  BY DEF Base, TypeOK
<1>1. worker[w].pc # "idle" => a \in Action
  BY <1>0 DEF Named
<1>2. worker[w].pc \in Carrying \union {"reconciling"} => usage[a].state # "none"
  BY <1>1 DEF Base, Untouched, Carries, Reconciles, Carrying, Unsent
<1> USE DEF Working
<1>3. CASE DiscardMark(w)
  <2>1. Follows /\ worker' \in [Worker -> Call]
    BY <1>3, MoveFollows DEF DiscardMark
  <2>2. CASE row[a].state = worker[w].seen
    BY <1>1, <1>3, <2>1, <2>2, MarkBase DEF DiscardMark, MarkTarget, Answers, Ended
  <2>3. CASE row[a].state # worker[w].seen
    <3>1. TypeOK'
      BY <1>0, <1>3, <2>1, <2>3 DEF DiscardMark, TypeOK, rows
    <3> QED BY <1>3, <2>1, <2>3, <3>1, RowBase DEF DiscardMark, rows
  <2> QED BY <2>2, <2>3
<1>4. CASE MissingAllowance(w)
  <2>1. Follows /\ worker' \in [Worker -> Call]
    BY <1>4, MoveFollows DEF MissingAllowance
  <2> QED BY <1>1, <1>4, <2>1, MarkBase DEF MissingAllowance, MarkTarget
<1>5. CASE Drop(w)
  <2>1. Follows /\ worker' \in [Worker -> Call]
    BY <1>5, MoveFollows DEF Drop
  <2> QED BY <1>1, <1>5, <2>1, MarkBase DEF Drop, MarkTarget, Answers, Ended
<1>6. CASE Identify(w)
  <2>1. Follows /\ worker' \in [Worker -> Call]
    BY <1>6, MoveFollows DEF Identify, Carrying, Unsent
  <2> QED BY <1>1, <1>2, <1>6, <2>1, MarkBase
        DEF Identify, MarkTarget, Answers, Uncertain, Carrying, Unsent
<1>7. CASE Answer(w)
  <2>1. Follows /\ worker' \in [Worker -> Call]
    BY <1>7, MoveFollows DEF Answer
  <2>2. PICK s \in Answers \union {"other"}, moved \in BOOLEAN :
           Mark(a, Answered(s, Answers), Working(w, {"sent"}), moved)
    BY <1>7 DEF Answer
  <2>3. Answered(s, Answers) \in MarkTarget
    BY DEF Answered, MarkTarget, Answers, Uncertain
  <2>4. Working(w, {"sent"}) \in BOOLEAN
    OBVIOUS
  <2>5. a \in Action /\ usage[a].state # "none"
    BY <1>1, <1>2, <1>7 DEF Answer, Carrying, Unsent
  <2>6. UNCHANGED <<approval, expired, grant, fate, sent>>
    BY <1>7 DEF Answer
  <2> HIDE DEF a, Working
  <2> QED BY <2>1, <2>2, <2>3, <2>4, <2>5, <2>6, MarkBase
<1>8. CASE Raise(w)
  <2>1. Follows /\ worker' \in [Worker -> Call]
    BY <1>8, MoveFollows DEF Raise
  <2> QED BY <1>1, <1>2, <1>8, <2>1, MarkBase
        DEF Raise, MarkTarget, Answers, Uncertain, Carrying, Unsent
<1>9. CASE ReconcileMark(w)
  <2>1. Follows /\ worker' \in [Worker -> Call]
    BY <1>9, MoveFollows DEF ReconcileMark
  <2>2. worker[w].seen \in MarkTarget /\ worker[w].moved \in BOOLEAN
    <3>1. worker[w].pc = "reconciling"
      BY <1>9 DEF ReconcileMark
    <3> QED BY <1>0, <3>1 DEF Named, MarkTarget, Call
  <2>3. a \in Action /\ usage[a].state # "none"
    BY <1>1, <1>2, <1>9 DEF ReconcileMark
  <2>4. PICK s \in MarkTarget, moved \in BOOLEAN : Mark(a, s, FALSE, moved)
    BY <1>9, <2>2 DEF ReconcileMark
  <2>5. UNCHANGED <<approval, expired, grant, fate, sent>>
    BY <1>9 DEF ReconcileMark
  <2> DEFINE ref == FALSE
  <2>6. Mark(a, s, ref, moved) /\ ref \in BOOLEAN
    BY <2>4
  <2> HIDE DEF a, ref, Working
  <2> QED BY <2>1, <2>3, <2>5, <2>6, MarkBase
<1> QED BY <1>3, <1>4, <1>5, <1>6, <1>7, <1>8, <1>9

LEMMA WritingBase ==
    ASSUME Base, NEW w \in Worker,
           DiscardCancel(w) \/ NeedsApproval(w) \/ GiveUp(w) \/ Ask(w) \/ LastFence(w)
    PROVE  Base'
<1> DEFINE a == worker[w].act
<1> USE FundsAssumption DEF Working
<1>0. TypeOK /\ Named /\ worker[w] \in Call
  BY DEF Base, TypeOK
<1>1. worker[w].pc # "idle" => a \in Action
  BY <1>0 DEF Named
<1>2. a \in Action => row[a] \in Row
  BY <1>0 DEF TypeOK
<1>3. CASE DiscardCancel(w)
  <2>1. Follows /\ worker' \in [Worker -> Call]
    BY <1>3, MoveFollows DEF DiscardCancel
  <2>2. approval' \in [Action -> [Version -> ApprovalStates]]
    BY <1>0, <1>1, <1>3 DEF DiscardCancel, TypeOK, ApprovalStates
  <2>3. TypeOK'
    BY <1>0, <1>3, <2>1, <2>2 DEF DiscardCancel, TypeOK, rows
  <2> QED BY <1>3, <2>1, <2>3, RowBase DEF DiscardCancel, rows
<1>4. CASE NeedsApproval(w)
  <2>1. Follows /\ worker' \in [Worker -> Call]
    BY <1>4, MoveFollows DEF NeedsApproval
  <2>2. TypeOK'
    BY <1>0, <1>4, <2>1 DEF NeedsApproval, TypeOK, rows
  <2> QED BY <1>4, <2>1, <2>2, RowBase DEF NeedsApproval, rows
<1>5. CASE GiveUp(w)
  <2>1. Follows /\ worker' \in [Worker -> Call]
    BY <1>5, MoveFollows DEF GiveUp
  <2>2. TypeOK'
    BY <1>0, <1>5, <2>1 DEF GiveUp, TypeOK, rows
  <2> QED BY <1>5, <2>1, <2>2, RowBase DEF GiveUp, rows
<1>6. CASE Ask(w)
  <2> DEFINE q == worker[w].quote
  <2>1. Follows /\ worker' \in [Worker -> Call]
    BY <1>6, MoveFollows DEF Ask
  <2>2. a \in Action
    BY <1>1, <1>6 DEF Ask
  <2>3. approval' \in [Action -> [Version -> ApprovalStates]]
    <3>1. \A b \in Action, v \in Version : approval'[b][v] \in ApprovalStates
      BY <1>0, <1>6 DEF Ask, TypeOK, ApprovalStates
    <3>2. PICK f : approval' = [approval EXCEPT ![a] = [approval[a] EXCEPT ![q] = f]]
      BY <1>0, <1>6, <2>2 DEF Ask, TypeOK
    <3> QED BY <1>0, <2>2, <3>1, <3>2 DEF TypeOK
  <2>4. [row[a] EXCEPT !.state = "awaiting_approval", !.approval = q] \in Row
    BY <1>0, <1>2, <2>2 DEF Row, Call, States, Open
  <2>5. \/ row' = row
        \/ /\ row[a].state \in {"prepared", "awaiting_approval"}
           /\ row' = [row EXCEPT ![a] =
                        [row[a] EXCEPT !.state = "awaiting_approval", !.approval = q]]
    BY <1>0, <1>2, <1>6, <2>2 DEF Ask, TypeOK, Row
  <2>6. row' \in [Action -> Row]
    BY <1>0, <2>4, <2>5 DEF TypeOK
  <2>7. TypeOK'
    BY <1>0, <1>6, <2>1, <2>3, <2>6 DEF Ask, TypeOK
  <2>8. \A b \in Action : \/ row'[b] = row[b]
                          \/ /\ row'[b].state = "awaiting_approval"
                             /\ row'[b].submission = row[b].submission
    <3> DEFINE r == [row[a] EXCEPT !.state = "awaiting_approval", !.approval = q]
    <3>1. r.state = "awaiting_approval" /\ r.submission = row[a].submission
      BY <1>2, <2>2 DEF Row
    <3>2. row' = row \/ row' = [row EXCEPT ![a] = r]
      BY <2>5
    <3> HIDE DEF r
    <3> QED BY <1>0, <3>1, <3>2 DEF TypeOK
  <2>9. \A b \in Action : usage[b].state = "none" => ~row[b].submission
    BY DEF Base, Untouched
  <2> QED BY <1>6, <2>1, <2>7, <2>8, <2>9, RowBase DEF Ask, Uncertain
<1>7. CASE LastFence(w)
  <2>1. Follows /\ worker' \in [Worker -> Call]
    BY <1>7, MoveFollows DEF LastFence, Carrying, Unsent
  <2>2. a \in Action
    BY <1>1, <1>7 DEF LastFence
  <2>3. [row[a] EXCEPT !.state = "submitting"] \in Row
    BY <1>2, <2>2 DEF Row, States, Submitting
  <2>4. row' = row \/ row' = [row EXCEPT ![a] = [row[a] EXCEPT !.state = "submitting"]]
    BY <1>0, <1>7, <2>2 DEF LastFence, TypeOK
  <2>5. TypeOK'
    <3>1. row' \in [Action -> Row]
      BY <1>0, <2>3, <2>4 DEF TypeOK
    <3> QED BY <1>0, <1>7, <2>1, <3>1 DEF LastFence, TypeOK
  <2>6. usage[a].state # "none"
    BY <1>7, <2>2 DEF LastFence, Base, Untouched
  <2>7. \A b \in Action : row'[b] = row[b] \/ (b = a /\ row'[b].state = "submitting")
    BY <1>0, <1>2, <2>2, <2>4 DEF TypeOK, Row
  <2> QED BY <1>7, <2>1, <2>5, <2>6, <2>7, RowBase DEF LastFence
<1> QED BY <1>3, <1>4, <1>5, <1>6, <1>7

(* The reservation: its usage row is the first of the action, so that      *)
(* nobody carries it yet.                                                  *)
LEMMA ReserveBase ==
    ASSUME Base, NEW w \in Worker, Reserve(w)
    PROVE  Base'
<1> DEFINE a == worker[w].act
           g == IF Candidates(a) # {} THEN Newest(a) ELSE 0
<1> USE FundsAssumption
<1>0. TypeOK /\ Named /\ worker[w] \in Call /\ worker[w].pc = "check"
  BY DEF Base, TypeOK, Reserve, Working
<1>1. a \in Action
  BY <1>0 DEF Named
<1>2. row[a] \in Row
  BY <1>0, <1>1 DEF TypeOK
<1>3. g = 0 \/ (g \in Grant /\ Value[a, row[a].quote] <= Single)
  <2>1. Candidates(a) \subseteq Grant
    BY DEF Candidates
  <2>2. Candidates(a) # {} => Newest(a) \in Candidates(a)
    BY <2>1, GrantAssumption DEF Newest
  <2> QED BY <2>2 DEF Candidates
<1>4. /\ Reservable(w) /\ LeaseFree(a) /\ usage[a].state = "none"
      /\ g = 0 => Approved(w)
      /\ usage' = [usage EXCEPT ![a] = [state |-> "reserved", grant |-> g,
                                        quote |-> row[a].quote]]
      /\ hold' = [hold EXCEPT ![a] = "reserved"]
      /\ row' = [row EXCEPT ![a].state = "reserved", ![a].grant = g]
      /\ lease' = [x \in Wallet |-> IF x = WalletOf[a] THEN a ELSE lease[x]]
      /\ worker' = [worker EXCEPT ![w].pc = "fence"]
      /\ UNCHANGED <<approval, expired, grant, fate, sent>>
  BY DEF Reserve, At
<1> HIDE DEF g
<1> DEFINE r == [row[a] EXCEPT !.state = "reserved", !.grant = g]
           c == [worker[w] EXCEPT !.pc = "fence"]
<1>5. r \in Row /\ r.state = "reserved" /\ r.grant = g /\ r.quote = row[a].quote
      /\ r.approval = row[a].approval /\ r.submission = row[a].submission
  BY <1>2, <1>3 DEF Row, States
<1>6. c \in Call /\ c.pc = "fence" /\ c.act = a /\ c.quote = worker[w].quote
  BY <1>0 DEF Call
<1>7. row' = [row EXCEPT ![a] = r] /\ worker' = [worker EXCEPT ![w] = c]
  BY <1>0, <1>1, <1>2, <1>4 DEF TypeOK, Row
<1> HIDE DEF r, c
<1>8. /\ row'[a] = r /\ \A b \in Action \ {a} : row'[b] = row[b]
      /\ worker'[w] = c /\ \A v \in Worker \ {w} : worker'[v] = worker[v]
      /\ usage'[a].state = "reserved" /\ \A b \in Action \ {a} : usage'[b] = usage[b]
  BY <1>0, <1>1, <1>4, <1>7 DEF TypeOK
<1>9. \A v \in Worker : ~Carries(v, a) /\ ~Reconciles(v, a)
  BY <1>1, <1>4 DEF Base, Untouched
<1>10. sent[a] = 0 /\ fate[a] = "none"
  BY <1>1, <1>4 DEF Base, Untouched
<1>11. TypeOK'
  <2>1. [state |-> "reserved", grant |-> g, quote |-> row[a].quote] \in Usage
    BY <1>2, <1>3 DEF Usage, Held, Row
  <2>2. usage' \in [Action -> Usage]
    BY <1>0, <1>1, <1>4, <2>1 DEF TypeOK
  <2>4. row' \in [Action -> Row] /\ worker' \in [Worker -> Call]
    BY <1>0, <1>1, <1>5, <1>6, <1>7 DEF TypeOK
  <2>3. hold' \in [Action -> Held \union {"none", "released"}]
        /\ lease' \in [Wallet -> Action \union {NoAction}]
    BY <1>0, <1>1, <1>4 DEF TypeOK, Held
  <2> QED BY <1>0, <1>4, <2>2, <2>3, <2>4 DEF TypeOK
<1>12. Named'
  BY <1>0, <1>1, <1>6, <1>8 DEF Named
<1>13. OneCarrier'
  BY <1>6, <1>8, <1>9 DEF Base, OneCarrier, Carries
<1>14. LeaseIsUsage'
  <2>1. \A x \in Wallet : lease[x] # a
    BY <1>1, <1>4 DEF Base, LeaseIsUsage, FundsAssumption
  <2>2. \A x \in Wallet : lease'[x] = IF x = WalletOf[a] THEN a ELSE lease[x]
    BY <1>4
  <2>3. WalletOf[a] # NoWallet => WalletOf[a] \in Wallet /\ lease[WalletOf[a]] = NoAction
    BY <1>1, <1>4, <2>1 DEF LeaseFree, FundsAssumption
  <2>4. \A x \in Wallet : lease'[x] # NoAction =>
           usage'[lease'[x]].state = "reserved" /\ WalletOf[lease'[x]] = x
    BY <1>0, <1>8, <2>1, <2>2 DEF Base, LeaseIsUsage, TypeOK
  <2>5. \A b \in Action : usage'[b].state = "reserved" /\ WalletOf[b] # NoWallet
           => lease'[WalletOf[b]] = b
    <3> SUFFICES ASSUME NEW b \in Action, usage'[b].state = "reserved",
                        WalletOf[b] # NoWallet
                 PROVE  lease'[WalletOf[b]] = b
      OBVIOUS
    <3>1. WalletOf[b] \in Wallet
      BY DEF FundsAssumption
    <3>2. CASE b = a
      BY <2>2, <3>1, <3>2
    <3>3. CASE b # a
      <4>1. lease[WalletOf[b]] = b
        BY <1>8, <3>3 DEF Base, LeaseIsUsage
      <4>2. WalletOf[b] # WalletOf[a]
        BY <2>3, <4>1 DEF FundsAssumption
      <4> QED BY <2>2, <3>1, <4>1, <4>2
    <3> QED BY <3>2, <3>3
  <2> QED BY <2>4, <2>5 DEF LeaseIsUsage
<1>15. ASSUME NEW b \in Action PROVE Untouched(b)' /\ sent'[b] <= 1
  <2>1. CASE b = a
    BY <1>1, <1>4, <1>8, <1>10, <2>1 DEF Base, Untouched
  <2>2. CASE b # a
    <3>1. \A v \in Worker : /\ Carries(v, b)' => Carries(v, b)
                            /\ Reconciles(v, b)' => Reconciles(v, b)
      BY <1>6, <1>8, <2>2 DEF Carries, Reconciles
    <3>2. Untouched(b) /\ sent[b] <= 1
      BY DEF Base
    <3> QED BY <1>4, <1>8, <2>2, <3>1, <3>2 DEF Untouched
  <2> QED BY <2>1, <2>2
<1>16. ASSUME NEW v \in Worker PROVE Fresh(v)'
  BY <1>4, <1>6, <1>8, <1>10 DEF Base, Fresh
<1>17. ASSUME NEW v \in Worker PROVE QuoteKept(v)'
  <2>1. CASE v = w
    <3>1. row[a].quote = worker[w].quote
      BY <1>4 DEF Reservable
    <3>2. g = 0 => row[a].approval = row[a].quote
      BY <1>4 DEF Approved
    <3>3. g # 0 => Value[a, row[a].quote] <= Single
      BY <1>3
    <3> QED BY <2>1, <1>5, <1>6, <1>8, <3>1, <3>2, <3>3 DEF QuoteKept
  <2>2. CASE v # w
    <3>1. worker'[v] = worker[v] /\ QuoteKept(v)
      BY <2>2, <1>8 DEF Base
    <3>2. worker[v].pc = "fence" => worker[v].act \in Action \ {a}
      BY <1>0, <1>9 DEF Named, Carries, Carrying, Unsent
    <3>3. worker[v].pc = "fence" => row'[worker[v].act] = row[worker[v].act]
      BY <3>2, <1>8
    <3> QED BY <3>1, <3>3 DEF QuoteKept
  <2> QED BY <2>1, <2>2
<1> QED BY <1>11, <1>12, <1>13, <1>14, <1>15, <1>16, <1>17 DEF Base

LEMMA BroadcastBase ==
    ASSUME Base, NEW w \in Worker, Broadcast(w)
    PROVE  Base'
<1> DEFINE a == worker[w].act
<1> USE FundsAssumption
<1>0. TypeOK /\ Named /\ worker[w] \in Call /\ worker[w].pc = "broadcast"
  BY DEF Base, TypeOK, Broadcast, Working
<1>1. a \in Action
  BY <1>0 DEF Named
<1>2. Follows /\ worker' \in [Worker -> Call]
  BY <1>0, MoveFollows DEF Broadcast, Carrying, Unsent
<1>3. sent[a] = 0 /\ usage[a].state # "none"
  BY <1>0, <1>1 DEF Base, Fresh, Untouched, Carries, Carrying, Unsent
<1>4. /\ UNCHANGED <<row, usage, hold, lease, approval, expired, grant>>
      /\ fate' = [fate EXCEPT ![a] = "pending"]
      /\ sent' = [sent EXCEPT ![a] = @ + 1]
  BY DEF Broadcast, rows
<1>5. worker'[w].pc = "sent"
  BY <1>0 DEF Broadcast, At, TypeOK, Call
<1>6. TypeOK'
  BY <1>0, <1>1, <1>2, <1>4 DEF TypeOK
<1>7. \A b \in Action : /\ b # a => sent'[b] = sent[b] /\ fate'[b] = fate[b]
                        /\ sent'[a] = 1
  BY <1>0, <1>1, <1>3, <1>4 DEF TypeOK
<1>8. OneCarrier'
  BY <1>2 DEF Base, OneCarrier, Follows
<1>9. LeaseIsUsage'
  BY <1>4 DEF Base, LeaseIsUsage
<1>10. ASSUME NEW b \in Action PROVE Untouched(b)' /\ sent'[b] <= 1
  BY <1>2, <1>3, <1>4, <1>7 DEF Base, Untouched, Follows
<1>11. ASSUME NEW v \in Worker PROVE Fresh(v)'
  <2>1. worker'[v].pc \in Unsent => worker[v].pc \in Unsent
           /\ worker'[v].act = worker[v].act /\ worker[v].act \in Action /\ v # w
    BY <1>0, <1>2, <1>5 DEF Follows, Named, Unsent
  <2>2. worker'[v].pc \in Unsent => worker[v].act # a
    BY <1>0, <1>1, <2>1 DEF Base, OneCarrier, Carries, Carrying, Unsent
  <2>3. Fresh(v)
    BY DEF Base
  <2> QED BY <1>7, <2>1, <2>2, <2>3 DEF Fresh
<1>12. ASSUME NEW v \in Worker PROVE QuoteKept(v)'
  BY <1>2, <1>4 DEF Base, QuoteKept, Follows
<1>13. Named'
  BY <1>2 DEF Follows
<1> QED BY <1>6, <1>8, <1>9, <1>10, <1>11, <1>12, <1>13 DEF Base

(* The steps of an action, of its operator, of the clock and the network.  *)
LEMMA ActionBase ==
    ASSUME Base, NEW a \in Action, ActionStep(a)
    PROVE  Base'
<1> USE FundsAssumption
<1>0. TypeOK /\ Named /\ row[a] \in Row
  BY DEF Base, TypeOK
<1>1. CASE Prepare(a) \/ Refresh(a) \/ SweepSubmitting(a)
  <2>1. Follows
    BY <1>0, <1>1, SameCallsFollow DEF Prepare, Refresh, SweepSubmitting
  <2>2. PICK r \in Row : /\ row' = [row EXCEPT ![a] = r]
                         /\ r.submission = row[a].submission
                         /\ \/ r.state = "prepared"
                            \/ r.state = "submitted" /\ row[a].state = "submitting"
    <3>1. CASE Prepare(a)
      <4> DEFINE r == [row[a] EXCEPT !.state = "prepared", !.quote = 1]
      <4>0. 1 \in 0..MaxQuote /\ "prepared" \in States
        BY DEF States, Open, FundsAssumption
      <4>1. r \in Row /\ r.submission = row[a].submission /\ r.state = "prepared"
        BY <1>0, <4>0 DEF Row
      <4>2. row' = [row EXCEPT ![a] = r]
        BY <1>0, <3>1 DEF Prepare, TypeOK, Row
      <4> QED BY <4>1, <4>2
    <3>2. CASE Refresh(a)
      <4> DEFINE r == [row[a] EXCEPT !.state = "prepared", !.quote = @ + 1, !.approval = 0]
      <4>1. row[a].quote < MaxQuote
        BY <3>2 DEF Refresh
      <4>4. row[a].quote + 1 \in 0..MaxQuote /\ 0 \in 0..MaxQuote
        BY <1>0, <4>1 DEF Row, FundsAssumption
      <4>5. "prepared" \in States
        BY DEF States, Open
      <4>2. r \in Row /\ r.submission = row[a].submission /\ r.state = "prepared"
        BY <1>0, <4>4, <4>5 DEF Row
      <4>3. row' = [row EXCEPT ![a] = r]
        BY <1>0, <3>2 DEF Refresh, TypeOK, Row
      <4> QED BY <4>2, <4>3
    <3>3. CASE SweepSubmitting(a)
      <4> DEFINE r == [row[a] EXCEPT !.state = "submitted"]
      <4>1. r \in Row /\ r.submission = row[a].submission /\ r.state = "submitted"
        BY <1>0 DEF Row, States, Submitting, Uncertain
      <4>2. row' = [row EXCEPT ![a] = r]
        BY <1>0, <3>3 DEF SweepSubmitting, TypeOK
      <4> QED BY <3>3, <4>1, <4>2 DEF SweepSubmitting
    <3> QED BY <1>1, <3>1, <3>2, <3>3
  <2>3. row' \in [Action -> Row]
    BY <1>0, <2>2 DEF TypeOK
  <2>4. approval' \in [Action -> [Version -> ApprovalStates]] /\ expired' \subseteq Action
    BY <1>0, <1>1 DEF Prepare, Refresh, SweepSubmitting, TypeOK, ApprovalStates
  <2>5. UNCHANGED <<grant, usage, hold, lease, worker, fate, sent>>
    BY <1>1 DEF Prepare, Refresh, SweepSubmitting
  <2>6. TypeOK'
    BY <1>0, <2>3, <2>4, <2>5 DEF TypeOK
  <2>7. \A b \in Action : b # a => row'[b] = row[b]
    BY <1>0, <2>2 DEF TypeOK
  <2>8. row'[a] = r
    BY <1>0, <2>2 DEF TypeOK
  <2>9. usage[a].state = "none" => ~row[a].submission /\ row[a].state # "submitting"
    BY DEF Base, Untouched
  <2>10. \A b \in Action : \/ row'[b] = row[b]
                           \/ /\ row'[b].state # "reserved"
                              /\ usage[b].state = "none" =>
                                    /\ row'[b].state \notin {"submitting"} \union Uncertain
                                    /\ ~row'[b].submission
    BY <2>2, <2>7, <2>8, <2>9 DEF Uncertain
  <2> QED BY <2>1, <2>5, <2>6, <2>10, RowBase
<1>2. CASE ExpireQuote(a) \/ \E q \in Version : Decide(a, q)
  <2>1. UNCHANGED <<rows, grant, worker, fate, sent>>
    BY <1>2 DEF ExpireQuote, Decide
  <2>2. approval' \in [Action -> [Version -> ApprovalStates]] /\ expired' \subseteq Action
    <3>1. CASE ExpireQuote(a)
      BY <1>0, <3>1 DEF ExpireQuote, TypeOK
    <3>2. ASSUME NEW q \in Version, Decide(a, q)
          PROVE  approval' \in [Action -> [Version -> ApprovalStates]] /\ expired' = expired
      <4>1. PICK s \in {"approved", "rejected"} : approval' = [approval EXCEPT ![a][q] = s]
        BY <3>2 DEF Decide
      <4>2. s \in ApprovalStates
        BY DEF ApprovalStates
      <4>3. expired' = expired
        BY <3>2 DEF Decide
      <4> QED BY <1>0, <4>1, <4>2, <4>3 DEF TypeOK
    <3> QED BY <1>0, <1>2, <3>1, <3>2 DEF TypeOK
  <2>3. TypeOK' /\ Follows
    BY <1>0, <2>1, <2>2, SameCallsFollow DEF TypeOK, rows
  <2> QED BY <2>1, <2>3, RowBase DEF rows
<1>3. CASE Settle(a)
  <2>1. UNCHANGED <<rows, approval, expired, grant, worker, sent>>
    BY <1>3 DEF Settle
  <2>2. fate[a] = "pending"
    BY <1>3 DEF Settle
  <2>3. fate' \in [Action -> {"none", "pending", "landed", "failed"}]
        /\ \A b \in Action \ {a} : fate'[b] = fate[b]
    BY <1>0, <1>3 DEF Settle, TypeOK
  <2>4. TypeOK' /\ Follows
    BY <1>0, <2>1, <2>3, SameCallsFollow DEF TypeOK, rows
  <2>5. ASSUME NEW b \in Action PROVE Untouched(b)' /\ sent'[b] <= 1
    BY <2>1, <2>2, <2>3, <2>4 DEF Base, Untouched, rows, Follows
  <2>6. ASSUME NEW v \in Worker PROVE Fresh(v)' /\ QuoteKept(v)'
    <3>1. worker[v].pc \in Unsent => worker[v].act \in Action \ {a}
      BY <1>0, <2>2 DEF Base, Fresh, Named, Unsent
    <3>2. Fresh(v) /\ QuoteKept(v)
      BY DEF Base
    <3> QED BY <2>1, <2>3, <3>1, <3>2 DEF Fresh, QuoteKept, rows
  <2>7. Named' /\ OneCarrier' /\ LeaseIsUsage'
    BY <2>1, <2>4 DEF Base, OneCarrier, LeaseIsUsage, rows, Follows
  <2> QED BY <2>4, <2>5, <2>6, <2>7 DEF Base
<1> QED BY <1>1, <1>2, <1>3 DEF ActionStep

THEOREM BaseInvariant == Spec => []Base
<1> USE FundsAssumption
<1>1. Init => Base
  <2> SUFFICES ASSUME Init PROVE Base
    OBVIOUS
  <2>2. [state |-> "none", quote |-> 0, approval |-> 0, grant |-> 0, submission |-> FALSE] \in Row
    BY DEF Row, States, FundsAssumption
  <2>3. [state |-> "none", grant |-> 0, quote |-> 0] \in Usage
    BY DEF Usage, FundsAssumption
  <2>4. TypeOK
    BY <2>2, <2>3, IdleType DEF Init, TypeOK, ApprovalStates
  <2>5. Named /\ OneCarrier /\ \A w \in Worker : Fresh(w) /\ QuoteKept(w)
    BY DEF Init, Idle, Named, OneCarrier, Carries, Carrying, Unsent, Fresh, QuoteKept
  <2>6. LeaseIsUsage
    BY DEF Init, LeaseIsUsage
  <2>7. ASSUME NEW a \in Action PROVE Untouched(a) /\ sent[a] <= 1
    <3>1. row[a].state = "none" /\ ~row[a].submission /\ sent[a] = 0 /\ fate[a] = "none"
      BY DEF Init
    <3>2. \A w \in Worker : worker[w].pc = "idle"
      BY DEF Init, Idle
    <3> QED BY <3>1, <3>2 DEF Untouched, Carries, Carrying, Unsent, Reconciles, Uncertain
  <2> QED BY <2>4, <2>5, <2>6, <2>7 DEF Base
<1>2. Base /\ [Next]_vars => Base'
  <2> SUFFICES ASSUME Base, [Next]_vars PROVE Base'
    OBVIOUS
  <2>0. TypeOK /\ Named
    BY DEF Base
  <2>1. ASSUME NEW w \in Worker, CallStep(w) PROVE Base'
    BY ZenonT(60), <2>1, ReadBase, MarkingBase, WritingBase, ReserveBase, BroadcastBase
       DEF CallStep
  <2>2. ASSUME NEW a \in Action, ActionStep(a) PROVE Base'
    BY <2>2, ActionBase
  <2>3. ASSUME NEW g \in Grant, GrantStep(g) PROVE Base'
    <3>1. UNCHANGED <<rows, approval, expired, worker, fate, sent>>
      BY <2>3 DEF GrantStep, ApproveGrant, EndGrant
    <3>2. grant' \in [Grant -> {"draft", "active", "ended"}]
      BY <2>0, <2>3 DEF GrantStep, ApproveGrant, EndGrant, TypeOK
    <3>3. TypeOK' /\ Follows
      BY <2>0, <3>1, <3>2, SameCallsFollow DEF TypeOK, rows
    <3> QED BY <3>1, <3>3, RowBase DEF rows
  <2>4. CASE UNCHANGED vars
    <3>1. UNCHANGED <<rows, approval, expired, grant, worker, fate, sent>>
      BY <2>4 DEF vars
    <3>2. TypeOK' /\ Follows
      BY <2>0, <3>1, SameCallsFollow DEF TypeOK, rows
    <3> QED BY <3>1, <3>2, RowBase DEF rows
  <2> QED BY <2>1, <2>2, <2>3, <2>4 DEF Next
<1> QED BY <1>1, <1>2, PTL DEF Spec

(* Rows, usages, leases and calls have their types, whatever calls and     *)
(* processes do and in whatever order.                                     *)
THEOREM TypeCorrect == Spec => []TypeOK
BY BaseInvariant, PTL DEF Base

(* The funds of an action leave at most once: gateway.execute and its      *)
(* "no second submission", with validations and signers however late.      *)
THEOREM SentAtMostOnce == Spec => []SentOnce
<1>1. Base => SentOnce
  BY DEF Base, SentOnce
<1> QED BY <1>1, BaseInvariant, PTL

(* store.mark and store.reserve: a wallet lease ends with the usage that   *)
(* took it.                                                                *)
THEOREM LeasesHaveReasons == Spec => []LeaseHasReason
<1>1. Base => LeaseHasReason
  BY DEF Base, LeaseIsUsage, LeaseHasReason
<1> QED BY <1>1, BaseInvariant, PTL

(* Only the last fence takes a call to the signer.                         *)
LEMMA FenceToSend ==
    ASSUME TypeOK, NEW w \in Worker, [Next]_vars, Working(w, {"fence"}),
           worker'[w].pc = "send"
    PROVE  LastFence(w)
<1> USE DEF Working
<1>0. worker[w] \in Call /\ worker[w].pc = "fence"
  BY DEF TypeOK
<1>1. ASSUME NEW v \in Worker, CallStep(v), v # w PROVE FALSE
  <2>1. \E c : worker' = [worker EXCEPT ![v] = c]
    <3>1. ASSUME Finish(v) PROVE \E c : worker' = [worker EXCEPT ![v] = c]
      BY <3>1 DEF Finish
    <3>2. ASSUME NEW pc, At(v, pc) PROVE \E c : worker' = [worker EXCEPT ![v] = c]
      BY <3>2 DEF At, TypeOK
    <3>3. CASE \E a \in Action : DiscardRead(v, a) \/ ExecuteRead(v, a) \/ ReconcileRead(v, a)
      BY <3>3 DEF DiscardRead, ExecuteRead, ReconcileRead
    <3>4. CASE DiscardCancel(v) \/ NeedsApproval(v) \/ Reserve(v) \/ LastFence(v)
               \/ Identify(v) \/ Broadcast(v)
      BY <3>2, <3>4 DEF DiscardCancel, NeedsApproval, Reserve, LastFence, Identify, Broadcast
    <3>5. CASE DiscardMark(v) \/ MissingAllowance(v) \/ Ask(v) \/ Drop(v) \/ Answer(v)
               \/ Raise(v) \/ ReconcileMark(v) \/ GiveUp(v)
      BY <3>1, <3>5 DEF DiscardMark, MissingAllowance, Ask, Drop, Answer, Raise,
                        ReconcileMark, GiveUp
    <3> QED BY ZenonT(60), <1>1, <3>3, <3>4, <3>5 DEF CallStep
  <2>2. worker'[w] = worker[w]
    BY <1>1, <2>1 DEF TypeOK
  <2> QED BY <1>0, <2>2
<1>2. ASSUME CallStep(w) PROVE LastFence(w)
  <2>1. ~Finish(w) /\ ~At(w, "drop")
    BY <1>0 DEF Finish, At, Idle, TypeOK, Call
  <2>2. ~Drop(w) /\ ~GiveUp(w)
    BY <2>1 DEF Drop, GiveUp
  <2>3. /\ \A a \in Action : ~DiscardRead(w, a) /\ ~ExecuteRead(w, a) /\ ~ReconcileRead(w, a)
        /\ ~DiscardCancel(w) /\ ~DiscardMark(w) /\ ~MissingAllowance(w) /\ ~Reserve(w)
        /\ ~NeedsApproval(w) /\ ~Ask(w) /\ ~Identify(w) /\ ~Broadcast(w) /\ ~Answer(w)
        /\ ~Raise(w) /\ ~ReconcileMark(w)
    BY <1>0 DEF DiscardRead, ExecuteRead, ReconcileRead, DiscardCancel, DiscardMark,
                MissingAllowance, Reserve, NeedsApproval, Ask, Identify, Broadcast, Answer,
                Raise, ReconcileMark
  <2> QED BY ZenonT(60), <1>2, <2>2, <2>3 DEF CallStep
<1>3. ASSUME NEW a \in Action, ActionStep(a) PROVE worker' = worker
  BY <1>3 DEF ActionStep, Prepare, Refresh, SweepSubmitting, ExpireQuote, Settle, Decide
<1>4. ASSUME NEW g \in Grant, GrantStep(g) PROVE worker' = worker
  BY <1>4 DEF GrantStep, ApproveGrant, EndGrant
<1>5. CASE UNCHANGED vars
  BY <1>0, <1>5 DEF vars
<1> QED BY <1>0, <1>1, <1>2, <1>3, <1>4, <1>5 DEF Next

(* What a call takes to the signer is authorised as it does so, however    *)
(* the action was refreshed, discarded or revived meanwhile.               *)
THEOREM SubmissionAuthorized == Spec => AuthorizedSubmission
<1>1. Base /\ [Next]_vars => [\A w \in Worker :
         Working(w, {"fence"}) /\ worker'[w].pc = "send" => AuthorizedQuote(w)]_vars
  <2> SUFFICES ASSUME Base, [Next]_vars, NEW w \in Worker, Working(w, {"fence"}),
                      worker'[w].pc = "send"
               PROVE  AuthorizedQuote(w)
    OBVIOUS
  <2> DEFINE a == worker[w].act
  <2>0. TypeOK /\ Named /\ QuoteKept(w) /\ worker[w] \in Call
    BY DEF Base, TypeOK
  <2>1. LastFence(w)
    BY <2>0, FenceToSend
  <2>2. row[a].state = "reserved" /\ worker[w].pc = "fence"
    BY <2>1 DEF LastFence, Working
  <2>3. Authorized(a)
    BY <2>0, <2>1 DEF LastFence, At, TypeOK, Call
  <2> QED BY <2>0, <2>2, <2>3 DEF QuoteKept, Authorized, AuthorizedQuote
<1> QED BY <1>1, BaseInvariant, PTL DEF Spec, AuthorizedSubmission
-----------------------------------------------------------------------------
(* Told: the gateway knows of every transaction before it is on the        *)
(* network, and forgets none; it says confirmed only of what has landed.   *)
CallTold(w) ==
    LET c == worker[w]
        a == c.act
    IN /\ c.pc = "broadcast" => row[a].submission
       /\ c.pc = "reconciling" =>
             /\ c.seen = "confirmed" => fate[a] = "landed"
             /\ c.seen = "rejected" => fate[a] = "failed"
             /\ c.moved => fate[a] \in {"landed", "failed"}

FateTold(a) ==
    /\ fate[a] \in AtRisk => row[a].submission
    /\ row[a].state = "confirmed" => fate[a] = "landed"

Told ==
    /\ \A w \in Worker : CallTold(w)
    /\ \A a \in Action : FateTold(a)

(* An identity on file stays there, and a transaction goes on from a       *)
(* recorded one.                                                           *)
Grows ==
    \A a \in Action :
        /\ row[a].submission => row'[a].submission
        /\ row'[a].state = "confirmed" => row[a].state = "confirmed" \/ fate'[a] = "landed"

GoesOn ==
    \A a \in Action :
        \/ fate'[a] = fate[a]
        \/ fate[a] = "pending" /\ fate'[a] \in {"landed", "failed"}
        \/ fate[a] = "none" /\ fate'[a] = "pending" /\ row[a].submission

LEMMA ToldStep ==
    ASSUME Base, Told, Grows, GoesOn,
           \A v \in Worker : worker'[v] = worker[v] \/ CallTold(v)'
    PROVE  Told'
<1>1. ASSUME NEW a \in Action PROVE FateTold(a)'
  <2>1. FateTold(a)
    BY DEF Told
  <2> QED BY <2>1 DEF Grows, GoesOn, FateTold, AtRisk
<1>2. ASSUME NEW v \in Worker PROVE CallTold(v)'
  <2>1. CASE CallTold(v)'
    BY <2>1
  <2>2. CASE worker'[v] = worker[v]
    <3>1. CallTold(v) /\ (worker[v].pc # "idle" => worker[v].act \in Action)
      BY DEF Told, Base, Named
    <3> QED BY <2>2, <3>1 DEF CallTold, Grows, GoesOn
  <2> QED BY <2>1, <2>2
<1> QED BY <1>1, <1>2 DEF Told

(* A call that ends, or that reads, leaves the rows.                       *)
LEMMA ReadingTold ==
    ASSUME Base, Told, NEW w \in Worker,
           \/ \E a \in Action : DiscardRead(w, a) \/ ExecuteRead(w, a) \/ ReconcileRead(w, a)
           \/ DiscardCancel(w) \/ NeedsApproval(w) \/ GiveUp(w)
    PROVE  Told'
<1>0. TypeOK /\ worker[w] \in Call
  BY DEF Base, TypeOK
<1>1. UNCHANGED <<row, fate>>
  BY DEF DiscardRead, ExecuteRead, ReconcileRead, DiscardCancel, NeedsApproval, GiveUp, rows
<1>2. \A v \in Worker \ {w} : worker'[v] = worker[v]
  BY <1>0 DEF DiscardRead, ExecuteRead, ReconcileRead, DiscardCancel, NeedsApproval, GiveUp,
              Finish, At, TypeOK
<1>3. CallTold(w)'
  <2>1. ASSUME NEW a \in Action, DiscardRead(w, a) \/ ExecuteRead(w, a) PROVE CallTold(w)'
    <3>1. worker'[w].pc \in {"discard", "check"}
      BY <1>0, <2>1 DEF DiscardRead, ExecuteRead, TypeOK, Idle
    <3> QED BY <3>1 DEF CallTold
  <2>2. ASSUME NEW a \in Action, ReconcileRead(w, a) PROVE CallTold(w)'
    <3>1. PICK s \in Answers, moved \in BOOLEAN :
            /\ Truthful(a, s, moved)
            /\ s = "rejected" => fate[a] = "failed"
            /\ worker' = [worker EXCEPT ![w] = [Idle EXCEPT !.pc = "reconciling",
                              !.act = a, !.moved = moved,
                              !.seen = Answered(s, Answers \ {"failed_before_submission"})]]
      BY <2>2 DEF ReconcileRead
    <3>2. /\ worker'[w].pc = "reconciling" /\ worker'[w].act = a /\ worker'[w].moved = moved
          /\ worker'[w].seen = Answered(s, Answers \ {"failed_before_submission"})
      BY <1>0, <3>1 DEF TypeOK, Idle
    <3>3. worker'[w].seen = IF s = "failed_before_submission" THEN "submitted" ELSE s
      BY <3>2 DEF Answered
    <3> QED BY <1>1, <3>1, <3>2, <3>3 DEF CallTold, Truthful
  <2>3. CASE DiscardCancel(w) \/ NeedsApproval(w)
    <3>1. worker'[w].pc \in {"discarding", "ask"}
      BY <1>0, <2>3 DEF DiscardCancel, NeedsApproval, At, TypeOK, Call
    <3> QED BY <3>1 DEF CallTold
  <2>4. CASE GiveUp(w)
    <3>1. worker'[w].pc = "idle"
      BY <1>0, <2>4 DEF GiveUp, Finish, TypeOK, Idle
    <3> QED BY <3>1 DEF CallTold
  <2> QED BY <2>1, <2>2, <2>3, <2>4
<1> QED BY <1>1, <1>2, <1>3, ToldStep DEF Grows, GoesOn

(* What a mark says of an action agrees with what has become of its funds. *)
Honest(a, s, moved) ==
    /\ s = "confirmed" => fate[a] = "landed"
    /\ s = "rejected" => fate[a] \notin AtRisk
    /\ moved => fate[a] # "pending"

MarksHonestly(a) ==
    \/ UNCHANGED rows
    \/ \E s \in MarkTarget, ref \in BOOLEAN, moved \in BOOLEAN :
          Mark(a, s, ref, moved) /\ Honest(a, s, moved)

LEMMA MarksAreHonest ==
    ASSUME Base, Told, NEW w \in Worker,
           \/ DiscardMark(w) \/ MissingAllowance(w) \/ Drop(w) \/ Identify(w)
           \/ Answer(w) \/ Raise(w) \/ ReconcileMark(w)
    PROVE  worker[w].act \in Action /\ MarksHonestly(worker[w].act)
<1> DEFINE a == worker[w].act
<1>0. TypeOK /\ Named /\ worker[w] \in Call /\ CallTold(w)
  BY DEF Base, TypeOK, Told
<1>1. a \in Action
  BY <1>0 DEF Named, Working, DiscardMark, MissingAllowance, Drop, Identify, Answer, Raise,
              ReconcileMark
<1>2. ASSUME NEW s \in {"failed_before_submission", "awaiting_prerequisite", "submitted"},
             NEW ref \in BOOLEAN, Mark(a, s, ref, FALSE)
      PROVE  MarksHonestly(a)
  <2>1. s \in MarkTarget /\ Honest(a, s, FALSE)
    BY DEF MarkTarget, Answers, Ended, Uncertain, Honest
  <2> QED BY <1>2, <2>1 DEF MarksHonestly
<1>3. CASE DiscardMark(w) \/ MissingAllowance(w) \/ Drop(w) \/ Identify(w) \/ Raise(w)
  <2>1. CASE UNCHANGED rows
    BY <1>1, <2>1 DEF MarksHonestly
  <2>2. CASE \E s \in {"failed_before_submission", "awaiting_prerequisite", "submitted"} :
                Mark(a, s, FALSE, FALSE) \/ Mark(a, s, TRUE, FALSE)
    BY <1>1, <1>2, <2>2
  <2> QED BY <1>3, <2>1, <2>2 DEF DiscardMark, MissingAllowance, Drop, Identify, Raise
<1>4. CASE Answer(w)
  <2>1. PICK s \in Answers \union {"other"}, moved \in BOOLEAN :
           Truthful(a, s, moved) /\ Mark(a, Answered(s, Answers), Working(w, {"sent"}), moved)
    BY <1>4 DEF Answer
  <2>2. Answered(s, Answers) \in MarkTarget /\ Working(w, {"sent"}) \in BOOLEAN
    BY DEF Answered, MarkTarget, Answers, Uncertain, Working
  <2>3. Honest(a, Answered(s, Answers), moved)
    BY <2>1 DEF Truthful, Answered, Honest, AtRisk
  <2> QED BY <1>1, <2>1, <2>2, <2>3 DEF MarksHonestly
<1>5. CASE ReconcileMark(w)
  <2>1. worker[w].pc = "reconciling" /\ Mark(a, worker[w].seen, FALSE, worker[w].moved)
    BY <1>5 DEF ReconcileMark, Working
  <2>2. worker[w].seen \in MarkTarget /\ worker[w].moved \in BOOLEAN
    BY <1>0, <2>1 DEF Named, MarkTarget, Call
  <2>3. Honest(a, worker[w].seen, worker[w].moved)
    BY <1>0, <2>1 DEF CallTold, Honest, AtRisk
  <2> QED BY <1>1, <2>1, <2>2, <2>3 DEF MarksHonestly
<1> QED BY <1>1, <1>3, <1>4, <1>5

LEMMA MarkGrows ==
    ASSUME TypeOK, NEW a \in Action, MarksHonestly(a), fate' = fate
    PROVE  Grows
<1>1. CASE UNCHANGED rows
  BY <1>1 DEF Grows, rows
<1>2. CASE ~UNCHANGED rows
  <2>1. PICK s \in MarkTarget, ref \in BOOLEAN, moved \in BOOLEAN :
           Mark(a, s, ref, moved) /\ Honest(a, s, moved)
    BY <1>2 DEF MarksHonestly
  <2>2. \A b \in Action \ {a} : row'[b] = row[b]
    BY <2>1, MarkElsewhere
  <2>3. /\ row[a].submission => row'[a].submission
        /\ ~Sticky(a, s) => row'[a].state = Marked(a, s, ref)
        /\ Sticky(a, s) => row'[a] = row[a]
    BY <2>1, MarkHere
  <2>4. row'[a].state = "confirmed" => row[a].state = "confirmed" \/ fate[a] = "landed"
    BY <2>1, <2>3 DEF Sticky, Marked, Honest
  <2> QED BY <2>2, <2>3, <2>4 DEF Grows
<1> QED BY <1>1, <1>2

LEMMA MarkingTold ==
    ASSUME Base, Told, NEW w \in Worker,
           \/ DiscardMark(w) \/ MissingAllowance(w) \/ Drop(w) \/ Identify(w)
           \/ Answer(w) \/ Raise(w) \/ ReconcileMark(w)
    PROVE  Told'
<1>0. TypeOK /\ worker[w] \in Call
  BY DEF Base, TypeOK
<1>1. PICK a \in Action : a = worker[w].act /\ MarksHonestly(a)
  BY MarksAreHonest
<1>2. fate' = fate
  BY DEF DiscardMark, MissingAllowance, Drop, Identify, Answer, Raise, ReconcileMark
<1>3. Grows
  BY <1>0, <1>1, <1>2, MarkGrows
<1>4. \A v \in Worker \ {w} : worker'[v] = worker[v]
  BY <1>0 DEF DiscardMark, MissingAllowance, Drop, Identify, Answer, Raise, ReconcileMark,
              Finish, At, TypeOK
<1>5. CallTold(w)'
  <2>1. CASE Finish(w)
    <3>1. worker'[w].pc = "idle"
      BY <1>0, <2>1 DEF Finish, TypeOK, Idle
    <3> QED BY <3>1 DEF CallTold
  <2>2. CASE Identify(w)
    <3>1. worker'[w].pc = "broadcast" /\ worker'[w].act = a
      BY <1>0, <1>1, <2>2 DEF Identify, At, TypeOK, Call
    <3>2. row'[a].submission
      <4>1. CASE Sticky(a, "submitted")
        <5>1. row[a].submission
          BY <4>1 DEF Sticky, Told, FateTold, AtRisk
        <5> QED BY <1>3, <5>1 DEF Grows
      <4>2. CASE ~Sticky(a, "submitted")
        <5>1. row' = [row EXCEPT ![a].state = Marked(a, "submitted", TRUE),
                                 ![a].submission = Known(a, TRUE)]
          BY <1>1, <2>2, <4>2 DEF Identify, Mark
        <5> QED BY <1>0, <5>1 DEF Known, TypeOK, Row
      <4> QED BY <4>1, <4>2
    <3> QED BY <3>1, <3>2 DEF CallTold
  <2> QED BY <2>1, <2>2 DEF DiscardMark, MissingAllowance, Drop, Answer, Raise, ReconcileMark
<1> QED BY <1>2, <1>3, <1>4, <1>5, ToldStep DEF GoesOn

LEMMA WritingTold ==
    ASSUME Base, Told, NEW w \in Worker,
           Reserve(w) \/ Ask(w) \/ LastFence(w) \/ Broadcast(w)
    PROVE  Told'
<1>0. TypeOK /\ Named /\ worker[w] \in Call /\ CallTold(w) /\ Fresh(w)
  BY DEF Base, TypeOK, Told
<1>1. PICK a \in Action : a = worker[w].act
  BY <1>0 DEF Named, Working, Reserve, Ask, LastFence, Broadcast
<1>2. \A v \in Worker \ {w} : worker'[v] = worker[v]
  BY <1>0 DEF Reserve, Ask, LastFence, Broadcast, Finish, At, TypeOK
<1>3. CallTold(w)'
  <2>1. worker'[w].pc \in {"fence", "idle", "send", "drop", "sent"}
    BY <1>0 DEF Reserve, Ask, LastFence, Broadcast, Finish, At, TypeOK, Call, Idle
  <2> QED BY <2>1 DEF CallTold
<1>4. Grows
  <2>1. CASE Reserve(w)
    <3>1. \A b \in Action \ {a} : row'[b] = row[b]
      BY <1>0, <1>1, <2>1 DEF Reserve, TypeOK
    <3>2. row'[a].submission = row[a].submission /\ row'[a].state = "reserved"
      BY <1>0, <1>1, <2>1 DEF Reserve, TypeOK, Row
    <3> QED BY <3>1, <3>2 DEF Grows
  <2>2. CASE Ask(w)
    <3>1. CASE row' = row
      BY <3>1 DEF Grows
    <3>2. CASE row' = [row EXCEPT ![a].state = "awaiting_approval",
                                  ![a].approval = worker[w].quote]
      <4>1. \A b \in Action \ {a} : row'[b] = row[b]
        BY <1>0, <3>2 DEF TypeOK
      <4>2. row'[a].submission = row[a].submission /\ row'[a].state = "awaiting_approval"
        BY <1>0, <3>2 DEF TypeOK, Row
      <4> QED BY <4>1, <4>2 DEF Grows
    <3> QED BY <1>1, <2>2, <3>1, <3>2 DEF Ask
  <2>4. CASE LastFence(w)
    <3>1. CASE row' = row
      BY <3>1 DEF Grows
    <3>2. CASE row' = [row EXCEPT ![a].state = "submitting"]
      <4>1. \A b \in Action \ {a} : row'[b] = row[b]
        BY <1>0, <3>2 DEF TypeOK
      <4>2. row'[a].submission = row[a].submission /\ row'[a].state = "submitting"
        BY <1>0, <3>2 DEF TypeOK, Row
      <4> QED BY <4>1, <4>2 DEF Grows
    <3> QED BY <1>1, <2>4, <3>1, <3>2 DEF LastFence
  <2>3. CASE Broadcast(w)
    BY <2>3 DEF Broadcast, Grows, rows
  <2> QED BY <2>1, <2>2, <2>3, <2>4
<1>5. GoesOn
  <2>1. CASE Broadcast(w)
    <3>1. fate[a] = "none" /\ row[a].submission
      BY <1>0, <1>1, <2>1 DEF Broadcast, Working, Fresh, Unsent, CallTold
    <3> QED BY <1>0, <1>1, <2>1, <3>1 DEF Broadcast, GoesOn, TypeOK
  <2>2. CASE fate' = fate
    BY <2>2 DEF GoesOn
  <2> QED BY <2>1, <2>2 DEF Reserve, Ask, LastFence
<1> QED BY <1>2, <1>3, <1>4, <1>5, ToldStep

LEMMA ActionTold ==
    ASSUME Base, Told, NEW a \in Action, ActionStep(a)
    PROVE  Told'
<1>0. TypeOK
  BY DEF Base
<1>1. worker' = worker
  BY DEF ActionStep, Prepare, Refresh, SweepSubmitting, ExpireQuote, Settle, Decide
<1>2. Grows
  <2>1. CASE Prepare(a) \/ Refresh(a) \/ SweepSubmitting(a)
    <3>1. \A b \in Action \ {a} : row'[b] = row[b]
      BY <1>0, <2>1 DEF Prepare, Refresh, SweepSubmitting, TypeOK
    <3>2. row'[a].submission = row[a].submission /\ row'[a].state \in {"prepared", "submitted"}
      <4>1. CASE Prepare(a)
        BY <1>0, <4>1 DEF Prepare, TypeOK, Row
      <4>2. CASE Refresh(a)
        BY <1>0, <4>2 DEF Refresh, TypeOK, Row
      <4>3. CASE SweepSubmitting(a)
        BY <1>0, <4>3 DEF SweepSubmitting, TypeOK, Row
      <4> QED BY <2>1, <4>1, <4>2, <4>3
    <3> QED BY <3>1, <3>2 DEF Grows
  <2>2. CASE row' = row
    BY <2>2 DEF Grows
  <2> QED BY <2>1, <2>2 DEF ActionStep, ExpireQuote, Settle, Decide, rows
<1>3. GoesOn
  <2>1. CASE Settle(a)
    BY <1>0, <2>1 DEF Settle, GoesOn, TypeOK
  <2>2. CASE fate' = fate
    BY <2>2 DEF GoesOn
  <2> QED BY <2>1, <2>2 DEF ActionStep, Prepare, Refresh, SweepSubmitting, ExpireQuote, Decide
<1> QED BY <1>1, <1>2, <1>3, ToldStep

LEMMA ToldInvariant == Spec => [](Base /\ Told)
<1>1. Init => Told
  BY DEF Init, Idle, Told, CallTold, FateTold, AtRisk
<1>2. Base /\ Told /\ [Next]_vars => Told'
  <2> SUFFICES ASSUME Base, Told, [Next]_vars PROVE Told'
    OBVIOUS
  <2>1. ASSUME NEW w \in Worker, CallStep(w) PROVE Told'
    BY ZenonT(60), <2>1, ReadingTold, MarkingTold, WritingTold DEF CallStep
  <2>2. ASSUME NEW a \in Action, ActionStep(a) PROVE Told'
    BY <2>2, ActionTold
  <2>3. CASE UNCHANGED <<row, fate, worker>>
    BY <2>3, ToldStep DEF Grows, GoesOn
  <2> QED BY <2>1, <2>2, <2>3 DEF Next, GrantStep, ApproveGrant, EndGrant, vars, rows
<1> QED BY <1>1, <1>2, BaseInvariant, PTL DEF Spec

-----------------------------------------------------------------------------
(* What an action whose funds have left gives back in a step: nothing.     *)
Keeps(a) ==
    /\ fate[a] \in AtRisk /\ usage[a].state \in Held => usage'[a].state \in Held
    /\ fate[a] = "pending" /\ fate'[a] = "pending" =>
          /\ hold[a] = "reserved" => hold'[a] = "reserved"
          /\ \A x \in Wallet : lease[x] = a => lease'[x] = a

(* A mark that knows of the transaction.                                   *)
LEMMA MarkKeeps ==
    ASSUME TypeOK, NEW a \in Action, NEW s \in MarkTarget, NEW ref \in BOOLEAN,
           NEW moved \in BOOLEAN, Mark(a, s, ref, moved), Honest(a, s, moved),
           fate[a] \in AtRisk => row[a].submission
    PROVE  Keeps(a)
<1> SUFFICES ASSUME fate[a] \in AtRisk PROVE Keeps(a)
  BY DEF Keeps, AtRisk
<1> USE DEF Held
<1>1. CASE Sticky(a, s)
  BY <1>1 DEF Mark, rows, Keeps
<1>2. CASE ~Sticky(a, s)
  <2> DEFINE end == Marked(a, s, ref)
  <2>1. /\ end \in Ended => end = "confirmed"
        /\ end = "confirmed" => fate[a] = "landed"
    BY DEF Marked, Known, Honest, MarkTarget, Answers, Ended
  <2> HIDE DEF end
  <2>2. /\ usage' = [usage EXCEPT ![a].state =
               CASE @ = "reserved" /\ (end = "confirmed" \/ (end \in Ended /\ moved))
                                                       -> "consumed"
                 [] @ = "reserved" /\ end \in Ended /\ end # "confirmed" /\ ~moved
                                                       -> "released"
                 [] OTHER -> @]
        /\ hold' = [hold EXCEPT ![a] =
               CASE @ = "reserved" /\ (end = "confirmed" \/ (end \notin Ended /\ moved))
                                                       -> "consumed"
                 [] @ = "reserved" /\ end \in Ended /\ end # "confirmed" -> "released"
                 [] OTHER -> @]
        /\ lease' = [x \in Wallet |-> IF end \in Ended /\ lease[x] = a
                                      THEN NoAction ELSE lease[x]]
    BY <1>2 DEF Mark, Unlocked, end
  <2>3. usage[a].state \in Held => usage'[a].state \in Held
    BY <2>1, <2>2 DEF TypeOK, Usage
  <2>4. fate[a] = "pending" => end \notin Ended /\ ~moved
    BY <2>1 DEF Honest
  <2>5. fate[a] = "pending" => hold'[a] = hold[a] /\ \A x \in Wallet : lease'[x] = lease[x]
    BY <2>1, <2>2, <2>4 DEF TypeOK
  <2> QED BY <2>3, <2>5 DEF Keeps
<1> QED BY <1>1, <1>2

LEMMA MarksKeep ==
    ASSUME TypeOK, NEW a \in Action, MarksHonestly(a), NEW b \in Action,
           fate[b] \in AtRisk => row[b].submission
    PROVE  Keeps(b)
<1>1. CASE UNCHANGED rows
  BY <1>1 DEF rows, Keeps
<1>2. CASE ~UNCHANGED rows
  <2>1. PICK s \in MarkTarget, ref \in BOOLEAN, moved \in BOOLEAN :
           Mark(a, s, ref, moved) /\ Honest(a, s, moved)
    BY <1>2 DEF MarksHonestly
  <2>2. CASE a = b
    BY <2>1, <2>2, MarkKeeps
  <2>3. CASE a # b
    <3>1. usage'[b] = usage[b] /\ hold'[b] = hold[b]
      BY <2>1, <2>3, MarkElsewhere
    <3>2. \A x \in Wallet : lease[x] = b => lease'[x] = b
      BY <2>1, <2>3 DEF Mark, rows, Unlocked
    <3> QED BY <3>1, <3>2 DEF Keeps
  <2> QED BY <2>2, <2>3
<1> QED BY <1>1, <1>2

(* store.mark and store.reserve: what an action holds once its funds have  *)
(* left stays held until its end is known, for any validations, signers,   *)
(* errors, discards and reconciles, however late.                          *)
THEOREM FundsStayHeld == Spec => NothingGivenBack
<1>1. Base /\ Told /\ [Next]_vars => [\A a \in Action : Keeps(a)]_vars
  <2> SUFFICES ASSUME Base, Told, [Next]_vars, NEW a \in Action PROVE Keeps(a)
    OBVIOUS
  <2>0. TypeOK /\ FateTold(a)
    BY DEF Base, Told
  <2>1. ASSUME NEW w \in Worker, CallStep(w) PROVE Keeps(a)
    <3>1. CASE \/ DiscardMark(w) \/ MissingAllowance(w) \/ Drop(w) \/ Identify(w)
               \/ Answer(w) \/ Raise(w) \/ ReconcileMark(w)
      BY <2>0, <3>1, MarksAreHonest, MarksKeep DEF FateTold
    <3>2. CASE Reserve(w)
      <4>1. PICK b \in Action : b = worker[w].act
        BY <3>2 DEF Reserve, Working, Base, Named
      <4>2. /\ usage[b].state = "none" /\ LeaseFree(b)
            /\ \A c \in Action \ {b} : usage'[c] = usage[c] /\ hold'[c] = hold[c]
            /\ hold'[b] = "reserved"
            /\ lease' = [x \in Wallet |-> IF x = WalletOf[b] THEN b ELSE lease[x]]
        BY <2>0, <3>2, <4>1 DEF Reserve, TypeOK
      <4>3. fate[b] = "none"
        BY <4>2 DEF Base, Untouched
      <4>4. b # a => \A x \in Wallet : lease[x] = a => lease'[x] = a
        BY <4>2, FundsAssumption DEF LeaseFree, FundsAssumption
      <4> QED BY <4>2, <4>3, <4>4 DEF Keeps, AtRisk
    <3>3. UNCHANGED <<usage, hold, lease>> => Keeps(a)
      BY DEF Keeps
    <3>4. CASE \E b \in Action : DiscardRead(w, b) \/ ExecuteRead(w, b) \/ ReconcileRead(w, b)
      BY <3>3, <3>4 DEF DiscardRead, ExecuteRead, ReconcileRead, rows
    <3>5. CASE DiscardCancel(w) \/ NeedsApproval(w) \/ Ask(w) \/ LastFence(w) \/ Broadcast(w)
               \/ GiveUp(w)
      BY <3>3, <3>5 DEF DiscardCancel, NeedsApproval, Ask, LastFence, Broadcast, GiveUp, rows
    <3> QED BY ZenonT(60), <2>1, <3>1, <3>2, <3>4, <3>5 DEF CallStep
  <2>2. CASE UNCHANGED <<usage, hold, lease>>
    BY <2>2 DEF Keeps
  <2>3. ASSUME NEW b \in Action, ActionStep(b) PROVE UNCHANGED <<usage, hold, lease>>
    BY <2>3 DEF ActionStep, Prepare, Refresh, SweepSubmitting, ExpireQuote, Settle, Decide, rows
  <2>4. ASSUME NEW g \in Grant, GrantStep(g) PROVE UNCHANGED <<usage, hold, lease>>
    BY <2>4 DEF GrantStep, ApproveGrant, EndGrant, rows
  <2> QED BY <2>1, <2>2, <2>3, <2>4 DEF Next, vars, rows
<1>2. [\A a \in Action : Keeps(a)]_vars =>
      [\A a \in Action :
          /\ fate[a] \in AtRisk /\ usage[a].state \in Held
                => usage'[a].state \in Held
          /\ fate[a] = "pending" /\ fate'[a] = "pending" =>
                /\ hold[a] = "reserved" => hold'[a] = "reserved"
                /\ \A w \in Wallet : lease[w] = a => lease'[w] = a]_vars
  BY DEF Keeps
<1> QED BY <1>1, <1>2, ToldInvariant, PTL DEF Spec, NothingGivenBack
-----------------------------------------------------------------------------
(* Quotas. Only Reserve takes one, in the transaction that checks it, and  *)
(* what an action has taken keeps its quote and its grant.                 *)
Quoted ==
    /\ \A a \in Action : row[a].state # "none" => row[a].quote # 0
    /\ \A w \in Worker : worker[w].pc # "idle" => row[worker[w].act].quote # 0
    /\ \A a \in Action : usage[a].state # "none" => usage[a].quote \in Version

Kinds == {Allowance, Action \ Allowance}

TakenFits ==
    \A S \in Kinds :
        /\ \A g \in Grant : Worth(Quotes(Takers(S, {g}))) <= Total
        /\ Worth(Quotes(Takers(S, Grant))) <= Rolling

(* What every step but Reserve leaves of a quote, of a usage and of what a *)
(* call works on.                                                          *)
RowQuoted(b) ==
    /\ row[b].quote # 0 => row'[b].quote # 0
    /\ row'[b].state # "none" => row[b].quote # 0 \/ row'[b].quote # 0

UsageKept(b) ==
    /\ usage'[b].quote = usage[b].quote /\ usage'[b].grant = usage[b].grant
    /\ usage'[b].state = usage[b].state \/ usage[b].state = "reserved"

CallQuoted(w) ==
    worker'[w].pc # "idle" =>
        \/ worker[w].pc # "idle" /\ worker'[w].act = worker[w].act
        \/ worker'[w].act \in Action /\ row[worker'[w].act].state # "none"

TakesNothing ==
    /\ \A b \in Action : RowQuoted(b) /\ UsageKept(b)
    /\ \A w \in Worker : CallQuoted(w)

LEMMA MarkTakesNothing ==
    ASSUME TypeOK, Quoted, NEW a \in Action, NEW s, NEW ref, NEW moved,
           Mark(a, s, ref, moved), row[a].quote # 0
    PROVE  \A b \in Action : RowQuoted(b) /\ UsageKept(b)
<1> DEFINE end == Marked(a, s, ref)
<1>0. row \in [Action -> Row] /\ usage \in [Action -> Usage]
  BY DEF TypeOK
<1>1. CASE Sticky(a, s)
  BY <1>1 DEF Mark, rows, RowQuoted, UsageKept, Quoted
<1>2. CASE ~Sticky(a, s)
  <2>1. \E k : row' = [row EXCEPT ![a].state = end, ![a].submission = k]
    BY <1>2 DEF Mark
  <2>2. PICK u : usage' = [usage EXCEPT ![a].state = u]
                 /\ (u = usage[a].state \/ usage[a].state = "reserved")
    <3>1. usage' = [usage EXCEPT ![a].state =
                  CASE @ = "reserved" /\ (end = "confirmed" \/ (end \in Ended /\ moved))
                                                          -> "consumed"
                    [] @ = "reserved" /\ end \in Ended /\ end # "confirmed" /\ ~moved
                                                          -> "released"
                    [] OTHER -> @]
      BY <1>2 DEF Mark
    <3> QED BY <3>1
  <2> HIDE DEF end
  <2>3. \A b \in Action : row'[b].quote = row[b].quote
    BY <1>0, <2>1 DEF Row
  <2>4. \A b \in Action : b # a => row'[b] = row[b] /\ usage'[b] = usage[b]
    BY <1>0, <2>1, <2>2
  <2>5. usage'[a] = [usage[a] EXCEPT !.state = u]
    BY <1>0, <2>2
  <2>6. UsageKept(a)
    BY <1>0, <2>2, <2>5 DEF UsageKept, Usage
  <2> QED BY <2>3, <2>4, <2>6 DEF RowQuoted, UsageKept, Quoted
<1> QED BY <1>1, <1>2

(* The quotes of the rows of a typed state may not be named by an idle     *)
(* call.                                                                   *)
LEMMA CallTakesNothing ==
    ASSUME Base, Quoted, NEW w \in Worker, CallStep(w), ~Reserve(w)
    PROVE  TakesNothing
<1>0. /\ TypeOK /\ row \in [Action -> Row] /\ worker \in [Worker -> Call]
      /\ worker[w].pc # "idle" => worker[w].act \in Action /\ row[worker[w].act].quote # 0
  BY DEF Base, TypeOK, Named, Quoted
<1>1. \A v \in Worker : CallQuoted(v)
  <2>1. ASSUME NEW c, worker' = [worker EXCEPT ![w] = c],
               \/ c.pc = "idle"
               \/ worker[w].pc # "idle" /\ c.act = worker[w].act
               \/ c.act \in Action /\ row[c.act].state # "none"
        PROVE  \A v \in Worker : CallQuoted(v)
    BY <1>0, <2>1 DEF CallQuoted
  <2>2. ASSUME Finish(w) PROVE \A v \in Worker : CallQuoted(v)
    BY <2>1, <2>2 DEF Finish, Idle
  <2>3. ASSUME NEW pc, At(w, pc), worker[w].pc # "idle"
        PROVE  \A v \in Worker : CallQuoted(v)
    <3>1. worker' = [worker EXCEPT ![w] = [worker[w] EXCEPT !.pc = pc]]
      BY <1>0, <2>3 DEF At
    <3>2. [worker[w] EXCEPT !.pc = pc].act = worker[w].act
      BY <1>0 DEF Call
    <3> QED BY <2>1, <2>3, <3>1, <3>2
  <2>4. ASSUME NEW a \in Action, DiscardRead(w, a) \/ ExecuteRead(w, a) \/ ReconcileRead(w, a)
        PROVE  \A v \in Worker : CallQuoted(v)
    <3>1. row[a].state # "none"
      BY <2>4 DEF DiscardRead, ExecuteRead, ReconcileRead, Open, Uncertain
    <3>2. \E c : worker' = [worker EXCEPT ![w] = c] /\ c.act = a
      <4>0. Idle \in Call
        BY IdleType
      <4>1. CASE DiscardRead(w, a)
        <5> DEFINE c == [Idle EXCEPT !.pc = "discard", !.act = a, !.approval = row[a].approval,
                                     !.seen = row[a].state]
        <5>1. worker' = [worker EXCEPT ![w] = c]
          BY <4>1 DEF DiscardRead
        <5>2. c.act = a
          BY <4>0 DEF Call
        <5> QED BY <5>1, <5>2
      <4>2. CASE ExecuteRead(w, a)
        <5> DEFINE c == [Idle EXCEPT !.pc = "check", !.act = a, !.quote = row[a].quote,
                                     !.approval = row[a].approval]
        <5>1. worker' = [worker EXCEPT ![w] = c]
          BY <4>2 DEF ExecuteRead
        <5>2. c.act = a
          BY <4>0 DEF Call
        <5> QED BY <5>1, <5>2
      <4>3. CASE ReconcileRead(w, a)
        <5>1. PICK moved, seen : worker' = [worker EXCEPT ![w] =
                  [Idle EXCEPT !.pc = "reconciling", !.act = a, !.moved = moved, !.seen = seen]]
          BY <4>3 DEF ReconcileRead
        <5> DEFINE c == [Idle EXCEPT !.pc = "reconciling", !.act = a, !.moved = moved,
                                     !.seen = seen]
        <5>2. c.act = a
          BY <4>0 DEF Call
        <5> QED BY <5>1, <5>2
      <4> QED BY <2>4, <4>1, <4>2, <4>3
    <3> QED BY <2>1, <3>1, <3>2
  <2>5. ASSUME \/ DiscardMark(w) \/ MissingAllowance(w) \/ Ask(w) \/ Drop(w) \/ Answer(w)
               \/ Raise(w) \/ ReconcileMark(w) \/ GiveUp(w)
        PROVE  \A v \in Worker : CallQuoted(v)
    BY <2>2, <2>5 DEF DiscardMark, MissingAllowance, Ask, Drop, Answer, Raise, ReconcileMark,
                      GiveUp
  <2>6. ASSUME DiscardCancel(w) \/ NeedsApproval(w) \/ LastFence(w) \/ Identify(w) \/ Broadcast(w)
        PROVE  \A v \in Worker : CallQuoted(v)
    BY <2>3, <2>6 DEF DiscardCancel, NeedsApproval, LastFence, Identify, Broadcast, Working
  <2> QED BY <2>4, <2>5, <2>6 DEF CallStep
<1>2. \A b \in Action : RowQuoted(b) /\ UsageKept(b)
  <2> DEFINE a == worker[w].act
  <2>1. ASSUME NEW s, NEW ref, NEW moved, Mark(a, s, ref, moved), worker[w].pc # "idle"
        PROVE  \A b \in Action : RowQuoted(b) /\ UsageKept(b)
    BY <1>0, <2>1, MarkTakesNothing
  <2>2. ASSUME UNCHANGED <<row, usage>>
        PROVE  \A b \in Action : RowQuoted(b) /\ UsageKept(b)
    BY <2>2 DEF Quoted, RowQuoted, UsageKept
  <2>3. ASSUME DiscardMark(w) \/ MissingAllowance(w) \/ Drop(w) \/ Identify(w) \/ Answer(w)
               \/ Raise(w) \/ ReconcileMark(w)
        PROVE  \A b \in Action : RowQuoted(b) /\ UsageKept(b)
    <3>1. worker[w].pc # "idle"
      BY <2>3 DEF DiscardMark, MissingAllowance, Drop, Identify, Answer, Raise, ReconcileMark,
                  Working
    <3>2. UNCHANGED <<row, usage>> \/ \E s, ref, moved : Mark(a, s, ref, moved)
      BY <2>3 DEF DiscardMark, MissingAllowance, Drop, Identify, Answer, Raise, ReconcileMark,
                  rows
    <3> QED BY <2>1, <2>2, <3>1, <3>2
  <2>4. ASSUME Ask(w) \/ LastFence(w)
        PROVE  \A b \in Action : RowQuoted(b) /\ UsageKept(b)
    <3>1. usage' = usage /\ worker[w].pc # "idle"
      BY <2>4 DEF Ask, LastFence, Working
    <3>2. \A b \in Action : row'[b].quote = row[b].quote
      BY <1>0, <2>4 DEF Ask, LastFence, Row
    <3>3. \A b \in Action : row'[b].state # "none" => row[b].quote # 0
      BY <1>0, <2>4, <3>1 DEF Ask, LastFence, Quoted
    <3> QED BY <3>1, <3>2, <3>3 DEF RowQuoted, UsageKept
  <2>5. ASSUME \/ \E b \in Action : DiscardRead(w, b) \/ ExecuteRead(w, b) \/ ReconcileRead(w, b)
               \/ DiscardCancel(w) \/ NeedsApproval(w) \/ Broadcast(w) \/ GiveUp(w)
        PROVE  UNCHANGED <<row, usage>>
    BY <2>5 DEF DiscardRead, ExecuteRead, ReconcileRead, DiscardCancel, NeedsApproval, Broadcast,
                GiveUp, rows
  <2> QED BY <2>2, <2>3, <2>4, <2>5 DEF CallStep
<1> QED BY <1>1, <1>2 DEF TakesNothing

LEMMA OthersTakeNothing ==
    ASSUME Base, Quoted,
           \/ \E a \in Action : ActionStep(a)
           \/ \E g \in Grant : GrantStep(g)
           \/ UNCHANGED vars
    PROVE  TakesNothing
<1>0. row \in [Action -> Row]
  BY DEF Base, TypeOK
<1>1. worker' = worker /\ usage' = usage
  BY DEF ActionStep, Prepare, Refresh, SweepSubmitting, ExpireQuote, Settle, Decide, GrantStep,
         ApproveGrant, EndGrant, vars, rows
<1>2. \A b \in Action : RowQuoted(b)
  <2>1. CASE row' = row
    BY <2>1 DEF RowQuoted, Quoted
  <2>2. ASSUME NEW a \in Action, Prepare(a) \/ Refresh(a) \/ SweepSubmitting(a)
        PROVE  \A b \in Action : RowQuoted(b)
    <3>1. \A b \in Action : b # a => row'[b] = row[b]
      BY <1>0, <2>2 DEF Prepare, Refresh, SweepSubmitting
    <3>2. row[a] \in Row /\ row[a].quote \in Nat
      BY <1>0, FundsAssumption DEF Row, FundsAssumption
    <3>3. row'[a].quote # 0
      <4>1. CASE Prepare(a)
        BY <1>0, <3>2, <4>1 DEF Prepare, Row
      <4>2. CASE Refresh(a)
        BY <1>0, <3>2, <4>2 DEF Refresh, Row
      <4>3. CASE SweepSubmitting(a)
        BY <1>0, <3>2, <4>3 DEF SweepSubmitting, Row, Quoted
      <4> QED BY <2>2, <4>1, <4>2, <4>3
    <3> QED BY <3>1, <3>3 DEF RowQuoted, Quoted
  <2>3. \/ row' = row
        \/ \E a \in Action : Prepare(a) \/ Refresh(a) \/ SweepSubmitting(a)
    BY DEF ActionStep, ExpireQuote, Settle, Decide, GrantStep, ApproveGrant, EndGrant, vars, rows
  <2> QED BY <2>1, <2>2, <2>3
<1>3. \A b \in Action : UsageKept(b)
  BY <1>1 DEF UsageKept
<1>4. \A w \in Worker : CallQuoted(w)
  BY <1>1 DEF CallQuoted
<1> QED BY <1>2, <1>3, <1>4 DEF TakesNothing

LEMMA QuietQuoted ==
    ASSUME Base, Base', Quoted, TakesNothing
    PROVE  Quoted'
<1>1. \A w \in Worker : worker'[w].pc # "idle" => worker'[w].act \in Action
  BY DEF Base, Named
<1> QED BY <1>1 DEF Quoted, TakesNothing, RowQuoted, UsageKept, CallQuoted, Base, Named

(* Fewer takers have taken no more.                                        *)
LEMMA FewerTakers ==
    ASSUME Quoted, NEW S \in SUBSET Action, NEW G, TakesNothing
    PROVE  /\ Worth(Quotes(Takers(S, G))') <= Worth(Quotes(Takers(S, G)))
           /\ Worth(Quotes(Takers(S, G))') \in Nat /\ Worth(Quotes(Takers(S, G))) \in Nat
<1> DEFINE Q == Quotes(Takers(S, G))
<1>1. Q' \subseteq Q
  BY DEF Quotes, Takers, TakesNothing, UsageKept, Held
<1>2. Q \in SUBSET (Action \X Version)
  BY DEF Quotes, Takers, Quoted, Held
<1> HIDE DEF Q
<1>3. Worth(Q') <= Worth(Q) /\ Worth(Q') \in Nat /\ Worth(Q) \in Nat
  <2> DEFINE R == Q'
  <2> HIDE DEF R
  <2>1. R \in SUBSET Q /\ R \in SUBSET (Action \X Version)
    BY <1>1, <1>2 DEF R
  <2>2. Worth(R) <= Worth(Q) /\ Worth(R) \in Nat /\ Worth(Q) \in Nat
    BY <1>2, <2>1, WorthAssumption DEF WorthAssumption
  <2> QED BY <2>2 DEF R
<1> QED BY <1>3 DEF Q

(* Reserve adds the quote it has checked to those of its kind.             *)
LEMMA ReserveTakes ==
    ASSUME Base, Quoted, NEW w \in Worker, Reserve(w), NEW S \in Kinds, NEW G \in SUBSET Grant
    PROVE  LET a == worker[w].act
               old == Worth(Quotes(Takers(S, G)))
               new == Worth(Quotes(Takers(S, G))')
           IN  /\ Quoted'
               /\ old \in Nat
               /\ \/ new = old
                  \/ /\ S = Kind(a) /\ Candidates(a) # {} /\ Newest(a) \in G
                     /\ Value[a, row[a].quote] \in Nat
                     /\ new = old + Value[a, row[a].quote]
<1> DEFINE a == worker[w].act
           q == row[a].quote
           g == IF Candidates(a) # {} THEN Newest(a) ELSE 0
           Q == Quotes(Takers(S, G))
<1>0. /\ row \in [Action -> Row] /\ usage \in [Action -> Usage] /\ worker \in [Worker -> Call]
      /\ a \in Action /\ q # 0 /\ worker[w].pc = "check"
      /\ usage[a].state = "none"
  BY DEF Base, TypeOK, Named, Quoted, Reserve, Working
<1>1. q \in Version
  BY <1>0, FundsAssumption DEF Row, Version, FundsAssumption
<1>2. /\ usage' = [usage EXCEPT ![a] = [state |-> "reserved", grant |-> g, quote |-> q]]
      /\ row' = [row EXCEPT ![a].state = "reserved", ![a].grant = g]
      /\ worker' = [worker EXCEPT ![w].pc = "fence"]
  BY DEF Reserve, At
<1>3. /\ usage'[a].state = "reserved" /\ usage'[a].grant = g /\ usage'[a].quote = q
      /\ \A b \in Action : b # a => usage'[b] = usage[b]
  BY <1>0, <1>2
<1>4. Quoted'
  <2>1. \A b \in Action : row'[b].quote = row[b].quote /\ (b # a => row'[b] = row[b])
    BY <1>0, <1>2 DEF Row
  <2>2. \A v \in Worker : worker'[v].act = worker[v].act /\ (v # w => worker'[v] = worker[v])
    BY <1>0, <1>2 DEF Call
  <2>3. \A v \in Worker : worker'[v].pc # "idle" => row'[worker'[v].act].quote # 0
    BY <1>0, <2>1, <2>2 DEF Quoted, Base, Named
  <2>4. \A b \in Action : row'[b].state # "none" => row'[b].quote # 0
    BY <1>0, <2>1 DEF Quoted
  <2>5. \A b \in Action : usage'[b].state # "none" => usage'[b].quote \in Version
    BY <1>1, <1>3 DEF Quoted
  <2> QED BY <2>3, <2>4, <2>5 DEF Quoted
<1>5. S \in SUBSET Action
  BY FundsAssumption DEF Kinds, FundsAssumption
<1>6. Q \in SUBSET (Action \X Version) /\ <<a, q>> \notin Q
  BY <1>0, <1>5 DEF Quotes, Takers, Quoted, Held
<1>7. Worth(Q) \in Nat /\ \A x \in (Action \X Version) \ Q : Worth(Q \union {x}) = Worth(Q) + Value[x]
  BY <1>6, WorthAssumption DEF WorthAssumption
<1>8. CASE a \notin S \/ g \notin G
  <2>1. Takers(S, G)' = Takers(S, G)
    BY <1>0, <1>3, <1>5, <1>8 DEF Takers, Held
  <2>2. Q' = Q
    BY <1>3, <1>0, <1>5, <2>1 DEF Quotes, Takers, Held
  <2> HIDE DEF Q
  <2>3. Worth(Q') = Worth(Q)
    BY <2>2
  <2> QED BY <1>4, <1>7, <2>3 DEF Q
<1>9. CASE a \in S /\ g \in G
  <2>1. S = Kind(a) /\ Candidates(a) # {} /\ Newest(a) = g
    <3>1. g # 0
      BY <1>9, FundsAssumption DEF FundsAssumption
    <3> QED BY <1>0, <1>9, <3>1, FundsAssumption DEF Kinds, Kind, FundsAssumption
  <2>2. Takers(S, G)' = Takers(S, G) \union {a}
    BY <1>0, <1>3, <1>5, <1>9 DEF Takers, Held
  <2>3. Q' = Q \union {<<a, q>>}
    BY <1>3, <1>0, <1>5, <2>2 DEF Quotes, Takers, Held
  <2>4. <<a, q>> \in (Action \X Version) \ Q /\ Value[a, q] \in Nat
    BY <1>0, <1>1, <1>6, FundsAssumption DEF FundsAssumption
  <2> HIDE DEF Q
  <2>5. Worth(Q') = Worth(Q) + Value[<<a, q>>]
    BY <1>7, <2>3, <2>4
  <2> QED BY <1>4, <1>7, <1>9, <2>1, <2>4, <2>5 DEF Q
<1> QED BY <1>8, <1>9

LEMMA ReserveFits ==
    ASSUME Base, Quoted, TakenFits, NEW w \in Worker, Reserve(w)
    PROVE  Quoted' /\ TakenFits'
<1> DEFINE a == worker[w].act
<1>1. Quoted'
  BY ReserveTakes DEF Kinds
<1>2. Candidates(a) # {} =>
         /\ Newest(a) \in Grant
         /\ Worth(Quotes(Takers(Kind(a), {Newest(a)}))) + Value[a, row[a].quote] <= Total
         /\ Worth(Quotes(Takers(Kind(a), Grant))) + Value[a, row[a].quote] <= Rolling
  <2> SUFFICES ASSUME Candidates(a) # {}
               PROVE  Newest(a) \in Grant /\ WithinLimits(a, Newest(a))
    BY DEF WithinLimits, Taken
  <2>1. Newest(a) \in Candidates(a) /\ Candidates(a) \subseteq Grant
    BY GrantAssumption DEF Newest, Candidates, GrantAssumption
  <2>2. Newest(a) # 0
    BY <2>1, FundsAssumption DEF FundsAssumption
  <2> QED BY <2>1, <2>2 DEF Reserve
<1>3. ASSUME NEW S \in Kinds
      PROVE  /\ \A g \in Grant : Worth(Quotes(Takers(S, {g}))') <= Total
             /\ Worth(Quotes(Takers(S, Grant))') <= Rolling
  <2>1. ASSUME NEW g \in Grant PROVE Worth(Quotes(Takers(S, {g}))') <= Total
    <3> DEFINE old == Worth(Quotes(Takers(S, {g})))
               new == Worth(Quotes(Takers(S, {g}))')
    <3>1. /\ old \in Nat
          /\ \/ new = old
             \/ /\ S = Kind(a) /\ Candidates(a) # {} /\ Newest(a) = g
                /\ Value[a, row[a].quote] \in Nat
                /\ new = old + Value[a, row[a].quote]
      BY ReserveTakes
    <3>2. old <= Total
      BY DEF TakenFits
    <3>3. S = Kind(a) /\ Candidates(a) # {} /\ Newest(a) = g
             => old + Value[a, row[a].quote] <= Total
      BY <1>2
    <3> HIDE DEF old, new
    <3>4. new <= Total
      BY <3>1, <3>2, <3>3
    <3> QED BY <3>4 DEF new
  <2>2. Worth(Quotes(Takers(S, Grant))') <= Rolling
    <3> DEFINE old == Worth(Quotes(Takers(S, Grant)))
               new == Worth(Quotes(Takers(S, Grant))')
    <3>1. /\ old \in Nat
          /\ \/ new = old
             \/ /\ S = Kind(a) /\ Candidates(a) # {}
                /\ new = old + Value[a, row[a].quote]
      BY ReserveTakes
    <3>2. old <= Rolling
      BY DEF TakenFits
    <3>3. S = Kind(a) /\ Candidates(a) # {} => old + Value[a, row[a].quote] <= Rolling
      BY <1>2
    <3> HIDE DEF old, new
    <3>4. new <= Rolling
      BY <3>1, <3>2, <3>3
    <3> QED BY <3>4 DEF new
  <2> QED BY <2>1, <2>2
<1>4. TakenFits'
  BY <1>3 DEF TakenFits, Quotes, Takers
<1> QED BY <1>1, <1>4

LEMMA QuietFits ==
    ASSUME Base, Base', Quoted, TakenFits, TakesNothing
    PROVE  Quoted' /\ TakenFits'
<1>1. Quoted'
  BY QuietQuoted
<1>2. \A S \in Kinds : S \in SUBSET Action
  BY FundsAssumption DEF Kinds, FundsAssumption
<1>3. ASSUME NEW S \in Kinds
      PROVE  /\ \A g \in Grant : Worth(Quotes(Takers(S, {g}))') <= Total
             /\ Worth(Quotes(Takers(S, Grant))') <= Rolling
  <2>1. ASSUME NEW G, NEW limit \in Nat, Worth(Quotes(Takers(S, G))) <= limit
        PROVE  Worth(Quotes(Takers(S, G))') <= limit
    <3> DEFINE old == Worth(Quotes(Takers(S, G)))
               new == Worth(Quotes(Takers(S, G))')
    <3>1. new <= old /\ new \in Nat /\ old \in Nat
      BY <1>2, FewerTakers
    <3>2. old <= limit
      BY <2>1
    <3> HIDE DEF old, new
    <3>3. new <= limit
      BY <3>1, <3>2
    <3> QED BY <3>3 DEF new
  <2>2. Total \in Nat /\ Rolling \in Nat
    BY FundsAssumption DEF FundsAssumption
  <2> QED BY <2>1, <2>2 DEF TakenFits
<1>4. TakenFits'
  BY <1>3 DEF TakenFits, Quotes, Takers
<1> QED BY <1>1, <1>4

(* What is taken fits the limits of its grant and of its family.           *)
LEMMA QuotaTaken == Spec => [](Quoted /\ TakenFits)
<1>1. Init => Quoted /\ TakenFits
  <2> SUFFICES ASSUME Init PROVE Quoted /\ TakenFits
    OBVIOUS
  <2>1. Quoted
    BY DEF Init, Idle, Quoted
  <2>2. ASSUME NEW S \in Kinds, NEW G PROVE Worth(Quotes(Takers(S, G))) = 0
    <3>1. S \in SUBSET Action
      BY FundsAssumption DEF Kinds, FundsAssumption
    <3>2. Quotes(Takers(S, G)) = {}
      BY <3>1 DEF Init, Quotes, Takers, Held
    <3> QED BY <3>2, WorthAssumption DEF WorthAssumption
  <2>3. TakenFits
    BY <2>2, FundsAssumption DEF TakenFits, FundsAssumption
  <2> QED BY <2>1, <2>3
<1>2. Base /\ Base' /\ Quoted /\ TakenFits /\ [Next]_vars => Quoted' /\ TakenFits'
  <2> SUFFICES ASSUME Base, Base', Quoted, TakenFits, [Next]_vars PROVE Quoted' /\ TakenFits'
    OBVIOUS
  <2>1. ASSUME NEW w \in Worker, CallStep(w) PROVE Quoted' /\ TakenFits'
    <3>1. CASE Reserve(w)
      BY <3>1, ReserveFits
    <3>2. CASE ~Reserve(w)
      BY <2>1, <3>2, CallTakesNothing, QuietFits
    <3> QED BY <3>1, <3>2
  <2>2. CASE \/ \E a \in Action : ActionStep(a)
             \/ \E g \in Grant : GrantStep(g)
             \/ UNCHANGED vars
    BY <2>2, OthersTakeNothing, QuietFits
  <2> QED BY <2>1, <2>2 DEF Next
<1> QED BY <1>1, <1>2, BaseInvariant, PTL DEF Spec

(* store.reserve: what the actions hold never exceeds a limit, whatever    *)
(* calls, new quotes and new grants do.                                    *)
THEOREM QuotaKept == Spec => []WithinQuota
<1>1. ASSUME NEW S \in Kinds, NEW G PROVE Committed(S, G) = Worth(Quotes(Takers(S, G)))
  BY DEF Committed, Takers, Held
<1>2. TakenFits => WithinQuota
  BY <1>1 DEF TakenFits, WithinQuota, Kinds
<1> QED BY <1>2, QuotaTaken, PTL
=============================================================================
