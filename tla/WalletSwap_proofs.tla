------------------------- MODULE WalletSwap_proofs --------------------------
(***************************************************************************)
(* Proofs about the approved swaps. Papers follows an approval from its    *)
(* card to its row and gives a swap one call that carries it (Claimed);    *)
(* Locked keeps the calls of a chain apart. On the two rest Sending, what  *)
(* the network and the state file can be while a call is at each place,    *)
(* and Bookkeeping, the same for the position.                             *)
(***************************************************************************)
EXTENDS WalletSwap, TLAPS

Named ==
    \A w \in Worker :
        /\ worker[w].pc # "idle" => worker[w].swap \in Swap
        /\ worker[w].pc \in Deciding => worker[w].verdict # "none"

(* A request that nobody has decided yet.                                  *)
Open(s) ==
    /\ approval[s] = "pending" /\ filed[s] = "none"
    /\ \A w \in Worker : worker[w].swap = s => worker[w].pc \notin {"filing", "decided"}

OneMover ==
    \A w, v \in Worker :
        worker[w].pc \in Deciding /\ worker[v].pc \in Deciding => w = v

OnePlace ==
    \A w, v \in Worker :
        /\ worker[w].swap = worker[v].swap
        /\ \/ worker[w].pc = "asked" /\ worker[v].pc = "asked"
           \/ worker[w].pc \in {"filing", "decided"} /\ worker[v].pc \in {"filing", "decided"}
        => w = v

Cards ==
    /\ \A s \in shown : Open(s)
    /\ \A w \in Worker : worker[w].seen # {} => worker[w].pc = "deciding"
    /\ \A w \in Worker : \A s \in worker[w].seen : Open(s)
    /\ \A w \in Worker : worker[w].pc = "asked" =>
          /\ Open(worker[w].swap)
          /\ worker[w].swap \notin shown
          /\ \A v \in Worker : worker[w].swap \notin worker[v].seen
    /\ \A w \in Worker : worker[w].pc = "deciding" => worker[w].swap \in worker[w].seen

Rows ==
    /\ \A w \in Worker :
          /\ worker[w].pc \in {"filing", "decided"} =>
                approval[worker[w].swap] = "pending" /\ worker[w].swap \notin shown
          /\ worker[w].pc = "filing" => filed[worker[w].swap] = "none"
          /\ worker[w].pc = "decided" => filed[worker[w].swap] # "none"
          /\ worker[w].pc = "dispatch" => filed[worker[w].swap] = "approved"
    /\ \A s \in Swap :
          /\ approval[s] \in {"approved", "resuming", "resumed"} => filed[s] = "approved"
          /\ approval[s] = "none" => filed[s] = "none"

Papers == OneMover /\ OnePlace /\ Cards /\ Rows

-----------------------------------------------------------------------------
Carries(w, s) ==
    /\ worker[w].swap = s /\ ~worker[w].again
    /\ worker[w].pc \in InProvider \union Booking \union {"claimed", "quoting", "finish"}

Claimed ==
    /\ \A w \in Worker, s \in Swap : Carries(w, s) => approval[s] = "resuming"
    /\ \A w, v \in Worker, s \in Swap : Carries(w, s) /\ Carries(v, s) => w = v
    /\ \A w \in Worker : worker[w].again => worker[w].pc \in Booking \union {"asking"}
    /\ \A w \in Worker : worker[w].pc = "asking" => worker[w].again

Locked ==
    \A w, v \in Worker :
        /\ worker[w].pc \in Holding /\ worker[v].pc \in Holding
        /\ ChainOf[worker[w].swap] = ChainOf[worker[v].swap]
        => w = v

Unsent(s) == sent[s] = 0 /\ fate[s] = "none"

(* Where a call is tells what the file and the network can be.             *)
Place(w) ==
    LET s == worker[w].swap
        pc == worker[w].pc
    IN /\ pc \in {"claimed", "quoting"} => exec[s].status = "none" /\ Unsent(s)
       /\ pc \in {"claimed", "quoting", "submitting"} => ~exec[s].known
       /\ pc = "submitting" => exec[s].status = "submitting" /\ Unsent(s)
       /\ pc = "signed" => exec[s].status = "submitted" /\ exec[s].known /\ Unsent(s)
       /\ pc = "sent" => /\ fate[s] # "none"
                         /\ exec[s].status = IF exec[s].known THEN "submitted" ELSE "submitting"
       /\ pc = "asking" => exec[s].status = "submitted"
       /\ pc \in Booking => fate[s] = "landed" /\ exec[s].status \in {"submitted", "confirmed"}

Alone(w) ==
    worker[w].pc \in {"quoting", "submitting", "signed"} =>
        \A t \in Swap : /\ ChainOf[t] = ChainOf[worker[w].swap] /\ t # worker[w].swap
                        => exec[t].status \notin Unresolved

Sending ==
    /\ \A w \in Worker : Place(w) /\ Alone(w)
    /\ \A s \in Swap :
          /\ approval[s] \notin {"resuming", "resumed"} =>
                exec[s].status = "none" /\ ~exec[s].known /\ Unsent(s)
          /\ sent[s] = 0 <=> fate[s] = "none"
          /\ sent[s] <= 1

-----------------------------------------------------------------------------
HalfWay == {"rolling", "sharing", "noting"}

Quiet(s) == \A w \in Worker : worker[w].swap = s => worker[w].pc \notin HalfWay

Whole(s) ==
    /\ book[s].fill = book[s].rolled
    /\ ~book[s].rolled => ~book[s].event
    /\ book[s].size = IF book[s].event THEN 1 ELSE 0

Half(w) ==
    LET s == worker[w].swap
        b == book[s]
    IN /\ worker[w].pc = "rolling" => b.fill /\ ~b.rolled /\ ~b.event /\ b.size = 0
       /\ worker[w].pc \in {"sharing", "noting"} => b.fill /\ b.rolled
       /\ worker[w].pc = "sharing" => b.event /\ b.size = 0
       /\ worker[w].pc = "noting" => ~b.event /\ b.size = 1
       /\ worker[w].pc \in HalfWay => ~exec[s].booked
       /\ worker[w].pc = "applying" => b.rolled

Bookkeeping ==
    /\ \A s \in Swap \ torn : Quiet(s) => Whole(s)
    /\ \A s \in Swap \ torn : exec[s].booked => book[s].rolled /\ book[s].event /\ book[s].size = 1
    /\ \A w \in Worker : worker[w].swap \notin torn => Half(w)

Core == TypeOK /\ Named /\ Papers /\ Claimed /\ Locked
Truth == Sending /\ VerdictIsTrue
IInv == Core /\ Truth /\ OneOnItsWay /\ Bookkeeping

-----------------------------------------------------------------------------
(* How a step moves a call.                                                *)
Only(w) == \A v \in Worker : v # w => worker'[v] = worker[v]

LEMMA Goes ==
    ASSUME TypeOK, Named, NEW w \in Worker, NEW pc \in Pcs \ Deciding,
           worker[w].pc # "idle", Goto(w, pc)
    PROVE  /\ worker' \in [Worker -> Call] /\ Named' /\ Only(w)
           /\ worker'[w].pc = pc
           /\ worker'[w].swap = worker[w].swap
           /\ worker'[w].again = worker[w].again
           /\ worker'[w].seen = worker[w].seen
           /\ worker[w].swap \in Swap
<1> DEFINE c == [worker[w] EXCEPT !.pc = pc]
<1>1. worker[w] \in Call
  BY DEF TypeOK
<1>2. c \in Call
  BY <1>1 DEF Call
<1>3. worker' = [worker EXCEPT ![w] = c]
  BY DEF Goto
<1>4. worker'[w] = c /\ Only(w)
  BY <1>3 DEF TypeOK, Only
<1>5. /\ c.pc = pc /\ c.swap = worker[w].swap /\ c.again = worker[w].again
      /\ c.seen = worker[w].seen
  BY <1>1 DEF Call
<1>6. worker' \in [Worker -> Call]
  BY <1>2, <1>3 DEF TypeOK
<1> QED BY <1>4, <1>5, <1>6 DEF Named, Only

LEMMA Returns ==
    ASSUME TypeOK, Named, NEW w \in Worker, Return(w)
    PROVE  /\ worker' \in [Worker -> Call] /\ Named' /\ Only(w)
           /\ worker'[w] = Idle /\ worker'[w].pc = "idle" /\ ~worker'[w].again
           /\ worker'[w].seen = {}
<1>1. Idle \in Call /\ Idle.pc = "idle" /\ Idle.again = FALSE /\ Idle.seen = {}
  BY DEF Idle, Call, Pcs
<1>2. worker'[w] = Idle /\ Only(w)
  BY DEF Return, TypeOK, Only
<1>3. worker' \in [Worker -> Call]
  BY <1>1 DEF Return, TypeOK
<1> QED BY <1>1, <1>2, <1>3 DEF Named, Only, Deciding

(* A call that begins or is replaced by another one.                       *)
LEMMA Becomes ==
    ASSUME TypeOK, Named, NEW w \in Worker, NEW c \in Call,
           worker' = [worker EXCEPT ![w] = c],
           c.swap \in Swap, c.pc \in Deciding => c.verdict # "none"
    PROVE  worker' \in [Worker -> Call] /\ Named' /\ Only(w) /\ worker'[w] = c
<1>1. worker'[w] = c /\ Only(w)
  BY DEF TypeOK, Only
<1>2. worker' \in [Worker -> Call]
  BY DEF TypeOK
<1> QED BY <1>1, <1>2 DEF Named, Only

-----------------------------------------------------------------------------
(* Types.                                                                  *)

LEMMA Places ==
    /\ {"idle", "asked", "decided", "dispatch", "claimed", "quoting", "finish", "submitting",
        "signed", "sent", "booking", "rolling", "applying", "sharing", "noting",
        "asking"} \subseteq Pcs \ Deciding
    /\ {"deciding", "filing"} \subseteq Pcs
BY DEF Pcs, Deciding, Holding, InProvider, Booking

LEMMA Writes ==
    ASSUME TypeOK, NEW s \in Swap, NEW st \in {"none", "confirmed", "failed"} \union Unresolved,
           NEW k \in BOOLEAN, NEW b \in BOOLEAN,
           exec' = [exec EXCEPT ![s] = [status |-> st, known |-> k, booked |-> b]]
    PROVE  /\ exec' \in [Swap -> Exec]
           /\ exec'[s].status = st /\ exec'[s].known = k /\ exec'[s].booked = b
           /\ \A t \in Swap : t # s => exec'[t] = exec[t]
<1>1. [status |-> st, known |-> k, booked |-> b] \in Exec
  BY DEF Exec
<1> QED BY <1>1 DEF TypeOK

LEMMA WritesStatus ==
    ASSUME TypeOK, NEW s \in Swap, NEW st \in {"none", "confirmed", "failed"} \union Unresolved,
           Write(s, st)
    PROVE  /\ exec' \in [Swap -> Exec]
           /\ exec'[s].status = st /\ exec'[s].known = exec[s].known
           /\ exec'[s].booked = exec[s].booked
           /\ \A t \in Swap : t # s => exec'[t] = exec[t]
<1>1. exec[s] \in Exec
  BY DEF TypeOK
<1>2. [exec[s] EXCEPT !.status = st] \in Exec
  BY <1>1 DEF Exec
<1>3. exec' = [exec EXCEPT ![s] = [exec[s] EXCEPT !.status = st]]
  BY DEF Write
<1>4. exec'[s] = [exec[s] EXCEPT !.status = st]
  BY <1>3 DEF TypeOK
<1> QED BY <1>1, <1>2, <1>3, <1>4 DEF TypeOK, Exec

LEMMA Booked1 ==
    ASSUME TypeOK, NEW s \in Swap, NEW b \in Book, book' = [book EXCEPT ![s] = b]
    PROVE  /\ book' \in [Swap -> Book] /\ book'[s] = b
           /\ \A t \in Swap : t # s => book'[t] = book[t]
BY DEF TypeOK

-----------------------------------------------------------------------------
(* The actions as turns of a call.                                         *)
Turn(w, pc) ==
    /\ TypeOK' /\ Named' /\ Only(w)
    /\ worker[w].swap \in Swap /\ worker[w].pc # "idle"
    /\ worker'[w].pc = pc
    /\ worker'[w].swap = worker[w].swap
    /\ worker'[w].again = worker[w].again
    /\ worker'[w].seen = worker[w].seen

Quits(w) ==
    /\ TypeOK' /\ Named' /\ Only(w)
    /\ worker'[w].pc = "idle" /\ ~worker'[w].again /\ worker'[w].seen = {}

Starts(w, s, pc, again) ==
    /\ TypeOK' /\ Named' /\ Only(w)
    /\ worker'[w].pc = pc /\ worker'[w].swap = s
    /\ worker'[w].again = again /\ worker'[w].seen = {}

LEMMA QuoteTurns ==
    ASSUME TypeOK, Named, NEW w \in Worker, Quote(w)
    PROVE  Turn(w, "quoting")
<1>1. worker[w].pc # "idle" /\ Goto(w, "quoting")
  BY DEF Quote, At, InProvider
<1>2. "quoting" \in Pcs \ Deciding
  BY Places
<1>3. /\ worker' \in [Worker -> Call] /\ Named' /\ Only(w)
      /\ worker'[w].pc = "quoting" /\ worker'[w].swap = worker[w].swap
      /\ worker'[w].again = worker[w].again /\ worker'[w].seen = worker[w].seen
      /\ worker[w].swap \in Swap
  BY <1>1, <1>2, Goes
<1> QED BY <1>1, <1>3 DEF Turn, Quote, TypeOK, papers, network

LEMMA RefuseTurns ==
    ASSUME TypeOK, Named, NEW w \in Worker, Refuse(w)
    PROVE  Turn(w, "finish")
<1>1. worker[w].pc # "idle" /\ Goto(w, "finish")
  BY DEF Refuse, At, InProvider
<1>2. "finish" \in Pcs \ Deciding
  BY Places
<1>3. /\ worker' \in [Worker -> Call] /\ Named' /\ Only(w)
      /\ worker'[w].pc = "finish" /\ worker'[w].swap = worker[w].swap
      /\ worker'[w].again = worker[w].again /\ worker'[w].seen = worker[w].seen
      /\ worker[w].swap \in Swap
  BY <1>1, <1>2, Goes
<1> QED BY <1>1, <1>3 DEF Turn, Refuse, TypeOK, papers, network

LEMMA BeginTurns ==
    ASSUME TypeOK, Named, NEW w \in Worker, Begin(w)
    PROVE  Turn(w, "submitting")
<1>1. worker[w].pc # "idle" /\ Goto(w, "submitting")
  BY DEF Begin, At, InProvider
<1>2. "submitting" \in Pcs \ Deciding
  BY Places
<1>3. /\ worker' \in [Worker -> Call] /\ Named' /\ Only(w)
      /\ worker'[w].pc = "submitting" /\ worker'[w].swap = worker[w].swap
      /\ worker'[w].again = worker[w].again /\ worker'[w].seen = worker[w].seen
      /\ worker[w].swap \in Swap
  BY <1>1, <1>2, Goes
<1>4. exec' \in [Swap -> Exec]
  BY <1>3, WritesStatus DEF Begin, Unresolved
<1> QED BY <1>1, <1>3, <1>4 DEF Turn, Begin, TypeOK, papers, network

LEMMA SendTurns ==
    ASSUME TypeOK, Named, NEW w \in Worker, Send(w)
    PROVE  Turn(w, "sent")
<1>1. worker[w].pc # "idle" /\ Goto(w, "sent")
  BY DEF Send, At, InProvider
<1>2. "sent" \in Pcs \ Deciding
  BY Places
<1>3. /\ worker' \in [Worker -> Call] /\ Named' /\ Only(w)
      /\ worker'[w].pc = "sent" /\ worker'[w].swap = worker[w].swap
      /\ worker'[w].again = worker[w].again /\ worker'[w].seen = worker[w].seen
      /\ worker[w].swap \in Swap
  BY <1>1, <1>2, Goes
<1>4. sent' \in [Swap -> Nat]
  BY <1>3 DEF Send, TypeOK
<1>5. fate' \in [Swap -> {"none", "pending"} \union Ends]
  BY <1>3 DEF Send, TypeOK
<1> QED BY <1>1, <1>3, <1>4, <1>5 DEF Turn, Send, TypeOK, papers, network

LEMMA AnswerConfirmedTurns ==
    ASSUME TypeOK, Named, NEW w \in Worker, AnswerConfirmed(w)
    PROVE  Turn(w, "booking")
<1>1. worker[w].pc # "idle" /\ Goto(w, "booking")
  BY DEF AnswerConfirmed, At, InProvider
<1>2. "booking" \in Pcs \ Deciding
  BY Places
<1>3. /\ worker' \in [Worker -> Call] /\ Named' /\ Only(w)
      /\ worker'[w].pc = "booking" /\ worker'[w].swap = worker[w].swap
      /\ worker'[w].again = worker[w].again /\ worker'[w].seen = worker[w].seen
      /\ worker[w].swap \in Swap
  BY <1>1, <1>2, Goes
<1>4. exec' \in [Swap -> Exec]
  BY <1>3, WritesStatus DEF AnswerConfirmed, Unresolved
<1> QED BY <1>1, <1>3, <1>4 DEF Turn, AnswerConfirmed, TypeOK, papers, network

LEMMA AnswerFailedTurns ==
    ASSUME TypeOK, Named, NEW w \in Worker, AnswerFailed(w)
    PROVE  Turn(w, "finish")
<1>1. worker[w].pc # "idle" /\ Goto(w, "finish")
  BY DEF AnswerFailed, At, InProvider
<1>2. "finish" \in Pcs \ Deciding
  BY Places
<1>3. /\ worker' \in [Worker -> Call] /\ Named' /\ Only(w)
      /\ worker'[w].pc = "finish" /\ worker'[w].swap = worker[w].swap
      /\ worker'[w].again = worker[w].again /\ worker'[w].seen = worker[w].seen
      /\ worker[w].swap \in Swap
  BY <1>1, <1>2, Goes
<1>4. exec' \in [Swap -> Exec]
  BY <1>3, WritesStatus DEF AnswerFailed, Unresolved
<1> QED BY <1>1, <1>3, <1>4 DEF Turn, AnswerFailed, TypeOK, papers, network

LEMMA AnswerOpenTurns ==
    ASSUME TypeOK, Named, NEW w \in Worker, AnswerOpen(w)
    PROVE  Turn(w, "finish")
<1>1. worker[w].pc # "idle" /\ Goto(w, "finish")
  BY DEF AnswerOpen, At, InProvider
<1>2. "finish" \in Pcs \ Deciding
  BY Places
<1>3. /\ worker' \in [Worker -> Call] /\ Named' /\ Only(w)
      /\ worker'[w].pc = "finish" /\ worker'[w].swap = worker[w].swap
      /\ worker'[w].again = worker[w].again /\ worker'[w].seen = worker[w].seen
      /\ worker[w].swap \in Swap
  BY <1>1, <1>2, Goes
<1>4. exec' \in [Swap -> Exec]
  BY <1>3, WritesStatus DEF AnswerOpen, Unresolved
<1> QED BY <1>1, <1>3, <1>4 DEF Turn, AnswerOpen, TypeOK, papers, network

LEMMA RaiseTurns ==
    ASSUME TypeOK, Named, NEW w \in Worker, Raise(w)
    PROVE  Turn(w, "finish")
<1>1. worker[w].pc # "idle" /\ Goto(w, "finish")
  BY DEF Raise, At, InProvider
<1>2. "finish" \in Pcs \ Deciding
  BY Places
<1>3. /\ worker' \in [Worker -> Call] /\ Named' /\ Only(w)
      /\ worker'[w].pc = "finish" /\ worker'[w].swap = worker[w].swap
      /\ worker'[w].again = worker[w].again /\ worker'[w].seen = worker[w].seen
      /\ worker[w].swap \in Swap
  BY <1>1, <1>2, Goes
<1>4. exec' \in [Swap -> Exec]
  <2>1. PICK st \in Raised(w, worker[w].swap) : Write(worker[w].swap, st)
    BY DEF Raise
  <2>2. st \in {"submitted", "failed", "unknown"}
    BY <2>1 DEF Raised
  <2> QED BY <1>3, <2>1, <2>2, WritesStatus DEF Unresolved
<1> QED BY <1>1, <1>3, <1>4 DEF Turn, Raise, TypeOK, papers, network

LEMMA BookFoundTurns ==
    ASSUME TypeOK, Named, NEW w \in Worker, BookFound(w)
    PROVE  Turn(w, "applying")
<1>1. worker[w].pc # "idle" /\ Goto(w, "applying")
  BY DEF BookFound, At, InProvider
<1>2. "applying" \in Pcs \ Deciding
  BY Places
<1>3. /\ worker' \in [Worker -> Call] /\ Named' /\ Only(w)
      /\ worker'[w].pc = "applying" /\ worker'[w].swap = worker[w].swap
      /\ worker'[w].again = worker[w].again /\ worker'[w].seen = worker[w].seen
      /\ worker[w].swap \in Swap
  BY <1>1, <1>2, Goes
<1> QED BY <1>1, <1>3 DEF Turn, BookFound, TypeOK, papers, network

LEMMA AskLandedTurns ==
    ASSUME TypeOK, Named, NEW w \in Worker, AskLanded(w)
    PROVE  Turn(w, "booking")
<1>1. worker[w].pc # "idle" /\ Goto(w, "booking")
  BY DEF AskLanded, At, InProvider
<1>2. "booking" \in Pcs \ Deciding
  BY Places
<1>3. /\ worker' \in [Worker -> Call] /\ Named' /\ Only(w)
      /\ worker'[w].pc = "booking" /\ worker'[w].swap = worker[w].swap
      /\ worker'[w].again = worker[w].again /\ worker'[w].seen = worker[w].seen
      /\ worker[w].swap \in Swap
  BY <1>1, <1>2, Goes
<1> QED BY <1>1, <1>3 DEF Turn, AskLanded, TypeOK, papers, network

LEMMA BookInsertTurns ==
    ASSUME TypeOK, Named, NEW w \in Worker, BookInsert(w)
    PROVE  Turn(w, "rolling")
<1>1. worker[w].pc # "idle" /\ Goto(w, "rolling")
  BY DEF BookInsert, At, InProvider
<1>2. "rolling" \in Pcs \ Deciding
  BY Places
<1>3. /\ worker' \in [Worker -> Call] /\ Named' /\ Only(w)
      /\ worker'[w].pc = "rolling" /\ worker'[w].swap = worker[w].swap
      /\ worker'[w].again = worker[w].again /\ worker'[w].seen = worker[w].seen
      /\ worker[w].swap \in Swap
  BY <1>1, <1>2, Goes
<1>4. book' \in [Swap -> Book]
  BY <1>3 DEF BookInsert, TypeOK, Book
<1> QED BY <1>1, <1>3, <1>4 DEF Turn, BookInsert, TypeOK, papers, network

LEMMA BookRollTurns ==
    ASSUME TypeOK, Named, NEW w \in Worker, BookRoll(w)
    PROVE  Turn(w, "applying")
<1>1. worker[w].pc # "idle" /\ Goto(w, "applying")
  BY DEF BookRoll, At, InProvider
<1>2. "applying" \in Pcs \ Deciding
  BY Places
<1>3. /\ worker' \in [Worker -> Call] /\ Named' /\ Only(w)
      /\ worker'[w].pc = "applying" /\ worker'[w].swap = worker[w].swap
      /\ worker'[w].again = worker[w].again /\ worker'[w].seen = worker[w].seen
      /\ worker[w].swap \in Swap
  BY <1>1, <1>2, Goes
<1>4. book' \in [Swap -> Book]
  BY <1>3 DEF BookRoll, TypeOK, Book
<1> QED BY <1>1, <1>3, <1>4 DEF Turn, BookRoll, TypeOK, papers, network

LEMMA BookOpenTurns ==
    ASSUME TypeOK, Named, NEW w \in Worker, BookOpen(w)
    PROVE  Turn(w, "sharing")
<1>1. worker[w].pc # "idle" /\ Goto(w, "sharing")
  BY DEF BookOpen, At, InProvider
<1>2. "sharing" \in Pcs \ Deciding
  BY Places
<1>3. /\ worker' \in [Worker -> Call] /\ Named' /\ Only(w)
      /\ worker'[w].pc = "sharing" /\ worker'[w].swap = worker[w].swap
      /\ worker'[w].again = worker[w].again /\ worker'[w].seen = worker[w].seen
      /\ worker[w].swap \in Swap
  BY <1>1, <1>2, Goes
<1>4. book' \in [Swap -> Book]
  BY <1>3 DEF BookOpen, TypeOK, Book
<1> QED BY <1>1, <1>3, <1>4 DEF Turn, BookOpen, TypeOK, papers, network

LEMMA BookNoteTurns ==
    ASSUME TypeOK, Named, NEW w \in Worker, BookNote(w)
    PROVE  Turn(w, "applying")
<1>1. worker[w].pc # "idle" /\ Goto(w, "applying")
  BY DEF BookNote, At, InProvider
<1>2. "applying" \in Pcs \ Deciding
  BY Places
<1>3. /\ worker' \in [Worker -> Call] /\ Named' /\ Only(w)
      /\ worker'[w].pc = "applying" /\ worker'[w].swap = worker[w].swap
      /\ worker'[w].again = worker[w].again /\ worker'[w].seen = worker[w].seen
      /\ worker[w].swap \in Swap
  BY <1>1, <1>2, Goes
<1>4. book' \in [Swap -> Book]
  BY <1>3 DEF BookNote, TypeOK, Book
<1> QED BY <1>1, <1>3, <1>4 DEF Turn, BookNote, TypeOK, papers, network

LEMMA BookShareTurns ==
    ASSUME TypeOK, Named, NEW w \in Worker, BookShare(w)
    PROVE  \/ worker[w].pc = "applying" /\ Applies(worker[w].swap) /\ Turn(w, "noting")
           \/ worker[w].pc = "sharing" /\ Turn(w, "applying")
<1>1. PICK pc \in {"noting", "applying"} :
         /\ worker[w].pc # "idle" /\ Goto(w, pc)
         /\ \/ pc = "noting" /\ worker[w].pc = "applying" /\ Applies(worker[w].swap)
            \/ pc = "applying" /\ worker[w].pc = "sharing"
  BY DEF BookShare, At
<1>2. pc \in Pcs \ Deciding
  BY Places
<1>3. /\ worker' \in [Worker -> Call] /\ Named' /\ Only(w)
      /\ worker'[w].pc = pc /\ worker'[w].swap = worker[w].swap
      /\ worker'[w].again = worker[w].again /\ worker'[w].seen = worker[w].seen
      /\ worker[w].swap \in Swap
  BY <1>1, <1>2, Goes
<1>4. book' \in [Swap -> Book]
  <2> DEFINE s == worker[w].swap
             b == [book[s] EXCEPT !.size = book[s].size + 1]
  <2>1. s \in Swap /\ book[s] \in Book
    BY <1>3 DEF TypeOK
  <2>2. book[s].size + 1 \in Nat
    BY <2>1 DEF Book
  <2>3. b \in Book
    BY <2>1, <2>2 DEF Book
  <2>4. book' = [book EXCEPT ![s] = b]
    BY DEF BookShare
  <2> QED BY <2>1, <2>3, <2>4 DEF TypeOK
<1>5. TypeOK'
  BY <1>3, <1>4 DEF BookShare, TypeOK, papers, network
<1>6. CASE pc = "noting"
  BY <1>1, <1>3, <1>5, <1>6 DEF Turn
<1>7. CASE pc = "applying"
  BY <1>1, <1>3, <1>5, <1>7 DEF Turn
<1> QED BY <1>6, <1>7

LEMMA RecordTurns ==
    ASSUME TypeOK, Named, NEW w \in Worker, Record(w)
    PROVE  \/ /\ worker[w].pc = "submitting" /\ worker[w].swap \in Early
              /\ Turn(w, "signed")
           \/ /\ worker[w].pc = "sent" /\ worker[w].swap \notin Early
              /\ Turn(w, "sent")
<1>1. worker[w].swap \in Swap
  BY DEF Record, At, Named
<1>2. exec' \in [Swap -> Exec]
  BY <1>1 DEF Record, TypeOK, Exec, Unresolved
<1>3. CASE worker[w].pc = "submitting"
  <2>1. worker[w].swap \in Early /\ Goto(w, "signed")
    BY <1>3 DEF Record, At
  <2>2. "signed" \in Pcs \ Deciding
    BY Places
  <2>3. /\ worker' \in [Worker -> Call] /\ Named' /\ Only(w)
        /\ worker'[w].pc = "signed" /\ worker'[w].swap = worker[w].swap
        /\ worker'[w].again = worker[w].again /\ worker'[w].seen = worker[w].seen
    BY <1>3, <2>1, <2>2, Goes
  <2> QED BY <1>1, <1>2, <1>3, <2>1, <2>3 DEF Turn, Record, TypeOK, papers, network
<1>4. CASE worker[w].pc = "sent"
  <2>1. worker[w].swap \notin Early /\ UNCHANGED worker
    BY <1>4 DEF Record, At
  <2> QED BY <1>1, <1>2, <1>4, <2>1 DEF Turn, Record, TypeOK, papers, network, Named, Only
<1> QED BY <1>3, <1>4 DEF Record, At

LEMMA SettleTypes ==
    ASSUME TypeOK, Named, NEW s \in Swap, Settle(s)
    PROVE  TypeOK' /\ Named'
<1>1. fate' \in [Swap -> {"none", "pending"} \union Ends]
  BY DEF Settle, TypeOK
<1> QED BY <1>1 DEF Settle, TypeOK, Named, papers

LEMMA ExpireTypes ==
    ASSUME TypeOK, Named, NEW s \in Swap, Expire(s)
    PROVE  TypeOK' /\ Named'
BY DEF Expire, TypeOK, Named, network

(* Calls that end or begin.                                                *)
LEMMA Leaves ==
    ASSUME TypeOK, Named, NEW w \in Worker, worker[w].pc \in Booking, Leave(w)
    PROVE  /\ worker' \in [Worker -> Call] /\ Named' /\ Only(w)
           /\ worker[w].swap \in Swap
           /\ \/ worker'[w].pc = "idle" /\ ~worker'[w].again /\ worker'[w].seen = {}
              \/ /\ worker'[w].pc = "finish" /\ worker'[w].swap = worker[w].swap
                 /\ ~worker[w].again /\ worker'[w].again = worker[w].again
                 /\ worker'[w].seen = worker[w].seen
<1>1. worker[w].pc # "idle"
  BY DEF Booking
<1>2. CASE worker[w].again
  <2>1. Return(w)
    BY <1>2 DEF Leave
  <2> QED BY <1>1, <2>1, Returns DEF Named
<1>3. CASE ~worker[w].again
  <2>1. Goto(w, "finish")
    BY <1>3 DEF Leave
  <2>2. "finish" \in Pcs \ Deciding
    BY Places
  <2> QED BY <1>1, <1>3, <2>1, <2>2, Goes
<1> QED BY <1>2, <1>3

Left(w) ==
    \/ Quits(w)
    \/ Turn(w, "finish") /\ ~worker[w].again

LEMMA BookClashLeaves ==
    ASSUME TypeOK, Named, NEW w \in Worker, BookClash(w)
    PROVE  Left(w)
<1>1. worker[w].pc \in Booking /\ worker[w].pc # "idle" /\ Leave(w)
  BY DEF BookClash, At, Booking
<1>2. worker' \in [Worker -> Call]
  BY <1>1, Leaves
<1>3. TypeOK'
  BY <1>2 DEF BookClash, TypeOK, papers, network
<1> QED BY <1>1, <1>3, Leaves DEF Left, Quits, Turn

LEMMA BookedLeaves ==
    ASSUME TypeOK, Named, NEW w \in Worker, Booked(w)
    PROVE  Left(w)
<1>1. worker[w].pc \in Booking /\ worker[w].pc # "idle" /\ Leave(w)
  BY DEF Booked, At, Booking
<1>2. worker' \in [Worker -> Call] /\ worker[w].swap \in Swap
  BY <1>1, Leaves
<1>3. exec' \in [Swap -> Exec]
  BY <1>2 DEF Booked, TypeOK, Exec
<1>4. TypeOK'
  BY <1>2, <1>3 DEF Booked, TypeOK, papers, network
<1> QED BY <1>1, <1>4, Leaves DEF Left, Quits, Turn

LEMMA DieLeaves ==
    ASSUME SwapAssumption, TypeOK, Named, NEW w \in Worker, Die(w)
    PROVE  Quits(w) \/ (worker[w].pc \in Booking /\ Left(w))
<1>1. worker[w].pc # "idle" /\ worker[w].swap \in Swap
  BY DEF Die, At, Named
<1>2. torn' \subseteq Swap
  BY <1>1 DEF Die, Torn, TypeOK
<1>3. faults' \in 0..MaxFaults
  BY DEF Die, TypeOK, SwapAssumption
<1>4. worker' \in [Worker -> Call] => TypeOK'
  BY <1>2, <1>3 DEF Die, TypeOK, papers, network
<1>5. CASE Return(w)
  BY <1>4, <1>5, Returns DEF Quits
<1>6. CASE worker[w].pc \in Booking /\ Leave(w)
  BY <1>1, <1>4, <1>6, Leaves DEF Left, Quits, Turn
<1> QED BY <1>5, <1>6 DEF Die

LEMMA NotClaimedQuits ==
    ASSUME TypeOK, Named, NEW w \in Worker, NotClaimed(w)
    PROVE  Quits(w)
BY Returns DEF NotClaimed, Quits, TypeOK, papers, network

LEMMA AskFailedQuits ==
    ASSUME TypeOK, Named, NEW w \in Worker, AskFailed(w)
    PROVE  Quits(w)
<1>1. worker[w].swap \in Swap
  BY DEF AskFailed, At, Named
<1>2. exec' \in [Swap -> Exec]
  BY <1>1, WritesStatus DEF AskFailed
<1>3. Return(w)
  BY DEF AskFailed
<1>4. worker' \in [Worker -> Call]
  BY <1>3, Returns
<1>5. TypeOK'
  BY <1>2, <1>4 DEF AskFailed, TypeOK, papers, network
<1> QED BY <1>3, <1>5, Returns DEF Quits

LEMMA AskOpenQuits ==
    ASSUME TypeOK, Named, NEW w \in Worker, AskOpen(w)
    PROVE  Quits(w)
BY Returns DEF AskOpen, Quits, TypeOK, papers, network

LEMMA FinishQuits ==
    ASSUME TypeOK, Named, NEW w \in Worker, Finish(w)
    PROVE  Quits(w) /\ worker[w].swap \in Swap
<1>1. worker[w].swap \in Swap
  BY DEF Finish, At, Named
<1>2. approval' \in [Swap -> ApprovalStates]
  BY <1>1 DEF Finish, TypeOK, ApprovalStates
<1>3. Return(w)
  BY DEF Finish
<1>4. worker' \in [Worker -> Call]
  BY <1>3, Returns
<1>5. TypeOK'
  BY <1>2, <1>4 DEF Finish, TypeOK, network
<1> QED BY <1>1, <1>3, <1>5, Returns DEF Quits

LEMMA IdleIsCall ==
    /\ Idle \in Call /\ Idle.pc = "idle" /\ Idle.seen = {} /\ Idle.verdict = "none"
    /\ Idle.again = FALSE
BY DEF Idle, Call, Pcs

LEMMA ClaimStarts ==
    ASSUME TypeOK, Named, NEW w \in Worker, NEW s \in Swap, Claim(w, s)
    PROVE  Starts(w, s, "claimed", FALSE)
<1> DEFINE c == [Idle EXCEPT !.pc = "claimed", !.swap = s]
<1>1. worker' = [worker EXCEPT ![w] = c]
  BY DEF Claim
<1>2. /\ c \in Call /\ c.pc = "claimed" /\ c.swap = s /\ c.seen = {}
      /\ c.verdict = "none" /\ c.again = FALSE
  BY Places, IdleIsCall DEF Call
<1>3. "claimed" \notin Deciding
  BY DEF Deciding
<1>4. worker' \in [Worker -> Call] /\ Named' /\ Only(w) /\ worker'[w] = c
  BY <1>1, <1>2, <1>3, Becomes
<1>5. TypeOK'
  BY <1>4 DEF Claim, TypeOK, ApprovalStates, network
<1> QED BY <1>2, <1>4, <1>5 DEF Starts

LEMMA RequestInsertStarts ==
    ASSUME TypeOK, Named, NEW w \in Worker, NEW s \in Swap, RequestInsert(w, s)
    PROVE  Starts(w, s, "asked", FALSE)
<1> DEFINE c == [Idle EXCEPT !.pc = "asked", !.swap = s]
<1>1. worker' = [worker EXCEPT ![w] = c]
  BY DEF RequestInsert, Enter
<1>2. /\ c \in Call /\ c.pc = "asked" /\ c.swap = s /\ c.seen = {}
      /\ c.verdict = "none" /\ c.again = FALSE
  BY Places, IdleIsCall DEF Call
<1>3. "asked" \notin Deciding
  BY DEF Deciding
<1>4. worker' \in [Worker -> Call] /\ Named' /\ Only(w) /\ worker'[w] = c
  BY <1>1, <1>2, <1>3, Becomes
<1>5. TypeOK'
  BY <1>4 DEF RequestInsert, TypeOK, ApprovalStates, network
<1> QED BY <1>2, <1>4, <1>5 DEF Starts

LEMMA ReconcileStarts ==
    ASSUME TypeOK, Named, NEW w \in Worker, NEW s \in Swap, Reconcile(w, s)
    PROVE  /\ exec[s].status = "confirmed" => Starts(w, s, "booking", TRUE)
           /\ exec[s].status # "confirmed" => Starts(w, s, "asking", TRUE)
<1> DEFINE pc == IF exec[s].status = "confirmed" THEN "booking" ELSE "asking"
<1> DEFINE c == [Idle EXCEPT !.pc = pc, !.swap = s, !.again = TRUE]
<1>1. worker' = [worker EXCEPT ![w] = c]
  BY DEF Reconcile
<1>2. /\ c \in Call /\ c.pc = pc /\ c.swap = s /\ c.seen = {}
      /\ c.verdict = "none" /\ c.again = TRUE
  BY Places, IdleIsCall DEF Call
<1>3. pc \notin Deciding
  BY DEF Deciding
<1>4. worker' \in [Worker -> Call] /\ Named' /\ Only(w) /\ worker'[w] = c
  BY <1>1, <1>2, <1>3, Becomes
<1>5. TypeOK'
  BY <1>4 DEF Reconcile, TypeOK, papers, network
<1>6. /\ worker'[w].pc = pc /\ worker'[w].swap = s /\ worker'[w].again
      /\ worker'[w].seen = {}
  BY <1>2, <1>4
<1> QED BY <1>4, <1>5, <1>6 DEF Starts

LEMMA DecideReadStarts ==
    ASSUME TypeOK, Named, NEW w \in Worker, NEW s \in Swap,
           NEW verdict \in {"approved", "rejected"}, DecideRead(w, s, verdict)
    PROVE  /\ TypeOK' /\ Named' /\ Only(w)
           /\ worker'[w].pc = "deciding" /\ worker'[w].swap = s /\ ~worker'[w].again
           /\ worker'[w].seen = shown
<1> DEFINE c == [Idle EXCEPT !.pc = "deciding", !.swap = s, !.seen = shown, !.verdict = verdict]
<1>1. worker' = [worker EXCEPT ![w] = c]
  BY DEF DecideRead
<1>2. /\ c \in Call /\ c.pc = "deciding" /\ c.swap = s /\ c.seen = shown
      /\ c.verdict = verdict /\ c.again = FALSE
  BY Places, IdleIsCall DEF Call, TypeOK
<1> HIDE DEF c
<1>3. worker' \in [Worker -> Call] /\ Named' /\ Only(w) /\ worker'[w] = c
  BY <1>1, <1>2, Becomes
<1>4. TypeOK'
  BY <1>3 DEF DecideRead, TypeOK, papers, network
<1> QED BY <1>2, <1>3, <1>4

(* The later steps of a decision change more than the place of the call.   *)
LEMMA DecideReplaceTurns ==
    ASSUME TypeOK, Named, NEW w \in Worker, DecideReplace(w)
    PROVE  /\ TypeOK' /\ Named' /\ Only(w)
           /\ worker[w].swap \in Swap
           /\ worker'[w].pc = "filing" /\ worker'[w].swap = worker[w].swap
           /\ worker'[w].again = worker[w].again /\ worker'[w].seen = {}
<1> DEFINE c == [worker[w] EXCEPT !.pc = "filing", !.seen = {}]
<1>1. worker[w] \in Call /\ worker[w].pc = "deciding"
  BY DEF DecideReplace, At, TypeOK
<1>2. worker[w].swap \in Swap /\ worker[w].verdict # "none"
  BY <1>1 DEF Named, Deciding
<1>3. c \in Call
  BY <1>1, Places DEF Call
<1>4. worker' = [worker EXCEPT ![w] = c]
  BY <1>1 DEF DecideReplace, TypeOK
<1>5. /\ c.pc = "filing" /\ c.swap = worker[w].swap /\ c.again = worker[w].again
      /\ c.seen = {} /\ c.verdict = worker[w].verdict
  BY <1>1 DEF Call
<1>6. worker' \in [Worker -> Call] /\ Named' /\ Only(w) /\ worker'[w] = c
  BY <1>2, <1>3, <1>4, <1>5, Becomes
<1>7. shown' \subseteq Swap
  BY <1>1 DEF DecideReplace, Call
<1>8. TypeOK'
  BY <1>6, <1>7 DEF DecideReplace, TypeOK, network
<1> QED BY <1>2, <1>5, <1>6, <1>8

LEMMA DecideFileTurns ==
    ASSUME TypeOK, Named, NEW w \in Worker, DecideFile(w)
    PROVE  /\ Turn(w, "decided")
           /\ filed'[worker[w].swap] \in {"approved", "rejected"}
           /\ \A t \in Swap : t # worker[w].swap => filed'[t] = filed[t]
<1> DEFINE c == [worker[w] EXCEPT !.pc = "decided", !.verdict = "none"]
<1>1. worker[w] \in Call /\ worker[w].pc = "filing"
  BY DEF DecideFile, At, TypeOK
<1>2. worker[w].swap \in Swap /\ worker[w].verdict \in {"approved", "rejected"}
  BY <1>1 DEF Named, Deciding, Call
<1>3. c \in Call
  BY <1>1, Places DEF Call
<1>4. worker' = [worker EXCEPT ![w] = c]
  BY <1>1 DEF DecideFile, TypeOK
<1>5. /\ c.pc = "decided" /\ c.swap = worker[w].swap /\ c.again = worker[w].again
      /\ c.seen = worker[w].seen
  BY <1>1 DEF Call
<1>6. "decided" \notin Deciding
  BY DEF Deciding
<1>7. worker' \in [Worker -> Call] /\ Named' /\ Only(w) /\ worker'[w] = c
  BY <1>2, <1>3, <1>4, <1>5, <1>6, Becomes
<1>8. /\ filed' \in [Swap -> {"none", "approved", "rejected"}]
      /\ filed'[worker[w].swap] = worker[w].verdict
      /\ \A t \in Swap : t # worker[w].swap => filed'[t] = filed[t]
  BY <1>2 DEF DecideFile, TypeOK
<1>9. TypeOK'
  BY <1>7, <1>8 DEF DecideFile, TypeOK, network
<1> QED BY <1>1, <1>2, <1>5, <1>7, <1>8, <1>9 DEF Turn

LEMMA RequestShowQuits ==
    ASSUME TypeOK, Named, NEW w \in Worker, RequestShow(w)
    PROVE  Quits(w) /\ worker[w].swap \in Swap
<1>1. worker[w].swap \in Swap /\ Return(w)
  BY DEF RequestShow, At, Named
<1>2. worker' \in [Worker -> Call]
  BY <1>1, Returns
<1>3. shown' \subseteq Swap
  BY <1>1 DEF RequestShow, TypeOK
<1>4. TypeOK'
  BY <1>2, <1>3 DEF RequestShow, TypeOK, network
<1> QED BY <1>1, <1>4, Returns DEF Quits

LEMMA DecideNoteTurns ==
    ASSUME TypeOK, Named, Rows, NEW w \in Worker, DecideNote(w)
    PROVE  /\ worker[w].swap \in Swap
           /\ \/ Quits(w)
              \/ Turn(w, "dispatch") /\ filed[worker[w].swap] = "approved"
           /\ \/ approval' = approval
              \/ /\ approval' = [approval EXCEPT ![worker[w].swap] = filed[worker[w].swap]]
                 /\ filed[worker[w].swap] \in {"approved", "rejected"}
<1>1. worker[w].swap \in Swap /\ worker[w].pc = "decided"
  BY DEF DecideNote, At, Named
<1>2. filed[worker[w].swap] \in {"approved", "rejected"}
  BY <1>1 DEF Rows, TypeOK
<1>3. approval' \in [Swap -> ApprovalStates]
  BY <1>1, <1>2 DEF DecideNote, TypeOK, ApprovalStates
<1>4. worker' \in [Worker -> Call] => TypeOK'
  BY <1>3 DEF DecideNote, TypeOK, network
<1>5. CASE filed[worker[w].swap] = "approved"
  <2>1. Goto(w, "dispatch") /\ "dispatch" \in Pcs \ Deciding
    BY <1>5, Places DEF DecideNote
  <2>2. /\ worker' \in [Worker -> Call] /\ Named' /\ Only(w)
        /\ worker'[w].pc = "dispatch" /\ worker'[w].swap = worker[w].swap
        /\ worker'[w].again = worker[w].again /\ worker'[w].seen = worker[w].seen
    BY <1>1, <2>1, Goes
  <2> QED BY <1>1, <1>2, <1>4, <1>5, <2>2 DEF Turn, DecideNote
<1>6. CASE filed[worker[w].swap] # "approved"
  <2>1. Return(w)
    BY <1>6 DEF DecideNote
  <2> QED BY <1>1, <1>2, <1>4, <2>1, Returns DEF Quits, DecideNote
<1> QED BY <1>5, <1>6

-----------------------------------------------------------------------------
(* Core is inductive.                                                      *)
PaperPcs == {"asked", "deciding", "filing", "decided", "dispatch"}

(* Only a claim and the end of a resume change the row of a decided swap.  *)
RowsMove ==
    \A s \in Swap : approval'[s] # approval[s] =>
        approval[s] \in {"approved", "resuming"} /\ approval'[s] \in {"resuming", "resumed"}

LEMMA PapersKept ==
    ASSUME TypeOK, Named, Papers, NEW w \in Worker, Only(w), Named', RowsMove,
           shown' = shown, filed' = filed,
           worker'[w].pc \notin PaperPcs, worker'[w].seen = {}
    PROVE  Papers'
<1>1. \A s \in Swap : approval[s] \in {"none", "pending"} <=> approval'[s] \in {"none", "pending"}
  BY DEF RowsMove
<1>2. \A s \in Swap : approval[s] \in {"none", "pending"} => approval'[s] = approval[s]
  BY DEF RowsMove
<1>3. \A s \in Swap : Open(s) => Open(s)'
  BY <1>2 DEF Open, Only, PaperPcs
<1>4. OneMover' /\ OnePlace'
  BY DEF Papers, OneMover, OnePlace, Only, PaperPcs, Deciding
<1>5. Cards'
  <2>1. \A s \in shown' : Open(s)'
    BY <1>3 DEF Papers, Cards, TypeOK
  <2>2. \A v \in Worker : worker'[v].seen # {} => worker'[v].pc = "deciding"
    BY DEF Papers, Cards, Only
  <2>3. \A v \in Worker : \A s \in worker'[v].seen : Open(s)'
    BY <1>3 DEF Papers, Cards, Only, TypeOK, Call
  <2>4. \A v \in Worker : worker'[v].pc = "asked" =>
           /\ Open(worker[v].swap)'
           /\ worker'[v].swap \notin shown'
           /\ \A u \in Worker : worker'[v].swap \notin worker'[u].seen
    <3> TAKE v \in Worker
    <3> HAVE worker'[v].pc = "asked"
    <3>1. worker'[v] = worker[v]
      BY DEF Only, PaperPcs
    <3>2. Open(worker[v].swap) /\ worker[v].swap \in Swap
      BY <3>1 DEF Papers, Cards, Named
    <3>3. Open(worker[v].swap)'
      BY <1>2, <3>2 DEF Open, Only, PaperPcs
    <3>4. worker'[v].swap \notin shown' /\ \A u \in Worker : worker'[v].swap \notin worker'[u].seen
      BY <3>1 DEF Papers, Cards, Only
    <3> QED BY <3>3, <3>4
  <2>5. \A v \in Worker : worker'[v].pc = "deciding" => worker'[v].swap \in worker'[v].seen
    BY DEF Papers, Cards, Only, PaperPcs
  <2> QED BY <2>1, <2>2, <2>3, <2>4, <2>5 DEF Cards
<1>6. Rows'
  <2>1. \A v \in Worker : worker'[v].pc \in PaperPcs => worker'[v] = worker[v] /\ worker[v].swap \in Swap
    BY DEF Only, PaperPcs, Named
  <2>2. \A s \in Swap : /\ approval'[s] \in {"approved", "resuming", "resumed"} => filed[s] = "approved"
                        /\ approval'[s] = "none" => filed[s] = "none"
    BY <1>1, <1>2 DEF Papers, Rows, RowsMove
  <2>3. \A v \in Worker :
          /\ worker'[v].pc \in {"filing", "decided"} =>
                approval'[worker'[v].swap] = "pending" /\ worker'[v].swap \notin shown
          /\ worker'[v].pc = "filing" => filed[worker'[v].swap] = "none"
          /\ worker'[v].pc = "decided" => filed[worker'[v].swap] # "none"
          /\ worker'[v].pc = "dispatch" => filed[worker'[v].swap] = "approved"
    BY <1>2, <2>1 DEF Papers, Rows, PaperPcs
  <2> QED BY <2>2, <2>3 DEF Rows
<1> QED BY <1>4, <1>5, <1>6 DEF Papers

LEMMA ClaimedKept ==
    ASSUME Claimed, NEW w \in Worker, Only(w),
           \A s \in Swap, v \in Worker : Carries(v, s)' =>
               Carries(v, s) /\ approval'[s] = approval[s],
           worker'[w].again => worker'[w].pc \in Booking \union {"asking"},
           worker'[w].pc = "asking" => worker'[w].again
    PROVE  Claimed'
<1>1. \A v \in Worker, s \in Swap : Carries(v, s)' => approval'[s] = "resuming"
  BY DEF Claimed
<1>2. \A v, u \in Worker, s \in Swap : Carries(v, s)' /\ Carries(u, s)' => v = u
  BY DEF Claimed
<1>3. \A v \in Worker : /\ worker'[v].again => worker'[v].pc \in Booking \union {"asking"}
                        /\ worker'[v].pc = "asking" => worker'[v].again
  BY DEF Claimed, Only
<1> QED BY <1>1, <1>2, <1>3 DEF Claimed

LEMMA LockedKept ==
    ASSUME Locked, NEW w \in Worker, Only(w),
           worker'[w].pc \in Holding =>
               worker[w].pc \in Holding /\ worker'[w].swap = worker[w].swap
    PROVE  Locked'
BY DEF Locked, Only

LEMMA NewHolder ==
    ASSUME Locked, NEW w \in Worker, Only(w), worker'[w].swap \in Swap,
           Free(ChainOf[worker'[w].swap])
    PROVE  Locked'
BY DEF Locked, Only, Free

(* A turn of a call that carries its swap, or reconciles it.               *)
LEMMA CoreTurn ==
    ASSUME Core, NEW w \in Worker, NEW pc \in Pcs, Turn(w, pc),
           UNCHANGED <<approval, shown, filed>>,
           worker[w].pc \in Holding \union {"claimed"},
           pc \in Holding \union {"finish"}, pc \notin {"quoting", "asking"},
           worker[w].pc \in Booking \union {"asking"} /\ worker[w].again => pc \in Booking,
           worker[w].pc = "claimed" => pc = "finish"
    PROVE  Core'
<1>1. TypeOK' /\ Named' /\ Only(w) /\ worker'[w].pc = pc /\ worker'[w].swap = worker[w].swap
      /\ worker'[w].again = worker[w].again /\ worker'[w].seen = worker[w].seen
  BY DEF Turn
<1>2. worker[w].pc # "deciding" /\ pc \notin PaperPcs
  BY DEF Holding, InProvider, Booking, PaperPcs
<1>3. worker'[w].seen = {}
  BY <1>1, <1>2 DEF Core, Papers, Cards
<1>4. Papers'
  BY <1>1, <1>2, <1>3, PapersKept DEF Core, RowsMove
<1>5. worker[w].again => worker[w].pc \in Booking \union {"asking"}
  BY DEF Core, Claimed
<1>6. \A v \in Worker, s \in Swap : Carries(v, s)' => Carries(v, s)
  <2> TAKE v \in Worker, s \in Swap
  <2> HAVE Carries(v, s)'
  <2>1. CASE v # w
    BY <1>1, <2>1 DEF Only, Carries
  <2>2. CASE v = w
    <3>1. worker[w].swap = s /\ ~worker[w].again
      BY <1>1, <2>2 DEF Carries
    <3>2. worker[w].pc # "asking"
      BY <3>1 DEF Core, Claimed
    <3> QED BY <2>2, <3>1, <3>2 DEF Carries, Holding
  <2> QED BY <2>1, <2>2
<1>7. Claimed'
  <2>1. worker'[w].again => worker'[w].pc \in Booking \union {"asking"}
    BY <1>1, <1>5
  <2>2. worker'[w].pc # "asking"
    BY <1>1
  <2> QED BY <1>1, <1>6, <2>1, <2>2, ClaimedKept DEF Core
<1>8. Locked'
  <2>1. worker'[w].pc \in Holding => worker[w].pc \in Holding
    BY <1>1 DEF Holding, InProvider, Booking
  <2> QED BY <1>1, <2>1, LockedKept DEF Core
<1> QED BY <1>1, <1>4, <1>7, <1>8 DEF Core

LEMMA CoreQuits ==
    ASSUME Core, NEW w \in Worker, Quits(w), RowsMove, shown' = shown, filed' = filed,
           \A s \in Swap, v \in Worker :
               v # w /\ Carries(v, s) => approval'[s] = approval[s]
    PROVE  Core'
<1>1. TypeOK' /\ Named' /\ Only(w) /\ worker'[w].pc = "idle" /\ ~worker'[w].again
      /\ worker'[w].seen = {}
  BY DEF Quits
<1>2. Papers'
  BY <1>1, PapersKept DEF Core, PaperPcs
<1>3. \A s \in Swap, v \in Worker : Carries(v, s)' => Carries(v, s) /\ v # w
  BY <1>1 DEF Only, Carries, InProvider, Booking
<1>4. Claimed'
  BY <1>1, <1>3, ClaimedKept DEF Core
<1>5. Locked'
  BY <1>1, LockedKept DEF Core, Holding, InProvider, Booking
<1> QED BY <1>1, <1>2, <1>4, <1>5 DEF Core

LEMMA CoreLeft ==
    ASSUME Core, NEW w \in Worker, Left(w), worker[w].pc \in Booking,
           UNCHANGED <<approval, shown, filed>>
    PROVE  Core'
<1>1. CASE Quits(w)
  BY <1>1, CoreQuits DEF RowsMove
<1>2. CASE Turn(w, "finish") /\ ~worker[w].again
  <2>1. "finish" \in Pcs
    BY Places
  <2>2. worker[w].pc \in Holding /\ worker[w].pc # "claimed"
    BY DEF Holding, Booking
  <2> QED BY <1>2, <2>1, <2>2, CoreTurn
<1> QED BY <1>1, <1>2 DEF Left

(* Cards and rows, action by action.                                       *)
LEMMA PaperCore ==
    ASSUME Core, NEW w \in Worker, TypeOK', Named', Only(w), Papers',
           ~worker'[w].again,
           worker'[w].pc \in PaperPcs \union {"idle"},
           \A s \in Swap : approval[s] = "resuming" => approval'[s] = "resuming"
    PROVE  Core'
<1>1. worker'[w].pc \notin Holding \union {"claimed", "finish"} /\ worker'[w].pc # "asking"
  BY DEF PaperPcs, Holding, InProvider, Booking
<1>2. \A v \in Worker, s \in Swap : Carries(v, s)' => Carries(v, s) /\ v # w
  BY <1>1 DEF Only, Carries, Holding
<1>3. \A v \in Worker, s \in Swap : Carries(v, s)' => approval'[s] = approval[s]
  BY <1>2 DEF Core, Claimed
<1>4. Claimed'
  BY <1>1, <1>2, <1>3, ClaimedKept DEF Core
<1>5. Locked'
  BY <1>1, LockedKept DEF Core
<1> QED BY <1>4, <1>5 DEF Core

LEMMA RequestInsertCore ==
    ASSUME Core, NEW w \in Worker, NEW s \in Swap, RequestInsert(w, s)
    PROVE  Core'
<1>1. /\ TypeOK' /\ Named' /\ Only(w) /\ worker'[w].pc = "asked" /\ worker'[w].swap = s
      /\ ~worker'[w].again /\ worker'[w].seen = {}
  BY RequestInsertStarts DEF Core, Starts
<1>2. /\ approval[s] = "none" /\ approval'[s] = "pending" /\ worker[w].pc = "idle"
      /\ \A t \in Swap : t # s => approval'[t] = approval[t]
      /\ shown' = shown /\ filed' = filed
  BY DEF RequestInsert, Enter, At, Core, TypeOK
<1>3. \A t \in Swap : Open(t) => t # s /\ Open(t)'
  BY <1>1, <1>2 DEF Open, Only
<1>4. s \notin shown /\ (\A v \in Worker : s \notin worker[v].seen)
  BY <1>2 DEF Core, Papers, Cards, Open
<1>5. \A v \in Worker : /\ worker[v].pc = "asked" => worker[v].swap # s
                        /\ worker[v].pc \in {"filing", "decided"} => worker[v].swap # s
  BY <1>2 DEF Core, Papers, Cards, Rows, Open
<1>6. Open(s)'
  BY <1>1, <1>2, <1>5 DEF Open, Only, Core, Papers, Rows
<1>7. OneMover' /\ OnePlace'
  BY <1>1, <1>5 DEF Core, Papers, OneMover, OnePlace, Only, Deciding
<1>8. Cards'
  <2>1. \A t \in shown' : Open(t)'
    BY <1>2, <1>3 DEF Core, Papers, Cards, TypeOK
  <2>2. \A v \in Worker : worker'[v].seen # {} => worker'[v].pc = "deciding"
    BY <1>1 DEF Core, Papers, Cards, Only
  <2>3. \A v \in Worker : \A t \in worker'[v].seen : Open(t)'
    BY <1>1, <1>3 DEF Core, Papers, Cards, Only, TypeOK, Call
  <2>4. \A v \in Worker : worker'[v].pc = "asked" =>
           /\ Open(worker[v].swap)'
           /\ worker'[v].swap \notin shown'
           /\ \A u \in Worker : worker'[v].swap \notin worker'[u].seen
    <3> TAKE v \in Worker
    <3> HAVE worker'[v].pc = "asked"
    <3>1. \A u \in Worker : worker'[u].seen \subseteq worker[u].seen
      BY <1>1 DEF Only
    <3>2. CASE v = w
      BY <1>1, <1>2, <1>4, <1>6, <3>1, <3>2
    <3>3. CASE v # w
      <4>1. worker'[v] = worker[v] /\ worker[v].swap \in Swap
        BY <1>1, <3>3 DEF Only, Core, Named
      <4>2. Open(worker[v].swap) /\ worker[v].swap \notin shown
        BY <4>1 DEF Core, Papers, Cards
      <4>3. \A u \in Worker : worker[v].swap \notin worker[u].seen
        BY <4>1 DEF Core, Papers, Cards
      <4>4. Open(worker'[v].swap) /\ worker'[v].swap \in Swap
        BY <4>1, <4>2
      <4>5. approval'[worker'[v].swap] = "pending" /\ filed'[worker'[v].swap] = "none"
        BY <1>2, <4>4 DEF Open
      <4>6. \A u \in Worker : worker'[u].swap = worker'[v].swap => worker'[u].pc \notin {"filing", "decided"}
        BY <1>1, <4>4 DEF Open, Only
      <4> QED BY <1>2, <3>1, <4>1, <4>2, <4>3, <4>5, <4>6 DEF Open
    <3> QED BY <3>2, <3>3
  <2>5. \A v \in Worker : worker'[v].pc = "deciding" => worker'[v].swap \in worker'[v].seen
    BY <1>1 DEF Core, Papers, Cards, Only
  <2> QED BY <2>1, <2>2, <2>3, <2>4, <2>5 DEF Cards
<1>9. Rows'
  BY <1>1, <1>2, <1>5 DEF Core, Papers, Rows, Only, Named
<1> QED BY <1>1, <1>2, <1>7, <1>8, <1>9, PaperCore DEF Papers, PaperPcs

LEMMA RequestShowCore ==
    ASSUME Core, NEW w \in Worker, RequestShow(w)
    PROVE  Core'
<1> DEFINE s == worker[w].swap
<1>1. /\ TypeOK' /\ Named' /\ Only(w) /\ worker'[w].pc = "idle" /\ ~worker'[w].again
      /\ worker'[w].seen = {} /\ s \in Swap
  BY RequestShowQuits DEF Core, Quits
<1>2. /\ worker[w].pc = "asked" /\ shown' = shown \union {s}
      /\ approval' = approval /\ filed' = filed
  BY DEF RequestShow, At
<1>3. Open(s) /\ (\A v \in Worker : v # w /\ worker[v].pc = "asked" => worker[v].swap # s)
  BY <1>2 DEF Core, Papers, Cards, OnePlace
<1>4. \A t \in Swap : Open(t) => Open(t)'
  BY <1>1, <1>2 DEF Open, Only
<1>5. OneMover' /\ OnePlace'
  BY <1>1 DEF Core, Papers, OneMover, OnePlace, Only, Deciding
<1>6. Cards'
  <2>1. \A t \in shown' : Open(t)'
    BY <1>1, <1>2, <1>3, <1>4 DEF Core, Papers, Cards, TypeOK
  <2>2. \A v \in Worker : worker'[v].seen # {} => worker'[v].pc = "deciding"
    BY <1>1 DEF Core, Papers, Cards, Only
  <2>3. \A v \in Worker : \A t \in worker'[v].seen : Open(t)'
    BY <1>1, <1>4 DEF Core, Papers, Cards, Only, TypeOK, Call
  <2>4. \A v \in Worker : worker'[v].pc = "asked" =>
           /\ Open(worker[v].swap)'
           /\ worker'[v].swap \notin shown'
           /\ \A u \in Worker : worker'[v].swap \notin worker'[u].seen
    <3> TAKE v \in Worker
    <3> HAVE worker'[v].pc = "asked"
    <3>1. v # w /\ worker'[v] = worker[v] /\ worker[v].swap \in Swap
      BY <1>1 DEF Only, Core, Named
    <3>2. Open(worker[v].swap) /\ worker[v].swap \notin shown /\ worker[v].swap # s
      BY <1>3, <3>1 DEF Core, Papers, Cards
    <3>3. \A u \in Worker : worker[v].swap \notin worker'[u].seen
      BY <1>1, <3>1 DEF Core, Papers, Cards, Only
    <3>4. Open(worker'[v].swap) /\ worker'[v].swap \in Swap
      BY <3>1, <3>2
    <3>5. /\ approval'[worker'[v].swap] = "pending" /\ filed'[worker'[v].swap] = "none"
          /\ \A u \in Worker : worker'[u].swap = worker'[v].swap => worker'[u].pc \notin {"filing", "decided"}
      BY <1>1, <1>2, <3>4 DEF Open, Only
    <3> QED BY <1>2, <3>1, <3>2, <3>3, <3>5 DEF Open
  <2>5. \A v \in Worker : worker'[v].pc = "deciding" => worker'[v].swap \in worker'[v].seen
    BY <1>1 DEF Core, Papers, Cards, Only
  <2> QED BY <2>1, <2>2, <2>3, <2>4, <2>5 DEF Cards
<1>7. Rows'
  <2>1. \A v \in Worker : worker[v].pc \in {"filing", "decided"} => worker[v].swap # s
    BY <1>3 DEF Open
  <2>2. \A v \in Worker : worker'[v].pc # "idle" => worker'[v] = worker[v]
    BY <1>1 DEF Only
  <2> QED BY <1>2, <2>1, <2>2 DEF Core, Papers, Rows
<1> QED BY <1>1, <1>2, <1>5, <1>6, <1>7, PaperCore DEF Papers

LEMMA DecideReadCore ==
    ASSUME Core, NEW w \in Worker, NEW s \in Swap, NEW d \in {"approved", "rejected"},
           DecideRead(w, s, d)
    PROVE  Core'
<1>1. /\ TypeOK' /\ Named' /\ Only(w) /\ worker'[w].pc = "deciding" /\ worker'[w].swap = s
      /\ ~worker'[w].again /\ worker'[w].seen = shown
  BY DecideReadStarts DEF Core
<1>2. /\ s \in shown /\ worker[w].pc = "idle" /\ UNCHANGED papers
      /\ \A v \in Worker : worker[v].pc \notin Deciding
  BY DEF DecideRead, At
<1>3. \A t \in Swap : Open(t) => Open(t)'
  BY <1>1, <1>2 DEF Open, Only, papers
<1>4. OneMover' /\ OnePlace'
  BY <1>1, <1>2 DEF Core, Papers, OneMover, OnePlace, Only, Deciding
<1>5. Cards'
  <2>1. \A t \in shown' : Open(t)'
    BY <1>2, <1>3 DEF Core, Papers, Cards, TypeOK, papers
  <2>2. \A v \in Worker : worker'[v].seen # {} => worker'[v].pc = "deciding"
    BY <1>1 DEF Core, Papers, Cards, Only
  <2>3. \A v \in Worker : \A t \in worker'[v].seen : Open(t)'
    BY <1>1, <1>3 DEF Core, Papers, Cards, Only, TypeOK, Call
  <2>4. \A v \in Worker : worker'[v].pc = "asked" =>
           /\ Open(worker[v].swap)'
           /\ worker'[v].swap \notin shown'
           /\ \A u \in Worker : worker'[v].swap \notin worker'[u].seen
    <3> TAKE v \in Worker
    <3> HAVE worker'[v].pc = "asked"
    <3>1. worker'[v] = worker[v] /\ worker[v].swap \in Swap
      BY <1>1 DEF Only, Core, Named
    <3>2. Open(worker'[v].swap) /\ worker[v].swap \notin shown
      BY <3>1 DEF Core, Papers, Cards
    <3>3. \A u \in Worker : worker[v].swap \notin worker'[u].seen
      BY <1>1, <3>1, <3>2 DEF Core, Papers, Cards, Only
    <3>4. /\ approval'[worker'[v].swap] = "pending" /\ filed'[worker'[v].swap] = "none"
          /\ \A u \in Worker : worker'[u].swap = worker'[v].swap => worker'[u].pc \notin {"filing", "decided"}
      BY <1>1, <1>2, <3>2 DEF Open, Only, papers
    <3> QED BY <1>2, <3>1, <3>2, <3>3, <3>4 DEF Open, papers
  <2>5. \A v \in Worker : worker'[v].pc = "deciding" => worker'[v].swap \in worker'[v].seen
    BY <1>1, <1>2 DEF Core, Papers, Cards, Only
  <2> QED BY <2>1, <2>2, <2>3, <2>4, <2>5 DEF Cards
<1>6. Rows'
  BY <1>1, <1>2 DEF Core, Papers, Rows, Only, papers
<1> QED BY <1>1, <1>2, <1>4, <1>5, <1>6, PaperCore DEF Papers, PaperPcs, papers

LEMMA DecideReplaceCore ==
    ASSUME Core, NEW w \in Worker, DecideReplace(w)
    PROVE  Core'
<1> DEFINE s == worker[w].swap
<1>1. /\ TypeOK' /\ Named' /\ Only(w) /\ s \in Swap /\ worker'[w].pc = "filing"
      /\ worker'[w].swap = s /\ worker'[w].again = worker[w].again /\ worker'[w].seen = {}
  BY DecideReplaceTurns DEF Core
<1>2. /\ worker[w].pc = "deciding" /\ shown' = worker[w].seen \ {s}
      /\ approval' = approval /\ filed' = filed
  BY DEF DecideReplace, At
<1>3. ~worker'[w].again
  BY <1>1, <1>2 DEF Core, Claimed, Booking
<1>4. /\ s \in worker[w].seen /\ worker[w].seen \subseteq Swap
      /\ \A t \in worker[w].seen : Open(t)
  BY <1>2 DEF Core, Papers, Cards, TypeOK, Call
<1>5. \A v \in Worker : v # w => worker[v].pc \notin Deciding
  BY <1>2 DEF Core, Papers, OneMover, Deciding
<1>6. \A v \in Worker : worker'[v].seen = {}
  BY <1>1, <1>5 DEF Only, Core, Papers, Cards, Deciding
<1>7. \A t \in Swap : Open(t) /\ t # s => Open(t)'
  BY <1>1, <1>2 DEF Open, Only
<1>8. \A v \in Worker : worker[v].pc \in {"filing", "decided"} => worker[v].swap \notin worker[w].seen
  BY <1>4 DEF Open
<1>9. OneMover' /\ OnePlace'
  BY <1>1, <1>4, <1>5, <1>8 DEF Core, Papers, OneMover, OnePlace, Only, Deciding
<1>10. Cards'
  <2>1. \A t \in shown' : Open(t)'
    BY <1>2, <1>4, <1>7
  <2>2. \A v \in Worker : worker'[v].pc = "asked" =>
           /\ Open(worker[v].swap)'
           /\ worker'[v].swap \notin shown'
           /\ \A u \in Worker : worker'[v].swap \notin worker'[u].seen
    <3> TAKE v \in Worker
    <3> HAVE worker'[v].pc = "asked"
    <3>1. v # w /\ worker'[v] = worker[v] /\ worker[v].swap \in Swap
      BY <1>1 DEF Only, Core, Named
    <3>2. Open(worker'[v].swap) /\ worker[v].swap \notin worker[w].seen
      BY <3>1 DEF Core, Papers, Cards
    <3>3. worker'[v].swap # s /\ worker'[v].swap \notin shown'
      BY <1>2, <1>4, <3>1, <3>2
    <3>4. /\ approval'[worker'[v].swap] = "pending" /\ filed'[worker'[v].swap] = "none"
          /\ \A u \in Worker : worker'[u].swap = worker'[v].swap => worker'[u].pc \notin {"filing", "decided"}
      BY <1>1, <1>2, <3>2, <3>3 DEF Open, Only
    <3> QED BY <1>6, <3>3, <3>4 DEF Open
  <2>3. \A v \in Worker : worker'[v].pc # "deciding"
    BY <1>1, <1>5 DEF Only, Deciding
  <2> QED BY <1>6, <2>1, <2>2, <2>3 DEF Cards
<1>11. Rows'
  BY <1>1, <1>2, <1>4, <1>8 DEF Core, Papers, Rows, Only, Open
<1> QED BY <1>1, <1>2, <1>3, <1>9, <1>10, <1>11, PaperCore DEF Papers, PaperPcs

LEMMA DecideFileCore ==
    ASSUME Core, NEW w \in Worker, DecideFile(w)
    PROVE  Core'
<1> DEFINE s == worker[w].swap
<1>1. /\ TypeOK' /\ Named' /\ Only(w) /\ s \in Swap /\ worker'[w].pc = "decided"
      /\ worker'[w].swap = s /\ worker'[w].again = worker[w].again
      /\ worker'[w].seen = worker[w].seen
      /\ filed'[s] \in {"approved", "rejected"}
      /\ \A t \in Swap : t # s => filed'[t] = filed[t]
  BY DecideFileTurns DEF Core, Turn
<1>2. worker[w].pc = "filing" /\ approval' = approval /\ shown' = shown
  BY DEF DecideFile, At
<1>3. /\ ~worker'[w].again /\ worker'[w].seen = {}
      /\ approval[s] = "pending" /\ filed[s] = "none" /\ s \notin shown
  BY <1>1, <1>2 DEF Core, Claimed, Booking, Papers, Cards, Rows
<1>4. \A t \in Swap : Open(t) => t # s /\ Open(t)'
  BY <1>1, <1>2 DEF Open, Only
<1>5. \A v \in Worker : v # w /\ worker[v].pc \in {"filing", "decided"} => worker[v].swap # s
  BY <1>2 DEF Core, Papers, OnePlace
<1>6. OneMover' /\ OnePlace'
  BY <1>1, <1>2, <1>5 DEF Core, Papers, OneMover, OnePlace, Only, Deciding
<1>7. Cards'
  <2>1. \A t \in shown' : Open(t)'
    BY <1>2, <1>4 DEF Core, Papers, Cards, TypeOK
  <2>2. \A v \in Worker : worker'[v].seen # {} => worker'[v].pc = "deciding"
    BY <1>1, <1>3 DEF Core, Papers, Cards, Only
  <2>3. \A v \in Worker : \A t \in worker'[v].seen : Open(t)'
    BY <1>1, <1>3, <1>4 DEF Core, Papers, Cards, Only, TypeOK, Call
  <2>4. \A v \in Worker : worker'[v].pc = "asked" =>
           /\ Open(worker[v].swap)'
           /\ worker'[v].swap \notin shown'
           /\ \A u \in Worker : worker'[v].swap \notin worker'[u].seen
    <3> TAKE v \in Worker
    <3> HAVE worker'[v].pc = "asked"
    <3>1. v # w /\ worker'[v] = worker[v] /\ worker[v].swap \in Swap
      BY <1>1 DEF Only, Core, Named
    <3>2. Open(worker'[v].swap) /\ worker[v].swap \notin shown
      BY <3>1 DEF Core, Papers, Cards
    <3>3. \A u \in Worker : worker[v].swap \notin worker'[u].seen
      BY <1>1, <1>3, <3>1 DEF Core, Papers, Cards, Only
    <3>4. worker'[v].swap # s
      BY <1>4, <3>1, <3>2
    <3>5. /\ approval'[worker'[v].swap] = "pending" /\ filed'[worker'[v].swap] = "none"
          /\ \A u \in Worker : worker'[u].swap = worker'[v].swap => worker'[u].pc \notin {"filing", "decided"}
      BY <1>1, <1>2, <3>1, <3>2, <3>4 DEF Open, Only
    <3> QED BY <1>2, <3>1, <3>2, <3>3, <3>5 DEF Open
  <2>5. \A v \in Worker : worker'[v].pc = "deciding" => worker'[v].swap \in worker'[v].seen
    BY <1>1 DEF Core, Papers, Cards, Only
  <2> QED BY <2>1, <2>2, <2>3, <2>4, <2>5 DEF Cards
<1>8. Rows'
  <2>1. \A v \in Worker : v # w /\ worker[v].pc = "dispatch" => worker[v].swap # s
    BY <1>3 DEF Core, Papers, Rows
  <2>2. \A v \in Worker : worker[v].pc # "idle" => worker[v].swap \in Swap
    BY DEF Core, Named
  <2>3. \A v \in Worker :
          /\ worker'[v].pc \in {"filing", "decided"} =>
                approval'[worker'[v].swap] = "pending" /\ worker'[v].swap \notin shown'
          /\ worker'[v].pc = "filing" => filed'[worker'[v].swap] = "none"
          /\ worker'[v].pc = "decided" => filed'[worker'[v].swap] # "none"
          /\ worker'[v].pc = "dispatch" => filed'[worker'[v].swap] = "approved"
    BY <1>1, <1>2, <1>3, <1>5, <2>1, <2>2 DEF Core, Papers, Rows, Only
  <2>4. \A t \in Swap :
          /\ approval'[t] \in {"approved", "resuming", "resumed"} => filed'[t] = "approved"
          /\ approval'[t] = "none" => filed'[t] = "none"
    BY <1>1, <1>2, <1>3 DEF Core, Papers, Rows
  <2> QED BY <2>3, <2>4 DEF Rows
<1> QED BY <1>1, <1>2, <1>3, <1>6, <1>7, <1>8, PaperCore DEF Papers, PaperPcs

LEMMA DecideNoteCore ==
    ASSUME Core, NEW w \in Worker, DecideNote(w)
    PROVE  Core'
<1> DEFINE s == worker[w].swap
<1>1. /\ s \in Swap /\ TypeOK' /\ Named' /\ Only(w)
      /\ worker[w].pc = "decided" /\ shown' = shown /\ filed' = filed
  BY DecideNoteTurns DEF Core, Papers, Quits, Turn, DecideNote, At
<1>2. /\ approval[s] = "pending" /\ filed[s] # "none" /\ s \notin shown
      /\ worker[w].seen = {} /\ ~worker[w].again
  BY <1>1 DEF Core, Papers, Cards, Rows, Claimed, Booking
<1>3. /\ ~worker'[w].again /\ worker'[w].seen = {}
      /\ \/ worker'[w].pc = "idle"
         \/ worker'[w].pc = "dispatch" /\ worker'[w].swap = s /\ filed[s] = "approved"
  BY <1>2, DecideNoteTurns DEF Core, Papers, Quits, Turn
<1>4. /\ approval'[s] \in {"pending", "approved", "rejected"}
      /\ approval'[s] = "approved" => filed[s] = "approved"
      /\ \A t \in Swap : t # s => approval'[t] = approval[t]
  BY <1>1, <1>2, DecideNoteTurns DEF Core, Papers, TypeOK
<1>5. \A t \in Swap : Open(t) => t # s /\ Open(t)'
  BY <1>1, <1>3, <1>4 DEF Open, Only
<1>6. \A v \in Worker : v # w /\ worker[v].pc \in {"filing", "decided"} => worker[v].swap # s
  BY <1>1 DEF Core, Papers, OnePlace
<1>7. OneMover' /\ OnePlace'
  BY <1>1, <1>3 DEF Core, Papers, OneMover, OnePlace, Only, Deciding
<1>8. Cards'
  <2>1. \A t \in shown' : Open(t)'
    BY <1>1, <1>5 DEF Core, Papers, Cards, TypeOK
  <2>2. \A v \in Worker : worker'[v].seen # {} => worker'[v].pc = "deciding"
    BY <1>1, <1>3 DEF Core, Papers, Cards, Only
  <2>3. \A v \in Worker : \A t \in worker'[v].seen : Open(t)'
    BY <1>1, <1>3, <1>5 DEF Core, Papers, Cards, Only, TypeOK, Call
  <2>4. \A v \in Worker : worker'[v].pc = "asked" =>
           /\ Open(worker[v].swap)'
           /\ worker'[v].swap \notin shown'
           /\ \A u \in Worker : worker'[v].swap \notin worker'[u].seen
    <3> TAKE v \in Worker
    <3> HAVE worker'[v].pc = "asked"
    <3>1. v # w /\ worker'[v] = worker[v] /\ worker[v].swap \in Swap
      BY <1>1, <1>3 DEF Only, Core, Named
    <3>2. Open(worker'[v].swap) /\ worker[v].swap \notin shown
      BY <3>1 DEF Core, Papers, Cards
    <3>3. \A u \in Worker : worker[v].swap \notin worker'[u].seen
      BY <1>1, <1>3, <3>1 DEF Core, Papers, Cards, Only
    <3>4. worker'[v].swap # s
      BY <1>5, <3>1, <3>2
    <3>5. /\ approval'[worker'[v].swap] = "pending" /\ filed'[worker'[v].swap] = "none"
          /\ \A u \in Worker : worker'[u].swap = worker'[v].swap => worker'[u].pc \notin {"filing", "decided"}
      BY <1>1, <1>3, <1>4, <3>1, <3>2, <3>4 DEF Open, Only
    <3> QED BY <1>1, <3>1, <3>2, <3>3, <3>5 DEF Open
  <2>5. \A v \in Worker : worker'[v].pc = "deciding" => worker'[v].swap \in worker'[v].seen
    BY <1>1, <1>3 DEF Core, Papers, Cards, Only
  <2> QED BY <2>1, <2>2, <2>3, <2>4, <2>5 DEF Cards
<1>9. Rows'
  <2>1. \A v \in Worker : worker[v].pc # "idle" => worker[v].swap \in Swap
    BY DEF Core, Named
  <2>2. \A v \in Worker :
          /\ worker'[v].pc \in {"filing", "decided"} =>
                approval'[worker'[v].swap] = "pending" /\ worker'[v].swap \notin shown'
          /\ worker'[v].pc = "filing" => filed'[worker'[v].swap] = "none"
          /\ worker'[v].pc = "decided" => filed'[worker'[v].swap] # "none"
          /\ worker'[v].pc = "dispatch" => filed'[worker'[v].swap] = "approved"
    BY <1>1, <1>3, <1>4, <1>6, <2>1 DEF Core, Papers, Rows, Only
  <2>3. \A t \in Swap :
          /\ approval'[t] \in {"approved", "resuming", "resumed"} => filed'[t] = "approved"
          /\ approval'[t] = "none" => filed'[t] = "none"
    BY <1>1, <1>4 DEF Core, Papers, Rows
  <2> QED BY <2>2, <2>3 DEF Rows
<1>10. \A t \in Swap : approval[t] = "resuming" => approval'[t] = "resuming"
  BY <1>2, <1>4
<1> QED BY <1>1, <1>3, <1>7, <1>8, <1>9, <1>10, PaperCore DEF Papers, PaperPcs

LEMMA ClaimCore ==
    ASSUME Core, NEW w \in Worker, NEW s \in Swap, Claim(w, s)
    PROVE  Core'
<1>1. /\ TypeOK' /\ Named' /\ Only(w) /\ worker'[w].pc = "claimed" /\ worker'[w].swap = s
      /\ ~worker'[w].again /\ worker'[w].seen = {}
  BY ClaimStarts DEF Core, Starts
<1>2. /\ approval[s] = "approved" /\ approval'[s] = "resuming" /\ shown' = shown
      /\ filed' = filed /\ \A t \in Swap : t # s => approval'[t] = approval[t]
  BY DEF Claim, Claimable, Core, TypeOK
<1>3. Papers'
  BY <1>1, <1>2, PapersKept DEF Core, RowsMove, PaperPcs
<1>4. Claimed'
  <2>1. \A v \in Worker, t \in Swap : Carries(v, t) => t # s
    BY <1>2 DEF Core, Claimed
  <2>2. \A v \in Worker, t \in Swap :
           Carries(v, t)' => \/ v = w /\ t = s
                             \/ v # w /\ t # s /\ Carries(v, t)
    <3>1. \A v \in Worker, t \in Swap : v # w /\ Carries(v, t)' => Carries(v, t)
      BY <1>1 DEF Only, Carries
    <3>2. \A t \in Swap : Carries(w, t)' => t = s
      BY <1>1 DEF Carries
    <3> QED BY <2>1, <3>1, <3>2
  <2>3. \A v \in Worker, t \in Swap : Carries(v, t)' => approval'[t] = "resuming"
    BY <1>2, <2>2 DEF Core, Claimed
  <2>4. \A u, v \in Worker, t \in Swap : Carries(u, t)' /\ Carries(v, t)' => u = v
    BY <2>2 DEF Core, Claimed
  <2>5. \A v \in Worker : /\ worker'[v].again => worker'[v].pc \in Booking \union {"asking"}
                          /\ worker'[v].pc = "asking" => worker'[v].again
    BY <1>1 DEF Core, Claimed, Only
  <2> QED BY <2>3, <2>4, <2>5 DEF Claimed
<1>5. Locked'
  BY <1>1, LockedKept DEF Core, Holding, InProvider, Booking
<1> QED BY <1>1, <1>3, <1>4, <1>5 DEF Core

LEMMA QuoteCore ==
    ASSUME Core, NEW w \in Worker, Quote(w)
    PROVE  Core'
<1>1. /\ TypeOK' /\ Named' /\ Only(w) /\ worker[w].swap \in Swap
      /\ worker'[w].pc = "quoting" /\ worker'[w].swap = worker[w].swap
      /\ worker'[w].again = worker[w].again /\ worker'[w].seen = worker[w].seen
  BY QuoteTurns DEF Core, Turn
<1>2. worker[w].pc = "claimed" /\ Free(ChainOf[worker[w].swap]) /\ UNCHANGED papers
  BY DEF Quote, At
<1>3. worker[w].seen = {} /\ ~worker[w].again
  BY <1>2 DEF Core, Papers, Cards, Claimed, Booking
<1>4. Papers'
  BY <1>1, <1>2, <1>3, PapersKept DEF Core, RowsMove, PaperPcs, papers
<1>5. \A v \in Worker, s \in Swap : Carries(v, s)' => Carries(v, s)
  BY <1>1, <1>2, <1>3 DEF Only, Carries
<1>6. Claimed'
  BY <1>1, <1>2, <1>3, <1>5, ClaimedKept DEF Core, papers
<1>7. Locked'
  BY <1>1, <1>2, NewHolder DEF Core
<1> QED BY <1>1, <1>4, <1>6, <1>7 DEF Core

LEMMA ReconcileCore ==
    ASSUME Core, NEW w \in Worker, NEW s \in Swap, Reconcile(w, s)
    PROVE  Core'
<1>1. /\ TypeOK' /\ Named' /\ Only(w) /\ worker'[w].pc \in {"booking", "asking"}
      /\ worker'[w].swap = s /\ worker'[w].again /\ worker'[w].seen = {}
  BY ReconcileStarts DEF Core, Starts
<1>2. Free(ChainOf[s]) /\ UNCHANGED papers
  BY DEF Reconcile
<1>3. Papers'
  BY <1>1, <1>2, PapersKept DEF Core, RowsMove, PaperPcs, papers
<1>4. \A v \in Worker, t \in Swap : Carries(v, t)' => Carries(v, t)
  BY <1>1 DEF Only, Carries
<1>5. Claimed'
  BY <1>1, <1>2, <1>4, ClaimedKept DEF Core, papers, Booking
<1>6. Locked'
  BY <1>1, <1>2, NewHolder DEF Core
<1> QED BY <1>1, <1>3, <1>5, <1>6 DEF Core

LEMMA FinishCore ==
    ASSUME Core, NEW w \in Worker, Finish(w)
    PROVE  Core'
<1>1. Quits(w) /\ worker[w].swap \in Swap
  BY FinishQuits DEF Core
<1>2. /\ worker[w].pc = "finish" /\ shown' = shown /\ filed' = filed
      /\ approval' = [approval EXCEPT ![worker[w].swap] = IF @ = "resuming" THEN "resumed" ELSE @]
  BY DEF Finish, At
<1>3. Carries(w, worker[w].swap)
  BY <1>2 DEF Carries, Core, Claimed, Booking
<1>4. \A t \in Swap, v \in Worker : v # w /\ Carries(v, t) => t # worker[w].swap
  BY <1>3 DEF Core, Claimed
<1>5. \A t \in Swap : t # worker[w].swap => approval'[t] = approval[t]
  BY <1>2 DEF Core, TypeOK
<1>6. RowsMove
  BY <1>1, <1>2, <1>5 DEF RowsMove, Core, TypeOK
<1> QED BY <1>1, <1>2, <1>4, <1>5, <1>6, CoreQuits

LEMMA CoreInit ==
    ASSUME SwapAssumption, Init
    PROVE  Core
<1>1. TypeOK
  BY IdleIsCall DEF SwapAssumption, Init, TypeOK, ApprovalStates, Exec, Book
<1>2. \A w \in Worker : worker[w].pc = "idle" /\ worker[w].seen = {} /\ ~worker[w].again
  BY IdleIsCall DEF Init
<1>3. Named /\ Locked
  BY <1>2 DEF Named, Locked, Deciding, Holding, InProvider, Booking
<1>4. Papers
  BY <1>2 DEF Papers, OneMover, OnePlace, Cards, Rows, Deciding, Init
<1>5. Claimed
  BY <1>2 DEF Claimed, Carries, InProvider, Booking
<1> QED BY <1>1, <1>3, <1>4, <1>5 DEF Core

LEMMA CoreStep ==
    ASSUME SwapAssumption, Core, [Next]_vars
    PROVE  Core'
<1>1. ASSUME NEW w \in Worker, Decides(w) PROVE Core'
  BY <1>1, RequestShowCore, DecideReplaceCore, DecideFileCore, DecideNoteCore DEF Decides
<1>2. ASSUME NEW w \in Worker, Executes(w) PROVE Core'
  <2>1. CASE NotClaimed(w)
    BY <2>1, NotClaimedQuits, CoreQuits DEF Core, NotClaimed, papers, RowsMove
  <2>2. CASE Quote(w)
    BY <2>2, QuoteCore
  <2>3. CASE Refuse(w)
    BY <2>3, RefuseTurns, CoreTurn, Places DEF Core, Refuse, papers, Holding, Booking
  <2>4. CASE Begin(w)
    BY <2>4, BeginTurns, CoreTurn, Places DEF Core, Begin, At, papers, Holding, InProvider, Booking
  <2>5. CASE Record(w)
    BY <2>5, RecordTurns, CoreTurn, Places DEF Core, Record, papers, Holding, InProvider, Booking
  <2>6. CASE Send(w)
    <3>1. worker[w].pc \in {"signed", "submitting"} /\ UNCHANGED papers
      BY <2>6 DEF Send, At
    <3> QED BY <2>6, <3>1, SendTurns, CoreTurn, Places DEF Core, papers, Holding, InProvider, Booking
  <2>7. CASE Raise(w)
    BY <2>7, RaiseTurns, CoreTurn, Places DEF Core, Raise, papers, Holding, InProvider, Booking
  <2>8. CASE AnswerConfirmed(w)
    BY <2>8, AnswerConfirmedTurns, CoreTurn, Places
       DEF Core, AnswerConfirmed, At, papers, Holding, InProvider, Booking
  <2>9. CASE AnswerFailed(w)
    BY <2>9, AnswerFailedTurns, CoreTurn, Places
       DEF Core, AnswerFailed, At, papers, Holding, InProvider, Booking
  <2>10. CASE AnswerOpen(w)
    BY <2>10, AnswerOpenTurns, CoreTurn, Places
       DEF Core, AnswerOpen, At, papers, Holding, InProvider, Booking
  <2>11. CASE Finish(w)
    BY <2>11, FinishCore
  <2>12. CASE AskLanded(w)
    BY <2>12, AskLandedTurns, CoreTurn, Places
       DEF Core, AskLanded, At, papers, Holding, InProvider, Booking
  <2>13. CASE AskFailed(w)
    BY <2>13, AskFailedQuits, CoreQuits DEF Core, AskFailed, papers, RowsMove
  <2>14. CASE AskOpen(w)
    BY <2>14, AskOpenQuits, CoreQuits DEF Core, AskOpen, papers, RowsMove
  <2>15. CASE \E s \in Swap : Claim(w, s) /\ At(w, "dispatch")
    BY <2>15, ClaimCore
  <2> QED BY <1>2, <2>1, <2>2, <2>3, <2>4, <2>5, <2>6, <2>7, <2>8, <2>9, <2>10, <2>11,
             <2>12, <2>13, <2>14, <2>15 DEF Executes
<1>3. ASSUME NEW w \in Worker, Books(w) PROVE Core'
  <2>1. CASE BookInsert(w)
    BY <2>1, BookInsertTurns, CoreTurn, Places
       DEF Core, BookInsert, At, papers, Holding, Booking
  <2>2. CASE BookClash(w)
    BY <2>2, BookClashLeaves, CoreLeft DEF Core, BookClash, At, papers, Booking
  <2>3. CASE BookFound(w)
    BY <2>3, BookFoundTurns, CoreTurn, Places
       DEF Core, BookFound, At, papers, Holding, Booking
  <2>4. CASE BookRoll(w)
    BY <2>4, BookRollTurns, CoreTurn, Places
       DEF Core, BookRoll, At, papers, Holding, Booking
  <2>5. CASE BookOpen(w)
    BY <2>5, BookOpenTurns, CoreTurn, Places
       DEF Core, BookOpen, At, papers, Holding, Booking
  <2>6. CASE BookShare(w)
    BY <2>6, BookShareTurns, CoreTurn, Places
       DEF Core, BookShare, papers, Holding, Booking
  <2>7. CASE BookNote(w)
    BY <2>7, BookNoteTurns, CoreTurn, Places
       DEF Core, BookNote, At, papers, Holding, Booking
  <2>8. CASE Booked(w)
    BY <2>8, BookedLeaves, CoreLeft DEF Core, Booked, At, papers, Booking
  <2> QED BY <1>3, <2>1, <2>2, <2>3, <2>4, <2>5, <2>6, <2>7, <2>8 DEF Books
<1>4. ASSUME NEW w \in Worker, Die(w) PROVE Core'
  <2>1. UNCHANGED <<approval, shown, filed>>
    BY <1>4 DEF Die, papers
  <2>2. CASE Quits(w)
    BY <2>1, <2>2, CoreQuits DEF RowsMove
  <2>3. CASE worker[w].pc \in Booking /\ Left(w)
    BY <2>1, <2>3, CoreLeft
  <2> QED BY <1>4, <2>2, <2>3, DieLeaves DEF Core
<1>5. ASSUME NEW w \in Worker, NEW s \in Swap,
             RequestInsert(w, s) \/ Claim(w, s) \/ Reconcile(w, s)
      PROVE Core'
  BY <1>5, RequestInsertCore, ClaimCore, ReconcileCore
<1>6. ASSUME NEW w \in Worker, NEW s \in Swap, NEW d \in {"approved", "rejected"},
             DecideRead(w, s, d)
      PROVE Core'
  BY <1>6, DecideReadCore
<1>7. ASSUME NEW s \in Swap, Settle(s) \/ Expire(s) PROVE Core'
  <2>1. TypeOK' /\ Named'
    BY <1>7, SettleTypes, ExpireTypes DEF Core
  <2>2. UNCHANGED <<approval, shown, filed, worker>>
    BY <1>7 DEF Settle, Expire, papers
  <2>3. (Papers /\ Claimed /\ Locked)'
    BY <2>2 DEF Core, Papers, OneMover, OnePlace, Cards, Rows, Open, Claimed, Carries, Locked
  <2> QED BY <2>1, <2>3 DEF Core
<1>8. CASE UNCHANGED vars
  BY <1>8 DEF vars, papers, network, Core, TypeOK, Named, Papers, OneMover, OnePlace, Cards,
              Rows, Open, Claimed, Carries, Locked
<1> QED BY <1>1, <1>2, <1>3, <1>4, <1>5, <1>6, <1>7, <1>8 DEF Next

-----------------------------------------------------------------------------
(* Sending and VerdictIsTrue are inductive on Core.                        *)
(* Nothing becomes unclaimed.                                              *)
RowsForward ==
    \A s \in Swap : approval'[s] \notin {"resuming", "resumed"} =>
        approval[s] \notin {"resuming", "resumed"}

LEMMA TruthKept ==
    ASSUME Truth, NEW w \in Worker, Only(w), RowsForward, UNCHANGED <<exec, fate, sent>>,
           Place(w)', Alone(w)'
    PROVE  Truth'
<1>1. \A v \in Worker : Place(v)' /\ Alone(v)'
  <2> TAKE v \in Worker
  <2>1. CASE v = w
    BY <2>1
  <2>2. CASE v # w
    BY <2>2 DEF Truth, Sending, Place, Alone, Only, Unsent
  <2> QED BY <2>1, <2>2
<1>2. Sending'
  BY <1>1 DEF Truth, Sending, RowsForward, Unsent
<1> QED BY <1>2 DEF Truth, VerdictIsTrue

(* A call that holds the lock of the chain changes its own swap.           *)
LEMMA TruthLocal ==
    ASSUME Core, Truth, NEW w \in Worker, Only(w), UNCHANGED approval,
           NEW s \in Swap, worker[w].pc \in Holding, worker[w].swap = s,
           \A t \in Swap : t # s =>
               exec'[t] = exec[t] /\ fate'[t] = fate[t] /\ sent'[t] = sent[t],
           Place(w)', Alone(w)',
           approval[s] \in {"resuming", "resumed"},
           sent'[s] = 0 <=> fate'[s] = "none",
           sent'[s] <= 1,
           fate'[s] # "none" => exec'[s].status # "none",
           exec'[s].status = "failed" => fate'[s] \in {"none", "failed", "short"},
           exec'[s].status = "confirmed" => fate'[s] = "landed"
    PROVE  Truth'
<1>1. \A v \in Worker : worker[v].pc \in Holding => worker[v].swap \in Swap
  BY DEF Core, Named, Holding, InProvider, Booking
<1>2. \A v \in Worker : v # w /\ worker[v].pc \in Holding =>
          worker[v].swap # s /\ ChainOf[worker[v].swap] # ChainOf[s]
  BY DEF Core, Locked
<1>3. \A v \in Worker : v # w /\ worker[v].pc = "claimed" => worker[v].swap # s
  <2> SUFFICES ASSUME NEW v \in Worker, v # w, worker[v].pc = "claimed", worker[v].swap = s
               PROVE  FALSE
    OBVIOUS
  <2>1. Carries(v, s)
    BY DEF Carries, Core, Claimed, Booking
  <2>2. ~Carries(w, s)
    BY <2>1 DEF Core, Claimed
  <2>3. worker[w].pc \in Booking \union {"asking"}
    BY <2>2 DEF Carries, Core, Claimed, Holding
  <2>4. exec[s].status = "none" /\ fate[s] = "none"
    BY DEF Truth, Sending, Place, Unsent
  <2>5. fate[s] = "landed" \/ exec[s].status = "submitted"
    BY <2>3 DEF Truth, Sending, Place
  <2> QED BY <2>4, <2>5
<1>4. \A v \in Worker : Place(v)' /\ Alone(v)'
  <2> TAKE v \in Worker
  <2>1. CASE v = w
    BY <2>1
  <2>2. CASE v # w
    <3> DEFINE x == worker[v].swap
    <3>1. worker'[v] = worker[v]
      BY <2>2 DEF Only
    <3>2. CASE worker[v].pc \in Holding \union {"claimed"}
      <4>1. x \in Swap /\ x # s
        BY <1>1, <1>2, <1>3, <2>2, <3>2 DEF Core, Named
      <4>2. exec'[x] = exec[x] /\ fate'[x] = fate[x] /\ sent'[x] = sent[x]
        BY <4>1
      <4>3. Place(v)'
        BY <3>1, <4>2 DEF Truth, Sending, Place, Unsent
      <4>4. Alone(v)'
        <5>1. worker[v].pc \in {"quoting", "submitting", "signed"} => ChainOf[x] # ChainOf[s]
          BY <1>2, <2>2 DEF Holding, InProvider
        <5> QED BY <3>1, <5>1 DEF Truth, Sending, Alone
      <4> QED BY <4>3, <4>4
    <3>3. CASE worker[v].pc \notin Holding \union {"claimed"}
      BY <3>1, <3>3 DEF Place, Alone, Holding, InProvider
    <3> QED BY <3>2, <3>3
  <2> QED BY <2>1, <2>2
<1>5. \A t \in Swap :
          /\ approval'[t] \notin {"resuming", "resumed"} =>
                exec'[t].status = "none" /\ ~exec'[t].known /\ sent'[t] = 0 /\ fate'[t] = "none"
          /\ sent'[t] = 0 <=> fate'[t] = "none"
          /\ sent'[t] <= 1
  <2> TAKE t \in Swap
  <2>1. CASE t = s
    BY <2>1
  <2>2. CASE t # s
    BY <2>2 DEF Truth, Sending, Unsent
  <2> QED BY <2>1, <2>2
<1>6. VerdictIsTrue'
  <2>1. \A t \in Swap :
          /\ fate'[t] # "none" => exec'[t].status # "none"
          /\ exec'[t].status = "failed" => fate'[t] \in {"none", "failed", "short"}
          /\ exec'[t].status = "confirmed" => fate'[t] = "landed"
    <3> TAKE t \in Swap
    <3>1. CASE t = s
      BY <3>1
    <3>2. CASE t # s
      BY <3>2 DEF Truth, VerdictIsTrue
    <3> QED BY <3>1, <3>2
  <2> QED BY <2>1 DEF VerdictIsTrue
<1> QED BY <1>4, <1>5, <1>6 DEF Truth, Sending, Unsent

(* Outside the places that Place and Alone speak of.                       *)
LEMMA NoPlace ==
    ASSUME NEW w \in Worker, worker'[w].pc \notin Holding \union {"claimed"}
    PROVE  Place(w)' /\ Alone(w)'
BY DEF Place, Alone, Holding, InProvider

LEMMA TruthDecides ==
    ASSUME Core, Truth, NEW w \in Worker, Decides(w)
    PROVE  Truth'
<1>1. Only(w) /\ worker'[w].pc \notin Holding \union {"claimed"}
  <2>1. CASE RequestShow(w)
    BY <2>1, RequestShowQuits DEF Core, Quits, Holding, InProvider, Booking
  <2>2. CASE DecideReplace(w)
    BY <2>2, DecideReplaceTurns DEF Core, Holding, InProvider, Booking
  <2>3. CASE DecideFile(w)
    BY <2>3, DecideFileTurns DEF Core, Turn, Holding, InProvider, Booking
  <2>4. CASE DecideNote(w)
    BY <2>4, DecideNoteTurns DEF Core, Papers, Turn, Quits, Holding, InProvider, Booking
  <2> QED BY <2>1, <2>2, <2>3, <2>4 DEF Decides
<1>2. UNCHANGED <<exec, fate, sent>>
  BY DEF Decides, RequestShow, DecideReplace, DecideFile, DecideNote, network
<1>3. RowsForward
  <2>1. CASE DecideNote(w)
    <3>1. worker[w].swap \in Swap /\ approval[worker[w].swap] = "pending"
      BY <2>1, DecideNoteTurns DEF Core, Papers, Rows, DecideNote, At
    <3> QED BY <2>1, <3>1, DecideNoteTurns DEF Core, Papers, TypeOK, RowsForward
  <2>2. CASE ~DecideNote(w)
    BY <2>2 DEF Decides, RequestShow, DecideReplace, DecideFile, RowsForward
  <2> QED BY <2>1, <2>2
<1> QED BY <1>1, <1>2, <1>3, NoPlace, TruthKept

LEMMA TruthQuits ==
    ASSUME Core, Truth, NEW w \in Worker, Quits(w), RowsForward, UNCHANGED <<exec, fate, sent>>
    PROVE  Truth'
<1>1. Only(w) /\ worker'[w].pc \notin Holding \union {"claimed"}
  BY DEF Quits, Holding, InProvider, Booking
<1> QED BY <1>1, NoPlace, TruthKept

LEMMA TruthLeft ==
    ASSUME Core, Truth, NEW w \in Worker, Left(w), RowsForward, UNCHANGED <<exec, fate, sent>>
    PROVE  Truth'
<1>1. Only(w) /\ worker'[w].pc \notin Holding \union {"claimed"}
  BY DEF Left, Quits, Turn, Holding, InProvider, Booking
<1> QED BY <1>1, NoPlace, TruthKept

(* A step of the booking that does not end it.                             *)
LEMMA TruthBooks ==
    ASSUME Core, Truth, NEW w \in Worker, NEW pc \in Booking, Turn(w, pc),
           worker[w].pc \in Booking, UNCHANGED <<approval, exec, fate, sent>>
    PROVE  Truth'
<1>1. Only(w) /\ worker'[w].pc = pc /\ worker'[w].swap = worker[w].swap
  BY DEF Turn
<1>2. Place(w)'
  BY <1>1 DEF Truth, Sending, Place, Booking
<1>3. Alone(w)'
  BY <1>1 DEF Alone, Booking
<1> QED BY <1>1, <1>2, <1>3, TruthKept DEF RowsForward

LEMMA TruthClaim ==
    ASSUME Core, Truth, NEW w \in Worker, NEW s \in Swap, Claim(w, s)
    PROVE  Truth'
<1>1. Only(w) /\ worker'[w].pc = "claimed" /\ worker'[w].swap = s
  BY ClaimStarts DEF Core, Starts
<1>2. /\ approval[s] = "approved" /\ approval' = [approval EXCEPT ![s] = "resuming"]
      /\ UNCHANGED <<exec, fate, sent>>
  BY DEF Claim, Claimable, network
<1>3. exec[s].status = "none" /\ ~exec[s].known /\ Unsent(s)
  BY <1>2 DEF Truth, Sending
<1>4. Place(w)' /\ Alone(w)'
  BY <1>1, <1>2, <1>3 DEF Place, Alone, Unsent, Booking
<1>5. RowsForward
  BY <1>2 DEF RowsForward, Core, TypeOK
<1> QED BY <1>1, <1>2, <1>4, <1>5, TruthKept

LEMMA TruthQuote ==
    ASSUME Core, Truth, NEW w \in Worker, Quote(w)
    PROVE  Truth'
<1> DEFINE s == worker[w].swap
<1>1. Only(w) /\ worker'[w].pc = "quoting" /\ worker'[w].swap = s /\ s \in Swap
  BY QuoteTurns DEF Core, Turn
<1>2. /\ worker[w].pc = "claimed" /\ UNCHANGED <<approval, exec, fate, sent>>
      /\ \A t \in Swap : ChainOf[t] = ChainOf[s] => exec[t].status \notin Unresolved
  BY DEF Quote, At, Admissible, papers, network
<1>3. exec[s].status = "none" /\ ~exec[s].known /\ Unsent(s)
  BY <1>2 DEF Truth, Sending, Place
<1>4. Place(w)'
  BY <1>1, <1>2, <1>3 DEF Place, Unsent, Booking
<1>5. Alone(w)'
  BY <1>1, <1>2 DEF Alone
<1> QED BY <1>1, <1>2, <1>4, <1>5, TruthKept DEF RowsForward

LEMMA TruthReconcile ==
    ASSUME Core, Truth, NEW w \in Worker, NEW s \in Swap, Reconcile(w, s)
    PROVE  Truth'
<1>1. /\ Only(w) /\ worker'[w].swap = s
      /\ exec[s].status = "confirmed" => worker'[w].pc = "booking"
      /\ exec[s].status # "confirmed" => worker'[w].pc = "asking"
  BY ReconcileStarts DEF Core, Starts
<1>2. /\ exec[s].status = "confirmed" \/ exec[s].status = "submitted"
      /\ UNCHANGED <<approval, exec, fate, sent>>
  BY DEF Reconcile, LooksUp, papers, network
<1>3. exec[s].status = "confirmed" => fate[s] = "landed"
  BY DEF Truth, VerdictIsTrue
<1>4. Place(w)' /\ Alone(w)'
  BY <1>1, <1>2, <1>3 DEF Place, Alone, Booking
<1> QED BY <1>1, <1>2, <1>4, TruthKept DEF RowsForward

LEMMA TruthAskLanded ==
    ASSUME Core, Truth, NEW w \in Worker, AskLanded(w)
    PROVE  Truth'
<1>1. /\ Only(w) /\ worker'[w].pc = "booking" /\ worker'[w].swap = worker[w].swap
  BY AskLandedTurns DEF Core, Turn
<1>2. /\ worker[w].pc = "asking" /\ fate[worker[w].swap] = "landed"
      /\ UNCHANGED <<approval, exec, fate, sent>>
  BY DEF AskLanded, At, papers, network
<1>3. Place(w)' /\ Alone(w)'
  BY <1>1, <1>2 DEF Truth, Sending, Place, Alone, Booking
<1> QED BY <1>1, <1>2, <1>3, TruthKept DEF RowsForward

-----------------------------------------------------------------------------
(* The steps that write the state file or reach the network.               *)

(* A call that carries a swap has claimed it.                              *)
LEMMA CarriedIsClaimed ==
    ASSUME Core, NEW w \in Worker, worker[w].pc \in InProvider \union {"quoting"}
    PROVE  /\ worker[w].swap \in Swap /\ worker[w].pc \in Holding
           /\ approval[worker[w].swap] = "resuming" /\ ~worker[w].again
<1>1. worker[w].swap \in Swap
  BY DEF Core, Named, InProvider
<1>2. ~worker[w].again
  BY DEF Core, Claimed, InProvider, Booking
<1>3. Carries(w, worker[w].swap)
  BY <1>2 DEF Carries
<1> QED BY <1>1, <1>2, <1>3 DEF Core, Claimed, Holding

(* What is looked up or booked was claimed once.                           *)
LEMMA SubmittedIsClaimed ==
    ASSUME Core, Truth, NEW w \in Worker, worker[w].pc \in Booking \union {"asking"}
    PROVE  /\ worker[w].swap \in Swap /\ worker[w].pc \in Holding
           /\ approval[worker[w].swap] \in {"resuming", "resumed"}
<1>1. worker[w].swap \in Swap
  BY DEF Core, Named, Booking
<1>2. exec[worker[w].swap].status # "none"
  BY DEF Truth, Sending, Place
<1> QED BY <1>1, <1>2 DEF Truth, Sending, Holding

LEMMA TruthBegin ==
    ASSUME Core, Truth, NEW w \in Worker, Begin(w)
    PROVE  Truth'
<1> DEFINE s == worker[w].swap
<1>1. worker[w].pc = "quoting" /\ UNCHANGED <<approval, fate, sent>> /\ Write(s, "submitting")
  BY DEF Begin, At, papers, network
<1>2. /\ s \in Swap /\ worker[w].pc \in Holding /\ approval[s] = "resuming"
  BY <1>1, CarriedIsClaimed
<1>3. Only(w) /\ worker'[w].pc = "submitting" /\ worker'[w].swap = s
  BY BeginTurns DEF Core, Turn
<1>4. /\ exec'[s].status = "submitting" /\ exec'[s].known = exec[s].known
      /\ \A t \in Swap : t # s => exec'[t] = exec[t]
  BY <1>1, <1>2, WritesStatus DEF Core, Unresolved
<1>5. ~exec[s].known /\ Unsent(s)
  BY <1>1 DEF Truth, Sending, Place
<1>6. Place(w)'
  BY <1>1, <1>3, <1>4, <1>5 DEF Place, Unsent, Booking
<1>7. Alone(w)'
  <2>1. Alone(w)
    BY DEF Truth, Sending
  <2> QED BY <1>1, <1>3, <1>4, <2>1 DEF Alone
<1>8. sent'[s] = 0 /\ fate'[s] = "none"
  BY <1>1, <1>5 DEF Unsent
<1> QED BY <1>1, <1>2, <1>3, <1>4, <1>6, <1>7, <1>8, TruthLocal

LEMMA TruthRecord ==
    ASSUME Core, Truth, NEW w \in Worker, Record(w)
    PROVE  Truth'
<1> DEFINE s == worker[w].swap
<1>1. /\ worker[w].pc \in {"submitting", "sent"} /\ UNCHANGED <<approval, fate, sent>>
      /\ exec' = [exec EXCEPT ![s].status = "submitted", ![s].known = TRUE]
  BY DEF Record, At, papers, network
<1>2. s \in Swap /\ worker[w].pc \in Holding /\ approval[s] = "resuming"
  BY <1>1, CarriedIsClaimed DEF InProvider
<1>3. /\ Only(w) /\ worker'[w].swap = s
      /\ \/ worker[w].pc = "submitting" /\ worker'[w].pc = "signed"
         \/ worker[w].pc = "sent" /\ worker'[w].pc = "sent"
  BY RecordTurns DEF Core, Turn
<1>4. /\ exec'[s].status = "submitted" /\ exec'[s].known
      /\ \A t \in Swap : t # s => exec'[t] = exec[t]
  BY <1>1, <1>2 DEF Core, TypeOK, Exec
<1>5. /\ worker[w].pc = "submitting" => Unsent(s)
      /\ worker[w].pc = "sent" => fate[s] # "none"
  BY DEF Truth, Sending, Place
<1>6. Place(w)'
  BY <1>1, <1>3, <1>4, <1>5 DEF Place, Unsent, Booking
<1>7. Alone(w)'
  <2>1. Alone(w)
    BY DEF Truth, Sending
  <2> QED BY <1>1, <1>3, <1>4, <2>1 DEF Alone
<1>8. (sent'[s] = 0 <=> fate'[s] = "none") /\ sent'[s] <= 1
  BY <1>1, <1>2 DEF Truth, Sending
<1> QED BY <1>1, <1>2, <1>3, <1>4, <1>6, <1>7, <1>8, TruthLocal

LEMMA TruthSend ==
    ASSUME Core, Truth, NEW w \in Worker, Send(w)
    PROVE  Truth'
<1> DEFINE s == worker[w].swap
<1>1. /\ worker[w].pc \in {"submitting", "signed"} /\ UNCHANGED <<approval, exec>>
      /\ fate' = [fate EXCEPT ![s] = "pending"] /\ sent' = [sent EXCEPT ![s] = @ + 1]
  BY DEF Send, At, papers
<1>2. s \in Swap /\ worker[w].pc \in Holding /\ approval[s] = "resuming"
  BY <1>1, CarriedIsClaimed DEF InProvider
<1>3. Only(w) /\ worker'[w].swap = s /\ worker'[w].pc = "sent"
  BY SendTurns DEF Core, Turn
<1>4. Unsent(s) /\ exec[s].status \in {"submitting", "submitted"}
  BY <1>1 DEF Truth, Sending, Place
<1>5. /\ fate'[s] = "pending" /\ sent'[s] = 1
      /\ \A t \in Swap : t # s => fate'[t] = fate[t] /\ sent'[t] = sent[t]
  BY <1>1, <1>2, <1>4 DEF Core, TypeOK, Unsent
<1>6. exec[s].status = IF exec[s].known THEN "submitted" ELSE "submitting"
  <2>1. worker[w].pc = "submitting" => exec[s].status = "submitting" /\ ~exec[s].known
    BY DEF Truth, Sending, Place
  <2>2. worker[w].pc = "signed" => exec[s].status = "submitted" /\ exec[s].known
    BY DEF Truth, Sending, Place
  <2> QED BY <1>1, <2>1, <2>2
<1>7. Place(w)' /\ Alone(w)'
  BY <1>1, <1>3, <1>5, <1>6 DEF Place, Alone, Booking
<1> QED BY <1>1, <1>2, <1>3, <1>4, <1>5, <1>7, TruthLocal

LEMMA TruthRaise ==
    ASSUME Core, Truth, NEW w \in Worker, Raise(w)
    PROVE  Truth'
<1> DEFINE s == worker[w].swap
<1>1. /\ worker[w].pc \in InProvider /\ UNCHANGED <<approval, fate, sent>>
  BY DEF Raise, papers, network
<1>2. PICK st \in Raised(w, s) : Write(s, st)
  BY DEF Raise
<1>3. /\ st \in {"submitted", "failed", "unknown"}
      /\ st = "failed" => worker[w].pc = "submitting"
  BY <1>2 DEF Raised, At
<1>4. s \in Swap /\ worker[w].pc \in Holding /\ approval[s] = "resuming"
  BY <1>1, CarriedIsClaimed
<1>5. Only(w) /\ worker'[w].swap = s /\ worker'[w].pc = "finish"
  BY RaiseTurns DEF Core, Turn
<1>6. exec'[s].status = st /\ \A t \in Swap : t # s => exec'[t] = exec[t]
  BY <1>2, <1>3, <1>4, WritesStatus DEF Core, Unresolved
<1>7. st = "failed" => fate[s] = "none"
  BY <1>3 DEF Truth, Sending, Place, Unsent
<1>8. (sent'[s] = 0 <=> fate'[s] = "none") /\ sent'[s] <= 1
  BY <1>1, <1>4 DEF Truth, Sending
<1>9. Place(w)' /\ Alone(w)'
  BY <1>5, NoPlace DEF Holding, InProvider, Booking
<1> QED BY <1>1, <1>3, <1>4, <1>5, <1>6, <1>7, <1>8, <1>9, TruthLocal

LEMMA TruthAnswers ==
    ASSUME Core, Truth, NEW w \in Worker,
           AnswerConfirmed(w) \/ AnswerFailed(w) \/ AnswerOpen(w)
    PROVE  Truth'
<1> DEFINE s == worker[w].swap
<1>1. worker[w].pc = "sent" /\ UNCHANGED <<approval, fate, sent>>
  BY DEF AnswerConfirmed, AnswerFailed, AnswerOpen, At, papers, network
<1>2. s \in Swap /\ worker[w].pc \in Holding /\ approval[s] = "resuming"
  BY <1>1, CarriedIsClaimed DEF InProvider
<1>3. PICK st \in {"confirmed", "failed", "submitted", "unknown"} :
         /\ Write(s, st)
         /\ st = "confirmed" => fate[s] = "landed" /\ Turn(w, "booking")
         /\ st = "failed" => fate[s] \in {"failed", "short"}
         /\ st # "confirmed" => Turn(w, "finish")
  BY AnswerConfirmedTurns, AnswerFailedTurns, AnswerOpenTurns
     DEF Core, AnswerConfirmed, AnswerFailed, AnswerOpen
<1>4. exec'[s].status = st /\ \A t \in Swap : t # s => exec'[t] = exec[t]
  BY <1>2, <1>3, WritesStatus DEF Core, Unresolved
<1>5. (sent'[s] = 0 <=> fate'[s] = "none") /\ sent'[s] <= 1
  BY <1>1, <1>2 DEF Truth, Sending
<1>6. Only(w) /\ worker'[w].swap = s
  BY <1>3 DEF Turn
<1>7. Place(w)' /\ Alone(w)'
  <2>1. CASE st = "confirmed"
    BY <1>1, <1>3, <1>4, <1>6, <2>1 DEF Turn, Place, Alone, Booking
  <2>2. CASE st # "confirmed"
    BY <1>3, <2>2, NoPlace DEF Turn, Holding, InProvider, Booking
  <2> QED BY <2>1, <2>2
<1> QED BY <1>1, <1>2, <1>3, <1>4, <1>5, <1>6, <1>7, TruthLocal

LEMMA TruthAskFailed ==
    ASSUME Core, Truth, NEW w \in Worker, AskFailed(w)
    PROVE  Truth'
<1> DEFINE s == worker[w].swap
<1>1. /\ worker[w].pc = "asking" /\ fate[s] = "failed" /\ Write(s, "failed")
      /\ UNCHANGED <<approval, fate, sent>>
  BY DEF AskFailed, At, papers, network
<1>2. s \in Swap /\ worker[w].pc \in Holding /\ approval[s] \in {"resuming", "resumed"}
  BY <1>1, SubmittedIsClaimed
<1>3. Only(w) /\ worker'[w].pc = "idle"
  BY AskFailedQuits DEF Core, Quits
<1>4. exec'[s].status = "failed" /\ \A t \in Swap : t # s => exec'[t] = exec[t]
  BY <1>1, <1>2, WritesStatus DEF Core
<1>5. (sent'[s] = 0 <=> fate'[s] = "none") /\ sent'[s] <= 1
  BY <1>1, <1>2 DEF Truth, Sending
<1>6. Place(w)' /\ Alone(w)'
  BY <1>3, NoPlace DEF Holding, InProvider, Booking
<1> QED BY <1>1, <1>2, <1>3, <1>4, <1>5, <1>6, TruthLocal

LEMMA TruthBooked ==
    ASSUME Core, Truth, NEW w \in Worker, Booked(w)
    PROVE  Truth'
<1> DEFINE s == worker[w].swap
<1>1. /\ worker[w].pc = "applying" /\ UNCHANGED <<approval, fate, sent>>
      /\ exec' = [exec EXCEPT ![s].status = "confirmed", ![s].booked = TRUE]
  BY DEF Booked, At, papers, network
<1>2. s \in Swap /\ worker[w].pc \in Holding /\ approval[s] \in {"resuming", "resumed"}
  BY <1>1, SubmittedIsClaimed DEF Booking
<1>3. Only(w) /\ worker'[w].pc \in {"idle", "finish"}
  BY BookedLeaves DEF Core, Left, Quits, Turn
<1>4. exec'[s].status = "confirmed" /\ \A t \in Swap : t # s => exec'[t] = exec[t]
  BY <1>1, <1>2 DEF Core, TypeOK, Exec
<1>5. fate[s] = "landed"
  BY <1>1 DEF Truth, Sending, Place, Booking
<1>6. (sent'[s] = 0 <=> fate'[s] = "none") /\ sent'[s] <= 1
  BY <1>1, <1>2 DEF Truth, Sending
<1>7. Place(w)' /\ Alone(w)'
  BY <1>3, NoPlace DEF Holding, InProvider, Booking
<1> QED BY <1>1, <1>2, <1>3, <1>4, <1>5, <1>6, <1>7, TruthLocal

LEMMA TruthSettle ==
    ASSUME Core, Truth, NEW s \in Swap, Settle(s)
    PROVE  Truth'
<1>1. fate[s] = "pending" /\ UNCHANGED <<approval, exec, sent, worker>>
  BY DEF Settle, papers
<1>2. /\ fate'[s] \in Ends
      /\ \A t \in Swap : t # s => fate'[t] = fate[t]
  BY DEF Settle, Core, TypeOK
<1>7. fate'[s] # "none" /\ fate'[s] # "pending"
  BY <1>2 DEF Ends
<1>3. \A w \in Worker : Place(w)' /\ Alone(w)'
  <2> TAKE w \in Worker
  <2>1. worker[w].pc \in Holding \union {"claimed"} => worker[w].swap \in Swap
    BY DEF Core, Named, Holding, InProvider, Booking
  <2>2. Place(w)'
    BY <1>1, <1>2, <1>7, <2>1 DEF Truth, Sending, Place, Unsent, Holding, InProvider
  <2>3. Alone(w)'
    BY <1>1 DEF Truth, Sending, Alone
  <2> QED BY <2>2, <2>3
<1>4. \A t \in Swap : fate'[t] = "none" <=> fate[t] = "none"
  BY <1>1, <1>2, <1>7
<1>5. Sending'
  BY <1>1, <1>3, <1>4 DEF Truth, Sending, Unsent
<1>6. VerdictIsTrue'
  <2>1. exec[s].status \notin {"failed", "confirmed"} /\ exec[s].status # "none"
    BY <1>1 DEF Truth, VerdictIsTrue
  <2> QED BY <1>1, <1>2, <2>1 DEF Truth, VerdictIsTrue
<1> QED BY <1>5, <1>6 DEF Truth

LEMMA TruthStep ==
    ASSUME SwapAssumption, Core, Truth, [Next]_vars
    PROVE  Truth'
<1>1. ASSUME NEW w \in Worker, Decides(w) PROVE Truth'
  BY <1>1, TruthDecides
<1>2. ASSUME NEW w \in Worker, Executes(w) PROVE Truth'
  <2>1. CASE NotClaimed(w) \/ AskOpen(w) \/ Finish(w)
    <3>1. Quits(w) /\ UNCHANGED <<exec, fate, sent>>
      BY <2>1, NotClaimedQuits, AskOpenQuits, FinishQuits
         DEF Core, NotClaimed, AskOpen, Finish, network
    <3>2. RowsForward
      BY <2>1, FinishQuits DEF NotClaimed, AskOpen, Finish, papers, RowsForward, Core, TypeOK
    <3> QED BY <3>1, <3>2, TruthQuits
  <2>2. CASE Refuse(w)
    <3>1. Only(w) /\ worker'[w].pc = "finish"
      BY <2>2, RefuseTurns DEF Core, Turn
    <3>2. Place(w)' /\ Alone(w)'
      BY <3>1, NoPlace DEF Holding, InProvider, Booking
    <3> QED BY <2>2, <3>1, <3>2, TruthKept DEF Refuse, papers, network, RowsForward
  <2>3. CASE \E s \in Swap : Claim(w, s) /\ At(w, "dispatch")
    BY <2>3, TruthClaim
  <2> QED BY <1>2, <2>1, <2>2, <2>3, TruthQuote, TruthBegin, TruthRecord, TruthSend, TruthRaise,
             TruthAnswers, TruthAskLanded, TruthAskFailed DEF Executes
<1>3. ASSUME NEW w \in Worker, Books(w) PROVE Truth'
  <2>1. CASE BookInsert(w)
    BY <2>1, BookInsertTurns, TruthBooks DEF Core, BookInsert, At, papers, network, Booking
  <2>2. CASE BookClash(w)
    BY <2>2, BookClashLeaves, TruthLeft DEF Core, BookClash, papers, network, RowsForward
  <2>3. CASE BookFound(w)
    BY <2>3, BookFoundTurns, TruthBooks DEF Core, BookFound, At, papers, network, Booking
  <2>4. CASE BookRoll(w)
    BY <2>4, BookRollTurns, TruthBooks DEF Core, BookRoll, At, papers, network, Booking
  <2>5. CASE BookOpen(w)
    BY <2>5, BookOpenTurns, TruthBooks DEF Core, BookOpen, At, papers, network, Booking
  <2>6. CASE BookShare(w)
    BY <2>6, BookShareTurns, TruthBooks DEF Core, BookShare, papers, network, Booking
  <2>7. CASE BookNote(w)
    BY <2>7, BookNoteTurns, TruthBooks DEF Core, BookNote, At, papers, network, Booking
  <2>8. CASE Booked(w)
    BY <2>8, TruthBooked
  <2> QED BY <1>3, <2>1, <2>2, <2>3, <2>4, <2>5, <2>6, <2>7, <2>8 DEF Books
<1>4. ASSUME NEW w \in Worker, Die(w) PROVE Truth'
  <2>1. UNCHANGED <<approval, exec, fate, sent>>
    BY <1>4 DEF Die, papers, network
  <2>2. RowsForward
    BY <2>1 DEF RowsForward
  <2> QED BY <1>4, <2>1, <2>2, DieLeaves, TruthQuits, TruthLeft DEF Core
<1>5. ASSUME NEW w \in Worker, NEW s \in Swap,
             RequestInsert(w, s) \/ Claim(w, s) \/ Reconcile(w, s)
      PROVE Truth'
  <2>1. CASE RequestInsert(w, s)
    <3>1. Only(w) /\ worker'[w].pc = "asked"
      BY <2>1, RequestInsertStarts DEF Core, Starts
    <3>2. Place(w)' /\ Alone(w)'
      BY <3>1, NoPlace DEF Holding, InProvider, Booking
    <3>3. RowsForward
      BY <2>1 DEF RequestInsert, RowsForward, Core, TypeOK
    <3> QED BY <2>1, <3>1, <3>2, <3>3, TruthKept DEF RequestInsert, network
  <2> QED BY <1>5, <2>1, TruthClaim, TruthReconcile
<1>6. ASSUME NEW w \in Worker, NEW s \in Swap, NEW d \in {"approved", "rejected"},
             DecideRead(w, s, d)
      PROVE Truth'
  <2>1. Only(w) /\ worker'[w].pc = "deciding"
    BY <1>6, DecideReadStarts DEF Core
  <2>2. Place(w)' /\ Alone(w)'
    BY <2>1, NoPlace DEF Holding, InProvider, Booking
  <2> QED BY <1>6, <2>1, <2>2, TruthKept DEF DecideRead, papers, network, RowsForward
<1>7. ASSUME NEW s \in Swap, Settle(s) \/ Expire(s) PROVE Truth'
  <2>1. CASE Settle(s)
    BY <2>1, TruthSettle
  <2>2. CASE Expire(s)
    BY <2>2 DEF Expire, network, Truth, Sending, VerdictIsTrue, Place, Alone, Unsent
  <2> QED BY <1>7, <2>1, <2>2
<1>8. CASE UNCHANGED vars
  BY <1>8 DEF vars, papers, network, Truth, Sending, VerdictIsTrue, Place, Alone, Unsent
<1> QED BY <1>1, <1>2, <1>3, <1>4, <1>5, <1>6, <1>7, <1>8 DEF Next

-----------------------------------------------------------------------------
(* Bookkeeping is inductive on Core.                                       *)
BookedSame == \A s \in Swap : exec'[s].booked = exec[s].booked

LEMMA BookKept ==
    ASSUME Core, Bookkeeping, NEW w \in Worker, Only(w), book' = book, torn' = torn,
           BookedSame, worker[w].pc \notin HalfWay, worker'[w].pc \notin HalfWay,
           worker'[w].pc = "applying" =>
               worker'[w].swap \in Swap /\ book[worker'[w].swap].rolled
    PROVE  Bookkeeping'
<1>1. \A s \in Swap : Quiet(s)' => Quiet(s)
  BY DEF Quiet, Only
<1>2. \A s \in Swap \ torn' : Quiet(s)' => Whole(s)'
  BY <1>1 DEF Bookkeeping, Whole
<1>3. \A s \in Swap \ torn' : exec'[s].booked =>
          book'[s].rolled /\ book'[s].event /\ book'[s].size = 1
  BY DEF Bookkeeping, BookedSame
<1>4. \A v \in Worker : worker'[v].swap \notin torn' => Half(v)'
  <2> SUFFICES ASSUME NEW v \in Worker, worker'[v].swap \notin torn'
               PROVE  Half(v)'
    OBVIOUS
  <2>1. CASE v = w
    BY <2>1 DEF Half, HalfWay
  <2>2. CASE v # w
    <3>1. worker'[v] = worker[v] /\ Half(v)
      BY <2>2 DEF Only, Bookkeeping
    <3>2. worker[v].pc \in HalfWay => worker[v].swap \in Swap
      BY DEF HalfWay, Core, Named
    <3> QED BY <3>1, <3>2 DEF Half, BookedSame, HalfWay
  <2> QED BY <2>1, <2>2
<1> QED BY <1>2, <1>3, <1>4 DEF Bookkeeping

LEMMA BookLocal ==
    ASSUME Core, Bookkeeping, NEW w \in Worker, Only(w), torn' = torn,
           NEW s \in Swap, worker[w].pc \in Booking, worker[w].swap = s,
           worker'[w].pc \in Booking => worker'[w].swap = s,
           \A t \in Swap : t # s => book'[t] = book[t] /\ exec'[t] = exec[t],
           s \notin torn => Half(w)',
           s \notin torn /\ worker'[w].pc \notin HalfWay => Whole(s)',
           s \notin torn /\ exec'[s].booked =>
               book'[s].rolled /\ book'[s].event /\ book'[s].size = 1
    PROVE  Bookkeeping'
<1>1. \A v \in Worker : v # w /\ worker[v].pc \in Booking =>
          worker[v].swap \in Swap /\ worker[v].swap # s
  <2> TAKE v \in Worker
  <2> HAVE v # w /\ worker[v].pc \in Booking
  <2>1. worker[v].pc \in Holding /\ worker[w].pc \in Holding
    BY DEF Holding
  <2>2. worker[v].swap \in Swap
    BY DEF Core, Named, Booking
  <2> QED BY <2>1, <2>2 DEF Core, Locked
<1>2. \A t \in Swap \ torn' : Quiet(t)' => Whole(t)'
  <2> TAKE t \in Swap \ torn'
  <2> HAVE Quiet(t)'
  <2>1. CASE t = s
    <3>1. worker'[w].pc \notin HalfWay
      BY <2>1 DEF Quiet, HalfWay, Booking
    <3> QED BY <2>1, <3>1
  <2>2. CASE t # s
    <3>1. Quiet(t)
      BY <2>2 DEF Quiet, Only
    <3> QED BY <2>2, <3>1 DEF Bookkeeping, Whole
  <2> QED BY <2>1, <2>2
<1>3. \A t \in Swap \ torn' : exec'[t].booked =>
          book'[t].rolled /\ book'[t].event /\ book'[t].size = 1
  <2> TAKE t \in Swap \ torn'
  <2>1. CASE t = s
    BY <2>1
  <2>2. CASE t # s
    BY <2>2 DEF Bookkeeping
  <2> QED BY <2>1, <2>2
<1>4. \A v \in Worker : worker'[v].swap \notin torn' => Half(v)'
  <2> SUFFICES ASSUME NEW v \in Worker, worker'[v].swap \notin torn'
               PROVE  Half(v)'
    OBVIOUS
  <2>1. CASE v = w /\ worker'[w].pc \in Booking
    BY <2>1
  <2>2. CASE v = w /\ worker'[w].pc \notin Booking
    BY <2>2 DEF Half, HalfWay, Booking
  <2>3. CASE v # w /\ worker[v].pc \in Booking
    <3>1. worker'[v] = worker[v] /\ Half(v)
      BY <2>3 DEF Only, Bookkeeping
    <3>2. book'[worker[v].swap] = book[worker[v].swap] /\ exec'[worker[v].swap] = exec[worker[v].swap]
      BY <1>1, <2>3
    <3> QED BY <3>1, <3>2 DEF Half
  <2>4. CASE v # w /\ worker[v].pc \notin Booking
    BY <2>4 DEF Half, HalfWay, Booking, Only
  <2> QED BY <2>1, <2>2, <2>3, <2>4
<1> QED BY <1>2, <1>3, <1>4 DEF Bookkeeping

(* Where the call that books a swap finds it.                              *)
LEMMA BookBefore ==
    ASSUME Core, Bookkeeping, NEW w \in Worker, worker[w].pc \in Booking,
           worker[w].swap \notin torn
    PROVE  /\ worker[w].swap \in Swap /\ book[worker[w].swap] \in Book
           /\ Half(w)
           /\ worker[w].pc \notin HalfWay => Whole(worker[w].swap)
           /\ exec[worker[w].swap].booked =>
                 /\ book[worker[w].swap].rolled /\ book[worker[w].swap].event
                 /\ book[worker[w].swap].size = 1
<1> DEFINE s == worker[w].swap
<1>1. s \in Swap
  BY DEF Core, Named, Booking
<1>2. book[s] \in Book
  BY <1>1 DEF Core, TypeOK
<1>3. ASSUME worker[w].pc \notin HalfWay PROVE Quiet(s)
  <2> SUFFICES ASSUME NEW v \in Worker, worker[v].swap = s, worker[v].pc \in HalfWay
               PROVE  FALSE
    BY DEF Quiet
  <2>1. worker[v].pc \in Holding /\ worker[w].pc \in Holding
    BY DEF Holding, HalfWay, Booking
  <2>2. v = w
    BY <2>1 DEF Core, Locked
  <2> QED BY <1>3, <2>2
<1> QED BY <1>1, <1>2, <1>3 DEF Bookkeeping

LEMMA BookWrites ==
    ASSUME Core, Bookkeeping, NEW w \in Worker,
           BookInsert(w) \/ BookRoll(w) \/ BookOpen(w) \/ BookShare(w) \/ BookNote(w)
    PROVE  Bookkeeping'
<1>0. worker[w].swap \in Swap
  BY DEF BookInsert, BookRoll, BookOpen, BookShare, BookNote, At, Core, Named
<1> PICK s \in Swap : s = worker[w].swap
  BY <1>0
<1>1. worker[w].pc \in Booking /\ s \in Swap /\ torn' = torn /\ exec' = exec
  BY DEF BookInsert, BookRoll, BookOpen, BookShare, BookNote, At, Booking, Core, Named
<1>2. \A t \in Swap : t # s => book'[t] = book[t]
  BY DEF BookInsert, BookRoll, BookOpen, BookShare, BookNote, Core, TypeOK
<1>3. book[s] \in Book
  BY <1>1 DEF Core, TypeOK
<1>4. ASSUME NEW pc \in Booking, Turn(w, pc),
             s \notin torn => /\ Half(w)'
                              /\ pc \notin HalfWay => Whole(s)'
                              /\ exec[s].booked =>
                                    book'[s].rolled /\ book'[s].event /\ book'[s].size = 1
      PROVE  Bookkeeping'
  <2>1. Only(w) /\ worker'[w].pc = pc /\ worker'[w].swap = s
    BY <1>4 DEF Turn
  <2> QED BY <1>1, <1>2, <1>4, <2>1, BookLocal
<1>5. CASE BookInsert(w)
  <2>1. Turn(w, "rolling") /\ "rolling" \in Booking /\ "rolling" \in HalfWay
    BY <1>5, BookInsertTurns DEF Core, Booking, HalfWay
  <2>2. worker'[w].pc = "rolling" /\ worker'[w].swap = s
    BY <2>1 DEF Turn
  <2>3. book'[s] = [book[s] EXCEPT !.fill = TRUE] /\ ~book[s].rolled /\ worker[w].pc = "booking"
    BY <1>1, <1>5 DEF BookInsert, At, Core, TypeOK
  <2>4. /\ book'[s].fill /\ book'[s].rolled = book[s].rolled /\ book'[s].event = book[s].event
        /\ book'[s].size = book[s].size
    BY <1>3, <2>3 DEF Book
  <2>5. ASSUME s \notin torn
        PROVE  ~book[s].event /\ book[s].size = 0 /\ ~exec[s].booked
    BY <1>1, <2>3, <2>5, BookBefore DEF HalfWay, Whole
  <2>6. s \notin torn => Half(w)'
    BY <1>1, <2>2, <2>3, <2>4, <2>5 DEF Half, HalfWay
  <2> QED BY <1>4, <2>1, <2>5, <2>6
<1>6. CASE BookRoll(w)
  <2>1. Turn(w, "applying") /\ "applying" \in Booking
    BY <1>6, BookRollTurns DEF Core, Booking
  <2>2. worker'[w].pc = "applying" /\ worker'[w].swap = s
    BY <2>1 DEF Turn
  <2>3. book'[s] = [book[s] EXCEPT !.rolled = TRUE] /\ worker[w].pc = "rolling"
    BY <1>1, <1>6 DEF BookRoll, At, Core, TypeOK
  <2>4. /\ book'[s].rolled = TRUE /\ book'[s].fill = book[s].fill
        /\ book'[s].event = book[s].event /\ book'[s].size = book[s].size
    BY <1>3, <2>3 DEF Book
  <2>5. ASSUME s \notin torn
        PROVE  book[s].fill = TRUE /\ ~book[s].event /\ book[s].size = 0 /\ ~exec[s].booked
    BY <1>1, <1>3, <2>3, <2>5, BookBefore DEF Half, HalfWay, Book
  <2>6. s \notin torn => Half(w)' /\ Whole(s)'
    BY <1>1, <2>2, <2>4, <2>5 DEF Half, HalfWay, Whole
  <2> QED BY <1>4, <2>1, <2>5, <2>6
<1>7. CASE BookOpen(w)
  <2>1. Turn(w, "sharing") /\ "sharing" \in Booking /\ "sharing" \in HalfWay
    BY <1>7, BookOpenTurns DEF Core, Booking, HalfWay
  <2>2. worker'[w].pc = "sharing" /\ worker'[w].swap = s
    BY <2>1 DEF Turn
  <2>3. book'[s] = [book[s] EXCEPT !.event = TRUE] /\ ~book[s].event /\ worker[w].pc = "applying"
    BY <1>1, <1>7 DEF BookOpen, Applies, At, Core, TypeOK
  <2>4. /\ book'[s].event /\ book'[s].fill = book[s].fill /\ book'[s].rolled = book[s].rolled
        /\ book'[s].size = book[s].size
    BY <1>3, <2>3 DEF Book
  <2>5. ASSUME s \notin torn
        PROVE  book[s].fill /\ book[s].rolled /\ book[s].size = 0 /\ ~exec[s].booked
    BY <1>1, <2>3, <2>5, BookBefore DEF HalfWay, Whole, Half
  <2>6. s \notin torn => Half(w)'
    BY <1>1, <2>2, <2>4, <2>5 DEF Half, HalfWay
  <2> QED BY <1>4, <2>1, <2>5, <2>6
<1>8. CASE BookShare(w)
  <2>1. book' = [book EXCEPT ![s].size = @ + 1]
    BY <1>8 DEF BookShare
  <2>2. /\ book'[s].size = book[s].size + 1 /\ book'[s].event = book[s].event
        /\ book'[s].fill = book[s].fill /\ book'[s].rolled = book[s].rolled
    BY <1>1, <1>3, <2>1 DEF Core, TypeOK, Book
  <2>3. CASE worker[w].pc = "applying" /\ Applies(s) /\ Turn(w, "noting")
    <3>1. "noting" \in Booking /\ "noting" \in HalfWay
      BY DEF Booking, HalfWay
    <3>2. worker'[w].pc = "noting" /\ worker'[w].swap = s /\ ~book[s].event
      BY <2>3 DEF Turn, Applies
    <3>3. ASSUME s \notin torn
          PROVE  book[s].fill /\ book[s].rolled /\ book[s].size = 0 /\ ~exec[s].booked
      BY <1>1, <2>3, <3>2, <3>3, BookBefore DEF HalfWay, Whole, Half
    <3>4. s \notin torn => Half(w)'
      BY <1>1, <2>2, <3>2, <3>3 DEF Half, HalfWay
    <3> QED BY <1>4, <2>3, <3>1, <3>3, <3>4
  <2>4. CASE worker[w].pc = "sharing" /\ Turn(w, "applying")
    <3>1. "applying" \in Booking
      BY DEF Booking
    <3>2. worker'[w].pc = "applying" /\ worker'[w].swap = s
      BY <2>4 DEF Turn
    <3>3. ASSUME s \notin torn
          PROVE  /\ book[s].fill = TRUE /\ book[s].rolled = TRUE /\ book[s].size = 0
                 /\ book[s].event /\ ~exec[s].booked
      BY <1>1, <1>3, <2>4, <3>3, BookBefore DEF HalfWay, Half, Book
    <3>4. s \notin torn => book'[s].size = 1
      <4>1. book'[s].size = book[s].size + 1
        BY <2>2
      <4>2. s \notin torn => book[s].size = 0
        BY <3>3
      <4> QED BY <4>1, <4>2
    <3>5. s \notin torn => Half(w)' /\ Whole(s)'
      BY <1>1, <2>2, <3>2, <3>3, <3>4 DEF Half, HalfWay, Whole
    <3> QED BY <1>4, <2>2, <2>4, <3>1, <3>3, <3>4, <3>5
  <2> QED BY <1>8, <2>3, <2>4, BookShareTurns DEF Core
<1>9. CASE BookNote(w)
  <2>1. Turn(w, "applying") /\ "applying" \in Booking
    BY <1>9, BookNoteTurns DEF Core, Booking
  <2>2. worker'[w].pc = "applying" /\ worker'[w].swap = s
    BY <2>1 DEF Turn
  <2>3. book'[s] = [book[s] EXCEPT !.event = TRUE] /\ worker[w].pc = "noting"
    BY <1>1, <1>9 DEF BookNote, At, Core, TypeOK
  <2>4. /\ book'[s].event /\ book'[s].fill = book[s].fill /\ book'[s].rolled = book[s].rolled
        /\ book'[s].size = book[s].size
    BY <1>3, <2>3 DEF Book
  <2>5. ASSUME s \notin torn
        PROVE  /\ book[s].fill = TRUE /\ book[s].rolled = TRUE /\ book[s].size = 1
               /\ ~exec[s].booked
    BY <1>1, <1>3, <2>3, <2>5, BookBefore DEF Half, HalfWay, Book
  <2>6. s \notin torn => Half(w)' /\ Whole(s)'
    BY <1>1, <2>2, <2>4, <2>5 DEF Half, HalfWay, Whole
  <2> QED BY <1>4, <2>1, <2>5, <2>6
<1> QED BY <1>5, <1>6, <1>7, <1>8, <1>9

LEMMA BookEnds ==
    ASSUME Core, Bookkeeping, NEW w \in Worker, Booked(w)
    PROVE  Bookkeeping'
<1>0. worker[w].swap \in Swap
  BY DEF Booked, At, Core, Named
<1> PICK s \in Swap : s = worker[w].swap
  BY <1>0
<1>1. /\ worker[w].pc = "applying" /\ worker[w].pc \in Booking /\ s \in Swap
      /\ torn' = torn /\ book' = book /\ book[s].event
  BY DEF Booked, Applies, At, Booking, Core, Named
<1>2. Only(w) /\ worker'[w].pc \notin Booking
  BY BookedLeaves DEF Core, Left, Quits, Turn, Booking
<1>3. \A t \in Swap : t # s => exec'[t] = exec[t]
  BY DEF Booked, Core, TypeOK
<1>4. s \notin torn => Whole(s) /\ book[s].rolled
  BY <1>1, BookBefore DEF HalfWay, Half
<1>5. Half(w)'
  BY <1>2 DEF Half, HalfWay, Booking
<1>6. s \notin torn => Whole(s)' /\ book[s].size = 1
  BY <1>1, <1>4 DEF Whole
<1> QED BY <1>1, <1>2, <1>3, <1>4, <1>5, <1>6, BookLocal

LEMMA BookDies ==
    ASSUME SwapAssumption, Core, Bookkeeping, NEW w \in Worker, Die(w)
    PROVE  Bookkeeping'
<1>1. Only(w) /\ worker'[w].pc \notin Booking
  BY DieLeaves DEF Core, Left, Quits, Turn, Booking
<1>2. /\ book' = book /\ exec' = exec /\ torn \subseteq torn'
      /\ worker[w].pc \in HalfWay => worker[w].swap \in torn'
  BY DEF Die, Torn, HalfWay
<1>3. \A s \in Swap \ torn' : Quiet(s)' => Quiet(s)
  BY <1>1, <1>2 DEF Quiet, Only
<1>4. \A s \in Swap \ torn' : Quiet(s)' => Whole(s)'
  BY <1>2, <1>3 DEF Bookkeeping, Whole
<1>5. \A v \in Worker : worker'[v].swap \notin torn' => Half(v)'
  <2> SUFFICES ASSUME NEW v \in Worker, worker'[v].swap \notin torn'
               PROVE  Half(v)'
    OBVIOUS
  <2>1. CASE v = w
    BY <1>1, <2>1 DEF Half, HalfWay, Booking
  <2>2. CASE v # w
    BY <1>1, <1>2, <2>2 DEF Bookkeeping, Half, Only
  <2> QED BY <2>1, <2>2
<1> QED BY <1>2, <1>4, <1>5 DEF Bookkeeping

(* The steps that leave the book alone.                                    *)
LEMMA BookedStays ==
    ASSUME Core, NEW w \in Worker, Executes(w)
    PROVE  BookedSame
<1>1. CASE Record(w)
  <2>1. worker[w].swap \in Swap
    BY <1>1, RecordTurns DEF Core, Turn
  <2>2. exec[worker[w].swap] \in Exec
    BY <2>1 DEF Core, TypeOK
  <2> QED BY <1>1, <2>1, <2>2 DEF Record, BookedSame, Core, TypeOK, Exec
<1>2. CASE /\ worker[w].pc # "idle"
           /\ \E st \in {"confirmed", "failed"} \union Unresolved : Write(worker[w].swap, st)
  <2>1. worker[w].swap \in Swap
    BY <1>2 DEF Core, Named
  <2>2. PICK st \in {"confirmed", "failed"} \union Unresolved : Write(worker[w].swap, st)
    BY <1>2
  <2> QED BY <2>1, <2>2, WritesStatus DEF BookedSame, Core
<1>3. CASE exec' = exec
  BY <1>3 DEF BookedSame
<1>4. CASE Raise(w)
  BY <1>2, <1>4 DEF Raise, Raised, Unresolved, InProvider
<1>5. CASE AnswerOpen(w)
  BY <1>2, <1>5 DEF AnswerOpen, At, Unresolved
<1>6. CASE Begin(w) \/ AnswerConfirmed(w) \/ AnswerFailed(w) \/ AskFailed(w)
  BY <1>2, <1>6 DEF Begin, AnswerConfirmed, AnswerFailed, AskFailed, At, Unresolved
<1> QED BY <1>1, <1>3, <1>4, <1>5, <1>6
        DEF Executes, NotClaimed, Quote, Refuse, Send, Finish, AskLanded, AskOpen, Claim, papers

LEMMA BookExecutes ==
    ASSUME Core, Bookkeeping, NEW w \in Worker, Executes(w)
    PROVE  Bookkeeping'
<1>1. Only(w) /\ worker'[w].pc \notin HalfWay \union {"applying"}
  <2>1. CASE NotClaimed(w) \/ Finish(w) \/ AskFailed(w) \/ AskOpen(w)
    BY <2>1, NotClaimedQuits, FinishQuits, AskFailedQuits, AskOpenQuits
       DEF Core, Quits, HalfWay
  <2>2. CASE Quote(w) \/ Refuse(w) \/ Begin(w) \/ Record(w) \/ Send(w) \/ Raise(w)
    BY <2>2, QuoteTurns, RefuseTurns, BeginTurns, RecordTurns, SendTurns, RaiseTurns
       DEF Core, Turn, HalfWay
  <2>3. CASE AnswerConfirmed(w) \/ AnswerFailed(w) \/ AnswerOpen(w) \/ AskLanded(w)
    BY <2>3, AnswerConfirmedTurns, AnswerFailedTurns, AnswerOpenTurns, AskLandedTurns
       DEF Core, Turn, HalfWay
  <2>4. CASE \E s \in Swap : Claim(w, s) /\ At(w, "dispatch")
    BY <2>4, ClaimStarts DEF Core, Starts, HalfWay
  <2> QED BY <2>1, <2>2, <2>3, <2>4 DEF Executes
<1>2. /\ book' = book /\ torn' = torn
      /\ worker[w].pc \notin HalfWay
  BY DEF Executes, NotClaimed, Quote, Refuse, Begin, Record, Send, Raise, AnswerConfirmed,
         AnswerFailed, AnswerOpen, Finish, AskLanded, AskFailed, AskOpen, Claim, At,
         InProvider, HalfWay
<1> QED BY <1>1, <1>2, BookedStays, BookKept

LEMMA BookDecides ==
    ASSUME Core, Bookkeeping, NEW w \in Worker, Decides(w)
    PROVE  Bookkeeping'
<1>1. Only(w) /\ worker'[w].pc \notin HalfWay \union {"applying"}
  <2>1. CASE RequestShow(w)
    BY <2>1, RequestShowQuits DEF Core, Quits, HalfWay
  <2>2. CASE DecideReplace(w)
    BY <2>2, DecideReplaceTurns DEF Core, HalfWay
  <2>3. CASE DecideFile(w)
    BY <2>3, DecideFileTurns DEF Core, Turn, HalfWay
  <2>4. CASE DecideNote(w)
    BY <2>4, DecideNoteTurns DEF Core, Papers, Turn, Quits, HalfWay
  <2> QED BY <2>1, <2>2, <2>3, <2>4 DEF Decides
<1>2. /\ book' = book /\ torn' = torn /\ exec' = exec
      /\ worker[w].pc \notin HalfWay
  BY DEF Decides, RequestShow, DecideReplace, DecideFile, DecideNote, At, HalfWay
<1> QED BY <1>1, <1>2, BookKept DEF BookedSame

LEMMA BookBegins ==
    ASSUME Core, Bookkeeping, NEW w \in Worker, NEW s \in Swap,
           \/ RequestInsert(w, s) \/ Claim(w, s) \/ Reconcile(w, s)
           \/ \E d \in {"approved", "rejected"} : DecideRead(w, s, d)
    PROVE  Bookkeeping'
<1>1. Only(w) /\ worker'[w].pc \notin HalfWay \union {"applying"}
  <2>1. CASE RequestInsert(w, s)
    BY <2>1, RequestInsertStarts DEF Core, Starts, HalfWay
  <2>2. CASE Claim(w, s)
    BY <2>2, ClaimStarts DEF Core, Starts, HalfWay
  <2>3. CASE Reconcile(w, s)
    BY <2>3, ReconcileStarts DEF Core, Starts, HalfWay
  <2>4. CASE \E d \in {"approved", "rejected"} : DecideRead(w, s, d)
    BY <2>4, DecideReadStarts DEF Core, HalfWay
  <2> QED BY <2>1, <2>2, <2>3, <2>4
<1>2. /\ book' = book /\ torn' = torn /\ exec' = exec
      /\ worker[w].pc \notin HalfWay
  BY DEF RequestInsert, Claim, Reconcile, DecideRead, Enter, At, HalfWay
<1> QED BY <1>1, <1>2, BookKept DEF BookedSame

LEMMA BookStep ==
    ASSUME SwapAssumption, Core, Bookkeeping, [Next]_vars
    PROVE  Bookkeeping'
<1>1. ASSUME NEW w \in Worker, Books(w) PROVE Bookkeeping'
  <2>1. CASE BookClash(w)
    <3>1. Only(w) /\ worker'[w].pc \notin HalfWay \union {"applying"}
      BY <2>1, BookClashLeaves DEF Core, Left, Quits, Turn, HalfWay
    <3> QED BY <2>1, <3>1, BookKept DEF BookClash, At, HalfWay, BookedSame
  <2>2. CASE BookFound(w)
    <3>1. /\ Only(w) /\ worker'[w].pc = "applying" /\ worker'[w].swap = worker[w].swap
          /\ worker[w].swap \in Swap
      BY <2>2, BookFoundTurns DEF Core, Turn
    <3>2. /\ book' = book /\ torn' = torn /\ BookedSame /\ book[worker[w].swap].rolled
          /\ worker[w].pc \notin HalfWay
      BY <2>2 DEF BookFound, At, HalfWay, BookedSame
    <3>3. worker'[w].pc \notin HalfWay
      BY <3>1 DEF HalfWay
    <3> QED BY <3>1, <3>2, <3>3, BookKept
  <2> QED BY <1>1, <2>1, <2>2, BookWrites, BookEnds DEF Books
<1>2. ASSUME NEW s \in Swap, Settle(s) \/ Expire(s) PROVE Bookkeeping'
  BY <1>2 DEF Settle, Expire, papers, network, Bookkeeping, Quiet, Whole, Half
<1>3. CASE UNCHANGED vars
  BY <1>3 DEF vars, Bookkeeping, Quiet, Whole, Half
<1> QED BY <1>1, <1>2, <1>3, BookDecides, BookExecutes, BookDies, BookBegins DEF Next

-----------------------------------------------------------------------------
(* A swap that is sent is alone on its chain.                              *)
LEMMA AloneAtSea ==
    ASSUME Core, Truth, OneOnItsWay, NEW w \in Worker, Send(w)
    PROVE  OneOnItsWay'
<1>0. worker[w].swap \in Swap /\ worker[w].pc \in {"submitting", "signed"}
  BY SendTurns DEF Core, Turn, Send, At
<1> PICK s \in Swap : s = worker[w].swap
  BY <1>0
<1>1. \A t \in Swap : t # s => fate'[t] = fate[t]
  BY DEF Send, Core, TypeOK
<1>2. \A t \in Swap : t # s /\ ChainOf[t] = ChainOf[s] => fate[t] # "pending"
  <2> SUFFICES ASSUME NEW t \in Swap, t # s, ChainOf[t] = ChainOf[s], fate[t] = "pending"
               PROVE  FALSE
    OBVIOUS
  <2>1. exec[t].status \notin Unresolved
    BY <1>0 DEF Truth, Sending, Alone
  <2>2. exec[t].status \notin {"none", "failed", "confirmed"}
    BY DEF Truth, VerdictIsTrue
  <2>3. exec[t] \in Exec
    BY DEF Core, TypeOK
  <2> QED BY <2>1, <2>2, <2>3 DEF Exec
<1> QED BY <1>1, <1>2 DEF OneOnItsWay

LEMMA SeaStep ==
    ASSUME SwapAssumption, Core, Truth, OneOnItsWay, [Next]_vars
    PROVE  OneOnItsWay'
<1>1. ASSUME \A t \in Swap : fate'[t] = "pending" => fate[t] = "pending"
      PROVE  OneOnItsWay'
  BY <1>1 DEF OneOnItsWay
<1>2. ASSUME NEW w \in Worker, Executes(w), ~Send(w) PROVE fate' = fate
  BY <1>2 DEF Executes, NotClaimed, Quote, Refuse, Begin, Record, Raise, AnswerConfirmed,
              AnswerFailed, AnswerOpen, Finish, AskLanded, AskFailed, AskOpen, Claim, network
<1>3. ASSUME NEW w \in Worker, Books(w) \/ Decides(w) \/ Die(w) PROVE fate' = fate
  BY <1>3 DEF Books, BookInsert, BookClash, BookFound, BookRoll, BookOpen, BookShare, BookNote,
              Booked, Decides, RequestShow, DecideReplace, DecideFile, DecideNote, Die, network
<1>4. ASSUME NEW w \in Worker, NEW s \in Swap,
             \/ RequestInsert(w, s) \/ Claim(w, s) \/ Reconcile(w, s)
             \/ \E d \in {"approved", "rejected"} : DecideRead(w, s, d)
      PROVE fate' = fate
  BY <1>4 DEF RequestInsert, Claim, Reconcile, DecideRead, network
<1>5. ASSUME NEW s \in Swap, Settle(s) \/ Expire(s)
      PROVE \A t \in Swap : fate'[t] = "pending" => fate[t] = "pending"
  BY <1>5 DEF Settle, Expire, network, Core, TypeOK
<1>6. UNCHANGED vars => fate' = fate
  BY DEF vars, network
<1> QED BY <1>1, <1>2, <1>3, <1>4, <1>5, <1>6, AloneAtSea DEF Next

-----------------------------------------------------------------------------
(* The theorems.                                                           *)

LEMMA InvInit ==
    ASSUME SwapAssumption, Init
    PROVE  IInv
<1>1. /\ \A w \in Worker : worker[w].pc = "idle"
      /\ \A s \in Swap : /\ sent[s] = 0 /\ fate[s] = "none" /\ book[s].size = 0
                         /\ book[s].fill = FALSE /\ book[s].rolled = FALSE
                         /\ book[s].event = FALSE
                         /\ exec[s].status = "none" /\ ~exec[s].known /\ ~exec[s].booked
  BY IdleIsCall DEF Init
<1>2. Truth
  BY <1>1 DEF Truth, Sending, Place, Alone, VerdictIsTrue, Unsent, Booking
<1>3. Bookkeeping
  BY <1>1 DEF Bookkeeping, Quiet, Whole, Half, HalfWay
<1>4. OneOnItsWay
  BY <1>1 DEF OneOnItsWay
<1> QED BY <1>2, <1>3, <1>4, CoreInit DEF IInv

LEMMA InvStep ==
    ASSUME SwapAssumption, IInv, [Next]_vars
    PROVE  IInv'
BY CoreStep, TruthStep, SeaStep, BookStep DEF IInv

LEMMA InvHolds == Spec => []IInv
<1>1. Init => IInv
  BY SwapAssumption, InvInit
<1>2. IInv /\ [Next]_vars => IInv'
  BY SwapAssumption, InvStep
<1> QED BY <1>1, <1>2, PTL DEF Spec

(* Every variable keeps its type.                                          *)
THEOREM TypeCorrect == Spec => []TypeOK
<1>1. IInv => TypeOK
  BY DEF IInv, Core
<1> QED BY <1>1, InvHolds, PTL

(* However often an approval is delivered, whichever calls die and however *)
(* many workers there are, resume_approved sends a swap at most once.      *)
THEOREM SentAtMostOnce == Spec => []SentOnce
<1>1. IInv => SentOnce
  BY DEF IInv, Truth, Sending, SentOnce
<1> QED BY <1>1, InvHolds, PTL

(* The state file never calls failed what may land or has brought          *)
(* anything, nor confirmed what has not, and it has a word for every swap  *)
(* that was sent.                                                          *)
THEOREM VerdictsAreTrue == Spec => []VerdictIsTrue
<1>1. IInv => VerdictIsTrue
  BY DEF IInv, Truth
<1> QED BY <1>1, InvHolds, PTL

(* Two swaps of one chain are never on their way at once, so that the      *)
(* nonces and balances of a shared signer are read when they are settled.  *)
THEOREM AtMostOneOnItsWay == Spec => []OneOnItsWay
<1>1. IInv => OneOnItsWay
  BY DEF IInv
<1> QED BY <1>1, InvHolds, PTL

(* A swap that was sent is on file as approved, whatever answers raced.    *)
THEOREM OperatorsObeyed == Spec => []OperatorObeyed
<1>1. ASSUME IInv PROVE OperatorObeyed
  <2> SUFFICES ASSUME NEW s \in Swap, sent[s] > 0
               PROVE  filed[s] = "approved"
    BY DEF OperatorObeyed
  <2>1. approval[s] \in {"resuming", "resumed"}
    BY <1>1 DEF IInv, Truth, Sending, Unsent
  <2> QED BY <1>1, <2>1 DEF IInv, Core, Papers, Rows
<1> QED BY <1>1, InvHolds, PTL

(* A swap whose booking was not cut off between two writes is in the       *)
(* position of the strategy once, however often it is reconciled.          *)
THEOREM BooksOnce == Spec => []BookedOnce
<1>1. ASSUME IInv PROVE BookedOnce
  <2> SUFFICES ASSUME NEW s \in Swap \ torn
               PROVE  book[s].size <= 1 /\ (exec[s].booked => book[s].size = 1)
    BY DEF BookedOnce
  <2>1. exec[s].booked => book[s].size = 1
    BY <1>1 DEF IInv, Bookkeeping
  <2>2. CASE Quiet(s)
    BY <1>1, <2>1, <2>2 DEF IInv, Bookkeeping, Whole
  <2>3. CASE ~Quiet(s)
    <3>1. PICK w \in Worker : worker[w].swap = s /\ worker[w].pc \in HalfWay
      BY <2>3 DEF Quiet
    <3>2. Half(w)
      BY <1>1, <3>1 DEF IInv, Bookkeeping
    <3> QED BY <2>1, <3>1, <3>2 DEF Half, HalfWay
  <2> QED BY <2>2, <2>3
<1> QED BY <1>1, InvHolds, PTL
=============================================================================
