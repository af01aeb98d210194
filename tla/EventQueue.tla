----------------------------- MODULE EventQueue -----------------------------
(***************************************************************************)
(* The durable ingress: receivers append letters to the queue              *)
(* (core/events.py), workers lease them, run the handler and settle them   *)
(* (ingest/worker.py), and the household may be erased meanwhile           *)
(* (core/dsar.py).                                                         *)
(*                                                                         *)
(* The handler is Pipeline.handle_event up to its last message: it records *)
(* the extraction, stages the card (the Stage action of Pipeline) and      *)
(* sends it.  A letter stands for its external_id; the row it has in the   *)
(* queue is new after an erasure: the row a worker held is then gone.      *)
(***************************************************************************)
EXTENDS Integers, FiniteSets

CONSTANTS
  Letter,       \* external ids of letters
  NoLetter,     \* in no hand
  Context,      \* the thread of each letter
  NoContext,    \* a letter outside any thread
  Plain,        \* letters that ask for nothing: a message, no card
  Worker,
  Receiver,
  MaxAttempts,  \* max_attempts failures lead to the dead letters
  MaxCrashes,   \* bound: workers killed
  Plans         \* the letters sent, may a handler outlive its lease, and the
                \* bounds on the calls of append and the replays by a person

ASSUME LettersAssumption == NoLetter \notin Letter /\ Plain \subseteq Letter
ASSUME ContextAssumption == DOMAIN Context = Letter
ASSUME ReceiverAssumption == IsFiniteSet(Receiver)
ASSUME BoundsAssumption ==
  /\ MaxAttempts \in Nat \ {0} /\ MaxCrashes \in Nat
  /\ \A p \in Plans : /\ p.letters \subseteq Letter /\ p.overrun \in BOOLEAN
                      /\ p.receipts \in Nat /\ p.replays \in Nat

VARIABLES
  (* the database *)
  status,    \* events.status, "absent" when there is no row
  attempts,  \* events.attempts
  live,      \* letters whose lease_until is in the future
  since,     \* events.received_at
  cards,     \* approvals staged for the row
  erased,    \* the tombstone of wipe_household
  (* the world *)
  shown,     \* letters in the queue that the family got a message about
  late,      \* messages a worker sent about a letter that was erased under it
  caught,    \* workers the erasure found about to send
  (* workers and receivers *)
  pc, job,   \* what a worker does, and the letter it holds
  gone,      \* workers whose letter's row was erased under them
  hand,      \* the letter a receiver is about to insert
  stamp,     \* the received_at it will insert
  clock, crashes, replays, plan

store == <<status, attempts, live, since, cards, erased>>
world == <<shown, late, caught>>
workers == <<pc, job, gone>>
receivers == <<hand, stamp, clock>>
counters == <<crashes, replays, plan>>
vars == <<store, world, workers, receivers, counters>>

Working == {"handle", "stage", "send", "finish", "fail"}

TypeOK ==
  /\ status \in [Letter -> {"absent", "received", "processing", "done", "dlq"}]
  /\ attempts \in [Letter -> Nat]
  /\ live \subseteq {e \in Letter : status[e] = "processing"}
  /\ plan \in Plans /\ since \in [Letter -> 0..plan.receipts]
  /\ cards \in [Letter -> Nat]
  /\ erased \in BOOLEAN
  /\ shown \in SUBSET Letter
  /\ late \in [Worker -> Nat] /\ caught \in SUBSET Worker
  /\ pc \in [Worker -> {"idle"} \cup Working]
  /\ job \in [Worker -> Letter \cup {NoLetter}]
  /\ gone \in SUBSET Worker
  /\ hand \in [Receiver -> Letter \cup {NoLetter}]
  /\ stamp \in [Receiver -> 0..plan.receipts]
  /\ clock \in 0..plan.receipts /\ crashes \in 0..MaxCrashes /\ replays \in 0..plan.replays

Init ==
  /\ status = [e \in Letter |-> "absent"]
  /\ attempts = [e \in Letter |-> 0]
  /\ live = {}
  /\ since = [e \in Letter |-> 0]
  /\ cards = [e \in Letter |-> 0]
  /\ erased = FALSE
  /\ shown = {} /\ late = [w \in Worker |-> 0] /\ caught = {}
  /\ pc = [w \in Worker |-> "idle"]
  /\ job = [w \in Worker |-> NoLetter]
  /\ gone = {}
  /\ hand = [r \in Receiver |-> NoLetter]
  /\ stamp = [r \in Receiver |-> 0]
  /\ clock = 0 /\ crashes = 0 /\ replays = 0 /\ plan \in Plans

-----------------------------------------------------------------------------
(* Receiving *)

\* Slip: the tombstone is not looked at.
AlwaysOpen == TRUE

\* is_deleted.
Open == ~erased

\* append: the tombstone is read before, and outside, the insertion.
Receive(r, e) ==
  /\ hand[r] = NoLetter
  /\ Open
  /\ clock < plan.receipts
  /\ hand' = [hand EXCEPT ![r] = e]
  /\ clock' = clock + 1
  /\ stamp' = [stamp EXCEPT ![r] = clock + 1]
  /\ UNCHANGED <<store, world, workers, counters>>

\* Slip: INSERT OR REPLACE, a letter delivered again starts anew.
IsAlwaysNew(e) == TRUE

\* ON CONFLICT (external_id) DO NOTHING.
IsNew(e) == status[e] = "absent"

Insert(r) ==
  LET e == hand[r] IN
  /\ e # NoLetter
  /\ IF IsNew(e)
     THEN /\ status' = [status EXCEPT ![e] = "received"]
          /\ attempts' = [attempts EXCEPT ![e] = 0]
          /\ live' = live \ {e}
          /\ since' = [since EXCEPT ![e] = stamp[r]]
     ELSE UNCHANGED <<status, attempts, live, since>>
  /\ hand' = [hand EXCEPT ![r] = NoLetter]
  /\ stamp' = [stamp EXCEPT ![r] = 0]
  /\ UNCHANGED <<cards, erased, world, workers, clock, counters>>

-----------------------------------------------------------------------------
(* The worker *)

\* Slip: the lease does not look at the thread.
NeverBusy(c) == FALSE

\* A letter of this thread is being handled under a live lease.
Busy(c) == c # NoContext /\ \E e \in live : Context[e] = c

Available ==
  {e \in Letter : /\ status[e] = "received" \/ (status[e] = "processing" /\ e \notin live)
                  /\ ~Busy(Context[e])}

\* lease: the oldest available letter.
Lease(w) ==
  /\ pc[w] = "idle"
  /\ \E e \in Available :
       /\ \A d \in Available : since[e] <= since[d]
       /\ status' = [status EXCEPT ![e] = "processing"]
       /\ live' = live \cup {e}
       /\ job' = [job EXCEPT ![w] = e]
  /\ pc' = [pc EXCEPT ![w] = "handle"]
  /\ UNCHANGED <<gone, attempts, since, cards, erased, world, receivers, counters>>

\* A row that refers to the letter can be written: foreign_keys = ON.
RowThere(w) == w \notin gone

\* The model is called and the run is recorded; either may raise.
Extract(w) ==
  /\ pc[w] = "handle"
  /\ \/ /\ RowThere(w)
        /\ pc' = [pc EXCEPT ![w] = IF job[w] \in Plain THEN "send" ELSE "stage"]
     \/ pc' = [pc EXCEPT ![w] = "fail"]
  /\ UNCHANGED <<store, world, job, gone, receivers, counters>>

\* propose and stage; the letter itself is not looked up again.
StageCard(w) ==
  /\ pc[w] = "stage"
  /\ IF RowThere(w)
     THEN /\ cards' = [cards EXCEPT ![job[w]] = @ + 1]
          /\ pc' = [pc EXCEPT ![w] = "send"]
     ELSE /\ pc' = [pc EXCEPT ![w] = "fail"]
          /\ UNCHANGED cards
  /\ UNCHANGED <<status, attempts, live, since, erased, world, job, gone, receivers, counters>>

\* The message is sent, or the channel raises.  What was staged is not looked up
\* again: the message goes out also when the letter was erased meanwhile.
SendCard(w) ==
  /\ pc[w] = "send"
  /\ \/ /\ pc' = [pc EXCEPT ![w] = "finish"]
        /\ IF RowThere(w)
           THEN shown' = shown \cup {job[w]} /\ UNCHANGED late
           ELSE late' = [late EXCEPT ![w] = @ + 1] /\ UNCHANGED shown
     \/ /\ pc' = [pc EXCEPT ![w] = "fail"]
        /\ UNCHANGED <<shown, late>>
  /\ UNCHANGED <<store, caught, job, gone, receivers, counters>>

Release(w) ==
  /\ pc' = [pc EXCEPT ![w] = "idle"]
  /\ job' = [job EXCEPT ![w] = NoLetter]
  /\ gone' = gone \ {w}

\* lease_until = NULL.
DropLease(e) == live' = live \ {e}

\* Slip: what the channel refused is done all the same.
SettleAnything(w) == pc[w] \in {"finish", "fail"}

\* run_once marks the letter done only when the handler returned.
Handled(w) == pc[w] = "finish"

\* mark_done: whoever holds the lease by now, and whatever the status.
MarkDone(w) ==
  /\ Handled(w)
  /\ IF RowThere(w)
     THEN /\ status' = [status EXCEPT ![job[w]] = "done"]
          /\ DropLease(job[w])
     ELSE UNCHANGED <<status, live>>      \* the assertion on the row ends the worker
  /\ Release(w)
  /\ UNCHANGED <<attempts, since, cards, erased, world, receivers, counters>>

\* Slip: failures are not counted.
NotCounted(e) == attempts[e]

Counted(e) == attempts[e] + 1

\* mark_failed: back to the queue, or to the dead letters.
MarkFailed(w) ==
  LET e == job[w] IN
  /\ pc[w] = "fail"
  /\ IF RowThere(w)
     THEN /\ attempts' = [attempts EXCEPT ![e] = Counted(e)]
          /\ status' = [status EXCEPT ![e] =
                          IF Counted(e) >= MaxAttempts THEN "dlq" ELSE "received"]
          /\ DropLease(e)
     ELSE UNCHANGED <<attempts, status, live>>   \* KeyError ends the worker
  /\ Release(w)
  /\ UNCHANGED <<since, cards, erased, world, receivers, counters>>

Crash(w) ==
  /\ pc[w] # "idle"
  /\ crashes < MaxCrashes
  /\ crashes' = crashes + 1
  /\ Release(w)
  /\ UNCHANGED <<store, world, receivers, replays, plan>>

-----------------------------------------------------------------------------
(* Time, a person, and the erasure *)

LeaseEnds(e) ==
  /\ e \in live
  /\ plan.overrun \/ \A w \in Worker : job[w] # e \/ w \in gone
  /\ live' = live \ {e}
  /\ UNCHANGED <<status, attempts, since, cards, erased, world, workers, receivers, counters>>

\* replay: any row, whatever its status.
Replay(e) ==
  /\ status[e] # "absent"
  /\ replays < plan.replays
  /\ replays' = replays + 1
  /\ status' = [status EXCEPT ![e] = "received"]
  /\ attempts' = [attempts EXCEPT ![e] = 0]
  /\ DropLease(e)
  /\ UNCHANGED <<since, cards, erased, world, workers, receivers, crashes, plan>>

\* wipe_household: every row and, after them, the tombstone, in one transaction.
Erase ==
  /\ ~erased
  /\ erased' = TRUE
  /\ status' = [e \in Letter |-> "absent"]
  /\ attempts' = [e \in Letter |-> 0]
  /\ live' = {}
  /\ since' = [e \in Letter |-> 0]
  /\ cards' = [e \in Letter |-> 0]
  /\ shown' = {}
  /\ gone' = {w \in Worker : pc[w] # "idle"}
  /\ caught' = {w \in Worker : pc[w] = "send"}
  /\ UNCHANGED <<late, pc, job, receivers, counters>>

-----------------------------------------------------------------------------
Step(w) == Extract(w) \/ StageCard(w) \/ SendCard(w) \/ MarkDone(w) \/ MarkFailed(w)

Next ==
  \/ \E r \in Receiver : Insert(r) \/ \E e \in plan.letters : Receive(r, e)
  \/ \E w \in Worker : Lease(w) \/ Step(w) \/ Crash(w)
  \/ \E e \in Letter : LeaseEnds(e) \/ Replay(e)
  \/ Erase

Spec == Init /\ [][Next]_vars

\* Workers and receivers run and the clock runs; nothing is asked of people.
Fairness ==
  /\ \A w \in Worker : WF_vars(Step(w)) /\ WF_vars(Lease(w))
  /\ \A r \in Receiver : WF_vars(Insert(r))
  /\ \A e \in Letter : WF_vars(LeaseEnds(e))

FairSpec == Spec /\ Fairness

-----------------------------------------------------------------------------
(* Properties *)

\* No handler outlives its lease, and no person replays a letter in work.
Orderly == ~plan.overrun /\ plan.replays = 0

\* While leases outlast their handlers and nobody replays by hand, the letters of
\* a thread reach the family in the order they were received, one at a time (lease).
InOrder ==
  [][\A e, d \in Letter :
       /\ Orderly /\ cards'[e] > cards[e]
       /\ Context[d] = Context[e] /\ Context[e] # NoContext /\ since[d] < since[e]
       => status[d] \in {"absent", "done", "dlq"}]_cards

\* A letter is done only when the family was shown it, and, unless it asks for
\* nothing, with a card to press: also when workers overtake each other.
DoneWasShown ==
  \A e \in Letter : status[e] = "done" => e \in shown /\ (e \in Plain \/ cards[e] > 0)

\* After the erasure only what was being inserted at that moment can come back, at
\* most one letter per receiver; no card is written for a letter that was erased,
\* whatever a handler was at (append, stage); and of an erased letter the family
\* still gets one message from each handler that had only this message before it.
ErasureHolds ==
  /\ erased => Cardinality({e \in Letter : status[e] # "absent"}) <= Cardinality(Receiver)
  /\ \A e \in Letter : cards[e] > 0 => status[e] # "absent"
  /\ \A w \in Worker : late[w] > 0 => w \in caught /\ late[w] = 1

\* A letter that is in the queue is done, or in the dead letters, in the end,
\* whatever crashes; unless it is erased.
EveryLetterSettles ==
  \A e \in Letter : status[e] # "absent" ~> status[e] \in {"absent", "done", "dlq"}

-----------------------------------------------------------------------------
(* What the queue promises, without leases and attempts: see Inbox. *)

place == [e \in Letter |->
  CASE status[e] = "absent" -> "unknown"
    [] status[e] \in {"received", "processing"} -> "waiting"
    [] status[e] = "done" -> "handled"
    [] status[e] = "dlq" -> "parked"]

Promise == INSTANCE Inbox WITH asked <- replays

\* A letter leaves the queue only when it was shown or parked, and comes back
\* only when a person asks (mark_done, mark_failed, replay): Promise!Spec, as
\* long as the workers do not overtake each other.
KeepsInbox == Promise!Init /\ [][Orderly => Promise!Next]_(Promise!vars)

=============================================================================
