----------------------------- MODULE Reminders -----------------------------
(***************************************************************************)
(* Reminders from the execution of a card to the message the family reads  *)
(* (execute/reminder.py), delivered by rounds of cmd_tick (cli.py) and of  *)
(* the scheduler (scheduler.py), which also sends one digest a day.        *)
(*                                                                         *)
(* cmd_tick asks the clock for every reminder; the scheduler asks once a   *)
(* round, and the leases of the whole round count from there.              *)
(***************************************************************************)
EXTENDS Integers, FiniteSets

CONSTANTS
  Reminder,    \* reminders, each of one approved card
  None,
  Replaces,    \* supersedes_reminder_id of the card, or None
  DueAt,       \* the moment a reminder is due
  Tick,        \* processes of cmd_tick
  Scheduler,   \* processes of Scheduler.run_once
  Day,         \* the day of a moment
  LeaseFor,    \* DEFAULT_LEASE_SECONDS
  LastMoment,  \* bound: the clock
  MaxFaults    \* bound: kills, refusals and unknown outcomes, together

Deliverer == Tick \cup Scheduler

ASSUME RemindersAssumption ==
  /\ None \notin Reminder
  /\ Replaces \in [Reminder -> Reminder \cup {None}]
  /\ Tick \cap Scheduler = {}
ASSUME TimeAssumption ==
  /\ LastMoment \in Nat /\ LeaseFor \in Nat \ {0} /\ MaxFaults \in Nat
  /\ DueAt \in [Reminder -> 0..LastMoment]
  /\ Day \in [0..LastMoment -> Nat \ {0}]
  /\ \A m, n \in 0..LastMoment : m <= n => Day[m] <= Day[n]

VARIABLES
  (* the database *)
  status,     \* reminders.status, "absent" when there is no row
  until,      \* reminders.lease_until, 0 for NULL
  digest,     \* channel_state of the scheduler: the day and what became of it
  unsettled,  \* cards whose effect is not settled yet
  (* the world *)
  rung,       \* messages that reached the family, per reminder
  digests,    \* digests sent, per day
  now,
  (* the processes *)
  writing,    \* the card the executor is at, after its cancellation
  pc, job,    \* what a deliverer does, and the reminder it holds
  moment,     \* the moment it passed to claim_due
  overtaken,  \* reminders that were claimed from under a deliverer at work
  faults

store == <<status, until, digest, unsettled>>
world == <<rung, digests, now>>
local == <<pc, job, moment>>
vars == <<store, world, writing, local, overtaken, faults>>

Days == {Day[m] : m \in 0..LastMoment}

TypeOK ==
  /\ status \in [Reminder -> {"absent", "pending", "delivering", "done", "cancelled"}]
  /\ until \in [Reminder -> Nat]
  /\ digest \in [day : Days \cup {0}, state : {"none", "reserved", "failed", "sent"}]
  /\ unsettled \subseteq Reminder
  /\ rung \in [Reminder -> Nat]
  /\ digests \in [Days -> Nat]
  /\ now \in 0..LastMoment
  /\ writing \in Reminder \cup {None}
  /\ pc \in [Deliverer -> {"idle", "claim", "send", "mark", "read", "reserve",
                           "compose", "post", "note"}]
  /\ job \in [Deliverer -> Reminder \cup {None}]
  /\ moment \in [Deliverer -> 0..LastMoment]
  /\ overtaken \subseteq Reminder
  /\ faults \in 0..MaxFaults

Init ==
  /\ status = [r \in Reminder |-> "absent"]
  /\ until = [r \in Reminder |-> 0]
  /\ digest = [day |-> 0, state |-> "none"]
  /\ unsettled = Reminder
  /\ rung = [r \in Reminder |-> 0]
  /\ digests = [d \in Days |-> 0]
  /\ now = 0
  /\ writing = None
  /\ pc = [d \in Deliverer |-> "idle"]
  /\ job = [d \in Deliverer |-> None]
  /\ moment = [d \in Deliverer |-> 0]
  /\ overtaken = {}
  /\ faults = 0

\* The last fault comes early enough for the lease it leaves to end.
Fault == faults < MaxFaults /\ now + LeaseFor <= LastMoment /\ faults' = faults + 1
Goto(d, place) == pc' = [pc EXCEPT ![d] = place]

\* status and, with it, lease_until = NULL.
Set(r, state) ==
  status' = [status EXCEPT ![r] = state] /\ until' = [until EXCEPT ![r] = 0]

-----------------------------------------------------------------------------
(* The executor of cards *)

\* Slip: a reminder that is being delivered is not cancelled.
IsPending(r) == status[r] = "pending"

\* cancel: WHERE status IN (pending, delivering).
IsActive(r) == status[r] \in {"pending", "delivering"}

\* _execute_reminder: the reminder of the former version is cancelled first.
\* The card names one only if it existed when the card was staged.
CancelFormer(r) ==
  LET former == Replaces[r] IN
  /\ writing = None /\ r \in unsettled
  /\ former # None => status[former] # "absent"
  /\ writing' = r
  /\ IF former # None /\ IsActive(former)
     THEN Set(former, "cancelled")
     ELSE UNCHANGED <<status, until>>
  /\ UNCHANGED <<digest, unsettled, world, local, overtaken, faults>>

\* ... and its own is created, unless an earlier attempt has created it.
Create ==
  /\ writing # None
  /\ status' = [status EXCEPT ![writing] = IF @ = "absent" THEN "pending" ELSE @]
  /\ writing' = None
  /\ \/ unsettled' = unsettled \ {writing} /\ UNCHANGED faults
     \/ Fault /\ UNCHANGED unsettled      \* killed before the effect is settled
  /\ UNCHANGED <<until, digest, world, local, overtaken>>

\* Killed between the two; reconcile begins again.
CrashWriter ==
  /\ writing # None
  /\ Fault
  /\ writing' = None
  /\ UNCHANGED <<store, world, local, overtaken>>

-----------------------------------------------------------------------------
(* A round of delivery *)

Round(d) ==
  /\ pc[d] = "idle"
  /\ Goto(d, "claim")
  /\ moment' = [moment EXCEPT ![d] = now]
  /\ UNCHANGED <<store, world, writing, job, overtaken, faults>>

Moment(d) == IF d \in Scheduler THEN moment[d] ELSE now

\* Slip: a cancelled reminder is still due.
DueOrCancelled(d) ==
  {r \in Reminder : /\ DueAt[r] <= Moment(d)
                    /\ \/ status[r] \in {"pending", "cancelled"}
                       \/ status[r] = "delivering" /\ until[r] <= Moment(d)}

\* Slip: a reminder whose deliverer died stays with it.
DueAndFree(d) == {r \in Reminder : DueAt[r] <= Moment(d) /\ status[r] = "pending"}

Due(d) ==
  {r \in Reminder : /\ DueAt[r] <= Moment(d)
                    /\ \/ status[r] = "pending"
                       \/ status[r] = "delivering" /\ until[r] <= Moment(d)}

InHand(r) == \E d \in Deliverer : job[d] = r

\* claim_due: ORDER BY due_at.  The lease counts from the moment passed to it.
Claim(d) ==
  /\ pc[d] = "claim"
  /\ moment' = [moment EXCEPT ![d] = Moment(d)]
  /\ \E r \in Due(d) :
       /\ \A q \in Due(d) : DueAt[r] <= DueAt[q]
       /\ status' = [status EXCEPT ![r] = "delivering"]
       /\ until' = [until EXCEPT ![r] = Moment(d) + LeaseFor]
       /\ job' = [job EXCEPT ![d] = r]
       /\ overtaken' = overtaken \cup (IF InHand(r) THEN {r} ELSE {})
  /\ Goto(d, "send")
  /\ UNCHANGED <<digest, unsettled, world, writing, faults>>

\* No reminder is due: cmd_tick ends, the scheduler goes on to the digest.
NothingDue(d) ==
  /\ pc[d] = "claim" /\ Due(d) = {}
  /\ Goto(d, IF d \in Scheduler THEN "read" ELSE "idle")
  /\ UNCHANGED <<store, world, writing, job, moment, overtaken, faults>>

\* The process is killed, or an exception ends its round.
Drop(d) == Goto(d, "idle") /\ job' = [job EXCEPT ![d] = None]

Reaches(r) == rung' = [rung EXCEPT ![r] = @ + 1]

Send(d) ==
  /\ pc[d] = "send"
  /\ Reaches(job[d])
  /\ Goto(d, "mark")
  /\ UNCHANGED <<store, digests, now, writing, job, moment, overtaken, faults>>

\* SendOutcomeUnknown: it may have arrived.  The scheduler marks it and raises;
\* cmd_tick lets the exception end the round.
SendUnknown(d) ==
  /\ pc[d] = "send"
  /\ Fault
  /\ Reaches(job[d]) \/ UNCHANGED rung
  /\ IF d \in Scheduler THEN Set(job[d], "done") ELSE UNCHANGED <<status, until>>
  /\ Drop(d)
  /\ UNCHANGED <<digest, unsettled, digests, now, writing, moment, overtaken>>

SendRefused(d) ==
  /\ pc[d] = "send"
  /\ Fault
  /\ Drop(d)
  /\ UNCHANGED <<store, world, writing, moment, overtaken>>

\* Slip: the message is not recorded as delivered.
MarkNothing(r) == UNCHANGED <<status, until>>

\* mark_delivered: WHERE id, whatever the status.
MarkDelivered(r) == Set(r, "done")

Mark(d) ==
  /\ pc[d] = "mark"
  /\ MarkDelivered(job[d])
  /\ job' = [job EXCEPT ![d] = None]
  /\ Goto(d, "claim")
  /\ UNCHANGED <<digest, unsettled, world, writing, moment, overtaken, faults>>

Crash(d) ==
  /\ pc[d] # "idle"
  /\ Fault
  /\ Drop(d)
  /\ UNCHANGED <<store, world, writing, moment, overtaken>>

-----------------------------------------------------------------------------
(* The digest *)

\* A new day, of which nothing is written yet.
IsNewDay(d) == digest.day # Day[moment[d]]

\* Before digest_time, or when the day has its digest, there is nothing to do.
ReadDigest(d) ==
  /\ pc[d] = "read"
  /\ (IsNewDay(d) /\ Goto(d, "reserve")) \/ Goto(d, "idle")
  /\ UNCHANGED <<store, world, writing, job, moment, overtaken, faults>>

WriteDigest(d, state) ==
  /\ digest' = [day |-> Day[moment[d]], state |-> state]
  /\ UNCHANGED <<status, until, unsettled>>

\* Reserved before the text is composed and anything is sent.
Reserve(d) ==
  /\ pc[d] = "reserve"
  /\ WriteDigest(d, "reserved")
  /\ Goto(d, "compose")
  /\ UNCHANGED <<world, writing, job, moment, overtaken, faults>>

\* An empty text is a failed digest.
Compose(d) ==
  /\ pc[d] = "compose"
  /\ \/ Goto(d, "post") /\ UNCHANGED store
     \/ Goto(d, "idle") /\ WriteDigest(d, "failed")
  /\ UNCHANGED <<world, writing, job, moment, overtaken, faults>>

\* It is sent, or not, and the channel may raise either way.
Post(d) ==
  /\ pc[d] = "post"
  /\ \/ digests' = [digests EXCEPT ![Day[moment[d]]] = @ + 1]
     \/ UNCHANGED digests
  /\ \/ Goto(d, "note") /\ digests' # digests
     \/ Goto(d, "idle")
  /\ UNCHANGED <<store, rung, now, writing, job, moment, overtaken, faults>>

Note(d) ==
  /\ pc[d] = "note"
  /\ WriteDigest(d, "sent")
  /\ Goto(d, "idle")
  /\ UNCHANGED <<world, writing, job, moment, overtaken, faults>>

-----------------------------------------------------------------------------
(* Time *)

\* A tick sends and marks one reminder within its lease; a round of the
\* scheduler, of many reminders, may last longer.
InTime(d) == job[d] # None => now + 1 < moment[d] + LeaseFor

ClockRuns ==
  /\ now < LastMoment
  /\ \A d \in Tick : InTime(d)
  /\ now' = now + 1
  /\ UNCHANGED <<store, rung, digests, writing, local, overtaken, faults>>

Deliver(d) == Claim(d) \/ NothingDue(d) \/ Send(d) \/ Mark(d)
Digest(d) == ReadDigest(d) \/ Reserve(d) \/ Compose(d) \/ Post(d) \/ Note(d)

Next ==
  \/ \E r \in Reminder : CancelFormer(r)
  \/ Create \/ CrashWriter \/ ClockRuns
  \/ \E d \in Deliverer :
       \/ Round(d) \/ Deliver(d) \/ SendUnknown(d) \/ SendRefused(d) \/ Crash(d)
       \/ Digest(d)

Spec == Init /\ [][Next]_vars

\* The clock runs, rounds are begun again and again, and a running round goes on.
Fairness ==
  /\ WF_vars(ClockRuns)
  /\ \A d \in Deliverer : WF_vars(Round(d)) /\ WF_vars(Deliver(d)) /\ WF_vars(Digest(d))

FairSpec == Spec /\ Fairness

-----------------------------------------------------------------------------
(* Properties *)

\* A reminder that was crossed out and is in nobody's hands never rings, and
\* no late mark brings it back (cancel, mark_delivered).
CancelledIsSilent ==
  [][\A r \in Reminder : status[r] = "cancelled" /\ ~InHand(r) =>
       status'[r] = "cancelled" /\ rung'[r] = rung[r]]_<<status, rung>>

\* _execute_reminder: where a newer version of a fact has its reminder, the
\* former one does not wait to be delivered, killed executors included.
OneDate ==
  \A r \in Reminder : status[r] # "absent" /\ Replaces[r] # None =>
    status[Replaces[r]] \in {"cancelled", "done"}

\* Every ring of a reminder beyond the first is owed to a kill, a refusal or an
\* unknown outcome, or to a reminder claimed from under a deliverer at work; that
\* befalls only a scheduler whose round has outlasted the lease it counts from
\* (claim_due).  One digest a day, killed schedulers included (one scheduler).
Outlasted(d) == d \in Scheduler /\ moment[d] + LeaseFor <= now
RingsAreAccounted ==
  /\ \A d, e \in Deliverer : job[d] = job[e] /\ job[d] # None /\ d # e =>
       Outlasted(d) \/ Outlasted(e)
  /\ \A r \in Reminder : rung[r] <= (IF r \in overtaken THEN 2 ELSE 1) + faults
  /\ \A day \in Days : digests[day] <= 1

\* A reminder that is due is delivered, or crossed out, in the end: a killed
\* deliverer does not lose it.
RingsInTheEnd ==
  \A r \in Reminder :
    status[r] \in {"pending", "delivering"} ~> status[r] \in {"done", "cancelled"}

=============================================================================
