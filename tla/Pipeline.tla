------------------------------ MODULE Pipeline ------------------------------
(***************************************************************************)
(* The confirmation contour of the household runtime: staged approvals     *)
(* (core/approvals.py), the effect journal (core/effects.py), their        *)
(* execution and the reconciliation after a crash (runner/pipeline.py).    *)
(*                                                                         *)
(* Several processes share one SQLite database: `listen`, `worker` and the *)
(* console commands.  Every write is one transaction (Database.write), so  *)
(* one action below is one transaction, one read or one call outside; a    *)
(* process may be interrupted or killed between any two of them.           *)
(*                                                                         *)
(* Data are abstracted to what the properties tell apart.  A proposal is a *)
(* card: the kind of the whole (index 0), the kinds of its items, the      *)
(* indices switched on, and the hypothesis it would confirm.  "send"       *)
(* stands for every kind that leaves the household and cannot be replayed  *)
(* (ics, email, whatsapp, export).                                         *)
(***************************************************************************)
EXTENDS Integers, FiniteSets

CONSTANTS
  Approval,     \* ids of approvals
  Proc,         \* processes sharing the database
  Person,       \* run contexts: an actor pressing buttons in a chat
  Fact,         \* commitments and memory statements
  NoFact,       \* a card that carries no hypothesis
  Cards,        \* the cards a worker or a tool may stage
  Width,        \* the largest number of items on a card
  May,          \* kinds each person has the capability for
  Near,         \* persons whose context matches the card's chat and thread
  FailedMax,    \* FAILED_MAX wrong attempts close the window
  StaleLimit,   \* how many rows one reconciliation lists
  MaxCrashes    \* bound: how many times a process may be killed

Kinds == {"none", "bundle", "reminder", "memory", "calendar", "send"}

\* Slip: reconcile finishes whatever it finds.
ReplayEverything == Kinds

\* Kinds reconcile may finish after a crash: local, or idempotent by id.
Replayable == {"reminder", "memory", "calendar"}

Card == [kind: [0..Width -> Kinds], on: SUBSET (1..Width), fact: Fact \cup {NoFact}]

Blank == [kind |-> [i \in 0..Width |-> "none"], on |-> {}, fact |-> NoFact]

\* An effect row is keyed by (run_id, tool_use_id): index 0 is the approval's
\* own row, index i the row of item i of a bundle.
Key == Approval \X (0..Width)

ASSUME WidthAssumption == Width \in Nat \ {0}
ASSUME PartiesAssumption ==
  Approval # {} /\ IsFiniteSet(Approval) /\ Person # {} /\ NoFact \notin Fact
ASSUME LimitAssumption ==
  FailedMax \in Nat \ {0} /\ StaleLimit \in Nat \ {0} /\ MaxCrashes \in Nat
ASSUME MayAssumption == May \in [Person -> SUBSET Kinds]

\* What the program stages: bundles of items, and single proposals without items.
ASSUME CardsAssumption ==
  \A d \in Cards :
    /\ d \in Card /\ d.kind[0] # "none"
    /\ d.kind[0] # "bundle" => d.on = {} /\ \A i \in 1..Width : d.kind[i] = "none"
    /\ \A i \in d.on : d.kind[i] \in {"reminder", "calendar", "send"}
    /\ d.kind[0] = "memory" => d.fact # NoFact

VARIABLES
  (* the database *)
  status,     \* approvals.status
  card,       \* approvals.payload
  claimedBy,  \* approvals.claimed_by, as a set of at most one person
  overdue,    \* approvals whose expires_at has passed
  misses,     \* approval_attempts inside the window, per person
  effect,     \* effects.status, "none" when there is no row
  rows,       \* effect rows inserted so far
  born,       \* effects.created_at: the row is the n-th that was inserted
  lapsed,     \* effect rows whose lease_until has passed
  fact,       \* commitments.status / memory_statements.status
  reminders,  \* rows of reminders per approval_id
  (* the world *)
  calls,      \* calls made to an outward channel, per effect key
  delivered,  \* keys whose outward call really reached its destination
  told,       \* approvals whose outcome was written to the family
  (* the processes *)
  pc,         \* what each process is about to do
  job,        \* the approval it is working on
  who,        \* the person whose press it is handling
  at,         \* the item it is working on, 0 for the approval itself
  outcome,    \* outcome returned by the executor, to be written
  partial,    \* did an item of the bundle fail
  todo,       \* stale effects a reconciling process still has to visit
  crashes

dates == <<rows, born>>
store == <<status, card, claimedBy, overdue, misses, effect, dates, lapsed, fact, reminders>>
world == <<calls, delivered, told>>
local == <<pc, job, who, at, outcome, partial, todo>>
vars == <<store, world, local, crashes>>

NoJob == CHOOSE a \in Approval : TRUE
NoOne == CHOOSE c \in Person : TRUE

Settled == {"done", "failed", "outcome_unknown"}
Accepted == {"claimed", "done", "failed"}

\* A process past the claim: it executes an accepted approval.
Held == {"find", "begin", "act", "create", "settle", "fact", "confirm", "mark", "tell"}

PcStates == {"idle", "claim", "find", "begin", "act", "create", "settle", "fact",
             "confirm", "mark", "tell", "drop", "cancel", "restage", "recon"}

StoreType ==
  /\ status \in [Approval -> {"absent", "staged", "claimed", "done", "failed",
                              "cancelled", "expired"}]
  /\ card \in [Approval -> Card]
  /\ claimedBy \in [Approval -> SUBSET Person]
  /\ overdue \in SUBSET Approval
  /\ misses \in [Person -> Nat]
  /\ effect \in [Key -> {"none", "pending"} \cup Settled]
  /\ rows \in Nat /\ born \in [Key -> 0..rows]
  /\ lapsed \in SUBSET Key
  /\ fact \in [Fact -> {"candidate", "confirmed", "rejected", "superseded"}]
  /\ reminders \in [Approval -> Nat]

WorldType ==
  /\ calls \in [Key -> Nat]
  /\ delivered \in SUBSET Key
  /\ told \in SUBSET Approval

LocalType ==
  /\ pc \in [Proc -> PcStates]
  /\ job \in [Proc -> Approval]
  /\ who \in [Proc -> Person]
  /\ at \in [Proc -> 0..Width]
  /\ outcome \in [Proc -> Settled]
  /\ partial \in [Proc -> BOOLEAN]
  /\ todo \in [Proc -> SUBSET Key]
  /\ crashes \in 0..MaxCrashes

TypeOK == StoreType /\ WorldType /\ LocalType

Init ==
  /\ status = [a \in Approval |-> "absent"]
  /\ card = [a \in Approval |-> Blank]
  /\ claimedBy = [a \in Approval |-> {}]
  /\ overdue = {}
  /\ misses = [c \in Person |-> 0]
  /\ effect = [k \in Key |-> "none"]
  /\ rows = 0 /\ born = [k \in Key |-> 0]
  /\ lapsed = {}
  /\ fact = [f \in Fact |-> "candidate"]
  /\ reminders = [a \in Approval |-> 0]
  /\ calls = [k \in Key |-> 0]
  /\ delivered = {}
  /\ told = {}
  /\ pc = [p \in Proc |-> "idle"]
  /\ job = [p \in Proc |-> NoJob]
  /\ who = [p \in Proc |-> NoOne]
  /\ at = [p \in Proc |-> 0]
  /\ outcome = [p \in Proc |-> "done"]
  /\ partial = [p \in Proc |-> FALSE]
  /\ todo = [p \in Proc |-> {}]
  /\ crashes = 0

-----------------------------------------------------------------------------
(* Control of a process *)

Goto(p, state) == pc' = [pc EXCEPT ![p] = state]

\* The call returns: back to the reconcile loop, or to waiting for work.
Return(p) ==
  /\ Goto(p, IF todo[p] = {} THEN "idle" ELSE "recon")
  /\ job' = [job EXCEPT ![p] = NoJob]
  /\ who' = [who EXCEPT ![p] = NoOne]
  /\ at' = [at EXCEPT ![p] = 0]
  /\ outcome' = [outcome EXCEPT ![p] = "done"]
  /\ partial' = [partial EXCEPT ![p] = FALSE]
  /\ UNCHANGED todo

\* The process dies, or an exception nobody catches ends it.
Die(p) ==
  /\ Goto(p, "idle")
  /\ job' = [job EXCEPT ![p] = NoJob]
  /\ who' = [who EXCEPT ![p] = NoOne]
  /\ at' = [at EXCEPT ![p] = 0]
  /\ outcome' = [outcome EXCEPT ![p] = "done"]
  /\ partial' = [partial EXCEPT ![p] = FALSE]
  /\ todo' = [todo EXCEPT ![p] = {}]

Crash(p) ==
  /\ pc[p] # "idle"
  /\ crashes < MaxCrashes
  /\ crashes' = crashes + 1
  /\ Die(p)
  /\ UNCHANGED <<store, world>>

-----------------------------------------------------------------------------
(* Single statements of the stores.  The operators marked "Slip" are mistakes *)
(* somebody could make in the statement that follows them; no action uses     *)
(* them, the mutation runs do.                                                *)

\* record_attempt: the row is inserted with a fresh lease, unless it is there.
Record(k) ==
  /\ effect' = [effect EXCEPT ![k] = "pending"]
  /\ IF effect[k] = "none"
     THEN rows' = rows + 1 /\ born' = [born EXCEPT ![k] = rows + 1]
     ELSE UNCHANGED dates

\* Slip: a call that was cut off is journalled as a refusal.
SettleAsRefusal(k, result) ==
  effect' = [effect EXCEPT ![k] = IF result = "done" THEN "done" ELSE "failed"]

\* _settle: the outcome is written whatever the row says by now.
SettleRow(k, result) == effect' = [effect EXCEPT ![k] = result]

\* Slip: cancel does not look at the status.
CancelAnyRow(a) == status' = [status EXCEPT ![a] = "cancelled"]

\* cancel: only a staged approval is cancelled.
CancelRow(a) == status' = [status EXCEPT ![a] = IF @ = "staged" THEN "cancelled" ELSE @]

\* Slip: everything but an explicit refusal counts as success.
LenientVerdict(result) == IF result = "failed" THEN "failed" ELSE "done"

\* What execute and reconcile mark the approval with.
Verdict(result) == IF result = "done" THEN "done" ELSE "failed"

\* _guard_rate_limit.
MayTry(c) == misses[c] < FailedMax

\* Facts and statements are confirmed or rejected only while a candidate.
IsCandidate(f) == fact[f] = "candidate"

-----------------------------------------------------------------------------
(* Staging and buttons *)

IsBundle(d) == d.kind[0] = "bundle"

\* Slip: the right to one item is taken for the right to all.
MayConfirmSome(c, d) ==
  IF IsBundle(d) THEN \E i \in d.on : d.kind[i] \in May[c]
                 ELSE d.kind[0] \in May[c]

\* may_confirm: the right to confirm the whole is the right to confirm each
\* item that is switched on; a bundle with nothing switched on is refused.
MayConfirm(c, d) ==
  IF IsBundle(d) THEN d.on # {} /\ \A i \in d.on : d.kind[i] \in May[c]
                 ELSE d.kind[0] \in May[c]

\* toggled: flip one item, except the last one that is switched on.
Toggled(d, i) ==
  IF i \notin d.on THEN [d EXCEPT !.on = @ \cup {i}]
  ELSE IF d.on = {i} THEN d
  ELSE [d EXCEPT !.on = @ \ {i}]

Stage(a, d) ==
  /\ status[a] = "absent"
  /\ status' = [status EXCEPT ![a] = "staged"]
  /\ card' = [card EXCEPT ![a] = d]
  /\ UNCHANGED <<claimedBy, overdue, misses, effect, dates, lapsed, fact, reminders,
                 world, local, crashes>>

\* A confirm press: rights are read from the payload and the rate limit is
\* read before, and outside, the transaction of the claim.
PressConfirm(p, c, a) ==
  /\ pc[p] = "idle"
  /\ status[a] # "absent"
  /\ MayConfirm(c, card[a])
  /\ MayTry(c)
  /\ Goto(p, "claim")
  /\ job' = [job EXCEPT ![p] = a]
  /\ who' = [who EXCEPT ![p] = c]
  /\ UNCHANGED <<store, world, at, outcome, partial, todo, crashes>>

\* _claim_where found no staged row for this id, chat and thread.
ClaimGone(p) ==
  /\ pc[p] = "claim"
  /\ status[job[p]] # "staged" \/ who[p] \notin Near
  /\ misses' = [misses EXCEPT ![who[p]] = @ + 1]
  /\ Return(p)
  /\ UNCHANGED <<status, card, claimedBy, overdue, effect, dates, lapsed, fact, reminders,
                 world, crashes>>

ClaimLate(p) ==
  /\ pc[p] = "claim"
  /\ status[job[p]] = "staged" /\ who[p] \in Near
  /\ job[p] \in overdue
  /\ status' = [status EXCEPT ![job[p]] = "expired"]
  /\ Return(p)
  /\ UNCHANGED <<card, claimedBy, overdue, misses, effect, dates, lapsed, fact, reminders,
                 world, crashes>>

\* The claim and the record of the attempt are one transaction.
ClaimTaken(p) ==
  /\ pc[p] = "claim"
  /\ status[job[p]] = "staged" /\ who[p] \in Near
  /\ job[p] \notin overdue
  /\ status' = [status EXCEPT ![job[p]] = "claimed"]
  /\ claimedBy' = [claimedBy EXCEPT ![job[p]] = {who[p]}]
  /\ Record(<<job[p], 0>>)
  /\ Goto(p, "find")
  /\ UNCHANGED <<card, overdue, misses, lapsed, fact, reminders, world,
                 job, who, at, outcome, partial, todo, crashes>>

\* A reject or edit press cancels the approval if it is still staged ...
PressReject(p, a) ==
  /\ pc[p] = "idle"
  /\ status[a] # "absent"
  /\ CancelRow(a)
  /\ Goto(p, "drop")
  /\ job' = [job EXCEPT ![p] = a]
  /\ UNCHANGED <<card, claimedBy, overdue, misses, effect, dates, lapsed, fact, reminders,
                 world, who, at, outcome, partial, todo, crashes>>

\* ... and rejects the hypothesis behind it, whatever became of the approval.
DropFact(p) ==
  /\ pc[p] = "drop"
  /\ LET f == card[job[p]].fact IN
     fact' = [g \in Fact |-> IF g = f /\ IsCandidate(g) THEN "rejected" ELSE fact[g]]
  /\ Return(p)
  /\ UNCHANGED <<status, card, claimedBy, overdue, misses, effect, dates, lapsed, reminders,
                 world, crashes>>

\* A toggle press reads the approval, cancels it, then stages the new card:
\* three steps, and the result of the cancellation is not looked at.
PressToggle(p, a, i) ==
  /\ pc[p] = "idle"
  /\ status[a] = "staged"
  /\ card[a].kind[i] # "none"
  /\ Toggled(card[a], i) # card[a]
  /\ \E b \in Approval : status[b] = "absent"   \* bound: ids left for the new card
  /\ Goto(p, "cancel")
  /\ job' = [job EXCEPT ![p] = a]
  /\ at' = [at EXCEPT ![p] = i]
  /\ UNCHANGED <<store, world, who, outcome, partial, todo, crashes>>

CancelOld(p) ==
  /\ pc[p] = "cancel"
  /\ CancelRow(job[p])
  /\ Goto(p, "restage")
  /\ UNCHANGED <<card, claimedBy, overdue, misses, effect, dates, lapsed, fact, reminders,
                 world, job, who, at, outcome, partial, todo, crashes>>

Restage(p, b) ==
  /\ pc[p] = "restage"
  /\ status[b] = "absent"
  /\ status' = [status EXCEPT ![b] = "staged"]
  /\ card' = [card EXCEPT ![b] = Toggled(card[job[p]], at[p])]
  /\ Return(p)
  /\ UNCHANGED <<claimedBy, overdue, misses, effect, dates, lapsed, fact, reminders,
                 world, crashes>>

-----------------------------------------------------------------------------
(* Execution of a claimed approval *)

\* The loop over items: the next item switched on after i, or the end of it.
Advance(p, i, failed) ==
  LET later == {j \in card[job[p]].on : j > i} IN
  /\ partial' = [partial EXCEPT ![p] = failed]
  /\ IF later = {}
     THEN /\ Goto(p, "settle")
          /\ at' = [at EXCEPT ![p] = 0]
          /\ outcome' = [outcome EXCEPT ![p] = IF failed THEN "failed" ELSE "done"]
     ELSE /\ Goto(p, "begin")
          /\ \E j \in later : /\ \A l \in later : j <= l
                            /\ at' = [at EXCEPT ![p] = j]
          /\ UNCHANGED outcome

\* execute: an approval whose effect is settled is not executed again.
IsExecuted(p) == effect[<<job[p], 0>>] \in Settled

Find(p) ==
  /\ pc[p] = "find"
  /\ IF IsExecuted(p)
     THEN Return(p)
     ELSE /\ IF IsBundle(card[job[p]])
             THEN Advance(p, 0, FALSE)
             ELSE /\ Goto(p, "act")
                  /\ UNCHANGED <<at, outcome, partial>>
          /\ UNCHANGED <<job, who, todo>>
  /\ UNCHANGED <<store, world, crashes>>

\* begin of one item.  A row under a live lease raises EffectInFlight, which
\* fails the whole bundle; a settled row is skipped; a row with an expired
\* lease is executed again.
Begin(p) ==
  LET k == <<job[p], at[p]>> IN
  /\ pc[p] = "begin"
  /\ IF effect[k] \in Settled
     THEN Advance(p, at[p], partial[p]) /\ UNCHANGED <<effect, dates>>
     ELSE IF effect[k] = "pending" /\ k \notin lapsed
     THEN /\ Goto(p, "settle")
          /\ at' = [at EXCEPT ![p] = 0]
          /\ outcome' = [outcome EXCEPT ![p] = "failed"]
          /\ UNCHANGED <<effect, dates, partial>>
     ELSE /\ Record(k)
          /\ Goto(p, "act")
          /\ UNCHANGED <<at, outcome, partial>>
  /\ UNCHANGED <<status, card, claimedBy, overdue, misses, lapsed, fact, reminders,
                 world, job, who, todo, crashes>>

\* The executor returned, or raised, with this outcome.
Report(p, result) ==
  /\ Goto(p, "settle")
  /\ outcome' = [outcome EXCEPT ![p] = result]
  /\ UNCHANGED <<job, who, at, partial, todo, crashes>>

Acting(p, kind) == pc[p] = "act" /\ card[job[p]].kind[at[p]] = kind

\* A reminder or a memory record is looked up first and written by a second
\* transaction; what the lookup finds is not written again.
IsThere(p) ==
  \/ Acting(p, "reminder") /\ reminders[job[p]] > 0
  \/ Acting(p, "memory") /\ fact[card[job[p]].fact] = "confirmed"

LookUp(p) ==
  /\ Acting(p, "reminder") \/ Acting(p, "memory")
  /\ ~IsThere(p)
  /\ Goto(p, "create")
  /\ UNCHANGED <<store, world, job, who, at, outcome, partial, todo, crashes>>

AlreadyThere(p) ==
  /\ IsThere(p)
  /\ Report(p, "done")
  /\ UNCHANGED <<store, world>>

CreateReminder(p) ==
  /\ pc[p] = "create" /\ card[job[p]].kind[at[p]] = "reminder"
  /\ reminders' = [reminders EXCEPT ![job[p]] = @ + 1]
  /\ Report(p, "done")
  /\ UNCHANGED <<status, card, claimedBy, overdue, misses, effect, dates, lapsed, fact, world>>

\* memory.confirm raises unless the statement is still a candidate.
ConfirmMemory(p) ==
  LET f == card[job[p]].fact IN
  /\ pc[p] = "create" /\ card[job[p]].kind[at[p]] = "memory"
  /\ IF IsCandidate(f)
     THEN fact' = [fact EXCEPT ![f] = "confirmed"] /\ Report(p, "done")
     ELSE UNCHANGED fact /\ Report(p, "failed")
  /\ UNCHANGED <<status, card, claimedBy, overdue, misses, effect, dates, lapsed, reminders, world>>

\* The calendar finds the event by the id derived from the fact and updates it,
\* so only the outcome matters.
WriteCalendar(p) ==
  /\ Acting(p, "calendar")
  /\ \E result \in Settled : Report(p, result)
  /\ UNCHANGED <<store, world>>

\* An outward call: accepted, refused, or cut off when it may have arrived.
Send(p) ==
  LET k == <<job[p], at[p]>> IN
  /\ Acting(p, "send")
  /\ calls' = [calls EXCEPT ![k] = @ + 1]
  /\ \/ delivered' = delivered \cup {k} /\ Report(p, "done")
     \/ UNCHANGED delivered /\ Report(p, "failed")
     \/ delivered' \in {delivered, delivered \cup {k}} /\ Report(p, "outcome_unknown")
  /\ UNCHANGED <<store, told>>

Settle(p) ==
  LET k == <<job[p], at[p]>> IN
  /\ pc[p] = "settle"
  /\ SettleRow(k, outcome[p])
  /\ IF at[p] # 0
     THEN Advance(p, at[p], partial[p] \/ outcome[p] # "done")
     ELSE /\ Goto(p, IF outcome[p] = "done" THEN "fact" ELSE "mark")
          /\ UNCHANGED <<at, outcome, partial>>
  /\ UNCHANGED <<status, card, claimedBy, overdue, misses, dates, lapsed, fact, reminders,
                 world, job, who, todo, crashes>>

\* _confirm_commitment: only bundles carry a commitment, only a candidate is
\* confirmed, and the check and the write are two transactions.
ToConfirm(d) == IsBundle(d) /\ d.fact # NoFact /\ IsCandidate(d.fact)

ReadFact(p) ==
  /\ pc[p] = "fact"
  /\ Goto(p, IF ToConfirm(card[job[p]]) THEN "confirm" ELSE "mark")
  /\ UNCHANGED <<store, world, job, who, at, outcome, partial, todo, crashes>>

\* Slip: what was read a transaction ago is still taken for a candidate.
ConfirmAsRead(p) ==
  LET f == card[job[p]].fact IN
  /\ pc[p] = "confirm"
  /\ fact' = [fact EXCEPT ![f] = "confirmed"]
  /\ Goto(p, "mark")
  /\ UNCHANGED <<status, card, claimedBy, overdue, misses, effect, dates, lapsed, reminders,
                 world, job, who, at, outcome, partial, todo, crashes>>

ConfirmFact(p) ==
  LET f == card[job[p]].fact IN
  /\ pc[p] = "confirm"
  /\ IsCandidate(f)
  /\ fact' = [fact EXCEPT ![f] = "confirmed"]
  /\ Goto(p, "mark")
  /\ UNCHANGED <<status, card, claimedBy, overdue, misses, effect, dates, lapsed, reminders,
                 world, job, who, at, outcome, partial, todo, crashes>>

\* CommitmentError leaves execute: the approval is not marked.
ConfirmRefused(p) ==
  /\ pc[p] = "confirm"
  /\ ~IsCandidate(card[job[p]].fact)
  /\ Die(p)
  /\ UNCHANGED <<store, world, crashes>>

Mark(p) ==
  /\ pc[p] = "mark"
  /\ status' = [status EXCEPT ![job[p]] = Verdict(outcome[p])]
  /\ Goto(p, "tell")
  /\ UNCHANGED <<card, claimedBy, overdue, misses, effect, dates, lapsed, fact, reminders,
                 world, job, who, at, outcome, partial, todo, crashes>>

Tell(p) ==
  /\ pc[p] = "tell"
  /\ told' = told \cup {job[p]}
  /\ Return(p)
  /\ UNCHANGED <<store, calls, delivered, crashes>>

-----------------------------------------------------------------------------
(* Reconciliation *)

\* Pending rows whose lease is over, and of these the oldest ones a list has room for.
Overdue == {k \in Key : effect[k] = "pending" /\ k \in lapsed}
Before(k) == {l \in Overdue : born[l] < born[k]}

\* Slip: only rows of items are listed.
StaleItems == {k \in Overdue : k[2] # 0 /\ Cardinality(Before(k)) < StaleLimit}

\* stale: ORDER BY created_at LIMIT.
Stale == {k \in Overdue : Cardinality(Before(k)) < StaleLimit}

Scan(p) ==
  /\ pc[p] = "idle"
  /\ Stale # {}
  /\ todo' = [todo EXCEPT ![p] = Stale]
  /\ Goto(p, "recon")
  /\ UNCHANGED <<store, world, job, who, at, outcome, partial, crashes>>

\* The list is gone through in the order of created_at: an approval's own row was
\* written by the claim, before the rows of its items.
Oldest(p) == {k \in todo[p] : \A l \in todo[p] : born[k] <= born[l]}

ReconReplay(p, k) ==
  /\ pc[p] = "recon"
  /\ k \in Oldest(p)
  /\ card[k[1]].kind[k[2]] \in Replayable
  /\ todo' = [todo EXCEPT ![p] = @ \ {k}]
  /\ job' = [job EXCEPT ![p] = k[1]]
  /\ Goto(p, "find")
  /\ UNCHANGED <<store, world, who, at, outcome, partial, crashes>>

ReconUnknown(p, k) ==
  /\ pc[p] = "recon"
  /\ k \in Oldest(p)
  /\ card[k[1]].kind[k[2]] \notin Replayable
  /\ SettleRow(k, "outcome_unknown")
  /\ todo' = [todo EXCEPT ![p] = @ \ {k}]
  /\ job' = [job EXCEPT ![p] = k[1]]
  /\ outcome' = [outcome EXCEPT ![p] = "outcome_unknown"]
  /\ Goto(p, "mark")
  /\ UNCHANGED <<status, card, claimedBy, overdue, misses, dates, lapsed, fact, reminders,
                 world, who, at, partial, crashes>>

-----------------------------------------------------------------------------
(* Time and the rest of the household *)

\* Leases are equally long, so an item's lease, taken later, ends after the
\* lease of its approval's own row.
LeaseLapses(k) ==
  /\ effect[k] = "pending" /\ k \notin lapsed
  /\ k[2] # 0 => effect[<<k[1], 0>>] # "pending" \/ <<k[1], 0>> \in lapsed
  /\ lapsed' = lapsed \cup {k}
  /\ UNCHANGED <<status, card, claimedBy, overdue, misses, effect, dates, fact, reminders,
                 world, local, crashes>>

TtlPasses(a) ==
  /\ status[a] = "staged" /\ a \notin overdue
  /\ overdue' = overdue \cup {a}
  /\ UNCHANGED <<status, card, claimedBy, misses, effect, dates, lapsed, fact, reminders,
                 world, local, crashes>>

MissForgotten(c) ==
  /\ misses[c] > 0
  /\ misses' = [misses EXCEPT ![c] = @ - 1]
  /\ UNCHANGED <<status, card, claimedBy, overdue, effect, dates, lapsed, fact, reminders,
                 world, local, crashes>>

\* Another letter proposes the next version of a fact it was matched to; the
\* match was read earlier, and what became of the fact since is not looked at.
Supersede(f) ==
  /\ fact[f] # "superseded"
  /\ fact' = [fact EXCEPT ![f] = "superseded"]
  /\ UNCHANGED <<status, card, claimedBy, overdue, misses, effect, dates, lapsed, reminders,
                 world, local, crashes>>

-----------------------------------------------------------------------------
\* What a process does on its own, once a press or a scan has set it going.
Step(p) ==
  \/ ClaimGone(p) \/ ClaimLate(p) \/ ClaimTaken(p)
  \/ DropFact(p) \/ CancelOld(p) \/ \E b \in Approval : Restage(p, b)
  \/ Find(p) \/ Begin(p) \/ LookUp(p) \/ AlreadyThere(p) \/ CreateReminder(p)
  \/ ConfirmMemory(p) \/ WriteCalendar(p) \/ Send(p) \/ Settle(p)
  \/ ReadFact(p) \/ ConfirmFact(p) \/ ConfirmRefused(p) \/ Mark(p) \/ Tell(p)
  \/ \E k \in Key : ReconReplay(p, k) \/ ReconUnknown(p, k)

Next ==
  \/ \E a \in Approval : (\E d \in Cards : Stage(a, d)) \/ TtlPasses(a)
  \/ \E p \in Proc : Step(p) \/ Scan(p) \/ Crash(p)
  \/ \E p \in Proc, a \in Approval :
        \/ \E c \in Person : PressConfirm(p, c, a)
        \/ PressReject(p, a)
        \/ \E i \in 1..Width : PressToggle(p, a, i)
  \/ \E k \in Key : LeaseLapses(k)
  \/ \E c \in Person : MissForgotten(c)
  \/ \E f \in Fact : Supersede(f)

Spec == Init /\ [][Next]_vars

\* Processes run and the clock runs; `listen` reconciles on every round before
\* it takes new presses, so presses cannot keep a scan away for ever.
Fairness ==
  /\ \A p \in Proc : WF_vars(Step(p)) /\ SF_vars(Scan(p))
  /\ \A k \in Key : WF_vars(LeaseLapses(k))

FairSpec == Spec /\ Fairness

-----------------------------------------------------------------------------
(* Properties *)

\* Nothing leaves the household without a human yes: an outward call is made
\* only for an approval that was claimed, from its own chat, by a person with
\* the right to make it, and only for a part the card showed as on
\* (handle_callback, may_confirm, _claim_where, _execute_bundle).
NothingWithoutYes ==
  \A k \in Key : calls[k] > 0 =>
    /\ status[k[1]] \in Accepted
    /\ \E c \in claimedBy[k[1]] : c \in Near /\ card[k[1]].kind[k[2]] \in May[c]
    /\ k[2] = 0 \/ k[2] \in card[k[1]].on

\* How a yes is handed on, from the press to the outward call: an accepted
\* approval keeps the person who accepted it, with the right to all of it; a
\* process executes, and reconcile lists, only what was accepted; an executor
\* runs for the whole of a single proposal or for an item that is on.
YesKept ==
  \A a \in Approval : status[a] \in Accepted =>
    \E c \in claimedBy[a] : c \in Near /\ MayConfirm(c, card[a])

Executing ==
  \A p \in Proc :
    /\ pc[p] \in Held => status[job[p]] \in Accepted
    /\ \A k \in todo[p] : status[k[1]] \in Accepted
    /\ pc[p] = "claim" => status[job[p]] # "absent" /\ MayConfirm(who[p], card[job[p]])
    /\ pc[p] \in {"idle", "claim", "find", "recon"} => at[p] = 0
    /\ pc[p] \in {"cancel", "restage", "begin"} => at[p] # 0
    /\ pc[p] \in {"cancel", "restage"} => status[job[p]] # "absent"
    /\ pc[p] \in {"begin", "act", "create", "settle"} /\ at[p] # 0 =>
         IsBundle(card[job[p]]) /\ at[p] \in card[job[p]].on
    /\ pc[p] \in {"act", "create"} /\ at[p] = 0 => ~IsBundle(card[job[p]])

Journalled ==
  \A k \in Key :
    /\ effect[k] # "none" \/ calls[k] > 0 => status[k[1]] \in Accepted
    /\ calls[k] > 0 => IF k[2] = 0 THEN ~IsBundle(card[k[1]])
                       ELSE IsBundle(card[k[1]]) /\ k[2] \in card[k[1]].on

Custody == YesKept /\ Executing /\ Journalled

\* A process that may still bring the executor of this approval to run.
Driving(p) ==
  \/ pc[p] = "find" /\ ~IsExecuted(p)
  \/ pc[p] \in {"begin", "act", "create"}
  \/ pc[p] = "settle" /\ at[p] # 0

\* Two processes never drive the same approval, unless reconcile may replay it.
OneDriver ==
  \A p, q \in Proc :
    Driving(p) /\ Driving(q) /\ job[p] = job[q] /\ card[job[p]].kind[0] \notin Replayable
      => p = q

\* What a driver has not come to yet, nobody has touched.
UntouchedBy(p) ==
  LET Row(i) == <<job[p], i>> IN
  /\ pc[p] = "find" /\ ~IsExecuted(p) =>
       /\ IsBundle(card[job[p]]) => \A i \in 1..Width : effect[Row(i)] = "none"
       /\ card[job[p]].kind[0] = "send" => calls[Row(0)] = 0
  /\ pc[p] = "begin" => \A i \in at[p]..Width : effect[Row(i)] = "none"
  /\ pc[p] \in {"act", "create", "settle"} /\ at[p] # 0 =>
       \A i \in at[p] + 1 .. Width : effect[Row(i)] = "none"
  /\ Acting(p, "send") => calls[Row(at[p])] = 0

Untouched == \A p \in Proc : UntouchedBy(p)

\* The lease of an item outlives that of the approval's own row, so a reconciler
\* that comes to an item finds the approval's own row settled.
OwnRowFirst ==
  /\ \A k \in Key :
       /\ effect[k] # "none" /\ k[2] # 0 => IsBundle(card[k[1]])
       /\ k \in lapsed => effect[k] # "none"
       /\ k \in lapsed /\ effect[<<k[1], 0>>] = "pending" => <<k[1], 0>> \in lapsed
  /\ \A p \in Proc : \A k \in todo[p] :
       /\ effect[k] # "none"
       /\ <<k[1], 0>> \in todo[p] \/ effect[<<k[1], 0>>] \in Settled

\* Why no executor is called twice: one driver, on untouched rows only.
NoSecondHand == OneDriver /\ Untouched /\ OwnRowFirst

\* No blind retry: whatever crashes, stalls and reconciles happen, an outward
\* executor is called at most once per effect row.
AtMostOneCall == \A k \in Key : calls[k] <= 1

\* The record precedes the action: an approval is accepted exactly when its
\* own effect row exists, and an executor that is about to run, or has run,
\* has the row of its item.
WriteAhead ==
  /\ \A a \in Approval : status[a] \in Accepted <=> effect[<<a, 0>>] # "none"
  /\ \A k \in Key : calls[k] > 0 => effect[k] # "none"
  /\ \A p \in Proc : pc[p] \in {"act", "create", "settle"} =>
       effect[<<job[p], at[p]>>] # "none"

\* _execute_bundle never meets a row left by another run of the same bundle:
\* neither EffectInFlight nor the expired lease it would execute again.
ItemsAreFresh == \A p \in Proc : pc[p] = "begin" => effect[<<job[p], at[p]>>] = "none"

\* The journal does not lie about outward effects: "failed" did not happen,
\* "done" did; what may have happened is "outcome_unknown".  And the family is
\* told an outcome only when the journal and the verdict have been written.
HonestJournal ==
  /\ \A k \in Key : card[k[1]].kind[k[2]] = "send" =>
       /\ effect[k] = "failed" => k \notin delivered
       /\ effect[k] = "done" => k \in delivered
  /\ \A a \in told : status[a] \in {"done", "failed"} /\ effect[<<a, 0>>] \in Settled

\* An approval only moves forward: a cancelled or expired card is never
\* claimed, an accepted one is never cancelled or offered again.
StatusMovesForward ==
  [][\A a \in Approval :
       /\ status[a] \in Accepted => status'[a] \in Accepted
       /\ status[a] \in {"cancelled", "expired"} => status'[a] = status[a]]_status

\* A hypothesis becomes a fact of the family only with a human yes to a card
\* that carries it, and only while it is a hypothesis: what the family said no to,
\* or a newer letter replaced, is not confirmed by a yes to another card, nor by
\* one that read it earlier (CommitmentStore.confirm, MemoryStore.confirm).
FactNeedsYes ==
  [][\A f \in Fact : fact'[f] = "confirmed" /\ fact[f] # "confirmed" =>
       /\ fact[f] = "candidate"
       /\ \E a \in Approval : card[a].fact = f /\ status[a] \in Accepted]_fact

\* With one process at a time the verdict on an approval agrees with the journal,
\* and the approval gives rise to one reminder, replays included.
VerdictMatchesJournal ==
  \A a \in Approval :
    /\ status[a] = "done" => \A i \in card[a].on \cup {0} : effect[<<a, i>>] = "done"
    /\ status[a] = "failed" => effect[<<a, 0>>] \in {"failed", "outcome_unknown"}
    /\ reminders[a] <= 1

\* The row of an item that was cut off and that no replay settles: execute stops
\* at the settled row of its approval.
Stuck(k) == k \in Overdue /\ k[2] # 0 /\ effect[<<k[1], 0>>] \in Settled

\* Rows like that, older than a's own, fill the list of every reconciliation.
Crowded(a) == Cardinality({k \in Before(<<a, 0>>) : Stuck(k)}) >= StaleLimit

\* A claimed approval does not hang: its own effect is settled in the end, by
\* its executor or, after a crash, by reconcile; or it is crowded out of the list
\* by rows of items cut off before it, as many as the list holds.
ClaimedSettles ==
  \A a \in Approval :
    effect[<<a, 0>>] = "pending" ~> effect[<<a, 0>>] \in Settled \/ Crowded(a)

-----------------------------------------------------------------------------
(* What the contour promises, without its machinery: see HumanYes. *)

offer == [a \in Approval |->
  CASE status[a] = "absent" -> "none"
    [] status[a] = "staged" -> "open"
    [] status[a] \in {"cancelled", "expired"} -> "closed"
    [] OTHER -> "yes"]

terms == [a \in Approval |-> card[a].on \cup {0}]

Promise == INSTANCE HumanYes WITH Part <- 0..Width, attempts <- calls

\* Every behaviour of the pipeline is one the promise allows.
KeepsPromise == Promise!Spec

=============================================================================
