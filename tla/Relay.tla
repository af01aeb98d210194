------------------------------- MODULE Relay -------------------------------
(***************************************************************************)
(* The relay inbox of a household whose mail is forwarded by Gmail: the    *)
(* webhook journal and its worker (hermes_cloud/ingest/nerve_webhook.py),  *)
(* the ingest of a letter (ingest/rfc822.py), and the forwarding health    *)
(* the same loop keeps (ingest/forwarding.py, runtime/service.py).         *)
(*                                                                         *)
(* Nerve posts a webhook for every message of the inbox until it is        *)
(* answered.  One thread of the runtime leases a row of the journal, reads *)
(* the message, and either ingests a letter or settles what is not the     *)
(* family's mail: Google's confirmation and the runtime's own check.  The  *)
(* same pass then counts an overdue check, declares forwarding stale, and  *)
(* sends the check that is due.  Every commit is a step, and the process   *)
(* may die between any two.                                                *)
(*                                                                         *)
(* Time is two events: the return window of the last check passes, and the *)
(* interval after which the next is due, on a later date.  A pass of the   *)
(* worker is short against both.                                           *)
(***************************************************************************)
EXTENDS Naturals, Sequences, FiniteSets

CONSTANTS
  Letters,           \* letters the family's correspondents write
  Rich,              \* the ones with attachments or an HTML part
  Confirmations,     \* Google's confirmations
  MaxAttempts,       \* DEFAULT_MAX_ATTEMPTS
  StaleAfterMisses,  \* STALE_AFTER_MISSES
  MaxRev,            \* bound: config revisions of the runtime
  MaxDay,            \* bound: days
  MaxCheck,          \* bound: checks one revision sends
  Plans              \* what happens outside: the bounds on faults and the rest

ASSUME RelayAssumption ==
  /\ Letters \subseteq Nat /\ Confirmations \subseteq Nat \ {0} /\ Rich \subseteq Letters
  /\ MaxAttempts \in Nat \ {0} /\ StaleAfterMisses \in Nat \ {0}
  /\ MaxRev \in Nat \ {0} /\ MaxDay \in Nat \ {0} /\ MaxCheck \in Nat \ {0}
  /\ \A p \in Plans :
       /\ p.letters \subseteq Letters /\ p.confirmations \subseteq Confirmations
       /\ p.faults \in Nat /\ p.flips \in Nat /\ p.rechecks \in Nat /\ p.deploys \in Nat
       /\ p.checks \in 0 .. MaxCheck /\ p.delayed \in Nat

Rev == 1 .. MaxRev

\* check_token: the UTC date and the number of the attempt.
Token(d, attempt) == d * (MaxCheck + 1) + attempt
Tokens == {Token(d, a) : d \in 1 .. MaxDay, a \in 1 .. MaxCheck}

Letter(n) == [kind |-> "letter", n |-> n]
Confirmation(n) == [kind |-> "confirmation", n |-> n]
Check(t) == [kind |-> "check", n |-> t]
Message ==
  {Letter(n) : n \in Letters} \cup {Confirmation(n) : n \in Confirmations}
  \cup {Check(t) : t \in Tokens}

VARIABLES
  day, rev,
  on,        \* Gmail forwards to the relay
  inbox,     \* on the way to the relay or there
  acked,     \* Nerve has seen a 2xx for its webhook
  composed,  \* idempotency keys of checks Nerve has sent
  journal,   \* nerve_webhook_events, in the order received
  pc, row,   \* where the worker is, and the row it holds
  due,       \* a check was due when the pass found forwarding stale
  events,    \* canonical events, in order
  receipts,  \* email_ingress_receipts
  cached,    \* messages whose attachments are stored
  fwd,       \* gmail_forwarding_state by revision
  overdue,   \* history: checks that missed the window since the last proof
  left       \* what the plan still allows

vars == <<day, rev, on, inbox, acked, composed, journal, pc, row, due,
          events, receipts, cached, fwd, overdue, left>>
outside == <<on, inbox, acked>>
mail == <<events, receipts, cached>>
clock == <<day, rev>>

\* ensure_pending.
Pending == [state |-> "pending", misses |-> 0, token |-> 0, seen |-> 0, age |-> "none",
            counted |-> FALSE, requested |-> FALSE, attempts |-> 0,
            link |-> 0, linkShown |-> FALSE, staleShown |-> FALSE]

TypeOK ==
  /\ day \in 1 .. MaxDay /\ rev \in Rev /\ on \in BOOLEAN /\ due \in BOOLEAN
  /\ inbox \subseteq Message /\ acked \subseteq inbox
  /\ composed \subseteq Tokens /\ row \in 0 .. Len(journal)
  /\ pc \in {"idle", "thread", "attach", "ingest", "receipt", "mark", "proof",
             "record", "divert", "tick", "stale", "send", "sent"}
  /\ \A i \in DOMAIN journal :
       /\ journal[i].rev \in Rev /\ journal[i].msg \in Message
       /\ journal[i].state \in {"queued", "processing", "materialized", "diverted", "dlq"}
       /\ journal[i].attempts \in 0 .. MaxAttempts
       /\ journal[i].late \in BOOLEAN /\ journal[i].expired \in BOOLEAN
  /\ receipts \subseteq Message /\ cached \subseteq Message
  /\ \A r \in Rev :
       /\ fwd[r].state \in {"pending", "active", "stale"}
       /\ fwd[r].age \in {"none", "fresh", "late", "due"}
       /\ fwd[r].attempts \in 0 .. MaxCheck /\ fwd[r].misses \in 0 .. MaxCheck
       /\ fwd[r].token \in Tokens \cup {0} /\ fwd[r].link \in Confirmations \cup {0}

Leasable ==
  {i \in DOMAIN journal :
     journal[i].state = "queued" \/ (journal[i].state = "processing" /\ journal[i].expired)}

Spend(what) == left[what] > 0 /\ left' = [left EXCEPT ![what] = @ - 1]
Free == UNCHANGED left
Fault == Spend("faults")

-----------------------------------------------------------------------------
(* Outside: the family, Gmail, Nerve, the clock. *)

\* A letter reaches the family's Gmail, which forwards it or does not.
Write(n) ==
  /\ n \in left.letters
  /\ left' = [left EXCEPT !.letters = @ \ {n}]
  /\ inbox' = IF on THEN inbox \cup {Letter(n)} ELSE inbox
  /\ UNCHANGED <<clock, on, acked, composed, journal, pc, row, due, mail, fwd, overdue>>

\* The family asks Gmail to forward; Google writes to the relay itself.
Confirm(n) ==
  /\ n \in left.confirmations
  /\ left' = [left EXCEPT !.confirmations = @ \ {n}]
  /\ inbox' = inbox \cup {Confirmation(n)}
  /\ UNCHANGED <<clock, on, acked, composed, journal, pc, row, due, mail, fwd, overdue>>

Switch ==
  /\ Spend("flips") /\ on' = ~on
  /\ UNCHANGED <<clock, inbox, acked, composed, journal, pc, row, due, mail, fwd, overdue>>

\* CHECK_RETURN_WINDOW_SECONDS since the last check.
WindowPasses ==
  LET f == fwd[rev] IN
  /\ pc = "idle" /\ f.age = "fresh"
  /\ fwd' = [fwd EXCEPT ![rev].age = "late"]
  /\ overdue' = IF f.seen = f.token THEN overdue
                ELSE [overdue EXCEPT ![rev] = @ \cup {f.token}]
  /\ Free
  /\ UNCHANGED <<clock, outside, composed, journal, pc, row, due, mail>>

\* _check_interval is hours longer than the window, ends on a later date, and
\* finds the journal drained and few webhooks not yet posted.
IntervalPasses ==
  /\ pc = "idle" /\ fwd[rev].age = "late" /\ day < MaxDay
  /\ Leasable = {} /\ Cardinality(inbox \ acked) <= left.delayed
  /\ day' = day + 1
  /\ fwd' = [fwd EXCEPT ![rev].age = "due"]
  /\ Free
  /\ UNCHANGED <<rev, outside, composed, journal, pc, row, due, mail, overdue>>

\* A new config revision: the process is replaced, the volume stays.
Deploy ==
  /\ rev < MaxRev /\ Spend("deploys") /\ rev' = rev + 1
  /\ pc' = "idle" /\ row' = 0 /\ due' = FALSE
  /\ UNCHANGED <<day, outside, composed, journal, mail, fwd, overdue>>

Crash ==
  /\ pc # "idle" /\ Fault
  /\ pc' = "idle" /\ row' = 0 /\ due' = FALSE
  /\ UNCHANGED <<clock, outside, composed, journal, mail, fwd, overdue>>

-----------------------------------------------------------------------------
(* The webhook. *)

Rows(r, m) == {i \in DOMAIN journal : journal[i].rev = r /\ journal[i].msg = m}

\* The check in hand was received after the window of the one outstanding.
Late(m) == m = Check(fwd[rev].token) /\ fwd[rev].age \in {"late", "due"}

NewRow(m) == [rev |-> rev, msg |-> m, state |-> "queued", attempts |-> 0,
              late |-> Late(m), expired |-> FALSE]

\* append: one row per message and revision, and the answer only after it.
Post(m) ==
  /\ m \in inbox \ acked
  /\ journal' = IF Rows(rev, m) = {} THEN Append(journal, NewRow(m)) ELSE journal
  /\ \/ acked' = acked \cup {m} /\ Free
     \/ UNCHANGED acked /\ Fault
  /\ UNCHANGED <<clock, on, inbox, composed, pc, row, due, mail, fwd, overdue>>

-----------------------------------------------------------------------------
(* The worker: NerveAttachmentWorker.run_once. *)

Kept(i) == UNCHANGED <<clock, outside, composed, due, overdue>> /\ row' = i /\ Free

\* lease: the oldest row that is queued or whose lease is over.
Lease ==
  /\ pc = "idle" /\ Leasable # {}
  /\ \E i \in Leasable :
       /\ \A j \in Leasable : i <= j
       /\ journal' = [journal EXCEPT ![i].state = "processing", ![i].expired = FALSE]
       /\ Kept(i)
  /\ pc' = "thread"
  /\ UNCHANGED <<mail, fwd>>

\* The lease of a dead worker.
Expire(i) ==
  /\ journal[i].state = "processing" /\ ~journal[i].expired /\ row # i
  /\ journal' = [journal EXCEPT ![i].expired = TRUE]
  /\ Kept(row)
  /\ UNCHANGED <<pc, mail, fwd>>

Held == journal[row]

\* Slip: a failure is not counted.
Uncounted(i) == [journal EXCEPT ![i].state = "queued"]
\* mark_failed: back in the queue at once, or dead.
MarkedFailed(i) ==
  [journal EXCEPT
     ![i].attempts = @ + 1,
     ![i].state = IF journal[i].attempts + 1 >= MaxAttempts THEN "dlq" ELSE "queued"]

\* The exception leaves the pass: no health tick.
Failed ==
  /\ journal' = MarkedFailed(row)
  /\ pc' = "idle" /\ Kept(0)
  /\ UNCHANGED <<mail, fwd>>

\* What follows what, for a letter and for what is not one.
\* Slip: a letter is settled before it is ingested.
MarkFirst == <<"attach", "mark", "ingest", "receipt", "proof">>
LetterSteps == <<"attach", "ingest", "receipt", "mark", "proof">>
DivertSteps == <<"record", "divert">>

StepsOf(m) == IF m.kind = "letter" THEN LetterSteps ELSE DivertSteps
After(step, m) ==
  LET steps == StepsOf(m) IN
  IF \E k \in 1 .. Len(steps) - 1 : steps[k] = step
    THEN steps[1 + CHOOSE k \in 1 .. Len(steps) - 1 : steps[k] = step]
    ELSE "tick"
Onward == pc' = After(pc, Held.msg) /\ Kept(IF pc' = "tick" THEN 0 ELSE row)

\* get_thread, _find_message, and classify.
ReadThread ==
  /\ pc = "thread"
  /\ \/ Failed
     \/ /\ pc' = StepsOf(Held.msg)[1] /\ Kept(row)
        /\ UNCHANGED <<journal, mail, fwd>>

\* Stored one by one and kept over a retry; any of them may fail.
Attach ==
  /\ pc = "attach"
  /\ \/ Held.msg \notin cached /\ Held.msg.n \in Rich /\ Failed
     \/ /\ Onward
        /\ cached' = IF Held.msg.n \in Rich THEN cached \cup {Held.msg} ELSE cached
        /\ UNCHANGED <<journal, events, receipts, fwd>>

\* EventStore.append: a known external id is a no-op.
Appended(m) ==
  IF \E i \in DOMAIN events : events[i] = m THEN events ELSE Append(events, m)

\* ingest_rfc822.  A message built twice with more than one part has another
\* boundary, so another digest, and its receipt refuses it.
Ingest ==
  /\ pc = "ingest"
  /\ \/ /\ Held.msg \in receipts /\ Held.msg.n \in Rich
        /\ Failed
     \/ /\ Held.msg \in receipts => Held.msg.n \notin Rich
        /\ events' = IF Held.msg \in receipts THEN events ELSE Appended(Held.msg)
        /\ Onward
        /\ UNCHANGED <<journal, receipts, cached, fwd>>

Receipt ==
  /\ pc = "receipt" /\ Onward
  /\ receipts' = receipts \cup {Held.msg}
  /\ UNCHANGED <<journal, events, cached, fwd>>

MarkMaterialized ==
  /\ pc = "mark" /\ Onward
  /\ journal' = [journal EXCEPT ![row].state = "materialized"]
  /\ UNCHANGED <<mail, fwd>>

\* tick: the outstanding check missed its window and is not counted yet.
Missed(f) == ~f.counted /\ f.token # f.seen /\ f.age \in {"late", "due"}

\* mark_active.
Active(f, t) ==
  [f EXCEPT !.state = "active", !.misses = 0, !.staleShown = FALSE, !.seen = t]

\* A miss no tick has counted yet is counted after the proof.
Proved(r, t) ==
  LET f == Active(fwd[r], t) IN
  /\ fwd' = [fwd EXCEPT ![r] = f]
  /\ overdue' = [overdue EXCEPT ![r] = IF Missed(f) THEN {f.token} ELSE {}]

Proof ==
  /\ pc = "proof"
  /\ Proved(Held.rev, fwd[Held.rev].seen)
  /\ pc' = "tick" /\ row' = 0
  /\ Free
  /\ UNCHANGED <<clock, outside, composed, due, journal, mail>>

\* Slip: a check proves forwarding however late it came back.
ReturnsEver(f, i) == f.token # 0 /\ journal[i].msg.n = f.token
\* record_check_return: only the outstanding check, and only in its window.
Returns(f, i) == f.token # 0 /\ journal[i].msg.n = f.token /\ ~journal[i].late

\* record_confirmation keeps the newest link, unshown.
Linked(f, n) == [f EXCEPT !.link = n, !.linkShown = FALSE]

Record ==
  LET r == Held.rev IN
  /\ pc = "record"
  /\ \/ /\ Held.msg.kind = "confirmation"
        /\ fwd' = [fwd EXCEPT ![r] = Linked(fwd[r], Held.msg.n)] /\ UNCHANGED overdue
     \/ Held.msg.kind = "check" /\ Returns(fwd[r], row) /\ Proved(r, Held.msg.n)
     \/ Held.msg.kind = "check" /\ ~Returns(fwd[r], row) /\ UNCHANGED <<fwd, overdue>>
  /\ pc' = After(pc, Held.msg) /\ row' = IF pc' = "tick" THEN 0 ELSE row
  /\ Free
  /\ UNCHANGED <<clock, outside, composed, due, journal, mail>>

MarkDiverted ==
  /\ pc = "divert" /\ Onward
  /\ journal' = [journal EXCEPT ![row].state = "diverted"]
  /\ UNCHANGED <<mail, fwd>>

-----------------------------------------------------------------------------
(* The health tick of the same pass: ForwardingHealth.tick. *)

Ticking == UNCHANGED <<clock, acked, on, journal, row, mail, overdue>>

\* count_miss.
Counted(f) == [f EXCEPT !.misses = @ + 1, !.counted = TRUE]

Sendable == fwd[rev].attempts < left.checks
Due(f) == f.requested \/ f.age \in {"none", "due"}

\* Where the pass goes on.
Send(asked) == IF asked /\ Sendable THEN "send" ELSE "idle"

\* After a row, or when there is none.  due is what the pass has read.
Tick ==
  LET f == fwd[rev] IN
  /\ pc = "tick" \/ (pc = "idle" /\ Leasable = {})
  /\ \/ /\ Missed(f)
        /\ fwd' = [fwd EXCEPT ![rev] = Counted(f)]
        /\ IF f.misses + 1 >= StaleAfterMisses /\ f.state = "active"
             THEN pc' = "stale" /\ due' = Due(f)
             ELSE pc' = Send(Due(f)) /\ UNCHANGED due
     \/ /\ ~Missed(f)
        /\ pc' = Send(Due(f)) /\ UNCHANGED <<fwd, due>>
  /\ Free /\ Ticking /\ UNCHANGED <<inbox, composed>>

\* mark_stale, and the alert.
MarkStale ==
  /\ pc = "stale" /\ pc' = Send(due) /\ due' = FALSE
  /\ fwd' = [fwd EXCEPT ![rev].state = "stale", ![rev].staleShown = FALSE]
  /\ Free /\ Ticking /\ UNCHANGED <<inbox, composed>>

NextToken == Token(day, fwd[rev].attempts + 1)

\* send_check.  Nerve sends nothing for an idempotency key it knows; Gmail
\* forwards the check straight back, if it forwards; the answer may be lost.
SendCheck ==
  /\ pc = "send"
  /\ composed' = composed \cup {NextToken}
  /\ inbox' = IF on /\ NextToken \notin composed
                THEN inbox \cup {Check(NextToken)} ELSE inbox
  /\ \/ pc' = "sent" /\ Free
     \/ pc' = "idle" /\ Fault
  /\ Ticking /\ UNCHANGED <<due, fwd>>

\* Slip: sending a check forgives the ones that were missed.
CheckSentAfresh(f, t) ==
  [f EXCEPT !.token = t, !.age = "fresh", !.attempts = @ + 1, !.counted = FALSE,
            !.requested = FALSE, !.misses = 0]
\* record_check_sent.
CheckSent(f, t) ==
  [f EXCEPT !.token = t, !.age = "fresh", !.attempts = @ + 1, !.counted = FALSE,
            !.requested = FALSE]

RecordCheck ==
  /\ pc = "sent" /\ pc' = "idle"
  /\ fwd' = [fwd EXCEPT ![rev] = CheckSent(fwd[rev], NextToken)]
  /\ Free /\ Ticking /\ UNCHANGED <<due, inbox, composed>>

-----------------------------------------------------------------------------
(* The owner's chat, on another thread. *)

Chatting == UNCHANGED <<clock, outside, composed, journal, pc, row, due, mail, overdue>>

\* forwarding_recheck.
Recheck ==
  /\ ~fwd[rev].requested /\ Spend("rechecks")
  /\ fwd' = [fwd EXCEPT ![rev].requested = TRUE]
  /\ Chatting

\* take_unshown_confirmation and take_unshown_stale_notice.
OwnerTurn ==
  /\ \/ fwd[rev].link # 0 /\ ~fwd[rev].linkShown
     \/ fwd[rev].state = "stale" /\ ~fwd[rev].staleShown
  /\ fwd' = [fwd EXCEPT ![rev].linkShown = (fwd[rev].link # 0),
                        ![rev].staleShown = (fwd[rev].state = "stale")]
  /\ Free /\ Chatting

-----------------------------------------------------------------------------
Init ==
  /\ day = 1 /\ rev = 1 /\ on \in BOOLEAN
  /\ inbox = {} /\ acked = {} /\ composed = {}
  /\ journal = <<>> /\ pc = "idle" /\ row = 0 /\ due = FALSE
  /\ events = <<>> /\ receipts = {} /\ cached = {}
  /\ fwd = [r \in Rev |-> Pending] /\ overdue = [r \in Rev |-> {}]
  /\ left \in Plans

Work ==
  \/ Lease \/ ReadThread \/ Attach \/ Ingest \/ Receipt
  \/ MarkMaterialized \/ Proof \/ Record \/ MarkDiverted
  \/ Tick \/ MarkStale \/ SendCheck \/ RecordCheck

Next ==
  \/ Work
  \/ \E n \in Letters : Write(n)
  \/ \E n \in Confirmations : Confirm(n)
  \/ \E m \in inbox : Post(m)
  \/ \E i \in DOMAIN journal : Expire(i)
  \/ Switch \/ WindowPasses \/ IntervalPasses \/ Deploy \/ Crash
  \/ Recheck \/ OwnerTurn

Spec == Init /\ [][Next]_vars

\* The worker's thread turns for ever, and a lease ends.
FairSpec ==
  /\ Spec /\ WF_vars(Work)
  /\ WF_vars(\E i \in DOMAIN journal : Expire(i))

-----------------------------------------------------------------------------
(* Properties. *)

\* A row is settled only over what it was for: a letter that is a canonical
\* event, and one event however often it was posted, retried or cut off by a
\* crash; a confirmation somebody kept; and it is dead only after its attempts.
\* Google's confirmation and the runtime's own check are never events.
SettledIsKept ==
  /\ \A i \in DOMAIN journal :
       LET r == journal[i] IN
       /\ r.state = "materialized" => Cardinality({j \in DOMAIN events : events[j] = r.msg}) = 1
       /\ r.state = "diverted" /\ r.msg.kind = "confirmation" => fwd[r.rev].link # 0
       /\ r.state = "dlq" => r.attempts = MaxAttempts
  /\ \A j \in DOMAIN events : events[j].kind = "letter"

\* Forwarding is declared stale only after two different checks missed their
\* window with no letter and no check in time between them, and only a letter
\* or a check that was back in time ends it (tick, record_check_return).
StaleIsEarned ==
  [][\A r \in Rev :
       /\ fwd[r].state # "stale" /\ fwd'[r].state = "stale"
          => Cardinality(overdue[r]) >= StaleAfterMisses
       /\ fwd[r].state = "stale" /\ fwd'[r].state # "stale"
          => Held.rev = r /\ ~Held.late /\ Held.msg.kind # "confirmation"]_vars

\* Two checks that missed their window are noticed, whatever thread or attachment
\* fails in the passes that should count the last of them, unless something
\* proves forwarding alive first.  A crash between the count and mark_stale
\* costs one more check, so no fault is left when the last one is to be counted.
OutageIsNoticed ==
  \A r \in Rev :
    rev = r /\ fwd[r].state = "active" /\ Cardinality(overdue[r]) >= StaleAfterMisses
      /\ Missed(fwd[r]) /\ left.faults = 0
      ~> (rev # r \/ fwd[r].state = "stale" \/ Cardinality(overdue[r]) < StaleAfterMisses)

\* Every row leaves the queue for good: no crash, failing thread or pending
\* attachment keeps it, or the rows behind it, for ever.
EveryWebhookSettles ==
  []<>(\A i \in DOMAIN journal : journal[i].state \in {"materialized", "diverted", "dlq"})

=============================================================================
