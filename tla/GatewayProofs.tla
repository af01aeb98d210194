---------------------------- MODULE GatewayProofs ----------------------------
(***************************************************************************)
(* Proofs about the gateway, for any messages, households, keys, limits    *)
(* and faults.                                                             *)
(***************************************************************************)
EXTENDS Gateway, TLAPS

USE DEF world, history, vars

-----------------------------------------------------------------------------
(* The inductive invariant *)

\* A message the log holds or has settled.
Known(m) == Kept(m) \/ fate[m] # "none"

\* The webhook defers a row at most once, and says so when it did.
Waits(m) == IF acked[m] \in Retryable THEN 1 ELSE 0

\* A row belongs to the household it was accepted for, and every attempt it
\* counts was made.
RowOK(m) ==
  /\ Kept(m) => wal[m].house = accepted[m]
  /\ wal[m].attempts < MaxAttempts + Waits(m)
  /\ wal[m].attempts <= tries[m]
  /\ fate[m] = "exhausted" => tries[m] >= MaxAttempts

\* What the runtimes hold was accepted, and what was answered is so.
AnswerOK(m) ==
  /\ ~Known(m) => /\ accepted[m] = None /\ inbox[m] = {}
                  /\ acked[m] \notin Retryable /\ acked[m] # "ok"
  /\ acked[m] = "ok" => inbox[m] # {}
  /\ inbox[m] \subseteq {accepted[m]}
  /\ \A h \in inbox[m] : SignedFor[m] = h

\* The webhook in hand: not yet in the log, or in it for the household routed.
WebOK ==
  /\ web.at # "idle" => acked[web.m] \in {"none", "refused"}
  /\ web.at = "lookup" => ~Known(web.m)
  /\ web.at \in {"check", "send"} => Known(web.m) /\ accepted[web.m] = web.house
  /\ web.at = "send" => SignedFor[web.m] = web.house

\* The copies a pass holds: of known rows, behind them by the webhook's deferral
\* at most.
CopyOK(m) ==
  m \in red.left =>
    /\ Known(m)
    /\ red.rows[m].house = accepted[m]
    /\ red.rows[m].attempts <= tries[m]
    /\ wal[m].attempts <= red.rows[m].attempts + Waits(m)

\* The row in hand goes to the household it was accepted for, signed by it.
RedOK ==
  /\ red.at = "idle" => red.left = {}
  /\ red.at \in {"judge", "send"} => red.house = accepted[red.m]
  /\ red.at = "send" => SignedFor[red.m] = red.house

IInv ==
  /\ TypeOK
  /\ \A m \in Message : RowOK(m) /\ AnswerOK(m) /\ CopyOK(m)
  /\ WebOK
  /\ RedOK

-----------------------------------------------------------------------------
LEMMA RowTypes ==
  /\ NoRow \in Row
  /\ [house |-> None, attempts |-> 0, due |-> TRUE, proven |-> FALSE, kept |-> TRUE] \in Row
  /\ [house |-> None, attempts |-> 1, due |-> FALSE, proven |-> TRUE, kept |-> TRUE] \in Row
  /\ \A h \in Household :
       [house |-> h, attempts |-> 0, due |-> TRUE, proven |-> TRUE, kept |-> TRUE] \in Row
<1>1. 0 \in 0..MaxAttempts /\ 1 \in 0..MaxAttempts
  BY GatewayAssumption
<1>2. QED
  BY <1>1 DEF NoRow, Row, Someone

LEMMA InitInv == Init => IInv
<1> SUFFICES ASSUME Init PROVE IInv
  OBVIOUS
<1>1. ASSUME NEW m \in Message
      PROVE  wal[m] \in Row /\ wal[m].house = None /\ wal[m].attempts = 0
  BY RowTypes DEF Init, NoRow
<1>2. TypeOK
  <2>1. wal \in [Message -> Row]
    BY <1>1 DEF Init
  <2>2. QED
    BY <2>1, GatewayAssumption DEF Init, TypeOK, Idle, Resting, Someone, Acks, Fates
<1>3. ASSUME NEW m \in Message PROVE RowOK(m) /\ AnswerOK(m) /\ CopyOK(m)
  BY <1>1, GatewayAssumption
     DEF Init, RowOK, AnswerOK, CopyOK, Waits, Resting, Retryable
<1>4. WebOK /\ RedOK
  BY DEF Init, WebOK, RedOK, Idle, Resting
<1>5. QED
  BY <1>2, <1>3, <1>4 DEF IInv

\* Nothing of a message but its age changes, nor of the copy a pass holds of it.
Untouched(m) ==
  /\ wal'[m] = wal[m] /\ acked'[m] = acked[m] /\ accepted'[m] = accepted[m]
  /\ fate'[m] = fate[m] /\ tries'[m] = tries[m] /\ inbox'[m] = inbox[m]
  /\ m \in red'.left => m \in red.left /\ red'.rows[m] = red.rows[m]

LEMMA UntouchedOK ==
  ASSUME IInv, NEW m \in Message, Untouched(m)
  PROVE  (RowOK(m) /\ AnswerOK(m) /\ CopyOK(m))'
BY DEF IInv, Untouched, RowOK, AnswerOK, CopyOK, Known, Kept, Waits

\* What one step leaves to show: its types, its own message and its thread.
LEMMA StepInv ==
  ASSUME IInv, TypeOK', NEW w \in Message, \A m \in Message \ {w} : Untouched(m),
         (RowOK(w) /\ AnswerOK(w) /\ CopyOK(w))', (WebOK /\ RedOK)'
  PROVE  IInv'
<1>1. ASSUME NEW m \in Message PROVE (RowOK(m) /\ AnswerOK(m) /\ CopyOK(m))'
  BY UntouchedOK
<1>2. QED
  BY <1>1 DEF IInv

\* And a step that touches none.
LEMMA QuietStepInv ==
  ASSUME IInv, TypeOK', \A m \in Message : Untouched(m), (WebOK /\ RedOK)'
  PROVE  IInv'
BY UntouchedOK DEF IInv

LEMMA ArriveInv ==
  ASSUME IInv, NEW m \in Message, Arrive(m)
  PROVE  IInv'
<1>1. TypeOK'
  BY GatewayAssumption DEF IInv, TypeOK, Arrive, Callable, Idle, Resting, Someone, Acks, Fates, Retryable
<1>2. ASSUME NEW x \in Message PROVE Untouched(x)
  BY DEF IInv, TypeOK, Untouched, Arrive, Callable, Resting
<1>3. (WebOK /\ RedOK)'
  BY DEF IInv, TypeOK, WebOK, RedOK, Arrive, Callable, Known, Kept, Idle, Resting, Retryable
<1>4. QED
  BY <1>1, <1>2, <1>3, QuietStepInv

LEMMA CrashInv ==
  ASSUME IInv, Crash
  PROVE  IInv'
<1>1. TypeOK'
  BY GatewayAssumption DEF IInv, TypeOK, Crash, Idle, Resting, Someone, Acks, Fates, Retryable
<1>2. ASSUME NEW x \in Message PROVE Untouched(x)
  BY DEF IInv, TypeOK, Untouched, Crash, Resting
<1>3. (WebOK /\ RedOK)'
  BY DEF IInv, TypeOK, WebOK, RedOK, Crash, Known, Kept, Idle, Resting, Retryable
<1>4. QED
  BY <1>1, <1>2, <1>3, QuietStepInv

LEMMA AgesInv ==
  ASSUME IInv, NEW m \in Message, Ages(m)
  PROVE  IInv'
<1>1. TypeOK'
  BY GatewayAssumption DEF IInv, TypeOK, Ages, Idle, Resting, Someone, Acks, Fates, Retryable
<1>2. ASSUME NEW x \in Message PROVE Untouched(x)
  BY DEF IInv, TypeOK, Untouched, Ages, Resting
<1>3. (WebOK /\ RedOK)'
  BY DEF IInv, TypeOK, WebOK, RedOK, Ages, Known, Kept, Idle, Resting, Retryable
<1>4. QED
  BY <1>1, <1>2, <1>3, QuietStepInv

LEMMA OutageInv ==
  ASSUME IInv, Outage \/ Brake \/ RootInstalled
  PROVE  IInv'
<1>1. TypeOK'
  BY ZenonT(60), GatewayAssumption DEF IInv, TypeOK, Outage, Brake, RootInstalled, Idle, Resting, Someone, Acks, Fates, Retryable
<1>2. ASSUME NEW x \in Message PROVE Untouched(x)
  BY DEF IInv, TypeOK, Untouched, Outage, Brake, RootInstalled, Resting
<1>3. (WebOK /\ RedOK)'
  BY DEF IInv, TypeOK, WebOK, RedOK, Outage, Brake, RootInstalled, Known, Kept, Idle, Resting, Retryable
<1>4. QED
  BY <1>1, <1>2, <1>3, QuietStepInv

LEMMA RuntimeInv ==
  ASSUME IInv, NEW h \in Household, Runtime(h)
  PROVE  IInv'
<1>1. TypeOK'
  BY GatewayAssumption DEF IInv, TypeOK, Runtime, Idle, Resting, Someone, Acks, Fates, Retryable
<1>2. ASSUME NEW x \in Message PROVE Untouched(x)
  BY DEF IInv, TypeOK, Untouched, Runtime, Resting
<1>3. (WebOK /\ RedOK)'
  BY DEF IInv, TypeOK, WebOK, RedOK, Runtime, Known, Kept, Idle, Resting, Retryable
<1>4. QED
  BY <1>1, <1>2, <1>3, QuietStepInv

LEMMA RebindInv ==
  ASSUME IInv, Rebind
  PROVE  IInv'
<1>1. TypeOK'
  BY GatewayAssumption DEF IInv, TypeOK, Rebind, Idle, Resting, Someone, Acks, Fates, Retryable
<1>2. ASSUME NEW x \in Message PROVE Untouched(x)
  BY DEF IInv, TypeOK, Untouched, Rebind, Resting
<1>3. (WebOK /\ RedOK)'
  BY DEF IInv, TypeOK, WebOK, RedOK, Rebind, Known, Kept, Idle, Resting, Retryable
<1>4. QED
  BY <1>1, <1>2, <1>3, QuietStepInv


LEMMA BeginInv ==
  ASSUME IInv, Begin
  PROVE  IInv'
<1>1. TypeOK'
  BY DEF IInv, TypeOK, Begin, Due, Resting, Someone
<1>2. ASSUME NEW m \in Message PROVE (RowOK(m) /\ AnswerOK(m) /\ CopyOK(m))'
  BY DEF IInv, TypeOK, Row, Begin, Due, Resting, RowOK, AnswerOK, CopyOK, Known, Kept, Waits
<1>3. (WebOK /\ RedOK)'
  BY DEF IInv, Begin, Due, Resting, WebOK, RedOK, Known, Kept
<1>4. QED
  BY <1>1, <1>2, <1>3 DEF IInv

LEMMA RefuseInv ==
  ASSUME IInv, NEW m \in Message, Refuse(m)
  PROVE  IInv'
<1>0. PICK w \in Message : w = m
  BY DEF IInv, TypeOK, Refuse, Callable, Ack
<1>1. ~Known(w)
  BY <1>0, GatewayAssumption
     DEF IInv, TypeOK, Refuse, Callable, Ack, WebOK, RedOK, AnswerOK, RowOK, CopyOK, Row, Known, Kept, Waits, Retryable
<1>2. TypeOK'
  BY <1>0, <1>1, RowTypes, GatewayAssumption
     DEF IInv, TypeOK, Refuse, Callable, Ack, Idle, Resting, Someone, Acks, Fates, Retryable, Row
<1>3. ASSUME NEW x \in Message \ {w} PROVE Untouched(x)
  BY <1>0, <1>1 DEF IInv, TypeOK, Untouched, Refuse, Callable, Ack, Resting
<1>4. /\ acked'[w] = "refused" /\ wal'[w] = wal[w] /\ accepted'[w] = accepted[w] /\ fate'[w] = fate[w] /\ tries'[w] = tries[w] /\ inbox'[w] = inbox[w] /\ red' = red
  BY <1>0, <1>1 DEF IInv, TypeOK, Refuse, Callable, Ack, Idle, Resting
<1>5. (RowOK(w) /\ AnswerOK(w) /\ CopyOK(w))'
  BY <1>0, <1>1, <1>4, GatewayAssumption
     DEF IInv, TypeOK, Row, RowOK, AnswerOK, CopyOK, WebOK, RedOK, Known, Kept, Waits, Retryable, NoRow
<1>6. (WebOK /\ RedOK)'
  BY <1>0, <1>1, <1>4
     DEF IInv, TypeOK, WebOK, RedOK, Refuse, Callable, Ack, Known, Kept, Idle, Resting, Retryable, CopyOK
<1>7. QED
  BY <1>1, <1>2, <1>3, <1>5, <1>6, StepInv

LEMMA LookupDeniesInv ==
  ASSUME IInv, LookupDenies
  PROVE  IInv'
<1>0. PICK w \in Message : w = web.m
  BY DEF IInv, TypeOK, LookupDenies, Ack
<1>1. ~Known(w)
  BY <1>0, GatewayAssumption
     DEF IInv, TypeOK, LookupDenies, Ack, WebOK, RedOK, AnswerOK, RowOK, CopyOK, Row, Known, Kept, Waits, Retryable
<1>2. TypeOK'
  BY <1>0, <1>1, RowTypes, GatewayAssumption
     DEF IInv, TypeOK, LookupDenies, Ack, Idle, Resting, Someone, Acks, Fates, Retryable, Row
<1>3. ASSUME NEW x \in Message \ {w} PROVE Untouched(x)
  BY <1>0, <1>1 DEF IInv, TypeOK, Untouched, LookupDenies, Ack, Resting
<1>4. /\ acked'[w] = "unroutable" /\ wal'[w] = wal[w] /\ accepted'[w] = accepted[w] /\ fate'[w] = fate[w] /\ tries'[w] = tries[w] /\ inbox'[w] = inbox[w] /\ red' = red
  BY <1>0, <1>1 DEF IInv, TypeOK, LookupDenies, Ack, Idle, Resting
<1>5. (RowOK(w) /\ AnswerOK(w) /\ CopyOK(w))'
  BY <1>0, <1>1, <1>4, GatewayAssumption
     DEF IInv, TypeOK, Row, RowOK, AnswerOK, CopyOK, WebOK, RedOK, Known, Kept, Waits, Retryable, NoRow
<1>6. (WebOK /\ RedOK)'
  BY <1>0, <1>1, <1>4
     DEF IInv, TypeOK, WebOK, RedOK, LookupDenies, Ack, Known, Kept, Idle, Resting, Retryable, CopyOK
<1>7. QED
  BY <1>1, <1>2, <1>3, <1>5, <1>6, StepInv

LEMMA LookupFailsInv ==
  ASSUME IInv, LookupFails
  PROVE  IInv'
<1>0. PICK w \in Message : w = web.m
  BY DEF IInv, TypeOK, LookupFails, Tried, Ack
<1>1. ~Known(w) /\ w \notin red.left
  BY <1>0, GatewayAssumption
     DEF IInv, TypeOK, LookupFails, Tried, Ack, WebOK, RedOK, AnswerOK, RowOK, CopyOK, Row, Known, Kept, Waits, Retryable
<1>2. TypeOK'
  BY <1>0, <1>1, RowTypes, GatewayAssumption
     DEF IInv, TypeOK, LookupFails, Tried, Ack, Idle, Resting, Someone, Acks, Fates, Retryable, Row
<1>3. ASSUME NEW x \in Message \ {w} PROVE Untouched(x)
  BY <1>0, <1>1 DEF IInv, TypeOK, Untouched, LookupFails, Tried, Ack, Resting
<1>4. /\ acked'[w] = "lookup_unavailable" /\ accepted'[w] = accepted[w] /\ fate'[w] = fate[w] /\ inbox'[w] = inbox[w] /\ red' = red
      /\ tries'[w] = tries[w] + 1
      /\ wal'[w] = [house |-> None, attempts |-> 1, due |-> FALSE, proven |-> TRUE, kept |-> TRUE]
  BY <1>0, <1>1 DEF IInv, TypeOK, LookupFails, Tried, Ack, Idle, Resting
<1>5. (RowOK(w) /\ AnswerOK(w) /\ CopyOK(w))'
  BY <1>0, <1>1, <1>4, GatewayAssumption
     DEF IInv, TypeOK, Row, RowOK, AnswerOK, CopyOK, WebOK, RedOK, Known, Kept, Waits, Retryable, NoRow
<1>6. (WebOK /\ RedOK)'
  BY <1>0, <1>1, <1>4
     DEF IInv, TypeOK, WebOK, RedOK, LookupFails, Tried, Ack, Known, Kept, Idle, Resting, Retryable, CopyOK
<1>7. QED
  BY <1>1, <1>2, <1>3, <1>5, <1>6, StepInv

LEMMA LookupRoutesInv ==
  ASSUME IInv, NEW h \in Household, web.at = "lookup", Persist(web.m, h),
         web' = [web EXCEPT !.at = "check", !.house = h],
         UNCHANGED <<world, aged, red, inbox, acked, fate, tries, faults>>
  PROVE  IInv'
<1>0. PICK w \in Message : w = web.m
  BY DEF IInv, TypeOK, Persist
<1>1. ~Known(w) /\ w \notin red.left
  BY <1>0, GatewayAssumption
     DEF IInv, TypeOK, Persist, WebOK, RedOK, AnswerOK, RowOK, CopyOK, Row, Known, Kept, Waits, Retryable
<1>2. TypeOK'
  BY <1>0, <1>1, RowTypes, GatewayAssumption
     DEF IInv, TypeOK, Persist, Idle, Resting, Someone, Acks, Fates, Retryable, Row
<1>3. ASSUME NEW x \in Message \ {w} PROVE Untouched(x)
  BY <1>0, <1>1 DEF IInv, TypeOK, Untouched, Persist, Resting
<1>4. /\ accepted'[w] = h /\ acked'[w] = acked[w] /\ fate'[w] = fate[w] /\ tries'[w] = tries[w] /\ inbox'[w] = inbox[w] /\ red' = red
      /\ wal'[w] = [house |-> h, attempts |-> 0, due |-> TRUE, proven |-> TRUE, kept |-> TRUE]
  BY <1>0, <1>1 DEF IInv, TypeOK, Persist, Idle, Resting
<1>5. (RowOK(w) /\ AnswerOK(w) /\ CopyOK(w))'
  BY <1>0, <1>1, <1>4, GatewayAssumption
     DEF IInv, TypeOK, Row, RowOK, AnswerOK, CopyOK, WebOK, RedOK, Known, Kept, Waits, Retryable, NoRow
<1>6. (WebOK /\ RedOK)'
  BY <1>0, <1>1, <1>4
     DEF IInv, TypeOK, WebOK, RedOK, Persist, Known, Kept, Idle, Resting, Retryable, CopyOK
<1>7. QED
  BY <1>1, <1>2, <1>3, <1>5, <1>6, StepInv


\* What a deferral does to the rows.
LEMMA DeferredIs ==
  ASSUME wal \in [Message -> Row], NEW w \in Message, NEW n \in {0, 1},
         wal[w].attempts + n <= MaxAttempts, wal' = Deferred(w, n)
  PROVE  /\ wal' \in [Message -> Row]
         /\ \A x \in Message \ {w} : wal'[x] = wal[x]
         /\ wal'[w].house = wal[w].house /\ wal'[w].kept = wal[w].kept
         /\ wal'[w].attempts = IF Kept(w) THEN wal[w].attempts + n ELSE wal[w].attempts
<1>1. CASE ~Kept(w)
  BY <1>1 DEF Deferred
<1>2. CASE Kept(w)
  <2> DEFINE r == [wal[w] EXCEPT !.attempts = wal[w].attempts + n, !.due = FALSE]
  <2>1. wal[w] \in Row /\ wal[w].attempts + n \in 0..MaxAttempts
    BY GatewayAssumption DEF Row
  <2>2. r \in Row /\ r.house = wal[w].house /\ r.kept = wal[w].kept /\ r.attempts = wal[w].attempts + n
    BY <2>1 DEF Row
  <2>3. wal' = [wal EXCEPT ![w] = r]
    BY <1>2 DEF Deferred
  <2> HIDE DEF r
  <2>4. QED
    BY <1>2, <2>2, <2>3
<1>3. QED
  BY <1>1, <1>2

LEMMA KeyAbsentInv ==
  ASSUME IInv, web.at = "check", wal' = Deferred(web.m, 1), Tried(web.m),
         Ack(web.m, "relay_key_absent"), UNCHANGED <<world, aged, red, inbox, accepted, faults>>,
         UNCHANGED fate
  PROVE  IInv'
<1>0. PICK w \in Message : w = web.m
  BY DEF IInv, TypeOK, Kept, Tried, Ack
<1>1. Known(w) /\ accepted[w] = web.house /\ acked[w] \in {"none", "refused"}
  BY <1>0, GatewayAssumption
     DEF IInv, TypeOK, Kept, Tried, Ack, WebOK, RedOK, AnswerOK, RowOK, CopyOK, Row, Known, Kept, Waits, Retryable
<1>a. /\ wal' \in [Message -> Row]
      /\ \A x \in Message \ {w} : wal'[x] = wal[x]
      /\ wal'[w].house = wal[w].house /\ wal'[w].kept = wal[w].kept
      /\ wal'[w].attempts = IF Kept(w) THEN wal[w].attempts + 1 ELSE wal[w].attempts
  <2>1. wal \in [Message -> Row] /\ wal[w].attempts \in Nat
    BY GatewayAssumption DEF IInv, TypeOK, Row
  <2>2. wal[w].attempts + 1 <= MaxAttempts
    BY <1>1, <2>1, GatewayAssumption DEF IInv, RowOK, Waits, Retryable
  <2>3. wal' = Deferred(w, 1)
    BY <1>0 DEF Kept, Tried, Ack, HoldCost
  <2>4. QED
    BY <2>1, <2>2, <2>3, DeferredIs
<1>2. TypeOK'
  BY <1>0, <1>1, <1>a, RowTypes, GatewayAssumption
     DEF IInv, TypeOK, Kept, Tried, Ack, Idle, Resting, Someone, Acks, Fates, Retryable
<1>3. ASSUME NEW x \in Message \ {w} PROVE Untouched(x)
  BY <1>0, <1>1, <1>a DEF IInv, TypeOK, Untouched, Kept, Tried, Ack, Resting
<1>4. /\ acked'[w] = "relay_key_absent" /\ accepted'[w] = accepted[w] /\ fate'[w] = fate[w] /\ inbox'[w] = inbox[w] /\ red' = red
      /\ tries'[w] = tries[w] + 1
  BY <1>0, <1>1, <1>a DEF IInv, TypeOK, Kept, Tried, Ack, Idle, Resting
<1>5. (RowOK(w) /\ AnswerOK(w) /\ CopyOK(w))'
  <2>1. Kept(w)' = Kept(w) /\ Known(w)' /\ Waits(w) = 0 /\ Waits(w)' = 1
    BY <1>1, <1>a, <1>4 DEF Kept, Known, Waits, Retryable
  <2>2. wal[w].attempts \in Nat /\ tries[w] \in Nat /\ wal'[w].attempts \in Nat
    BY <1>a, GatewayAssumption DEF IInv, TypeOK, Row
  <2>3. RowOK(w)'
    BY <1>1, <1>a, <1>4, <2>1, <2>2, GatewayAssumption DEF IInv, RowOK, Kept
  <2>4. AnswerOK(w)'
    BY <1>1, <1>4, <2>1 DEF IInv, TypeOK, AnswerOK
  <2>5. CopyOK(w)'
    <3>1. CASE w \notin red.left
      BY <1>4, <3>1 DEF CopyOK
    <3>2. CASE w \in red.left
      <4>1. red.rows[w].attempts \in Nat
        BY <3>2, GatewayAssumption DEF IInv, TypeOK, Row
      <4>2. QED
        BY <1>1, <1>a, <1>4, <2>1, <2>2, <3>2, <4>1 DEF IInv, CopyOK
    <3>3. QED
      BY <3>1, <3>2
  <2>6. QED
    BY <2>3, <2>4, <2>5
<1>6. (WebOK /\ RedOK)'
  BY <1>0, <1>1, <1>a, <1>4
     DEF IInv, TypeOK, WebOK, RedOK, Kept, Tried, Ack, Known, Kept, Idle, Resting, Retryable, CopyOK
<1>7. QED
  BY <1>1, <1>2, <1>3, <1>5, <1>6, StepInv

LEMMA WebFailsInv ==
  ASSUME IInv, WebFails
  PROVE  IInv'
<1>0. PICK w \in Message : w = web.m
  BY DEF IInv, TypeOK, WebFails, Taken, Kept, Tried, Ack
<1>1. Known(w) /\ accepted[w] = web.house /\ acked[w] \in {"none", "refused"} /\ SignedFor[w] = web.house
  BY <1>0, GatewayAssumption
     DEF IInv, TypeOK, WebFails, Taken, Kept, Tried, Ack, WebOK, RedOK, AnswerOK, RowOK, CopyOK, Row, Known, Kept, Waits, Retryable
<1>a. /\ wal' \in [Message -> Row]
      /\ \A x \in Message \ {w} : wal'[x] = wal[x]
      /\ wal'[w].house = wal[w].house /\ wal'[w].kept = wal[w].kept
      /\ wal'[w].attempts = IF Kept(w) THEN wal[w].attempts + 1 ELSE wal[w].attempts
  <2>1. wal \in [Message -> Row] /\ wal[w].attempts \in Nat
    BY GatewayAssumption DEF IInv, TypeOK, Row
  <2>2. wal[w].attempts + 1 <= MaxAttempts
    BY <1>1, <2>1, GatewayAssumption DEF IInv, RowOK, Waits, Retryable
  <2>3. wal' = Deferred(w, 1)
    BY <1>0 DEF WebFails, Taken, Kept, Tried, Ack, HoldCost
  <2>4. QED
    BY <2>1, <2>2, <2>3, DeferredIs
<1>2. TypeOK'
  <2>1. inbox' \in [Message -> SUBSET Household]
    <3>1. inbox \in [Message -> SUBSET Household]
      BY DEF IInv, TypeOK
    <3>2. web.house \in Household
      BY DEF IInv, TypeOK, WebFails
    <3>3. CASE inbox' = inbox
      BY <3>1, <3>3
    <3>4. CASE Taken(w, web.house)
      <4>1. inbox[w] \cup {web.house} \in SUBSET Household
        BY <3>1, <3>2
      <4>2. QED
        BY <3>1, <3>4, <4>1 DEF Taken
    <3>5. QED
      BY <1>0, <3>3, <3>4 DEF WebFails
  <2>2. tries' \in [Message -> Nat]
    BY <1>0, <1>1 DEF IInv, TypeOK, WebFails, Taken, Kept, Tried, Ack
  <2>3. wal' \in [Message -> Row] /\ fate' \in [Message -> Fates]
    BY <1>0, <1>1, <1>a, RowTypes DEF IInv, TypeOK, WebFails, Taken, Kept, Tried, Ack, Fates
  <2>4. QED
    BY <1>0, <1>1, <2>1, <2>2, <2>3
       DEF IInv, TypeOK, WebFails, Ack, Idle, Resting, Someone, Acks, Retryable
<1>3. ASSUME NEW x \in Message \ {w} PROVE Untouched(x)
  BY <1>0, <1>1, <1>a DEF IInv, TypeOK, Untouched, WebFails, Taken, Kept, Tried, Ack, Resting
<1>4. /\ acked'[w] = "runtime_unavailable" /\ accepted'[w] = accepted[w] /\ fate'[w] = fate[w] /\ red' = red
      /\ inbox'[w] = inbox[w] \/ inbox'[w] = inbox[w] \cup {web.house}
      /\ tries'[w] = tries[w] + 1
  BY <1>0, <1>1, <1>a DEF IInv, TypeOK, WebFails, Taken, Kept, Tried, Ack, Idle, Resting
<1>5. (RowOK(w) /\ AnswerOK(w) /\ CopyOK(w))'
  <2>1. Kept(w)' = Kept(w) /\ Known(w)' /\ Waits(w) = 0 /\ Waits(w)' = 1
    BY <1>1, <1>a, <1>4 DEF Kept, Known, Waits, Retryable
  <2>2. wal[w].attempts \in Nat /\ tries[w] \in Nat /\ wal'[w].attempts \in Nat
    BY <1>a, GatewayAssumption DEF IInv, TypeOK, Row
  <2>3. RowOK(w)'
    BY <1>1, <1>a, <1>4, <2>1, <2>2, GatewayAssumption DEF IInv, RowOK, Kept
  <2>4. AnswerOK(w)'
    BY <1>1, <1>4, <2>1 DEF IInv, TypeOK, AnswerOK
  <2>5. CopyOK(w)'
    <3>1. CASE w \notin red.left
      BY <1>4, <3>1 DEF CopyOK
    <3>2. CASE w \in red.left
      <4>1. red.rows[w].attempts \in Nat
        BY <3>2, GatewayAssumption DEF IInv, TypeOK, Row
      <4>2. QED
        BY <1>1, <1>a, <1>4, <2>1, <2>2, <3>2, <4>1 DEF IInv, CopyOK
    <3>3. QED
      BY <3>1, <3>2
  <2>6. QED
    BY <2>3, <2>4, <2>5
<1>6. (WebOK /\ RedOK)'
  BY <1>0, <1>1, <1>a, <1>4
     DEF IInv, TypeOK, WebOK, RedOK, WebFails, Taken, Kept, Tried, Ack, Known, Kept, Idle, Resting, Retryable, CopyOK
<1>7. QED
  BY <1>1, <1>2, <1>3, <1>5, <1>6, StepInv

LEMMA RejectInv ==
  ASSUME IInv, web.at = "check", Drop(web.m, "rejected"),
         Ack(web.m, "hmac_rejected"), UNCHANGED <<world, aged, red, inbox, accepted, faults>>,
         UNCHANGED tries
  PROVE  IInv'
<1>0. PICK w \in Message : w = web.m
  BY DEF IInv, TypeOK, Drop, Kept, Ack
<1>1. Known(w) /\ accepted[w] = web.house /\ acked[w] \in {"none", "refused"}
  BY <1>0, GatewayAssumption
     DEF IInv, TypeOK, Drop, Kept, Ack, WebOK, RedOK, AnswerOK, RowOK, CopyOK, Row, Known, Kept, Waits, Retryable
<1>2. TypeOK'
  BY <1>0, <1>1, RowTypes, GatewayAssumption
     DEF IInv, TypeOK, Drop, Kept, Ack, Idle, Resting, Someone, Acks, Fates, Retryable, Row
<1>3. ASSUME NEW x \in Message \ {w} PROVE Untouched(x)
  BY <1>0, <1>1 DEF IInv, TypeOK, Untouched, Drop, Kept, Ack, Resting
<1>4. /\ acked'[w] = "hmac_rejected" /\ accepted'[w] = accepted[w] /\ tries'[w] = tries[w] /\ inbox'[w] = inbox[w] /\ red' = red
      /\ fate'[w] = (IF Kept(w) THEN "rejected" ELSE fate[w]) /\ wal'[w] = NoRow
  BY <1>0, <1>1 DEF IInv, TypeOK, Drop, Kept, Ack, Idle, Resting
<1>5. (RowOK(w) /\ AnswerOK(w) /\ CopyOK(w))'
  BY <1>0, <1>1, <1>4, GatewayAssumption
     DEF IInv, TypeOK, Row, RowOK, AnswerOK, CopyOK, WebOK, RedOK, Known, Kept, Waits, Retryable, NoRow
<1>6. (WebOK /\ RedOK)'
  BY <1>0, <1>1, <1>4
     DEF IInv, TypeOK, WebOK, RedOK, Drop, Kept, Ack, Known, Kept, Idle, Resting, Retryable, CopyOK
<1>7. QED
  BY <1>1, <1>2, <1>3, <1>5, <1>6, StepInv

LEMMA WebDeliversInv ==
  ASSUME IInv, WebDelivers
  PROVE  IInv'
<1>0. PICK w \in Message : w = web.m
  BY DEF IInv, TypeOK, WebDelivers, Taken, Drop, Kept, Ack
<1>1. Known(w) /\ accepted[w] = web.house /\ acked[w] \in {"none", "refused"} /\ SignedFor[w] = web.house
  BY <1>0, GatewayAssumption
     DEF IInv, TypeOK, WebDelivers, Taken, Drop, Kept, Ack, WebOK, RedOK, AnswerOK, RowOK, CopyOK, Row, Known, Kept, Waits, Retryable
<1>2. TypeOK'
  BY <1>0, <1>1, RowTypes, GatewayAssumption
     DEF IInv, TypeOK, WebDelivers, Taken, Drop, Kept, Ack, Idle, Resting, Someone, Acks, Fates, Retryable, Row
<1>3. ASSUME NEW x \in Message \ {w} PROVE Untouched(x)
  BY <1>0, <1>1 DEF IInv, TypeOK, Untouched, WebDelivers, Taken, Drop, Kept, Ack, Resting
<1>4. /\ acked'[w] = "ok" /\ accepted'[w] = accepted[w] /\ tries'[w] = tries[w] /\ red' = red
      /\ inbox'[w] = inbox[w] \cup {web.house}
      /\ fate'[w] = (IF Kept(w) THEN "delivered" ELSE fate[w]) /\ wal'[w] = NoRow
  BY <1>0, <1>1 DEF IInv, TypeOK, WebDelivers, Taken, Drop, Kept, Ack, Idle, Resting
<1>5. (RowOK(w) /\ AnswerOK(w) /\ CopyOK(w))'
  BY <1>0, <1>1, <1>4, GatewayAssumption
     DEF IInv, TypeOK, Row, RowOK, AnswerOK, CopyOK, WebOK, RedOK, Known, Kept, Waits, Retryable, NoRow
<1>6. (WebOK /\ RedOK)'
  BY <1>0, <1>1, <1>4
     DEF IInv, TypeOK, WebOK, RedOK, WebDelivers, Taken, Drop, Kept, Ack, Known, Kept, Idle, Resting, Retryable, CopyOK
<1>7. QED
  BY <1>1, <1>2, <1>3, <1>5, <1>6, StepInv

LEMMA SendsInv ==
  ASSUME IInv, web.at = "check", SignedFor[web.m] = web.house,
         web' = [web EXCEPT !.at = "send"],
         UNCHANGED <<world, wal, aged, red, inbox, history, faults>>
  PROVE  IInv'
<1>1. TypeOK'
  BY GatewayAssumption DEF IInv, TypeOK, Kept, Idle, Resting, Someone, Acks, Fates, Retryable
<1>2. ASSUME NEW x \in Message PROVE Untouched(x)
  BY DEF IInv, TypeOK, Untouched, Kept, Resting
<1>3. (WebOK /\ RedOK)'
  BY DEF IInv, TypeOK, WebOK, RedOK, Kept, Known, Kept, Idle, Resting, Retryable
<1>4. QED
  BY <1>1, <1>2, <1>3, QuietStepInv

LEMMA BackoffInv ==
  ASSUME IInv, NEW m \in Message, Backoff(m)
  PROVE  IInv'
<1>0. PICK w \in Message : w = m
  BY DEF IInv, TypeOK, Backoff, Kept
<1>1. wal[w] \in Row /\ Kept(w) /\ [wal[w] EXCEPT !.due = TRUE] \in Row
  <2>1. wal[w] \in Row
    BY DEF IInv, TypeOK
  <2>2. [wal[w] EXCEPT !.due = TRUE] \in Row
    BY <2>1 DEF Row
  <2>3. QED
    BY <1>0, <2>1, <2>2 DEF Backoff
<1>2. TypeOK'
  <2>1. inbox' \in [Message -> SUBSET Household]
    BY <1>0, <1>1 DEF IInv, TypeOK, Taken, Backoff
  <2>2. tries' \in [Message -> Nat]
    BY <1>0, <1>1 DEF IInv, TypeOK, Backoff, Kept
  <2>3. wal' \in [Message -> Row] /\ fate' \in [Message -> Fates]
    BY <1>0, <1>1, RowTypes DEF IInv, TypeOK, Backoff, Kept, Fates
  <2>4. QED
    BY <1>0, <1>1, <2>1, <2>2, <2>3
       DEF IInv, TypeOK, Backoff, Idle, Resting, Someone, Acks, Retryable
<1>3. ASSUME NEW x \in Message \ {w} PROVE Untouched(x)
  BY <1>0, <1>1 DEF IInv, TypeOK, Untouched, Backoff, Kept, Resting
<1>4. /\ acked'[w] = acked[w] /\ accepted'[w] = accepted[w] /\ fate'[w] = fate[w] /\ tries'[w] = tries[w] /\ inbox'[w] = inbox[w] /\ red' = red /\ web' = web
      /\ wal'[w] = [wal[w] EXCEPT !.due = TRUE]
  BY <1>0, <1>1 DEF IInv, TypeOK, Backoff, Kept, Idle, Resting
<1>5. (RowOK(w) /\ AnswerOK(w) /\ CopyOK(w))'
  BY <1>0, <1>1, <1>4, GatewayAssumption
     DEF IInv, TypeOK, Row, RowOK, AnswerOK, CopyOK, WebOK, RedOK, Known, Kept, Waits, Retryable, NoRow
<1>6. (WebOK /\ RedOK)'
  BY <1>0, <1>1, <1>4
     DEF IInv, TypeOK, WebOK, RedOK, Backoff, Kept, Known, Kept, Idle, Resting, Retryable, CopyOK
<1>7. QED
  BY <1>1, <1>2, <1>3, <1>5, <1>6, StepInv

LEMMA EndsInv ==
  ASSUME IInv, NEW m \in red.left, NEW why \in Fates \ {"none", "exhausted"}, Ends(m, why)
  PROVE  IInv'
<1>0. PICK w \in Message : w = m
  BY DEF IInv, TypeOK, Ends, Drop, Done, Kept
<1>1. /\ w \in red.left /\ Known(w)
      /\ red.rows[w].house = accepted[w] /\ red.rows[w].attempts <= tries[w]
      /\ wal[w].attempts <= red.rows[w].attempts + Waits(w)
      /\ red.rows[w].attempts \in Nat
  <2>1. w \in red.left
    BY <1>0
  <2>2. CopyOK(w)
    BY DEF IInv
  <2>3. red.rows \in [Message -> Row]
    BY <2>1 DEF IInv, TypeOK
  <2>4. red.rows[w].attempts \in Nat
    BY <2>3, GatewayAssumption DEF Row
  <2>5. QED
    BY <2>1, <2>2, <2>4 DEF CopyOK
<1>2. TypeOK'
  BY ZenonT(60), <1>0, <1>1, RowTypes, GatewayAssumption
     DEF IInv, TypeOK, Ends, Drop, Done, Kept, Idle, Resting, Someone, Acks, Fates, Retryable, Row
<1>3. ASSUME NEW x \in Message \ {w} PROVE Untouched(x)
  BY <1>0, <1>1 DEF IInv, TypeOK, Untouched, Ends, Drop, Done, Kept, Resting
<1>4. /\ acked'[w] = acked[w] /\ accepted'[w] = accepted[w] /\ tries'[w] = tries[w] /\ inbox'[w] = inbox[w] /\ w \notin red'.left /\ red'.at \in {"idle", "next"} /\ web' = web
      /\ fate'[w] = (IF Kept(w) THEN why ELSE fate[w]) /\ wal'[w] = NoRow
  BY <1>0, <1>1 DEF IInv, TypeOK, Ends, Drop, Done, Kept, Idle, Resting
<1>5. (RowOK(w) /\ AnswerOK(w) /\ CopyOK(w))'
  BY <1>0, <1>1, <1>4, GatewayAssumption
     DEF IInv, TypeOK, Row, RowOK, AnswerOK, CopyOK, WebOK, RedOK, Known, Kept, Waits, Retryable, NoRow
<1>6. (WebOK /\ RedOK)'
  BY <1>0, <1>1, <1>4
     DEF IInv, TypeOK, WebOK, RedOK, Ends, Drop, Done, Kept, Known, Kept, Idle, Resting, Retryable, CopyOK
<1>7. QED
  BY <1>1, <1>2, <1>3, <1>5, <1>6, StepInv

LEMMA RedDeliversInv ==
  ASSUME IInv, RedDelivers
  PROVE  IInv'
<1>0. PICK w \in Message : w = red.m
  BY DEF IInv, TypeOK, RedDelivers, Taken, Drop, Done, Kept
<1>1. /\ w \in red.left /\ Known(w)
      /\ red.rows[w].house = accepted[w] /\ red.rows[w].attempts <= tries[w]
      /\ wal[w].attempts <= red.rows[w].attempts + Waits(w)
      /\ red.rows[w].attempts \in Nat
      /\ red.house = accepted[w] /\ SignedFor[w] = red.house
  <2>1. w \in red.left
    BY <1>0 DEF IInv, TypeOK, RedDelivers
  <2>2. CopyOK(w)
    BY DEF IInv
  <2>3. red.rows \in [Message -> Row]
    BY <2>1 DEF IInv, TypeOK
  <2>4. red.rows[w].attempts \in Nat
    BY <2>3, GatewayAssumption DEF Row
  <2>5. red.house = accepted[w] /\ SignedFor[w] = red.house
    BY <1>0 DEF IInv, RedOK, RedDelivers
  <2>6. QED
    BY <2>1, <2>2, <2>4, <2>5 DEF CopyOK
<1>2. TypeOK'
  BY ZenonT(60), <1>0, <1>1, RowTypes, GatewayAssumption
     DEF IInv, TypeOK, RedDelivers, Taken, Drop, Done, Kept, Idle, Resting, Someone, Acks, Fates, Retryable, Row
<1>3. ASSUME NEW x \in Message \ {w} PROVE Untouched(x)
  BY <1>0, <1>1 DEF IInv, TypeOK, Untouched, RedDelivers, Taken, Drop, Done, Kept, Resting
<1>4. /\ acked'[w] = acked[w] /\ accepted'[w] = accepted[w] /\ tries'[w] = tries[w] /\ w \notin red'.left /\ red'.at \in {"idle", "next"} /\ web' = web
      /\ inbox'[w] = inbox[w] \cup {red.house}
      /\ fate'[w] = (IF Kept(w) THEN "delivered" ELSE fate[w]) /\ wal'[w] = NoRow
  BY <1>0, <1>1 DEF IInv, TypeOK, RedDelivers, Taken, Drop, Done, Kept, Idle, Resting
<1>5. (RowOK(w) /\ AnswerOK(w) /\ CopyOK(w))'
  BY <1>0, <1>1, <1>4, GatewayAssumption
     DEF IInv, TypeOK, Row, RowOK, AnswerOK, CopyOK, WebOK, RedOK, Known, Kept, Waits, Retryable, NoRow
<1>6. (WebOK /\ RedOK)'
  BY <1>0, <1>1, <1>4
     DEF IInv, TypeOK, WebOK, RedOK, RedDelivers, Taken, Drop, Done, Kept, Known, Kept, Idle, Resting, Retryable, CopyOK
<1>7. QED
  BY <1>1, <1>2, <1>3, <1>5, <1>6, StepInv

\* What a delivery does to the inboxes.
LEMMA TakenIs ==
  ASSUME inbox \in [Message -> SUBSET Household], NEW w \in Message, NEW h,
         inbox' = inbox \/ (red.at = "send" /\ w = red.m /\ Taken(w, h)),
         red.at = "send" => h \in Household
  PROVE  inbox' \in [Message -> SUBSET Household]
<1>1. CASE inbox' = inbox
  BY <1>1
<1>2. CASE red.at = "send" /\ Taken(w, h)
  <2>1. inbox[w] \cup {h} \in SUBSET Household
    BY <1>2
  <2>2. QED
    BY <1>2, <2>1 DEF Taken
<1>3. QED
  BY <1>1, <1>2

LEMMA ExhaustInv ==
  ASSUME IInv, NEW m \in red.left, red.rows[m].attempts + 1 >= MaxAttempts,
         Drop(m, "exhausted"), Tried(m), Done(m),
         inbox' = inbox \/ (red.at = "send" /\ m = red.m /\ Taken(m, red.house)),
         UNCHANGED <<world, aged, web, acked, accepted, faults>>
  PROVE  IInv'
<1>0. PICK w \in Message : w = m
  BY DEF IInv, TypeOK, Taken, RedOK, Tried, Drop, Done, Kept
<1>1. w \in red.left /\ Known(w) /\ red.rows[w].house = accepted[w] /\ red.rows[w].attempts <= tries[w] /\ wal[w].attempts <= red.rows[w].attempts + Waits(w) /\ red.rows[w].attempts \in Nat
     /\ red.rows[w].attempts + 1 >= MaxAttempts /\ inbox \in [Message -> SUBSET Household]
     /\ (red.at = "send" => red.house \in Household) /\ tries[w] \in Nat
  BY <1>0, GatewayAssumption
     DEF IInv, TypeOK, Taken, RedOK, Tried, Drop, Done, Kept, WebOK, RedOK, AnswerOK, RowOK, CopyOK, Row, Known, Kept, Waits, Retryable
<1>2. TypeOK'
  <2>1. inbox' \in [Message -> SUBSET Household]
    BY <1>0, <1>1, TakenIs
  <2>2. tries' \in [Message -> Nat]
    BY <1>0, <1>1 DEF IInv, TypeOK, Taken, RedOK, Tried, Drop, Done, Kept
  <2>3. wal' \in [Message -> Row] /\ fate' \in [Message -> Fates]
    BY <1>0, <1>1, RowTypes DEF IInv, TypeOK, Taken, RedOK, Tried, Drop, Done, Kept, Fates
  <2>4. QED
    BY <1>0, <1>1, <2>1, <2>2, <2>3
       DEF IInv, TypeOK, Done, Idle, Resting, Someone, Acks, Retryable
<1>3. ASSUME NEW x \in Message \ {w} PROVE Untouched(x)
  BY <1>0, <1>1 DEF IInv, TypeOK, Untouched, Taken, RedOK, Tried, Drop, Done, Kept, Resting
<1>4. /\ acked'[w] = acked[w] /\ accepted'[w] = accepted[w] /\ w \notin red'.left /\ red'.at \in {"idle", "next"} /\ web' = web
      /\ tries'[w] = tries[w] + 1
      /\ inbox'[w] = inbox[w] \/ (inbox'[w] = inbox[w] \cup {accepted[w]} /\ SignedFor[w] = accepted[w] /\ accepted[w] \in Household)
      /\ fate'[w] = (IF Kept(w) THEN "exhausted" ELSE fate[w]) /\ wal'[w] = NoRow
  BY <1>0, <1>1 DEF IInv, TypeOK, Taken, RedOK, Tried, Drop, Done, Kept, Idle, Resting
<1>5. (RowOK(w) /\ AnswerOK(w) /\ CopyOK(w))'
  BY <1>0, <1>1, <1>4, GatewayAssumption
     DEF IInv, TypeOK, Row, RowOK, AnswerOK, CopyOK, WebOK, RedOK, Known, Kept, Waits, Retryable, NoRow
<1>6. (WebOK /\ RedOK)'
  BY <1>0, <1>1, <1>4
     DEF IInv, TypeOK, WebOK, RedOK, Taken, RedOK, Tried, Drop, Done, Kept, Known, Kept, Idle, Resting, Retryable, CopyOK
<1>7. QED
  BY <1>1, <1>2, <1>3, <1>5, <1>6, StepInv

LEMMA RetryInv ==
  ASSUME IInv, NEW m \in red.left, ~(red.rows[m].attempts + 1 >= MaxAttempts),
         wal' = Deferred(m, 1), UNCHANGED fate, Tried(m), Done(m),
         inbox' = inbox \/ (red.at = "send" /\ m = red.m /\ Taken(m, red.house)),
         UNCHANGED <<world, aged, web, acked, accepted, faults>>
  PROVE  IInv'
<1>0. PICK w \in Message : w = m
  BY DEF IInv, TypeOK, Taken, RedOK, Tried, Done, Kept
<1>1. w \in red.left /\ Known(w) /\ red.rows[w].house = accepted[w] /\ red.rows[w].attempts <= tries[w] /\ wal[w].attempts <= red.rows[w].attempts + Waits(w) /\ red.rows[w].attempts \in Nat
     /\ red.rows[w].attempts + 1 < MaxAttempts /\ inbox \in [Message -> SUBSET Household]
     /\ (red.at = "send" => red.house \in Household) /\ tries[w] \in Nat
  BY <1>0, GatewayAssumption
     DEF IInv, TypeOK, Taken, RedOK, Tried, Done, Kept, WebOK, RedOK, AnswerOK, RowOK, CopyOK, Row, Known, Kept, Waits, Retryable
<1>a. /\ wal' \in [Message -> Row]
      /\ \A x \in Message \ {w} : wal'[x] = wal[x]
      /\ wal'[w].house = wal[w].house /\ wal'[w].kept = wal[w].kept
      /\ wal'[w].attempts = IF Kept(w) THEN wal[w].attempts + 1 ELSE wal[w].attempts
  <2>1. wal \in [Message -> Row] /\ wal[w].attempts \in Nat
    BY GatewayAssumption DEF IInv, TypeOK, Row
  <2>2. wal[w].attempts + 1 <= MaxAttempts
    BY <1>1, <2>1, GatewayAssumption DEF IInv, RowOK, Waits, Retryable
  <2>3. wal' = Deferred(w, 1)
    BY <1>0 DEF Taken, RedOK, Tried, Done, Kept, HoldCost
  <2>4. QED
    BY <2>1, <2>2, <2>3, DeferredIs
<1>2. TypeOK'
  <2>1. inbox' \in [Message -> SUBSET Household]
    BY <1>0, <1>1, TakenIs
  <2>2. tries' \in [Message -> Nat]
    BY <1>0, <1>1 DEF IInv, TypeOK, Taken, RedOK, Tried, Done, Kept
  <2>3. wal' \in [Message -> Row] /\ fate' \in [Message -> Fates]
    BY <1>0, <1>1, <1>a, RowTypes DEF IInv, TypeOK, Taken, RedOK, Tried, Done, Kept, Fates
  <2>4. QED
    BY <1>0, <1>1, <2>1, <2>2, <2>3
       DEF IInv, TypeOK, Done, Idle, Resting, Someone, Acks, Retryable
<1>3. ASSUME NEW x \in Message \ {w} PROVE Untouched(x)
  BY <1>0, <1>1, <1>a DEF IInv, TypeOK, Untouched, Taken, RedOK, Tried, Done, Kept, Resting
<1>4. /\ acked'[w] = acked[w] /\ accepted'[w] = accepted[w] /\ fate'[w] = fate[w] /\ w \notin red'.left /\ red'.at \in {"idle", "next"} /\ web' = web
      /\ tries'[w] = tries[w] + 1
      /\ inbox'[w] = inbox[w] \/ (inbox'[w] = inbox[w] \cup {accepted[w]} /\ SignedFor[w] = accepted[w] /\ accepted[w] \in Household)
  BY <1>0, <1>1, <1>a DEF IInv, TypeOK, Taken, RedOK, Tried, Done, Kept, Idle, Resting
<1>5. (RowOK(w) /\ AnswerOK(w) /\ CopyOK(w))'
  BY SMTT(40), <1>0, <1>1, <1>a, <1>4, GatewayAssumption
     DEF IInv, TypeOK, Row, RowOK, AnswerOK, CopyOK, WebOK, RedOK, Known, Kept, Waits, Retryable, NoRow
<1>6. (WebOK /\ RedOK)'
  <2>1. \A x \in Message : Kept(x)' = Kept(x)
    BY <1>a DEF Kept
  <2>2. WebOK'
    BY <2>1, <1>4 DEF IInv, TypeOK, WebOK, Known
  <2>3. RedOK'
    BY <1>0, <1>4 DEF RedOK, Done, Resting
  <2>4. QED
    BY <2>2, <2>3
<1>7. QED
  BY <1>1, <1>2, <1>3, <1>5, <1>6, StepInv

LEMMA HoldInv ==
  ASSUME IInv, red.at = "judge", wal' = Deferred(red.m, HoldCost), Done(red.m),
         UNCHANGED <<world, aged, web, inbox, history, faults>>
  PROVE  IInv'
<1>0. PICK w \in Message : w = red.m
  BY DEF IInv, TypeOK, HoldCost, Done, Kept
<1>1. w \in red.left /\ Known(w) /\ red.rows[w].house = accepted[w] /\ red.rows[w].attempts <= tries[w] /\ wal[w].attempts <= red.rows[w].attempts + Waits(w) /\ red.rows[w].attempts \in Nat
  BY <1>0, GatewayAssumption
     DEF IInv, TypeOK, HoldCost, Done, Kept, WebOK, RedOK, AnswerOK, RowOK, CopyOK, Row, Known, Kept, Waits, Retryable
<1>a. /\ wal' \in [Message -> Row]
      /\ \A x \in Message \ {w} : wal'[x] = wal[x]
      /\ wal'[w].house = wal[w].house /\ wal'[w].kept = wal[w].kept
      /\ wal'[w].attempts = IF Kept(w) THEN wal[w].attempts + 0 ELSE wal[w].attempts
  <2>1. wal \in [Message -> Row] /\ wal[w].attempts \in Nat
    BY GatewayAssumption DEF IInv, TypeOK, Row
  <2>2. wal[w].attempts + 0 <= MaxAttempts
    BY <1>1, <2>1, GatewayAssumption DEF IInv, RowOK, Waits, Retryable
  <2>3. wal' = Deferred(w, 0)
    BY <1>0 DEF HoldCost, Done, Kept, HoldCost
  <2>4. QED
    BY <2>1, <2>2, <2>3, DeferredIs
<1>2. TypeOK'
  BY <1>0, <1>1, <1>a, RowTypes, GatewayAssumption
     DEF IInv, TypeOK, HoldCost, Done, Kept, Idle, Resting, Someone, Acks, Fates, Retryable
<1>3. ASSUME NEW x \in Message \ {w} PROVE Untouched(x)
  BY <1>0, <1>1, <1>a DEF IInv, TypeOK, Untouched, HoldCost, Done, Kept, Resting
<1>4. /\ acked'[w] = acked[w] /\ accepted'[w] = accepted[w] /\ fate'[w] = fate[w] /\ tries'[w] = tries[w] /\ inbox'[w] = inbox[w] /\ w \notin red'.left /\ red'.at \in {"idle", "next"} /\ web' = web
  BY <1>0, <1>1, <1>a DEF IInv, TypeOK, HoldCost, Done, Kept, Idle, Resting
<1>5. (RowOK(w) /\ AnswerOK(w) /\ CopyOK(w))'
  BY <1>0, <1>1, <1>a, <1>4, GatewayAssumption
     DEF IInv, TypeOK, Row, RowOK, AnswerOK, CopyOK, WebOK, RedOK, Known, Kept, Waits, Retryable, NoRow
<1>6. (WebOK /\ RedOK)'
  <2>1. \A x \in Message : wal'[x].kept = wal[x].kept
    BY <1>a
  <2>2. web.at # "idle" => web.m \in Message
    BY DEF IInv, TypeOK
  <2>3. web' = web /\ acked' = acked /\ accepted' = accepted /\ fate' = fate
    OBVIOUS
  <2>4. WebOK'
    BY <2>1, <2>2, <2>3 DEF IInv, WebOK, Known, Kept
  <2>5. red'.at \in {"idle", "next"} /\ (red'.at = "idle" => red'.left = {})
    BY DEF IInv, TypeOK, Done, Resting
  <2>6. RedOK'
    BY <2>5 DEF RedOK
  <2>7. QED
    BY <2>4, <2>6
<1>7. QED
  BY <1>1, <1>2, <1>3, <1>5, <1>6, StepInv

LEMMA JudgeSendsInv ==
  ASSUME IInv, red.at = "judge", SignedFor[red.m] = red.house,
         red' = [red EXCEPT !.at = "send"],
         UNCHANGED <<world, wal, aged, web, inbox, history, faults>>
  PROVE  IInv'
<1>1. TypeOK'
  BY GatewayAssumption DEF IInv, TypeOK, Kept, Idle, Resting, Someone, Acks, Fates, Retryable
<1>2. ASSUME NEW x \in Message PROVE Untouched(x)
  BY DEF IInv, TypeOK, Untouched, Kept, Resting
<1>3. (WebOK /\ RedOK)'
  BY DEF IInv, TypeOK, WebOK, RedOK, Kept, Known, Kept, Idle, Resting, Retryable
<1>4. QED
  BY <1>1, <1>2, <1>3, QuietStepInv

LEMMA PickRoutesInv ==
  ASSUME IInv, NEW m \in red.left, NEW h \in Household, red.at = "next",
         accepted[m] = h, red' = [red EXCEPT !.at = "judge", !.m = m, !.house = h],
         UNCHANGED <<world, wal, aged, web, inbox, history, faults>>
  PROVE  IInv'
<1>1. TypeOK'
  BY ZenonT(60), GatewayAssumption DEF IInv, TypeOK, Kept, Idle, Resting, Someone, Acks, Fates, Retryable
<1>2. ASSUME NEW x \in Message PROVE Untouched(x)
  BY DEF IInv, TypeOK, Untouched, Kept, Resting
<1>3. (WebOK /\ RedOK)'
  BY DEF IInv, TypeOK, WebOK, RedOK, Kept, Known, Kept, Idle, Resting, Retryable
<1>4. QED
  BY <1>1, <1>2, <1>3, QuietStepInv

-----------------------------------------------------------------------------
(* One lemma per action that branches *)

LEMMA LookupRoutesAllInv ==
  ASSUME IInv, LookupRoutes
  PROVE  IInv'
BY LookupRoutesInv DEF LookupRoutes

LEMMA WebCheckInv ==
  ASSUME IInv, WebCheck
  PROVE  IInv'
<1>1. CASE wal' = Deferred(web.m, 1) /\ Tried(web.m) /\ Ack(web.m, "relay_key_absent")
           /\ UNCHANGED fate
  BY <1>1, KeyAbsentInv DEF WebCheck
<1>2. CASE Drop(web.m, "rejected") /\ Ack(web.m, "hmac_rejected") /\ UNCHANGED tries
  BY <1>2, RejectInv DEF WebCheck
<1>3. CASE /\ SignedFor[web.m] = web.house
           /\ web' = [web EXCEPT !.at = "send"]
           /\ UNCHANGED <<wal, acked, fate, tries>>
  BY <1>3, SendsInv DEF WebCheck
<1>4. QED
  BY <1>1, <1>2, <1>3 DEF WebCheck

\* Spending an attempt, by whichever branch.
LEMMA SpendInv ==
  ASSUME IInv, NEW m \in red.left, Spend(m), Done(m),
         inbox' = inbox \/ (red.at = "send" /\ m = red.m /\ Taken(m, red.house)),
         UNCHANGED <<world, aged, web, acked, accepted, faults>>
  PROVE  IInv'
<1>1. CASE red.rows[m].attempts + 1 >= MaxAttempts
  BY <1>1, ExhaustInv DEF Spend
<1>2. CASE ~(red.rows[m].attempts + 1 >= MaxAttempts)
  BY <1>2, RetryInv DEF Spend
<1>3. QED
  BY <1>1, <1>2

LEMMA PickInv ==
  ASSUME IInv, NEW m \in Message, Pick(m)
  PROVE  IInv'
<1>1. m \in red.left /\ red.at = "next"
  BY DEF Pick, Classified
<1>2. CASE \E why \in {"expired", "unverifiable", "undeliverable"} : Ends(m, why)
  BY <1>1, <1>2, EndsInv DEF Fates
<1>3. CASE \E h \in Household :
             /\ Same(m, h)
             /\ red' = [red EXCEPT !.at = "judge", !.m = m, !.house = h]
             /\ UNCHANGED <<world, wal, aged, web, inbox, history, faults>>
  <2>1. PICK h \in Household :
             /\ h = red.rows[m].house
             /\ red' = [red EXCEPT !.at = "judge", !.m = m, !.house = h]
             /\ UNCHANGED <<world, wal, aged, web, inbox, history, faults>>
    BY <1>3 DEF Same
  <2>2. accepted[m] = h
    BY <1>1, <2>1 DEF IInv, CopyOK
  <2>3. QED
    BY <1>1, <2>1, <2>2, PickRoutesInv
<1>4. QED
  BY <1>2, <1>3 DEF Pick

LEMMA JudgeInv ==
  ASSUME IInv, Judge
  PROVE  IInv'
<1>1. red.at = "judge" /\ red.m \in red.left
  BY DEF Judge, IInv, TypeOK
<1>2. CASE Ends(red.m, "unverifiable")
  BY <1>1, <1>2, EndsInv DEF Fates
<1>3. CASE wal' = Deferred(red.m, HoldCost) /\ Done(red.m)
           /\ UNCHANGED <<world, aged, web, inbox, history, faults>>
  BY <1>1, <1>3, HoldInv
<1>4. CASE Spend(red.m) /\ Done(red.m)
           /\ UNCHANGED <<world, aged, web, inbox, acked, accepted, faults>>
  BY <1>1, <1>4, SpendInv
<1>5. CASE /\ Genuine(red.m, red.house)
           /\ red' = [red EXCEPT !.at = "send"]
           /\ UNCHANGED <<world, wal, aged, web, inbox, history, faults>>
  BY <1>1, <1>5, JudgeSendsInv DEF Genuine
<1>6. QED
  BY <1>2, <1>3, <1>4, <1>5 DEF Judge

LEMMA SchedulerFailsInv ==
  ASSUME IInv, RedFails \/ Stumble
  PROVE  IInv'
<1>1. red.m \in red.left
  BY DEF RedFails, Stumble, IInv, TypeOK
<1>2. CASE RedFails
  BY <1>1, <1>2, SpendInv DEF RedFails
<1>3. CASE Stumble
  BY <1>1, <1>3, SpendInv DEF Stumble
<1>4. QED
  BY <1>2, <1>3

LEMMA NextInv == IInv /\ [Next]_vars => IInv'
<1> SUFFICES ASSUME IInv, [Next]_vars PROVE IInv'
  OBVIOUS
<1>1. CASE Webhook
  BY <1>1, LookupFailsInv, LookupDeniesInv, LookupRoutesAllInv, WebCheckInv,
     WebDeliversInv, WebFailsInv DEF Webhook
<1>2. CASE Calls
  BY <1>2, ArriveInv, RefuseInv DEF Calls
<1>3. CASE Scheduler
  BY <1>3, BeginInv, PickInv, JudgeInv, RedDeliversInv, SchedulerFailsInv DEF Scheduler
<1>4. CASE Time
  BY <1>4, BackoffInv, AgesInv DEF Time
<1>5. CASE World
  BY <1>5, CrashInv, RebindInv, OutageInv, RuntimeInv DEF World
<1>6. CASE UNCHANGED vars
  <2>1. TypeOK' /\ (WebOK /\ RedOK)'
    BY <1>6 DEF IInv, TypeOK, WebOK, RedOK, Known, Kept
  <2>2. \A m \in Message : Untouched(m)
    BY <1>6 DEF Untouched
  <2>3. QED
    BY <2>1, <2>2, QuietStepInv
<1>7. QED
  BY <1>1, <1>2, <1>3, <1>4, <1>5, <1>6 DEF Next

-----------------------------------------------------------------------------
(* The theorems *)

\* The invariant holds in every behaviour of the gateway, whatever order the
\* webhook thread, the scheduler, crashes and outages take.
THEOREM Inductive == Spec => []IInv
BY InitInv, NextInv, PTL DEF Spec

\* Every state is well typed: among others, a row's attempts never exceed the limit.
THEOREM TypeCorrect == Spec => []TypeOK
<1>1. IInv => TypeOK
  BY DEF IInv
<1>2. QED
  BY <1>1, Inductive, PTL

\* I4 for any number of messages, households, crashes and rebindings: a message
\* reaches only the household it was accepted for.
THEOREM RoutedToAccepted == Spec => []ToWhomItWasAccepted
<1>1. IInv => ToWhomItWasAccepted
  BY DEF IInv, AnswerOK, ToWhomItWasAccepted
<1>2. QED
  BY <1>1, Inductive, PTL

\* I5: no runtime takes a body its own household's key did not sign.
THEOREM GenuineOnly == Spec => []OnlyGenuine
<1>1. IInv => OnlyGenuine
  BY DEF IInv, AnswerOK, OnlyGenuine
<1>2. QED
  BY <1>1, Inductive, PTL

\* What the webhook acknowledged for keeping is kept or settled, and what it
\* acknowledged as delivered was.
THEOREM AcceptedIsKept == Spec => []AckedIsKept
<1>1. IInv => AckedIsKept
  BY DEF IInv, AnswerOK, Known, AckedIsKept
<1>2. QED
  BY <1>1, Inductive, PTL

\* I3: a row given up for its attempts had that many genuine ones.
THEOREM AttemptsMade == Spec => []AttemptsAreGenuine
<1>1. IInv => AttemptsAreGenuine
  BY DEF IInv, RowOK, AttemptsAreGenuine
<1>2. QED
  BY <1>1, Inductive, PTL
=============================================================================
