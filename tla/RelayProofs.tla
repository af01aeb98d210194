---------------------------- MODULE RelayProofs ----------------------------
(***************************************************************************)
(* Proofs about the relay inbox, for any letters, confirmations, attempts, *)
(* revisions, days and plans.                                              *)
(***************************************************************************)
EXTENDS Relay, Integers, FiniteSetTheorems, TLAPS

USE DEF vars, outside, mail, clock

-----------------------------------------------------------------------------
(* The inductive invariant *)

Mail == {m \in [kind : {"letter", "confirmation", "check"}, n : Int] :
            m.kind = "confirmation" => m.n \in Nat \ {0}}

Entry == [rev : Rev, msg : Mail, late : BOOLEAN, expired : BOOLEAN, attempts : Nat,
          state : {"queued", "processing", "materialized", "diverted", "dlq"}]

Health == [state : {"pending", "active", "stale"}, misses : Nat, token : Int, seen : Int,
           age : {"none", "fresh", "late", "due"}, counted : BOOLEAN, requested : BOOLEAN,
           attempts : Nat, link : Nat, linkShown : BOOLEAN, staleShown : BOOLEAN]

Types ==
  /\ journal \in Seq(Entry) /\ row \in Nat
  /\ fwd \in [Rev -> Health] /\ rev \in Rev /\ day \in Nat
  /\ events \in Seq(Mail) /\ inbox \subseteq Mail

IsEvent(m) == \E j \in DOMAIN events : events[j] = m

\* Where the worker has a row in hand, and for what.
Reading == {"thread", "attach", "ingest", "receipt", "mark", "proof", "record", "divert"}
HandOK ==
  /\ pc \in Reading => row \in DOMAIN journal
  /\ pc \in {"attach", "ingest", "receipt", "mark", "proof"} => Held.msg.kind = "letter"
  /\ pc \in {"record", "divert"} => Held.msg.kind # "letter"
  /\ pc \in {"receipt", "mark", "proof"} => IsEvent(Held.msg)
  /\ pc = "divert" /\ Held.msg.kind = "confirmation" => fwd[Held.rev].link # 0
  /\ pc \in Reading \ {"proof"} => Held.state = "processing"

\* What a row of the journal is settled over.
EntryOK(e) ==
  /\ e.state \in {"queued", "processing"} => e.attempts < MaxAttempts
  /\ e.state = "dlq" => e.attempts = MaxAttempts
  /\ e.state = "materialized" => IsEvent(e.msg)
  /\ e.state = "diverted" /\ e.msg.kind = "confirmation" => fwd[e.rev].link # 0

\* Canonical events are letters, each of them once, and a receipt is of an event.
EventsOK ==
  /\ \A i, j \in DOMAIN events : events[i] = events[j] => i = j
  /\ \A j \in DOMAIN events : events[j].kind = "letter"
  /\ \A m \in receipts : IsEvent(m)

IInv ==
  /\ Types
  /\ HandOK
  /\ \A i \in DOMAIN journal : EntryOK(journal[i])
  /\ EventsOK

-----------------------------------------------------------------------------
(* The steps of a letter and of what is not one *)

LEMMA LetterAfter ==
  ASSUME NEW m, m.kind = "letter"
  PROVE  /\ StepsOf(m)[1] = "attach"
         /\ After("attach", m) = "ingest" /\ After("ingest", m) = "receipt"
         /\ After("receipt", m) = "mark" /\ After("mark", m) = "proof"
<1>1. StepsOf(m) = <<"attach", "ingest", "receipt", "mark", "proof">>
  BY DEF StepsOf, LetterSteps
<1>2. Len(StepsOf(m)) = 5
  BY <1>1
<1> DEFINE s == StepsOf(m)
<1>3. s[1] = "attach" /\ s[2] = "ingest" /\ s[3] = "receipt" /\ s[4] = "mark" /\ s[5] = "proof"
  BY <1>1
<1> HIDE DEF s
<1>4. ASSUME NEW n \in 1..4 PROVE After(s[n], m) = s[n + 1]
  <2>1. \A k \in 1 .. Len(StepsOf(m)) - 1 : StepsOf(m)[k] = s[n] <=> k = n
    BY <1>2, <1>3 DEF s
  <2>2. n \in 1 .. Len(StepsOf(m)) - 1
    BY <1>2
  <2>3. (CHOOSE k \in 1 .. Len(StepsOf(m)) - 1 : StepsOf(m)[k] = s[n]) = n
    BY <2>1, <2>2
  <2>4. QED
    BY <2>1, <2>2, <2>3 DEF After, s
<1>5. QED
  BY <1>3, <1>4 DEF s

LEMMA DivertAfter ==
  ASSUME NEW m, m.kind # "letter"
  PROVE  /\ StepsOf(m)[1] = "record"
         /\ After("record", m) = "divert" /\ After("divert", m) = "tick"
<1>1. StepsOf(m) = <<"record", "divert">>
  BY DEF StepsOf, DivertSteps
<1>2. Len(StepsOf(m)) = 2 /\ StepsOf(m)[1] = "record" /\ StepsOf(m)[2] = "divert"
  BY <1>1
<1>3. (CHOOSE k \in 1..1 : StepsOf(m)[k] = "record") = 1
  BY <1>2
<1>4. QED
  BY <1>2, <1>3 DEF After

LEMMA Replaced ==
  ASSUME NEW T, NEW s \in Seq(T), NEW i \in DOMAIN s, NEW t \in T
  PROVE  /\ [s EXCEPT ![i] = t] \in Seq(T)
         /\ DOMAIN [s EXCEPT ![i] = t] = DOMAIN s
         /\ [s EXCEPT ![i] = t][i] = t
         /\ \A j \in DOMAIN s : j # i => [s EXCEPT ![i] = t][j] = s[j]
  OBVIOUS

LEMMA Added ==
  ASSUME NEW T, NEW s \in Seq(T), NEW t \in T
  PROVE  /\ Append(s, t) \in Seq(T)
         /\ DOMAIN Append(s, t) = DOMAIN s \cup {Len(s) + 1}
         /\ Len(s) + 1 \notin DOMAIN s
         /\ Append(s, t)[Len(s) + 1] = t
         /\ \A j \in DOMAIN s : Append(s, t)[j] = s[j]
  OBVIOUS

LEMMA RowEntry ==
  ASSUME Types, NEW i \in DOMAIN journal
  PROVE  /\ journal[i] \in Entry /\ journal[i].rev \in Rev /\ journal[i].msg \in Mail
         /\ journal[i].attempts \in Nat
<1>1. \A T : \A s \in Seq(T) : \A j \in DOMAIN s : s[j] \in T
  OBVIOUS
<1>2. journal[i] \in Entry
  BY <1>1 DEF Types
<1>3. QED
  BY <1>2 DEF Entry

-----------------------------------------------------------------------------
(* What a step changes *)

\* A link somebody kept is never lost.
LinksKept == \A r \in Rev : fwd[r].link # 0 => fwd'[r].link # 0

\* A step that touches neither the rows nor the events.
LEMMA Aside ==
  ASSUME IInv, Types', LinksKept, UNCHANGED <<journal, events, receipts>>,
         (pc' = pc /\ row' = row) \/ pc' \notin Reading
  PROVE  IInv'
<1>1. EventsOK'
  BY DEF IInv, EventsOK, IsEvent
<1>2. ASSUME NEW i \in DOMAIN journal PROVE EntryOK(journal[i])'
  <2>1. journal[i].rev \in Rev
    BY RowEntry DEF IInv
  <2>2. QED
    BY <2>1 DEF IInv, EntryOK, IsEvent, LinksKept
<1>3. HandOK'
  <2>1. CASE pc' \notin Reading
    BY <2>1 DEF HandOK, Reading
  <2>2. CASE pc' = pc /\ row' = row /\ pc \in Reading
    <3>1. row \in DOMAIN journal /\ Held.rev \in Rev
      BY <2>2, RowEntry DEF IInv, HandOK, Held
    <3>2. QED
      BY <2>2, <3>1 DEF IInv, HandOK, IsEvent, Held, LinksKept
  <2>3. QED
    BY <2>1, <2>2
<1>4. QED
  BY <1>1, <1>2, <1>3 DEF IInv

\* The health row of a revision is written over, its link kept.
LEMMA HealthSet ==
  ASSUME Types, NEW r \in Rev, NEW f \in Health, fwd' = [fwd EXCEPT ![r] = f],
         fwd[r].link # 0 => f.link # 0
  PROVE  fwd' \in [Rev -> Health] /\ LinksKept
BY DEF Types, LinksKept

\* A row of the journal is written over.
LEMMA RowSet ==
  ASSUME IInv, NEW i \in DOMAIN journal, NEW e \in Entry,
         journal' = [journal EXCEPT ![i] = e],
         e.rev = journal[i].rev, e.msg = journal[i].msg,
         EntryOK(e), UNCHANGED <<events, receipts, fwd, rev, day, inbox>>,
         row' \in Nat
  PROVE  /\ Types' /\ EventsOK'
         /\ \A j \in DOMAIN journal' : EntryOK(journal[j])'
<1>1. journal \in Seq(Entry)
  BY DEF IInv, Types
<1>2. /\ journal' \in Seq(Entry) /\ DOMAIN journal' = DOMAIN journal
      /\ journal'[i] = e /\ \A j \in DOMAIN journal : j # i => journal'[j] = journal[j]
  BY <1>1, Replaced
<1>3. Types'
  BY <1>2 DEF IInv, Types
<1>4. EventsOK'
  BY DEF IInv, EventsOK, IsEvent
<1>5. ASSUME NEW j \in DOMAIN journal' PROVE EntryOK(journal[j])'
  <2>1. EntryOK(journal'[j])
    BY <1>2 DEF IInv
  <2>2. QED
    BY <2>1 DEF EntryOK, IsEvent
<1>6. QED
  BY <1>3, <1>4, <1>5

\* The worker goes back to its loop, its row written over or not.
LEMMA LetGo ==
  ASSUME Types', EventsOK', \A j \in DOMAIN journal' : EntryOK(journal[j])',
         pc' \notin Reading
  PROVE  IInv'
BY DEF IInv, HandOK, Reading

LEMMA FailedKeeps ==
  ASSUME IInv, pc \in Reading \ {"proof"}, Failed
  PROVE  IInv'
<1>1. row \in DOMAIN journal /\ Held \in Entry /\ Held.state = "processing"
  BY RowEntry DEF IInv, HandOK, Held, Reading
<1>2. Held.attempts < MaxAttempts /\ MaxAttempts \in Nat
  BY <1>1, RelayAssumption DEF IInv, EntryOK, Held
<1>a. PICK n : n = journal[row].attempts + 1
  OBVIOUS
<1>b. PICK st : st = IF n >= MaxAttempts THEN "dlq" ELSE "queued"
  OBVIOUS
<1>c. n \in Nat /\ n <= MaxAttempts /\ st \in {"dlq", "queued"}
      /\ (st = "dlq" => n = MaxAttempts) /\ (st = "queued" => n < MaxAttempts)
  BY <1>1, <1>2, <1>a, <1>b, RowEntry DEF Held, IInv
<1>3. PICK e : e = [journal[row] EXCEPT !.attempts = n, !.state = st]
  OBVIOUS
<1>4. /\ e \in Entry /\ e.rev = journal[row].rev /\ e.msg = journal[row].msg
      /\ e.attempts = n /\ e.state = st
  BY <1>1, <1>3, <1>c DEF Entry, Held
<1>5. EntryOK(e)
  BY <1>4, <1>c DEF EntryOK
<1>6. journal' = [journal EXCEPT ![row] = e]
  BY <1>1, <1>3, <1>a, <1>b DEF Failed, MarkedFailed, IInv, Types
<1>7. UNCHANGED <<events, receipts, fwd, rev, day, inbox>> /\ row' = 0 /\ pc' = "idle"
  BY DEF Failed, Kept
<1>8. row' \in Nat /\ pc' \notin Reading
  BY <1>7 DEF Reading
<1>9. QED
  BY <1>1, <1>4, <1>5, <1>6, <1>7, <1>8, RowSet, LetGo

-----------------------------------------------------------------------------
(* The health row *)

LEMMA HealthAged ==
  ASSUME NEW f \in Health, NEW a \in {"none", "fresh", "late", "due"}
  PROVE  [f EXCEPT !.age = a] \in Health /\ [f EXCEPT !.age = a].link = f.link
BY DEF Health

LEMMA HealthCounted ==
  ASSUME NEW f \in Health
  PROVE  Counted(f) \in Health /\ Counted(f).link = f.link
<1>1. f.misses + 1 \in Nat
  BY DEF Health
<1>2. QED
  BY <1>1 DEF Counted, Health

LEMMA HealthStale ==
  ASSUME NEW f \in Health
  PROVE  /\ [f EXCEPT !.state = "stale", !.staleShown = FALSE] \in Health
         /\ [f EXCEPT !.state = "stale", !.staleShown = FALSE].link = f.link
BY DEF Health

LEMMA HealthSent ==
  ASSUME NEW f \in Health, NEW t \in Int
  PROVE  CheckSent(f, t) \in Health /\ CheckSent(f, t).link = f.link
<1>1. f.attempts + 1 \in Nat
  BY DEF Health
<1>2. QED
  BY <1>1 DEF CheckSent, Health

LEMMA HealthRequested ==
  ASSUME NEW f \in Health
  PROVE  [f EXCEPT !.requested = TRUE] \in Health /\ [f EXCEPT !.requested = TRUE].link = f.link
BY DEF Health

LEMMA HealthActive ==
  ASSUME NEW f \in Health, NEW t \in Int
  PROVE  Active(f, t) \in Health /\ Active(f, t).link = f.link
BY DEF Active, Health

LEMMA HealthLinked ==
  ASSUME NEW f \in Health, NEW n \in Nat \ {0}
  PROVE  Linked(f, n) \in Health /\ Linked(f, n).link # 0
BY DEF Linked, Health

-----------------------------------------------------------------------------
(* Steps that leave the rows alone: outside, the clock, the checks, the chat *)

LEMMA OutsideKeeps ==
  ASSUME IInv,
         \/ \E n \in Letters : Write(n)
         \/ \E n \in Confirmations : Confirm(n)
         \/ Switch \/ Deploy \/ Crash
  PROVE  IInv'
<1>1. UNCHANGED <<journal, events, receipts, fwd, day>>
  BY DEF Write, Confirm, Switch, Deploy, Crash
<1>2. (pc' = pc /\ row' = row) \/ pc' \notin Reading
  BY DEF Write, Confirm, Switch, Deploy, Crash, Reading
<1>3. Types'
  <2>1. inbox' \subseteq Mail
    BY RelayAssumption
    DEF Write, Confirm, Switch, Deploy, Crash, Letter, Confirmation, Mail, IInv, Types
  <2>2. rev' \in Rev
    BY RelayAssumption DEF Write, Confirm, Switch, Deploy, Crash, IInv, Types, Rev
  <2>3. row' \in Nat
    BY DEF Write, Confirm, Switch, Deploy, Crash, IInv, Types
  <2>4. QED
    BY <1>1, <2>1, <2>2, <2>3 DEF IInv, Types
<1>4. LinksKept
  BY <1>1 DEF LinksKept
<1>5. QED
  BY <1>1, <1>2, <1>3, <1>4, Aside

LEMMA ClockKeeps ==
  ASSUME IInv, WindowPasses \/ IntervalPasses
  PROVE  IInv'
<1>0. Types /\ rev \in Rev /\ fwd[rev] \in Health
  BY DEF IInv, Types
<1>1. PICK a \in {"late", "due"} : fwd' = [fwd EXCEPT ![rev] = [fwd[rev] EXCEPT !.age = a]]
  <2>1. CASE WindowPasses
    BY <1>0, <2>1 DEF WindowPasses, Types
  <2>2. CASE IntervalPasses
    BY <1>0, <2>2 DEF IntervalPasses, Types
  <2>3. QED
    BY <2>1, <2>2
<1>2. fwd' \in [Rev -> Health] /\ LinksKept
  <2>1. PICK f : f = [fwd[rev] EXCEPT !.age = a]
    OBVIOUS
  <2>2. f \in Health /\ f.link = fwd[rev].link
    BY <1>0, <2>1, HealthAged
  <2>3. QED
    BY <1>0, <1>1, <2>1, <2>2, HealthSet
<1>3. UNCHANGED <<journal, events, receipts, rev, pc, row, inbox>> /\ day' \in Nat
  BY <1>0 DEF WindowPasses, IntervalPasses, Types
<1>4. Types'
  BY <1>0, <1>2, <1>3 DEF Types
<1>5. QED
  BY <1>2, <1>3, <1>4, Aside

LEMMA CheckKeeps ==
  ASSUME IInv, Tick \/ MarkStale \/ RecordCheck \/ Recheck \/ OwnerTurn
  PROVE  IInv'
<1>0. Types /\ rev \in Rev /\ fwd[rev] \in Health /\ day \in Nat /\ MaxCheck \in Nat
  BY RelayAssumption DEF IInv, Types
<1>1. fwd' = fwd \/ \E f \in Health : fwd' = [fwd EXCEPT ![rev] = f]
                                     /\ (fwd[rev].link # 0 => f.link # 0)
  <2>1. CASE Tick
    <3>1. fwd' = fwd \/ fwd' = [fwd EXCEPT ![rev] = Counted(fwd[rev])]
      BY <2>1 DEF Tick
    <3>2. QED
      BY <1>0, <3>1, HealthCounted
  <2>2. CASE MarkStale
    <3>1. fwd' = [fwd EXCEPT ![rev] = [fwd[rev] EXCEPT !.state = "stale", !.staleShown = FALSE]]
      BY <1>0, <2>2 DEF MarkStale, Types
    <3>2. QED
      BY <1>0, <3>1, HealthStale
  <2>3. CASE RecordCheck
    <3>1. NextToken \in Int
      BY <1>0 DEF NextToken, Token, Health
    <3>2. fwd' = [fwd EXCEPT ![rev] = CheckSent(fwd[rev], NextToken)]
      BY <2>3 DEF RecordCheck
    <3>3. QED
      BY <1>0, <3>1, <3>2, HealthSent
  <2>4. CASE Recheck
    <3>1. fwd' = [fwd EXCEPT ![rev] = [fwd[rev] EXCEPT !.requested = TRUE]]
      BY <1>0, <2>4 DEF Recheck, Types
    <3>2. QED
      BY <1>0, <3>1, HealthRequested
  <2>5. CASE OwnerTurn
    <3>1. PICK a \in BOOLEAN, b \in BOOLEAN :
            fwd' = [fwd EXCEPT ![rev] = [fwd[rev] EXCEPT !.linkShown = a, !.staleShown = b]]
      BY <1>0, <2>5 DEF OwnerTurn, Types
    <3>2. [fwd[rev] EXCEPT !.linkShown = a, !.staleShown = b] \in Health
          /\ [fwd[rev] EXCEPT !.linkShown = a, !.staleShown = b].link = fwd[rev].link
      BY <1>0 DEF Health
    <3>3. QED
      BY <3>1, <3>2
  <2>6. QED
    BY <2>1, <2>2, <2>3, <2>4, <2>5
<1>2. fwd' \in [Rev -> Health] /\ LinksKept
  BY <1>0, <1>1, HealthSet DEF LinksKept, Types
<1>3. /\ UNCHANGED <<journal, events, receipts, rev, day, row, inbox>>
      /\ pc' = pc \/ pc' \notin Reading
  BY DEF Tick, MarkStale, RecordCheck, Recheck, OwnerTurn, Ticking, Chatting, Send, Reading
<1>4. Types'
  BY <1>0, <1>2, <1>3 DEF Types
<1>5. QED
  BY <1>2, <1>3, <1>4, Aside

LEMMA SendKeeps ==
  ASSUME IInv, SendCheck
  PROVE  IInv'
<1>0. Types /\ rev \in Rev /\ fwd[rev] \in Health /\ day \in Nat /\ MaxCheck \in Nat
  BY RelayAssumption DEF IInv, Types
<1>1. NextToken \in Int
  BY <1>0 DEF NextToken, Token, Health
<1>2. inbox' \subseteq Mail
  BY <1>0, <1>1 DEF SendCheck, Check, Mail, Types
<1>3. UNCHANGED <<journal, events, receipts, rev, day, row, fwd>> /\ pc' \notin Reading
  BY DEF SendCheck, Ticking, Reading
<1>4. Types' /\ LinksKept
  BY <1>0, <1>2, <1>3 DEF Types, LinksKept
<1>5. QED
  BY <1>3, <1>4, Aside

-----------------------------------------------------------------------------
(* The journal *)

LEMMA PostKeeps ==
  ASSUME IInv, NEW m \in inbox, Post(m)
  PROVE  IInv'
<1>0. UNCHANGED <<rev, day, inbox, pc, row, fwd, events, receipts>>
  BY DEF Post
<1>1. CASE journal' = journal
  <2>1. Types' /\ LinksKept
    BY <1>0, <1>1 DEF IInv, Types, LinksKept
  <2>2. QED
    BY <1>0, <1>1, <2>1, Aside
<1>2. CASE journal' # journal
  <2>1. journal' = Append(journal, NewRow(m))
    BY <1>2 DEF Post
  <2>2. NewRow(m) \in Entry
    BY DEF NewRow, Late, Entry, IInv, Types
  <2>3. EntryOK(NewRow(m))
    BY RelayAssumption DEF EntryOK, NewRow
  <2>4. journal \in Seq(Entry)
    BY DEF IInv, Types
  <2>5. PICK e : e = NewRow(m)
    OBVIOUS
  <2>6. PICK k : k = Len(journal) + 1
    OBVIOUS
  <2>7. /\ journal' \in Seq(Entry) /\ DOMAIN journal' = DOMAIN journal \cup {k}
        /\ journal'[k] = e /\ \A j \in DOMAIN journal : journal'[j] = journal[j]
    BY <2>1, <2>2, <2>4, <2>5, <2>6, Added
  <2>8. Types' /\ EventsOK'
    BY <1>0, <2>7 DEF IInv, Types, EventsOK, IsEvent
  <2>9. ASSUME NEW j \in DOMAIN journal' PROVE EntryOK(journal[j])'
    <3>1. EntryOK(journal'[j])
      BY <2>3, <2>5, <2>7, <2>9 DEF IInv
    <3>2. QED
      BY <1>0, <3>1 DEF EntryOK, IsEvent
  <2>10. HandOK'
    <3>1. row \in DOMAIN journal => journal'[row] = journal[row] /\ row \in DOMAIN journal'
      BY <2>7
    <3>2. pc \in Reading => row \in DOMAIN journal
      BY DEF IInv, HandOK
    <3>3. QED
      BY <1>0, <3>1, <3>2 DEF IInv, HandOK, Held, IsEvent, Reading
  <2>11. QED
    BY <2>8, <2>9, <2>10 DEF IInv
<1>3. QED
  BY <1>1, <1>2

LEMMA LeaseKeeps ==
  ASSUME IInv, Lease
  PROVE  IInv'
<1>1. PICK i \in Leasable :
        /\ journal' = [journal EXCEPT ![i].state = "processing", ![i].expired = FALSE]
        /\ Kept(i)
  BY DEF Lease
<1>2. i \in DOMAIN journal /\ i \in Nat /\ journal[i].state \in {"queued", "processing"}
  BY DEF Leasable, IInv, Types
<1>3. journal[i] \in Entry
  BY <1>2, RowEntry DEF IInv
<1>4. PICK e : e = [journal[i] EXCEPT !.state = "processing", !.expired = FALSE]
  OBVIOUS
<1>5. /\ e \in Entry /\ e.rev = journal[i].rev /\ e.msg = journal[i].msg
      /\ e.attempts = journal[i].attempts /\ e.state = "processing"
  BY <1>3, <1>4 DEF Entry
<1>6. EntryOK(e)
  BY <1>2, <1>5 DEF IInv, EntryOK
<1>7. journal \in Seq(Entry)
  BY DEF IInv, Types
<1>8. journal' = [journal EXCEPT ![i] = e]
  BY <1>1, <1>2, <1>4, <1>7
<1>9. /\ UNCHANGED <<events, receipts, fwd, rev, day, inbox>>
      /\ row' = i /\ pc' = "thread"
  BY <1>1 DEF Lease, Kept
<1>10. Types' /\ EventsOK' /\ \A j \in DOMAIN journal' : EntryOK(journal[j])'
  BY <1>2, <1>5, <1>6, <1>8, <1>9, RowSet
<1>11. HandOK'
  <2>1. i \in DOMAIN journal' /\ journal'[i] = e
    BY <1>2, <1>5, <1>7, <1>8, Replaced
  <2>2. QED
    BY <1>5, <1>9, <2>1 DEF HandOK, Held
<1>12. QED
  BY <1>10, <1>11 DEF IInv

LEMMA ExpireKeeps ==
  ASSUME IInv, NEW i \in DOMAIN journal, Expire(i)
  PROVE  IInv'
<1>1. journal[i] \in Entry /\ journal \in Seq(Entry) /\ row \in Nat
  BY RowEntry DEF IInv, Types
<1>2. PICK e : e = [journal[i] EXCEPT !.expired = TRUE]
  OBVIOUS
<1>3. /\ e \in Entry /\ e.rev = journal[i].rev /\ e.msg = journal[i].msg
      /\ e.attempts = journal[i].attempts /\ e.state = journal[i].state
  BY <1>1, <1>2 DEF Entry
<1>4. EntryOK(e)
  BY <1>3 DEF IInv, EntryOK
<1>5. journal' = [journal EXCEPT ![i] = e] /\ row # i
  BY <1>1, <1>2 DEF Expire
<1>6. UNCHANGED <<events, receipts, fwd, rev, day, inbox, row, pc>>
  BY DEF Expire, Kept
<1>7. Types' /\ EventsOK' /\ \A j \in DOMAIN journal' : EntryOK(journal[j])'
  BY <1>1, <1>3, <1>4, <1>5, <1>6, RowSet
<1>8. HandOK'
  <2>1. DOMAIN journal' = DOMAIN journal
        /\ \A j \in DOMAIN journal : j # i => journal'[j] = journal[j]
    BY <1>1, <1>3, <1>5, Replaced
  <2>2. pc \in Reading => row \in DOMAIN journal /\ journal'[row] = journal[row]
    BY <1>5, <2>1 DEF IInv, HandOK
  <2>3. QED
    BY <1>6, <2>1, <2>2 DEF IInv, HandOK, Held, IsEvent, Reading
<1>9. QED
  BY <1>7, <1>8 DEF IInv

-----------------------------------------------------------------------------
(* The worker *)

LEMMA HeldEntry ==
  ASSUME IInv, pc \in Reading
  PROVE  /\ row \in DOMAIN journal /\ Held \in Entry /\ Held.rev \in Rev
         /\ Held.msg \in Mail /\ journal \in Seq(Entry)
BY RowEntry DEF IInv, HandOK, Held, Types

\* A step that leaves the journal and the health row, and keeps the worker's row.
LEMMA WorkAside ==
  ASSUME IInv, pc \in Reading, UNCHANGED <<journal, fwd, rev, day, inbox, row>>,
         EventsOK', events' \in Seq(Mail),
         \A l : IsEvent(l) => IsEvent(l)',
         NEW m, m = Held.msg,
         pc' \in Reading \ {"divert", "proof"}, pc # "proof",
         pc' \in {"attach", "ingest", "receipt", "mark"} => m.kind = "letter",
         pc' = "record" => m.kind # "letter",
         pc' \in {"receipt", "mark"} => IsEvent(m)'
  PROVE  IInv'
<1>1. Types'
  BY DEF IInv, Types
<1>2. ASSUME NEW i \in DOMAIN journal' PROVE EntryOK(journal[i])'
  <2>1. EntryOK(journal[i])
    BY DEF IInv
  <2>2. journal' = journal /\ fwd' = fwd
    OBVIOUS
  <2>3. PICK e : e = journal[i]
    OBVIOUS
  <2>4. IsEvent(e.msg) => IsEvent(e.msg)'
    OBVIOUS
  <2>5. EntryOK(e)'
    BY <2>1, <2>2, <2>3, <2>4 DEF EntryOK
  <2>6. QED
    BY <2>2, <2>3, <2>5
<1>3. HandOK'
  <2>1. row \in DOMAIN journal /\ Held.state = "processing"
    BY DEF IInv, HandOK
  <2>2. Held' = Held
    BY DEF Held
  <2>3. PICK h : h = Held
    OBVIOUS
  <2>4. Held' = h /\ h.msg = m /\ h.state = "processing" /\ row' \in DOMAIN journal'
    BY <2>1, <2>2, <2>3
  <2>5. QED
    BY <2>4 DEF HandOK, Reading
<1>4. QED
  BY <1>1, <1>2, <1>3 DEF IInv

LEMMA ReadKeeps ==
  ASSUME IInv, ReadThread
  PROVE  IInv'
<1>0. pc = "thread" /\ pc \in Reading
  BY DEF ReadThread, Reading
<1>1. CASE Failed
  BY <1>0, <1>1, FailedKeeps
<1>2. CASE pc' = StepsOf(Held.msg)[1] /\ Kept(row) /\ UNCHANGED <<journal, mail, fwd>>
  <2>1. UNCHANGED <<journal, fwd, rev, day, inbox, row, events, receipts>>
    BY <1>2 DEF Kept
  <2>2. EventsOK' /\ events' \in Seq(Mail) /\ \A m : IsEvent(m) => IsEvent(m)'
    BY <2>1 DEF IInv, EventsOK, IsEvent, Types
  <2>3. CASE Held.msg.kind = "letter"
    <3>1. pc' = "attach"
      BY <1>2, <2>3, LetterAfter
    <3>2. QED
      BY <1>0, <2>1, <2>2, <2>3, <3>1, WorkAside DEF Reading
  <2>4. CASE Held.msg.kind # "letter"
    <3>1. pc' = "record"
      BY <1>2, <2>4, DivertAfter
    <3>2. QED
      BY <1>0, <2>1, <2>2, <2>4, <3>1, WorkAside DEF Reading
  <2>5. QED
    BY <2>3, <2>4
<1>3. QED
  BY <1>1, <1>2 DEF ReadThread

LEMMA AttachKeeps ==
  ASSUME IInv, Attach
  PROVE  IInv'
<1>0. pc = "attach" /\ pc \in Reading /\ Held.msg.kind = "letter"
  BY DEF Attach, Reading, IInv, HandOK
<1>1. CASE Failed
  BY <1>0, <1>1, FailedKeeps
<1>2. CASE Onward /\ UNCHANGED <<journal, events, receipts, fwd>>
  <2>1. pc' = "ingest" /\ UNCHANGED <<journal, fwd, rev, day, inbox, row, events, receipts>>
    BY <1>0, <1>2, LetterAfter DEF Onward, Kept
  <2>2. EventsOK' /\ events' \in Seq(Mail) /\ \A m : IsEvent(m) => IsEvent(m)'
    BY <2>1 DEF IInv, EventsOK, IsEvent, Types
  <2>3. QED
    BY <1>0, <2>1, <2>2, WorkAside DEF Reading
<1>3. QED
  BY <1>1, <1>2 DEF Attach

LEMMA IngestKeeps ==
  ASSUME IInv, Ingest
  PROVE  IInv'
<1>0. /\ pc = "ingest" /\ pc \in Reading /\ Held.msg.kind = "letter"
      /\ Held.msg \in Mail /\ events \in Seq(Mail)
  BY HeldEntry DEF Ingest, Reading, IInv, HandOK, Types
<1>1. CASE Failed
  BY <1>0, <1>1, FailedKeeps
<1>2. CASE /\ events' = IF Held.msg \in receipts THEN events ELSE Appended(Held.msg)
           /\ Onward /\ UNCHANGED <<journal, receipts, cached, fwd>>
  <2>1. pc' = "receipt" /\ UNCHANGED <<journal, fwd, rev, day, inbox, row, receipts>>
    BY <1>0, <1>2, LetterAfter DEF Onward, Kept
  <2>2. PICK m : m = Held.msg
    OBVIOUS
  <2>3. CASE events' = events
    <3>1. IsEvent(m)
      <4>1. CASE m \in receipts
        BY <4>1 DEF IInv, EventsOK
      <4>2. CASE m \notin receipts /\ Appended(m) = events
        <5>1. events # Append(events, m)
          <6>1. Len(Append(events, m)) # Len(events)
            BY <1>0, <2>2
          <6>2. QED
            BY <6>1
        <5>2. QED
          BY <4>2, <5>1 DEF Appended, IsEvent
      <4>3. QED
        BY <1>2, <2>2, <2>3, <4>1, <4>2
    <3>2. EventsOK' /\ events' \in Seq(Mail) /\ \A l : IsEvent(l) => IsEvent(l)'
      BY <1>0, <2>1, <2>3 DEF IInv, EventsOK, IsEvent
    <3>3. QED
      BY <1>0, <2>1, <2>2, <3>1, <3>2, WorkAside DEF Reading
  <2>4. CASE events' # events
    <3>1. events' = Append(events, m) /\ ~IsEvent(m)
      BY <1>2, <2>2, <2>4 DEF Appended, IsEvent
    <3>2. PICK k : k = Len(events) + 1
      OBVIOUS
    <3>3. /\ events' \in Seq(Mail) /\ DOMAIN events' = DOMAIN events \cup {k}
          /\ k \notin DOMAIN events
          /\ events'[k] = m /\ \A j \in DOMAIN events : events'[j] = events[j]
      BY <1>0, <2>2, <3>1, <3>2, Added
    <3>4. (\A l : IsEvent(l) => IsEvent(l)') /\ IsEvent(m)'
      BY <3>3 DEF IsEvent
    <3>5. EventsOK'
      <4>1. \A i, j \in DOMAIN events' : events'[i] = events'[j] => i = j
        BY <3>1, <3>3 DEF IInv, EventsOK, IsEvent
      <4>2. \A j \in DOMAIN events' : events'[j].kind = "letter"
        BY <1>0, <2>2, <3>3 DEF IInv, EventsOK
      <4>3. \A l \in receipts' : IsEvent(l)'
        BY <2>1, <3>4 DEF IInv, EventsOK
      <4>4. QED
        BY <4>1, <4>2, <4>3 DEF EventsOK
    <3>6. QED
      BY <1>0, <2>1, <2>2, <3>3, <3>4, <3>5, WorkAside DEF Reading
  <2>5. QED
    BY <2>3, <2>4
<1>3. QED
  BY <1>1, <1>2 DEF Ingest

LEMMA ReceiptKeeps ==
  ASSUME IInv, Receipt
  PROVE  IInv'
<1>0. /\ pc = "receipt" /\ pc \in Reading /\ Held.msg.kind = "letter" /\ IsEvent(Held.msg)
  BY DEF Receipt, Reading, IInv, HandOK
<1>1. pc' = "mark" /\ UNCHANGED <<journal, fwd, rev, day, inbox, row, events>>
      /\ receipts' = receipts \cup {Held.msg}
  BY <1>0, LetterAfter DEF Receipt, Onward, Kept
<1>2. EventsOK' /\ events' \in Seq(Mail) /\ \A m : IsEvent(m) => IsEvent(m)'
  BY <1>0, <1>1 DEF IInv, EventsOK, IsEvent, Types
<1>3. QED
  BY <1>0, <1>1, <1>2, WorkAside DEF Reading

LEMMA MarkKeeps ==
  ASSUME IInv, MarkMaterialized
  PROVE  IInv'
<1>0. /\ pc = "mark" /\ pc \in Reading /\ Held.msg.kind = "letter" /\ IsEvent(Held.msg)
  BY DEF MarkMaterialized, Reading, IInv, HandOK
<1>1. PICK e : e = [journal[row] EXCEPT !.state = "materialized"]
  OBVIOUS
<1>2. row \in DOMAIN journal /\ Held \in Entry /\ journal \in Seq(Entry)
  BY <1>0, HeldEntry
<1>3. e \in Entry /\ e.rev = journal[row].rev /\ e.msg = journal[row].msg /\ e.state = "materialized"
  BY <1>1, <1>2 DEF Entry, Held
<1>4. EntryOK(e)
  BY <1>0, <1>3 DEF EntryOK, Held
<1>5. journal' = [journal EXCEPT ![row] = e]
  BY <1>1, <1>2 DEF MarkMaterialized
<1>6. pc' = "proof" /\ UNCHANGED <<fwd, rev, day, inbox, row, events, receipts>>
  BY <1>0, LetterAfter DEF MarkMaterialized, Onward, Kept
<1>7. Types' /\ EventsOK' /\ \A j \in DOMAIN journal' : EntryOK(journal[j])'
  <2>1. row' \in Nat
    BY <1>6 DEF IInv, Types
  <2>2. QED
    BY <1>2, <1>3, <1>4, <1>5, <1>6, <2>1, RowSet
<1>8. HandOK'
  <2>1. row' \in DOMAIN journal' /\ journal'[row'] = e
    BY <1>2, <1>3, <1>5, <1>6, Replaced
  <2>2. e.msg.kind = "letter" /\ IsEvent(e.msg)'
    BY <1>0, <1>3, <1>6 DEF Held, IsEvent
  <2>3. QED
    BY <1>6, <2>1, <2>2 DEF HandOK, Held, Reading
<1>9. QED
  BY <1>7, <1>8 DEF IInv

LEMMA ProvedKeeps ==
  ASSUME IInv, NEW r \in Rev, NEW t \in Int, Proved(r, t)
  PROVE  fwd' \in [Rev -> Health] /\ LinksKept
<1>1. fwd[r] \in Health /\ Types
  BY DEF IInv, Types
<1>2. fwd' = [fwd EXCEPT ![r] = Active(fwd[r], t)]
  BY DEF Proved
<1>3. QED
  BY <1>1, <1>2, HealthActive, HealthSet

LEMMA ProofKeeps ==
  ASSUME IInv, Proof
  PROVE  IInv'
<1>0. pc = "proof" /\ pc \in Reading
  BY DEF Proof, Reading
<1>1. Held.rev \in Rev
  BY <1>0, HeldEntry
<1>2. fwd[Held.rev].seen \in Int
  BY <1>1 DEF IInv, Types, Health
<1>3. fwd' \in [Rev -> Health] /\ LinksKept
  BY <1>1, <1>2, ProvedKeeps DEF Proof
<1>4. UNCHANGED <<journal, events, receipts, rev, day, inbox>> /\ row' = 0 /\ pc' = "tick"
  BY DEF Proof
<1>5. Types' /\ pc' \notin Reading
  BY <1>3, <1>4 DEF IInv, Types, Reading
<1>6. QED
  BY <1>3, <1>4, <1>5, Aside

LEMMA RecordKeeps ==
  ASSUME IInv, Record
  PROVE  IInv'
<1>0. pc = "record" /\ pc \in Reading /\ Held.msg.kind # "letter"
  BY DEF Record, Reading, IInv, HandOK
<1>1. /\ row \in DOMAIN journal /\ Held \in Entry /\ Held.rev \in Rev /\ Held.msg \in Mail
      /\ fwd[Held.rev] \in Health /\ Held.state = "processing" /\ Held.msg.n \in Int
  BY <1>0, HeldEntry DEF IInv, Types, HandOK, Mail
<1>2. pc' = "divert"
  BY <1>0, DivertAfter DEF Record
<1>3. UNCHANGED <<journal, events, receipts, rev, day, inbox, row>>
  BY <1>2 DEF Record
<1>4. /\ fwd' \in [Rev -> Health] /\ LinksKept
      /\ Held.msg.kind = "confirmation" => fwd'[Held.rev].link # 0
  <2>1. CASE Held.msg.kind = "confirmation"
    <3>1. Held.msg.n \in Nat \ {0}
      BY <1>1, <2>1 DEF Mail
    <3>2. fwd' = [fwd EXCEPT ![Held.rev] = Linked(fwd[Held.rev], Held.msg.n)]
      BY <2>1 DEF Record
    <3>3. QED
      BY <1>1, <3>1, <3>2, HealthLinked, HealthSet DEF IInv, Types
  <2>2. CASE Held.msg.kind # "confirmation" /\ Proved(Held.rev, Held.msg.n)
    BY <1>1, <2>2, ProvedKeeps
  <2>3. CASE Held.msg.kind # "confirmation" /\ fwd' = fwd
    BY <2>3 DEF IInv, Types, LinksKept
  <2>4. QED
    BY <2>1, <2>2, <2>3 DEF Record
<1>5. Types'
  BY <1>3, <1>4 DEF IInv, Types
<1>6. EventsOK'
  BY <1>3 DEF IInv, EventsOK, IsEvent
<1>7. ASSUME NEW i \in DOMAIN journal' PROVE EntryOK(journal[i])'
  <2>1. journal[i].rev \in Rev /\ EntryOK(journal[i])
    BY <1>3, RowEntry DEF IInv
  <2>2. QED
    BY <1>3, <1>4, <2>1 DEF EntryOK, IsEvent, LinksKept
<1>8. HandOK'
  BY <1>0, <1>1, <1>2, <1>3, <1>4 DEF HandOK, Held
<1>9. QED
  BY <1>5, <1>6, <1>7, <1>8 DEF IInv

LEMMA DivertKeeps ==
  ASSUME IInv, MarkDiverted
  PROVE  IInv'
<1>0. /\ pc = "divert" /\ pc \in Reading /\ Held.msg.kind # "letter"
      /\ Held.msg.kind = "confirmation" => fwd[Held.rev].link # 0
  BY DEF MarkDiverted, Reading, IInv, HandOK
<1>1. PICK e : e = [journal[row] EXCEPT !.state = "diverted"]
  OBVIOUS
<1>2. row \in DOMAIN journal /\ Held \in Entry /\ journal \in Seq(Entry)
  BY <1>0, HeldEntry
<1>3. e \in Entry /\ e.rev = journal[row].rev /\ e.msg = journal[row].msg /\ e.state = "diverted"
  BY <1>1, <1>2 DEF Entry, Held
<1>4. EntryOK(e)
  BY <1>0, <1>3 DEF EntryOK, Held
<1>5. journal' = [journal EXCEPT ![row] = e]
  BY <1>1, <1>2 DEF MarkDiverted
<1>6. pc' = "tick" /\ row' = 0 /\ UNCHANGED <<fwd, rev, day, inbox, events, receipts>>
  BY <1>0, DivertAfter DEF MarkDiverted, Onward, Kept
<1>7. row' \in Nat /\ pc' \notin Reading
  BY <1>6 DEF Reading
<1>8. QED
  BY <1>2, <1>3, <1>4, <1>5, <1>6, <1>7, RowSet, LetGo

-----------------------------------------------------------------------------
LEMMA InitInv == Init => IInv
<1> SUFFICES ASSUME Init PROVE IInv
  OBVIOUS
<1>1. Pending \in Health
  BY DEF Pending, Health
<1>2. rev \in Rev
  BY RelayAssumption DEF Init, Rev
<1>3. Types
  BY <1>1, <1>2 DEF Init, Types
<1>4. HandOK
  BY DEF Init, HandOK, Reading
<1>5. DOMAIN journal = {} /\ DOMAIN events = {} /\ receipts = {}
  BY DEF Init
<1>6. EventsOK /\ \A i \in DOMAIN journal : EntryOK(journal[i])
  BY <1>5 DEF EventsOK
<1>7. QED
  BY <1>3, <1>4, <1>6 DEF IInv

LEMMA StepInv == IInv /\ [Next]_vars => IInv'
<1> SUFFICES ASSUME IInv, [Next]_vars PROVE IInv'
  OBVIOUS
<1>1. CASE Work
  <2>1. CASE Lease \/ ReadThread \/ Attach \/ Ingest \/ Receipt
    BY <2>1, LeaseKeeps, ReadKeeps, AttachKeeps, IngestKeeps, ReceiptKeeps
  <2>2. CASE MarkMaterialized \/ Proof \/ Record \/ MarkDiverted
    BY <2>2, MarkKeeps, ProofKeeps, RecordKeeps, DivertKeeps
  <2>3. CASE Tick \/ MarkStale \/ SendCheck \/ RecordCheck
    BY <2>3, CheckKeeps, SendKeeps
  <2>4. QED
    BY <1>1, <2>1, <2>2, <2>3 DEF Work
<1>2. CASE \/ \E n \in Letters : Write(n)
           \/ \E n \in Confirmations : Confirm(n)
           \/ Switch \/ Deploy \/ Crash
  BY <1>2, OutsideKeeps
<1>3. CASE WindowPasses \/ IntervalPasses
  BY <1>3, ClockKeeps
<1>4. CASE Recheck \/ OwnerTurn
  BY <1>4, CheckKeeps
<1>5. CASE \E m \in inbox : Post(m)
  BY <1>5, PostKeeps
<1>6. CASE \E i \in DOMAIN journal : Expire(i)
  BY <1>6, ExpireKeeps
<1>7. CASE UNCHANGED vars
  <2>1. Types' /\ LinksKept
    BY <1>7 DEF IInv, Types, LinksKept
  <2>2. QED
    BY <1>7, <2>1, Aside
<1>8. QED
  BY <1>1, <1>2, <1>3, <1>4, <1>5, <1>6, <1>7 DEF Next

\* The invariant settles each row: a letter is one event and no more.
LEMMA Settled == IInv => SettledIsKept
<1> SUFFICES ASSUME IInv PROVE SettledIsKept
  OBVIOUS
<1>1. ASSUME NEW i \in DOMAIN journal, journal[i].state = "materialized"
      PROVE  Cardinality({j \in DOMAIN events : events[j] = journal[i].msg}) = 1
  <2>1. PICK k \in DOMAIN events : events[k] = journal[i].msg
    BY <1>1 DEF IInv, EntryOK, IsEvent
  <2>2. {j \in DOMAIN events : events[j] = journal[i].msg} = {k}
    BY <2>1 DEF IInv, EventsOK
  <2>3. QED
    BY <2>2, FS_Singleton
<1>2. \A j \in DOMAIN events : events[j].kind = "letter"
  BY DEF IInv, EventsOK
<1>3. ASSUME NEW i \in DOMAIN journal
      PROVE  /\ journal[i].state = "diverted" /\ journal[i].msg.kind = "confirmation"
                  => fwd[journal[i].rev].link # 0
             /\ journal[i].state = "dlq" => journal[i].attempts = MaxAttempts
  BY DEF IInv, EntryOK
<1>4. QED
  BY <1>1, <1>2, <1>3 DEF SettledIsKept

\* The inductive invariant holds from the empty volume on.
LEMMA Invariance == Spec => []IInv
<1>1. QED
  BY InitInv, StepInv, PTL DEF Spec

\* A webhook row leaves the queue only over what it was for, whatever thread or
\* attachment fails, however often it is posted, and wherever the process dies:
\* a letter is one canonical event (ingest_rfc822, EventStore.append), a
\* confirmation has its link (record_confirmation), a dead row its attempts
\* (mark_failed), and no confirmation or check is an event (run_once).
THEOREM SettledRowsAreKept == Spec => []SettledIsKept
<1>1. QED
  BY Invariance, Settled, PTL

-----------------------------------------------------------------------------
(* Why forwarding is declared stale: the misses are tallied *)

\* What the misses of a revision, f its health row, were counted from: O, the
\* checks that missed their window.  No check of a later day is among them.
Tally(f, O, d) ==
  /\ O \subseteq Int /\ IsFiniteSet(O)
  /\ f.token <= Token(d, f.attempts)
  /\ \A o \in O : o <= Token(d, f.attempts)
  /\ f.misses <= Cardinality(O)
  /\ ~f.counted /\ f.token \in O => f.misses < Cardinality(O)
  /\ Missed(f) => f.token \in O

Tallies ==
  /\ overdue \in [Rev -> SUBSET Int]
  /\ \A r \in Rev : Tally(fwd[r], overdue[r], day)

\* Between the count and mark_stale nothing takes the misses back.
StaleOK == pc = "stale" => Cardinality(overdue[rev]) >= StaleAfterMisses

\* Only a check can come in late.
LateOK == \A i \in DOMAIN journal : journal[i].msg.kind = "letter" => ~journal[i].late

Earned == IInv /\ Tallies /\ StaleOK /\ LateOK

LEMMA TokenGrows ==
  ASSUME NEW d \in Nat, NEW a \in Nat
  PROVE  /\ Token(d, a) \in Int /\ Token(d, a) < Token(d, a + 1)
         /\ Token(d, a) <= Token(d + 1, a)
<1>1. MaxCheck \in Nat
  BY RelayAssumption
<1>2. PICK k \in Nat : k = MaxCheck + 1
  BY <1>1
<1>3. d * k \in Int /\ (d + 1) * k = d * k + k
  BY <1>2
<1>4. Token(d, a) = d * k + a /\ Token(d, a + 1) = d * k + (a + 1)
      /\ Token(d + 1, a) = (d + 1) * k + a
  BY <1>2 DEF Token
<1>5. PICK x \in Int : x = d * k
  BY <1>3
<1>6. PICK y \in Int : y = (d + 1) * k
  BY <1>3, <1>2
<1>7. Token(d, a) = x + a /\ Token(d, a + 1) = x + (a + 1) /\ Token(d + 1, a) = y + a
      /\ y = x + k
  BY <1>3, <1>4, <1>5, <1>6
<1>8. QED
  BY <1>2, <1>7

\* The window of the outstanding check passes.
LEMMA TallyLate ==
  ASSUME NEW f \in Health, NEW d \in Nat, NEW O, Tally(f, O, d), NEW P,
         P = IF f.seen = f.token THEN O ELSE O \cup {f.token}
  PROVE  Tally([f EXCEPT !.age = "late"], P, d)
<1>0. /\ O \subseteq Int /\ IsFiniteSet(O) /\ f.token \in Int /\ f.misses \in Nat
      /\ f.misses <= Cardinality(O) /\ Cardinality(O) \in Nat
      /\ f.attempts \in Nat /\ Token(d, f.attempts) \in Int
  BY FS_CardinalityType, TokenGrows DEF Tally, Health
<1>1. PICK g : g = [f EXCEPT !.age = "late"]
  OBVIOUS
<1>2. /\ g.token = f.token /\ g.attempts = f.attempts /\ g.misses = f.misses
      /\ g.counted = f.counted /\ g.seen = f.seen
  BY <1>1 DEF Health
<1>3. CASE f.seen = f.token
  BY <1>1, <1>2, <1>3 DEF Tally, Missed
<1>4. CASE f.seen # f.token
  <2>1. P = O \cup {f.token} /\ P \subseteq Int
    BY <1>0, <1>4
  <2>2. /\ IsFiniteSet(P)
        /\ Cardinality(P) = IF f.token \in O THEN Cardinality(O) ELSE Cardinality(O) + 1
    <3>1. /\ IsFiniteSet(O \cup {f.token})
          /\ Cardinality(O \cup {f.token}) =
               IF f.token \in O THEN Cardinality(O) ELSE Cardinality(O) + 1
      BY <1>0, FS_AddElement, Zenon
    <3>2. QED
      BY <2>1, <3>1
  <2>3. f.misses <= Cardinality(P) /\ (~f.counted => f.misses < Cardinality(P))
    <3>1. CASE f.token \in O
      BY <1>0, <2>2, <3>1 DEF Tally
    <3>2. CASE f.token \notin O
      BY <1>0, <2>2, <3>2
    <3>3. QED
      BY <3>1, <3>2
  <2>4. \A o \in P : o <= Token(d, f.attempts)
    BY <2>1 DEF Tally
  <2>5. QED
    BY <1>1, <1>2, <2>1, <2>2, <2>3, <2>4 DEF Tally
<1>5. QED
  BY <1>3, <1>4

\* The interval of the outstanding check passes, and a day.
LEMMA TallyDay ==
  ASSUME NEW f \in Health, NEW d \in Nat, NEW O, Tally(f, O, d)
  PROVE  Tally(f, O, d + 1)
<1>1. f.attempts \in Nat /\ f.token \in Int
  BY DEF Health
<1>2. PICK x \in Int : x = Token(d, f.attempts)
  BY <1>1, TokenGrows
<1>3. PICK y \in Int : y = Token(d + 1, f.attempts)
  BY <1>1, TokenGrows
<1>4. x <= y
  BY <1>1, <1>2, <1>3, TokenGrows
<1>5. O \subseteq Int /\ (\A o \in O : o <= x) /\ f.token <= x
  BY <1>2 DEF Tally
<1>6. (\A o \in O : o <= y) /\ f.token <= y
  BY <1>1, <1>4, <1>5
<1>7. QED
  BY <1>3, <1>6 DEF Tally

LEMMA TallyDue ==
  ASSUME NEW f \in Health, NEW d \in Nat, NEW O, Tally(f, O, d), f.age = "late"
  PROVE  Tally([f EXCEPT !.age = "due"], O, d)
<1>1. PICK g : g = [f EXCEPT !.age = "due"]
  OBVIOUS
<1>2. /\ g.token = f.token /\ g.attempts = f.attempts /\ g.misses = f.misses
      /\ g.counted = f.counted /\ g.seen = f.seen
  BY <1>1 DEF Health
<1>3. Missed(g) => Missed(f)
  BY <1>2 DEF Missed
<1>4. QED
  BY <1>1, <1>2, <1>3 DEF Tally

\* The tick counts a miss, and it was one.
LEMMA TallyCounted ==
  ASSUME NEW f \in Health, NEW d \in Nat, NEW O, Tally(f, O, d), Missed(f)
  PROVE  Tally(Counted(f), O, d) /\ f.misses + 1 <= Cardinality(O)
<1>1. PICK g : g = Counted(f)
  OBVIOUS
<1>2. /\ g.token = f.token /\ g.attempts = f.attempts /\ g.misses = f.misses + 1
      /\ g.counted = TRUE
  BY <1>1 DEF Health, Counted
<1>3. f.token \in O /\ ~f.counted
  BY DEF Tally, Missed
<1>4. f.misses < Cardinality(O) /\ Cardinality(O) \in Nat /\ f.misses \in Nat
  BY <1>3, FS_CardinalityType DEF Tally, Health
<1>5. f.misses + 1 <= Cardinality(O)
  BY <1>4
<1>6. ~Missed(g)
  BY <1>2 DEF Missed
<1>7. QED
  BY <1>1, <1>2, <1>5, <1>6 DEF Tally

\* A check is sent that was never among the missed ones.
LEMMA TallySent ==
  ASSUME NEW f \in Health, NEW d \in Nat, NEW O, Tally(f, O, d)
  PROVE  Tally(CheckSent(f, Token(d, f.attempts + 1)), O, d)
<1>0. f.attempts \in Nat /\ O \subseteq Int
  BY DEF Health, Tally
<1>1. PICK x \in Int : x = Token(d, f.attempts)
  BY <1>0, TokenGrows
<1>2. f.attempts + 1 \in Nat
  BY <1>0
<1>3. PICK t \in Int : t = Token(d, f.attempts + 1)
  BY <1>2, TokenGrows
<1>4. x < t
  BY <1>0, <1>1, <1>3, TokenGrows
<1>5. \A o \in O : o <= x
  BY <1>1 DEF Tally
<1>6. t \notin O /\ (\A o \in O : o <= t) /\ t <= t
  BY <1>0, <1>4, <1>5
<1>7. PICK g : g = CheckSent(f, t)
  OBVIOUS
<1>8. /\ g.token = t /\ g.attempts = f.attempts + 1 /\ g.misses = f.misses
      /\ g.age = "fresh"
  BY <1>7 DEF Health, CheckSent
<1>9. ~Missed(g)
  BY <1>8 DEF Missed
<1>10. Tally(g, O, d)
  BY <1>3, <1>6, <1>8, <1>9 DEF Tally
<1>11. QED
  BY <1>3, <1>7, <1>10

\* A proof takes back every miss but the one that is still to be counted.
LEMMA TallyProved ==
  ASSUME NEW f \in Health, NEW d \in Nat, NEW O, Tally(f, O, d), NEW t, NEW P,
         P = IF Missed(Active(f, t)) THEN {Active(f, t).token} ELSE {}
  PROVE  Tally(Active(f, t), P, d) /\ P \subseteq Int
<1>1. PICK g : g = Active(f, t)
  OBVIOUS
<1>2. /\ g.token = f.token /\ g.attempts = f.attempts /\ g.misses = 0
      /\ f.token \in Int
  BY <1>1 DEF Health, Active
<1>3. f.token <= Token(d, f.attempts)
  BY DEF Tally
<1>4. CASE Missed(g)
  <2>1. P = {f.token} /\ P \subseteq Int
    BY <1>1, <1>2, <1>4
  <2>2. IsFiniteSet(P) /\ Cardinality(P) = 1
    BY <2>1, FS_Singleton
  <2>3. QED
    BY <1>1, <1>2, <1>3, <2>1, <2>2 DEF Tally
<1>5. CASE ~Missed(g)
  <2>1. P = {} /\ IsFiniteSet(P) /\ Cardinality(P) = 0
    BY <1>1, <1>5, FS_EmptySet
  <2>2. QED
    BY <1>1, <1>2, <1>3, <1>5, <2>1 DEF Tally
<1>6. QED
  BY <1>4, <1>5

\* What the chat and mark_stale write is not what is tallied.
LEMMA TallySame ==
  ASSUME NEW f, NEW g, NEW d, NEW O, Tally(f, O, d),
         g.token = f.token, g.attempts = f.attempts, g.misses = f.misses,
         g.counted = f.counted, g.seen = f.seen, g.age = f.age
  PROVE  Tally(g, O, d)
BY DEF Tally, Missed

-----------------------------------------------------------------------------
(* The tallies are kept *)

LEMMA TalliesUnchanged ==
  ASSUME Tallies, UNCHANGED <<fwd, overdue, day>>
  PROVE  Tallies'
BY DEF Tallies, Tally, Token, Missed

LEMMA TalliesSet ==
  ASSUME Types, Tallies, NEW r \in Rev, NEW g, NEW O, O \subseteq Int,
         fwd' = [fwd EXCEPT ![r] = g], overdue' = [overdue EXCEPT ![r] = O],
         day' = day, Tally(g, O, day)
  PROVE  Tallies'
<1>1. overdue' \in [Rev -> SUBSET Int]
  BY DEF Tallies
<1>2. ASSUME NEW q \in Rev PROVE Tally(fwd[q], overdue[q], day)'
  <2>1. PICK f : f = fwd'[q]
    OBVIOUS
  <2>2. PICK P : P = overdue'[q]
    OBVIOUS
  <2>3. Tally(f, P, day)
    <3>1. CASE q = r
      BY <2>1, <2>2, <3>1 DEF Types, Tallies
    <3>2. CASE q # r
      BY <2>1, <2>2, <3>2 DEF Types, Tallies
    <3>3. QED
      BY <3>1, <3>2
  <2>4. QED
    BY <2>1, <2>2, <2>3 DEF Tally, Token, Missed
<1>3. QED
  BY <1>1, <1>2 DEF Tallies

\* The same, of a step that leaves overdue.
LEMMA TalliesSetHealth ==
  ASSUME Types, Tallies, NEW r \in Rev, NEW g,
         fwd' = [fwd EXCEPT ![r] = g], overdue' = overdue,
         day' = day, Tally(g, overdue[r], day)
  PROVE  Tallies'
<1>1. overdue[r] \subseteq Int /\ overdue' = [overdue EXCEPT ![r] = overdue[r]]
  BY DEF Tallies
<1>2. QED
  BY <1>1, TalliesSet

LEMMA ProvedTallies ==
  ASSUME Types, Tallies, NEW r \in Rev, NEW t, Proved(r, t), day' = day
  PROVE  Tallies'
<1>1. fwd[r] \in Health /\ Tally(fwd[r], overdue[r], day) /\ day \in Nat
  BY DEF Types, Tallies
<1>2. PICK g : g = Active(fwd[r], t)
  OBVIOUS
<1>3. PICK P : P = IF Missed(g) THEN {g.token} ELSE {}
  OBVIOUS
<1>4. Tally(g, P, day) /\ P \subseteq Int
  BY <1>1, <1>2, <1>3, TallyProved
<1>5. fwd' = [fwd EXCEPT ![r] = g] /\ overdue' = [overdue EXCEPT ![r] = P]
  BY <1>2, <1>3 DEF Proved
<1>6. QED
  BY <1>4, <1>5, TalliesSet

LEMMA ClockTallies ==
  ASSUME Types, Tallies, WindowPasses \/ IntervalPasses
  PROVE  Tallies'
<1>0. /\ rev \in Rev /\ fwd[rev] \in Health /\ day \in Nat
      /\ Tally(fwd[rev], overdue[rev], day) /\ overdue[rev] \subseteq Int
      /\ fwd[rev].token \in Int
  BY DEF Types, Tallies, Health
<1>1. CASE WindowPasses
  <2>1. PICK P : P = IF fwd[rev].seen = fwd[rev].token THEN overdue[rev]
                     ELSE overdue[rev] \cup {fwd[rev].token}
    OBVIOUS
  <2>2. PICK g : g = [fwd[rev] EXCEPT !.age = "late"]
    OBVIOUS
  <2>3. Tally(g, P, day) /\ P \subseteq Int
    BY <1>0, <2>1, <2>2, TallyLate
  <2>4. fwd' = [fwd EXCEPT ![rev] = g] /\ day' = day
    BY <1>0, <1>1, <2>2 DEF WindowPasses, Types
  <2>5. overdue' = [overdue EXCEPT ![rev] = P]
    BY <1>0, <1>1, <2>1 DEF WindowPasses, Tallies
  <2>6. QED
    BY <1>0, <2>3, <2>4, <2>5, TalliesSet
<1>2. CASE IntervalPasses
  <2>1. PICK g : g = [fwd[rev] EXCEPT !.age = "due"]
    OBVIOUS
  <2>2. g \in Health /\ Tally(g, overdue[rev], day)
    BY <1>0, <1>2, <2>1, TallyDue, HealthAged DEF IntervalPasses
  <2>3. fwd' = [fwd EXCEPT ![rev] = g] /\ overdue' = overdue /\ day' = day + 1
    BY <1>0, <1>2, <2>1 DEF IntervalPasses, Types
  <2>4. ASSUME NEW q \in Rev PROVE Tally(fwd[q], overdue[q], day)'
    <3>1. PICK f : f = fwd'[q]
      OBVIOUS
    <3>2. f \in Health /\ Tally(f, overdue[q], day)
      <4>1. CASE q = rev
        BY <2>2, <2>3, <3>1, <4>1 DEF Types
      <4>2. CASE q # rev
        BY <2>3, <3>1, <4>2 DEF Types, Tallies
      <4>3. QED
        BY <4>1, <4>2
    <3>3. Tally(f, overdue[q], day + 1)
      BY <1>0, <3>2, TallyDay
    <3>4. PICK P : P = overdue[q]
      OBVIOUS
    <3>5. Tally(f, P, day + 1) /\ f = fwd'[q] /\ P = overdue'[q]
      BY <2>3, <3>1, <3>3, <3>4
    <3>6. QED
      BY <2>3, <3>5 DEF Tally, Token, Missed
  <2>5. QED
    BY <2>3, <2>4 DEF Tallies
<1>3. QED
  BY <1>1, <1>2

LEMMA CheckTallies ==
  ASSUME Types, Tallies, Tick \/ MarkStale \/ RecordCheck \/ Recheck \/ OwnerTurn
  PROVE  Tallies'
<1>0. /\ rev \in Rev /\ fwd[rev] \in Health /\ day \in Nat
      /\ Tally(fwd[rev], overdue[rev], day)
  BY DEF Types, Tallies
<1>a. overdue' = overdue /\ day' = day
  BY DEF Tick, MarkStale, RecordCheck, Recheck, OwnerTurn, Ticking, Chatting
<1>1. CASE fwd' = fwd
  BY <1>a, <1>1, TalliesUnchanged
<1>2. CASE Tick /\ fwd' # fwd
  <2>1. Missed(fwd[rev]) /\ fwd' = [fwd EXCEPT ![rev] = Counted(fwd[rev])]
    BY <1>2 DEF Tick
  <2>2. QED
    BY <1>0, <1>a, <2>1, TallyCounted, TalliesSetHealth
<1>3. CASE MarkStale
  <2>1. PICK g : g = [fwd[rev] EXCEPT !.state = "stale", !.staleShown = FALSE]
    OBVIOUS
  <2>2. Tally(g, overdue[rev], day)
    BY <1>0, <2>1, TallySame DEF Health
  <2>3. fwd' = [fwd EXCEPT ![rev] = g]
    BY <1>0, <1>3, <2>1 DEF MarkStale, Types
  <2>4. QED
    BY <1>0, <1>a, <2>2, <2>3, TalliesSetHealth
<1>4. CASE RecordCheck
  <2>1. fwd' = [fwd EXCEPT ![rev] = CheckSent(fwd[rev], Token(day, fwd[rev].attempts + 1))]
    BY <1>4 DEF RecordCheck, NextToken
  <2>2. QED
    BY <1>0, <1>a, <2>1, TallySent, TalliesSetHealth
<1>5. CASE Recheck
  <2>1. PICK g : g = [fwd[rev] EXCEPT !.requested = TRUE]
    OBVIOUS
  <2>2. Tally(g, overdue[rev], day)
    BY <1>0, <2>1, TallySame DEF Health
  <2>3. fwd' = [fwd EXCEPT ![rev] = g]
    BY <1>0, <1>5, <2>1 DEF Recheck, Types
  <2>4. QED
    BY <1>0, <1>a, <2>2, <2>3, TalliesSetHealth
<1>6. CASE OwnerTurn
  <2>1. PICK a, b : fwd' = [fwd EXCEPT ![rev] = [fwd[rev] EXCEPT !.linkShown = a, !.staleShown = b]]
    BY <1>0, <1>6 DEF OwnerTurn, Types
  <2>2. PICK g : g = [fwd[rev] EXCEPT !.linkShown = a, !.staleShown = b]
    OBVIOUS
  <2>3. Tally(g, overdue[rev], day)
    BY <1>0, <2>2, TallySame DEF Health
  <2>4. QED
    BY <1>0, <1>a, <2>1, <2>2, <2>3, TalliesSetHealth
<1>7. QED
  BY <1>1, <1>2, <1>3, <1>4, <1>5, <1>6

\* Who writes the health rows, the checks that missed their window, and the day.
LEMMA HealthWriters ==
  ASSUME Next
  PROVE  \/ UNCHANGED <<fwd, overdue, day>>
         \/ WindowPasses \/ IntervalPasses
         \/ Tick \/ MarkStale \/ RecordCheck \/ Recheck \/ OwnerTurn
         \/ Proof \/ Record
BY DEF Next, Work, Write, Confirm, Switch, Deploy, Crash, Post, Lease, Expire,
       ReadThread, Failed, Attach, Ingest, Receipt, MarkMaterialized, MarkDiverted,
       Onward, Kept, SendCheck, Ticking

LEMMA TalliesStep ==
  ASSUME IInv, Tallies, [Next]_vars
  PROVE  Tallies'
<1>0. Types
  BY DEF IInv
<1>1. CASE UNCHANGED <<fwd, overdue, day>>
  BY <1>1, TalliesUnchanged
<1>2. CASE WindowPasses \/ IntervalPasses
  BY <1>0, <1>2, ClockTallies
<1>3. CASE Tick \/ MarkStale \/ RecordCheck \/ Recheck \/ OwnerTurn
  BY <1>0, <1>3, CheckTallies
<1>4. CASE Proof
  <2>1. Held.rev \in Rev
    BY <1>4, HeldEntry DEF Proof, Reading
  <2>2. Proved(Held.rev, fwd[Held.rev].seen) /\ day' = day
    BY <1>4 DEF Proof
  <2>3. QED
    BY <1>0, <2>1, <2>2, ProvedTallies
<1>5. CASE Record
  <2>1. Held.rev \in Rev /\ fwd[Held.rev] \in Health
    BY <1>0, <1>5, HeldEntry DEF Record, Reading, Types
  <2>2. day' = day
    BY <1>5 DEF Record
  <2>3. CASE Proved(Held.rev, Held.msg.n)
    BY <1>0, <2>1, <2>2, <2>3, ProvedTallies
  <2>4. CASE UNCHANGED <<fwd, overdue>>
    BY <2>2, <2>4, TalliesUnchanged
  <2>5. CASE fwd' = [fwd EXCEPT ![Held.rev] = Linked(fwd[Held.rev], Held.msg.n)]
             /\ UNCHANGED overdue
    <3>1. PICK f \in Health : f = fwd[Held.rev]
      BY <2>1
    <3>2. PICK g : g = Linked(f, Held.msg.n)
      OBVIOUS
    <3>3. /\ g.token = f.token /\ g.attempts = f.attempts /\ g.misses = f.misses
          /\ g.counted = f.counted /\ g.seen = f.seen /\ g.age = f.age
      BY <3>2 DEF Linked, Health
    <3>4. Tally(f, overdue[Held.rev], day)
      BY <2>1, <3>1 DEF Tallies
    <3>5. Tally(g, overdue[Held.rev], day)
      BY <3>3, <3>4, TallySame
    <3>6. QED
      BY <1>0, <2>1, <2>2, <2>5, <3>1, <3>2, <3>5, TalliesSetHealth
  <2>6. QED
    BY <1>5, <2>3, <2>4, <2>5 DEF Record
<1>6. QED
  BY <1>1, <1>2, <1>3, <1>4, <1>5, HealthWriters

-----------------------------------------------------------------------------
(* Where the worker goes *)

LEMMA WorkerPlaces ==
  ASSUME IInv,
         \/ Lease \/ ReadThread \/ Attach \/ Ingest \/ Receipt
         \/ MarkMaterialized \/ Proof \/ Record \/ MarkDiverted
  PROVE  pc' # "stale"
<1>1. CASE Lease \/ Proof
  BY <1>1 DEF Lease, Proof
<1>2. CASE Failed
  BY <1>2 DEF Failed
<1>3. CASE ReadThread /\ ~Failed
  <2>1. pc' = StepsOf(Held.msg)[1]
    BY <1>3 DEF ReadThread
  <2>2. PICK m : m = Held.msg
    OBVIOUS
  <2>3. m.kind = "letter" => pc' = "attach"
    BY <2>1, <2>2, LetterAfter
  <2>4. m.kind # "letter" => pc' = "record"
    BY <2>1, <2>2, DivertAfter
  <2>5. QED
    BY <2>3, <2>4
<1>4. CASE (Attach \/ Ingest \/ Receipt \/ MarkMaterialized) /\ ~Failed
  <2>1. PICK m : m = Held.msg
    OBVIOUS
  <2>2. pc \in {"attach", "ingest", "receipt", "mark"} /\ pc' = After(pc, m)
    BY <1>4, <2>1 DEF Attach, Ingest, Receipt, MarkMaterialized, Onward
  <2>3. m.kind = "letter"
    BY <2>1, <2>2 DEF IInv, HandOK
  <2>4. QED
    BY <2>2, <2>3, LetterAfter
<1>5. CASE Record \/ MarkDiverted
  <2>1. PICK m : m = Held.msg
    OBVIOUS
  <2>2. pc \in {"record", "divert"} /\ pc' = After(pc, m)
    BY <1>5, <2>1 DEF Record, MarkDiverted, Onward
  <2>3. m.kind # "letter"
    BY <2>1, <2>2 DEF IInv, HandOK
  <2>4. QED
    BY <2>2, <2>3, DivertAfter
<1>6. QED
  BY <1>1, <1>2, <1>3, <1>4, <1>5

LEMMA StaleStep ==
  ASSUME IInv, Tallies, StaleOK, [Next]_vars
  PROVE  StaleOK'
<1>1. CASE UNCHANGED <<pc, rev, overdue>>
  BY <1>1 DEF StaleOK
<1>2. CASE pc' # "stale"
  BY <1>2 DEF StaleOK
<1>3. CASE Tick
  <2>1. overdue' = overdue /\ rev' = rev
    BY <1>3 DEF Tick, Ticking
  <2>2. ASSUME pc' = "stale"
        PROVE  Missed(fwd[rev]) /\ fwd[rev].misses + 1 >= StaleAfterMisses
    BY <1>3, <2>2 DEF Tick, Send
  <2>3. rev \in Rev /\ fwd[rev] \in Health /\ day \in Nat
        /\ Tally(fwd[rev], overdue[rev], day)
    BY DEF IInv, Types, Tallies
  <2>4. ASSUME pc' = "stale" PROVE Cardinality(overdue[rev]) >= StaleAfterMisses
    <3>1. fwd[rev].misses + 1 <= Cardinality(overdue[rev])
      BY <2>2, <2>3, <2>4, TallyCounted
    <3>2. Cardinality(overdue[rev]) \in Nat /\ fwd[rev].misses \in Nat
          /\ StaleAfterMisses \in Nat
      BY <2>3, FS_CardinalityType, RelayAssumption DEF Tally, Health
    <3>3. QED
      BY <2>2, <2>4, <3>1, <3>2
  <2>5. QED
    BY <2>1, <2>4 DEF StaleOK
<1>4. CASE \/ Lease \/ ReadThread \/ Attach \/ Ingest \/ Receipt
           \/ MarkMaterialized \/ Proof \/ Record \/ MarkDiverted
  BY <1>2, <1>4, WorkerPlaces
<1>5. CASE MarkStale \/ SendCheck \/ RecordCheck
  <2>1. pc' # "stale"
    BY <1>5 DEF MarkStale, SendCheck, RecordCheck, Send
  <2>2. QED
    BY <1>2, <2>1
<1>6. CASE \/ \E n \in Letters : Write(n)
           \/ \E n \in Confirmations : Confirm(n)
           \/ \E m \in inbox : Post(m)
           \/ \E i \in DOMAIN journal : Expire(i)
           \/ Switch \/ Recheck \/ OwnerTurn
  <2>1. UNCHANGED <<pc, rev, overdue>>
    BY <1>6 DEF Write, Confirm, Post, Expire, Kept, Switch, Recheck, OwnerTurn, Chatting
  <2>2. QED
    BY <1>1, <2>1
<1>7. CASE WindowPasses \/ IntervalPasses \/ Deploy \/ Crash
  <2>1. pc' # "stale"
    BY <1>7 DEF WindowPasses, IntervalPasses, Deploy, Crash
  <2>2. QED
    BY <1>2, <2>1
<1>8. QED
  BY <1>1, <1>3, <1>4, <1>5, <1>6, <1>7 DEF Next, Work

-----------------------------------------------------------------------------
(* The rows of the journal stay what they were posted for *)

LEMMA LateSet ==
  ASSUME Types, LateOK, NEW i \in DOMAIN journal, NEW e,
         journal' = [journal EXCEPT ![i] = e],
         e.msg = journal[i].msg, e.late = journal[i].late
  PROVE  LateOK'
<1>1. DOMAIN journal' = DOMAIN journal
  OBVIOUS
<1>2. ASSUME NEW j \in DOMAIN journal
      PROVE  journal'[j].msg = journal[j].msg /\ journal'[j].late = journal[j].late
  <2>1. CASE j = i
    BY <2>1
  <2>2. CASE j # i
    BY <2>2
  <2>3. QED
    BY <2>1, <2>2
<1>3. QED
  BY <1>1, <1>2 DEF LateOK

LEMMA LateUnchanged == LateOK /\ journal' = journal => LateOK'
BY DEF LateOK

LEMMA LateFailed ==
  ASSUME IInv, LateOK, pc \in Reading, Failed
  PROVE  LateOK'
<1>1. row \in DOMAIN journal /\ journal[row] \in Entry /\ Types
  BY RowEntry DEF IInv, HandOK
<1>a. PICK n : n = journal[row].attempts + 1
  OBVIOUS
<1>b. PICK st : st = IF n >= MaxAttempts THEN "dlq" ELSE "queued"
  OBVIOUS
<1>2. PICK e : e = [journal[row] EXCEPT !.attempts = n, !.state = st]
  OBVIOUS
<1>3. e.msg = journal[row].msg /\ e.late = journal[row].late
  BY <1>1, <1>2 DEF Entry
<1>4. journal' = [journal EXCEPT ![row] = e]
  BY <1>1, <1>2, <1>a, <1>b DEF Failed, MarkedFailed, Types
<1>5. QED
  BY <1>1, <1>3, <1>4, LateSet

LEMMA LateStep ==
  ASSUME IInv, LateOK, [Next]_vars
  PROVE  LateOK'
<1>0. Types
  BY DEF IInv
<1>1. CASE journal' = journal
  BY <1>1, LateUnchanged
<1>2. ASSUME NEW m \in inbox, Post(m), journal' # journal PROVE LateOK'
  <2>1. journal' = Append(journal, NewRow(m)) /\ journal \in Seq(Entry)
    BY <1>0, <1>2 DEF Post, Types
  <2>2. PICK e : e = NewRow(m)
    OBVIOUS
  <2>3. e \in Entry
    BY <1>0, <2>2 DEF NewRow, Late, Entry, Types
  <2>4. e.msg.kind = "letter" => ~e.late
    <3>1. e.msg = m /\ e.late = Late(m)
      BY <2>2 DEF NewRow
    <3>2. Late(m) => m.kind = "check"
      BY DEF Late, Check
    <3>3. QED
      BY <3>1, <3>2
  <2>5. PICK k : k = Len(journal) + 1
    OBVIOUS
  <2>6. /\ DOMAIN journal' = DOMAIN journal \cup {k}
        /\ journal'[k] = e /\ \A j \in DOMAIN journal : journal'[j] = journal[j]
    BY <2>1, <2>2, <2>3, <2>5, Added
  <2>7. QED
    BY <2>4, <2>6 DEF LateOK
<1>3. CASE Failed /\ pc \in Reading
  BY <1>3, LateFailed
<1>4. CASE Lease
  <2>1. PICK i \in Leasable :
          journal' = [journal EXCEPT ![i].state = "processing", ![i].expired = FALSE]
    BY <1>4 DEF Lease
  <2>2. i \in DOMAIN journal /\ journal[i] \in Entry
    BY <1>0, RowEntry DEF Leasable
  <2>3. PICK e : e = [journal[i] EXCEPT !.state = "processing", !.expired = FALSE]
    OBVIOUS
  <2>4. journal' = [journal EXCEPT ![i] = e]
    BY <1>0, <2>1, <2>2, <2>3 DEF Types
  <2>5. e.msg = journal[i].msg /\ e.late = journal[i].late
    BY <2>2, <2>3 DEF Entry
  <2>6. QED
    BY <1>0, <2>2, <2>4, <2>5, LateSet
<1>5. ASSUME NEW i \in DOMAIN journal, Expire(i) PROVE LateOK'
  <2>1. journal[i] \in Entry
    BY <1>0, RowEntry
  <2>2. PICK e : e = [journal[i] EXCEPT !.expired = TRUE]
    OBVIOUS
  <2>3. journal' = [journal EXCEPT ![i] = e]
    BY <1>0, <1>5, <2>2 DEF Expire, Types
  <2>4. e.msg = journal[i].msg /\ e.late = journal[i].late
    BY <2>1, <2>2 DEF Entry
  <2>5. QED
    BY <1>0, <2>3, <2>4, LateSet
<1>6. CASE MarkMaterialized \/ MarkDiverted
  <2>1. row \in DOMAIN journal /\ journal[row] \in Entry
    BY <1>6, HeldEntry DEF MarkMaterialized, MarkDiverted, Reading, Held
  <2>2. PICK st : journal' = [journal EXCEPT ![row].state = st]
    BY <1>6 DEF MarkMaterialized, MarkDiverted
  <2>3. PICK e : e = [journal[row] EXCEPT !.state = st]
    OBVIOUS
  <2>4. journal' = [journal EXCEPT ![row] = e]
    BY <1>0, <2>1, <2>2, <2>3 DEF Types
  <2>5. e.msg = journal[row].msg /\ e.late = journal[row].late
    BY <2>1, <2>3 DEF Entry
  <2>6. QED
    BY <1>0, <2>1, <2>4, <2>5, LateSet
<1>7. CASE ReadThread \/ Attach \/ Ingest
  <2>1. journal' = journal \/ (Failed /\ pc \in Reading)
    BY <1>7 DEF ReadThread, Attach, Ingest, Reading
  <2>2. QED
    BY <1>1, <1>3, <2>1
<1>8. \/ journal' = journal
      \/ Lease \/ ReadThread \/ Attach \/ Ingest \/ MarkMaterialized \/ MarkDiverted
      \/ \E m \in inbox : Post(m)
      \/ \E i \in DOMAIN journal : Expire(i)
  BY DEF Next, Work, Write, Confirm, Switch, WindowPasses, IntervalPasses, Deploy, Crash,
         Receipt, Proof, Record, Tick, MarkStale, SendCheck, RecordCheck, Ticking,
         Recheck, OwnerTurn, Chatting
<1>9. QED
  BY <1>1, <1>2, <1>4, <1>5, <1>6, <1>7, <1>8

-----------------------------------------------------------------------------
LEMMA EarnedInit == Init => Earned
<1> SUFFICES ASSUME Init PROVE Earned
  OBVIOUS
<1>1. IInv
  BY InitInv
<1>2. overdue \in [Rev -> SUBSET Int]
  BY DEF Init
<1>3. ASSUME NEW r \in Rev PROVE Tally(fwd[r], overdue[r], day)
  <2>1. fwd[r] = Pending /\ overdue[r] = {} /\ day = 1
    BY DEF Init
  <2>2. IsFiniteSet({}) /\ Cardinality({}) = 0
    BY FS_EmptySet
  <2>3. MaxCheck \in Nat /\ Token(1, 0) \in Int /\ 0 <= Token(1, 0)
    BY RelayAssumption DEF Token
  <2>4. /\ Pending.token = 0 /\ Pending.attempts = 0 /\ Pending.misses = 0
        /\ Pending.age = "none"
    BY DEF Pending
  <2>5. ~Missed(Pending)
    BY <2>4 DEF Missed
  <2>6. Tally(Pending, {}, 1)
    BY <2>2, <2>3, <2>4, <2>5 DEF Tally
  <2>7. QED
    BY <2>1, <2>6
<1>4. StaleOK /\ LateOK
  BY DEF Init, StaleOK, LateOK
<1>5. QED
  BY <1>1, <1>2, <1>3, <1>4 DEF Earned, Tallies

LEMMA EarnedStep == Earned /\ [Next]_vars => Earned'
BY StepInv, TalliesStep, StaleStep, LateStep DEF Earned

LEMMA EarnedInvariant == Spec => []Earned
<1>1. QED
  BY EarnedInit, EarnedStep, PTL DEF Spec

\* Only mark_stale and a proof write the state of a health row.
LEMMA StateWriters ==
  ASSUME IInv, Next, NEW r \in Rev, fwd'[r].state # fwd[r].state
  PROVE  \/ MarkStale /\ r = rev
         \/ Proof /\ r = Held.rev /\ fwd'[r].state = "active"
         \/ /\ Record /\ r = Held.rev /\ fwd'[r].state = "active"
            /\ Held.msg.kind = "check" /\ Returns(fwd[r], row)
<1>0. /\ rev \in Rev /\ fwd[rev] \in Health /\ fwd[r] \in Health
      /\ fwd \in [Rev -> Health]
  BY DEF IInv, Types
<1>1. \/ WindowPasses \/ IntervalPasses
      \/ Tick \/ MarkStale \/ RecordCheck \/ Recheck \/ OwnerTurn \/ Proof \/ Record
  BY HealthWriters
<1>2. CASE WindowPasses \/ IntervalPasses
  BY <1>0, <1>2 DEF WindowPasses, IntervalPasses, Health
<1>3. CASE Tick \/ RecordCheck
  <2>1. \/ fwd' = fwd
        \/ fwd' = [fwd EXCEPT ![rev] = Counted(fwd[rev])]
        \/ fwd' = [fwd EXCEPT ![rev] = CheckSent(fwd[rev], NextToken)]
    BY <1>3 DEF Tick, RecordCheck
  <2>2. Counted(fwd[rev]).state = fwd[rev].state
    BY <1>0 DEF Counted, Health
  <2>3. CheckSent(fwd[rev], NextToken).state = fwd[rev].state
    BY <1>0 DEF CheckSent, Health
  <2>4. QED
    BY <1>0, <2>1, <2>2, <2>3
<1>4. CASE Recheck \/ OwnerTurn
  BY <1>0, <1>4 DEF Recheck, OwnerTurn, Health
<1>5. CASE MarkStale
  BY <1>0, <1>5 DEF MarkStale
<1>6. ASSUME NEW q \in Rev, NEW t, Proved(q, t) PROVE r = q /\ fwd'[r].state = "active"
  BY <1>0, <1>6 DEF Proved, Active, Health
<1>7. CASE Proof
  <2>1. Held.rev \in Rev
    BY <1>7, HeldEntry DEF Proof, Reading
  <2>2. QED
    BY <1>6, <1>7, <2>1 DEF Proof
<1>8. CASE Record
  <2>1. Held.rev \in Rev
    BY <1>8, HeldEntry DEF Record, Reading
  <2>2. PICK q \in Rev : q = Held.rev
    BY <2>1
  <2>3. CASE fwd' = [fwd EXCEPT ![q] = Linked(fwd[q], Held.msg.n)]
    BY <1>0, <2>3 DEF Linked, Health
  <2>4. CASE fwd' = fwd
    BY <2>4
  <2>5. CASE Held.msg.kind = "check" /\ Returns(fwd[q], row) /\ Proved(q, Held.msg.n)
    BY <1>6, <1>8, <2>2, <2>5
  <2>6. QED
    BY <1>8, <2>2, <2>3, <2>4, <2>5 DEF Record
<1>9. QED
  BY <1>1, <1>2, <1>3, <1>4, <1>5, <1>7, <1>8

\* Forwarding is declared stale only over different checks that missed their
\* window since the last proof, and only a letter or a check that was back in
\* time ends it (tick, mark_stale, mark_active, record_check_return), whatever
\* crashes, deploys and late or repeated webhooks come between.
THEOREM StaleForwardingIsEarned == Spec => StaleIsEarned
<1> DEFINE Fair == \A r \in Rev :
             /\ fwd[r].state # "stale" /\ fwd'[r].state = "stale"
                => Cardinality(overdue[r]) >= StaleAfterMisses
             /\ fwd[r].state = "stale" /\ fwd'[r].state # "stale"
                => Held.rev = r /\ ~Held.late /\ Held.msg.kind # "confirmation"
<1>1. ASSUME Earned, Next, NEW r \in Rev
      PROVE  /\ fwd[r].state # "stale" /\ fwd'[r].state = "stale"
                 => Cardinality(overdue[r]) >= StaleAfterMisses
             /\ fwd[r].state = "stale" /\ fwd'[r].state # "stale"
                 => Held.rev = r /\ ~Held.late /\ Held.msg.kind # "confirmation"
  <2> SUFFICES ASSUME fwd'[r].state # fwd[r].state
               PROVE  \/ /\ fwd'[r].state = "stale"
                         /\ Cardinality(overdue[r]) >= StaleAfterMisses
                      \/ /\ fwd'[r].state # "stale"
                         /\ Held.rev = r /\ ~Held.late /\ Held.msg.kind # "confirmation"
    OBVIOUS
  <2>0. IInv /\ StaleOK /\ LateOK
    BY <1>1 DEF Earned
  <2>1. CASE MarkStale /\ r = rev
    <3>1. Cardinality(overdue[r]) >= StaleAfterMisses
      BY <2>0, <2>1 DEF StaleOK, MarkStale
    <3>2. fwd'[r].state = "stale"
      BY <1>1, <2>0, <2>1 DEF MarkStale, IInv, Types, Health
    <3>3. QED
      BY <3>1, <3>2
  <2>2. CASE Proof /\ r = Held.rev /\ fwd'[r].state = "active"
    <3>1. Held.msg.kind = "letter" /\ row \in DOMAIN journal
      BY <2>0, <2>2 DEF Proof, IInv, HandOK, Reading
    <3>2. ~Held.late
      BY <2>0, <3>1 DEF LateOK, Held
    <3>3. QED
      BY <2>2, <3>1, <3>2
  <2>3. CASE /\ Record /\ r = Held.rev /\ fwd'[r].state = "active"
             /\ Held.msg.kind = "check" /\ Returns(fwd[r], row)
    BY <2>3 DEF Returns, Held
  <2>4. QED
    BY <1>1, <2>0, <2>1, <2>2, <2>3, StateWriters
<1>2. Earned /\ [Next]_vars => [Fair]_vars
  BY <1>1
<1>3. QED
  BY <1>2, EarnedInvariant, PTL DEF Spec, StaleIsEarned
=============================================================================
