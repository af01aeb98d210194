-------------------------- MODULE EventQueueProofs --------------------------
(***************************************************************************)
(* Proofs about the durable ingress, for any letters, threads, workers,    *)
(* receivers, limits and plans.                                            *)
(***************************************************************************)
EXTENDS EventQueue, FiniteSetTheorems, TLAPS

USE DEF store, world, workers, receivers, counters, vars

-----------------------------------------------------------------------------
(* The inductive invariant *)

\* At work on a row that is still there.
AtWork(w) == pc[w] # "idle" /\ w \notin gone

\* What a worker has passed is recorded of its letter, unless it was erased.
HandOK(w) ==
  /\ pc[w] = "idle" => w \notin gone /\ job[w] = NoLetter
  /\ pc[w] # "idle" => job[w] \in Letter
  /\ AtWork(w) =>
       /\ status[job[w]] # "absent"
       /\ pc[w] \in {"send", "finish"} => job[w] \in Plain \/ cards[job[w]] > 0
       /\ pc[w] = "finish" => job[w] \in shown

LetterOK(e) ==
  /\ cards[e] > 0 \/ e \in shown => status[e] # "absent"
  /\ status[e] = "done" => e \in shown /\ (e \in Plain \/ cards[e] > 0)

\* A worker that the erasure found about to send sends once more, and no other.
LateOK(w) ==
  /\ late[w] > 0 => w \in caught /\ late[w] = 1 /\ erased
  /\ w \in gone => erased
  /\ w \in gone /\ pc[w] = "send" => w \in caught /\ late[w] = 0

\* After the erasure a receiver has a letter in hand, or has inserted one.
Present == {e \in Letter : status[e] # "absent"}
Inserting == {r \in Receiver : hand[r] # NoLetter}
ErasedOK ==
  erased => /\ IsFiniteSet(Present)
            /\ Cardinality(Present) + Cardinality(Inserting) <= Cardinality(Receiver)

\* While leases outlast their handlers, a letter at work is leased, and to one.
LeaseOK(w) ==
  Orderly /\ AtWork(w) =>
    /\ status[job[w]] = "processing" /\ job[w] \in live
    /\ \A v \in Worker : AtWork(v) /\ job[v] = job[w] => v = w

\* With one receiver nothing older is still to be inserted, and nothing of the
\* thread that is older than a letter at work is still to be handled.
OneReceiver == \A r, s \in Receiver : r = s
ClockOK ==
  OneReceiver =>
    /\ \A e \in Letter : since[e] <= clock
    /\ \A r \in Receiver : hand[r] # NoLetter => stamp[r] = clock
Older(d, e) == Context[d] = Context[e] /\ Context[e] # NoContext /\ since[d] < since[e]
ThreadOK(w) ==
  OneReceiver /\ Orderly /\ AtWork(w) =>
    \A d \in Letter : Older(d, job[w]) => status[d] \in {"absent", "done", "dlq"}

IInv ==
  /\ TypeOK
  /\ \A w \in Worker : HandOK(w) /\ LateOK(w) /\ LeaseOK(w) /\ ThreadOK(w)
  /\ \A e \in Letter : LetterOK(e)
  /\ ErasedOK
  /\ ClockOK

-----------------------------------------------------------------------------
LEMMA PlanTypes ==
  ASSUME NEW p \in Plans
  PROVE  /\ p.letters \subseteq Letter /\ p.overrun \in BOOLEAN
         /\ p.receipts \in Nat /\ p.replays \in Nat
BY BoundsAssumption

LEMMA InitInv == Init => IInv
<1> SUFFICES ASSUME Init PROVE IInv
  OBVIOUS
<1>1. TypeOK
  <2>1. plan.receipts \in Nat /\ plan.replays \in Nat
    BY PlanTypes DEF Init
  <2>2. 0 \in 0..plan.receipts /\ 0 \in 0..plan.replays /\ 0 \in 0..MaxCrashes
    BY <2>1, BoundsAssumption
  <2>3. QED
    BY <2>2 DEF Init, TypeOK
<1>2. ASSUME NEW w \in Worker PROVE HandOK(w) /\ LateOK(w) /\ LeaseOK(w) /\ ThreadOK(w)
  BY DEF Init, HandOK, LateOK, LeaseOK, ThreadOK, AtWork
<1>3. ASSUME NEW e \in Letter PROVE LetterOK(e)
  BY DEF Init, LetterOK
<1>4. ErasedOK /\ ClockOK
  BY DEF Init, ErasedOK, ClockOK
<1>5. QED
  BY <1>1, <1>2, <1>3, <1>4 DEF IInv

-----------------------------------------------------------------------------
(* Types *)

LEMMA TypeStep ==
  ASSUME TypeOK, \A w \in Worker : HandOK(w), [Next]_vars
  PROVE  TypeOK'
<1> USE PlanTypes, BoundsAssumption, LettersAssumption DEF TypeOK, Working
<1>1. ASSUME NEW r \in Receiver, Insert(r) PROVE TypeOK'
  BY <1>1 DEF Insert, IsNew
<1>2. ASSUME NEW r \in Receiver, NEW e \in plan.letters, Receive(r, e) PROVE TypeOK'
  BY <1>2 DEF Receive
<1>3. ASSUME NEW w \in Worker, Lease(w) PROVE TypeOK'
  BY <1>3 DEF Lease, Available
<1>4. ASSUME NEW w \in Worker, Extract(w) PROVE TypeOK'
  BY <1>4 DEF Extract
<1>5. ASSUME NEW w \in Worker, StageCard(w) PROVE TypeOK'
  BY <1>5 DEF StageCard, HandOK
<1>6. ASSUME NEW w \in Worker, SendCard(w) PROVE TypeOK'
  BY <1>6 DEF SendCard, HandOK
<1>7. ASSUME NEW w \in Worker, MarkDone(w) PROVE TypeOK'
  BY <1>7 DEF MarkDone, Handled, Release, DropLease, HandOK
<1>8. ASSUME NEW w \in Worker, MarkFailed(w) PROVE TypeOK'
  BY <1>8 DEF MarkFailed, Counted, Release, DropLease, HandOK
<1>9. ASSUME NEW w \in Worker, Crash(w) PROVE TypeOK'
  BY <1>9 DEF Crash, Release
<1>10. ASSUME NEW e \in Letter, LeaseEnds(e) PROVE TypeOK'
  BY <1>10 DEF LeaseEnds
<1>11. ASSUME NEW e \in Letter, Replay(e) PROVE TypeOK'
  BY <1>11 DEF Replay, DropLease
<1>12. CASE Erase
  BY <1>12 DEF Erase
<1>13. CASE UNCHANGED vars
  BY <1>13
<1>14. QED
  BY <1>1, <1>2, <1>3, <1>4, <1>5, <1>6, <1>7, <1>8, <1>9, <1>10, <1>11, <1>12, <1>13
     DEF Next, Step

-----------------------------------------------------------------------------
(* What a worker has passed, and what a letter has behind it *)

\* A worker stands where it stood, and its letter has lost nothing.
Stays(w) ==
  /\ pc'[w] = pc[w] /\ job'[w] = job[w]
  /\ w \in gone <=> w \in gone'
  /\ AtWork(w) => /\ status'[job[w]] # "absent"
                  /\ cards'[job[w]] >= cards[job[w]]
                  /\ job[w] \in shown => job[w] \in shown'

LEMMA StaysOK ==
  ASSUME TypeOK, TypeOK', NEW w \in Worker, HandOK(w), Stays(w)
  PROVE  HandOK(w)'
BY DEF TypeOK, HandOK, AtWork, Stays

LEMMA HandStep ==
  ASSUME TypeOK, TypeOK', NEW u \in Worker, \A w \in Worker : HandOK(w), [Next]_vars
  PROVE  HandOK(u)'
<1> USE LettersAssumption DEF TypeOK
<1>a. HandOK(u)
  OBVIOUS
<1>b. Stays(u) => HandOK(u)'
  BY StaysOK
<1>c. AtWork(u) => job[u] \in Letter /\ status[job[u]] # "absent"
  BY DEF HandOK, AtWork
<1>1. ASSUME NEW r \in Receiver, Insert(r) PROVE HandOK(u)'
  BY <1>1, <1>b, <1>c DEF Insert, IsNew, Stays, AtWork
<1>2. ASSUME NEW r \in Receiver, NEW e \in plan.letters, Receive(r, e) PROVE HandOK(u)'
  BY <1>2, <1>b, <1>c DEF Receive, Stays
<1>3. ASSUME NEW w \in Worker, Lease(w) PROVE HandOK(u)'
  <2>1. CASE u = w
    BY <1>3, <2>1, <1>a DEF Lease, Available, HandOK, AtWork
  <2>2. CASE u # w
    BY <1>3, <2>2, <1>b, <1>c DEF Lease, Stays
  <2>3. QED
    BY <2>1, <2>2
<1>4. ASSUME NEW w \in Worker, Extract(w) PROVE HandOK(u)'
  <2>1. CASE u = w
    BY <1>4, <2>1, <1>a DEF Extract, HandOK, AtWork, RowThere
  <2>2. CASE u # w
    BY <1>4, <2>2, <1>b, <1>c DEF Extract, Stays
  <2>3. QED
    BY <2>1, <2>2
<1>5. ASSUME NEW w \in Worker, StageCard(w) PROVE HandOK(u)'
  <2>1. CASE u = w
    BY <1>5, <2>1, <1>a DEF StageCard, HandOK, AtWork, RowThere
  <2>2. CASE u # w
    BY <1>5, <2>2, <1>b, <1>c DEF StageCard, Stays, HandOK
  <2>3. QED
    BY <2>1, <2>2
<1>6. ASSUME NEW w \in Worker, SendCard(w) PROVE HandOK(u)'
  <2>1. CASE u = w
    BY <1>6, <2>1, <1>a DEF SendCard, HandOK, AtWork, RowThere
  <2>2. CASE u # w
    BY <1>6, <2>2, <1>b, <1>c DEF SendCard, Stays
  <2>3. QED
    BY <2>1, <2>2
<1>7. ASSUME NEW w \in Worker, MarkDone(w) PROVE HandOK(u)'
  <2>1. CASE u = w
    BY <1>7, <2>1, <1>a DEF MarkDone, Release, HandOK, AtWork
  <2>2. CASE u # w
    BY <1>7, <2>2, <1>b, <1>c DEF MarkDone, Release, Stays, HandOK
  <2>3. QED
    BY <2>1, <2>2
<1>8. ASSUME NEW w \in Worker, MarkFailed(w) PROVE HandOK(u)'
  <2>1. CASE u = w
    BY <1>8, <2>1, <1>a DEF MarkFailed, Release, HandOK, AtWork
  <2>2. CASE u # w
    BY <1>8, <2>2, <1>b, <1>c DEF MarkFailed, Release, Stays, HandOK
  <2>3. QED
    BY <2>1, <2>2
<1>9. ASSUME NEW w \in Worker, Crash(w) PROVE HandOK(u)'
  <2>1. CASE u = w
    BY <1>9, <2>1, <1>a DEF Crash, Release, HandOK, AtWork
  <2>2. CASE u # w
    BY <1>9, <2>2, <1>b, <1>c DEF Crash, Release, Stays
  <2>3. QED
    BY <2>1, <2>2
<1>10. ASSUME NEW e \in Letter, LeaseEnds(e) PROVE HandOK(u)'
  BY <1>10, <1>b, <1>c DEF LeaseEnds, Stays
<1>11. ASSUME NEW e \in Letter, Replay(e) PROVE HandOK(u)'
  BY <1>11, <1>b, <1>c DEF Replay, Stays
<1>12. CASE Erase
  BY <1>12, <1>a DEF Erase, HandOK, AtWork
<1>13. CASE UNCHANGED vars
  BY <1>13, <1>b, <1>c DEF Stays
<1>14. QED
  BY <1>1, <1>2, <1>3, <1>4, <1>5, <1>6, <1>7, <1>8, <1>9, <1>10, <1>11, <1>12, <1>13
     DEF Next, Step

LEMMA LetterStep ==
  ASSUME TypeOK, TypeOK', NEW x \in Letter, LetterOK(x),
         \A w \in Worker : HandOK(w), [Next]_vars
  PROVE  LetterOK(x)'
<1> USE LettersAssumption DEF TypeOK, LetterOK
<1>1. ASSUME NEW r \in Receiver, Insert(r) PROVE LetterOK(x)'
  BY <1>1 DEF Insert, IsNew
<1>2. ASSUME NEW r \in Receiver, NEW e \in plan.letters, Receive(r, e) PROVE LetterOK(x)'
  BY <1>2 DEF Receive
<1>3. ASSUME NEW w \in Worker, Lease(w) PROVE LetterOK(x)'
  BY <1>3 DEF Lease, Available
<1>4. ASSUME NEW w \in Worker, Extract(w) PROVE LetterOK(x)'
  BY <1>4 DEF Extract
<1>5. ASSUME NEW w \in Worker, StageCard(w) PROVE LetterOK(x)'
  BY <1>5 DEF StageCard, RowThere, HandOK, AtWork
<1>6. ASSUME NEW w \in Worker, SendCard(w) PROVE LetterOK(x)'
  BY <1>6 DEF SendCard, RowThere, HandOK, AtWork
<1>7. ASSUME NEW w \in Worker, MarkDone(w) PROVE LetterOK(x)'
  BY <1>7 DEF MarkDone, Handled, RowThere, HandOK, AtWork
<1>8. ASSUME NEW w \in Worker, MarkFailed(w) PROVE LetterOK(x)'
  BY <1>8 DEF MarkFailed, RowThere, HandOK, AtWork
<1>9. ASSUME NEW w \in Worker, Crash(w) PROVE LetterOK(x)'
  BY <1>9 DEF Crash
<1>10. ASSUME NEW e \in Letter, LeaseEnds(e) PROVE LetterOK(x)'
  BY <1>10 DEF LeaseEnds
<1>11. ASSUME NEW e \in Letter, Replay(e) PROVE LetterOK(x)'
  BY <1>11 DEF Replay
<1>12. CASE Erase
  BY <1>12 DEF Erase
<1>13. CASE UNCHANGED vars
  BY <1>13
<1>14. QED
  BY <1>1, <1>2, <1>3, <1>4, <1>5, <1>6, <1>7, <1>8, <1>9, <1>10, <1>11, <1>12, <1>13
     DEF Next, Step

-----------------------------------------------------------------------------
(* The erasure *)

\* Only a receiver adds a row, and gives away its letter for it.
SameRows == Present' = Present /\ Inserting' = Inserting /\ erased' = erased

LEMMA ErasedStep ==
  ASSUME TypeOK, TypeOK', \A w \in Worker : HandOK(w), ErasedOK, [Next]_vars
  PROVE  ErasedOK'
<1> USE LettersAssumption DEF TypeOK
<1>a. SameRows => ErasedOK'
  BY DEF SameRows, ErasedOK
<1>b. IsFiniteSet(Inserting) /\ Cardinality(Inserting) <= Cardinality(Receiver)
      /\ Cardinality(Inserting) \in Nat
  <2>1. Inserting \subseteq Receiver
    BY DEF Inserting
  <2>2. QED
    BY <2>1, ReceiverAssumption, FS_Subset, FS_CardinalityType
<1>c. ASSUME NEW w \in Worker, AtWork(w) PROVE job[w] \in Letter /\ status[job[w]] # "absent"
  BY <1>c DEF HandOK, AtWork
<1>1. ASSUME NEW r \in Receiver, Insert(r) PROVE ErasedOK'
  <2> SUFFICES ASSUME erased
               PROVE  IsFiniteSet(Present') /\ Cardinality(Present')
                        + Cardinality(Inserting') <= Cardinality(Receiver)
    BY <1>1 DEF ErasedOK, Insert
  <2>1. IsFiniteSet(Present) /\ Cardinality(Present) \in Nat
        /\ Cardinality(Present) + Cardinality(Inserting) <= Cardinality(Receiver)
    BY FS_CardinalityType DEF ErasedOK
  <2>2. r \in Inserting /\ Inserting' = Inserting \ {r}
    BY <1>1 DEF Insert, Inserting
  <2>3. Cardinality(Inserting') = Cardinality(Inserting) - 1
    BY <2>2, <1>b, FS_RemoveElement
  <2>4. Present' = Present \/ Present' = Present \cup {hand[r]}
    BY <1>1 DEF Insert, IsNew, Present
  <2>5. IsFiniteSet(Present') /\ Cardinality(Present') <= Cardinality(Present) + 1
        /\ Cardinality(Present') \in Nat
    <3>1. CASE Present' = Present
      BY <2>1, <3>1
    <3>2. CASE Present' = Present \cup {hand[r]}
      <4>1. IsFiniteSet(Present \cup {hand[r]})
            /\ Cardinality(Present \cup {hand[r]}) =
                 IF hand[r] \in Present THEN Cardinality(Present) ELSE Cardinality(Present) + 1
        BY <2>1, FS_AddElement, Zenon
      <4>2. QED
        BY <2>1, <3>2, <4>1
    <3>3. QED
      BY <2>4, <3>1, <3>2
  <2>6. Cardinality(Receiver) \in Nat
    BY ReceiverAssumption, FS_CardinalityType
  <2>7. QED
    BY <2>1, <2>3, <2>5, <2>6, <1>b
<1>2. ASSUME NEW r \in Receiver, NEW e \in plan.letters, Receive(r, e) PROVE ErasedOK'
  BY <1>2 DEF Receive, Open, ErasedOK
<1>3. ASSUME NEW w \in Worker, Lease(w) PROVE ErasedOK'
  BY <1>3, <1>a DEF Lease, Available, SameRows, Present, Inserting
<1>4. ASSUME NEW w \in Worker, Extract(w) PROVE ErasedOK'
  BY <1>4, <1>a DEF Extract, SameRows, Present, Inserting
<1>5. ASSUME NEW w \in Worker, StageCard(w) PROVE ErasedOK'
  BY <1>5, <1>a DEF StageCard, SameRows, Present, Inserting
<1>6. ASSUME NEW w \in Worker, SendCard(w) PROVE ErasedOK'
  BY <1>6, <1>a DEF SendCard, SameRows, Present, Inserting
<1>7. ASSUME NEW w \in Worker, MarkDone(w) PROVE ErasedOK'
  BY <1>7, <1>a, <1>c DEF MarkDone, Handled, RowThere, AtWork, SameRows, Present, Inserting
<1>8. ASSUME NEW w \in Worker, MarkFailed(w) PROVE ErasedOK'
  BY <1>8, <1>a, <1>c DEF MarkFailed, RowThere, AtWork, SameRows, Present, Inserting
<1>9. ASSUME NEW w \in Worker, Crash(w) PROVE ErasedOK'
  BY <1>9, <1>a DEF Crash, SameRows, Present, Inserting
<1>10. ASSUME NEW e \in Letter, LeaseEnds(e) PROVE ErasedOK'
  BY <1>10, <1>a DEF LeaseEnds, SameRows, Present, Inserting
<1>11. ASSUME NEW e \in Letter, Replay(e) PROVE ErasedOK'
  BY <1>11, <1>a DEF Replay, SameRows, Present, Inserting
<1>12. CASE Erase
  <2>1. Present' = {} /\ Inserting' = Inserting
    BY <1>12 DEF Erase, Present, Inserting
  <2>2. IsFiniteSet(Present') /\ Cardinality(Present') = 0
    BY <2>1, FS_EmptySet
  <2>3. QED
    BY <2>1, <2>2, <1>b DEF ErasedOK
<1>13. CASE UNCHANGED vars
  BY <1>13, <1>a DEF SameRows, Present, Inserting
<1>14. QED
  BY <1>1, <1>2, <1>3, <1>4, <1>5, <1>6, <1>7, <1>8, <1>9, <1>10, <1>11, <1>12, <1>13
     DEF Next, Step

LEMMA LateStep ==
  ASSUME TypeOK, TypeOK', NEW u \in Worker, HandOK(u), LateOK(u), [Next]_vars
  PROVE  LateOK(u)'
<1> USE DEF TypeOK, LateOK
<1>1. ASSUME NEW r \in Receiver, Insert(r) PROVE LateOK(u)'
  BY <1>1 DEF Insert
<1>2. ASSUME NEW r \in Receiver, NEW e \in plan.letters, Receive(r, e) PROVE LateOK(u)'
  BY <1>2 DEF Receive
<1>3. ASSUME NEW w \in Worker, Lease(w) PROVE LateOK(u)'
  BY <1>3 DEF Lease, HandOK
<1>4. ASSUME NEW w \in Worker, Extract(w) PROVE LateOK(u)'
  BY <1>4 DEF Extract, RowThere
<1>5. ASSUME NEW w \in Worker, StageCard(w) PROVE LateOK(u)'
  BY <1>5 DEF StageCard, RowThere
<1>6. ASSUME NEW w \in Worker, SendCard(w) PROVE LateOK(u)'
  BY <1>6 DEF SendCard, RowThere
<1>7. ASSUME NEW w \in Worker, MarkDone(w) PROVE LateOK(u)'
  BY <1>7 DEF MarkDone, Handled, Release
<1>8. ASSUME NEW w \in Worker, MarkFailed(w) PROVE LateOK(u)'
  BY <1>8 DEF MarkFailed, Release
<1>9. ASSUME NEW w \in Worker, Crash(w) PROVE LateOK(u)'
  BY <1>9 DEF Crash, Release
<1>10. ASSUME NEW e \in Letter, LeaseEnds(e) PROVE LateOK(u)'
  BY <1>10 DEF LeaseEnds
<1>11. ASSUME NEW e \in Letter, Replay(e) PROVE LateOK(u)'
  BY <1>11 DEF Replay
<1>12. CASE Erase
  BY <1>12 DEF Erase
<1>13. CASE UNCHANGED vars
  BY <1>13
<1>14. QED
  BY <1>1, <1>2, <1>3, <1>4, <1>5, <1>6, <1>7, <1>8, <1>9, <1>10, <1>11, <1>12, <1>13
     DEF Next, Step

-----------------------------------------------------------------------------
(* Order *)

LEMMA LeaseStep ==
  ASSUME TypeOK, TypeOK', NEW u \in Worker,
         \A w \in Worker : HandOK(w) /\ LeaseOK(w), [Next]_vars
  PROVE  LeaseOK(u)'
<1> USE LettersAssumption DEF TypeOK
<1>1. ASSUME NEW r \in Receiver, Insert(r) PROVE LeaseOK(u)'
  BY <1>1 DEF Insert, IsNew, LeaseOK, HandOK, AtWork, Orderly
<1>2. ASSUME NEW r \in Receiver, NEW e \in plan.letters, Receive(r, e) PROVE LeaseOK(u)'
  BY <1>2 DEF Receive, LeaseOK, HandOK, AtWork, Orderly
<1>3. ASSUME NEW w \in Worker, Lease(w) PROVE LeaseOK(u)'
  BY <1>3 DEF Lease, Available, LeaseOK, HandOK, AtWork, Orderly
<1>4. ASSUME NEW w \in Worker, Extract(w) PROVE LeaseOK(u)'
  BY <1>4 DEF Extract, LeaseOK, HandOK, AtWork, Orderly
<1>5. ASSUME NEW w \in Worker, StageCard(w) PROVE LeaseOK(u)'
  BY <1>5 DEF StageCard, LeaseOK, HandOK, AtWork, Orderly
<1>6. ASSUME NEW w \in Worker, SendCard(w) PROVE LeaseOK(u)'
  BY <1>6 DEF SendCard, LeaseOK, HandOK, AtWork, Orderly
<1>7. ASSUME NEW w \in Worker, MarkDone(w) PROVE LeaseOK(u)'
  BY <1>7 DEF MarkDone, Handled, RowThere, DropLease, Release, LeaseOK, HandOK, AtWork, Orderly
<1>8. ASSUME NEW w \in Worker, MarkFailed(w) PROVE LeaseOK(u)'
  BY <1>8 DEF MarkFailed, RowThere, DropLease, Release, LeaseOK, HandOK, AtWork, Orderly
<1>9. ASSUME NEW w \in Worker, Crash(w) PROVE LeaseOK(u)'
  BY <1>9 DEF Crash, Release, LeaseOK, HandOK, AtWork, Orderly
<1>10. ASSUME NEW e \in Letter, LeaseEnds(e) PROVE LeaseOK(u)'
  BY <1>10 DEF LeaseEnds, LeaseOK, HandOK, AtWork, Orderly
<1>11. ASSUME NEW e \in Letter, Replay(e) PROVE LeaseOK(u)'
  BY <1>11 DEF Replay, DropLease, LeaseOK, HandOK, AtWork, Orderly
<1>12. CASE Erase
  BY <1>12 DEF Erase, LeaseOK, HandOK, AtWork, Orderly
<1>13. CASE UNCHANGED vars
  BY <1>13 DEF LeaseOK, HandOK, AtWork, Orderly
<1>14. QED
  BY <1>1, <1>2, <1>3, <1>4, <1>5, <1>6, <1>7, <1>8, <1>9, <1>10, <1>11, <1>12, <1>13
     DEF Next, Step

LEMMA ClockStep ==
  ASSUME TypeOK, TypeOK', ClockOK, \A w \in Worker : HandOK(w), [Next]_vars
  PROVE  ClockOK'
<1> USE LettersAssumption, PlanTypes DEF TypeOK
<1>1. ASSUME NEW r \in Receiver, Insert(r) PROVE ClockOK'
  BY <1>1 DEF Insert, IsNew, ClockOK, OneReceiver
<1>2. ASSUME NEW r \in Receiver, NEW e \in plan.letters, Receive(r, e) PROVE ClockOK'
  BY <1>2 DEF Receive, ClockOK, OneReceiver
<1>3. ASSUME NEW w \in Worker, Lease(w) PROVE ClockOK'
  BY <1>3 DEF Lease, Available, ClockOK, OneReceiver
<1>4. ASSUME NEW w \in Worker, Extract(w) PROVE ClockOK'
  BY <1>4 DEF Extract, ClockOK, OneReceiver
<1>5. ASSUME NEW w \in Worker, StageCard(w) PROVE ClockOK'
  BY <1>5 DEF StageCard, ClockOK, OneReceiver
<1>6. ASSUME NEW w \in Worker, SendCard(w) PROVE ClockOK'
  BY <1>6 DEF SendCard, ClockOK, OneReceiver
<1>7. ASSUME NEW w \in Worker, MarkDone(w) PROVE ClockOK'
  BY <1>7 DEF MarkDone, Handled, RowThere, DropLease, Release, ClockOK, OneReceiver
<1>8. ASSUME NEW w \in Worker, MarkFailed(w) PROVE ClockOK'
  BY <1>8 DEF MarkFailed, RowThere, DropLease, Release, ClockOK, OneReceiver
<1>9. ASSUME NEW w \in Worker, Crash(w) PROVE ClockOK'
  BY <1>9 DEF Crash, Release, ClockOK, OneReceiver
<1>10. ASSUME NEW e \in Letter, LeaseEnds(e) PROVE ClockOK'
  BY <1>10 DEF LeaseEnds, ClockOK, OneReceiver
<1>11. ASSUME NEW e \in Letter, Replay(e) PROVE ClockOK'
  BY <1>11 DEF Replay, DropLease, ClockOK, OneReceiver
<1>12. CASE Erase
  BY <1>12 DEF Erase, ClockOK, OneReceiver
<1>13. CASE UNCHANGED vars
  BY <1>13 DEF ClockOK, OneReceiver
<1>14. QED
  BY <1>1, <1>2, <1>3, <1>4, <1>5, <1>6, <1>7, <1>8, <1>9, <1>10, <1>11, <1>12, <1>13
     DEF Next, Step

LEMMA ThreadStep ==
  ASSUME TypeOK, TypeOK', ClockOK, NEW u \in Worker,
         \A w \in Worker : HandOK(w) /\ LeaseOK(w) /\ ThreadOK(w), [Next]_vars
  PROVE  ThreadOK(u)'
<1> USE LettersAssumption, PlanTypes DEF TypeOK
<1>1. ASSUME NEW r \in Receiver, Insert(r) PROVE ThreadOK(u)'
  BY <1>1 DEF Insert, IsNew, ThreadOK, HandOK, AtWork, Orderly, Older, ClockOK, OneReceiver
<1>2. ASSUME NEW r \in Receiver, NEW e \in plan.letters, Receive(r, e) PROVE ThreadOK(u)'
  BY <1>2 DEF Receive, ThreadOK, LeaseOK, HandOK, AtWork, Orderly, Older
<1>3. ASSUME NEW w \in Worker, Lease(w) PROVE ThreadOK(u)'
  BY <1>3 DEF Lease, Available, ThreadOK, LeaseOK, HandOK, AtWork, Orderly, Older, Busy
<1>4. ASSUME NEW w \in Worker, Extract(w) PROVE ThreadOK(u)'
  BY <1>4 DEF Extract, ThreadOK, LeaseOK, HandOK, AtWork, Orderly, Older
<1>5. ASSUME NEW w \in Worker, StageCard(w) PROVE ThreadOK(u)'
  BY <1>5 DEF StageCard, ThreadOK, LeaseOK, HandOK, AtWork, Orderly, Older
<1>6. ASSUME NEW w \in Worker, SendCard(w) PROVE ThreadOK(u)'
  BY <1>6 DEF SendCard, ThreadOK, LeaseOK, HandOK, AtWork, Orderly, Older
<1>7. ASSUME NEW w \in Worker, MarkDone(w) PROVE ThreadOK(u)'
  BY <1>7 DEF MarkDone, Handled, RowThere, DropLease, Release, ThreadOK, LeaseOK, HandOK, AtWork, Orderly, Older
<1>8. ASSUME NEW w \in Worker, MarkFailed(w) PROVE ThreadOK(u)'
  BY <1>8 DEF MarkFailed, RowThere, DropLease, Release, ThreadOK, LeaseOK, HandOK, AtWork, Orderly, Older
<1>9. ASSUME NEW w \in Worker, Crash(w) PROVE ThreadOK(u)'
  BY <1>9 DEF Crash, Release, ThreadOK, LeaseOK, HandOK, AtWork, Orderly, Older
<1>10. ASSUME NEW e \in Letter, LeaseEnds(e) PROVE ThreadOK(u)'
  BY <1>10 DEF LeaseEnds, ThreadOK, LeaseOK, HandOK, AtWork, Orderly, Older
<1>11. ASSUME NEW e \in Letter, Replay(e) PROVE ThreadOK(u)'
  BY <1>11 DEF Replay, DropLease, ThreadOK, LeaseOK, HandOK, AtWork, Orderly, Older
<1>12. CASE Erase
  BY <1>12 DEF Erase, ThreadOK, LeaseOK, HandOK, AtWork, Orderly, Older
<1>13. CASE UNCHANGED vars
  BY <1>13 DEF ThreadOK, LeaseOK, HandOK, AtWork, Orderly, Older
<1>14. QED
  BY <1>1, <1>2, <1>3, <1>4, <1>5, <1>6, <1>7, <1>8, <1>9, <1>10, <1>11, <1>12, <1>13
     DEF Next, Step

-----------------------------------------------------------------------------
LEMMA StepInv == IInv /\ [Next]_vars => IInv'
<1> SUFFICES ASSUME IInv, [Next]_vars PROVE IInv'
  OBVIOUS
<1>1. TypeOK'
  BY TypeStep DEF IInv
<1>2. ASSUME NEW w \in Worker PROVE (HandOK(w) /\ LateOK(w) /\ LeaseOK(w) /\ ThreadOK(w))'
  BY <1>1, HandStep, LateStep, LeaseStep, ThreadStep DEF IInv
<1>3. ASSUME NEW e \in Letter PROVE LetterOK(e)'
  BY <1>1, LetterStep DEF IInv
<1>4. ErasedOK' /\ ClockOK'
  BY <1>1, ErasedStep, ClockStep DEF IInv
<1>5. QED
  BY <1>1, <1>2, <1>3, <1>4 DEF IInv

LEMMA Inductive == Spec => []IInv
BY InitInv, StepInv, PTL DEF Spec

\* Every variable of the queue keeps its type (core/events.py, ingest/worker.py).
THEOREM TypeCorrect == Spec => []TypeOK
<1>1. IInv => TypeOK
  BY DEF IInv
<1>2. QED
  BY <1>1, Inductive, PTL

\* A letter is marked done only when the family was shown it and, unless it asks
\* for nothing, when a card was staged for it: also when workers overtake each
\* other, die, or find the row erased (run_once, mark_done, handle_event).
THEOREM DoneMeansShown == Spec => []DoneWasShown
<1>1. IInv => DoneWasShown
  BY DEF IInv, LetterOK, DoneWasShown
<1>2. QED
  BY <1>1, Inductive, PTL

\* After wipe_household at most one letter per receiver comes back, no card is
\* staged for a letter whose row is gone, and of erased letters the family gets
\* one message more from each handler that was about to send it (handle_event).
THEOREM ErasureStays == Spec => []ErasureHolds
<1>1. ASSUME IInv PROVE ErasureHolds
  <2>1. /\ \A e \in Letter : cards[e] > 0 => status[e] # "absent"
        /\ \A w \in Worker : late[w] > 0 => w \in caught /\ late[w] = 1
    BY <1>1 DEF IInv, LetterOK, LateOK
  <2>2. ASSUME erased PROVE Cardinality(Present) <= Cardinality(Receiver)
    <3>1. IsFiniteSet(Inserting)
      BY ReceiverAssumption, FS_Subset DEF Inserting
    <3>2. /\ Cardinality(Inserting) \in Nat /\ Cardinality(Receiver) \in Nat
          /\ Cardinality(Present) \in Nat
      BY <1>1, <2>2, <3>1, ReceiverAssumption, FS_CardinalityType DEF IInv, ErasedOK
    <3>3. QED
      BY <1>1, <2>2, <3>2 DEF IInv, ErasedOK
  <2>3. QED
    BY <2>1, <2>2 DEF ErasureHolds, Present
<1>2. QED
  BY <1>1, Inductive, PTL

\* With one receiver, while leases outlast their handlers and nobody replays by
\* hand, the letters of a thread reach the family in the order they were received
\* (lease). With two, one may insert after the other what it received before it.
THEOREM ThreadsInOrder ==
  ASSUME OneReceiver
  PROVE  Spec => InOrder
<1> DEFINE Ordered == \A e, d \in Letter :
             /\ Orderly /\ cards'[e] > cards[e]
             /\ Context[d] = Context[e] /\ Context[e] # NoContext /\ since[d] < since[e]
             => status[d] \in {"absent", "done", "dlq"}
<1>1. ASSUME IInv, [Next]_vars, NEW e \in Letter, NEW d \in Letter,
             Orderly, cards'[e] > cards[e], Older(d, e)
      PROVE  status[d] \in {"absent", "done", "dlq"}
  <2>1. PICK w \in Worker : StageCard(w) /\ RowThere(w) /\ job[w] = e
    <3> USE <1>1 DEF IInv, TypeOK
    <3>1. cards' # cards /\ cards[e] \in Nat
      OBVIOUS
    <3>2. ~Erase
      BY DEF Erase
    <3>3. \E w \in Worker : StageCard(w)
      BY <3>1, <3>2 DEF Next, Step, Insert, Receive, Lease, Extract, SendCard, MarkDone,
                  MarkFailed, Crash, LeaseEnds, Replay
    <3>4. QED
      BY <3>1, <3>3 DEF StageCard
  <2>2. AtWork(w)
    BY <2>1 DEF StageCard, RowThere, AtWork
  <2>3. ThreadOK(w)
    BY <1>1 DEF IInv
  <2>4. QED
    BY <1>1, <2>1, <2>2, <2>3 DEF ThreadOK
<1>2. IInv /\ [Next]_vars => [Ordered]_cards
  BY <1>1 DEF Older
<1>3. QED
  BY <1>2, Inductive, PTL DEF Spec, InOrder

-----------------------------------------------------------------------------
(* What the queue promises *)

LEMMA PromiseInit == Init => Promise!Init
BY DEF Init, Promise!Init, place

\* A row that is waiting for a worker or at one.
Waiting(e) == status[e] \in {"received", "processing"}

LEMMA PromiseStep ==
  ASSUME IInv, [Next]_vars, Orderly
  PROVE  [Promise!Next]_(Promise!vars)
<1> USE LettersAssumption DEF IInv, TypeOK
<1> USE DEF Promise!vars
<1>a. ASSUME status' = status PROVE place' = place
  BY <1>a DEF place
<1>b. ASSUME NEW e \in Letter, NEW s \in {"absent", "received", "processing", "done", "dlq"},
             status' = [status EXCEPT ![e] = s]
      PROVE  place' = [place EXCEPT ![e] =
               CASE s = "absent" -> "unknown"
                 [] s \in {"received", "processing"} -> "waiting"
                 [] s = "done" -> "handled"
                 [] s = "dlq" -> "parked"]
  BY <1>b DEF place
<1>c. ASSUME NEW e \in Letter, Waiting(e) PROVE place[e] = "waiting"
  BY <1>c DEF place, Waiting
<1>d. ASSUME NEW w \in Worker, AtWork(w) PROVE job[w] \in Letter /\ Waiting(job[w])
  BY <1>d DEF HandOK, LeaseOK, AtWork, Waiting
<1>1. ASSUME NEW r \in Receiver, Insert(r) PROVE [Promise!Next]_(Promise!vars)
  <2>1. CASE IsNew(hand[r])
    <3>1. place[hand[r]] = "unknown"
      BY <1>1, <2>1 DEF Insert, IsNew, place
    <3>2. place' = [place EXCEPT ![hand[r]] = "waiting"]
      BY <1>1, <2>1, <1>b DEF Insert
    <3>3. Promise!Accept(hand[r])
      BY <1>1, <3>1, <3>2 DEF Insert, Promise!Accept, Promise!Move
    <3>4. QED
      BY <1>1, <3>3 DEF Insert, Promise!Next
  <2>2. CASE ~IsNew(hand[r])
    BY <1>1, <2>2, <1>a DEF Insert
  <2>3. QED
    BY <2>1, <2>2
<1>2. ASSUME NEW r \in Receiver, NEW e \in plan.letters, Receive(r, e)
      PROVE  [Promise!Next]_(Promise!vars)
  BY <1>2, <1>a DEF Receive
<1>3. ASSUME NEW w \in Worker, Lease(w) PROVE [Promise!Next]_(Promise!vars)
  <2>1. PICK e \in Letter : Waiting(e) /\ status' = [status EXCEPT ![e] = "processing"]
    BY <1>3 DEF Lease, Available, Waiting
  <2>2. place' = place
    BY <2>1, <1>b, <1>c DEF place
  <2>3. QED
    BY <1>3, <2>2 DEF Lease
<1>4. ASSUME NEW w \in Worker, Extract(w) PROVE [Promise!Next]_(Promise!vars)
  BY <1>4, <1>a DEF Extract
<1>5. ASSUME NEW w \in Worker, StageCard(w) PROVE [Promise!Next]_(Promise!vars)
  BY <1>5, <1>a DEF StageCard
<1>6. ASSUME NEW w \in Worker, SendCard(w) PROVE [Promise!Next]_(Promise!vars)
  <2>1. CASE shown' = shown
    BY <1>6, <2>1, <1>a DEF SendCard
  <2>2. CASE shown' # shown
    <3>1. AtWork(w) /\ shown' = shown \cup {job[w]}
      BY <1>6, <2>2 DEF SendCard, RowThere, AtWork
    <3>2. Promise!Show(job[w])
      BY <1>6, <3>1, <1>a, <1>c, <1>d DEF SendCard, Promise!Show
    <3>3. QED
      BY <3>1, <3>2, <1>d DEF Promise!Next
  <2>3. QED
    BY <2>1, <2>2
<1>7. ASSUME NEW w \in Worker, MarkDone(w) PROVE [Promise!Next]_(Promise!vars)
  <2>1. CASE RowThere(w)
    <3>1. AtWork(w) /\ pc[w] = "finish"
      BY <1>7, <2>1 DEF MarkDone, Handled, RowThere, AtWork
    <3>2. job[w] \in shown
      BY <3>1 DEF HandOK
    <3>3. place' = [place EXCEPT ![job[w]] = "handled"]
      BY <1>7, <2>1, <3>1, <1>b, <1>d DEF MarkDone
    <3>4. Promise!Finish(job[w])
      BY <1>7, <3>1, <3>2, <3>3, <1>c, <1>d DEF MarkDone, Promise!Finish, Promise!Move
    <3>5. QED
      BY <3>1, <3>4, <1>d DEF Promise!Next
  <2>2. CASE ~RowThere(w)
    BY <1>7, <2>2, <1>a DEF MarkDone
  <2>3. QED
    BY <2>1, <2>2
<1>8. ASSUME NEW w \in Worker, MarkFailed(w) PROVE [Promise!Next]_(Promise!vars)
  <2>1. CASE RowThere(w)
    <3>1. AtWork(w)
      BY <1>8, <2>1 DEF MarkFailed, RowThere, AtWork
    <3>2. \/ status' = [status EXCEPT ![job[w]] = "dlq"]
          \/ status' = [status EXCEPT ![job[w]] = "received"]
      BY <1>8, <2>1 DEF MarkFailed
    <3>3. CASE status' = [status EXCEPT ![job[w]] = "dlq"]
      <4>1. place' = [place EXCEPT ![job[w]] = "parked"]
        BY <3>1, <3>3, <1>b, <1>d
      <4>2. Promise!Park(job[w])
        BY <1>8, <3>1, <4>1, <1>c, <1>d DEF MarkFailed, Promise!Park, Promise!Move
      <4>3. QED
        BY <3>1, <4>2, <1>d DEF Promise!Next
    <3>4. CASE status' = [status EXCEPT ![job[w]] = "received"]
      <4>1. place' = place
        BY <3>1, <3>4, <1>b, <1>c, <1>d DEF place
      <4>2. QED
        BY <1>8, <4>1 DEF MarkFailed
    <3>5. QED
      BY <3>2, <3>3, <3>4
  <2>2. CASE ~RowThere(w)
    BY <1>8, <2>2, <1>a DEF MarkFailed
  <2>3. QED
    BY <2>1, <2>2
<1>9. ASSUME NEW w \in Worker, Crash(w) PROVE [Promise!Next]_(Promise!vars)
  BY <1>9, <1>a DEF Crash
<1>10. ASSUME NEW e \in Letter, LeaseEnds(e) PROVE [Promise!Next]_(Promise!vars)
  BY <1>10, <1>a DEF LeaseEnds
<1>11. ASSUME NEW e \in Letter, Replay(e) PROVE FALSE
  BY <1>11, PlanTypes DEF Replay, Orderly
<1>12. ASSUME Erase PROVE [Promise!Next]_(Promise!vars)
  <2>1. place' = [e \in Letter |-> "unknown"]
    BY <1>12 DEF Erase, place
  <2>2. QED
    BY <1>12, <2>1 DEF Erase, Promise!Erase, Promise!Next
<1>13. CASE UNCHANGED vars
  BY <1>13, <1>a
<1>14. QED
  BY <1>1, <1>2, <1>3, <1>4, <1>5, <1>6, <1>7, <1>8, <1>9, <1>10, <1>11, <1>12, <1>13
     DEF Next, Step

\* As long as workers do not overtake each other the queue implements Inbox: a
\* letter leaves it only when it was shown or parked (lease, mark_done,
\* mark_failed, wipe_household).
THEOREM ImplementsInbox == Spec => KeepsInbox
<1>1. IInv /\ [Next]_vars => [Orderly => Promise!Next]_(Promise!vars)
  BY PromiseStep
<1>2. QED
  BY <1>1, PromiseInit, Inductive, PTL DEF Spec, KeepsInbox
=============================================================================
