--------------------------- MODULE RemindersProofs ---------------------------
(***************************************************************************)
(* Proofs about reminders and the digest, for any reminders, processes,    *)
(* days and faults.                                                        *)
(***************************************************************************)
EXTENDS Reminders, TLAPS

USE DEF store, world, local, vars

-----------------------------------------------------------------------------
(* The inductive invariant *)

\* Nobody takes it up again.
Over(r) == status[r] \in {"done", "cancelled"}

\* A deliverer has a reminder in hand while it sends it and marks it.
HandOK(d) ==
  /\ pc[d] \in {"send", "mark"} => job[d] \in Reminder
  /\ pc[d] \notin {"send", "mark"} => job[d] = None

\* What is in hand is over, or leased from the moment it was claimed at or from
\* later on; a tick is within its own lease.
LeaseOK(d) ==
  job[d] # None =>
    /\ Over(job[d]) \/ (status[job[d]] = "delivering" /\ until[job[d]] >= moment[d] + LeaseFor)
    /\ d \in Tick => now < moment[d] + LeaseFor

\* Two hands on one reminder: the round of one of them has outlasted its lease.
PairOK(d, e) ==
  job[d] = job[e] /\ job[d] # None /\ d # e =>
    job[d] \in overtaken /\ (Outlasted(d) \/ Outlasted(e))

\* A reminder has rung once for every fault, and once more for everybody who has
\* only its mark before him; one that is over, for everybody who had it then.
OneScheduler == \A s, t \in Scheduler : s = t
Alone(K, r) == \A d, e \in K : job[d] = r /\ job[e] = r => d = e
Busy(K, place, r) == \E d \in K : job[d] = r /\ pc[d] = place
One(b) == IF b THEN 1 ELSE 0
Hands(place, r) == One(Busy(Tick, place, r)) + One(Busy(Scheduler, place, r))
Owed(r) == IF r \in overtaken THEN 2 ELSE 1
RungOK(r) ==
  IF Over(r) THEN rung[r] + Hands("send", r) <= Owed(r) + faults
             ELSE rung[r] <= Hands("mark", r) + faults

\* The former version of a reminder is over before the newer one is there.
FormerOK ==
  /\ writing # None /\ Replaces[writing] # None => Over(Replaces[writing])
  /\ \A r \in Reminder : status[r] # "absent" /\ Replaces[r] # None => Over(Replaces[r])

\* With one scheduler a day is written down before its digest is sent.
Digesting == {"read", "reserve", "compose", "post", "note"}
MomentOK(d) == (pc[d] \in Digesting => d \in Scheduler) /\ moment[d] <= now
DayOK(day) == digests[day] <= 1 /\ (digests[day] > 0 => day <= digest.day)
DigestOK(s) ==
  /\ digest.day <= Day[moment[s]]
  /\ pc[s] = "reserve" => digest.day # Day[moment[s]]
  /\ pc[s] \in {"compose", "post", "note"} => digest.day = Day[moment[s]]
  /\ pc[s] \in {"compose", "post"} => digests[Day[moment[s]]] = 0

IInv ==
  /\ TypeOK
  /\ \A d \in Deliverer : HandOK(d) /\ LeaseOK(d) /\ MomentOK(d)
  /\ \A d, e \in Deliverer : PairOK(d, e)
  /\ FormerOK
  /\ OneScheduler => /\ \A r \in Reminder : RungOK(r)
                     /\ \A day \in Days : DayOK(day)
                     /\ \A s \in Scheduler : DigestOK(s)

-----------------------------------------------------------------------------
LEMMA DayType ==
  /\ \A m \in 0..LastMoment : Day[m] \in Days /\ Day[m] \in Nat /\ Day[m] # 0
  /\ Days \subseteq Nat
BY TimeAssumption DEF Days

LEMMA DigestDay ==
  ASSUME TypeOK
  PROVE  digest.day \in Nat
<1>1. digest.day \in Days \cup {0}
  BY DEF TypeOK
<1>2. CASE digest.day \in Days
  BY <1>2, DayType
<1>3. CASE digest.day = 0
  BY <1>3
<1>4. QED
  BY <1>1, <1>2, <1>3

LEMMA InitInv == Init => IInv
<1> SUFFICES ASSUME Init PROVE IInv
  OBVIOUS
<1> USE RemindersAssumption, TimeAssumption
<1>1. TypeOK
  BY DEF Init, TypeOK
<1>2. ASSUME NEW d \in Deliverer PROVE HandOK(d) /\ LeaseOK(d) /\ MomentOK(d)
  BY DEF Init, HandOK, LeaseOK, MomentOK, Digesting
<1>3. ASSUME NEW d \in Deliverer, NEW e \in Deliverer PROVE PairOK(d, e)
  BY DEF Init, PairOK
<1>4. ASSUME NEW r \in Reminder PROVE RungOK(r)
  <2>1. rung[r] = 0 /\ faults = 0 /\ ~Over(r)
    BY DEF Init, Over
  <2>2. Hands("mark", r) \in Nat
    BY DEF Hands, One
  <2>3. QED
    BY <2>1, <2>2 DEF RungOK
<1>5. FormerOK
  BY DEF Init, FormerOK
<1>6. ASSUME NEW day \in Days PROVE DayOK(day)
  BY DEF Init, DayOK
<1>7. ASSUME NEW s \in Scheduler PROVE DigestOK(s)
  BY DEF Init, DigestOK, Deliverer
<1>8. QED
  BY <1>1, <1>2, <1>3, <1>4, <1>5, <1>6, <1>7 DEF IInv

LEMMA TypeStep ==
  ASSUME TypeOK, \A d \in Deliverer : HandOK(d), [Next]_vars
  PROVE  TypeOK'
<1> USE RemindersAssumption, TimeAssumption DEF TypeOK
<1>1. ASSUME NEW r \in Reminder, CancelFormer(r) PROVE TypeOK'
  <2>1. CASE Replaces[r] # None /\ IsActive(Replaces[r])
    <3>1. Replaces[r] \in Reminder /\ Set(Replaces[r], "cancelled")
      BY <1>1, <2>1 DEF CancelFormer
    <3>2. QED
      BY <1>1, <3>1 DEF CancelFormer, Set
  <2>2. CASE ~(Replaces[r] # None /\ IsActive(Replaces[r]))
    BY <1>1, <2>2 DEF CancelFormer
  <2>3. QED
    BY <2>1, <2>2
<1>2. CASE ClockRuns
  BY <1>2 DEF ClockRuns, HandOK
<1>3. CASE Create
  <2>1. /\ writing \in Reminder
        /\ status' = [status EXCEPT ![writing] =
                          IF status[writing] = "absent" THEN "pending" ELSE status[writing]]
        /\ writing' = None /\ until' = until
        /\ unsettled' \subseteq Reminder
        /\ UNCHANGED <<digest, world, local, overtaken>>
    BY <1>3 DEF Create
  <2>2. faults' \in 0..MaxFaults
    BY <1>3 DEF Create, Fault
  <2>3. /\ status' \in [Reminder -> {"absent", "pending", "delivering", "done", "cancelled"}]
        /\ until' \in [Reminder -> Nat]
    BY <2>1
  <2>4. QED
    BY <2>1, <2>2, <2>3
<1>4. CASE CrashWriter
  BY <1>4 DEF CrashWriter, Fault, HandOK
<1>5. ASSUME NEW d \in Deliverer, Round(d) PROVE TypeOK'
  BY <1>5 DEF Round, Goto, HandOK
<1>6. ASSUME NEW d \in Deliverer, Claim(d) PROVE TypeOK'
  <2>1. PICK r \in Due(d) : /\ status' = [status EXCEPT ![r] = "delivering"]
                            /\ until' = [until EXCEPT ![r] = Moment(d) + LeaseFor]
                            /\ job' = [job EXCEPT ![d] = r]
                            /\ overtaken' = overtaken \cup (IF InHand(r) THEN {r} ELSE {})
    BY <1>6 DEF Claim
  <2>2. r \in Reminder /\ Moment(d) \in 0..LastMoment /\ Moment(d) + LeaseFor \in Nat
    BY <2>1 DEF Due, Moment
  <2>3. /\ moment' = [moment EXCEPT ![d] = Moment(d)] /\ pc' = [pc EXCEPT ![d] = "send"]
        /\ UNCHANGED <<digest, unsettled, world, writing, faults>>
    BY <1>6 DEF Claim, Goto
  <2>4. QED
    BY <2>1, <2>2, <2>3
<1>7. ASSUME NEW d \in Deliverer, NothingDue(d) PROVE TypeOK'
  BY <1>7 DEF NothingDue, Goto, HandOK
<1>8. ASSUME NEW d \in Deliverer, Send(d) PROVE TypeOK'
  <2>1. job[d] \in Reminder /\ rung' = [rung EXCEPT ![job[d]] = rung[job[d]] + 1]
    BY <1>8 DEF Send, Reaches, HandOK
  <2>2. rung' \in [Reminder -> Nat]
    BY <2>1
  <2>3. QED
    BY <1>8, <2>2 DEF Send, Goto
<1>9. ASSUME NEW d \in Deliverer, Mark(d) PROVE TypeOK'
  BY <1>9 DEF Mark, MarkDelivered, Set, Goto, HandOK
<1>10. ASSUME NEW d \in Deliverer, SendUnknown(d) PROVE TypeOK'
  <2>1. job[d] \in Reminder
    BY <1>10 DEF SendUnknown, HandOK
  <2>2. rung' \in [Reminder -> Nat]
    <3>1. CASE rung' = rung
      BY <3>1
    <3>2. CASE rung' = [rung EXCEPT ![job[d]] = rung[job[d]] + 1]
      BY <2>1, <3>2
    <3>3. QED
      BY <1>10, <3>1, <3>2 DEF SendUnknown, Reaches
  <2>3. /\ status' \in [Reminder -> {"absent", "pending", "delivering", "done", "cancelled"}]
        /\ until' \in [Reminder -> Nat]
    <3>1. CASE d \in Scheduler
      <4>1. status' = [status EXCEPT ![job[d]] = "done"] /\ until' = [until EXCEPT ![job[d]] = 0]
        BY <1>10, <3>1 DEF SendUnknown, Set
      <4>2. QED
        BY <2>1, <4>1
    <3>2. CASE d \notin Scheduler
      BY <1>10, <3>2 DEF SendUnknown
    <3>3. QED
      BY <3>1, <3>2
  <2>4. /\ UNCHANGED <<digest, unsettled, digests, now, writing, moment, overtaken>>
        /\ pc' = [pc EXCEPT ![d] = "idle"] /\ job' = [job EXCEPT ![d] = None]
        /\ faults' \in 0..MaxFaults
    BY <1>10 DEF SendUnknown, Fault, Drop, Goto
  <2>5. QED
    BY <2>2, <2>3, <2>4
<1>11. ASSUME NEW d \in Deliverer, SendRefused(d) PROVE TypeOK'
  <2>1. /\ UNCHANGED <<store, world, writing, moment, overtaken>>
        /\ pc' = [pc EXCEPT ![d] = "idle"] /\ job' = [job EXCEPT ![d] = None]
        /\ faults' \in 0..MaxFaults
    BY <1>11 DEF SendRefused, Fault, Drop, Goto
  <2>2. QED
    BY <2>1
<1>12. ASSUME NEW d \in Deliverer, Crash(d) PROVE TypeOK'
  BY <1>12 DEF Crash, Fault, Drop, Goto, HandOK
<1>13. ASSUME NEW d \in Deliverer, ReadDigest(d) PROVE TypeOK'
  BY <1>13 DEF ReadDigest, IsNewDay, Goto, HandOK
<1>14. ASSUME NEW d \in Deliverer, Reserve(d) PROVE TypeOK'
  BY <1>14, DayType DEF Reserve, WriteDigest, Goto, HandOK
<1>15. ASSUME NEW d \in Deliverer, Compose(d) PROVE TypeOK'
  <2>1. CASE UNCHANGED store
    BY <1>15, <2>1 DEF Compose, WriteDigest, Goto
  <2>2. CASE WriteDigest(d, "failed")
    BY <1>15, <2>2, DayType DEF Compose, WriteDigest, Goto
  <2>3. QED
    BY <1>15, <2>1, <2>2 DEF Compose
<1>16. ASSUME NEW d \in Deliverer, Post(d) PROVE TypeOK'
  <2>1. digests' \in [Days -> Nat]
    <3>1. CASE digests' = [digests EXCEPT ![Day[moment[d]]] = digests[Day[moment[d]]] + 1]
      BY <3>1, DayType
    <3>2. CASE digests' = digests
      BY <3>2
    <3>3. QED
      BY <1>16, <3>1, <3>2 DEF Post
  <2>2. pc' \in [Deliverer -> {"idle", "claim", "send", "mark", "read", "reserve",
                              "compose", "post", "note"}]
    BY <1>16 DEF Post, Goto
  <2>3. UNCHANGED <<status, until, digest, unsettled>>
    BY <1>16 DEF Post
  <2>4. UNCHANGED <<rung, now, writing, job, moment, overtaken, faults>>
    BY <1>16 DEF Post
  <2>5. QED
    BY <2>1, <2>2, <2>3, <2>4
<1>17. ASSUME NEW d \in Deliverer, Note(d) PROVE TypeOK'
  BY <1>17, DayType DEF Note, WriteDigest, Goto, HandOK
<1>18. CASE UNCHANGED vars
  BY <1>18 DEF HandOK
<1>19. QED
  BY <1>1, <1>2, <1>3, <1>4, <1>5, <1>6, <1>7, <1>8, <1>9,
     <1>10, <1>11, <1>12, <1>13, <1>14, <1>15, <1>16, <1>17, <1>18
     DEF Next, Deliver, Digest

LEMMA HandStep ==
  ASSUME TypeOK, TypeOK', NEW u \in Deliverer, HandOK(u), [Next]_vars
  PROVE  HandOK(u)'
<1> USE RemindersAssumption DEF TypeOK, HandOK
<1>1. ASSUME NEW r \in Reminder, CancelFormer(r) PROVE HandOK(u)'
  BY <1>1 DEF CancelFormer, Set, IsActive
<1>2. CASE ClockRuns
  BY <1>2 DEF ClockRuns
<1>3. CASE Create
  BY <1>3 DEF Create, Fault
<1>4. CASE CrashWriter
  BY <1>4 DEF CrashWriter, Fault
<1>5. ASSUME NEW d \in Deliverer, Round(d) PROVE HandOK(u)'
  BY <1>5 DEF Round, Goto
<1>6. ASSUME NEW d \in Deliverer, Claim(d) PROVE HandOK(u)'
  BY <1>6 DEF Claim, Due, Goto
<1>7. ASSUME NEW d \in Deliverer, NothingDue(d) PROVE HandOK(u)'
  BY <1>7 DEF NothingDue, Goto
<1>8. ASSUME NEW d \in Deliverer, Send(d) PROVE HandOK(u)'
  BY <1>8 DEF Send, Reaches, Goto
<1>9. ASSUME NEW d \in Deliverer, Mark(d) PROVE HandOK(u)'
  BY <1>9 DEF Mark, MarkDelivered, Set, Goto
<1>10. ASSUME NEW d \in Deliverer, SendUnknown(d) PROVE HandOK(u)'
  BY <1>10 DEF SendUnknown, Fault, Reaches, Set, Drop, Goto
<1>11. ASSUME NEW d \in Deliverer, SendRefused(d) PROVE HandOK(u)'
  BY <1>11 DEF SendRefused, Fault, Drop, Goto
<1>12. ASSUME NEW d \in Deliverer, Crash(d) PROVE HandOK(u)'
  BY <1>12 DEF Crash, Fault, Drop, Goto
<1>13. ASSUME NEW d \in Deliverer, ReadDigest(d) PROVE HandOK(u)'
  BY <1>13 DEF ReadDigest, IsNewDay, Goto
<1>14. ASSUME NEW d \in Deliverer, Reserve(d) PROVE HandOK(u)'
  BY <1>14 DEF Reserve, WriteDigest, Goto
<1>15. ASSUME NEW d \in Deliverer, Compose(d) PROVE HandOK(u)'
  BY <1>15 DEF Compose, WriteDigest, Goto
<1>16. ASSUME NEW d \in Deliverer, Post(d) PROVE HandOK(u)'
  BY <1>16 DEF Post, Goto
<1>17. ASSUME NEW d \in Deliverer, Note(d) PROVE HandOK(u)'
  BY <1>17 DEF Note, WriteDigest, Goto
<1>18. CASE UNCHANGED vars
  BY <1>18
<1>19. QED
  BY <1>1, <1>2, <1>3, <1>4, <1>5, <1>6, <1>7, <1>8, <1>9,
     <1>10, <1>11, <1>12, <1>13, <1>14, <1>15, <1>16, <1>17, <1>18
     DEF Next, Deliver, Digest

LEMMA LeaseStep ==
  ASSUME TypeOK, TypeOK', NEW u \in Deliverer,
         \A d \in Deliverer : HandOK(d) /\ LeaseOK(d) /\ MomentOK(d), [Next]_vars
  PROVE  LeaseOK(u)'
<1> USE RemindersAssumption, TimeAssumption DEF TypeOK, HandOK, LeaseOK, Over
<1>1. ASSUME NEW r \in Reminder, CancelFormer(r) PROVE LeaseOK(u)'
  BY <1>1 DEF CancelFormer, Set, IsActive
<1>2. CASE ClockRuns
  BY <1>2 DEF ClockRuns, InTime
<1>3. CASE Create
  BY <1>3 DEF Create, Fault
<1>4. CASE CrashWriter
  BY <1>4 DEF CrashWriter, Fault
<1>5. ASSUME NEW d \in Deliverer, Round(d) PROVE LeaseOK(u)'
  <2>1. job' = job /\ UNCHANGED <<status, until, now>> /\ pc[d] = "idle"
        /\ moment' = [moment EXCEPT ![d] = now]
    BY <1>5 DEF Round
  <2>2. job[u] # None => moment'[u] = moment[u]
    BY <2>1
  <2>3. QED
    BY <2>1, <2>2
<1>6. ASSUME NEW d \in Deliverer, Claim(d) PROVE LeaseOK(u)'
  <2>1. PICK r \in Due(d) : /\ status' = [status EXCEPT ![r] = "delivering"]
                            /\ until' = [until EXCEPT ![r] = Moment(d) + LeaseFor]
                            /\ job' = [job EXCEPT ![d] = r]
    BY <1>6 DEF Claim
  <2>2. /\ moment' = [moment EXCEPT ![d] = Moment(d)] /\ UNCHANGED now
        /\ Moment(d) \in 0..LastMoment /\ (d \notin Scheduler => Moment(d) = now)
    BY <1>6 DEF Claim, Moment
  <2>3. r \in Reminder /\ ~Over(r) /\ (status[r] = "delivering" => until[r] <= Moment(d))
    BY <2>1 DEF Due
  <2>4. CASE u = d
    BY <2>1, <2>2, <2>3, <2>4
  <2>5. CASE u # d
    <3>1. /\ job'[u] = job[u] /\ moment'[u] = moment[u]
      BY <2>1, <2>2, <2>5
    <3>2. CASE job[u] = r
      <4>1. until[r] >= moment[u] + LeaseFor /\ until[r] <= Moment(d)
        BY <2>3, <3>2
      <4>2. until'[r] = Moment(d) + LeaseFor /\ status'[r] = "delivering"
        BY <2>1, <2>3
      <4>3. until'[r] >= moment[u] + LeaseFor
        BY <2>2, <2>3, <4>1, <4>2
      <4>4. u \in Tick => now < moment[u] + LeaseFor
        BY <2>3, <3>2
      <4>5. QED
        BY <2>2, <3>1, <3>2, <4>2, <4>3, <4>4
    <3>3. CASE job[u] # r
      BY <2>1, <2>2, <3>1, <3>3
    <3>4. QED
      BY <3>2, <3>3
  <2>6. QED
    BY <2>4, <2>5
<1>7. ASSUME NEW d \in Deliverer, NothingDue(d) PROVE LeaseOK(u)'
  BY <1>7 DEF NothingDue, Goto
<1>8. ASSUME NEW d \in Deliverer, Send(d) PROVE LeaseOK(u)'
  BY <1>8 DEF Send, Reaches, Goto
<1>9. ASSUME NEW d \in Deliverer, Mark(d) PROVE LeaseOK(u)'
  BY <1>9 DEF Mark, MarkDelivered, Set, Goto
<1>10. ASSUME NEW d \in Deliverer, SendUnknown(d) PROVE LeaseOK(u)'
  <2>1. /\ job[d] \in Reminder /\ job' = [job EXCEPT ![d] = None] /\ UNCHANGED <<moment, now>>
    BY <1>10 DEF SendUnknown, Drop
  <2>2. \/ UNCHANGED <<status, until>>
        \/ /\ status' = [status EXCEPT ![job[d]] = "done"]
           /\ until' = [until EXCEPT ![job[d]] = 0]
    BY <1>10 DEF SendUnknown, Set
  <2>3. job'[u] # None => job'[u] = job[u]
    BY <2>1
  <2>4. CASE UNCHANGED <<status, until>>
    BY <2>1, <2>3, <2>4
  <2>5. CASE status' = [status EXCEPT ![job[d]] = "done"] /\ until' = [until EXCEPT ![job[d]] = 0]
    <3>1. CASE job[u] = job[d]
      BY <2>1, <2>3, <2>5, <3>1
    <3>2. CASE job[u] # job[d]
      BY <2>1, <2>3, <2>5, <3>2
    <3>3. QED
      BY <3>1, <3>2
  <2>6. QED
    BY <2>2, <2>4, <2>5
<1>11. ASSUME NEW d \in Deliverer, SendRefused(d) PROVE LeaseOK(u)'
  BY <1>11 DEF SendRefused, Fault, Drop, Goto
<1>12. ASSUME NEW d \in Deliverer, Crash(d) PROVE LeaseOK(u)'
  BY <1>12 DEF Crash, Fault, Drop, Goto
<1>13. ASSUME NEW d \in Deliverer, ReadDigest(d) PROVE LeaseOK(u)'
  BY <1>13 DEF ReadDigest, IsNewDay, Goto
<1>14. ASSUME NEW d \in Deliverer, Reserve(d) PROVE LeaseOK(u)'
  BY <1>14 DEF Reserve, WriteDigest, Goto
<1>15. ASSUME NEW d \in Deliverer, Compose(d) PROVE LeaseOK(u)'
  BY <1>15 DEF Compose, WriteDigest, Goto
<1>16. ASSUME NEW d \in Deliverer, Post(d) PROVE LeaseOK(u)'
  BY <1>16 DEF Post, Goto
<1>17. ASSUME NEW d \in Deliverer, Note(d) PROVE LeaseOK(u)'
  BY <1>17 DEF Note, WriteDigest, Goto
<1>18. CASE UNCHANGED vars
  BY <1>18
<1>19. QED
  BY <1>1, <1>2, <1>3, <1>4, <1>5, <1>6, <1>7, <1>8, <1>9, <1>10,
     <1>11, <1>12, <1>13, <1>14, <1>15, <1>16, <1>17, <1>18
     DEF Next, Deliver, Digest

LEMMA PairStep ==
  ASSUME TypeOK, TypeOK', NEW u \in Deliverer, NEW v \in Deliverer,
         \A d \in Deliverer : HandOK(d) /\ LeaseOK(d) /\ MomentOK(d),
         PairOK(u, v), [Next]_vars
  PROVE  PairOK(u, v)'
<1> USE RemindersAssumption, TimeAssumption DEF TypeOK, HandOK, PairOK, Outlasted
<1>1. ASSUME NEW r \in Reminder, CancelFormer(r) PROVE PairOK(u, v)'
  BY <1>1 DEF CancelFormer, Set, IsActive
<1>2. CASE ClockRuns
  BY <1>2 DEF ClockRuns, InTime
<1>3. CASE Create
  BY <1>3 DEF Create, Fault
<1>4. CASE CrashWriter
  BY <1>4 DEF CrashWriter, Fault
<1>5. ASSUME NEW d \in Deliverer, Round(d) PROVE PairOK(u, v)'
  BY <1>5 DEF Round, Goto
<1>6. ASSUME NEW d \in Deliverer, Claim(d) PROVE PairOK(u, v)'
  <2>1. PICK r \in Due(d) : /\ job' = [job EXCEPT ![d] = r]
                            /\ overtaken' = overtaken \cup (IF InHand(r) THEN {r} ELSE {})
    BY <1>6 DEF Claim
  <2>2. /\ moment' = [moment EXCEPT ![d] = Moment(d)] /\ UNCHANGED now
        /\ Moment(d) \in 0..LastMoment /\ Moment(d) <= now
    BY <1>6 DEF Claim, Moment, MomentOK
  <2>3. r \in Reminder /\ ~Over(r) /\ (status[r] = "delivering" => until[r] <= Moment(d))
    BY <2>1 DEF Due, Over
  <2>4. ASSUME NEW e \in Deliverer, e # d, job[e] = r
        PROVE  e \in Scheduler /\ moment[e] + LeaseFor <= now /\ InHand(r)
    <3>1. LeaseOK(e) /\ r # None /\ moment[e] \in Nat /\ until[r] \in Nat /\ now \in Nat
      BY <2>3
    <3>2. status[r] = "delivering" /\ until[r] >= moment[e] + LeaseFor
      BY <2>3, <2>4, <3>1 DEF LeaseOK
    <3>3. moment[e] + LeaseFor <= now
      BY <2>2, <2>3, <3>1, <3>2
    <3>4. e \notin Tick
      BY <2>4, <3>1, <3>3 DEF LeaseOK
    <3>5. QED
      BY <2>4, <3>3, <3>4 DEF Deliverer, InHand
  <2>5. CASE u # d /\ v # d
    <3>1. job'[u] = job[u] /\ job'[v] = job[v] /\ moment'[u] = moment[u] /\ moment'[v] = moment[v]
      BY <2>1, <2>2, <2>5
    <3>2. QED
      BY <2>1, <2>2, <3>1
  <2>6. CASE u = d /\ v # d
    <3>1. job'[u] = r /\ job'[v] = job[v] /\ moment'[v] = moment[v]
      BY <2>1, <2>2, <2>6
    <3>2. QED
      BY <2>1, <2>2, <2>4, <2>6, <3>1
  <2>7. CASE u # d /\ v = d
    <3>1. job'[v] = r /\ job'[u] = job[u] /\ moment'[u] = moment[u]
      BY <2>1, <2>2, <2>7
    <3>2. QED
      BY <2>1, <2>2, <2>4, <2>7, <3>1
  <2>8. QED
    BY <2>5, <2>6, <2>7
<1>7. ASSUME NEW d \in Deliverer, NothingDue(d) PROVE PairOK(u, v)'
  BY <1>7 DEF NothingDue, Goto
<1>8. ASSUME NEW d \in Deliverer, Send(d) PROVE PairOK(u, v)'
  BY <1>8 DEF Send, Reaches, Goto
<1>9. ASSUME NEW d \in Deliverer, Mark(d) PROVE PairOK(u, v)'
  BY <1>9 DEF Mark, MarkDelivered, Set, Goto
<1>10. ASSUME NEW d \in Deliverer, SendUnknown(d) PROVE PairOK(u, v)'
  BY <1>10 DEF SendUnknown, Fault, Reaches, Set, Drop, Goto
<1>11. ASSUME NEW d \in Deliverer, SendRefused(d) PROVE PairOK(u, v)'
  BY <1>11 DEF SendRefused, Fault, Drop, Goto
<1>12. ASSUME NEW d \in Deliverer, Crash(d) PROVE PairOK(u, v)'
  BY <1>12 DEF Crash, Fault, Drop, Goto
<1>13. ASSUME NEW d \in Deliverer, ReadDigest(d) PROVE PairOK(u, v)'
  BY <1>13 DEF ReadDigest, IsNewDay, Goto
<1>14. ASSUME NEW d \in Deliverer, Reserve(d) PROVE PairOK(u, v)'
  BY <1>14 DEF Reserve, WriteDigest, Goto
<1>15. ASSUME NEW d \in Deliverer, Compose(d) PROVE PairOK(u, v)'
  BY <1>15 DEF Compose, WriteDigest, Goto
<1>16. ASSUME NEW d \in Deliverer, Post(d) PROVE PairOK(u, v)'
  BY <1>16 DEF Post, Goto
<1>17. ASSUME NEW d \in Deliverer, Note(d) PROVE PairOK(u, v)'
  BY <1>17 DEF Note, WriteDigest, Goto
<1>18. CASE UNCHANGED vars
  BY <1>18
<1>19. QED
  BY <1>1, <1>2, <1>3, <1>4, <1>5, <1>6, <1>7, <1>8, <1>9, <1>10,
     <1>11, <1>12, <1>13, <1>14, <1>15, <1>16, <1>17, <1>18
     DEF Next, Deliver, Digest

LEMMA FormerStep ==
  ASSUME TypeOK, TypeOK', \A d \in Deliverer : HandOK(d) /\ LeaseOK(d),
         FormerOK, [Next]_vars
  PROVE  FormerOK'
<1> USE RemindersAssumption DEF TypeOK, HandOK
<1>1. ASSUME NEW r \in Reminder, CancelFormer(r) PROVE FormerOK'
  <2>1. CASE Replaces[r] # None /\ IsActive(Replaces[r])
    <3>1. /\ Replaces[r] \in Reminder /\ writing' = r
          /\ status' = [status EXCEPT ![Replaces[r]] = "cancelled"]
      BY <1>1, <2>1 DEF CancelFormer, Set
    <3>2. QED
      BY <2>1, <3>1 DEF IsActive, FormerOK, Over
  <2>2. CASE ~(Replaces[r] # None /\ IsActive(Replaces[r]))
    <3>1. writing' = r /\ status' = status
          /\ (Replaces[r] # None => Replaces[r] \in Reminder /\ status[Replaces[r]] # "absent")
      BY <1>1, <2>2 DEF CancelFormer
    <3>2. Replaces[r] # None => Over(Replaces[r])
      BY <2>2, <3>1 DEF IsActive, Over
    <3>3. QED
      BY <3>1, <3>2 DEF FormerOK, Over
  <2>3. QED
    BY <2>1, <2>2
<1>2. CASE ClockRuns
  BY <1>2 DEF ClockRuns, FormerOK, Over
<1>3. CASE Create
  BY <1>3 DEF Create, Fault, FormerOK, Over
<1>4. CASE CrashWriter
  BY <1>4 DEF CrashWriter, Fault, FormerOK, Over
<1>5. ASSUME NEW d \in Deliverer, Round(d) PROVE FormerOK'
  BY <1>5 DEF Round, Goto, FormerOK, Over
<1>6. ASSUME NEW d \in Deliverer, Claim(d) PROVE FormerOK'
  BY <1>6 DEF Claim, Due, Goto, FormerOK, Over
<1>7. ASSUME NEW d \in Deliverer, NothingDue(d) PROVE FormerOK'
  BY <1>7 DEF NothingDue, Goto, FormerOK, Over
<1>8. ASSUME NEW d \in Deliverer, Send(d) PROVE FormerOK'
  BY <1>8 DEF Send, Reaches, Goto, FormerOK, Over
<1>9. ASSUME NEW d \in Deliverer, Mark(d) PROVE FormerOK'
  <2>1. /\ job[d] \in Reminder /\ writing' = writing
        /\ status' = [status EXCEPT ![job[d]] = "done"]
    BY <1>9 DEF Mark, MarkDelivered, Set
  <2>2. status[job[d]] # "absent"
    <3>1. LeaseOK(d) /\ job[d] # None
      BY <2>1
    <3>2. QED
      BY <3>1 DEF LeaseOK, Over
  <2>a. \A q \in Reminder : Over(q) => Over(q)'
    BY <2>1, <2>2 DEF Over
  <2>b. ASSUME NEW q \in Reminder, status'[q] # "absent", Replaces[q] # None
        PROVE  Over(Replaces[q])'
    <3>1. status[q] # "absent" /\ Replaces[q] \in Reminder
      BY <2>1, <2>2, <2>b
    <3>2. QED
      BY <2>a, <2>b, <3>1 DEF FormerOK
  <2>c. ASSUME writing # None, Replaces[writing] # None PROVE Over(Replaces[writing])'
    <3>1. Replaces[writing] \in Reminder
      BY <2>c
    <3>2. QED
      BY <2>1, <2>a, <2>c, <3>1 DEF FormerOK
  <2>3. QED
    BY <2>1, <2>b, <2>c DEF FormerOK
<1>10. ASSUME NEW d \in Deliverer, SendUnknown(d) PROVE FormerOK'
  <2>1. job[d] \in Reminder /\ writing' = writing
    BY <1>10 DEF SendUnknown
  <2>2. status' = status \/ status' = [status EXCEPT ![job[d]] = "done"]
    BY <1>10 DEF SendUnknown, Set
  <2>3. status[job[d]] # "absent"
    <3>1. LeaseOK(d) /\ job[d] # None
      BY <2>1
    <3>2. QED
      BY <3>1 DEF LeaseOK, Over
  <2>a. \A q \in Reminder : Over(q) => Over(q)'
    BY <2>1, <2>2, <2>3, SMTT(30) DEF Over
  <2>b. ASSUME NEW q \in Reminder, status'[q] # "absent", Replaces[q] # None
        PROVE  Over(Replaces[q])'
    <3>1. status[q] # "absent" /\ Replaces[q] \in Reminder
      BY <2>1, <2>2, <2>3, <2>b, SMTT(30)
    <3>2. QED
      BY <2>a, <2>b, <3>1 DEF FormerOK
  <2>c. ASSUME writing # None, Replaces[writing] # None PROVE Over(Replaces[writing])'
    <3>1. Replaces[writing] \in Reminder
      BY <2>c
    <3>2. QED
      BY <2>1, <2>a, <2>c, <3>1 DEF FormerOK
  <2>4. QED
    BY <2>1, <2>b, <2>c DEF FormerOK
<1>11. ASSUME NEW d \in Deliverer, SendRefused(d) PROVE FormerOK'
  BY <1>11 DEF SendRefused, Fault, Drop, Goto, FormerOK, Over
<1>12. ASSUME NEW d \in Deliverer, Crash(d) PROVE FormerOK'
  BY <1>12 DEF Crash, Fault, Drop, Goto, FormerOK, Over
<1>13. ASSUME NEW d \in Deliverer, ReadDigest(d) PROVE FormerOK'
  BY <1>13 DEF ReadDigest, IsNewDay, Goto, FormerOK, Over
<1>14. ASSUME NEW d \in Deliverer, Reserve(d) PROVE FormerOK'
  BY <1>14 DEF Reserve, WriteDigest, Goto, FormerOK, Over
<1>15. ASSUME NEW d \in Deliverer, Compose(d) PROVE FormerOK'
  BY <1>15 DEF Compose, WriteDigest, Goto, FormerOK, Over
<1>16. ASSUME NEW d \in Deliverer, Post(d) PROVE FormerOK'
  BY <1>16 DEF Post, Goto, FormerOK, Over
<1>17. ASSUME NEW d \in Deliverer, Note(d) PROVE FormerOK'
  BY <1>17 DEF Note, WriteDigest, Goto, FormerOK, Over
<1>18. CASE UNCHANGED vars
  BY <1>18 DEF FormerOK, Over
<1>19. QED
  BY <1>1, <1>2, <1>3, <1>4, <1>5, <1>6, <1>7, <1>8, <1>9,
     <1>10, <1>11, <1>12, <1>13, <1>14, <1>15, <1>16, <1>17, <1>18
     DEF Next, Deliver, Digest

\* The places of a reminder among a kind of deliverers that hold it one at a time.
LEMMA BusyBefore ==
  ASSUME NEW K, NEW x, Alone(K, x), NEW d \in K, job[d] = x, NEW place
  PROVE  Busy(K, place, x) <=> pc[d] = place
BY DEF Alone, Busy

LEMMA BusyAfter ==
  ASSUME NEW K, K \subseteq Deliverer, NEW x, Alone(K, x)', NEW d \in K, job'[d] = x, NEW place
  PROVE  Busy(K, place, x)' <=> pc'[d] = place
BY DEF Alone, Busy

\* A deliverer that lets a reminder go leaves no other behind with it.
LEMMA BusyLeft ==
  ASSUME NEW K, NEW x, Alone(K, x), NEW d \in K, job[d] = x, job'[d] # x,
         \A e \in K : e # d => job'[e] = job[e], NEW place
  PROVE  ~Busy(K, place, x)'
BY DEF Alone, Busy

\* A step of others leaves the places of a reminder as they are.
LEMMA BusyStays ==
  ASSUME NEW K, NEW x, NEW place,
         \A e \in K : (job'[e] = x /\ pc'[e] = place) <=> (job[e] = x /\ pc[e] = place)
  PROVE  Busy(K, place, x)' <=> Busy(K, place, x)
BY DEF Busy

\* Nobody can take a reminder that is in the hand of a tick, nor one scheduler
\* one that it has.
LEMMA AloneThere ==
  ASSUME OneScheduler, \A u, v \in Deliverer : PairOK(u, v), NEW x \in Reminder,
         RemindersAssumption
  PROVE  Alone(Tick, x) /\ Alone(Scheduler, x)
<1>1. Alone(Scheduler, x)
  BY DEF Alone, OneScheduler
<1>2. Alone(Tick, x)
  BY RemindersAssumption DEF Alone, PairOK, Outlasted, Deliverer
<1>3. QED
  BY <1>1, <1>2

\* Two of them hold a reminder only if it was overtaken.
LEMMA Holders ==
  ASSUME OneScheduler, \A u, v \in Deliverer : PairOK(u, v), NEW x \in Reminder,
         RemindersAssumption
  PROVE  Hands("send", x) + Hands("mark", x) <= Owed(x)
<1> USE RemindersAssumption
<1>1. Alone(Tick, x) /\ Alone(Scheduler, x)
  BY AloneThere
<1>2. ASSUME NEW K \in {Tick, Scheduler} PROVE ~(Busy(K, "send", x) /\ Busy(K, "mark", x))
  BY <1>1 DEF Alone, Busy
<1>3. ASSUME NEW p \in {"send", "mark"}, NEW q \in {"send", "mark"},
             Busy(Tick, p, x), Busy(Scheduler, q, x)
      PROVE  x \in overtaken
  BY <1>3 DEF Busy, PairOK, Deliverer
<1>4. QED
  BY <1>2, <1>3 DEF Hands, One, Owed

\* The step of a reminder nobody changes, nor anybody holding it.
LEMMA RungStays ==
  ASSUME TypeOK, TypeOK', NEW x \in Reminder, RungOK(x),
         rung'[x] = rung[x], status'[x] = status[x], overtaken' = overtaken, faults <= faults',
         \A e \in Deliverer : \A place \in {"send", "mark"} :
           (job'[e] = x /\ pc'[e] = place) <=> (job[e] = x /\ pc[e] = place)
  PROVE  RungOK(x)'
<1>1. ASSUME NEW K \in {Tick, Scheduler}, NEW place \in {"send", "mark"}
      PROVE  Busy(K, place, x)' <=> Busy(K, place, x)
  BY DEF Deliverer, Busy
<1>2. rung[x] \in Nat /\ rung'[x] \in Nat /\ faults \in Nat /\ faults' \in Nat
  BY TimeAssumption DEF TypeOK
<1>3. QED
  BY <1>1, <1>2 DEF RungOK, Hands, One, Owed, Over

\* The step of a deliverer with a reminder in its hand that it lets go: its
\* message or its fault is accounted for.
LEMMA RungLeft ==
  ASSUME TypeOK, TypeOK', NEW d \in Deliverer, NEW x \in Reminder, RungOK(x), HandOK(d),
         OneScheduler, \A u, v \in Deliverer : PairOK(u, v),
         job[d] = x, job' = [job EXCEPT ![d] = None],
         \E place \in {"idle", "claim"} : pc' = [pc EXCEPT ![d] = place],
         overtaken' = overtaken,
         \/ faults' = faults + 1 /\ rung'[x] \in {rung[x], rung[x] + 1}
            /\ (status'[x] = status[x] \/ Over(x)') /\ (pc[d] = "send" \/ rung'[x] = rung[x])
         \/ faults' = faults /\ rung'[x] = rung[x] /\ pc[d] = "mark" /\ Over(x)',
         Over(x) => Over(x)'
  PROVE  RungOK(x)'
<1> USE RemindersAssumption
<1>1. Alone(Tick, x) /\ Alone(Scheduler, x) /\ Hands("send", x) + Hands("mark", x) <= Owed(x)
  BY AloneThere, Holders
<1>2. /\ rung[x] \in Nat /\ rung'[x] \in Nat /\ faults \in Nat /\ faults' \in Nat
      /\ pc[d] \in {"send", "mark"} /\ job'[d] # x
      /\ \A e \in Deliverer : e # d => job'[e] = job[e] /\ pc'[e] = pc[e]
  BY TimeAssumption DEF TypeOK, HandOK
<1>3. ASSUME NEW K \in {Tick, Scheduler}, NEW L \in {Tick, Scheduler}, d \in K, d \notin L
      PROVE  /\ ~Busy(K, "send", x)' /\ ~Busy(K, "mark", x)'
             /\ Busy(K, "send", x) <=> pc[d] = "send"
             /\ Busy(K, "mark", x) <=> pc[d] = "mark"
             /\ Busy(L, "send", x)' <=> Busy(L, "send", x)
             /\ Busy(L, "mark", x)' <=> Busy(L, "mark", x)
  <2>1. K \subseteq Deliverer /\ L \subseteq Deliverer /\ Alone(K, x)
    BY <1>1, <1>3 DEF Deliverer
  <2>2. ~Busy(K, "send", x)' /\ ~Busy(K, "mark", x)'
    BY <1>2, <1>3, <2>1 DEF Alone, Busy
  <2>3. (Busy(K, "send", x) <=> pc[d] = "send") /\ (Busy(K, "mark", x) <=> pc[d] = "mark")
    BY <1>3, <2>1 DEF Alone, Busy
  <2>4. \A e \in L : e # d
    BY <1>3
  <2>5. (Busy(L, "send", x)' <=> Busy(L, "send", x)) /\ (Busy(L, "mark", x)' <=> Busy(L, "mark", x))
    BY <1>2, <2>1, <2>4 DEF Busy
  <2>6. QED
    BY <2>2, <2>3, <2>5
<1>4. Owed(x)' = Owed(x)
  BY DEF Owed
<1>5. CASE d \in Tick
  <2>1. d \notin Scheduler
    BY <1>5
  <2>2. /\ ~Busy(Tick, "send", x)' /\ ~Busy(Tick, "mark", x)'
        /\ Busy(Tick, "send", x) <=> pc[d] = "send"
        /\ Busy(Tick, "mark", x) <=> pc[d] = "mark"
        /\ Busy(Scheduler, "send", x)' <=> Busy(Scheduler, "send", x)
        /\ Busy(Scheduler, "mark", x)' <=> Busy(Scheduler, "mark", x)
    BY <1>3, <1>5, <2>1
  <2>3. QED
    BY <1>1, <1>2, <1>4, <2>2, SMTT(60) DEF RungOK, Hands, One, Owed, Over
<1>6. CASE d \in Scheduler
  <2>1. d \notin Tick
    BY <1>6
  <2>2. /\ ~Busy(Scheduler, "send", x)' /\ ~Busy(Scheduler, "mark", x)'
        /\ Busy(Scheduler, "send", x) <=> pc[d] = "send"
        /\ Busy(Scheduler, "mark", x) <=> pc[d] = "mark"
        /\ Busy(Tick, "send", x)' <=> Busy(Tick, "send", x)
        /\ Busy(Tick, "mark", x)' <=> Busy(Tick, "mark", x)
    BY <1>3, <1>6, <2>1
  <2>3. QED
    BY <1>1, <1>2, <1>4, <2>2, SMTT(60) DEF RungOK, Hands, One, Owed, Over
<1>7. QED
  BY <1>5, <1>6 DEF Deliverer

\* The claim of a reminder: one more hand, no more rings.
LEMMA RungClaimed ==
  ASSUME TypeOK, TypeOK', NEW x \in Reminder, RungOK(x), ~Over(x), ~Over(x)',
         rung'[x] = rung[x], faults' = faults,
         \A e \in Deliverer : job[e] = x /\ pc[e] = "mark" => job'[e] = x /\ pc'[e] = "mark"
  PROVE  RungOK(x)'
<1>1. \A K \in {Tick, Scheduler} : Busy(K, "mark", x) => Busy(K, "mark", x)'
  BY DEF Busy, Deliverer
<1>2. rung[x] \in Nat /\ faults \in Nat
  BY TimeAssumption DEF TypeOK
<1>3. QED
  BY <1>1, <1>2 DEF RungOK, Hands, One

\* A message that reaches the family: from the place of sending to that of marking.
LEMMA RungSent ==
  ASSUME TypeOK, TypeOK', NEW d \in Deliverer, NEW x \in Reminder, RungOK(x),
         OneScheduler, \A u, v \in Deliverer : PairOK(u, v),
         job[d] = x, pc[d] = "send", job' = job, pc' = [pc EXCEPT ![d] = "mark"],
         rung'[x] = rung[x] + 1, faults' = faults, overtaken' = overtaken, status' = status
  PROVE  RungOK(x)'
<1> USE RemindersAssumption
<1>1. Alone(Tick, x) /\ Alone(Scheduler, x)
  BY AloneThere
<1>2. /\ rung[x] \in Nat /\ faults \in Nat /\ pc'[d] = "mark"
      /\ \A e \in Deliverer : e # d => pc'[e] = pc[e]
  BY TimeAssumption DEF TypeOK
<1>3. ASSUME NEW K \in {Tick, Scheduler}, NEW L \in {Tick, Scheduler}, d \in K, d \notin L
      PROVE  /\ ~Busy(K, "send", x)' /\ Busy(K, "mark", x)'
             /\ Busy(K, "send", x) /\ ~Busy(K, "mark", x)
             /\ Busy(L, "send", x)' <=> Busy(L, "send", x)
             /\ Busy(L, "mark", x)' <=> Busy(L, "mark", x)
  <2>1. K \subseteq Deliverer /\ L \subseteq Deliverer /\ Alone(K, x)
    BY <1>1, <1>3 DEF Deliverer
  <2>2. ~Busy(K, "send", x)' /\ Busy(K, "mark", x)'
    BY <1>2, <1>3, <2>1 DEF Alone, Busy
  <2>3. Busy(K, "send", x) /\ ~Busy(K, "mark", x)
    BY <1>3, <2>1 DEF Alone, Busy
  <2>4. \A e \in L : e # d
    BY <1>3
  <2>5. (Busy(L, "send", x)' <=> Busy(L, "send", x)) /\ (Busy(L, "mark", x)' <=> Busy(L, "mark", x))
    BY <1>2, <2>1, <2>4 DEF Busy
  <2>6. QED
    BY <2>2, <2>3, <2>5
<1>4. Owed(x)' = Owed(x) /\ (Over(x)' <=> Over(x))
  BY DEF Owed, Over
<1>5. CASE d \in Tick
  <2>1. d \notin Scheduler
    BY <1>5
  <2>2. /\ ~Busy(Tick, "send", x)' /\ Busy(Tick, "mark", x)'
        /\ Busy(Tick, "send", x) /\ ~Busy(Tick, "mark", x)
        /\ Busy(Scheduler, "send", x)' <=> Busy(Scheduler, "send", x)
        /\ Busy(Scheduler, "mark", x)' <=> Busy(Scheduler, "mark", x)
    BY <1>3, <1>5, <2>1
  <2>3. QED
    BY <1>2, <1>4, <2>2, SMTT(60) DEF RungOK, Hands, One, Owed
<1>6. CASE d \in Scheduler
  <2>1. d \notin Tick
    BY <1>6
  <2>2. /\ ~Busy(Scheduler, "send", x)' /\ Busy(Scheduler, "mark", x)'
        /\ Busy(Scheduler, "send", x) /\ ~Busy(Scheduler, "mark", x)
        /\ Busy(Tick, "send", x)' <=> Busy(Tick, "send", x)
        /\ Busy(Tick, "mark", x)' <=> Busy(Tick, "mark", x)
    BY <1>3, <1>6, <2>1
  <2>3. QED
    BY <1>2, <1>4, <2>2, SMTT(60) DEF RungOK, Hands, One, Owed
<1>7. QED
  BY <1>5, <1>6 DEF Deliverer

\* Crossing out a reminder that is not over.
LEMMA RungCancelled ==
  ASSUME TypeOK, NEW x \in Reminder, RungOK(x), ~Over(x), Over(x)',
         OneScheduler, \A u, v \in Deliverer : PairOK(u, v),
         UNCHANGED <<rung, job, pc, overtaken, faults>>
  PROVE  RungOK(x)'
<1>1. Hands("send", x) + Hands("mark", x) <= Owed(x)
  BY Holders, RemindersAssumption
<1>2. Hands("send", x)' = Hands("send", x) /\ Owed(x)' = Owed(x)
  BY DEF Hands, One, Busy, Owed
<1>3. rung[x] \in Nat /\ faults \in Nat
  BY TimeAssumption DEF TypeOK
<1>4. Hands("send", x) \in Nat /\ Hands("mark", x) \in Nat /\ Owed(x) \in Nat
  BY DEF Hands, One, Owed
<1>5. QED
  BY <1>1, <1>2, <1>3, <1>4 DEF RungOK

LEMMA RungStep ==
  ASSUME TypeOK, TypeOK', NEW x \in Reminder, RungOK(x), OneScheduler,
         \A d \in Deliverer : HandOK(d) /\ LeaseOK(d),
         \A u, v \in Deliverer : PairOK(u, v), [Next]_vars
  PROVE  RungOK(x)'
<1> USE RemindersAssumption, TimeAssumption
<1>0. faults \in Nat /\ x # None
  BY DEF TypeOK
<1>1. ASSUME NEW r \in Reminder, CancelFormer(r) PROVE RungOK(x)'
  <2>1. UNCHANGED <<rung, job, pc, overtaken, faults>>
    BY <1>1 DEF CancelFormer
  <2>2. status'[x] = status[x] \/ (~Over(x) /\ Over(x)')
    BY <1>1 DEF CancelFormer, Set, IsActive, TypeOK, Over
  <2>3. CASE status'[x] = status[x]
    BY <1>0, <2>1, <2>3, RungStays
  <2>4. CASE ~Over(x) /\ Over(x)'
    BY <2>1, <2>4, RungCancelled
  <2>5. QED
    BY <2>2, <2>3, <2>4
<1>2. CASE ClockRuns
  <2>1. UNCHANGED <<rung, status, overtaken, job, pc, faults>>
    BY <1>2 DEF ClockRuns
  <2>2. QED
    BY <1>0, <2>1, RungStays
<1>3. CASE Create
  <2>1. UNCHANGED <<rung, overtaken, job, pc>> /\ faults <= faults'
    BY <1>0, <1>3 DEF Create, Fault
  <2>2. status'[x] = status[x] \/ (status[x] = "absent" /\ status'[x] = "pending")
    BY <1>3 DEF Create, TypeOK
  <2>3. CASE status'[x] = status[x]
    BY <2>1, <2>3, RungStays
  <2>4. CASE status[x] = "absent" /\ status'[x] = "pending"
    <3>1. Hands("mark", x)' = Hands("mark", x) /\ Hands("mark", x) \in Nat
      BY <2>1 DEF Hands, One, Busy
    <3>2. rung[x] \in Nat /\ faults' \in Nat
      BY DEF TypeOK
    <3>3. QED
      BY <1>0, <2>1, <2>4, <3>1, <3>2 DEF RungOK, Over
  <2>5. QED
    BY <2>2, <2>3, <2>4
<1>4. CASE CrashWriter
  <2>1. UNCHANGED <<rung, status, overtaken, job, pc>> /\ faults <= faults'
    BY <1>0, <1>4 DEF CrashWriter, Fault
  <2>2. QED
    BY <2>1, RungStays
<1>5. ASSUME NEW d \in Deliverer, NEW from, NEW to,
             pc[d] = from, from \notin {"send", "mark"}, to \notin {"send", "mark"},
             Goto(d, to), UNCHANGED <<rung, status, overtaken, job>>, faults <= faults'
      PROVE  RungOK(x)'
  <2>1. ASSUME NEW e \in Deliverer, NEW place \in {"send", "mark"}
        PROVE  (job'[e] = x /\ pc'[e] = place) <=> (job[e] = x /\ pc[e] = place)
    BY <1>5 DEF Goto, TypeOK
  <2>2. QED
    BY <1>5, <2>1, RungStays
<1>6. ASSUME NEW d \in Deliverer, Claim(d) PROVE RungOK(x)'
  <2>1. PICK r \in Due(d) : /\ status' = [status EXCEPT ![r] = "delivering"]
                            /\ job' = [job EXCEPT ![d] = r]
                            /\ overtaken' = overtaken \cup (IF InHand(r) THEN {r} ELSE {})
    BY <1>6 DEF Claim
  <2>2. r \in Reminder /\ ~Over(r) /\ UNCHANGED <<rung, faults>>
    BY <1>6, <2>1 DEF Due, Over, Claim
  <2>3. pc[d] = "claim" /\ pc' = [pc EXCEPT ![d] = "send"] /\ job[d] = None
    BY <1>6 DEF Claim, Goto, HandOK
  <2>4. CASE x = r
    <3>1. ~Over(x)'
      BY <2>1, <2>2, <2>4 DEF TypeOK, Over
    <3>2. \A e \in Deliverer : job[e] = x /\ pc[e] = "mark" => job'[e] = x /\ pc'[e] = "mark"
      BY <1>0, <2>1, <2>3 DEF TypeOK
    <3>3. QED
      BY <2>2, <2>4, <3>1, <3>2, RungClaimed
  <2>5. CASE x # r
    <3>1. status'[x] = status[x] /\ (x \in overtaken' <=> x \in overtaken)
      BY <2>1, <2>2, <2>5 DEF TypeOK
    <3>2. ASSUME NEW e \in Deliverer, NEW place \in {"send", "mark"}
          PROVE  (job'[e] = x /\ pc'[e] = place) <=> (job[e] = x /\ pc[e] = place)
      <4>1. CASE e = d
        BY <1>0, <2>1, <2>3, <2>5, <4>1 DEF TypeOK
      <4>2. CASE e # d
        BY <2>1, <2>3, <4>2 DEF TypeOK
      <4>3. QED
        BY <4>1, <4>2
    <3>3. Hands("send", x)' = Hands("send", x) /\ Hands("mark", x)' = Hands("mark", x)
      BY <3>2 DEF Hands, One, Busy, Deliverer
    <3>4. Owed(x)' = Owed(x) /\ (Over(x)' <=> Over(x))
      BY <3>1 DEF Owed, Over
    <3>5. QED
      BY <2>2, <3>3, <3>4 DEF RungOK
  <2>6. QED
    BY <2>4, <2>5
<1>7. ASSUME NEW d \in Deliverer, Send(d) PROVE RungOK(x)'
  <2>1. /\ job[d] \in Reminder /\ pc[d] = "send" /\ pc' = [pc EXCEPT ![d] = "mark"]
        /\ rung' = [rung EXCEPT ![job[d]] = rung[job[d]] + 1]
        /\ UNCHANGED <<status, job, overtaken, faults>>
    BY <1>7 DEF Send, Reaches, Goto, HandOK
  <2>2. CASE x = job[d]
    <3>1. rung'[x] = rung[x] + 1
      BY <2>1, <2>2 DEF TypeOK
    <3>2. QED
      BY <2>1, <2>2, <3>1, RungSent
  <2>3. CASE x # job[d]
    <3>1. rung'[x] = rung[x] /\ faults <= faults'
      BY <1>0, <2>1, <2>3 DEF TypeOK
    <3>2. ASSUME NEW e \in Deliverer, NEW place \in {"send", "mark"}
          PROVE  (job'[e] = x /\ pc'[e] = place) <=> (job[e] = x /\ pc[e] = place)
      BY <2>1, <2>3 DEF TypeOK
    <3>3. QED
      BY <2>1, <3>1, <3>2, RungStays
  <2>4. QED
    BY <2>2, <2>3
<1>8. ASSUME NEW d \in Deliverer, job[d] \in Reminder, job' = [job EXCEPT ![d] = None],
             \E place \in {"idle", "claim"} : pc' = [pc EXCEPT ![d] = place],
             overtaken' = overtaken,
             \/ UNCHANGED <<status, until>>
             \/ Set(job[d], "done"),
             \/ UNCHANGED rung /\ faults' = faults + 1
             \/ Reaches(job[d]) /\ pc[d] = "send" /\ faults' = faults + 1
             \/ UNCHANGED <<rung, faults>> /\ pc[d] = "mark" /\ Set(job[d], "done")
      PROVE  RungOK(x)'
  <2>1. CASE x = job[d]
    <3>1. status'[x] = status[x] \/ Over(x)'
      BY <1>8, <2>1 DEF Set, TypeOK, Over
    <3>2. \/ faults' = faults + 1 /\ rung'[x] \in {rung[x], rung[x] + 1}
             /\ (pc[d] = "send" \/ rung'[x] = rung[x])
          \/ faults' = faults /\ rung'[x] = rung[x] /\ pc[d] = "mark" /\ Over(x)'
      BY <1>8, <2>1 DEF Set, Reaches, TypeOK, Over
    <3>3. Over(x) => Over(x)'
      BY <3>1 DEF Over
    <3>4. HandOK(d)
      OBVIOUS
    <3>5. QED
      BY <1>8, <2>1, <3>1, <3>2, <3>3, <3>4, RungLeft
  <2>2. CASE x # job[d]
    <3>1. rung'[x] = rung[x] /\ status'[x] = status[x] /\ faults <= faults'
      <4>1. rung'[x] = rung[x]
        <5>1. CASE Reaches(job[d])
          BY <1>8, <2>2, <5>1 DEF Reaches, TypeOK
        <5>2. CASE UNCHANGED rung
          BY <5>2
        <5>3. QED
          BY <1>8, <5>1, <5>2
      <4>2. status'[x] = status[x]
        <5>1. CASE Set(job[d], "done")
          BY <1>8, <2>2, <5>1 DEF Set, TypeOK
        <5>2. CASE status' = status
          BY <5>2
        <5>3. QED
          BY <1>8, <5>1, <5>2
      <4>3. QED
        BY <1>0, <1>8, <4>1, <4>2
    <3>2. ASSUME NEW e \in Deliverer, NEW place \in {"send", "mark"}
          PROVE  (job'[e] = x /\ pc'[e] = place) <=> (job[e] = x /\ pc[e] = place)
      <4>1. CASE e = d
        BY <1>0, <1>8, <2>2, <4>1 DEF TypeOK
      <4>2. CASE e # d
        BY <1>8, <4>2 DEF TypeOK
      <4>3. QED
        BY <4>1, <4>2
    <3>3. QED
      BY <1>8, <3>1, <3>2, RungStays
  <2>3. QED
    BY <2>1, <2>2
<1>9. ASSUME NEW d \in Deliverer, Mark(d) PROVE RungOK(x)'
  BY <1>8, <1>9 DEF Mark, MarkDelivered, Goto, HandOK
<1>10. ASSUME NEW d \in Deliverer, SendUnknown(d) PROVE RungOK(x)'
  BY <1>8, <1>10 DEF SendUnknown, Fault, Drop, Goto, HandOK
<1>11. ASSUME NEW d \in Deliverer, SendRefused(d) PROVE RungOK(x)'
  BY <1>8, <1>11 DEF SendRefused, Fault, Drop, Goto, HandOK
<1>12. ASSUME NEW d \in Deliverer, Crash(d) PROVE RungOK(x)'
  <2>1. CASE pc[d] \in {"send", "mark"}
    BY <1>8, <1>12, <2>1 DEF Crash, Fault, Drop, Goto, HandOK
  <2>2. CASE pc[d] \notin {"send", "mark"}
    <3>1. job[d] = None /\ job' = job
      BY <1>12, <2>2 DEF Crash, Drop, HandOK, TypeOK
    <3>2. QED
      BY <1>0, <1>5, <1>12, <2>2, <3>1 DEF Crash, Fault, Drop
  <2>3. QED
    BY <2>1, <2>2
<1>13. ASSUME NEW d \in Deliverer, Round(d) PROVE RungOK(x)'
  <2>1. Goto(d, "claim") /\ pc[d] = "idle" /\ UNCHANGED <<rung, status, overtaken, job, faults>>
    BY <1>13 DEF Round
  <2>2. QED
    BY <1>0, <1>5, <2>1
<1>14. ASSUME NEW d \in Deliverer, NothingDue(d) \/ Digest(d) PROVE RungOK(x)'
  <2>1. UNCHANGED <<rung, status, overtaken, job, faults>>
    BY <1>14 DEF NothingDue, Digest, ReadDigest, Reserve, Compose, Post, Note, WriteDigest
  <2>2. PICK to \in {"idle", "read", "reserve", "compose", "post", "note"} : Goto(d, to)
    BY <1>14 DEF NothingDue, Digest, ReadDigest, Reserve, Compose, Post, Note
  <2>3. pc[d] \notin {"send", "mark"}
    BY <1>14 DEF NothingDue, Digest, ReadDigest, Reserve, Compose, Post, Note
  <2>4. QED
    BY <1>0, <1>5, <2>1, <2>2, <2>3
<1>15. CASE UNCHANGED vars
  BY <1>0, <1>15, RungStays
<1>16. QED
  BY <1>1, <1>2, <1>3, <1>4, <1>6, <1>7, <1>9, <1>10, <1>11, <1>12, <1>13, <1>14, <1>15
     DEF Next, Deliver

LEMMA MomentStep ==
  ASSUME TypeOK, TypeOK', NEW u \in Deliverer, MomentOK(u), [Next]_vars
  PROVE  MomentOK(u)'
<1> USE RemindersAssumption, TimeAssumption DEF TypeOK, MomentOK, Digesting
<1>1. ASSUME NEW r \in Reminder, CancelFormer(r) PROVE MomentOK(u)'
  BY <1>1 DEF CancelFormer, Set, IsActive
<1>2. CASE ClockRuns
  BY <1>2 DEF ClockRuns
<1>3. CASE Create
  BY <1>3 DEF Create, Fault
<1>4. CASE CrashWriter
  BY <1>4 DEF CrashWriter, Fault
<1>5. ASSUME NEW d \in Deliverer, Round(d) PROVE MomentOK(u)'
  BY <1>5 DEF Round, Goto
<1>6. ASSUME NEW d \in Deliverer, Claim(d) PROVE MomentOK(u)'
  BY <1>6 DEF Claim, Due, Moment, Goto
<1>7. ASSUME NEW d \in Deliverer, NothingDue(d) PROVE MomentOK(u)'
  BY <1>7 DEF NothingDue, Goto
<1>8. ASSUME NEW d \in Deliverer, Send(d) PROVE MomentOK(u)'
  BY <1>8 DEF Send, Reaches, Goto
<1>9. ASSUME NEW d \in Deliverer, Mark(d) PROVE MomentOK(u)'
  BY <1>9 DEF Mark, MarkDelivered, Set, Goto
<1>10. ASSUME NEW d \in Deliverer, SendUnknown(d) PROVE MomentOK(u)'
  BY <1>10 DEF SendUnknown, Fault, Reaches, Set, Drop, Goto
<1>11. ASSUME NEW d \in Deliverer, SendRefused(d) PROVE MomentOK(u)'
  BY <1>11 DEF SendRefused, Fault, Drop, Goto
<1>12. ASSUME NEW d \in Deliverer, Crash(d) PROVE MomentOK(u)'
  BY <1>12 DEF Crash, Fault, Drop, Goto
<1>13. ASSUME NEW d \in Deliverer, ReadDigest(d) PROVE MomentOK(u)'
  BY <1>13 DEF ReadDigest, IsNewDay, Goto
<1>14. ASSUME NEW d \in Deliverer, Reserve(d) PROVE MomentOK(u)'
  BY <1>14 DEF Reserve, WriteDigest, Goto
<1>15. ASSUME NEW d \in Deliverer, Compose(d) PROVE MomentOK(u)'
  BY <1>15 DEF Compose, WriteDigest, Goto
<1>16. ASSUME NEW d \in Deliverer, Post(d) PROVE MomentOK(u)'
  BY <1>16 DEF Post, Goto
<1>17. ASSUME NEW d \in Deliverer, Note(d) PROVE MomentOK(u)'
  BY <1>17 DEF Note, WriteDigest, Goto
<1>18. CASE UNCHANGED vars
  BY <1>18
<1>19. QED
  BY <1>1, <1>2, <1>3, <1>4, <1>5, <1>6, <1>7, <1>8, <1>9,
     <1>10, <1>11, <1>12, <1>13, <1>14, <1>15, <1>16, <1>17, <1>18
     DEF Next, Deliver, Digest

LEMMA DayStep ==
  ASSUME TypeOK, TypeOK', NEW day \in Days, DayOK(day),
         \A d \in Deliverer : MomentOK(d), \A s \in Scheduler : DigestOK(s), [Next]_vars
  PROVE  DayOK(day)'
<1> USE TimeAssumption DEF TypeOK, DayOK
<1>1. ASSUME NEW r \in Reminder, CancelFormer(r) PROVE DayOK(day)'
  BY <1>1 DEF CancelFormer, Set, IsActive
<1>2. CASE ClockRuns
  BY <1>2 DEF ClockRuns
<1>3. CASE Create
  BY <1>3 DEF Create, Fault
<1>4. CASE CrashWriter
  BY <1>4 DEF CrashWriter, Fault
<1>5. ASSUME NEW d \in Deliverer, Round(d) PROVE DayOK(day)'
  BY <1>5 DEF Round, Goto
<1>6. ASSUME NEW d \in Deliverer, Claim(d) PROVE DayOK(day)'
  BY <1>6 DEF Claim, Due, Goto
<1>7. ASSUME NEW d \in Deliverer, NothingDue(d) PROVE DayOK(day)'
  BY <1>7 DEF NothingDue, Goto
<1>8. ASSUME NEW d \in Deliverer, Send(d) PROVE DayOK(day)'
  BY <1>8 DEF Send, Reaches, Goto
<1>9. ASSUME NEW d \in Deliverer, Mark(d) PROVE DayOK(day)'
  BY <1>9 DEF Mark, MarkDelivered, Set, Goto
<1>10. ASSUME NEW d \in Deliverer, SendUnknown(d) PROVE DayOK(day)'
  BY <1>10 DEF SendUnknown, Fault, Reaches, Set, Drop, Goto
<1>11. ASSUME NEW d \in Deliverer, SendRefused(d) PROVE DayOK(day)'
  BY <1>11 DEF SendRefused, Fault, Drop, Goto
<1>12. ASSUME NEW d \in Deliverer, Crash(d) PROVE DayOK(day)'
  BY <1>12 DEF Crash, Fault, Drop, Goto
<1>13. ASSUME NEW d \in Deliverer, ReadDigest(d) PROVE DayOK(day)'
  BY <1>13 DEF ReadDigest, IsNewDay, Goto
<1>14. ASSUME NEW d \in Deliverer, Reserve(d) PROVE DayOK(day)'
  <2>1. d \in Scheduler /\ digest.day <= Day[moment[d]] /\ UNCHANGED digests
    BY <1>14 DEF Reserve, MomentOK, DigestOK, Digesting
  <2>2. digest'.day = Day[moment[d]] /\ day \in Nat /\ digest.day \in Nat /\ Day[moment[d]] \in Nat
    BY <1>14, DayType, DigestDay DEF Reserve, WriteDigest
  <2>3. QED
    BY <2>1, <2>2
<1>15. ASSUME NEW d \in Deliverer, Compose(d) PROVE DayOK(day)'
  BY <1>15 DEF Compose, WriteDigest, Goto, MomentOK, DigestOK, Digesting
<1>16. ASSUME NEW d \in Deliverer, Post(d) PROVE DayOK(day)'
  <2>1. d \in Scheduler /\ digest.day = Day[moment[d]] /\ digests[Day[moment[d]]] = 0
    BY <1>16 DEF Post, MomentOK, DigestOK, Digesting
  <2>2. /\ digest' = digest
        /\ digests' = digests \/ digests' = [digests EXCEPT ![Day[moment[d]]] = digests[Day[moment[d]]] + 1]
    BY <1>16 DEF Post
  <2>3. CASE day = Day[moment[d]]
    <3>1. day <= digest'.day
      BY <2>1, <2>2, <2>3, DayType
    <3>2. digests'[day] \in {0, 1}
      BY <2>1, <2>2, <2>3
    <3>3. digests'[day] <= 1
      <4> HIDE DEF TypeOK, DayOK
      <4> QED  BY <3>2
    <3>4. QED
      <4> HIDE DEF TypeOK
      <4> QED  BY <3>1, <3>3
  <2>4. CASE day # Day[moment[d]]
    BY <2>2, <2>4
  <2>5. QED
    BY <2>3, <2>4
<1>17. ASSUME NEW d \in Deliverer, Note(d) PROVE DayOK(day)'
  BY <1>17 DEF Note, WriteDigest, Goto, MomentOK, DigestOK, Digesting
<1>18. CASE UNCHANGED vars
  BY <1>18
<1>19. QED
  BY <1>1, <1>2, <1>3, <1>4, <1>5, <1>6, <1>7, <1>8, <1>9,
     <1>10, <1>11, <1>12, <1>13, <1>14, <1>15, <1>16, <1>17, <1>18
     DEF Next, Deliver, Digest

LEMMA DigestStep ==
  ASSUME TypeOK, TypeOK', NEW s \in Scheduler, DigestOK(s), OneScheduler,
         \A d \in Deliverer : MomentOK(d), \A day \in Days : DayOK(day), [Next]_vars
  PROVE  DigestOK(s)'
<1> USE TimeAssumption DEF TypeOK, DigestOK
<1>a. s \in Deliverer
  BY DEF Deliverer
<1>1. ASSUME NEW r \in Reminder, CancelFormer(r) PROVE DigestOK(s)'
  BY <1>1, <1>a DEF CancelFormer, Set, IsActive
<1>2. CASE ClockRuns
  BY <1>2, <1>a DEF ClockRuns
<1>3. CASE Create
  BY <1>3, <1>a DEF Create, Fault
<1>4. CASE CrashWriter
  BY <1>4, <1>a DEF CrashWriter, Fault
<1>5. ASSUME NEW d \in Deliverer, Round(d) PROVE DigestOK(s)'
  <2>1. /\ moment' = [moment EXCEPT ![d] = now] /\ pc' = [pc EXCEPT ![d] = "claim"]
        /\ UNCHANGED <<digest, digests>>
    BY <1>5 DEF Round, Goto
  <2>2. CASE d = s
    <3>1. Day[moment[s]] <= Day[now] /\ digest.day <= Day[moment[s]]
      BY <1>a DEF MomentOK
    <3>2. digest.day \in Nat /\ Day[now] \in Nat /\ Day[moment[s]] \in Nat
      BY <1>a, DayType, DigestDay
    <3>3. digest.day <= Day[now]
      <4> HIDE DEF TypeOK, DigestOK
      <4> QED  BY <3>1, <3>2
    <3>4. QED
      BY <1>a, <2>1, <2>2, <3>3
  <2>3. CASE d # s
    BY <1>a, <2>1, <2>3
  <2>4. QED
    BY <2>2, <2>3
<1>6. ASSUME NEW d \in Deliverer, Claim(d) PROVE DigestOK(s)'
  <2>1. /\ moment' = [moment EXCEPT ![d] = Moment(d)] /\ pc' = [pc EXCEPT ![d] = "send"]
        /\ UNCHANGED <<digest, digests>>
    BY <1>6 DEF Claim, Goto
  <2>2. moment'[s] = moment[s]
    BY <1>a, <2>1 DEF Moment
  <2>3. pc'[s] = pc[s] \/ pc'[s] = "send"
    BY <1>a, <2>1
  <2>4. QED
    BY <2>1, <2>2, <2>3
<1>7. ASSUME NEW d \in Deliverer, NothingDue(d) PROVE DigestOK(s)'
  BY <1>7, <1>a DEF NothingDue, Goto
<1>8. ASSUME NEW d \in Deliverer, Send(d) PROVE DigestOK(s)'
  BY <1>8, <1>a DEF Send, Reaches, Goto
<1>9. ASSUME NEW d \in Deliverer, Mark(d) PROVE DigestOK(s)'
  BY <1>9, <1>a DEF Mark, MarkDelivered, Set, Goto
<1>10. ASSUME NEW d \in Deliverer, SendUnknown(d) PROVE DigestOK(s)'
  BY <1>10, <1>a DEF SendUnknown, Fault, Reaches, Set, Drop, Goto
<1>11. ASSUME NEW d \in Deliverer, SendRefused(d) PROVE DigestOK(s)'
  BY <1>11, <1>a DEF SendRefused, Fault, Drop, Goto
<1>12. ASSUME NEW d \in Deliverer, Crash(d) PROVE DigestOK(s)'
  BY <1>12, <1>a DEF Crash, Fault, Drop, Goto
<1>13. ASSUME NEW d \in Deliverer, ReadDigest(d) PROVE DigestOK(s)'
  BY <1>13, <1>a DEF ReadDigest, IsNewDay, Goto
<1>14. ASSUME NEW d \in Deliverer, Reserve(d) PROVE DigestOK(s)'
  <2>1. d = s
    BY <1>14 DEF Reserve, MomentOK, Digesting, OneScheduler
  <2>2. /\ Day[moment[s]] \in Days /\ Day[moment[s]] \in Nat /\ digest.day \in Nat
        /\ digests[Day[moment[s]]] \in Nat
    BY <1>a, DayType, DigestDay
  <2>3. digest.day <= Day[moment[s]] /\ digest.day # Day[moment[s]]
    BY <1>14, <2>1 DEF Reserve
  <2>4. digests[Day[moment[s]]] = 0
    <3> HIDE DEF TypeOK, DigestOK
    <3> QED  BY <2>2, <2>3 DEF DayOK
  <2>5. QED
    BY <1>14, <1>a, <2>1, <2>2, <2>4 DEF Reserve, WriteDigest, Goto
<1>15. ASSUME NEW d \in Deliverer, Compose(d) PROVE DigestOK(s)'
  <2>1. d = s /\ pc[s] = "compose"
    BY <1>15 DEF Compose, MomentOK, Digesting, OneScheduler
  <2>2. digest.day = Day[moment[s]] /\ digests[Day[moment[s]]] = 0
    BY <1>a, <2>1
  <2>3. UNCHANGED <<digests, moment>> /\ Day[moment[s]] \in Nat
    BY <1>15, <1>a, DayType DEF Compose
  <2>4. digest'.day = Day[moment[s]] /\ pc'[s] \in {"post", "idle"}
    BY <1>15, <1>a, <2>1, <2>2 DEF Compose, WriteDigest, Goto
  <2>5. QED
    <3> HIDE DEF TypeOK
    <3> QED  BY <2>2, <2>3, <2>4
<1>16. ASSUME NEW d \in Deliverer, Post(d) PROVE DigestOK(s)'
  BY <1>16, <1>a DEF Post, Goto, MomentOK, DayOK, Digesting, OneScheduler
<1>17. ASSUME NEW d \in Deliverer, Note(d) PROVE DigestOK(s)'
  BY <1>17, <1>a DEF Note, WriteDigest, Goto, MomentOK, DayOK, Digesting, OneScheduler
<1>18. CASE UNCHANGED vars
  BY <1>18, <1>a
<1>19. QED
  BY <1>1, <1>2, <1>3, <1>4, <1>5, <1>6, <1>7, <1>8, <1>9,
     <1>10, <1>11, <1>12, <1>13, <1>14, <1>15, <1>16, <1>17, <1>18
     DEF Next, Deliver, Digest

LEMMA StepInv == IInv /\ [Next]_vars => IInv'
<1> SUFFICES ASSUME IInv, [Next]_vars PROVE IInv'
  OBVIOUS
<1>1. TypeOK'
  BY TypeStep DEF IInv
<1>2. ASSUME NEW d \in Deliverer PROVE (HandOK(d) /\ LeaseOK(d) /\ MomentOK(d))'
  BY <1>1, HandStep, LeaseStep, MomentStep DEF IInv
<1>3. ASSUME NEW d \in Deliverer, NEW e \in Deliverer PROVE PairOK(d, e)'
  BY <1>1, PairStep DEF IInv
<1>4. FormerOK'
  BY <1>1, FormerStep DEF IInv
<1>5. ASSUME OneScheduler
      PROVE  /\ \A r \in Reminder : RungOK(r)'
             /\ \A day \in Days : DayOK(day)'
             /\ \A s \in Scheduler : DigestOK(s)'
  BY <1>1, <1>5, RungStep, DayStep, DigestStep DEF IInv
<1>6. QED
  BY <1>1, <1>2, <1>3, <1>4, <1>5 DEF IInv

LEMMA Inductive == Spec => []IInv
BY InitInv, StepInv, PTL DEF Spec

\* Every variable of the reminders keeps its type (reminder.py, scheduler.py).
THEOREM TypeCorrect == Spec => []TypeOK
<1>1. IInv => TypeOK
  BY DEF IInv
<1>2. QED
  BY <1>1, Inductive, PTL

\* A newer reminder of a fact is there only when the former one is delivered or
\* crossed out, whichever step its executor was killed at (_execute_reminder).
THEOREM OnlyOneDate == Spec => []OneDate
<1>1. IInv => OneDate
  BY DEF IInv, FormerOK, OneDate, Over
<1>2. QED
  BY <1>1, Inductive, PTL

\* A reminder is in two hands only when a round of the scheduler has outlasted the
\* lease it counts from; every other ring beyond the first is owed to a fault; and
\* one scheduler sends one digest a day (claim_due, mark_delivered, _deliver_digest).
THEOREM EveryRingIsAccounted ==
  ASSUME OneScheduler
  PROVE  Spec => []RingsAreAccounted
<1>1. ASSUME IInv PROVE RingsAreAccounted
  <2>1. ASSUME NEW r \in Reminder PROVE rung[r] <= Owed(r) + faults
    <3>1. /\ rung[r] \in Nat /\ faults \in Nat /\ RungOK(r)
          /\ Hands("send", r) + Hands("mark", r) <= Owed(r)
      BY <1>1, Holders, RemindersAssumption, TimeAssumption DEF IInv, TypeOK
    <3>2. Hands("send", r) \in Nat /\ Hands("mark", r) \in Nat /\ Owed(r) \in Nat
      BY DEF Hands, One, Owed
    <3>3. QED
      BY <3>1, <3>2 DEF RungOK
  <2>2. QED
    BY <1>1, <2>1 DEF IInv, PairOK, DayOK, RingsAreAccounted, Owed
<1>2. QED
  BY <1>1, Inductive, PTL

\* What was crossed out, and nobody has in hand, stays so and stays silent
\* (cancel, claim_due, mark_delivered).
THEOREM SilentOnceCancelled == Spec => CancelledIsSilent
<1> DEFINE Silent == \A r \in Reminder : status[r] = "cancelled" /\ ~InHand(r) =>
                       status'[r] = "cancelled" /\ rung'[r] = rung[r]
<1>1. ASSUME IInv, [Next]_vars, NEW x \in Reminder, status[x] = "cancelled", ~InHand(x)
      PROVE  status'[x] = "cancelled" /\ rung'[x] = rung[x]
  <2> USE <1>1, RemindersAssumption DEF IInv, TypeOK, HandOK, InHand
  <2>1. ASSUME NEW r \in Reminder, CancelFormer(r) PROVE status'[x] = "cancelled" /\ rung'[x] = rung[x]
    BY <2>1 DEF CancelFormer, Set, IsActive
  <2>2. CASE ClockRuns
    BY <2>2 DEF ClockRuns
  <2>3. CASE Create
    BY <2>3 DEF Create, Fault
  <2>4. CASE CrashWriter
    BY <2>4 DEF CrashWriter, Fault
  <2>5. ASSUME NEW d \in Deliverer, Round(d) PROVE status'[x] = "cancelled" /\ rung'[x] = rung[x]
    BY <2>5 DEF Round, Goto
  <2>6. ASSUME NEW d \in Deliverer, Claim(d) PROVE status'[x] = "cancelled" /\ rung'[x] = rung[x]
    BY <2>6 DEF Claim, Due, Goto
  <2>7. ASSUME NEW d \in Deliverer, NothingDue(d) PROVE status'[x] = "cancelled" /\ rung'[x] = rung[x]
    BY <2>7 DEF NothingDue, Goto
  <2>8. ASSUME NEW d \in Deliverer, Send(d) PROVE status'[x] = "cancelled" /\ rung'[x] = rung[x]
    BY <2>8 DEF Send, Reaches, Goto
  <2>9. ASSUME NEW d \in Deliverer, Mark(d) PROVE status'[x] = "cancelled" /\ rung'[x] = rung[x]
    BY <2>9 DEF Mark, MarkDelivered, Set, Goto
  <2>10. ASSUME NEW d \in Deliverer, SendUnknown(d) PROVE status'[x] = "cancelled" /\ rung'[x] = rung[x]
    BY <2>10 DEF SendUnknown, Fault, Reaches, Set, Drop, Goto
  <2>11. ASSUME NEW d \in Deliverer, SendRefused(d) PROVE status'[x] = "cancelled" /\ rung'[x] = rung[x]
    BY <2>11 DEF SendRefused, Fault, Drop, Goto
  <2>12. ASSUME NEW d \in Deliverer, Crash(d) PROVE status'[x] = "cancelled" /\ rung'[x] = rung[x]
    BY <2>12 DEF Crash, Fault, Drop, Goto
  <2>13. ASSUME NEW d \in Deliverer, ReadDigest(d) PROVE status'[x] = "cancelled" /\ rung'[x] = rung[x]
    BY <2>13 DEF ReadDigest, IsNewDay, Goto
  <2>14. ASSUME NEW d \in Deliverer, Reserve(d) PROVE status'[x] = "cancelled" /\ rung'[x] = rung[x]
    BY <2>14 DEF Reserve, WriteDigest, Goto
  <2>15. ASSUME NEW d \in Deliverer, Compose(d) PROVE status'[x] = "cancelled" /\ rung'[x] = rung[x]
    BY <2>15 DEF Compose, WriteDigest, Goto
  <2>16. ASSUME NEW d \in Deliverer, Post(d) PROVE status'[x] = "cancelled" /\ rung'[x] = rung[x]
    BY <2>16 DEF Post, Goto
  <2>17. ASSUME NEW d \in Deliverer, Note(d) PROVE status'[x] = "cancelled" /\ rung'[x] = rung[x]
    BY <2>17 DEF Note, WriteDigest, Goto
  <2>18. CASE UNCHANGED vars
    BY <2>18
  <2>19. QED
    BY <2>1, <2>2, <2>3, <2>4, <2>5, <2>6, <2>7, <2>8, <2>9,
       <2>10, <2>11, <2>12, <2>13, <2>14, <2>15, <2>16, <2>17, <2>18
       DEF Next, Deliver, Digest
<1>2. IInv /\ [Next]_vars => [Silent]_<<status, rung>>
  BY <1>1
<1>3. QED
  BY <1>2, Inductive, PTL DEF Spec, CancelledIsSilent
=============================================================================
