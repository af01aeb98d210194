--------------------------- MODULE PipelineProofs ---------------------------
(***************************************************************************)
(* Proofs about the confirmation contour, for any number of approvals,     *)
(* processes, people, facts and items.                                     *)
(***************************************************************************)
EXTENDS Pipeline, FiniteSetTheorems, TLAPS

USE DEF dates, store, world, local, vars

\* Effect keys are pairs of an approval and a row of it.
LEMMA KeyRow ==
  ASSUME NEW a \in Approval, NEW i \in 0..Width
  PROVE  <<a, i>> \in Key /\ <<a, i>>[1] = a /\ <<a, i>>[2] = i
BY DEF Key

LEMMA RowExists ==
  ASSUME NEW a \in Approval, NEW i \in 0..Width
  PROVE  \E k \in Key : k = <<a, i>> /\ k[1] = a /\ k[2] = i
BY KeyRow

LEMMA ItemRowIsNotOwn ==
  ASSUME NEW k \in Key, k[2] # 0, NEW a \in Approval
  PROVE  <<a, 0>> \in Key /\ <<a, 0>> # k
BY WidthAssumption DEF Key

LEMMA KeyParts ==
  ASSUME NEW k \in Key
  PROVE  k[1] \in Approval /\ k[2] \in 0..Width /\ k = <<k[1], k[2]>>
BY DEF Key

\* toggled returns a card again.
LEMMA ToggledIsCard ==
  ASSUME NEW d \in Card, NEW i \in 1..Width
  PROVE  Toggled(d, i) \in Card
BY WidthAssumption DEF Card, Toggled

LEMMA BlankIsCard == Blank \in Card
BY WidthAssumption DEF Card, Blank, Kinds

LEMMA CardParts ==
  ASSUME NEW d \in Card
  PROVE  /\ d.on \in SUBSET (1..Width)
         /\ d.kind \in [0..Width -> Kinds]
         /\ d.fact \in Fact \cup {NoFact}
BY DEF Card

LEMMA Nobody == NoJob \in Approval /\ NoOne \in Person
BY PartiesAssumption DEF NoJob, NoOne

\* The initial state is well typed.
LEMMA InitType == Init => TypeOK
BY BlankIsCard, Nobody, WidthAssumption, LimitAssumption
   DEF Init, TypeOK, StoreType, WorldType, LocalType, Key, PcStates, Settled

\* A process that returns or dies is left in a well typed state.
LEMMA ReturnType ==
  ASSUME LocalType, NEW p \in Proc, Return(p) \/ Die(p), crashes' \in 0..MaxCrashes
  PROVE  LocalType'
<1>1. pc' \in [Proc -> PcStates]
  BY DEF LocalType, Return, Die, Goto, PcStates
<1>2. todo' \in [Proc -> SUBSET Key]
  BY DEF LocalType, Return, Die
<1>3. job' \in [Proc -> Approval] /\ who' \in [Proc -> Person]
  BY Nobody DEF LocalType, Return, Die
<1>4. at' \in [Proc -> 0..Width]
  BY WidthAssumption DEF LocalType, Return, Die
<1>5. outcome' \in [Proc -> Settled] /\ partial' \in [Proc -> BOOLEAN]
  BY DEF LocalType, Return, Die, Settled
<1>6. QED
  BY <1>1, <1>2, <1>3, <1>4, <1>5 DEF LocalType

\* The loop over items keeps the local state well typed.
LEMMA AdvanceType ==
  ASSUME LocalType, StoreType, NEW p \in Proc, NEW i \in 0..Width, NEW failed \in BOOLEAN,
         Advance(p, i, failed), UNCHANGED <<job, who, todo, crashes>>
  PROVE  LocalType'
<1> DEFINE later == {j \in card[job[p]].on : j > i}
<1>1. later \subseteq 0..Width
  BY CardParts, WidthAssumption DEF StoreType, LocalType
<1>2. partial' \in [Proc -> BOOLEAN]
  BY DEF LocalType, Advance
<1>3. CASE later = {}
  BY <1>2, <1>3, WidthAssumption DEF LocalType, Advance, Goto, PcStates, Settled
<1>4. CASE later # {}
  BY <1>1, <1>2, <1>4 DEF LocalType, Advance, Goto, PcStates, Settled
<1>5. QED
  BY <1>3, <1>4

\* Every step keeps the state well typed.
LEMMA RecordType ==
  ASSUME StoreType, NEW k \in Key, Record(k) \/ UNCHANGED <<effect, dates>>
  PROVE  /\ effect' \in [Key -> {"none", "pending"} \cup Settled]
         /\ rows' \in Nat /\ born' \in [Key -> 0..rows']
<1> USE DEF StoreType
<1>1. effect' \in [Key -> {"none", "pending"} \cup Settled]
  BY DEF Record
<1>2. CASE UNCHANGED dates
  BY <1>1, <1>2
<1>3. CASE rows' = rows + 1 /\ born' = [born EXCEPT ![k] = rows + 1]
  BY <1>1, <1>3
<1>4. QED
  BY <1>1, <1>2, <1>3 DEF Record

LEMMA TypeStep ==
  ASSUME TypeOK, Custody, Next
  PROVE  TypeOK'
<1> USE WidthAssumption, LimitAssumption
       DEF TypeOK, StoreType, WorldType, LocalType, PcStates, Settled, Goto
<1>1. ASSUME NEW a \in Approval, NEW d \in Cards, Stage(a, d)
      PROVE  TypeOK'
  BY <1>1, CardsAssumption DEF Stage
<1>2. ASSUME NEW a \in Approval, TtlPasses(a)
      PROVE  TypeOK'
  BY <1>2 DEF TtlPasses
<1>3. ASSUME NEW p \in Proc, ClaimGone(p)
      PROVE  TypeOK'
  BY <1>3, ReturnType DEF ClaimGone
<1>4. ASSUME NEW p \in Proc, ClaimLate(p)
      PROVE  TypeOK'
  BY <1>4, ReturnType DEF ClaimLate
<1>5. ASSUME NEW p \in Proc, ClaimTaken(p)
      PROVE  TypeOK'
  <2>1. PICK k \in Key : Record(k)
    BY <1>5, KeyRow DEF ClaimTaken
  <2>2. /\ effect' \in [Key -> {"none", "pending"} \cup Settled]
        /\ rows' \in Nat /\ born' \in [Key -> 0..rows']
    BY <2>1, RecordType
  <2>3. /\ status' \in [Approval -> {"absent", "staged", "claimed", "done", "failed",
                                     "cancelled", "expired"}]
        /\ claimedBy' \in [Approval -> SUBSET Person]
    BY <1>5 DEF ClaimTaken
  <2>4. QED
    BY <1>5, <2>2, <2>3 DEF ClaimTaken
<1>6. ASSUME NEW p \in Proc, DropFact(p)
      PROVE  TypeOK'
  BY <1>6, ReturnType DEF DropFact, IsCandidate
<1>7. ASSUME NEW p \in Proc, CancelOld(p)
      PROVE  TypeOK'
  BY <1>7 DEF CancelOld, CancelRow
<1>8. ASSUME NEW p \in Proc, NEW b \in Approval, Restage(p, b)
      PROVE  TypeOK'
  BY <1>8, ReturnType, ToggledIsCard DEF Restage, Custody, Executing
<1>9. ASSUME NEW p \in Proc, Find(p)
      PROVE  TypeOK'
  <2>1. CASE IsExecuted(p)
    BY <1>9, <2>1, ReturnType DEF Find
  <2>2. CASE ~IsExecuted(p) /\ IsBundle(card[job[p]])
    <3>1. Advance(p, 0, FALSE) /\ UNCHANGED <<job, who, todo, crashes>>
      BY <1>9, <2>2 DEF Find
    <3>2. LocalType'
      BY <3>1, AdvanceType, 0 \in 0..Width
    <3>3. StoreType' /\ WorldType'
      BY <1>9 DEF Find
    <3>4. QED
      BY <3>2, <3>3
  <2>3. CASE ~IsExecuted(p) /\ ~IsBundle(card[job[p]])
    BY <1>9, <2>3 DEF Find
  <2>4. QED
    BY <2>1, <2>2, <2>3
<1>10. ASSUME NEW p \in Proc, Begin(p)
       PROVE  TypeOK'
  <2> DEFINE k == <<job[p], at[p]>>
  <2>1. StoreType'
    <3>1. k \in Key
      BY <1>10, KeyRow
    <3>2. /\ effect' \in [Key -> {"none", "pending"} \cup Settled]
          /\ rows' \in Nat /\ born' \in [Key -> 0..rows']
      BY <1>10, <3>1, RecordType DEF Begin
    <3>3. QED
      BY <1>10, <3>2 DEF Begin
  <2>2. WorldType'
    BY <1>10 DEF Begin
  <2>3. CASE effect[k] \in Settled
    BY <1>10, <2>1, <2>2, <2>3, AdvanceType DEF Begin
  <2>4. CASE effect[k] \notin Settled
    BY <1>10, <2>1, <2>2, <2>4 DEF Begin
  <2>5. QED
    BY <2>3, <2>4
<1>11. ASSUME NEW p \in Proc, LookUp(p)
       PROVE  TypeOK'
  BY <1>11 DEF LookUp, Acting
<1>12. ASSUME NEW p \in Proc, AlreadyThere(p)
       PROVE  TypeOK'
  BY <1>12 DEF AlreadyThere, IsThere, Acting, Report
<1>13. ASSUME NEW p \in Proc, CreateReminder(p)
       PROVE  TypeOK'
  BY <1>13 DEF CreateReminder, Report
<1>14. ASSUME NEW p \in Proc, ConfirmMemory(p)
       PROVE  TypeOK'
  BY <1>14 DEF ConfirmMemory, Report
<1>15. ASSUME NEW p \in Proc, WriteCalendar(p)
       PROVE  TypeOK'
  BY <1>15 DEF WriteCalendar, Acting, Report
<1>16. ASSUME NEW p \in Proc, Send(p)
       PROVE  TypeOK'
  <2>1. <<job[p], at[p]>> \in Key
    BY KeyRow
  <2>2. QED
    <3>1. StoreType' /\ told' = told
      BY <1>16 DEF Send
    <3>2. calls' \in [Key -> Nat]
      BY <1>16, <2>1 DEF Send
    <3>3. delivered' \in SUBSET Key
      BY <1>16, <2>1 DEF Send
    <3>4. \E result \in Settled : Report(p, result)
      BY <1>16 DEF Send
    <3>5. LocalType'
      BY <3>4 DEF Report
    <3>6. QED
      BY <3>1, <3>2, <3>3, <3>5
<1>17. ASSUME NEW p \in Proc, Settle(p)
       PROVE  TypeOK'
  <2> DEFINE k == <<job[p], at[p]>>
  <2>1. StoreType' /\ WorldType'
    BY <1>17, KeyRow DEF Settle, SettleRow
  <2>2. CASE at[p] # 0
    BY <1>17, <2>1, <2>2, AdvanceType DEF Settle
  <2>3. CASE at[p] = 0
    BY <1>17, <2>1, <2>3 DEF Settle
  <2>4. QED
    BY <2>2, <2>3
<1>18. ASSUME NEW p \in Proc, ReadFact(p)
       PROVE  TypeOK'
  BY <1>18 DEF ReadFact
<1>19. ASSUME NEW p \in Proc, ConfirmFact(p)
       PROVE  TypeOK'
  BY <1>19 DEF ConfirmFact
<1>20. ASSUME NEW p \in Proc, ConfirmRefused(p)
       PROVE  TypeOK'
  BY <1>20, ReturnType DEF ConfirmRefused
<1>21. ASSUME NEW p \in Proc, Mark(p)
       PROVE  TypeOK'
  BY <1>21 DEF Mark, Verdict
<1>22. ASSUME NEW p \in Proc, Tell(p)
       PROVE  TypeOK'
  BY <1>22, ReturnType DEF Tell
<1>23. ASSUME NEW p \in Proc, NEW k \in Key, ReconReplay(p, k)
       PROVE  TypeOK'
  BY <1>23, KeyParts DEF ReconReplay, Oldest
<1>24. ASSUME NEW p \in Proc, NEW k \in Key, ReconUnknown(p, k)
       PROVE  TypeOK'
  BY <1>24, KeyParts DEF ReconUnknown, Oldest, SettleRow
<1>25. ASSUME NEW p \in Proc, Scan(p)
       PROVE  TypeOK'
  BY <1>25, KeyParts DEF Scan, Stale, Overdue
<1>26. ASSUME NEW p \in Proc, Crash(p)
       PROVE  TypeOK'
  BY <1>26, ReturnType DEF Crash
<1>27. ASSUME NEW p \in Proc, NEW c \in Person, NEW a \in Approval, PressConfirm(p, c, a)
       PROVE  TypeOK'
  BY <1>27 DEF PressConfirm
<1>28. ASSUME NEW p \in Proc, NEW a \in Approval, PressReject(p, a)
       PROVE  TypeOK'
  BY <1>28 DEF PressReject, CancelRow
<1>29. ASSUME NEW p \in Proc, NEW a \in Approval, NEW i \in 1..Width, PressToggle(p, a, i)
       PROVE  TypeOK'
  BY <1>29 DEF PressToggle
<1>30. ASSUME NEW k \in Key, LeaseLapses(k)
       PROVE  TypeOK'
  BY <1>30 DEF LeaseLapses
<1>31. ASSUME NEW c \in Person, MissForgotten(c)
       PROVE  TypeOK'
  BY <1>31 DEF MissForgotten
<1>32. ASSUME NEW f \in Fact, Supersede(f)
       PROVE  TypeOK'
  BY <1>32 DEF Supersede
<1>33. QED
  BY <1>1, <1>2, <1>3, <1>4, <1>5, <1>6, <1>7, <1>8, <1>9, <1>10, <1>11,
     <1>12, <1>13, <1>14, <1>15, <1>16, <1>17, <1>18, <1>19, <1>20, <1>21,
     <1>22, <1>23, <1>24, <1>25, <1>26, <1>27, <1>28, <1>29, <1>30, <1>31,
     <1>32 DEF Next, Step

\* Every step hands a yes on.
LEMMA CustodyStep ==
  ASSUME TypeOK, Custody, Next
  PROVE  Custody'
<1> USE KeyParts, KeyRow, WidthAssumption
       DEF TypeOK, StoreType, WorldType, LocalType, Custody, YesKept, Executing,
           Journalled, Accepted, Held, Settled, Goto, PcStates
<1>1. ASSUME NEW a \in Approval, NEW d \in Cards, Stage(a, d)
      PROVE  Custody'
  BY <1>1 DEF Stage
<1>2. ASSUME NEW a \in Approval, TtlPasses(a)
      PROVE  Custody'
  BY <1>2 DEF TtlPasses
<1>3. ASSUME NEW p \in Proc, ClaimGone(p)
      PROVE  Custody'
  BY <1>3 DEF ClaimGone, Return
<1>4. ASSUME NEW p \in Proc, ClaimLate(p)
      PROVE  Custody'
  BY <1>4 DEF ClaimLate, Return
<1>5. ASSUME NEW p \in Proc, ClaimTaken(p)
      PROVE  Custody'
  BY <1>5 DEF ClaimTaken, Record
<1>6. ASSUME NEW p \in Proc, DropFact(p)
      PROVE  Custody'
  BY <1>6 DEF DropFact, Return, IsCandidate
<1>7. ASSUME NEW p \in Proc, CancelOld(p)
      PROVE  Custody'
  BY <1>7 DEF CancelOld, CancelRow
<1>8. ASSUME NEW p \in Proc, NEW b \in Approval, Restage(p, b)
      PROVE  Custody'
  BY <1>8 DEF Restage, Return
<1>9. ASSUME NEW p \in Proc, Find(p)
      PROVE  Custody'
  BY <1>9 DEF Find, Return, Advance
<1>10. ASSUME NEW p \in Proc, Begin(p)
       PROVE  Custody'
  BY <1>10 DEF Begin, Record, Advance
<1>11. ASSUME NEW p \in Proc, LookUp(p)
       PROVE  Custody'
  BY <1>11 DEF LookUp, Acting
<1>12. ASSUME NEW p \in Proc, AlreadyThere(p)
       PROVE  Custody'
  BY <1>12 DEF AlreadyThere, IsThere, Acting, Report
<1>13. ASSUME NEW p \in Proc, CreateReminder(p)
       PROVE  Custody'
  BY <1>13 DEF CreateReminder, Report
<1>14. ASSUME NEW p \in Proc, ConfirmMemory(p)
       PROVE  Custody'
  BY <1>14 DEF ConfirmMemory, Report
<1>15. ASSUME NEW p \in Proc, WriteCalendar(p)
       PROVE  Custody'
  BY <1>15 DEF WriteCalendar, Acting, Report
<1>16. ASSUME NEW p \in Proc, Send(p)
       PROVE  Custody'
  BY <1>16 DEF Send, Acting, Report
<1>17. ASSUME NEW p \in Proc, Settle(p)
       PROVE  Custody'
  BY <1>17 DEF Settle, SettleRow, Advance
<1>18. ASSUME NEW p \in Proc, ReadFact(p)
       PROVE  Custody'
  BY <1>18 DEF ReadFact
<1>19. ASSUME NEW p \in Proc, ConfirmFact(p)
       PROVE  Custody'
  BY <1>19 DEF ConfirmFact
<1>20. ASSUME NEW p \in Proc, ConfirmRefused(p)
       PROVE  Custody'
  BY <1>20 DEF ConfirmRefused, Die
<1>21. ASSUME NEW p \in Proc, Mark(p)
       PROVE  Custody'
  BY <1>21 DEF Mark, Verdict
<1>22. ASSUME NEW p \in Proc, Tell(p)
       PROVE  Custody'
  BY <1>22 DEF Tell, Return
<1>23. ASSUME NEW p \in Proc, NEW k \in Key, ReconReplay(p, k)
       PROVE  Custody'
  BY <1>23 DEF ReconReplay, Oldest
<1>24. ASSUME NEW p \in Proc, NEW k \in Key, ReconUnknown(p, k)
       PROVE  Custody'
  BY <1>24 DEF ReconUnknown, Oldest, SettleRow
<1>25. ASSUME NEW p \in Proc, Scan(p)
       PROVE  Custody'
  BY <1>25, KeyParts DEF Scan, Stale, Overdue
<1>26. ASSUME NEW p \in Proc, Crash(p)
       PROVE  Custody'
  BY <1>26 DEF Crash, Die
<1>27. ASSUME NEW p \in Proc, NEW c \in Person, NEW a \in Approval, PressConfirm(p, c, a)
       PROVE  Custody'
  BY <1>27 DEF PressConfirm
<1>28. ASSUME NEW p \in Proc, NEW a \in Approval, PressReject(p, a)
       PROVE  Custody'
  BY <1>28 DEF PressReject, CancelRow
<1>29. ASSUME NEW p \in Proc, NEW a \in Approval, NEW i \in 1..Width, PressToggle(p, a, i)
       PROVE  Custody'
  BY <1>29 DEF PressToggle
<1>30. ASSUME NEW k \in Key, LeaseLapses(k)
       PROVE  Custody'
  BY <1>30 DEF LeaseLapses
<1>31. ASSUME NEW c \in Person, MissForgotten(c)
       PROVE  Custody'
  BY <1>31 DEF MissForgotten
<1>32. ASSUME NEW f \in Fact, Supersede(f)
       PROVE  Custody'
  BY <1>32 DEF Supersede
<1>33. QED
  BY <1>1, <1>2, <1>3, <1>4, <1>5, <1>6, <1>7, <1>8, <1>9, <1>10, <1>11,
     <1>12, <1>13, <1>14, <1>15, <1>16, <1>17, <1>18, <1>19, <1>20, <1>21,
     <1>22, <1>23, <1>24, <1>25, <1>26, <1>27, <1>28, <1>29, <1>30, <1>31,
     <1>32 DEF Next, Step


\* Begin writes the row of the item before its executor runs.
LEMMA BeginWritesAhead ==
  ASSUME TypeOK, Custody, WriteAhead, NEW p \in Proc, Begin(p)
  PROVE  WriteAhead'
<1>1. /\ effect \in [Key -> {"none", "pending"} \cup Settled]
      /\ job \in [Proc -> Approval] /\ at \in [Proc -> 0..Width] /\ pc \in [Proc -> PcStates]
  BY DEF TypeOK, StoreType, LocalType
<1>2. PICK k \in Key : k = <<job[p], at[p]>> /\ k[2] # 0
  BY <1>1, KeyRow DEF Begin, Custody, Executing
<1>3. effect' = effect \/ effect' = [effect EXCEPT ![k] = "pending"]
  BY <1>2 DEF Begin, Record
<1>4. \A l \in Key : /\ effect[l] # "none" => effect'[l] # "none"
                     /\ l # k => effect'[l] = effect[l]
  BY <1>1, <1>3
<1>5. \A a \in Approval : effect'[<<a, 0>>] = effect[<<a, 0>>]
  BY <1>2, <1>4, ItemRowIsNotOwn
<1>6. status' = status /\ calls' = calls /\ job' = job
  BY DEF Begin
<1>7. ASSUME NEW q \in Proc, pc'[q] \in {"act", "create", "settle"}
      PROVE  effect'[<<job'[q], at'[q]>>] # "none"
  <2>1. CASE q # p
    <3>1. pc'[q] = pc[q] /\ at'[q] = at[q]
      BY <1>1, <2>1 DEF Begin, Goto, Advance
    <3>2. effect[<<job[q], at[q]>>] # "none"
      BY <1>7, <3>1 DEF WriteAhead
    <3>3. <<job[q], at[q]>> \in Key
      BY <1>1, KeyRow
    <3>4. QED
      BY <1>4, <1>6, <3>1, <3>2, <3>3
  <2>2. CASE q = p /\ pc'[p] = "act"
    <3>1. at' = at /\ effect'[k] # "none"
      BY <1>1, <1>2, <2>2 DEF Begin, Record, Goto, Advance, Settled
    <3>2. QED
      BY <1>2, <1>6, <2>2, <3>1
  <2>3. CASE q = p /\ pc'[p] # "act"
    <3>1. at'[p] = 0
      BY <1>1, <1>7, <2>3 DEF Begin, Goto, Advance
    <3>2. effect[<<job[p], 0>>] # "none"
      BY <1>1 DEF Begin, Custody, Executing, Held, WriteAhead
    <3>3. QED
      BY <1>1, <1>5, <1>6, <2>3, <3>1, <3>2
  <2>4. QED
    BY <2>1, <2>2, <2>3
<1>8. QED
  BY <1>4, <1>5, <1>6, <1>7 DEF WriteAhead

\* Every step records before it acts.
LEMMA WriteAheadStep ==
  ASSUME TypeOK, Custody, WriteAhead, Next
  PROVE  WriteAhead'
<1> USE KeyParts, KeyRow, WidthAssumption
       DEF TypeOK, StoreType, WorldType, LocalType, Custody, Executing,
           Journalled, WriteAhead, Accepted, Held, Settled, Goto, PcStates
<1>1. ASSUME NEW a \in Approval, NEW d \in Cards, Stage(a, d)
      PROVE  WriteAhead'
  BY <1>1 DEF Stage
<1>2. ASSUME NEW a \in Approval, TtlPasses(a)
      PROVE  WriteAhead'
  BY <1>2 DEF TtlPasses
<1>3. ASSUME NEW p \in Proc, ClaimGone(p)
      PROVE  WriteAhead'
  BY <1>3 DEF ClaimGone, Return
<1>4. ASSUME NEW p \in Proc, ClaimLate(p)
      PROVE  WriteAhead'
  BY <1>4 DEF ClaimLate, Return
<1>5. ASSUME NEW p \in Proc, ClaimTaken(p)
      PROVE  WriteAhead'
  BY <1>5 DEF ClaimTaken, Record
<1>6. ASSUME NEW p \in Proc, DropFact(p)
      PROVE  WriteAhead'
  BY <1>6 DEF DropFact, Return, IsCandidate
<1>7. ASSUME NEW p \in Proc, CancelOld(p)
      PROVE  WriteAhead'
  BY <1>7 DEF CancelOld, CancelRow
<1>8. ASSUME NEW p \in Proc, NEW b \in Approval, Restage(p, b)
      PROVE  WriteAhead'
  BY <1>8 DEF Restage, Return
<1>9. ASSUME NEW p \in Proc, Find(p)
      PROVE  WriteAhead'
  <2>1. status' = status /\ effect' = effect /\ calls' = calls /\ pc[p] = "find" /\ at[p] = 0
    BY <1>9 DEF Find
  <2>2. \A q \in Proc \ {p} : pc'[q] = pc[q] /\ at'[q] = at[q] /\ job'[q] = job[q]
    BY <1>9 DEF Find, Return, Advance
  <2>3. pc'[p] \in {"act", "create", "settle"} => at'[p] = 0 /\ job'[p] = job[p]
    BY <1>9, <2>1 DEF Find, Return, Advance
  <2>4. QED
    BY <2>1, <2>2, <2>3
<1>10. ASSUME NEW p \in Proc, Begin(p)
       PROVE  WriteAhead'
  BY <1>10, BeginWritesAhead DEF Begin, Record, Advance
<1>11. ASSUME NEW p \in Proc, LookUp(p)
       PROVE  WriteAhead'
  BY <1>11 DEF LookUp, Acting
<1>12. ASSUME NEW p \in Proc, AlreadyThere(p)
       PROVE  WriteAhead'
  BY <1>12 DEF AlreadyThere, IsThere, Acting, Report
<1>13. ASSUME NEW p \in Proc, CreateReminder(p)
       PROVE  WriteAhead'
  BY <1>13 DEF CreateReminder, Report
<1>14. ASSUME NEW p \in Proc, ConfirmMemory(p)
       PROVE  WriteAhead'
  BY <1>14 DEF ConfirmMemory, Report
<1>15. ASSUME NEW p \in Proc, WriteCalendar(p)
       PROVE  WriteAhead'
  BY <1>15 DEF WriteCalendar, Acting, Report
<1>16. ASSUME NEW p \in Proc, Send(p)
       PROVE  WriteAhead'
  BY <1>16 DEF Send, Acting, Report
<1>17. ASSUME NEW p \in Proc, Settle(p)
       PROVE  WriteAhead'
  <2>1. PICK k \in Key : k = <<job[p], at[p]>>
    BY KeyRow
  <2>2. effect' = [effect EXCEPT ![k] = outcome[p]] /\ outcome[p] # "none" /\ effect[k] # "none"
    BY <1>17, <2>1 DEF Settle, SettleRow
  <2>3. \A l \in Key : effect[l] # "none" <=> effect'[l] # "none"
    BY <2>2
  <2>4. \A q \in Proc \ {p} : pc'[q] = pc[q] /\ at'[q] = at[q]
    BY <1>17 DEF Settle, Advance
  <2>5. pc'[p] \notin {"act", "create"} /\ (pc'[p] = "settle" => at'[p] = 0)
    BY <1>17 DEF Settle, Advance
  <2>6. status' = status /\ calls' = calls /\ job' = job /\ pc[p] = "settle"
    BY <1>17 DEF Settle
  <2>7. ASSUME NEW a \in Approval
        PROVE  status'[a] \in Accepted <=> effect'[<<a, 0>>] # "none"
    <3>1. <<a, 0>> \in Key
      BY KeyRow
    <3>2. effect[<<a, 0>>] # "none" <=> effect'[<<a, 0>>] # "none"
      BY <2>3, <3>1
    <3>3. status[a] \in Accepted <=> effect[<<a, 0>>] # "none"
      BY DEF WriteAhead
    <3>4. QED
      BY <2>6, <3>2, <3>3
  <2>8. \A l \in Key : calls'[l] > 0 => effect'[l] # "none"
    BY <2>3, <2>6
  <2>9. ASSUME NEW q \in Proc, pc'[q] \in {"act", "create", "settle"}
        PROVE  effect'[<<job'[q], at'[q]>>] # "none"
    <3>1. CASE q = p
      BY <2>5, <2>6, <2>7, <2>9, <3>1
    <3>2. CASE q # p
      BY <2>3, <2>4, <2>6, <2>9, <3>2, KeyRow
    <3>3. QED
      BY <3>1, <3>2
  <2>10. QED
    BY <2>7, <2>8, <2>9
<1>18. ASSUME NEW p \in Proc, ReadFact(p)
       PROVE  WriteAhead'
  BY <1>18 DEF ReadFact
<1>19. ASSUME NEW p \in Proc, ConfirmFact(p)
       PROVE  WriteAhead'
  BY <1>19 DEF ConfirmFact
<1>20. ASSUME NEW p \in Proc, ConfirmRefused(p)
       PROVE  WriteAhead'
  BY <1>20 DEF ConfirmRefused, Die
<1>21. ASSUME NEW p \in Proc, Mark(p)
       PROVE  WriteAhead'
  BY <1>21 DEF Mark, Verdict
<1>22. ASSUME NEW p \in Proc, Tell(p)
       PROVE  WriteAhead'
  BY <1>22 DEF Tell, Return
<1>23. ASSUME NEW p \in Proc, NEW k \in Key, ReconReplay(p, k)
       PROVE  WriteAhead'
  BY <1>23 DEF ReconReplay, Oldest
<1>24. ASSUME NEW p \in Proc, NEW k \in Key, ReconUnknown(p, k)
       PROVE  WriteAhead'
  BY <1>24 DEF ReconUnknown, Oldest, SettleRow
<1>25. ASSUME NEW p \in Proc, Scan(p)
       PROVE  WriteAhead'
  BY <1>25, KeyParts DEF Scan, Stale, Overdue
<1>26. ASSUME NEW p \in Proc, Crash(p)
       PROVE  WriteAhead'
  BY <1>26 DEF Crash, Die
<1>27. ASSUME NEW p \in Proc, NEW c \in Person, NEW a \in Approval, PressConfirm(p, c, a)
       PROVE  WriteAhead'
  BY <1>27 DEF PressConfirm
<1>28. ASSUME NEW p \in Proc, NEW a \in Approval, PressReject(p, a)
       PROVE  WriteAhead'
  BY <1>28 DEF PressReject, CancelRow
<1>29. ASSUME NEW p \in Proc, NEW a \in Approval, NEW i \in 1..Width, PressToggle(p, a, i)
       PROVE  WriteAhead'
  BY <1>29 DEF PressToggle
<1>30. ASSUME NEW k \in Key, LeaseLapses(k)
       PROVE  WriteAhead'
  BY <1>30 DEF LeaseLapses
<1>31. ASSUME NEW c \in Person, MissForgotten(c)
       PROVE  WriteAhead'
  BY <1>31 DEF MissForgotten
<1>32. ASSUME NEW f \in Fact, Supersede(f)
       PROVE  WriteAhead'
  BY <1>32 DEF Supersede
<1>33. QED
  BY <1>1, <1>2, <1>3, <1>4, <1>5, <1>6, <1>7, <1>8, <1>9, <1>10, <1>11,
     <1>12, <1>13, <1>14, <1>15, <1>16, <1>17, <1>18, <1>19, <1>20, <1>21,
     <1>22, <1>23, <1>24, <1>25, <1>26, <1>27, <1>28, <1>29, <1>30, <1>31,
     <1>32 DEF Next, Step

-----------------------------------------------------------------------------
(* Nobody calls twice *)

\* The row of an item was made after the approval's own row.
OwnRowIsOlder ==
  \A k \in Key : effect[k] # "none" /\ k[2] # 0 => born[<<k[1], 0>>] < born[k]

Inv == TypeOK /\ Custody /\ WriteAhead /\ NoSecondHand /\ OwnRowIsOlder

\* What a process drives was accepted.
LEMMA DriverHolds ==
  ASSUME Custody, NEW q \in Proc, Driving(q)
  PROVE  status[job[q]] \in Accepted
BY DEF Custody, Executing, Driving, Held

\* A card comes under a fresh id: nobody drives it, it has no rows.
LEMMA StageNoSecondHand ==
  ASSUME Inv, NEW a \in Approval, NEW d \in Cards, Stage(a, d)
  PROVE  NoSecondHand'
<1>1. \A b \in Approval : status[b] \in Accepted => card'[b] = card[b]
  BY DEF Stage, Inv, TypeOK, StoreType, Accepted
<1>2. UNCHANGED <<effect, lapsed, calls, pc, job, at, todo>>
  BY DEF Stage
<1>3. job \in [Proc -> Approval]
  BY DEF Inv, TypeOK, LocalType
<1>4. \A q \in Proc : Driving(q) <=> Driving(q)'
  BY <1>2 DEF Driving, IsExecuted
<1>5. \A q \in Proc : Driving(q) => card'[job[q]] = card[job[q]]
  BY <1>1, <1>3, DriverHolds DEF Inv
<1>6. OneDriver'
  BY <1>2, <1>3, <1>4, <1>5 DEF Inv, NoSecondHand, OneDriver
<1>7. Untouched'
  BY <1>2, <1>3, <1>5 DEF Inv, NoSecondHand, Untouched, UntouchedBy, Driving, IsExecuted, Acting, IsBundle
<1>8. OwnRowFirst'
  BY <1>1, <1>2, KeyParts DEF Inv, NoSecondHand, OwnRowFirst, IsBundle, Custody, Journalled
<1>9. QED
  BY <1>6, <1>7, <1>8 DEF NoSecondHand

LEMMA RestageNoSecondHand ==
  ASSUME Inv, NEW p \in Proc, NEW b \in Approval, Restage(p, b)
  PROVE  NoSecondHand'
<1>1. \A a \in Approval : status[a] \in Accepted => card'[a] = card[a]
  BY DEF Restage, Inv, TypeOK, StoreType, Accepted
<1>2. UNCHANGED <<effect, lapsed, calls, todo>>
  BY DEF Restage, Return
<1>3. job \in [Proc -> Approval] /\ pc \in [Proc -> PcStates] /\ at \in [Proc -> 0..Width]
  BY DEF Inv, TypeOK, LocalType
<1>4. \A q \in Proc \ {p} : pc'[q] = pc[q] /\ job'[q] = job[q] /\ at'[q] = at[q]
  BY <1>3 DEF Restage, Return, Goto
<1>5. pc'[p] \in {"idle", "recon"}
  BY <1>3 DEF Restage, Return, Goto
<1>6. \A q \in Proc : Driving(q)' => q # p /\ Driving(q)
  BY <1>2, <1>4, <1>5 DEF Driving, IsExecuted
<1>7. \A q \in Proc : Driving(q) => card'[job[q]] = card[job[q]]
  BY <1>1, <1>3, DriverHolds DEF Inv
<1>8. OneDriver'
  BY <1>3, <1>4, <1>6, <1>7 DEF Inv, NoSecondHand, OneDriver
<1>9. Untouched'
  BY <1>2, <1>3, <1>4, <1>5, <1>7
     DEF Inv, NoSecondHand, Untouched, UntouchedBy, Driving, IsExecuted, Acting, IsBundle
<1>10. OwnRowFirst'
  BY <1>1, <1>2, KeyParts DEF Inv, NoSecondHand, OwnRowFirst, IsBundle, Custody, Journalled
<1>11. QED
  BY <1>8, <1>9, <1>10 DEF NoSecondHand

\* The claim makes its process the first driver: the approval was staged.
LEMMA ClaimNoSecondHand ==
  ASSUME Inv, NEW p \in Proc, ClaimTaken(p)
  PROVE  NoSecondHand'
<1>1. /\ effect \in [Key -> {"none", "pending"} \cup Settled]
      /\ job \in [Proc -> Approval] /\ pc \in [Proc -> PcStates]
  BY DEF Inv, TypeOK, StoreType, LocalType
<1>2. PICK k \in Key : k = <<job[p], 0>> /\ k[1] = job[p] /\ k[2] = 0
  BY <1>1, RowExists, WidthAssumption
<1>3. effect' = [effect EXCEPT ![k] = "pending"]
  BY <1>2 DEF ClaimTaken, Record
<1>4. UNCHANGED <<card, lapsed, calls, job, at, todo>>
  BY DEF ClaimTaken
<1>5. status[job[p]] \notin Accepted /\ pc[p] = "claim"
  BY DEF ClaimTaken, Accepted
<1>6. \A l \in Key : l[1] = job[p] => effect[l] = "none" /\ calls[l] = 0
  BY <1>5 DEF Inv, Custody, Journalled, TypeOK, WorldType
<1>7. pc'[p] = "find" /\ \A q \in Proc \ {p} : pc'[q] = pc[q]
  BY <1>1 DEF ClaimTaken, Goto
<1>8. \A q \in Proc \ {p} : pc[q] \in Held => job[q] # job[p]
  BY <1>5 DEF Inv, Custody, Executing
<1>9. \A l \in Key : l # k => effect'[l] = effect[l]
  BY <1>1, <1>3
<1>10. \A a \in Approval \ {job[p]} : effect'[<<a, 0>>] = effect[<<a, 0>>]
  <2>1. TAKE a \in Approval \ {job[p]}
  <2>2. PICK l \in Key : l = <<a, 0>> /\ l[1] = a
    BY RowExists, WidthAssumption
  <2>3. QED
    BY <1>2, <1>9, <2>2
<1>11. \A q \in Proc : Driving(q)' => q = p \/ (Driving(q) /\ job[q] # job[p])
  BY <1>1, <1>4, <1>7, <1>8, <1>10 DEF Driving, IsExecuted, Held
<1>12. OneDriver'
  BY <1>4, <1>11 DEF Inv, NoSecondHand, OneDriver
<1>13. Untouched'
  <2>1. ASSUME NEW q \in Proc \ {p}, pc[q] \in Held, NEW i \in 0..Width
        PROVE  effect'[<<job[q], i>>] = effect[<<job[q], i>>]
    <3>1. PICK l \in Key : l = <<job[q], i>> /\ l[1] = job[q]
      BY <1>1, KeyRow
    <3>2. QED
      BY <1>2, <1>8, <1>9, <2>1, <3>1
  <2>2. at \in [Proc -> 0..Width] /\ at[p] = 0
    BY <1>5 DEF Inv, TypeOK, LocalType, Custody, Executing
  <2>3. \A i \in 1..Width : effect'[<<job[p], i>>] = "none"
    <3>1. TAKE i \in 1..Width
    <3>2. PICK l \in Key : l = <<job[p], i>> /\ l[1] = job[p] /\ l[2] = i
      BY <1>1, <1>2, RowExists, WidthAssumption
    <3>3. QED
      BY <1>2, <1>6, <1>9, <3>2
  <2>4. calls[<<job[p], 0>>] = 0
    BY <1>2, <1>6
  <2>5. ASSUME NEW q \in Proc \ {p}
        PROVE  UntouchedBy(q)'
    BY <1>4, <1>7, <2>1, <2>2, <2>5, WidthAssumption
       DEF Inv, NoSecondHand, Untouched, UntouchedBy, IsExecuted, Acting, Held, IsBundle
  <2>6. QED
    BY <1>4, <1>7, <2>2, <2>3, <2>4, <2>5
       DEF Untouched, UntouchedBy, IsExecuted, Acting, IsBundle
<1>14. OwnRowFirst'
  <2>1. \A l \in Key : effect[l] # "none" \/ l \in lapsed => l[1] # job[p] /\ effect'[l] = effect[l]
    BY <1>2, <1>6, <1>9 DEF Inv, NoSecondHand, OwnRowFirst
  <2>2. \A l \in Key : l[2] # 0 => effect'[l] = effect[l]
    BY <1>2, <1>9
  <2>3. \A l \in Key : l[1] \in Approval
    BY KeyParts
  <2>4. \A l \in Key : l \in lapsed => effect'[<<l[1], 0>>] = effect[<<l[1], 0>>]
    BY <1>10, <2>1, <2>3
  <2>5. \A q \in Proc : \A l \in todo[q] :
          /\ l \in Key /\ effect'[l] = effect[l]
          /\ effect'[<<l[1], 0>>] = effect[<<l[1], 0>>]
    BY <1>10, <2>1, <2>3 DEF Inv, TypeOK, LocalType, NoSecondHand, OwnRowFirst
  <2>6. QED
    BY <1>4, <2>1, <2>2, <2>4, <2>5 DEF Inv, NoSecondHand, OwnRowFirst
<1>15. QED
  BY <1>12, <1>13, <1>14 DEF NoSecondHand

\* The driver that finds its effect unsettled starts on untouched rows.
LEMMA FindUntouched ==
  ASSUME Inv, NEW p \in Proc, Find(p)
  PROVE  Untouched'
<1>1. /\ pc \in [Proc -> PcStates] /\ at \in [Proc -> 0..Width]
      /\ outcome \in [Proc -> Settled] /\ job \in [Proc -> Approval]
  BY DEF Inv, TypeOK, LocalType
<1>2. UNCHANGED <<card, effect, calls>> /\ pc[p] = "find" /\ at[p] = 0
  BY DEF Find, Inv, Custody, Executing
<1>3. ASSUME NEW q \in Proc \ {p}
      PROVE  UntouchedBy(q)'
  <2>1. pc'[q] = pc[q] /\ job'[q] = job[q] /\ at'[q] = at[q]
    BY <1>1 DEF Find, Return, Goto, Advance
  <2>2. QED
    BY <1>2, <2>1 DEF Inv, NoSecondHand, Untouched, UntouchedBy, IsExecuted, Acting
<1>4. UntouchedBy(p)'
  <2>1. CASE IsExecuted(p)
    BY <1>1, <1>2, <2>1 DEF Find, Return, Goto, UntouchedBy, Acting
  <2>2. CASE ~IsExecuted(p) /\ ~IsBundle(card[job[p]])
    BY <1>1, <1>2, <2>2 DEF Find, Goto, UntouchedBy, Acting, Inv, NoSecondHand, Untouched
  <2>3. CASE ~IsExecuted(p) /\ IsBundle(card[job[p]])
    <3>1. \A i \in 1..Width : effect[<<job[p], i>>] = "none"
      BY <1>2, <2>3 DEF Inv, NoSecondHand, Untouched, UntouchedBy
    <3>2. job' = job /\ Advance(p, 0, FALSE)
      BY <2>3 DEF Find
    <3>3. card[job[p]].on \subseteq 1..Width
      BY <1>1, CardParts DEF Inv, TypeOK, StoreType
    <3>4. CASE pc'[p] = "settle" /\ at'[p] = 0
      BY <3>4 DEF UntouchedBy, Acting
    <3>5. CASE pc'[p] = "begin" /\ at'[p] > 0
      <4>1. at'[p] \in 1..Width
        BY <1>1, <3>2, <3>3, <3>5, WidthAssumption DEF Advance, Goto
      <4>2. \A i \in at'[p]..Width : effect'[<<job'[p], i>>] = "none"
        BY <1>2, <3>1, <3>2, <4>1, WidthAssumption
      <4>3. QED
        BY <3>5, <4>2 DEF UntouchedBy, Acting
    <3>6. QED
      BY <1>1, <3>2, <3>3, <3>4, <3>5 DEF Advance, Goto
  <2>4. QED
    BY <2>1, <2>2, <2>3
<1>5. QED
  BY <1>3, <1>4 DEF Untouched

\* A begun item is fresh; whoever else drives something has other rows.
LEMMA BeginFresh ==
  ASSUME Inv, NEW p \in Proc, Begin(p)
  PROVE  /\ effect[<<job[p], at[p]>>] = "none"
         /\ Record(<<job[p], at[p]>>)
         /\ Goto(p, "act")
         /\ UNCHANGED <<at, outcome, partial>>
<1>1. at[p] \in at[p]..Width /\ pc[p] = "begin"
  BY WidthAssumption DEF Begin, Inv, TypeOK, LocalType
<1>2. effect[<<job[p], at[p]>>] = "none"
  BY <1>1 DEF Inv, NoSecondHand, Untouched, UntouchedBy
<1>3. QED
  BY <1>2 DEF Begin, Settled

LEMMA BeginUntouched ==
  ASSUME Inv, NEW p \in Proc, Begin(p)
  PROVE  Untouched'
<1>1. /\ pc \in [Proc -> PcStates] /\ at \in [Proc -> 0..Width] /\ job \in [Proc -> Approval]
      /\ effect \in [Key -> {"none", "pending"} \cup Settled] /\ calls \in [Key -> Nat]
  BY DEF Inv, TypeOK, LocalType, StoreType, WorldType
<1>2. PICK k \in Key : k = <<job[p], at[p]>> /\ k[1] = job[p] /\ k[2] = at[p]
  BY <1>1, RowExists
<1>3. effect[k] = "none" /\ effect' = [effect EXCEPT ![k] = "pending"] /\ calls[k] = 0
  BY <1>1, <1>2, BeginFresh DEF Record, Inv, WriteAhead
<1>4. \A l \in Key : l # k => effect'[l] = effect[l]
  BY <1>1, <1>3
<1>5. UNCHANGED <<card, calls, job, at>> /\ pc[p] = "begin" /\ pc' = [pc EXCEPT ![p] = "act"]
  BY BeginFresh DEF Begin, Goto
<1>6. IsBundle(card[job[p]]) /\ at[p] # 0
  BY <1>5 DEF Inv, Custody, Executing
<1>7. \A q \in Proc, i \in 0..Width : <<job[q], i>> # k => effect'[<<job[q], i>>] = effect[<<job[q], i>>]
  <2>1. TAKE q \in Proc, i \in 0..Width
  <2>2. PICK l \in Key : l = <<job[q], i>>
    BY <1>1, RowExists
  <2>3. QED
    BY <1>4, <2>2
<1>8. ASSUME NEW q \in Proc \ {p}
      PROVE  UntouchedBy(q)'
  <2>1. pc'[q] = pc[q]
    BY <1>1, <1>5
  <2>2. ASSUME Driving(q), IsBundle(card[job[q]])
        PROVE  job[q] # job[p]
    BY <1>5, <1>6, <2>2 DEF Inv, NoSecondHand, OneDriver, Driving, IsBundle, Replayable
  <2>3. ASSUME Driving(q), IsBundle(card[job[q]]), NEW i \in 0..Width
        PROVE  effect'[<<job[q], i>>] = effect[<<job[q], i>>]
    BY <1>2, <1>7, <2>2, <2>3
  <2>4. effect'[<<job[q], 0>>] = effect[<<job[q], 0>>]
    <3>1. <<job[q], 0>> # k
      BY <1>2, <1>6, ItemRowIsNotOwn, <1>1
    <3>2. QED
      BY <1>7, <3>1, WidthAssumption
  <2>5. UntouchedBy(q)
    BY DEF Inv, NoSecondHand, Untouched
  <2>6. pc[q] \in {"begin", "act", "create", "settle"} /\ at[q] # 0 => IsBundle(card[job[q]])
    BY DEF Inv, Custody, Executing
  <2>7. pc[q] = "begin" => at[q] # 0
    BY DEF Inv, Custody, Executing
  <2>8. at[q] \in 0..Width
    BY <1>1
  <2>9. QED
    BY <1>5, <2>1, <2>3, <2>4, <2>5, <2>6, <2>7, <2>8, WidthAssumption
       DEF UntouchedBy, Driving, IsExecuted, Acting
<1>9. UntouchedBy(p)'
  <2>1. \A i \in at[p]..Width : effect[<<job[p], i>>] = "none"
    BY <1>5 DEF Inv, NoSecondHand, Untouched, UntouchedBy
  <2>2. \A i \in at[p] + 1 .. Width : effect'[<<job[p], i>>] = "none"
    <3>1. TAKE i \in at[p] + 1 .. Width
    <3>2. i \in 0..Width /\ i # at[p] /\ i \in at[p]..Width
      BY <1>1
    <3>3. <<job[p], i>> # k
      BY <1>2, <3>2
    <3>4. QED
      BY <1>7, <2>1, <3>2, <3>3
  <2>3. QED
    BY <1>1, <1>2, <1>3, <1>5, <2>2 DEF UntouchedBy, Acting
<1>10. QED
  BY <1>8, <1>9 DEF Untouched

\* A call is made on a row nobody has called on, and nobody else drives it.
LEMMA SendOnce ==
  ASSUME Inv, NEW p \in Proc, Send(p)
  PROVE  Untouched' /\ calls[<<job[p], at[p]>>] = 0
<1>1. /\ pc \in [Proc -> PcStates] /\ at \in [Proc -> 0..Width] /\ job \in [Proc -> Approval]
      /\ calls \in [Key -> Nat]
  BY DEF Inv, TypeOK, LocalType, WorldType
<1>2. PICK k \in Key : k = <<job[p], at[p]>> /\ k[1] = job[p] /\ k[2] = at[p]
  BY <1>1, RowExists
<1>3. calls[k] = 0 /\ calls' = [calls EXCEPT ![k] = @ + 1]
  BY <1>2 DEF Send, Inv, NoSecondHand, Untouched, UntouchedBy
<1>4. UNCHANGED <<card, effect, job, at>> /\ pc[p] = "act" /\ pc' = [pc EXCEPT ![p] = "settle"]
  BY DEF Send, Acting, Report, Goto
<1>5. card[job[p]].kind[0] \notin Replayable
  BY <1>4 DEF Send, Acting, Inv, Custody, Executing, IsBundle, Replayable
<1>6. \A l \in Key : l # k => calls'[l] = calls[l]
  BY <1>1, <1>3
<1>7. ASSUME NEW q \in Proc \ {p}
      PROVE  UntouchedBy(q)'
  <2>1. pc'[q] = pc[q] /\ UntouchedBy(q)
    BY <1>1, <1>4 DEF Inv, NoSecondHand, Untouched
  <2>2. ASSUME Driving(q), NEW i \in 0..Width
        PROVE  calls'[<<job[q], i>>] = calls[<<job[q], i>>]
    <3>1. job[q] # job[p]
      BY <1>4, <1>5, <2>2 DEF Inv, NoSecondHand, OneDriver, Driving
    <3>2. PICK l \in Key : l = <<job[q], i>> /\ l[1] = job[q]
      BY <1>1, RowExists
    <3>3. QED
      BY <1>2, <1>6, <3>1, <3>2
  <2>3. at[q] \in 0..Width /\ 0 \in 0..Width
    BY <1>1, WidthAssumption
  <2>4. QED
    BY <1>4, <2>1, <2>2, <2>3 DEF UntouchedBy, Driving, IsExecuted, Acting
<1>8. UntouchedBy(p)'
  BY <1>1, <1>4 DEF UntouchedBy, Acting, Inv, NoSecondHand, Untouched
<1>9. QED
  BY <1>2, <1>3, <1>7, <1>8 DEF Untouched

\* A settled row was there already, so what was untouched stays untouched.
LEMMA SettleUntouched ==
  ASSUME Inv, NEW p \in Proc, Settle(p)
  PROVE  Untouched'
<1>1. /\ pc \in [Proc -> PcStates] /\ at \in [Proc -> 0..Width] /\ job \in [Proc -> Approval]
      /\ outcome \in [Proc -> Settled] /\ effect \in [Key -> {"none", "pending"} \cup Settled]
  BY DEF Inv, TypeOK, LocalType, StoreType
<1>2. PICK k \in Key : k = <<job[p], at[p]>> /\ k[1] = job[p] /\ k[2] = at[p]
  BY <1>1, RowExists
<1>3. UNCHANGED <<card, calls, job>> /\ pc[p] = "settle"
  BY DEF Settle
<1>4. effect[k] # "none" /\ effect' = [effect EXCEPT ![k] = outcome[p]]
  BY <1>2, <1>3 DEF Settle, SettleRow, Inv, WriteAhead
<1>5. \A l \in Key : /\ effect[l] = "none" => effect'[l] = "none"
                     /\ effect[l] \in Settled => effect'[l] \in Settled
  BY <1>1, <1>4
<1>6. ASSUME NEW q \in Proc, NEW i \in 0..Width
      PROVE  /\ effect[<<job[q], i>>] = "none" => effect'[<<job[q], i>>] = "none"
             /\ effect[<<job[q], i>>] \in Settled => effect'[<<job[q], i>>] \in Settled
  <2>1. PICK l \in Key : l = <<job[q], i>>
    BY <1>1, RowExists
  <2>2. QED
    BY <1>5, <2>1
<1>7. ASSUME NEW q \in Proc \ {p}
      PROVE  UntouchedBy(q)'
  <2>1. pc'[q] = pc[q] /\ at'[q] = at[q] /\ UntouchedBy(q)
    BY <1>1 DEF Settle, Goto, Advance, Inv, NoSecondHand, Untouched
  <2>2. at[q] \in 0..Width
    BY <1>1
  <2>3. QED
    BY <1>3, <1>6, <2>1, <2>2, WidthAssumption DEF UntouchedBy, IsExecuted, Acting
<1>8. UntouchedBy(p)'
  <2>1. CASE at[p] = 0 \/ pc'[p] = "settle"
    BY <1>1, <2>1 DEF Settle, Goto, Advance, UntouchedBy, Acting
  <2>2. CASE at[p] # 0 /\ pc'[p] # "settle"
    <3>1. \A i \in at[p] + 1 .. Width : effect[<<job[p], i>>] = "none"
      BY <1>3, <2>2 DEF Inv, NoSecondHand, Untouched, UntouchedBy
    <3>2. card[job[p]].on \subseteq 1..Width
      BY <1>1, CardParts DEF Inv, TypeOK, StoreType
    <3>3. pc'[p] = "begin" /\ at'[p] \in at[p] + 1 .. Width
      BY <1>1, <2>2, <3>2, WidthAssumption DEF Settle, Goto, Advance
    <3>4. \A i \in at'[p]..Width : effect'[<<job[p], i>>] = "none"
      BY <1>1, <1>6, <3>1, <3>3
    <3>5. QED
      BY <1>3, <3>3, <3>4 DEF UntouchedBy, Acting
  <2>3. QED
    BY <2>1, <2>2
<1>9. QED
  BY <1>7, <1>8 DEF Untouched

LEMMA LapseOwnRowFirst ==
  ASSUME Inv, NEW k \in Key, LeaseLapses(k)
  PROVE  OwnRowFirst'
<1>1. lapsed' = lapsed \cup {k} /\ UNCHANGED <<effect, card, todo>>
  BY DEF LeaseLapses
<1>2. effect[k] = "pending" /\ (k[2] # 0 => effect[<<k[1], 0>>] # "pending" \/ <<k[1], 0>> \in lapsed)
  BY DEF LeaseLapses
<1>3. k[2] = 0 => <<k[1], 0>> = k
  BY KeyParts
<1>4. QED
  BY <1>1, <1>2, <1>3 DEF Inv, NoSecondHand, OwnRowFirst

\* A reconciler goes through its list in the order the rows were made in.
LEMMA OldestIsExecuted ==
  ASSUME Inv, NEW p \in Proc, NEW k \in Key, k \in Oldest(p), k[2] # 0
  PROVE  <<k[1], 0>> \notin todo[p] /\ effect[<<k[1], 0>>] \in Settled
<1>0. rows \in Nat /\ born \in [Key -> 0..rows] /\ todo \in [Proc -> SUBSET Key]
  BY DEF Inv, TypeOK, StoreType, LocalType
<1>1. PICK o \in Key : o = <<k[1], 0>>
  BY KeyParts, RowExists, WidthAssumption
<1>2. k \in todo[p] /\ effect[k] # "none"
  BY DEF Oldest, Inv, NoSecondHand, OwnRowFirst
<1>3. born[o] < born[k]
  BY <1>1, <1>2 DEF Inv, OwnRowIsOlder
<1>4. o \notin todo[p]
  BY <1>0, <1>3 DEF Oldest
<1>5. QED
  BY <1>1, <1>2, <1>4 DEF Inv, NoSecondHand, OwnRowFirst

\* What the list of a reconciliation has room for: with the row of an item also
\* the approval's own row, if it is pending.
LEMMA ListedOwnRow ==
  ASSUME Inv, NEW k \in Key, k \in Stale
  PROVE  <<k[1], 0>> \in Stale \/ effect[<<k[1], 0>>] \in Settled
<1>0. /\ rows \in Nat /\ born \in [Key -> 0..rows] /\ StaleLimit \in Nat
      /\ effect \in [Key -> {"none", "pending"} \cup Settled]
  BY LimitAssumption DEF Inv, TypeOK, StoreType
<1>1. PICK o \in Key : o = <<k[1], 0>>
  BY KeyParts, RowExists, WidthAssumption
<1>2. CASE k[2] = 0
  BY <1>2, KeyParts
<1>3. CASE k[2] # 0
  <2>1. effect[k] = "pending" /\ k \in lapsed /\ Cardinality(Before(k)) < StaleLimit
    BY DEF Stale, Overdue
  <2>2. effect[o] # "none" /\ born[o] < born[k]
    BY <1>1, <1>3, <2>1, KeyParts
       DEF Inv, Custody, Journalled, WriteAhead, OwnRowIsOlder
  <2>3. effect[o] = "pending" => o \in Overdue
    BY <1>1, <2>1 DEF Inv, NoSecondHand, OwnRowFirst, Overdue
  <2>4. Before(o) \subseteq Before(k)
    BY <1>0, <2>2 DEF Before, Overdue
  <2>5. IsFiniteSet(Before(k))
    <3>1. IsFiniteSet(Key)
      <4>1. IsFiniteSet(Approval) /\ IsFiniteSet(0..Width)
        BY PartiesAssumption, WidthAssumption, FS_Interval
      <4>2. QED
        BY <4>1, FS_Product DEF Key
    <3>2. Before(k) \subseteq Key
      BY DEF Before, Overdue
    <3>3. QED
      BY <3>1, <3>2, FS_Subset
  <2>6. Cardinality(Before(o)) <= Cardinality(Before(k))
    BY <2>4, <2>5, FS_Subset
  <2>7. Cardinality(Before(o)) \in Nat /\ Cardinality(Before(k)) \in Nat
    BY <2>4, <2>5, FS_Subset, FS_CardinalityType
  <2>8. Cardinality(Before(o)) < StaleLimit
    BY <1>0, <2>1, <2>6, <2>7
  <2>9. effect[o] = "pending" => o \in Stale
    BY <2>3, <2>8 DEF Stale
  <2>10. QED
    BY <1>0, <1>1, <2>2, <2>9
<1>4. QED
  BY <1>2, <1>3

LEMMA ReplayOwnRowFirst ==
  ASSUME Inv, NEW p \in Proc, NEW k \in Key, ReconReplay(p, k)
  PROVE  OwnRowFirst'
<1>1. UNCHANGED <<effect, card, lapsed>> /\ todo' = [todo EXCEPT ![p] = @ \ {k}]
  BY DEF ReconReplay
<1>2. todo \in [Proc -> SUBSET Key]
  BY DEF Inv, TypeOK, LocalType
<1>3. ASSUME NEW l \in todo[p], l # k
      PROVE  <<l[1], 0>> # k
  <2>1. CASE l[2] = 0
    BY <1>2, <1>3, <2>1, KeyParts
  <2>2. CASE l[2] # 0
    <3>1. IsBundle(card[l[1]])
      BY <1>2, <2>2 DEF Inv, NoSecondHand, OwnRowFirst
    <3>2. k[2] = 0 => card[k[1]].kind[0] # "bundle"
      BY DEF ReconReplay, Replayable
    <3>3. <<l[1], 0>>[1] = l[1] /\ <<l[1], 0>>[2] = 0
      OBVIOUS
    <3>4. QED
      BY <3>1, <3>2, <3>3 DEF IsBundle
  <2>3. QED
    BY <2>1, <2>2
<1>4. QED
  BY <1>1, <1>2, <1>3 DEF Inv, NoSecondHand, OwnRowFirst

LEMMA BeginOwnRowFirst ==
  ASSUME Inv, NEW p \in Proc, Begin(p)
  PROVE  OwnRowFirst'
<1>1. /\ at \in [Proc -> 0..Width] /\ job \in [Proc -> Approval]
      /\ effect \in [Key -> {"none", "pending"} \cup Settled]
  BY DEF Inv, TypeOK, LocalType, StoreType
<1>2. IsBundle(card[job[p]]) /\ at[p] # 0
  BY DEF Begin, Inv, Custody, Executing
<1>3. PICK k \in Key : k = <<job[p], at[p]>> /\ k[1] = job[p] /\ k[2] = at[p]
  BY <1>1, RowExists
<1>4. effect[k] = "none" /\ effect' = [effect EXCEPT ![k] = "pending"]
  BY <1>3, BeginFresh DEF Record
<1>5. UNCHANGED <<card, lapsed, todo>>
  BY BeginFresh DEF Begin
<1>6. \A l \in Key : l # k => effect'[l] = effect[l]
  BY <1>1, <1>4
<1>7. \A l \in Key : effect'[<<l[1], 0>>] = effect[<<l[1], 0>>]
  BY <1>2, <1>3, <1>6, KeyParts, ItemRowIsNotOwn
<1>8. QED
  BY <1>2, <1>3, <1>4, <1>5, <1>6, <1>7
     DEF Inv, NoSecondHand, OwnRowFirst, TypeOK, LocalType

\* A reconciler that comes to an item of a card finds its own row settled.
LEMMA ReplayIsExecuted ==
  ASSUME Inv, NEW p \in Proc, NEW k \in Key, ReconReplay(p, k),
         card[k[1]].kind[0] \notin Replayable
  PROVE  effect[<<k[1], 0>>] \in Settled
<1>1. k \in todo[p] /\ k[2] # 0 /\ k[2] \in 0..Width
  BY KeyParts DEF ReconReplay, Oldest
<1>2. QED
  BY <1>1, OldestIsExecuted DEF ReconReplay

LEMMA ReplayNoSecondHand ==
  ASSUME Inv, NEW p \in Proc, NEW k \in Key, ReconReplay(p, k)
  PROVE  NoSecondHand'
<1>1. /\ pc \in [Proc -> PcStates] /\ job \in [Proc -> Approval]
  BY DEF Inv, TypeOK, LocalType
<1>2. UNCHANGED <<card, effect, calls, at>> /\ pc' = [pc EXCEPT ![p] = "find"]
      /\ job' = [job EXCEPT ![p] = k[1]]
  BY DEF ReconReplay, Goto
<1>3. \A q \in Proc \ {p} : /\ Driving(q)' <=> Driving(q)
                            /\ job'[q] = job[q] /\ pc'[q] = pc[q]
  BY <1>1, <1>2 DEF Driving, IsExecuted
<1>4. pc'[p] = "find" /\ job'[p] = k[1]
  BY <1>1, <1>2
<1>5. card[k[1]].kind[0] \notin Replayable => IsExecuted(p)'
  BY <1>2, <1>4, ReplayIsExecuted DEF IsExecuted
<1>6. OneDriver'
  BY <1>2, <1>3, <1>4, <1>5 DEF Inv, NoSecondHand, OneDriver, Driving
<1>7. Untouched'
  <2>1. ASSUME NEW q \in Proc \ {p}
        PROVE  UntouchedBy(q)'
    BY <1>2, <1>3 DEF Inv, NoSecondHand, Untouched, UntouchedBy, IsExecuted, Acting
  <2>2. UntouchedBy(p)'
    BY <1>2, <1>4, <1>5 DEF UntouchedBy, IsBundle, Replayable, Acting
  <2>3. QED
    BY <2>1, <2>2 DEF Untouched
<1>8. QED
  BY <1>6, <1>7, ReplayOwnRowFirst DEF NoSecondHand

LEMMA UnknownUntouched ==
  ASSUME Inv, NEW p \in Proc, NEW k \in Key, ReconUnknown(p, k)
  PROVE  Untouched'
<1>1. /\ pc \in [Proc -> PcStates] /\ job \in [Proc -> Approval] /\ at \in [Proc -> 0..Width]
      /\ effect \in [Key -> {"none", "pending"} \cup Settled] /\ todo \in [Proc -> SUBSET Key]
  BY DEF Inv, TypeOK, LocalType, StoreType
<1>2. effect[k] # "none" /\ effect' = [effect EXCEPT ![k] = "outcome_unknown"]
  BY <1>1 DEF ReconUnknown, Oldest, SettleRow, Inv, NoSecondHand, OwnRowFirst
<1>3. UNCHANGED <<card, calls, at>> /\ pc' = [pc EXCEPT ![p] = "mark"]
      /\ job' = [job EXCEPT ![p] = k[1]]
  BY DEF ReconUnknown, Goto
<1>4. ASSUME NEW q \in Proc, NEW i \in 0..Width
      PROVE  /\ effect[<<job[q], i>>] = "none" => effect'[<<job[q], i>>] = "none"
             /\ effect[<<job[q], i>>] \in Settled => effect'[<<job[q], i>>] \in Settled
  <2>1. PICK l \in Key : l = <<job[q], i>>
    BY <1>1, RowExists
  <2>2. QED
    BY <1>1, <1>2, <2>1 DEF Settled
<1>5. ASSUME NEW q \in Proc \ {p}
      PROVE  UntouchedBy(q)'
  <2>1. pc'[q] = pc[q] /\ job'[q] = job[q] /\ at[q] \in 0..Width /\ UntouchedBy(q)
    BY <1>1, <1>3 DEF Inv, NoSecondHand, Untouched
  <2>2. QED
    BY <1>3, <1>4, <2>1, WidthAssumption DEF UntouchedBy, IsExecuted, Acting
<1>6. UntouchedBy(p)'
  BY <1>1, <1>3 DEF UntouchedBy, Acting
<1>7. QED
  BY <1>5, <1>6 DEF Untouched

\* Every step leaves an approval at most one driver.
LEMMA OneDriverStep ==
  ASSUME Inv, Next
  PROVE  OneDriver'
<1> USE KeyParts, KeyRow, WidthAssumption
       DEF Inv, NoSecondHand, TypeOK, StoreType, WorldType, LocalType, Custody,
           Executing, Journalled, Accepted, Held, WriteAhead, Settled, Goto,
           Acting, IsBundle, Replayable, IsExecuted, Driving, OneDriver
<1>1. ASSUME NEW a \in Approval, NEW d \in Cards, Stage(a, d)
      PROVE  OneDriver'
  BY <1>1, StageNoSecondHand DEF NoSecondHand
<1>2. ASSUME NEW a \in Approval, TtlPasses(a)
      PROVE  OneDriver'
  BY <1>2 DEF TtlPasses
<1>3. ASSUME NEW p \in Proc, ClaimGone(p)
      PROVE  OneDriver'
  BY <1>3 DEF ClaimGone, Return
<1>4. ASSUME NEW p \in Proc, ClaimLate(p)
      PROVE  OneDriver'
  BY <1>4 DEF ClaimLate, Return
<1>5. ASSUME NEW p \in Proc, ClaimTaken(p)
      PROVE  OneDriver'
  BY <1>5, ClaimNoSecondHand DEF NoSecondHand
<1>6. ASSUME NEW p \in Proc, DropFact(p)
      PROVE  OneDriver'
  BY <1>6 DEF DropFact, Return, IsCandidate
<1>7. ASSUME NEW p \in Proc, CancelOld(p)
      PROVE  OneDriver'
  BY <1>7 DEF CancelOld, CancelRow
<1>8. ASSUME NEW p \in Proc, NEW b \in Approval, Restage(p, b)
      PROVE  OneDriver'
  BY <1>8, RestageNoSecondHand DEF NoSecondHand
<1>9. ASSUME NEW p \in Proc, Find(p)
      PROVE  OneDriver'
  BY <1>9 DEF Find, Return, Advance
<1>10. ASSUME NEW p \in Proc, Begin(p)
       PROVE  OneDriver'
  BY <1>10 DEF Begin, Record, Advance
<1>11. ASSUME NEW p \in Proc, LookUp(p)
       PROVE  OneDriver'
  BY <1>11 DEF LookUp, Acting
<1>12. ASSUME NEW p \in Proc, AlreadyThere(p)
       PROVE  OneDriver'
  BY <1>12 DEF AlreadyThere, IsThere, Acting, Report
<1>13. ASSUME NEW p \in Proc, CreateReminder(p)
       PROVE  OneDriver'
  BY <1>13 DEF CreateReminder, Report
<1>14. ASSUME NEW p \in Proc, ConfirmMemory(p)
       PROVE  OneDriver'
  BY <1>14 DEF ConfirmMemory, Report
<1>15. ASSUME NEW p \in Proc, WriteCalendar(p)
       PROVE  OneDriver'
  BY <1>15 DEF WriteCalendar, Acting, Report
<1>16. ASSUME NEW p \in Proc, Send(p)
       PROVE  OneDriver'
  BY <1>16 DEF Send, Acting, Report
<1>17. ASSUME NEW p \in Proc, Settle(p)
       PROVE  OneDriver'
  BY <1>17 DEF Settle, SettleRow, Advance
<1>18. ASSUME NEW p \in Proc, ReadFact(p)
       PROVE  OneDriver'
  BY <1>18 DEF ReadFact
<1>19. ASSUME NEW p \in Proc, ConfirmFact(p)
       PROVE  OneDriver'
  BY <1>19 DEF ConfirmFact
<1>20. ASSUME NEW p \in Proc, ConfirmRefused(p)
       PROVE  OneDriver'
  BY <1>20 DEF ConfirmRefused, Die
<1>21. ASSUME NEW p \in Proc, Mark(p)
       PROVE  OneDriver'
  BY <1>21 DEF Mark, Verdict
<1>22. ASSUME NEW p \in Proc, Tell(p)
       PROVE  OneDriver'
  BY <1>22 DEF Tell, Return
<1>23. ASSUME NEW p \in Proc, NEW k \in Key, ReconReplay(p, k)
       PROVE  OneDriver'
  BY <1>23, ReplayNoSecondHand DEF NoSecondHand
<1>24. ASSUME NEW p \in Proc, NEW k \in Key, ReconUnknown(p, k)
       PROVE  OneDriver'
  BY <1>24 DEF ReconUnknown, Oldest, SettleRow
<1>25. ASSUME NEW p \in Proc, Scan(p)
       PROVE  OneDriver'
  BY <1>25, KeyParts DEF Scan, Stale, Overdue
<1>26. ASSUME NEW p \in Proc, Crash(p)
       PROVE  OneDriver'
  BY <1>26 DEF Crash, Die
<1>27. ASSUME NEW p \in Proc, NEW c \in Person, NEW a \in Approval, PressConfirm(p, c, a)
       PROVE  OneDriver'
  BY <1>27 DEF PressConfirm
<1>28. ASSUME NEW p \in Proc, NEW a \in Approval, PressReject(p, a)
       PROVE  OneDriver'
  BY <1>28 DEF PressReject, CancelRow
<1>29. ASSUME NEW p \in Proc, NEW a \in Approval, NEW i \in 1..Width, PressToggle(p, a, i)
       PROVE  OneDriver'
  BY <1>29 DEF PressToggle
<1>30. ASSUME NEW k \in Key, LeaseLapses(k)
       PROVE  OneDriver'
  BY <1>30 DEF LeaseLapses
<1>31. ASSUME NEW c \in Person, MissForgotten(c)
       PROVE  OneDriver'
  BY <1>31 DEF MissForgotten
<1>32. ASSUME NEW f \in Fact, Supersede(f)
       PROVE  OneDriver'
  BY <1>32 DEF Supersede
<1>33. QED
  BY <1>1, <1>2, <1>3, <1>4, <1>5, <1>6, <1>7, <1>8, <1>9, <1>10, <1>11,
     <1>12, <1>13, <1>14, <1>15, <1>16, <1>17, <1>18, <1>19, <1>20, <1>21,
     <1>22, <1>23, <1>24, <1>25, <1>26, <1>27, <1>28, <1>29, <1>30, <1>31,
     <1>32 DEF Next, Step

\* Every step leaves untouched what its driver has not come to.
LEMMA UntouchedStep ==
  ASSUME Inv, Next
  PROVE  Untouched'
<1> USE KeyParts, KeyRow, WidthAssumption
       DEF Inv, NoSecondHand, TypeOK, StoreType, WorldType, LocalType, Custody,
           Executing, Journalled, Accepted, Held, WriteAhead, Settled, Goto,
           Acting, IsBundle, Replayable, IsExecuted, Driving, Untouched,
           UntouchedBy
<1>1. ASSUME NEW a \in Approval, NEW d \in Cards, Stage(a, d)
      PROVE  Untouched'
  BY <1>1, StageNoSecondHand DEF NoSecondHand
<1>2. ASSUME NEW a \in Approval, TtlPasses(a)
      PROVE  Untouched'
  BY <1>2 DEF TtlPasses
<1>3. ASSUME NEW p \in Proc, ClaimGone(p)
      PROVE  Untouched'
  BY <1>3 DEF ClaimGone, Return
<1>4. ASSUME NEW p \in Proc, ClaimLate(p)
      PROVE  Untouched'
  BY <1>4 DEF ClaimLate, Return
<1>5. ASSUME NEW p \in Proc, ClaimTaken(p)
      PROVE  Untouched'
  BY <1>5, ClaimNoSecondHand DEF NoSecondHand
<1>6. ASSUME NEW p \in Proc, DropFact(p)
      PROVE  Untouched'
  BY <1>6 DEF DropFact, Return, IsCandidate
<1>7. ASSUME NEW p \in Proc, CancelOld(p)
      PROVE  Untouched'
  BY <1>7 DEF CancelOld, CancelRow
<1>8. ASSUME NEW p \in Proc, NEW b \in Approval, Restage(p, b)
      PROVE  Untouched'
  BY <1>8, RestageNoSecondHand DEF NoSecondHand
<1>9. ASSUME NEW p \in Proc, Find(p)
      PROVE  Untouched'
  BY <1>9, FindUntouched
<1>10. ASSUME NEW p \in Proc, Begin(p)
       PROVE  Untouched'
  BY <1>10, BeginUntouched
<1>11. ASSUME NEW p \in Proc, LookUp(p)
       PROVE  Untouched'
  BY <1>11 DEF LookUp, Acting
<1>12. ASSUME NEW p \in Proc, AlreadyThere(p)
       PROVE  Untouched'
  BY <1>12 DEF AlreadyThere, IsThere, Acting, Report
<1>13. ASSUME NEW p \in Proc, CreateReminder(p)
       PROVE  Untouched'
  BY <1>13 DEF CreateReminder, Report
<1>14. ASSUME NEW p \in Proc, ConfirmMemory(p)
       PROVE  Untouched'
  BY <1>14, SMTT(30) DEF ConfirmMemory, Report
<1>15. ASSUME NEW p \in Proc, WriteCalendar(p)
       PROVE  Untouched'
  BY <1>15 DEF WriteCalendar, Acting, Report
<1>16. ASSUME NEW p \in Proc, Send(p)
       PROVE  Untouched'
  BY <1>16, SendOnce
<1>17. ASSUME NEW p \in Proc, Settle(p)
       PROVE  Untouched'
  BY <1>17, SettleUntouched
<1>18. ASSUME NEW p \in Proc, ReadFact(p)
       PROVE  Untouched'
  BY <1>18 DEF ReadFact
<1>19. ASSUME NEW p \in Proc, ConfirmFact(p)
       PROVE  Untouched'
  BY <1>19 DEF ConfirmFact
<1>20. ASSUME NEW p \in Proc, ConfirmRefused(p)
       PROVE  Untouched'
  BY <1>20 DEF ConfirmRefused, Die
<1>21. ASSUME NEW p \in Proc, Mark(p)
       PROVE  Untouched'
  BY <1>21 DEF Mark, Verdict
<1>22. ASSUME NEW p \in Proc, Tell(p)
       PROVE  Untouched'
  BY <1>22 DEF Tell, Return
<1>23. ASSUME NEW p \in Proc, NEW k \in Key, ReconReplay(p, k)
       PROVE  Untouched'
  BY <1>23, ReplayNoSecondHand DEF NoSecondHand
<1>24. ASSUME NEW p \in Proc, NEW k \in Key, ReconUnknown(p, k)
       PROVE  Untouched'
  BY <1>24, UnknownUntouched
<1>25. ASSUME NEW p \in Proc, Scan(p)
       PROVE  Untouched'
  BY <1>25, KeyParts DEF Scan, Stale, Overdue
<1>26. ASSUME NEW p \in Proc, Crash(p)
       PROVE  Untouched'
  BY <1>26 DEF Crash, Die
<1>27. ASSUME NEW p \in Proc, NEW c \in Person, NEW a \in Approval, PressConfirm(p, c, a)
       PROVE  Untouched'
  BY <1>27 DEF PressConfirm
<1>28. ASSUME NEW p \in Proc, NEW a \in Approval, PressReject(p, a)
       PROVE  Untouched'
  BY <1>28 DEF PressReject, CancelRow
<1>29. ASSUME NEW p \in Proc, NEW a \in Approval, NEW i \in 1..Width, PressToggle(p, a, i)
       PROVE  Untouched'
  BY <1>29 DEF PressToggle
<1>30. ASSUME NEW k \in Key, LeaseLapses(k)
       PROVE  Untouched'
  BY <1>30 DEF LeaseLapses
<1>31. ASSUME NEW c \in Person, MissForgotten(c)
       PROVE  Untouched'
  BY <1>31 DEF MissForgotten
<1>32. ASSUME NEW f \in Fact, Supersede(f)
       PROVE  Untouched'
  BY <1>32 DEF Supersede
<1>33. QED
  BY <1>1, <1>2, <1>3, <1>4, <1>5, <1>6, <1>7, <1>8, <1>9, <1>10, <1>11,
     <1>12, <1>13, <1>14, <1>15, <1>16, <1>17, <1>18, <1>19, <1>20, <1>21,
     <1>22, <1>23, <1>24, <1>25, <1>26, <1>27, <1>28, <1>29, <1>30, <1>31,
     <1>32 DEF Next, Step

\* Every step leaves the approval's own row the first to be reconciled.
LEMMA OwnRowFirstStep ==
  ASSUME Inv, Next
  PROVE  OwnRowFirst'
<1> USE KeyParts, KeyRow, WidthAssumption
       DEF Inv, NoSecondHand, TypeOK, StoreType, WorldType, LocalType, Custody,
           Executing, Journalled, Accepted, Held, WriteAhead, Settled, Goto,
           Acting, IsBundle, Replayable, IsExecuted, Driving, OwnRowFirst
<1>1. ASSUME NEW a \in Approval, NEW d \in Cards, Stage(a, d)
      PROVE  OwnRowFirst'
  BY <1>1, StageNoSecondHand DEF NoSecondHand
<1>2. ASSUME NEW a \in Approval, TtlPasses(a)
      PROVE  OwnRowFirst'
  BY <1>2 DEF TtlPasses
<1>3. ASSUME NEW p \in Proc, ClaimGone(p)
      PROVE  OwnRowFirst'
  BY <1>3 DEF ClaimGone, Return
<1>4. ASSUME NEW p \in Proc, ClaimLate(p)
      PROVE  OwnRowFirst'
  BY <1>4 DEF ClaimLate, Return
<1>5. ASSUME NEW p \in Proc, ClaimTaken(p)
      PROVE  OwnRowFirst'
  BY <1>5, ClaimNoSecondHand DEF NoSecondHand
<1>6. ASSUME NEW p \in Proc, DropFact(p)
      PROVE  OwnRowFirst'
  BY <1>6 DEF DropFact, Return, IsCandidate
<1>7. ASSUME NEW p \in Proc, CancelOld(p)
      PROVE  OwnRowFirst'
  BY <1>7 DEF CancelOld, CancelRow
<1>8. ASSUME NEW p \in Proc, NEW b \in Approval, Restage(p, b)
      PROVE  OwnRowFirst'
  BY <1>8, RestageNoSecondHand DEF NoSecondHand
<1>9. ASSUME NEW p \in Proc, Find(p)
      PROVE  OwnRowFirst'
  BY <1>9 DEF Find, Return, Advance
<1>10. ASSUME NEW p \in Proc, Begin(p)
       PROVE  OwnRowFirst'
  BY <1>10, BeginOwnRowFirst
<1>11. ASSUME NEW p \in Proc, LookUp(p)
       PROVE  OwnRowFirst'
  BY <1>11 DEF LookUp, Acting
<1>12. ASSUME NEW p \in Proc, AlreadyThere(p)
       PROVE  OwnRowFirst'
  BY <1>12 DEF AlreadyThere, IsThere, Acting, Report
<1>13. ASSUME NEW p \in Proc, CreateReminder(p)
       PROVE  OwnRowFirst'
  BY <1>13 DEF CreateReminder, Report
<1>14. ASSUME NEW p \in Proc, ConfirmMemory(p)
       PROVE  OwnRowFirst'
  BY <1>14 DEF ConfirmMemory, Report
<1>15. ASSUME NEW p \in Proc, WriteCalendar(p)
       PROVE  OwnRowFirst'
  BY <1>15 DEF WriteCalendar, Acting, Report
<1>16. ASSUME NEW p \in Proc, Send(p)
       PROVE  OwnRowFirst'
  BY <1>16 DEF Send, Acting, Report
<1>17. ASSUME NEW p \in Proc, Settle(p)
       PROVE  OwnRowFirst'
  BY <1>17 DEF Settle, SettleRow, Advance
<1>18. ASSUME NEW p \in Proc, ReadFact(p)
       PROVE  OwnRowFirst'
  BY <1>18 DEF ReadFact
<1>19. ASSUME NEW p \in Proc, ConfirmFact(p)
       PROVE  OwnRowFirst'
  BY <1>19 DEF ConfirmFact
<1>20. ASSUME NEW p \in Proc, ConfirmRefused(p)
       PROVE  OwnRowFirst'
  BY <1>20 DEF ConfirmRefused, Die
<1>21. ASSUME NEW p \in Proc, Mark(p)
       PROVE  OwnRowFirst'
  BY <1>21 DEF Mark, Verdict
<1>22. ASSUME NEW p \in Proc, Tell(p)
       PROVE  OwnRowFirst'
  BY <1>22 DEF Tell, Return
<1>23. ASSUME NEW p \in Proc, NEW k \in Key, ReconReplay(p, k)
       PROVE  OwnRowFirst'
  BY <1>23, ReplayNoSecondHand DEF NoSecondHand
<1>24. ASSUME NEW p \in Proc, NEW k \in Key, ReconUnknown(p, k)
       PROVE  OwnRowFirst'
  BY <1>24 DEF ReconUnknown, Oldest, SettleRow
<1>25. ASSUME NEW p \in Proc, Scan(p)
       PROVE  OwnRowFirst'
  BY <1>25, ListedOwnRow DEF Scan, Stale, Overdue
<1>26. ASSUME NEW p \in Proc, Crash(p)
       PROVE  OwnRowFirst'
  BY <1>26 DEF Crash, Die
<1>27. ASSUME NEW p \in Proc, NEW c \in Person, NEW a \in Approval, PressConfirm(p, c, a)
       PROVE  OwnRowFirst'
  BY <1>27 DEF PressConfirm
<1>28. ASSUME NEW p \in Proc, NEW a \in Approval, PressReject(p, a)
       PROVE  OwnRowFirst'
  BY <1>28 DEF PressReject, CancelRow
<1>29. ASSUME NEW p \in Proc, NEW a \in Approval, NEW i \in 1..Width, PressToggle(p, a, i)
       PROVE  OwnRowFirst'
  BY <1>29 DEF PressToggle
<1>30. ASSUME NEW k \in Key, LeaseLapses(k)
       PROVE  OwnRowFirst'
  BY <1>30, LapseOwnRowFirst
<1>31. ASSUME NEW c \in Person, MissForgotten(c)
       PROVE  OwnRowFirst'
  BY <1>31 DEF MissForgotten
<1>32. ASSUME NEW f \in Fact, Supersede(f)
       PROVE  OwnRowFirst'
  BY <1>32 DEF Supersede
<1>33. QED
  BY <1>1, <1>2, <1>3, <1>4, <1>5, <1>6, <1>7, <1>8, <1>9, <1>10, <1>11,
     <1>12, <1>13, <1>14, <1>15, <1>16, <1>17, <1>18, <1>19, <1>20, <1>21,
     <1>22, <1>23, <1>24, <1>25, <1>26, <1>27, <1>28, <1>29, <1>30, <1>31,
     <1>32 DEF Next, Step


\* The transactions that write effects.status; everything else leaves it.
LEMMA EffectWriters ==
  ASSUME Next
  PROVE  \/ effect' = effect
         \/ \E p \in Proc : ClaimTaken(p) \/ Begin(p) \/ Settle(p)
         \/ \E p \in Proc, k \in Key : ReconUnknown(p, k)
BY ZenonT(60) DEF Next, Step, Scan, Crash, Stage, TtlPasses, PressConfirm, PressReject,
       PressToggle, LeaseLapses, MissForgotten, Supersede, ClaimGone, ClaimLate,
       DropFact, CancelOld, Restage, Find, LookUp, AlreadyThere,
       CreateReminder, ConfirmMemory, WriteCalendar, Send, ReadFact, ConfirmFact,
       ConfirmRefused, Mark, Tell, ReconReplay

\* Rows are dated when they are made.
LEMMA DatesWriters ==
  ASSUME Next
  PROVE  UNCHANGED dates \/ \E p \in Proc : ClaimTaken(p) \/ Begin(p)
BY ZenonT(60) DEF Next, Step, Scan, Crash, Stage, TtlPasses, PressConfirm, PressReject,
       PressToggle, LeaseLapses, MissForgotten, Supersede, ClaimGone, ClaimLate,
       DropFact, CancelOld, Restage, Find, LookUp, AlreadyThere, Settle, ReconUnknown,
       CreateReminder, ConfirmMemory, WriteCalendar, Send, ReadFact, ConfirmFact,
       ConfirmRefused, Mark, Tell, ReconReplay

\* The row of an item is made when the approval's own row is there.
LEMMA OlderStep ==
  ASSUME Inv, Next
  PROVE  OwnRowIsOlder'
<1>0. /\ rows \in Nat /\ born \in [Key -> 0..rows] /\ job \in [Proc -> Approval]
      /\ at \in [Proc -> 0..Width] /\ effect \in [Key -> {"none", "pending"} \cup Settled]
  BY DEF Inv, TypeOK, StoreType, LocalType
<1>1. ASSUME NEW k \in Key, Record(k), k[2] = 0, \A l \in Key : l[1] = k[1] => effect[l] = "none"
      PROVE  OwnRowIsOlder'
  <2>1. ASSUME NEW l \in Key, effect'[l] # "none", l[2] # 0
        PROVE  born'[<<l[1], 0>>] < born'[l]
    <3>1. PICK o \in Key : o = <<l[1], 0>> /\ o[1] = l[1]
      BY KeyParts, RowExists, WidthAssumption
    <3>2. l # k /\ effect[l] # "none"
      BY <1>0, <1>1, <2>1 DEF Record
    <3>3. l[1] # k[1]
      BY <1>1, <3>2
    <3>4. born'[l] = born[l] /\ born'[o] = born[o]
      BY <1>0, <1>1, <3>1, <3>2, <3>3 DEF Record
    <3>5. QED
      BY <2>1, <3>1, <3>2, <3>4 DEF Inv, OwnRowIsOlder
  <2>2. QED
    BY <2>1 DEF OwnRowIsOlder
<1>2. ASSUME NEW k \in Key, Record(k), k[2] # 0, effect[k] = "none"
      PROVE  OwnRowIsOlder'
  <2>1. ASSUME NEW l \in Key, effect'[l] # "none", l[2] # 0
        PROVE  born'[<<l[1], 0>>] < born'[l]
    <3>1. PICK o \in Key : o = <<l[1], 0>> /\ o # k
      BY <1>2, KeyParts, RowExists, ItemRowIsNotOwn, WidthAssumption
    <3>2. born'[o] = born[o] /\ born[o] <= rows
      BY <1>0, <1>2, <3>1 DEF Record
    <3>3. CASE l = k
      BY <1>0, <1>2, <3>1, <3>2, <3>3 DEF Record
    <3>4. CASE l # k
      <4>1. born'[l] = born[l] /\ effect[l] # "none"
        BY <1>0, <1>2, <2>1, <3>4 DEF Record
      <4>2. QED
        BY <2>1, <3>1, <3>2, <4>1 DEF Inv, OwnRowIsOlder
    <3>5. QED
      BY <3>3, <3>4
  <2>2. QED
    BY <2>1 DEF OwnRowIsOlder
<1>3. ASSUME UNCHANGED dates, \A k \in Key : effect'[k] # "none" => effect[k] # "none"
      PROVE  OwnRowIsOlder'
  BY <1>3 DEF Inv, OwnRowIsOlder
<1>4. ASSUME NEW p \in Proc, ClaimTaken(p) PROVE OwnRowIsOlder'
  <2>1. PICK k \in Key : k = <<job[p], 0>> /\ k[1] = job[p] /\ k[2] = 0
    BY <1>0, RowExists, WidthAssumption
  <2>2. Record(k)
    BY <1>4, <2>1 DEF ClaimTaken
  <2>3. status[job[p]] \notin Accepted
    BY <1>4 DEF ClaimTaken, Accepted
  <2>4. \A l \in Key : l[1] = k[1] => effect[l] = "none"
    BY <2>1, <2>3 DEF Inv, Custody, Journalled
  <2>5. QED
    BY <1>1, <2>1, <2>2, <2>4
<1>5. ASSUME NEW p \in Proc, Begin(p) PROVE OwnRowIsOlder'
  <2>1. PICK k \in Key : k = <<job[p], at[p]>> /\ k[2] = at[p]
    BY <1>0, RowExists
  <2>2. k[2] # 0 /\ effect[k] = "none" /\ Record(k)
    BY <1>5, <2>1, BeginFresh DEF Begin, Inv, Custody, Executing
  <2>3. QED
    BY <1>2, <2>2
<1>6. ASSUME NEW k \in Key, NEW r, SettleRow(k, r), effect[k] # "none", UNCHANGED dates
      PROVE  OwnRowIsOlder'
  BY <1>0, <1>3, <1>6 DEF SettleRow
<1>7. ASSUME NEW p \in Proc, Settle(p) PROVE OwnRowIsOlder'
  <2>1. PICK k \in Key : k = <<job[p], at[p]>>
    BY <1>0, RowExists
  <2>2. effect[k] # "none"
    BY <1>7, <2>1 DEF Settle, Inv, WriteAhead
  <2>3. QED
    BY <1>6, <1>7, <2>1, <2>2 DEF Settle
<1>8. ASSUME NEW p \in Proc, NEW k \in Key, ReconUnknown(p, k) PROVE OwnRowIsOlder'
  BY <1>6, <1>8 DEF ReconUnknown, Oldest, Inv, NoSecondHand, OwnRowFirst
<1>9. CASE effect' = effect /\ UNCHANGED dates
  BY <1>3, <1>9
<1>10. QED
  BY <1>4, <1>5, <1>7, <1>8, <1>9, EffectWriters, DatesWriters

-----------------------------------------------------------------------------
(* The theorems *)

LEMMA InitInv == Init => Inv
<1> SUFFICES ASSUME Init PROVE Inv
  OBVIOUS
<1>1. TypeOK
  BY InitType
<1>2. \A k \in Key : k[1] \in Approval /\ k[2] \in 0..Width
  BY KeyParts
<1>3. Custody
  BY <1>2 DEF Init, Custody, YesKept, Executing, Journalled, Accepted, Held
<1>4. WriteAhead
  BY KeyRow, WidthAssumption DEF Init, WriteAhead, Accepted
<1>5. NoSecondHand
  BY DEF Init, NoSecondHand, OneDriver, Untouched, UntouchedBy, OwnRowFirst, Driving, Acting
<1>6. OwnRowIsOlder
  BY DEF Init, OwnRowIsOlder
<1>7. QED
  BY <1>1, <1>3, <1>4, <1>5, <1>6 DEF Inv

LEMMA StutterInv == ASSUME Inv, UNCHANGED vars PROVE Inv'
<1>1. TypeOK'
  BY DEF Inv, TypeOK, StoreType, WorldType, LocalType
<1>2. Custody' /\ WriteAhead'
  BY DEF Inv, Custody, YesKept, Executing, Journalled, WriteAhead
<1>3. OneDriver' /\ Untouched'
  BY DEF Inv, NoSecondHand, OneDriver, Untouched, UntouchedBy, Driving, IsExecuted, Acting
<1>4. OwnRowFirst' /\ OwnRowIsOlder'
  BY DEF Inv, NoSecondHand, OwnRowFirst, OwnRowIsOlder
<1>5. QED
  BY <1>1, <1>2, <1>3, <1>4 DEF Inv, NoSecondHand

\* The inductive invariant: types, the custody of the yes, the write-ahead
\* journal and the single driver hold together or not at all.
THEOREM Inductive == Spec => []Inv
<1>1. Init => Inv
  BY InitInv
<1>2. Inv /\ [Next]_vars => Inv'
  <2>1. CASE UNCHANGED vars
    BY <2>1, StutterInv
  <2>2. ASSUME Inv, Next PROVE Inv'
    BY <2>2, TypeStep, CustodyStep, WriteAheadStep, OneDriverStep, UntouchedStep,
       OwnRowFirstStep, OlderStep DEF Inv, NoSecondHand
  <2>3. QED
    BY <2>1, <2>2
<1>3. QED
  BY <1>1, <1>2, PTL DEF Spec

\* Every reachable state of every instance is well typed.
THEOREM TypeCorrect == Spec => []TypeOK
<1>1. Inv => TypeOK
  BY DEF Inv
<1>2. QED
  BY <1>1, Inductive, PTL

\* An approval is accepted exactly when its effect row exists, and an executor
\* runs only with its row written.
THEOREM RecordBeforeAction == Spec => []WriteAhead
<1>1. Inv => WriteAhead
  BY DEF Inv
<1>2. QED
  BY <1>1, Inductive, PTL

\* Whatever presses, crashes and reconciles happen, an outward call is made
\* only for a part of an accepted card, by the yes of a person entitled to it.
THEOREM YesBeforeCall == Spec => []NothingWithoutYes
<1>1. Inv => NothingWithoutYes
  <2>1. SUFFICES ASSUME Inv, NEW k \in Key, calls[k] > 0
        PROVE  /\ status[k[1]] \in Accepted
               /\ \E c \in claimedBy[k[1]] : c \in Near /\ card[k[1]].kind[k[2]] \in May[c]
               /\ k[2] = 0 \/ k[2] \in card[k[1]].on
    BY DEF NothingWithoutYes
  <2>2. k[1] \in Approval /\ status[k[1]] \in Accepted
    BY <2>1, KeyParts DEF Inv, Custody, Journalled
  <2>3. PICK c \in claimedBy[k[1]] : c \in Near /\ MayConfirm(c, card[k[1]])
    BY <2>1, <2>2 DEF Inv, Custody, YesKept
  <2>4. CASE k[2] = 0
    BY <2>1, <2>2, <2>3, <2>4 DEF Inv, Custody, Journalled, MayConfirm
  <2>5. CASE k[2] # 0
    BY <2>1, <2>2, <2>3, <2>5 DEF Inv, Custody, Journalled, MayConfirm
  <2>6. QED
    BY <2>4, <2>5
<1>2. QED
  BY <1>1, Inductive, PTL

\* A bundle never comes upon a row left by another run of the same bundle.
THEOREM BundlesRunOnce == Spec => []ItemsAreFresh
<1>1. Inv => ItemsAreFresh
  <2>1. SUFFICES ASSUME Inv, NEW p \in Proc, pc[p] = "begin"
        PROVE  effect[<<job[p], at[p]>>] = "none"
    BY DEF ItemsAreFresh
  <2>2. at[p] \in 0..Width
    BY <2>1 DEF Inv, TypeOK, LocalType
  <2>3. at[p] \in at[p]..Width
    BY <2>2, WidthAssumption
  <2>4. QED
    BY <2>1, <2>3 DEF Inv, NoSecondHand, Untouched, UntouchedBy
<1>2. QED
  BY <1>1, Inductive, PTL

\* Only Send calls out.
LEMMA CallsStep ==
  ASSUME TypeOK, Next
  PROVE  \/ calls' = calls
         \/ \E p \in Proc : Send(p)
BY ZenonT(60) DEF Next, Step, Scan, Crash, Stage, TtlPasses, PressConfirm, PressReject,
       PressToggle, LeaseLapses, MissForgotten, Supersede, ClaimGone, ClaimLate,
       ClaimTaken, DropFact, CancelOld, Restage, Find, Begin, LookUp, AlreadyThere,
       CreateReminder, ConfirmMemory, WriteCalendar, Settle, ReadFact, ConfirmFact,
       ConfirmRefused, Mark, Tell, ReconReplay, ReconUnknown

\* No blind retry, with any number of crashes, processes and reconcilers.
THEOREM NoBlindRetry == Spec => []AtMostOneCall
<1>1. Init => AtMostOneCall
  BY DEF Init, AtMostOneCall
<1>2. Inv /\ AtMostOneCall /\ [Next]_vars => AtMostOneCall'
  <2>1. SUFFICES ASSUME Inv, AtMostOneCall, Next PROVE AtMostOneCall'
    BY DEF AtMostOneCall
  <2>2. CASE calls' = calls
    BY <2>1, <2>2 DEF AtMostOneCall
  <2>3. ASSUME NEW p \in Proc, Send(p) PROVE AtMostOneCall'
    <3>1. PICK k \in Key : k = <<job[p], at[p]>>
      BY <2>1, RowExists DEF Inv, TypeOK, LocalType
    <3>2. calls[k] = 0 /\ calls' = [calls EXCEPT ![k] = @ + 1]
      BY <2>1, <2>3, <3>1, SendOnce DEF Send
    <3>3. QED
      BY <2>1, <3>1, <3>2 DEF AtMostOneCall, Inv, TypeOK, WorldType
  <2>4. QED
    BY <2>1, <2>2, <2>3, CallsStep DEF Inv
<1>3. QED
  BY <1>1, <1>2, Inductive, PTL DEF Spec

-----------------------------------------------------------------------------
(* What a step may do to an approval, and the promise it keeps *)

\* The transactions that write approvals.status; everything else leaves it.
LEMMA StatusWriters ==
  ASSUME Next
  PROVE  \/ status' = status
         \/ \E a \in Approval, d \in Cards : Stage(a, d)
         \/ \E p \in Proc : ClaimLate(p) \/ ClaimTaken(p) \/ CancelOld(p) \/ Mark(p)
         \/ \E p \in Proc, a \in Approval : PressReject(p, a) \/ Restage(p, a)
BY ZenonT(60) DEF Next, Step, Scan, Crash, TtlPasses, PressConfirm, PressToggle, LeaseLapses,
       MissForgotten, Supersede, ClaimGone, DropFact, Find, Begin, LookUp,
       AlreadyThere, CreateReminder, ConfirmMemory, WriteCalendar, Send, Settle,
       ReadFact, ConfirmFact, ConfirmRefused, Tell, ReconReplay, ReconUnknown

Forward ==
  \A a \in Approval :
    /\ status[a] \in Accepted => status'[a] \in Accepted
    /\ status[a] \in {"cancelled", "expired"} => status'[a] = status[a]

LEMMA ForwardStep ==
  ASSUME Inv, Next
  PROVE  Forward
<1> USE DEF Forward, Accepted
<1>1. status \in [Approval -> {"absent", "staged", "claimed", "done", "failed",
                               "cancelled", "expired"}]
      /\ job \in [Proc -> Approval]
  BY DEF Inv, TypeOK, StoreType, LocalType
<1>2. CASE status' = status
  BY <1>2
<1>3. ASSUME NEW a \in Approval, NEW d \in Cards, Stage(a, d) PROVE Forward
  BY <1>1, <1>3 DEF Stage
<1>4. ASSUME NEW p \in Proc, ClaimLate(p) PROVE Forward
  BY <1>1, <1>4 DEF ClaimLate
<1>5. ASSUME NEW p \in Proc, ClaimTaken(p) PROVE Forward
  BY <1>1, <1>5 DEF ClaimTaken
<1>6. ASSUME NEW p \in Proc, CancelOld(p) PROVE Forward
  BY <1>1, <1>6 DEF CancelOld, CancelRow
<1>7. ASSUME NEW p \in Proc, Mark(p) PROVE Forward
  <2>1. status[job[p]] \in Accepted
    BY <1>7 DEF Mark, Held, Inv, Custody, Executing
  <2>2. QED
    BY <1>1, <1>7, <2>1 DEF Mark, Verdict
<1>8. ASSUME NEW p \in Proc, NEW a \in Approval, PressReject(p, a) PROVE Forward
  BY <1>1, <1>8 DEF PressReject, CancelRow
<1>9. ASSUME NEW p \in Proc, NEW a \in Approval, Restage(p, a) PROVE Forward
  BY <1>1, <1>9 DEF Restage
<1>10. QED
  BY <1>2, <1>3, <1>4, <1>5, <1>6, <1>7, <1>8, <1>9, StatusWriters

\* An approval only moves forward: a cancelled or expired card is never
\* claimed, an accepted one is never cancelled or offered again, however many
\* processes press, toggle and reconcile.
THEOREM ApprovalsMoveForward == Spec => StatusMovesForward
<1>1. Inv /\ [Next]_vars => [Forward]_status
  BY ForwardStep DEF vars, store
<1>2. QED
  BY <1>1, Inductive, PTL DEF Spec, StatusMovesForward, Forward

\* The initial database is an initial state of the promise.
LEMMA PromiseInit == Init => Promise!Init
<1> SUFFICES ASSUME Init PROVE Promise!Init
  OBVIOUS
<1>1. offer = [a \in Approval |-> "none"]
  BY DEF Init, offer
<1>2. terms \in [Approval -> SUBSET (0..Width)]
  BY WidthAssumption DEF Init, terms, Blank
<1>3. calls = [k \in Approval \X (0..Width) |-> 0]
  BY DEF Init, Key
<1>4. QED
  BY <1>1, <1>2, <1>3 DEF Promise!Init

\* Calls are made by Send alone, which leaves approvals and cards alone.
LEMMA SendIsAttempt ==
  ASSUME Inv, NEW p \in Proc, Send(p)
  PROVE  Promise!Next
<1>1. /\ at \in [Proc -> 0..Width] /\ job \in [Proc -> Approval]
      /\ card \in [Approval -> Card]
  BY DEF Inv, TypeOK, LocalType, StoreType
<1>2. PICK a \in Approval, i \in 0..Width : a = job[p] /\ i = at[p]
  BY <1>1
<1>3. status[a] \in Accepted /\ i \in card[a].on \cup {0}
  BY <1>2 DEF Send, Acting, Held, Inv, Custody, Executing
<1>4. offer[a] = "yes" /\ i \in terms[a]
  BY <1>3 DEF offer, terms, Accepted
<1>5. UNCHANGED <<offer, terms>>
  BY DEF Send, store, offer, terms
<1>6. calls[<<a, i>>] = 0 /\ calls' = [calls EXCEPT ![<<a, i>>] = @ + 1]
  BY <1>2, SendOnce DEF Send
<1>7. calls' = [calls EXCEPT ![<<a, i>>] = 1]
  BY <1>6
<1>8. Promise!Attempt(a, i)
  BY <1>4, <1>5, <1>6, <1>7 DEF Promise!Attempt
<1>9. QED
  BY <1>8 DEF Promise!Next

\* The transactions that write approvals.payload.
LEMMA CardWriters ==
  ASSUME Next
  PROVE  \/ card' = card
         \/ \E a \in Approval, d \in Cards : Stage(a, d)
         \/ \E p \in Proc, a \in Approval : Restage(p, a)
BY ZenonT(60) DEF Next, Step, Scan, Crash, TtlPasses, PressConfirm, PressReject, PressToggle,
       LeaseLapses, MissForgotten, Supersede, ClaimGone, ClaimLate, ClaimTaken,
       DropFact, CancelOld, Find, Begin, LookUp, AlreadyThere, CreateReminder,
       ConfirmMemory, WriteCalendar, Send, Settle, ReadFact, ConfirmFact,
       ConfirmRefused, Mark, Tell, ReconReplay, ReconUnknown

\* A new card is an offer of its parts.
LEMMA NewCardIsOffer ==
  ASSUME TypeOK, NEW a \in Approval, NEW d \in Card,
         status[a] = "absent", status' = [status EXCEPT ![a] = "staged"],
         card' = [card EXCEPT ![a] = d], calls' = calls
  PROVE  Promise!Next
<1>1. /\ status \in [Approval -> {"absent", "staged", "claimed", "done", "failed",
                                  "cancelled", "expired"}]
      /\ card \in [Approval -> Card]
  BY DEF TypeOK, StoreType
<1>2. offer[a] = "none"
  BY DEF offer
<1>3. offer' = [offer EXCEPT ![a] = "open"]
  BY <1>1 DEF offer
<1>4. terms' = [terms EXCEPT ![a] = d.on \cup {0}]
  BY <1>1 DEF terms
<1>5. d.on \cup {0} \in SUBSET (0..Width)
  BY CardParts, WidthAssumption
<1>6. Promise!Offer(a)
  BY <1>2, <1>3, <1>4, <1>5 DEF Promise!Offer
<1>7. QED
  BY <1>6 DEF Promise!Next

\* A step that answers one open card, or none, keeps the promise.
LEMMA AnswerKeepsPromise ==
  ASSUME TypeOK, NEW a \in Approval,
         NEW s \in {"claimed", "done", "failed", "cancelled", "expired"},
         status[a] = "staged", status' = [status EXCEPT ![a] = s],
         card' = card, calls' = calls
  PROVE  Promise!Next
<1>1. status \in [Approval -> {"absent", "staged", "claimed", "done", "failed",
                               "cancelled", "expired"}]
  BY DEF TypeOK, StoreType
<1>2. offer[a] = "open"
  BY DEF offer
<1>3. PICK r \in {"yes", "closed"} : offer' = [offer EXCEPT ![a] = r]
  <2>1. CASE s \in {"cancelled", "expired"}
    <3>1. offer' = [offer EXCEPT ![a] = "closed"]
      BY <1>1, <2>1 DEF offer
    <3>2. QED
      BY <3>1
  <2>2. CASE s \in {"claimed", "done", "failed"}
    <3>1. offer' = [offer EXCEPT ![a] = "yes"]
      BY <1>1, <2>2 DEF offer
    <3>2. QED
      BY <3>1
  <2>3. QED
    BY <2>1, <2>2
<1>4. terms' = terms
  BY DEF terms
<1>5. Promise!Answer(a)
  BY <1>2, <1>3, <1>4 DEF Promise!Answer
<1>6. QED
  BY <1>5 DEF Promise!Next

LEMMA CancelKeepsPromise ==
  ASSUME TypeOK, NEW a \in Approval, CancelRow(a), card' = card, calls' = calls
  PROVE  Promise!Next \/ UNCHANGED Promise!vars
<1>1. CASE status[a] = "staged"
  <2>1. status' = [status EXCEPT ![a] = "cancelled"]
    BY <1>1 DEF CancelRow
  <2>2. QED
    BY <1>1, <2>1, AnswerKeepsPromise
<1>2. CASE status[a] # "staged"
  <2>1. status' = status
    BY <1>2 DEF CancelRow, TypeOK, StoreType
  <2>2. QED
    BY <2>1 DEF Promise!vars, offer, terms
<1>3. QED
  BY <1>1, <1>2

\* The verdict of an accepted approval does not change what was answered.
LEMMA MarkKeepsPromise ==
  ASSUME Inv, NEW p \in Proc, Mark(p)
  PROVE  UNCHANGED Promise!vars
<1>1. /\ status \in [Approval -> {"absent", "staged", "claimed", "done", "failed",
                                  "cancelled", "expired"}]
      /\ job \in [Proc -> Approval]
  BY DEF Inv, TypeOK, StoreType, LocalType
<1>2. status[job[p]] \in {"claimed", "done", "failed"}
  BY DEF Mark, Held, Inv, Custody, Executing, Accepted
<1>3. PICK s \in {"done", "failed"} : status' = [status EXCEPT ![job[p]] = s]
  BY DEF Mark, Verdict
<1>4. offer' = offer
  BY <1>1, <1>2, <1>3 DEF offer
<1>5. UNCHANGED <<card, calls>>
  BY DEF Mark, world
<1>6. QED
  BY <1>4, <1>5 DEF Promise!vars, terms

LEMMA PromiseStep ==
  ASSUME Inv, Next
  PROVE  Promise!Next \/ UNCHANGED Promise!vars
<1>0. TypeOK /\ job \in [Proc -> Approval]
  BY DEF Inv, TypeOK, LocalType
<1>1. CASE \E p \in Proc : Send(p)
  BY <1>1, SendIsAttempt
<1>2. CASE calls' = calls
  <2>1. CASE status' = status /\ card' = card
    BY <1>2, <2>1 DEF Promise!vars, offer, terms
  <2>2. ASSUME NEW a \in Approval, NEW d \in Cards, Stage(a, d) PROVE Promise!Next
    BY <1>0, <1>2, <2>2, CardsAssumption, NewCardIsOffer DEF Stage
  <2>3. ASSUME NEW p \in Proc, NEW b \in Approval, Restage(p, b) PROVE Promise!Next
    <3>1. at[p] \in 1..Width /\ card[job[p]] \in Card
      BY <1>0, <2>3 DEF Restage, Inv, TypeOK, LocalType, StoreType, Custody, Executing
    <3>2. Toggled(card[job[p]], at[p]) \in Card
      BY <3>1, ToggledIsCard
    <3>3. QED
      BY <1>0, <1>2, <2>3, <3>2, NewCardIsOffer DEF Restage
  <2>4. ASSUME NEW p \in Proc, ClaimLate(p) PROVE Promise!Next
    BY <1>0, <1>2, <2>4, AnswerKeepsPromise DEF ClaimLate
  <2>5. ASSUME NEW p \in Proc, ClaimTaken(p) PROVE Promise!Next
    BY <1>0, <1>2, <2>5, AnswerKeepsPromise DEF ClaimTaken
  <2>6. ASSUME NEW p \in Proc, NEW a \in Approval, PressReject(p, a)
        PROVE  Promise!Next \/ UNCHANGED Promise!vars
    BY <1>0, <1>2, <2>6, CancelKeepsPromise DEF PressReject
  <2>7. ASSUME NEW p \in Proc, CancelOld(p)
        PROVE  Promise!Next \/ UNCHANGED Promise!vars
    BY <1>0, <1>2, <2>7, CancelKeepsPromise DEF CancelOld
  <2>8. ASSUME NEW p \in Proc, Mark(p)
        PROVE  UNCHANGED Promise!vars
    BY <2>8, MarkKeepsPromise
  <2>9. QED
    BY <2>1, <2>2, <2>3, <2>4, <2>5, <2>6, <2>7, <2>8, StatusWriters, CardWriters
<1>3. QED
  BY <1>0, <1>1, <1>2, CallsStep

\* The machinery of claims, journal, replays and reconciliation implements the
\* promise: an offer is answered once, and a part is attempted only after a yes
\* to the offer that named it and at most once.
THEOREM Refinement == Spec => KeepsPromise
<1>1. Init => Promise!Init
  BY PromiseInit
<1>2. Inv /\ [Next]_vars => [Promise!Next]_Promise!vars
  <2>1. CASE UNCHANGED vars
    BY <2>1 DEF vars, store, world, Promise!vars, offer, terms
  <2>2. ASSUME Inv, Next PROVE [Promise!Next]_Promise!vars
    BY <2>2, PromiseStep
  <2>3. QED
    BY <2>1, <2>2
<1>3. QED
  BY <1>1, <1>2, Inductive, PTL DEF Spec, KeepsPromise, Promise!Spec

-----------------------------------------------------------------------------
(* What the journal of effects says, and who makes a fact. *)

\* A process that takes a step.
Acts(p) ==
  \/ Step(p) \/ Scan(p) \/ Crash(p)
  \/ \E a \in Approval :
       \/ \E c \in Person : PressConfirm(p, c, a)
       \/ PressReject(p, a)
       \/ \E i \in 1..Width : PressToggle(p, a, i)

\* A step of the clock, of the stage or of another letter.
Elsewhere ==
  \/ \E a \in Approval : (\E d \in Cards : Stage(a, d)) \/ TtlPasses(a)
  \/ \E k \in Key : LeaseLapses(k)
  \/ \E c \in Person : MissForgotten(c)
  \/ \E f \in Fact : Supersede(f)

LEMMA WhoSteps == Next <=> Elsewhere \/ \E p \in Proc : Acts(p)
BY ZenonT(60) DEF Next, Elsewhere, Acts

LEMMA ElsewhereLocal == ASSUME Elsewhere PROVE UNCHANGED local
BY DEF Elsewhere, Stage, TtlPasses, LeaseLapses, MissForgotten, Supersede

SameLocal(p) ==
  pc'[p] = pc[p] /\ job'[p] = job[p] /\ at'[p] = at[p] /\ outcome'[p] = outcome[p]

\* A step of one process leaves the locals of the others alone.
LEMMA OthersStay ==
  ASSUME TypeOK, NEW q \in Proc, Acts(q), NEW p \in Proc, p # q
  PROVE  SameLocal(p)
<1>0. /\ pc \in [Proc -> PcStates] /\ job \in [Proc -> Approval]
      /\ at \in [Proc -> 0..Width] /\ outcome \in [Proc -> Settled]
  BY DEF TypeOK, LocalType
<1> USE DEF SameLocal, Goto
<1>a. ASSUME Return(q) \/ Die(q) PROVE SameLocal(p)
  BY <1>0, <1>a DEF Return, Die
<1>b. ASSUME NEW i, NEW failed, Advance(q, i, failed), job' = job PROVE SameLocal(p)
  BY <1>0, <1>b DEF Advance
<1>c. ASSUME NEW r, Report(q, r) PROVE SameLocal(p)
  BY <1>0, <1>c DEF Report
<1>1. CASE Step(q)
  <2>1. CASE ClaimGone(q) \/ ClaimLate(q) \/ DropFact(q) \/ Tell(q) \/ ConfirmRefused(q)
    BY <1>a, <2>1 DEF ClaimGone, ClaimLate, DropFact, Tell, ConfirmRefused
  <2>2. CASE \E b \in Approval : Restage(q, b)
    BY <1>a, <2>2 DEF Restage
  <2>3. CASE ClaimTaken(q) \/ CancelOld(q) \/ LookUp(q) \/ ReadFact(q) \/ ConfirmFact(q) \/ Mark(q)
    BY <1>0, <2>3 DEF ClaimTaken, CancelOld, LookUp, ReadFact, ConfirmFact, Mark
  <2>4. CASE Find(q)
    <3>1. CASE IsExecuted(q)
      BY <1>a, <2>4, <3>1 DEF Find
    <3>2. CASE ~IsExecuted(q)
      BY <1>0, <1>b, <2>4, <3>2 DEF Find
    <3>3. QED
      BY <3>1, <3>2
  <2>5. CASE Begin(q)
    BY <1>0, <1>b, <2>5 DEF Begin
  <2>6. CASE AlreadyThere(q) \/ CreateReminder(q) \/ ConfirmMemory(q) \/ WriteCalendar(q) \/ Send(q)
    BY <1>c, <2>6 DEF AlreadyThere, CreateReminder, ConfirmMemory, WriteCalendar, Send
  <2>7. CASE Settle(q)
    BY <1>0, <1>b, <2>7 DEF Settle
  <2>8. CASE \E k \in Key : ReconReplay(q, k) \/ ReconUnknown(q, k)
    BY <1>0, <2>8 DEF ReconReplay, ReconUnknown
  <2>9. QED
    BY <1>1, <2>1, <2>2, <2>3, <2>4, <2>5, <2>6, <2>7, <2>8 DEF Step
<1>2. CASE Scan(q) \/ Crash(q)
  BY <1>0, <1>a, <1>2 DEF Scan, Crash
<1>3. CASE \E a \in Approval :
             \/ \E c \in Person : PressConfirm(q, c, a)
             \/ PressReject(q, a)
             \/ \E i \in 1..Width : PressToggle(q, a, i)
  BY <1>0, <1>3 DEF PressConfirm, PressReject, PressToggle
<1>4. QED
  BY <1>1, <1>2, <1>3 DEF Acts

\* The way into the end of an execution, once the own row has been settled.
Late == {"fact", "confirm", "mark", "tell"}

LEMMA LateEntered ==
  ASSUME TypeOK, NEW p \in Proc, Acts(p), pc'[p] \in Late
  PROVE  \/ Settle(p) \/ ReadFact(p) \/ ConfirmFact(p) \/ Mark(p)
         \/ \E k \in Key : ReconUnknown(p, k)
<1>0. pc \in [Proc -> PcStates]
  BY DEF TypeOK, LocalType
<1> USE DEF Goto, Late
<1>a. ~(Return(p) \/ Die(p))
  BY <1>0 DEF Return, Die
<1>b. \A i, failed : ~Advance(p, i, failed)
  BY <1>0 DEF Advance
<1>c. \A r : ~Report(p, r)
  BY <1>0 DEF Report
<1>1. ~(ClaimGone(p) \/ ClaimLate(p) \/ DropFact(p) \/ Tell(p) \/ ConfirmRefused(p) \/ Crash(p))
  BY <1>a DEF ClaimGone, ClaimLate, DropFact, Tell, ConfirmRefused, Crash
<1>2. \A b \in Approval : ~Restage(p, b)
  BY <1>a DEF Restage
<1>3. ~(ClaimTaken(p) \/ CancelOld(p) \/ LookUp(p) \/ Scan(p))
  BY <1>0 DEF ClaimTaken, CancelOld, LookUp, Scan
<1>4. ~(Find(p) \/ Begin(p))
  BY <1>0, <1>a, <1>b DEF Find, Begin
<1>5. ~(AlreadyThere(p) \/ CreateReminder(p) \/ ConfirmMemory(p) \/ WriteCalendar(p) \/ Send(p))
  BY <1>c DEF AlreadyThere, CreateReminder, ConfirmMemory, WriteCalendar, Send
<1>6. \A k \in Key : ~ReconReplay(p, k)
  BY <1>0 DEF ReconReplay
<1>7. ~\E a \in Approval : \/ \E c \in Person : PressConfirm(p, c, a)
                           \/ PressReject(p, a)
                           \/ \E i \in 1..Width : PressToggle(p, a, i)
  BY <1>0 DEF PressConfirm, PressReject, PressToggle
<1>8. QED
  BY <1>1, <1>2, <1>3, <1>4, <1>5, <1>6, <1>7 DEF Acts, Step

\* A process is about to settle a row because its executor has returned, or the
\* own row of a bundle that has come to an end.
LEMMA SettleEntered ==
  ASSUME Inv, NEW p \in Proc, Acts(p), pc'[p] = "settle"
  PROVE  \/ AlreadyThere(p) \/ CreateReminder(p) \/ ConfirmMemory(p) \/ WriteCalendar(p)
         \/ Send(p)
         \/ at'[p] = 0 /\ job'[p] = job[p] /\ IsBundle(card[job[p]]) /\ card' = card
<1>0. pc \in [Proc -> PcStates] /\ at \in [Proc -> 0..Width] /\ job \in [Proc -> Approval]
  BY DEF Inv, TypeOK, LocalType
<1> USE DEF Goto
<1>a. ~(Return(p) \/ Die(p))
  BY <1>0 DEF Return, Die
<1>b. \A i, failed : Advance(p, i, failed) => at'[p] = 0
  BY <1>0 DEF Advance
<1>1. ~(ClaimGone(p) \/ ClaimLate(p) \/ DropFact(p) \/ Tell(p) \/ ConfirmRefused(p) \/ Crash(p))
  BY <1>a DEF ClaimGone, ClaimLate, DropFact, Tell, ConfirmRefused, Crash
<1>2. \A b \in Approval : ~Restage(p, b)
  BY <1>a DEF Restage
<1>3. ~(ClaimTaken(p) \/ CancelOld(p) \/ LookUp(p) \/ Scan(p) \/ ReadFact(p)
        \/ ConfirmFact(p) \/ Mark(p))
  BY <1>0 DEF ClaimTaken, CancelOld, LookUp, Scan, ReadFact, ConfirmFact, Mark
<1>4. Find(p) => at'[p] = 0 /\ job'[p] = job[p] /\ IsBundle(card[job[p]]) /\ card' = card
  BY <1>0, <1>a, <1>b DEF Find
<1>5. Begin(p) => at'[p] = 0 /\ job'[p] = job[p] /\ IsBundle(card[job[p]]) /\ card' = card
  <2>1. SUFFICES ASSUME Begin(p)
                 PROVE  at'[p] = 0 /\ job'[p] = job[p] /\ IsBundle(card[job[p]]) /\ card' = card
    OBVIOUS
  <2>2. IsBundle(card[job[p]])
    BY <2>1 DEF Begin, Inv, Custody, Executing
  <2>3. at'[p] = 0 /\ job'[p] = job[p] /\ card' = card
    BY <1>0, <1>b, <2>1 DEF Begin
  <2>4. QED
    BY <2>2, <2>3
<1>6. Settle(p) => at'[p] = 0 /\ job'[p] = job[p] /\ IsBundle(card[job[p]]) /\ card' = card
  <2>1. SUFFICES ASSUME Settle(p)
                 PROVE  at'[p] = 0 /\ job'[p] = job[p] /\ IsBundle(card[job[p]]) /\ card' = card
    OBVIOUS
  <2>2. at[p] # 0
    BY <1>0, <2>1 DEF Settle
  <2>3. IsBundle(card[job[p]])
    BY <2>1, <2>2 DEF Settle, Inv, Custody, Executing
  <2>4. at'[p] = 0 /\ job'[p] = job[p] /\ card' = card
    BY <1>b, <2>1, <2>2 DEF Settle
  <2>5. QED
    BY <2>3, <2>4
<1>7. \A k \in Key : ~ReconReplay(p, k) /\ ~ReconUnknown(p, k)
  BY <1>0 DEF ReconReplay, ReconUnknown
<1>8. ~\E a \in Approval : \/ \E c \in Person : PressConfirm(p, c, a)
                           \/ PressReject(p, a)
                           \/ \E i \in 1..Width : PressToggle(p, a, i)
  BY <1>0 DEF PressConfirm, PressReject, PressToggle
<1>9. QED
  BY <1>1, <1>2, <1>3, <1>4, <1>5, <1>6, <1>7, <1>8 DEF Acts, Step

\* Only Send delivers, and only Tell tells.
LEMMA WorldWriters ==
  ASSUME Next
  PROVE  /\ (delivered' = delivered /\ calls' = calls) \/ \E p \in Proc : Send(p)
         /\ told' = told \/ \E p \in Proc : Tell(p)
BY ZenonT(60) DEF Next, Step, Scan, Crash, Stage, TtlPasses, PressConfirm, PressReject,
       PressToggle, LeaseLapses, MissForgotten, Supersede, ClaimGone, ClaimLate,
       ClaimTaken, DropFact, CancelOld, Restage, Find, Begin, LookUp, AlreadyThere,
       CreateReminder, ConfirmMemory, WriteCalendar, Send, Settle, ReadFact, ConfirmFact,
       ConfirmRefused, Mark, Tell, ReconReplay, ReconUnknown

\* What became of a card that is on the table stays on it.
LEMMA CardStays ==
  ASSUME TypeOK, Next, NEW a \in Approval, status[a] # "absent"
  PROVE  card'[a] = card[a]
<1>1. card \in [Approval -> Card]
  BY DEF TypeOK, StoreType
<1>2. ASSUME NEW b \in Approval, NEW d \in Cards, Stage(b, d) PROVE card'[a] = card[a]
  BY <1>1, <1>2 DEF Stage
<1>3. ASSUME NEW p \in Proc, NEW b \in Approval, Restage(p, b) PROVE card'[a] = card[a]
  BY <1>1, <1>3 DEF Restage
<1>4. QED
  BY <1>2, <1>3, CardWriters

\* The own row of an approval, once settled, stays settled.
LEMMA SettledStays ==
  ASSUME Inv, Next, NEW a \in Approval, effect[<<a, 0>>] \in Settled
  PROVE  effect'[<<a, 0>>] \in Settled
<1>0. /\ effect \in [Key -> {"none", "pending"} \cup Settled]
      /\ at \in [Proc -> 0..Width] /\ job \in [Proc -> Approval]
      /\ outcome \in [Proc -> Settled]
  BY DEF Inv, TypeOK, StoreType, LocalType
<1>1. PICK o \in Key : o = <<a, 0>> /\ o[1] = a /\ o[2] = 0
  BY RowExists, WidthAssumption
<1>2. ASSUME NEW p \in Proc, ClaimTaken(p) PROVE effect'[o] \in Settled
  <2>1. status[a] \in Accepted
    BY <1>1, WidthAssumption DEF Inv, WriteAhead, Settled
  <2>2. job[p] # a
    BY <1>2, <2>1 DEF ClaimTaken, Accepted
  <2>3. <<job[p], 0>> # o
    BY <1>1, <2>2
  <2>4. QED
    BY <1>0, <1>1, <1>2, <2>3 DEF ClaimTaken, Record
<1>3. ASSUME NEW p \in Proc, Begin(p) PROVE effect'[o] \in Settled
  <2>1. at[p] # 0
    BY <1>3 DEF Begin, Inv, Custody, Executing
  <2>2. PICK k \in Key : k = <<job[p], at[p]>> /\ k[2] = at[p]
    BY <1>0, RowExists
  <2>3. k # o
    BY <1>1, <2>1, <2>2
  <2>4. effect' = effect \/ effect' = [effect EXCEPT ![k] = "pending"]
    BY <1>3, <2>2 DEF Begin, Record
  <2>5. QED
    BY <1>0, <1>1, <2>3, <2>4
<1>4. ASSUME NEW p \in Proc, Settle(p) PROVE effect'[o] \in Settled
  <2>1. PICK k \in Key : k = <<job[p], at[p]>>
    BY <1>0, RowExists
  <2>2. effect' = [effect EXCEPT ![k] = outcome[p]] /\ outcome[p] \in Settled
    BY <1>0, <1>4, <2>1 DEF Settle, SettleRow
  <2>3. QED
    BY <1>0, <1>1, <2>2
<1>5. ASSUME NEW p \in Proc, NEW k \in Key, ReconUnknown(p, k) PROVE effect'[o] \in Settled
  BY <1>0, <1>1, <1>5 DEF ReconUnknown, SettleRow, Settled
<1>6. QED
  BY <1>1, <1>2, <1>3, <1>4, <1>5, EffectWriters

-----------------------------------------------------------------------------
(* What the family is told *)

\* A verdict is written, and told, over a settled own row.
Finished(a) == status[a] \in {"done", "failed"} /\ effect[<<a, 0>>] \in Settled

ToldOK ==
  /\ \A a \in told : Finished(a)
  /\ \A p \in Proc : /\ pc[p] \in Late => effect[<<job[p], 0>>] \in Settled
                     /\ pc[p] = "tell" => status[job[p]] \in {"done", "failed"}

LEMMA VerdictStays ==
  ASSUME Inv, Next, NEW a \in Approval, status[a] \in {"done", "failed"}
  PROVE  status'[a] \in {"done", "failed"}
<1>1. status \in [Approval -> {"absent", "staged", "claimed", "done", "failed",
                               "cancelled", "expired"}]
  BY DEF Inv, TypeOK, StoreType
<1>2. ASSUME NEW b \in Approval, NEW d \in Cards, Stage(b, d)
      PROVE  status'[a] \in {"done", "failed"}
  BY <1>1, <1>2 DEF Stage
<1>3. ASSUME NEW p \in Proc, ClaimLate(p) \/ ClaimTaken(p) \/ CancelOld(p)
      PROVE  status'[a] \in {"done", "failed"}
  BY <1>1, <1>3 DEF ClaimLate, ClaimTaken, CancelOld, CancelRow
<1>4. ASSUME NEW p \in Proc, Mark(p) PROVE status'[a] \in {"done", "failed"}
  BY <1>1, <1>4 DEF Mark, Verdict
<1>5. ASSUME NEW p \in Proc, NEW b \in Approval, PressReject(p, b) \/ Restage(p, b)
      PROVE  status'[a] \in {"done", "failed"}
  BY <1>1, <1>5 DEF PressReject, Restage, CancelRow
<1>6. QED
  BY <1>1, <1>2, <1>3, <1>4, <1>5, StatusWriters

\* A reconciler that gives a row up finds the own row of its approval settled.
LEMMA OwnRowGivenUp ==
  ASSUME Inv, NEW p \in Proc, NEW k \in Key, ReconUnknown(p, k)
  PROVE  effect'[<<k[1], 0>>] \in Settled
<1>0. effect \in [Key -> {"none", "pending"} \cup Settled] /\ todo \in [Proc -> SUBSET Key]
  BY DEF Inv, TypeOK, StoreType, LocalType
<1>1. k[1] \in Approval /\ k[2] \in 0..Width /\ k = <<k[1], k[2]>>
  BY KeyParts
<1>2. PICK o \in Key : o = <<k[1], 0>> /\ o[1] = k[1] /\ o[2] = 0
  BY <1>1, RowExists, WidthAssumption
<1>3. effect' = [effect EXCEPT ![k] = "outcome_unknown"]
  BY DEF ReconUnknown, SettleRow
<1>4. CASE k = o
  BY <1>0, <1>2, <1>3, <1>4 DEF Settled
<1>5. CASE k # o
  <2>1. k[2] # 0
    BY <1>1, <1>2, <1>5
  <2>2. effect[o] \in Settled
    BY <1>2, <2>1, OldestIsExecuted DEF ReconUnknown
  <2>3. QED
    BY <1>0, <1>2, <1>3, <1>5, <2>2
<1>6. QED
  BY <1>4, <1>5

LEMMA ToldStep ==
  ASSUME Inv, ToldOK, Next
  PROVE  ToldOK'
<1>0. /\ pc \in [Proc -> PcStates] /\ job \in [Proc -> Approval]
      /\ at \in [Proc -> 0..Width] /\ told \in SUBSET Approval
      /\ outcome \in [Proc -> Settled]
      /\ effect \in [Key -> {"none", "pending"} \cup Settled]
      /\ status \in [Approval -> {"absent", "staged", "claimed", "done", "failed",
                                  "cancelled", "expired"}]
      /\ TypeOK
  BY DEF Inv, TypeOK, StoreType, LocalType, WorldType
<1>1. ASSUME NEW a \in Approval, Finished(a) PROVE Finished(a)'
  BY <1>1, SettledStays, VerdictStays DEF Finished
<1>2. ASSUME NEW a \in told' PROVE Finished(a)'
  <2>1. CASE told' = told
    BY <1>0, <1>1, <1>2, <2>1 DEF ToldOK
  <2>2. ASSUME NEW p \in Proc, Tell(p) PROVE Finished(a)'
    <3>1. Finished(job[p]) /\ told' = told \cup {job[p]}
      BY <2>2 DEF Tell, ToldOK, Finished, Late
    <3>2. QED
      BY <1>0, <1>1, <1>2, <3>1 DEF ToldOK
  <2>3. QED
    BY <2>1, <2>2, WorldWriters
<1>3. ASSUME NEW p \in Proc, SameLocal(p)
      PROVE  /\ pc'[p] \in Late => effect'[<<job'[p], 0>>] \in Settled
             /\ pc'[p] = "tell" => status'[job'[p]] \in {"done", "failed"}
  BY <1>0, <1>3, SettledStays, VerdictStays DEF ToldOK, SameLocal
<1>4. ASSUME NEW p \in Proc, Acts(p), pc'[p] \in Late
      PROVE  /\ effect'[<<job'[p], 0>>] \in Settled
             /\ pc'[p] = "tell" => status'[job'[p]] \in {"done", "failed"}
  <2>1. CASE Settle(p)
    <3>1. PICK k \in Key : k = <<job[p], at[p]>>
      BY <1>0, RowExists
    <3>2. at[p] = 0
      BY <1>0, <1>4, <2>1 DEF Settle, Advance, Goto, Late
    <3>3. effect' = [effect EXCEPT ![k] = outcome[p]] /\ job' = job /\ outcome[p] \in Settled
      BY <1>0, <2>1, <3>1 DEF Settle, SettleRow
    <3>4. pc'[p] # "tell"
      BY <1>0, <2>1, <3>2 DEF Settle, Goto
    <3>5. QED
      BY <1>0, <3>1, <3>2, <3>3, <3>4
  <2>2. CASE ReadFact(p) \/ ConfirmFact(p) \/ Mark(p)
    <3>1. pc[p] \in Late /\ job' = job /\ effect' = effect
      BY <2>2 DEF ReadFact, ConfirmFact, Mark, Late
    <3>2. pc'[p] = "tell" => Mark(p)
      BY <1>0, <2>2 DEF ReadFact, ConfirmFact, Goto
    <3>3. Mark(p) => status'[job[p]] \in {"done", "failed"}
      BY <1>0 DEF Mark, Verdict
    <3>4. QED
      BY <3>1, <3>2, <3>3 DEF ToldOK
  <2>3. ASSUME NEW k \in Key, ReconUnknown(p, k)
        PROVE  /\ effect'[<<job'[p], 0>>] \in Settled
               /\ pc'[p] = "tell" => status'[job'[p]] \in {"done", "failed"}
    <3>1. pc'[p] = "mark" /\ job'[p] = k[1]
      BY <1>0, <2>3 DEF ReconUnknown, Goto
    <3>2. QED
      BY <2>3, <3>1, OwnRowGivenUp
  <2>4. QED
    BY <1>0, <1>4, <2>1, <2>2, <2>3, LateEntered
<1>5. ASSUME NEW p \in Proc
      PROVE  /\ pc'[p] \in Late => effect'[<<job'[p], 0>>] \in Settled
             /\ pc'[p] = "tell" => status'[job'[p]] \in {"done", "failed"}
  <2>1. CASE Elsewhere
    BY <1>3, <2>1, ElsewhereLocal DEF SameLocal
  <2>2. ASSUME NEW q \in Proc, Acts(q)
        PROVE  /\ pc'[p] \in Late => effect'[<<job'[p], 0>>] \in Settled
               /\ pc'[p] = "tell" => status'[job'[p]] \in {"done", "failed"}
    <3>1. CASE p = q
      BY <1>4, <2>2, <3>1 DEF Late
    <3>2. CASE p # q
      BY <1>0, <1>3, <2>2, <3>2, OthersStay
    <3>3. QED
      BY <3>1, <3>2
  <2>3. QED
    BY <2>1, <2>2, WhoSteps
<1>6. QED
  BY <1>2, <1>5 DEF ToldOK
-----------------------------------------------------------------------------
(* What the journal says of outward calls *)

Outward(k) == card[k[1]].kind[k[2]] = "send"

Row(p) == <<job[p], at[p]>>

\* A result a process holds, and a row it wrote, agree with what reached the world.
SentOK ==
  /\ \A k \in Key :
       /\ k \in delivered => calls[k] > 0
       /\ Outward(k) /\ effect[k] \in {"done", "failed"} =>
            calls[k] > 0 /\ (effect[k] = "done" <=> k \in delivered)
  /\ \A p \in Proc : pc[p] = "settle" /\ Outward(Row(p)) =>
       /\ calls[Row(p)] > 0
       /\ outcome[p] = "done" => Row(p) \in delivered
       /\ outcome[p] = "failed" => Row(p) \notin delivered

\* Once a part has been called for, nothing more is delivered or called for it.
LEMMA WorldStays ==
  ASSUME Inv, Next, NEW k \in Key, calls[k] > 0
  PROVE  calls'[k] > 0 /\ (k \in delivered' <=> k \in delivered)
<1>0. /\ job \in [Proc -> Approval] /\ at \in [Proc -> 0..Width] /\ calls \in [Key -> Nat]
  BY DEF Inv, TypeOK, LocalType, WorldType
<1>1. CASE delivered' = delivered /\ calls' = calls
  BY <1>1
<1>2. ASSUME NEW p \in Proc, Send(p)
      PROVE  calls'[k] > 0 /\ (k \in delivered' <=> k \in delivered)
  <2>1. PICK l \in Key : l = <<job[p], at[p]>>
    BY <1>0, RowExists
  <2>2. l # k
    BY <1>2, <2>1, SendOnce
  <2>3. calls' = [calls EXCEPT ![l] = @ + 1] /\ delivered' \in {delivered, delivered \cup {l}}
    BY <1>2, <2>1 DEF Send
  <2>4. QED
    BY <1>0, <2>2, <2>3
<1>3. QED
  BY <1>1, <1>2, WorldWriters

\* A row that is called done or failed was so before, or a process settles it now.
LEMMA SettledRow ==
  ASSUME Inv, Next, NEW k \in Key, effect'[k] \in {"done", "failed"}
  PROVE  \/ effect[k] = effect'[k]
         \/ \E p \in Proc : Settle(p) /\ k = Row(p) /\ effect'[k] = outcome[p]
<1>0. /\ job \in [Proc -> Approval] /\ at \in [Proc -> 0..Width] /\ 0 \in 0..Width
      /\ effect \in [Key -> {"none", "pending"} \cup Settled]
  BY WidthAssumption DEF Inv, TypeOK, StoreType, LocalType
<1>1. ASSUME NEW p \in Proc, ClaimTaken(p) PROVE effect[k] = effect'[k]
  <2>1. PICK l \in Key : l = <<job[p], 0>>
    BY <1>0, RowExists
  <2>2. effect' = [effect EXCEPT ![l] = "pending"]
    BY <1>1, <2>1 DEF ClaimTaken, Record
  <2>3. QED
    BY <1>0, <2>2
<1>2. ASSUME NEW p \in Proc, Begin(p) PROVE effect[k] = effect'[k]
  <2>1. PICK l \in Key : l = <<job[p], at[p]>>
    BY <1>0, RowExists
  <2>2. effect' = effect \/ effect' = [effect EXCEPT ![l] = "pending"]
    BY <1>2, <2>1 DEF Begin, Record
  <2>3. QED
    BY <1>0, <2>2
<1>3. ASSUME NEW p \in Proc, Settle(p)
      PROVE  effect[k] = effect'[k] \/ (k = Row(p) /\ effect'[k] = outcome[p])
  <2>1. PICK l \in Key : l = Row(p)
    BY <1>0, RowExists DEF Row
  <2>2. effect' = [effect EXCEPT ![l] = outcome[p]]
    BY <1>3, <2>1 DEF Settle, SettleRow, Row
  <2>3. QED
    BY <1>0, <2>1, <2>2
<1>4. ASSUME NEW p \in Proc, NEW l \in Key, ReconUnknown(p, l) PROVE effect[k] = effect'[k]
  BY <1>0, <1>4 DEF ReconUnknown, SettleRow
<1>5. QED
  BY <1>1, <1>2, <1>3, <1>4, EffectWriters

\* What an executor that has returned reports of an outward call.
LEMMA SentStep ==
  ASSUME Inv, SentOK, Next
  PROVE  SentOK'
<1>0. /\ pc \in [Proc -> PcStates] /\ job \in [Proc -> Approval]
      /\ at \in [Proc -> 0..Width] /\ outcome \in [Proc -> Settled]
      /\ calls \in [Key -> Nat] /\ delivered \in SUBSET Key
      /\ card \in [Approval -> Card] /\ TypeOK
  BY DEF Inv, TypeOK, StoreType, LocalType, WorldType
<1>1. ASSUME NEW p \in Proc PROVE Row(p) \in Key /\ Row(p)[1] = job[p] /\ Row(p)[2] = at[p]
  BY <1>0, KeyRow DEF Row
<1>2. ASSUME NEW k \in Key, k \in delivered' PROVE calls'[k] > 0
  <2>1. CASE k \in delivered
    BY <2>1, WorldStays DEF SentOK
  <2>2. CASE k \notin delivered
    <3>1. PICK p \in Proc : Send(p)
      BY <1>2, <2>2, WorldWriters
    <3>2. k = Row(p) /\ calls' = [calls EXCEPT ![k] = @ + 1]
      BY <1>2, <2>2, <3>1 DEF Send, Row
    <3>3. QED
      BY <1>0, <3>2
  <2>3. QED
    BY <2>1, <2>2
<1>3. ASSUME NEW k \in Key, calls[k] > 0 \/ effect[k] # "none" PROVE card'[k[1]] = card[k[1]]
  <2>1. k[1] \in Approval /\ status[k[1]] \in Accepted
    BY <1>3, KeyParts DEF Inv, Custody, Journalled
  <2>2. QED
    BY <1>0, <2>1, CardStays DEF Accepted
<1>4. ASSUME NEW k \in Key, Outward(k)', effect'[k] \in {"done", "failed"}
      PROVE  calls'[k] > 0 /\ (effect'[k] = "done" <=> k \in delivered')
  <2>1. CASE effect[k] = effect'[k]
    <3>1. Outward(k)
      BY <1>3, <1>4, <2>1 DEF Outward
    <3>2. calls[k] > 0 /\ (effect[k] = "done" <=> k \in delivered)
      BY <1>4, <2>1, <3>1 DEF SentOK
    <3>3. QED
      BY <2>1, <3>2, WorldStays
  <2>2. ASSUME NEW p \in Proc, Settle(p), k = Row(p), effect'[k] = outcome[p]
        PROVE  calls'[k] > 0 /\ (effect'[k] = "done" <=> k \in delivered')
    <3>1. card' = card /\ calls' = calls /\ delivered' = delivered /\ pc[p] = "settle"
      BY <2>2 DEF Settle
    <3>2. Outward(Row(p))
      BY <1>4, <2>2, <3>1 DEF Outward
    <3>3. QED
      BY <1>4, <2>2, <3>1, <3>2 DEF SentOK
  <2>3. QED
    BY <1>4, <2>1, <2>2, SettledRow
<1>5. ASSUME NEW p \in Proc, SameLocal(p), pc'[p] = "settle", Outward(Row(p))'
      PROVE  /\ Row(p)' = Row(p) /\ calls'[Row(p)] > 0
             /\ outcome'[p] = "done" => Row(p) \in delivered'
             /\ outcome'[p] = "failed" => Row(p) \notin delivered'
  <2>1. Row(p)' = Row(p) /\ pc[p] = "settle" /\ outcome'[p] = outcome[p]
    BY <1>5 DEF SameLocal, Row
  <2>2. card'[job[p]] = card[job[p]]
    BY <1>0, <2>1, CardStays DEF Held, Accepted, Inv, Custody, Executing
  <2>3. Outward(Row(p))
    BY <1>1, <1>5, <2>1, <2>2 DEF Outward
  <2>4. QED
    BY <1>1, <2>1, <2>3, WorldStays DEF SentOK
<1>6. ASSUME NEW p \in Proc, Acts(p), pc'[p] = "settle", Outward(Row(p))'
      PROVE  /\ Row(p)' = Row(p) /\ calls'[Row(p)] > 0
             /\ outcome'[p] = "done" => Row(p) \in delivered'
             /\ outcome'[p] = "failed" => Row(p) \notin delivered'
  <2>1. CASE AlreadyThere(p) \/ CreateReminder(p) \/ ConfirmMemory(p) \/ WriteCalendar(p)
    <3>1. card' = card /\ job' = job /\ at' = at
      BY <2>1 DEF AlreadyThere, CreateReminder, ConfirmMemory, WriteCalendar, Report
    <3>2. card[job[p]].kind[at[p]] \in {"reminder", "memory", "calendar"}
      BY <2>1 DEF AlreadyThere, CreateReminder, ConfirmMemory, WriteCalendar, IsThere, Acting
    <3>3. QED
      BY <1>1, <1>6, <3>1, <3>2 DEF Outward, Row
  <2>2. CASE Send(p)
    <3>1. PICK k \in Key : k = Row(p)
      BY <1>1
    <3>2. k \notin delivered
      BY <2>2, <3>1, SendOnce DEF SentOK, Row
    <3>3. job' = job /\ at' = at /\ calls' = [calls EXCEPT ![k] = @ + 1]
      BY <2>2, <3>1 DEF Send, Report, Row
    <3>4. /\ outcome'[p] = "done" => k \in delivered'
          /\ outcome'[p] = "failed" => k \notin delivered'
      BY <1>0, <2>2, <3>1, <3>2 DEF Send, Report, Row
    <3>5. QED
      BY <1>0, <3>1, <3>3, <3>4 DEF Row
  <2>3. CASE at'[p] = 0 /\ job'[p] = job[p] /\ IsBundle(card[job[p]]) /\ card' = card
    <3>1. Row(p)' = <<job[p], 0>>
      BY <2>3 DEF Row
    <3>2. Row(p)'[1] = job[p] /\ Row(p)'[2] = 0
      BY <3>1
    <3>3. card'[job[p]].kind[0] = "send"
      BY <1>6, <3>2 DEF Outward
    <3>4. QED
      BY <2>3, <3>3 DEF IsBundle
  <2>4. QED
    BY <1>6, <2>1, <2>2, <2>3, SettleEntered
<1>7. ASSUME NEW p \in Proc, pc'[p] = "settle", Outward(Row(p))'
      PROVE  /\ Row(p)' = Row(p) /\ calls'[Row(p)] > 0
             /\ outcome'[p] = "done" => Row(p) \in delivered'
             /\ outcome'[p] = "failed" => Row(p) \notin delivered'
  <2>1. CASE Elsewhere
    BY <1>5, <1>7, <2>1, ElsewhereLocal DEF SameLocal
  <2>2. ASSUME NEW q \in Proc, Acts(q)
        PROVE  Acts(p) \/ SameLocal(p)
    BY <1>0, <2>2, OthersStay
  <2>3. QED
    BY <1>5, <1>6, <1>7, <2>1, <2>2, WhoSteps
<1>8. QED
  BY <1>2, <1>4, <1>7 DEF SentOK

-----------------------------------------------------------------------------
(* The theorems *)

\* The journal does not lie about outward calls, and the family is told an
\* outcome only over a settled row (_settle, _execute_bundle, reconcile): for any
\* processes, crashes, lapsed leases and reconcilers that give up a row whose
\* executor is still running.
THEOREM JournalIsHonest == Spec => []HonestJournal
<1>1. Init => ToldOK /\ SentOK
  BY DEF Init, ToldOK, SentOK, Late
<1>2. Inv /\ ToldOK /\ SentOK /\ [Next]_vars => ToldOK' /\ SentOK'
  <2>1. CASE UNCHANGED vars
    BY <2>1 DEF ToldOK, SentOK, Finished, Outward, Row
  <2>2. CASE Next
    BY <2>2, ToldStep, SentStep
  <2>3. QED
    BY <2>1, <2>2
<1>3. ToldOK /\ SentOK => HonestJournal
  BY DEF ToldOK, SentOK, Finished, HonestJournal, Outward
<1>4. QED
  BY <1>1, <1>2, <1>3, Inductive, PTL DEF Spec

\* The writers of a fact: a reject, the two confirmations, another letter.
LEMMA FactWriters ==
  ASSUME Next
  PROVE  \/ fact' = fact
         \/ \E p \in Proc : DropFact(p) \/ ConfirmMemory(p) \/ ConfirmFact(p)
         \/ \E f \in Fact : Supersede(f)
BY ZenonT(60) DEF Next, Step, Scan, Crash, Stage, TtlPasses, PressConfirm, PressReject,
       PressToggle, LeaseLapses, MissForgotten, ClaimGone, ClaimLate,
       ClaimTaken, CancelOld, Restage, Find, Begin, LookUp, AlreadyThere,
       CreateReminder, WriteCalendar, Send, Settle, ReadFact,
       ConfirmRefused, Mark, Tell, ReconReplay, ReconUnknown

\* A fact that becomes confirmed is a candidate, of a card a process executes.
LEMMA NewFact ==
  ASSUME Inv, Next, NEW f \in Fact, fact'[f] = "confirmed", fact[f] # "confirmed"
  PROVE  /\ fact[f] = "candidate"
         /\ \E a \in Approval : card[a].fact = f /\ status[a] \in Accepted
<1>0. fact \in [Fact -> {"candidate", "confirmed", "rejected", "superseded"}]
      /\ job \in [Proc -> Approval]
  BY DEF Inv, TypeOK, StoreType, LocalType
<1>1. CASE fact' = fact
  BY <1>1
<1>2. ASSUME NEW p \in Proc, DropFact(p) PROVE FALSE
  BY <1>0, <1>2 DEF DropFact
<1>3. ASSUME NEW g \in Fact, Supersede(g) PROVE FALSE
  BY <1>0, <1>3 DEF Supersede
<1>4. ASSUME NEW p \in Proc, ConfirmMemory(p) \/ ConfirmFact(p)
      PROVE  /\ fact[f] = "candidate"
             /\ card[job[p]].fact = f /\ status[job[p]] \in Accepted
  <2>1. status[job[p]] \in Accepted
    BY <1>4 DEF ConfirmMemory, ConfirmFact, Held, Inv, Custody, Executing
  <2>2. \/ fact' = fact
        \/ /\ fact' = [fact EXCEPT ![card[job[p]].fact] = "confirmed"]
           /\ fact[card[job[p]].fact] = "candidate"
    BY <1>4 DEF ConfirmMemory, ConfirmFact, IsCandidate
  <2>3. QED
    BY <1>0, <2>1, <2>2
<1>5. QED
  BY <1>0, <1>1, <1>2, <1>3, <1>4, FactWriters

\* A hypothesis of the model becomes a fact of the family only by a yes to a card
\* that carries it, and only while it is one (CommitmentStore.confirm,
\* MemoryStore.confirm): no human no, and no newer letter, is turned into a yes by
\* another card, a replay, or a process that read the hypothesis before.
THEOREM FactsHaveAYes == Spec => FactNeedsYes
<1> DEFINE Confirmed ==
      \A f \in Fact : fact'[f] = "confirmed" /\ fact[f] # "confirmed" =>
        /\ fact[f] = "candidate"
        /\ \E a \in Approval : card[a].fact = f /\ status[a] \in Accepted
<1>1. Inv /\ [Next]_vars => [Confirmed]_fact
  BY NewFact DEF vars, store
<1>2. QED
  BY <1>1, Inductive, PTL DEF Spec, FactNeedsYes

-----------------------------------------------------------------------------
(* With one process *)

\* `listen` and `worker` in one process, and no console command meanwhile.
OneProcess == \A p, q \in Proc : p = q

\* A single proposal has no items, and only the card of a bundle is toggled.
CardShapes ==
  /\ \A a \in Approval :
       \/ IsBundle(card[a])
       \/ card[a].on = {} /\ \A i \in 1..Width : card[a].kind[i] = "none"
  /\ \A p \in Proc : pc[p] \in {"cancel", "restage"} => IsBundle(card[job[p]])

\* Only parts a card shows as on have rows.
RowsShown == \A k \in Key : effect[k] # "none" /\ k[2] # 0 => k[2] \in card[k[1]].on

\* How a process comes to retire an old card.
LEMMA ToggleEntered ==
  ASSUME TypeOK, NEW p \in Proc, Acts(p)
  PROVE  /\ pc'[p] = "cancel" => \E a \in Approval, i \in 1..Width : PressToggle(p, a, i)
         /\ pc'[p] = "restage" => CancelOld(p)
<1>0. pc \in [Proc -> PcStates]
  BY DEF TypeOK, LocalType
<1> USE DEF Goto
<1>a. Return(p) \/ Die(p) => pc'[p] \notin {"cancel", "restage"}
  BY <1>0 DEF Return, Die
<1>b. \A i, failed : Advance(p, i, failed) => pc'[p] \notin {"cancel", "restage"}
  BY <1>0 DEF Advance
<1>c. \A r : Report(p, r) => pc'[p] \notin {"cancel", "restage"}
  BY <1>0 DEF Report
<1>1. ClaimGone(p) \/ ClaimLate(p) \/ DropFact(p) \/ Tell(p) \/ ConfirmRefused(p) \/ Crash(p)
        => pc'[p] \notin {"cancel", "restage"}
  BY <1>a DEF ClaimGone, ClaimLate, DropFact, Tell, ConfirmRefused, Crash
<1>2. \A b \in Approval : Restage(p, b) => pc'[p] \notin {"cancel", "restage"}
  BY <1>a DEF Restage
<1>3. ClaimTaken(p) \/ LookUp(p) \/ Scan(p) \/ ReadFact(p) \/ ConfirmFact(p) \/ Mark(p)
        => pc'[p] \notin {"cancel", "restage"}
  BY <1>0 DEF ClaimTaken, LookUp, Scan, ReadFact, ConfirmFact, Mark
<1>4. Find(p) \/ Begin(p) \/ Settle(p) => pc'[p] \notin {"cancel", "restage"}
  BY <1>0, <1>a, <1>b DEF Find, Begin, Settle
<1>5. AlreadyThere(p) \/ CreateReminder(p) \/ ConfirmMemory(p) \/ WriteCalendar(p) \/ Send(p)
        => pc'[p] \notin {"cancel", "restage"}
  BY <1>c DEF AlreadyThere, CreateReminder, ConfirmMemory, WriteCalendar, Send
<1>6. \A k \in Key : ReconReplay(p, k) \/ ReconUnknown(p, k) => pc'[p] \notin {"cancel", "restage"}
  BY <1>0 DEF ReconReplay, ReconUnknown
<1>7. \A a \in Approval : (\E c \in Person : PressConfirm(p, c, a)) \/ PressReject(p, a)
        => pc'[p] \notin {"cancel", "restage"}
  BY <1>0 DEF PressConfirm, PressReject
<1>8. \A a \in Approval, i \in 1..Width : PressToggle(p, a, i) => pc'[p] = "cancel"
  BY <1>0 DEF PressToggle
<1>9. CancelOld(p) => pc'[p] = "restage"
  BY <1>0 DEF CancelOld
<1>10. QED
  BY <1>1, <1>2, <1>3, <1>4, <1>5, <1>6, <1>7, <1>8, <1>9 DEF Acts, Step

LEMMA ShapesStep ==
  ASSUME Inv, CardShapes, Next
  PROVE  CardShapes'
<1> DEFINE Shaped(d) == IsBundle(d) \/ (d.on = {} /\ \A i \in 1..Width : d.kind[i] = "none")
<1>0. /\ pc \in [Proc -> PcStates] /\ job \in [Proc -> Approval] /\ TypeOK
      /\ card \in [Approval -> Card]
  BY DEF Inv, TypeOK, StoreType, LocalType
<1>1. \A a \in Approval : Shaped(card'[a])
  <2>1. CASE card' = card
    BY <2>1 DEF CardShapes
  <2>2. ASSUME NEW b \in Approval, NEW d \in Cards, Stage(b, d)
        PROVE  \A a \in Approval : Shaped(card'[a])
    <3>1. Shaped(d)
      BY CardsAssumption DEF IsBundle
    <3>2. card' = [card EXCEPT ![b] = d]
      BY <2>2 DEF Stage
    <3>3. QED
      BY <1>0, <3>1, <3>2 DEF CardShapes
  <2>3. ASSUME NEW p \in Proc, NEW b \in Approval, Restage(p, b)
        PROVE  \A a \in Approval : Shaped(card'[a])
    <3>1. PICK d : d = card[job[p]] /\ IsBundle(d) /\ d \in Card
      BY <1>0, <2>3 DEF Restage, CardShapes
    <3>2. Toggled(d, at[p]).kind = d.kind
      BY <3>1 DEF Toggled, Card
    <3>3. card' = [card EXCEPT ![b] = Toggled(d, at[p])] /\ IsBundle(Toggled(d, at[p]))
      BY <2>3, <3>1, <3>2 DEF Restage, IsBundle
    <3>4. QED
      BY <1>0, <3>3 DEF CardShapes
  <2>4. QED
    BY <2>1, <2>2, <2>3, CardWriters
<1>2. ASSUME NEW p \in Proc, pc'[p] \in {"cancel", "restage"} PROVE IsBundle(card'[job'[p]])
  <2>1. CASE SameLocal(p)
    <3>1. pc[p] \in {"cancel", "restage"} /\ job'[p] = job[p]
      BY <1>2, <2>1 DEF SameLocal
    <3>2. status[job[p]] # "absent" /\ IsBundle(card[job[p]]) /\ job[p] \in Approval
      BY <1>0, <3>1 DEF Inv, Custody, Executing, CardShapes
    <3>3. QED
      BY <1>0, <3>1, <3>2, CardStays
  <2>2. CASE Acts(p)
    <3>1. ASSUME NEW a \in Approval, NEW i \in 1..Width, PressToggle(p, a, i)
          PROVE  IsBundle(card'[job'[p]])
      <4>1. job'[p] = a /\ card' = card /\ card[a].kind[i] # "none"
        BY <1>0, <3>1 DEF PressToggle
      <4>2. QED
        BY <4>1 DEF CardShapes
    <3>2. CASE CancelOld(p)
      BY <3>2 DEF CancelOld, CardShapes
    <3>3. QED
      BY <1>0, <1>2, <2>2, <3>1, <3>2, ToggleEntered
  <2>3. QED
    BY <1>0, <2>1, <2>2, ElsewhereLocal, OthersStay, WhoSteps DEF SameLocal
<1>3. QED
  BY <1>1, <1>2 DEF CardShapes

\* One row of the journal is written, and no other.
Wrote(a, i, v) ==
  \A b \in Approval, l \in 0..Width :
    effect'[<<b, l>>] = IF b = a /\ l = i THEN v ELSE effect[<<b, l>>]

LEMMA RowWritten ==
  ASSUME TypeOK, NEW a \in Approval, NEW i \in 0..Width, NEW v,
         effect' = [effect EXCEPT ![<<a, i>>] = v]
  PROVE  /\ Wrote(a, i, v)
         /\ \A k \in Key : k # <<a, i>> => effect'[k] = effect[k]
<1>1. effect \in [Key -> {"none", "pending"} \cup Settled]
  BY DEF TypeOK, StoreType
<1>2. \A k \in Key : effect'[k] = IF k = <<a, i>> THEN v ELSE effect[k]
  BY <1>1
<1>3. ASSUME NEW b \in Approval, NEW l \in 0..Width
      PROVE  effect'[<<b, l>>] = IF b = a /\ l = i THEN v ELSE effect[<<b, l>>]
  <2>1. PICK k \in Key : k = <<b, l>>
    BY RowExists
  <2>2. k = <<a, i>> <=> b = a /\ l = i
    BY <2>1
  <2>3. QED
    BY <1>2, <2>1, <2>2
<1>4. QED
  BY <1>2, <1>3 DEF Wrote

LEMMA RowsShownStep ==
  ASSUME Inv, RowsShown, Next
  PROVE  RowsShown'
<1>0. /\ TypeOK /\ job \in [Proc -> Approval] /\ at \in [Proc -> 0..Width] /\ 0 \in 0..Width
      /\ todo \in [Proc -> SUBSET Key]
  BY WidthAssumption DEF Inv, TypeOK, LocalType
<1> SUFFICES ASSUME NEW k \in Key, effect'[k] # "none", k[2] # 0
             PROVE  k[2] \in card'[k[1]].on
  BY DEF RowsShown
<1>1. k[1] \in Approval
  BY KeyParts
<1>2. ASSUME effect[k] # "none" PROVE k[2] \in card'[k[1]].on
  <2>1. status[k[1]] \in Accepted /\ k[2] \in card[k[1]].on
    BY <1>2 DEF Inv, Custody, Journalled, RowsShown
  <2>2. QED
    BY <1>0, <1>1, <2>1, CardStays DEF Accepted
<1>3. ASSUME NEW p \in Proc, ClaimTaken(p) PROVE effect[k] # "none"
  <2>1. effect' = [effect EXCEPT ![<<job[p], 0>>] = "pending"]
    BY <1>3 DEF ClaimTaken, Record
  <2>2. k # <<job[p], 0>>
    OBVIOUS
  <2>3. QED
    BY <1>0, <2>1, <2>2, RowWritten
<1>4. ASSUME NEW p \in Proc, Begin(p) PROVE k[2] \in card'[k[1]].on
  <2>1. at[p] \in card[job[p]].on /\ card' = card
    BY <1>4 DEF Begin, Inv, Custody, Executing
  <2>2. effect' = effect \/ effect' = [effect EXCEPT ![<<job[p], at[p]>>] = "pending"]
    BY <1>4 DEF Begin, Record
  <2>3. k = <<job[p], at[p]>> \/ effect'[k] = effect[k]
    BY <1>0, <2>2, RowWritten
  <2>4. QED
    BY <1>2, <2>1, <2>3
<1>5. ASSUME NEW p \in Proc, Settle(p) PROVE effect[k] # "none"
  <2>1. effect[<<job[p], at[p]>>] # "none"
    BY <1>5 DEF Settle, Inv, WriteAhead
  <2>2. effect' = [effect EXCEPT ![<<job[p], at[p]>>] = outcome[p]]
    BY <1>5 DEF Settle, SettleRow
  <2>3. k = <<job[p], at[p]>> \/ effect'[k] = effect[k]
    BY <1>0, <2>2, RowWritten
  <2>4. QED
    BY <2>1, <2>3
<1>6. ASSUME NEW p \in Proc, NEW l \in Key, ReconUnknown(p, l) PROVE effect[k] # "none"
  <2>1. effect[l] # "none"
    BY <1>6 DEF ReconUnknown, Oldest, Inv, NoSecondHand, OwnRowFirst
  <2>2. effect' = [effect EXCEPT ![l] = "outcome_unknown"]
    BY <1>6 DEF ReconUnknown, SettleRow
  <2>3. QED
    BY <1>0, <2>1, <2>2 DEF TypeOK, StoreType
<1>7. QED
  BY <1>2, <1>3, <1>4, <1>5, <1>6, EffectWriters

-----------------------------------------------------------------------------
(* What the one process knows of the rows of its approval *)

Own(p) == <<job[p], 0>>
ItemsDone(a) == \A i \in card[a].on : effect[<<a, i>>] = "done"

\* What it has listed as stale is still pending, but for what it has taken from
\* the list; it runs a bundle only when the list is empty.
Listed(p) ==
  /\ pc[p] \in {"idle", "claim", "begin"} => todo[p] = {}
  /\ \A k \in todo[p] : effect[k] = "pending"
  /\ pc[p] = "find" =>
       todo[p] = {} \/ IsExecuted(p) \/ (~IsBundle(card[job[p]]) /\ Own(p) \notin todo[p])
  /\ pc[p] \in {"act", "create", "settle"} =>
       todo[p] = {} \/ (at[p] = 0 /\ Own(p) \notin todo[p])

\* While it executes, its own row is pending and the items behind it are done,
\* unless one has failed.
Driven(p) ==
  /\ pc[p] \in {"begin", "act", "create", "settle"} => effect[Own(p)] = "pending"
  /\ pc[p] \in {"begin", "act", "create", "settle"} /\ at[p] # 0 /\ ~partial[p] =>
       \A i \in card[job[p]].on : i < at[p] => effect[<<job[p], i>>] = "done"
  /\ pc[p] = "create" /\ card[job[p]].kind[at[p]] = "reminder" => reminders[job[p]] = 0

\* The verdict it is about to write is what the rows say.
Concluded(p) ==
  /\ pc[p] = "settle" /\ at[p] = 0 /\ outcome[p] = "done" => ItemsDone(job[p])
  /\ pc[p] \in {"fact", "confirm"} => outcome[p] = "done"
  /\ pc[p] \in {"fact", "confirm", "mark"} =>
       IF outcome[p] = "done" THEN effect[Own(p)] = "done"
                              ELSE effect[Own(p)] \in {"failed", "outcome_unknown"}

Knows(p) == Listed(p) /\ Driven(p) /\ Concluded(p)

\* What the rows say by themselves.
OwnDone == \A a \in Approval : effect[<<a, 0>>] = "done" => ItemsDone(a)

VerdictIsOwn ==
  \A a \in Approval :
    /\ status[a] = "done" => effect[<<a, 0>>] = "done"
    /\ status[a] = "failed" => effect[<<a, 0>>] \in {"failed", "outcome_unknown"}
    /\ reminders[a] <= 1

Serial == CardShapes /\ RowsShown /\ OwnDone /\ VerdictIsOwn /\ \A p \in Proc : Knows(p)

LEMMA InitSerial == ASSUME Init PROVE Serial
<1>1. \A a \in Approval : <<a, 0>> \in Key
  BY WidthAssumption, KeyRow
<1>2. CardShapes
  <2>1. Blank.on = {} /\ \A i \in 1..Width : Blank.kind[i] = "none"
    BY WidthAssumption DEF Blank
  <2>2. QED
    BY <2>1 DEF Init, CardShapes
<1>3. RowsShown /\ OwnDone /\ VerdictIsOwn
  BY <1>1 DEF Init, RowsShown, OwnDone, VerdictIsOwn
<1>4. \A p \in Proc : Knows(p)
  BY DEF Init, Knows, Listed, Driven, Concluded
<1>5. QED
  BY <1>2, <1>3, <1>4 DEF Serial

\* Nothing outside the process changes what it knows.
LEMMA ElsewhereKnows ==
  ASSUME Inv, Elsewhere, NEW p \in Proc, Knows(p)
  PROVE  Knows(p)'
<1>0. TypeOK /\ job \in [Proc -> Approval] /\ pc \in [Proc -> PcStates]
  BY DEF Inv, TypeOK, LocalType
<1>1. /\ pc' = pc /\ job' = job /\ at' = at /\ outcome' = outcome
      /\ partial' = partial /\ todo' = todo
  BY ElsewhereLocal
<1>2. effect' = effect /\ reminders' = reminders
  BY DEF Elsewhere, Stage, TtlPasses, LeaseLapses, MissForgotten, Supersede
<1>3. pc[p] \in Held => card'[job[p]] = card[job[p]]
  <2>1. SUFFICES ASSUME pc[p] \in Held PROVE card'[job[p]] = card[job[p]]
    OBVIOUS
  <2>2. status[job[p]] \in Accepted
    BY <2>1 DEF Inv, Custody, Executing
  <2>3. Next
    BY WhoSteps
  <2>4. QED
    BY <1>0, <2>2, <2>3, CardStays DEF Accepted
<1>4. Listed(p)'
  BY <1>1, <1>2, <1>3 DEF Knows, Listed, IsExecuted, Own, Held
<1>5. Driven(p)'
  BY <1>1, <1>2, <1>3 DEF Knows, Driven, Own, Held
<1>6. Concluded(p)'
  BY <1>1, <1>2, <1>3 DEF Knows, Concluded, ItemsDone, Own, Held
<1>7. QED
  BY <1>4, <1>5, <1>6 DEF Knows

\* Returning, dying and turning to another press keep only the list.
LEMMA ReturnKnows ==
  ASSUME TypeOK, NEW p \in Proc, Knows(p), Return(p) \/ Die(p), effect' = effect
  PROVE  Knows(p)'
<1>1. /\ pc \in [Proc -> PcStates] /\ todo \in [Proc -> SUBSET Key]
  BY DEF TypeOK, LocalType
<1>2. pc'[p] \in {"idle", "recon"} /\ (pc'[p] = "idle" => todo'[p] = {})
      /\ todo'[p] \subseteq todo[p]
  BY <1>1 DEF Return, Die, Goto
<1>3. QED
  BY <1>2 DEF Knows, Listed, Driven, Concluded

Aside == {"recon", "drop", "cancel", "restage", "tell"}

LEMMA AsideKnows ==
  ASSUME NEW p \in Proc, pc'[p] \in Aside, \A k \in todo'[p] : effect'[k] = "pending"
  PROVE  Knows(p)'
BY DEF Aside, Knows, Listed, Driven, Concluded

\* The loop over the items of a bundle.
LEMMA AdvanceKnows ==
  ASSUME TypeOK, NEW p \in Proc, NEW i \in 0..Width, NEW failed \in BOOLEAN,
         Advance(p, i, failed), job' = job, card' = card, todo' = todo, todo[p] = {},
         effect'[Own(p)] = "pending",
         ~failed => \A l \in card[job[p]].on : l <= i => effect'[<<job[p], l>>] = "done"
  PROVE  Knows(p)'
<1>0. /\ pc \in [Proc -> PcStates] /\ at \in [Proc -> 0..Width] /\ job \in [Proc -> Approval]
      /\ outcome \in [Proc -> Settled] /\ partial \in [Proc -> BOOLEAN]
      /\ card \in [Approval -> Card]
  BY DEF TypeOK, StoreType, LocalType
<1>1. card[job[p]].on \subseteq 1..Width
  BY <1>0, CardParts
<1> DEFINE later == {j \in card[job[p]].on : j > i}
<1>2. CASE later = {}
  <2>1. pc'[p] = "settle" /\ at'[p] = 0
        /\ outcome'[p] = (IF failed THEN "failed" ELSE "done")
    BY <1>0, <1>2, WidthAssumption DEF Advance, Goto
  <2>2. outcome'[p] = "done" => \A l \in card[job[p]].on : effect'[<<job[p], l>>] = "done"
    BY <1>1, <1>2, <2>1, WidthAssumption
  <2>3. QED
    BY <2>1, <2>2 DEF Knows, Listed, Driven, Concluded, ItemsDone, Own
<1>3. CASE later # {}
  <2>1. PICK j \in later : (\A l \in later : j <= l) /\ at' = [at EXCEPT ![p] = j]
    BY <1>3 DEF Advance
  <2>2. pc'[p] = "begin" /\ at'[p] = j /\ partial'[p] = failed
    BY <1>0, <1>1, <1>3, <2>1 DEF Advance, Goto
  <2>3. \A l \in card[job[p]].on : l < j => l <= i
    BY <1>1, <2>1, WidthAssumption
  <2>4. ~failed => \A l \in card[job[p]].on : l < j => effect'[<<job[p], l>>] = "done"
    BY <2>3
  <2>5. QED
    BY <2>2, <2>4 DEF Knows, Listed, Driven, Concluded, Own
<1>4. QED
  BY <1>2, <1>3

\* An executor that has returned; what its outcome is does not matter.
LEMMA ReportKnows ==
  ASSUME Inv, CardShapes, NEW p \in Proc, Knows(p), pc[p] \in {"act", "create"},
         NEW result, Report(p, result), card' = card, effect' = effect
  PROVE  Knows(p)'
<1>0. /\ pc \in [Proc -> PcStates] /\ job \in [Proc -> Approval]
  BY DEF Inv, TypeOK, LocalType
<1>1. pc'[p] = "settle" /\ job' = job /\ at' = at /\ partial' = partial /\ todo' = todo
  BY <1>0 DEF Report, Goto
<1>2. at[p] = 0 => card[job[p]].on = {}
  BY <1>0 DEF Inv, Custody, Executing, CardShapes
<1>3. Listed(p)'
  BY <1>1 DEF Knows, Listed, Own
<1>4. Driven(p)'
  BY <1>1 DEF Knows, Driven, Own
<1>5. Concluded(p)'
  BY <1>1, <1>2 DEF Concluded, ItemsDone
<1>6. QED
  BY <1>3, <1>4, <1>5 DEF Knows

LEMMA ActKnows ==
  ASSUME Inv, CardShapes, NEW p \in Proc, Knows(p),
         \/ LookUp(p) \/ AlreadyThere(p) \/ CreateReminder(p)
         \/ ConfirmMemory(p) \/ WriteCalendar(p) \/ Send(p)
  PROVE  Knows(p)'
<1>0. /\ pc \in [Proc -> PcStates] /\ job \in [Proc -> Approval]
      /\ reminders \in [Approval -> Nat]
  BY DEF Inv, TypeOK, StoreType, LocalType
<1>1. CASE LookUp(p)
  <2>1. /\ pc'[p] = "create" /\ pc[p] = "act" /\ job' = job /\ at' = at /\ partial' = partial
        /\ todo' = todo /\ effect' = effect /\ card' = card /\ reminders' = reminders
    BY <1>0, <1>1 DEF LookUp, Goto, Acting
  <2>2. card[job[p]].kind[at[p]] = "reminder" => reminders[job[p]] = 0
    BY <1>0, <1>1, <2>1 DEF LookUp, IsThere, Acting
  <2>3. Listed(p)'
    BY <2>1 DEF Knows, Listed, Own
  <2>4. Driven(p)'
    BY <2>1, <2>2 DEF Knows, Driven, Own
  <2>5. Concluded(p)'
    BY <2>1 DEF Concluded
  <2>6. QED
    BY <2>3, <2>4, <2>5 DEF Knows
<1>2. CASE AlreadyThere(p) \/ CreateReminder(p) \/ ConfirmMemory(p) \/ WriteCalendar(p) \/ Send(p)
  <2>1. pc[p] \in {"act", "create"} /\ card' = card /\ effect' = effect /\ \E result : Report(p, result)
    BY <1>2 DEF AlreadyThere, CreateReminder, ConfirmMemory, WriteCalendar, Send, IsThere, Acting
  <2>2. QED
    BY <2>1, ReportKnows
<1>3. QED
  BY <1>1, <1>2

LEMMA FindKnows ==
  ASSUME Inv, CardShapes, NEW p \in Proc, Knows(p), Find(p)
  PROVE  Knows(p)'
<1>0. /\ pc \in [Proc -> PcStates] /\ job \in [Proc -> Approval] /\ TypeOK
      /\ effect \in [Key -> {"none", "pending"} \cup Settled]
  BY DEF Inv, TypeOK, StoreType, LocalType
<1>1. pc[p] = "find" /\ effect' = effect /\ card' = card /\ at[p] = 0
      /\ status[job[p]] \in Accepted
  BY DEF Find, Inv, Custody, Executing, Held
<1>2. CASE IsExecuted(p)
  BY <1>0, <1>1, <1>2, ReturnKnows DEF Find
<1>3. CASE ~IsExecuted(p)
  <2>1. effect[Own(p)] = "pending"
    <3>1. PICK k \in Key : k = Own(p)
      BY <1>0, RowExists, WidthAssumption DEF Own
    <3>2. effect[Own(p)] # "none"
      BY <1>0, <1>1 DEF Inv, WriteAhead, Own
    <3>3. QED
      BY <1>0, <1>3, <3>1, <3>2 DEF IsExecuted, Own
  <2>2. CASE IsBundle(card[job[p]])
    <3>1. Advance(p, 0, FALSE) /\ job' = job /\ todo' = todo
      BY <1>3, <2>2 DEF Find
    <3>2. todo[p] = {}
      BY <1>1, <1>3, <2>2 DEF Knows, Listed
    <3>3. \A l \in card[job[p]].on : ~(l <= 0)
      BY <1>0, CardParts DEF TypeOK, StoreType
    <3>4. effect'[Own(p)] = "pending" /\ 0 \in 0..Width
      BY <1>1, <2>1, WidthAssumption
    <3>5. QED
      BY <1>0, <1>1, <3>1, <3>2, <3>3, <3>4, AdvanceKnows
  <2>3. CASE ~IsBundle(card[job[p]])
    <3>1. pc'[p] = "act" /\ job' = job /\ at' = at /\ partial' = partial /\ todo' = todo
      BY <1>0, <1>3, <2>3 DEF Find, Goto
    <3>2. Listed(p)'
      BY <1>1, <1>3, <3>1 DEF Knows, Listed, Own
    <3>3. Driven(p)' /\ Concluded(p)'
      BY <1>1, <2>1, <3>1 DEF Driven, Concluded, Own
    <3>4. QED
      BY <3>2, <3>3 DEF Knows
  <2>4. QED
    BY <2>2, <2>3
<1>4. QED
  BY <1>2, <1>3

\* A bundle never comes upon a row that is there, so the item is executed.
LEMMA BeginActs ==
  ASSUME Inv, NEW p \in Proc, Begin(p)
  PROVE  /\ at[p] \in card[job[p]].on /\ at[p] # 0
         /\ effect' = [effect EXCEPT ![<<job[p], at[p]>>] = "pending"]
         /\ pc'[p] = "act" /\ UNCHANGED <<at, outcome, partial>>
<1>0. pc \in [Proc -> PcStates] /\ at \in [Proc -> 0..Width] /\ job \in [Proc -> Approval]
  BY DEF Inv, TypeOK, LocalType
<1>1. pc[p] = "begin" /\ at[p] \in card[job[p]].on /\ at[p] # 0
  BY DEF Begin, Inv, Custody, Executing
<1>2. at[p] \in at[p]..Width
  BY <1>0, WidthAssumption
<1>3. effect[<<job[p], at[p]>>] = "none"
  BY <1>1, <1>2 DEF Inv, NoSecondHand, Untouched, UntouchedBy
<1>4. QED
  BY <1>0, <1>1, <1>3 DEF Begin, Record, Settled, Goto

LEMMA BeginKnows ==
  ASSUME Inv, NEW p \in Proc, Knows(p), Begin(p)
  PROVE  Knows(p)'
<1>0. /\ TypeOK /\ at \in [Proc -> 0..Width] /\ job \in [Proc -> Approval]
      /\ card \in [Approval -> Card] /\ 0 \in 0..Width
  BY WidthAssumption DEF Inv, TypeOK, StoreType, LocalType
<1>1. /\ pc[p] = "begin" /\ card' = card /\ job' = job /\ todo' = todo /\ reminders' = reminders
      /\ todo[p] = {}
  BY DEF Begin, Knows, Listed
<1>2. /\ effect' = [effect EXCEPT ![<<job[p], at[p]>>] = "pending"] /\ pc'[p] = "act"
      /\ at[p] # 0 /\ at' = at /\ partial' = partial
  BY BeginActs
<1>3. \A l \in 0..Width : l # at[p] => effect'[<<job[p], l>>] = effect[<<job[p], l>>]
  BY <1>0, <1>2, RowWritten DEF Wrote
<1>4. effect'[Own(p)] = "pending"
  BY <1>0, <1>1, <1>2, <1>3 DEF Knows, Driven, Own
<1>5. ~partial[p] => \A i \in card[job[p]].on : i < at[p] => effect'[<<job[p], i>>] = "done"
  <2>1. card[job[p]].on \subseteq 0..Width
    BY <1>0, CardParts
  <2>2. QED
    BY <1>0, <1>1, <1>2, <1>3, <2>1 DEF Knows, Driven
<1>6. QED
  BY <1>1, <1>2, <1>4, <1>5 DEF Knows, Listed, Driven, Concluded, Own

LEMMA SettleKnows ==
  ASSUME Inv, NEW p \in Proc, Knows(p), Settle(p)
  PROVE  Knows(p)'
<1>0. /\ TypeOK /\ at \in [Proc -> 0..Width] /\ job \in [Proc -> Approval]
      /\ card \in [Approval -> Card] /\ 0 \in 0..Width /\ outcome \in [Proc -> Settled]
      /\ pc \in [Proc -> PcStates] /\ partial \in [Proc -> BOOLEAN] /\ todo \in [Proc -> SUBSET Key]
  BY WidthAssumption DEF Inv, TypeOK, StoreType, LocalType
<1>1. /\ pc[p] = "settle" /\ card' = card /\ job' = job /\ todo' = todo
      /\ effect' = [effect EXCEPT ![<<job[p], at[p]>>] = outcome[p]]
  BY DEF Settle, SettleRow
<1>2. \A l \in 0..Width :
        effect'[<<job[p], l>>] = IF l = at[p] THEN outcome[p] ELSE effect[<<job[p], l>>]
  <2>1. Wrote(job[p], at[p], outcome[p])
    BY <1>0, <1>1, RowWritten
  <2>2. QED
    BY <1>0, <2>1 DEF Wrote
<1>3. card[job[p]].on \subseteq 1..Width
  BY <1>0, CardParts
<1>4. CASE at[p] # 0
  <2>1. Advance(p, at[p], partial[p] \/ outcome[p] # "done") /\ todo[p] = {}
    BY <1>1, <1>4 DEF Settle, Knows, Listed
  <2>2. effect'[Own(p)] = "pending"
    BY <1>0, <1>1, <1>2, <1>4 DEF Knows, Driven, Own
  <2>3. ASSUME ~(partial[p] \/ outcome[p] # "done"), NEW l \in card[job[p]].on, l <= at[p]
        PROVE  effect'[<<job[p], l>>] = "done"
    <3>1. l \in 0..Width /\ at[p] \in 0..Width
      BY <1>0, <1>3
    <3>2. CASE l = at[p]
      BY <1>2, <2>3, <3>1, <3>2
    <3>3. CASE l # at[p]
      <4>1. l < at[p]
        BY <2>3, <3>1, <3>3, WidthAssumption
      <4>2. effect[<<job[p], l>>] = "done"
        BY <1>1, <1>4, <2>3, <4>1 DEF Knows, Driven
      <4>3. QED
        BY <1>2, <3>1, <3>3, <4>2
    <3>4. QED
      BY <3>2, <3>3
  <2>4. (partial[p] \/ outcome[p] # "done") \in BOOLEAN
    OBVIOUS
  <2>5. QED
    BY <1>0, <1>1, <2>1, <2>2, <2>3, <2>4, AdvanceKnows
<1>5. CASE at[p] = 0
  <2>1. pc'[p] = (IF outcome[p] = "done" THEN "fact" ELSE "mark") /\ outcome' = outcome
    BY <1>0, <1>5 DEF Settle, Goto
  <2>2. effect'[Own(p)] = outcome[p] /\ outcome[p] \in Settled
    BY <1>0, <1>2, <1>5 DEF Own
  <2>3. \A k \in todo[p] : effect'[k] = "pending"
    <3>1. \A k \in todo[p] : k # <<job[p], at[p]>>
      BY <1>1, <1>5 DEF Knows, Listed, Own
    <3>2. QED
      BY <1>0, <1>1, <3>1, RowWritten DEF Knows, Listed
  <2>4. QED
    BY <1>1, <2>1, <2>2, <2>3 DEF Knows, Listed, Driven, Concluded, Own, Settled
<1>6. QED
  BY <1>4, <1>5

LEMMA ReconKnows ==
  ASSUME Inv, RowsShown, OwnDone, NEW p \in Proc, Knows(p), NEW k \in Key,
         ReconReplay(p, k) \/ ReconUnknown(p, k)
  PROVE  Knows(p)'
<1>0. /\ TypeOK /\ job \in [Proc -> Approval] /\ 0 \in 0..Width /\ outcome \in [Proc -> Settled]
      /\ pc \in [Proc -> PcStates] /\ todo \in [Proc -> SUBSET Key]
      /\ effect \in [Key -> {"none", "pending"} \cup Settled]
  BY WidthAssumption DEF Inv, TypeOK, StoreType, LocalType
<1>1. /\ k[1] \in Approval /\ k[2] \in 0..Width /\ k = <<k[1], k[2]>> /\ k \in todo[p]
      /\ effect[k] = "pending"
  BY KeyParts DEF ReconReplay, ReconUnknown, Oldest, Knows, Listed
<1>2. PICK o \in Key : o = <<k[1], 0>> /\ o[1] = k[1] /\ o[2] = 0
  BY <1>0, <1>1, RowExists
<1>3. /\ job'[p] = k[1] /\ card' = card /\ Own(p)' = o
      /\ todo'[p] = todo[p] \ {k}
  BY <1>0, <1>2 DEF ReconReplay, ReconUnknown, Own
<1>4. k[2] # 0 => effect[o] \in Settled
  BY <1>2, OldestIsExecuted DEF ReconReplay, ReconUnknown
<1>5. CASE ReconReplay(p, k)
  <2>1. pc'[p] = "find" /\ effect' = effect
    BY <1>0, <1>5 DEF ReconReplay, Goto
  <2>2. k[2] # 0 => IsExecuted(p)'
    BY <1>2, <1>3, <1>4, <2>1 DEF IsExecuted
  <2>3. k[2] = 0 => ~IsBundle(card'[job'[p]]) /\ Own(p)' \notin todo'[p]
    <3>1. SUFFICES ASSUME k[2] = 0
                   PROVE  ~IsBundle(card'[job'[p]]) /\ Own(p)' \notin todo'[p]
      OBVIOUS
    <3>2. card[k[1]].kind[0] \in Replayable
      BY <1>5, <3>1 DEF ReconReplay
    <3>3. o = k
      BY <1>1, <1>2, <3>1
    <3>4. QED
      BY <1>3, <3>2, <3>3 DEF IsBundle, Replayable
  <2>4. \A l \in todo'[p] : effect'[l] = "pending"
    BY <1>3, <2>1 DEF Knows, Listed
  <2>5. QED
    BY <2>1, <2>2, <2>3, <2>4 DEF Knows, Listed, Driven, Concluded
<1>6. CASE ReconUnknown(p, k)
  <2>1. pc'[p] = "mark" /\ outcome'[p] = "outcome_unknown"
        /\ effect' = [effect EXCEPT ![k] = "outcome_unknown"]
    BY <1>0, <1>6 DEF ReconUnknown, SettleRow, Goto
  <2>2. \A l \in todo'[p] : effect'[l] = "pending"
    BY <1>0, <1>3, <2>1 DEF Knows, Listed
  <2>3. effect'[o] \in {"failed", "outcome_unknown"}
    <3>1. CASE k = o
      BY <1>0, <2>1, <3>1
    <3>2. CASE k # o
      <4>1. k[2] # 0
        BY <1>1, <1>2, <3>2
      <4>2. k[2] \in card[k[1]].on
        BY <1>1, <4>1 DEF RowsShown
      <4>3. effect[o] # "done"
        BY <1>1, <1>2, <4>2 DEF OwnDone, ItemsDone
      <4>4. effect'[o] = effect[o]
        BY <1>0, <2>1, <3>2
      <4>5. QED
        BY <1>4, <4>1, <4>3, <4>4 DEF Settled
    <3>3. QED
      BY <3>1, <3>2
  <2>4. QED
    BY <1>3, <2>1, <2>2, <2>3 DEF Knows, Listed, Driven, Concluded
<1>7. QED
  BY <1>5, <1>6

LEMMA ActsKnows ==
  ASSUME Inv, Serial, NEW p \in Proc, Acts(p)
  PROVE  Knows(p)'
<1>0. /\ TypeOK /\ pc \in [Proc -> PcStates] /\ job \in [Proc -> Approval]
      /\ todo \in [Proc -> SUBSET Key]
  BY DEF Inv, TypeOK, LocalType
<1>1. Knows(p) /\ CardShapes /\ RowsShown /\ OwnDone
  BY DEF Serial
<1>2. CASE ClaimGone(p) \/ ClaimLate(p) \/ DropFact(p) \/ Tell(p) \/ ConfirmRefused(p) \/ Crash(p)
  BY <1>0, <1>1, <1>2, ReturnKnows
     DEF ClaimGone, ClaimLate, DropFact, Tell, ConfirmRefused, Crash
<1>3. ASSUME NEW b \in Approval, Restage(p, b) PROVE Knows(p)'
  BY <1>0, <1>1, <1>3, ReturnKnows DEF Restage
<1>4. ASSUME NEW a \in Approval, NEW i \in 1..Width,
             PressReject(p, a) \/ PressToggle(p, a, i) \/ CancelOld(p) \/ Mark(p)
      PROVE  Knows(p)'
  <2>1. pc'[p] \in Aside /\ effect' = effect /\ todo' = todo
    BY <1>0, <1>4 DEF PressReject, PressToggle, CancelOld, Mark, Goto, Aside
  <2>2. QED
    BY <1>1, <2>1, AsideKnows DEF Knows, Listed
<1>5. CASE Scan(p)
  <2>1. pc'[p] \in Aside /\ effect' = effect /\ todo'[p] = Stale
    BY <1>0, <1>5 DEF Scan, Goto, Aside
  <2>2. QED
    BY <2>1, AsideKnows DEF Stale, Overdue
<1>6. ASSUME NEW a \in Approval, NEW c \in Person, PressConfirm(p, c, a) PROVE Knows(p)'
  <2>1. pc'[p] = "claim" /\ effect' = effect /\ todo' = todo /\ todo[p] = {}
    BY <1>0, <1>1, <1>6 DEF PressConfirm, Goto, Knows, Listed
  <2>2. QED
    BY <2>1 DEF Knows, Listed, Driven, Concluded
<1>7. CASE ClaimTaken(p)
  <2>1. pc'[p] = "find" /\ todo' = todo /\ todo[p] = {}
    BY <1>0, <1>1, <1>7 DEF ClaimTaken, Goto, Knows, Listed
  <2>2. QED
    BY <2>1 DEF Knows, Listed, Driven, Concluded
<1>8. CASE ReadFact(p) \/ ConfirmFact(p)
  <2>1. /\ pc[p] \in {"fact", "confirm"} /\ pc'[p] \in {"confirm", "mark"} /\ job' = job
        /\ outcome' = outcome /\ effect' = effect /\ todo' = todo
    BY <1>0, <1>8 DEF ReadFact, ConfirmFact, Goto
  <2>2. QED
    BY <1>1, <2>1 DEF Knows, Listed, Driven, Concluded, Own
<1>9. ASSUME NEW k \in Key, ReconReplay(p, k) \/ ReconUnknown(p, k) PROVE Knows(p)'
  BY <1>1, <1>9, ReconKnows
<1>10. PICK a \in Approval, i \in 1..Width : TRUE
  BY PartiesAssumption, WidthAssumption
<1>11. Find(p) \/ Begin(p) \/ Settle(p) => Knows(p)'
  BY <1>1, FindKnows, BeginKnows, SettleKnows
<1>12. LookUp(p) \/ AlreadyThere(p) \/ CreateReminder(p) \/ ConfirmMemory(p) \/ WriteCalendar(p)
         \/ Send(p) => Knows(p)'
  BY <1>1, ActKnows
<1>13. QED
  BY <1>2, <1>3, <1>4, <1>5, <1>6, <1>7, <1>8, <1>9, <1>10, <1>11, <1>12 DEF Acts, Step

\* An own row says done only over items that are done.
LEMMA OwnDoneStep ==
  ASSUME Inv, Serial, Next
  PROVE  OwnDone'
<1>0. /\ TypeOK /\ job \in [Proc -> Approval] /\ at \in [Proc -> 0..Width] /\ 0 \in 0..Width
      /\ card \in [Approval -> Card]
  BY WidthAssumption DEF Inv, TypeOK, StoreType, LocalType
<1> SUFFICES ASSUME NEW a \in Approval, effect'[<<a, 0>>] = "done"
             PROVE  \A i \in card'[a].on : effect'[<<a, i>>] = "done"
  BY DEF OwnDone, ItemsDone
<1>1. card[a].on \subseteq 0..Width /\ \A i \in card[a].on : i # 0
  BY <1>0, CardParts
<1>2. effect[<<a, 0>>] # "none" => card'[a] = card[a]
  BY <1>0, CardStays DEF Inv, WriteAhead, Accepted
<1>3. CASE effect' = effect
  BY <1>2, <1>3 DEF Serial, OwnDone, ItemsDone
<1>4. ASSUME NEW p \in Proc, ClaimTaken(p) PROVE \A i \in card'[a].on : effect'[<<a, i>>] = "done"
  <2>1. effect' = [effect EXCEPT ![<<job[p], 0>>] = "pending"] /\ card' = card
    BY <1>4 DEF ClaimTaken, Record
  <2>2. Wrote(job[p], 0, "pending")
    BY <1>0, <2>1, RowWritten
  <2>3. a # job[p]
    BY <1>0, <2>2 DEF Wrote
  <2>4. QED
    BY <1>0, <1>1, <2>1, <2>2, <2>3 DEF Serial, OwnDone, ItemsDone, Wrote
<1>5. ASSUME NEW p \in Proc, Begin(p) PROVE \A i \in card'[a].on : effect'[<<a, i>>] = "done"
  <2>1. effect' = [effect EXCEPT ![<<job[p], at[p]>>] = "pending"] /\ card' = card /\ at[p] # 0
    BY <1>5, BeginActs DEF Begin
  <2>2. Wrote(job[p], at[p], "pending")
    BY <1>0, <2>1, RowWritten
  <2>3. effect[<<job[p], 0>>] = "pending"
    BY <1>5 DEF Begin, Serial, Knows, Driven, Own
  <2>4. a # job[p]
    BY <1>0, <2>1, <2>2, <2>3 DEF Wrote
  <2>5. QED
    BY <1>0, <1>1, <2>1, <2>2, <2>4 DEF Serial, OwnDone, ItemsDone, Wrote
<1>6. ASSUME NEW p \in Proc, Settle(p) PROVE \A i \in card'[a].on : effect'[<<a, i>>] = "done"
  <2>1. effect' = [effect EXCEPT ![<<job[p], at[p]>>] = outcome[p]] /\ card' = card
    BY <1>6 DEF Settle, SettleRow
  <2>2. Wrote(job[p], at[p], outcome[p])
    BY <1>0, <2>1, RowWritten
  <2>3. effect[<<job[p], 0>>] = "pending"
    BY <1>6 DEF Settle, Serial, Knows, Driven, Own
  <2>4. CASE a = job[p]
    <3>1. at[p] = 0 /\ outcome[p] = "done"
      BY <1>0, <2>2, <2>3, <2>4 DEF Wrote
    <3>2. ItemsDone(job[p])
      BY <1>6, <3>1 DEF Settle, Serial, Knows, Concluded
    <3>3. QED
      BY <1>0, <1>1, <2>1, <2>2, <2>4, <3>1, <3>2 DEF ItemsDone, Wrote
  <2>5. CASE a # job[p]
    BY <1>0, <1>1, <2>1, <2>2, <2>5 DEF Serial, OwnDone, ItemsDone, Wrote
  <2>6. QED
    BY <2>4, <2>5
<1>7. ASSUME NEW p \in Proc, NEW k \in Key, ReconUnknown(p, k)
      PROVE  \A i \in card'[a].on : effect'[<<a, i>>] = "done"
  <2>0. k[1] \in Approval /\ k[2] \in 0..Width /\ k = <<k[1], k[2]>>
    BY KeyParts
  <2>1. effect' = [effect EXCEPT ![<<k[1], k[2]>>] = "outcome_unknown"] /\ card' = card
    BY <1>7, <2>0 DEF ReconUnknown, SettleRow
  <2>2. Wrote(k[1], k[2], "outcome_unknown")
    BY <1>0, <2>0, <2>1, RowWritten
  <2>3. effect[k] = "pending"
    BY <1>7 DEF ReconUnknown, Oldest, Serial, Knows, Listed
  <2>4. effect[<<a, 0>>] = "done"
    BY <1>0, <2>2 DEF Wrote
  <2>5. \A i \in card[a].on : effect[<<a, i>>] = "done"
    BY <2>4 DEF Serial, OwnDone, ItemsDone
  <2>6. ASSUME NEW i \in card[a].on, a = k[1], i = k[2] PROVE FALSE
    BY <2>0, <2>3, <2>5, <2>6
  <2>7. QED
    BY <1>1, <2>1, <2>2, <2>5, <2>6 DEF Wrote
<1>8. QED
  BY <1>3, <1>4, <1>5, <1>6, <1>7, EffectWriters

\* The transactions that write a verdict or a reminder.
LEMMA ReminderWriters ==
  ASSUME Next
  PROVE  reminders' = reminders \/ \E p \in Proc : CreateReminder(p)
BY ZenonT(60) DEF Next, Step, Scan, Crash, Stage, TtlPasses, PressConfirm, PressReject,
       PressToggle, LeaseLapses, MissForgotten, Supersede, ClaimGone, ClaimLate,
       ClaimTaken, DropFact, CancelOld, Restage, Find, Begin, LookUp, AlreadyThere,
       ConfirmMemory, WriteCalendar, Send, Settle, ReadFact, ConfirmFact,
       ConfirmRefused, Mark, Tell, ReconReplay, ReconUnknown

Judged(a) ==
  /\ status[a] = "done" => effect[<<a, 0>>] = "done"
  /\ status[a] = "failed" => effect[<<a, 0>>] \in {"failed", "outcome_unknown"}

\* A verdict that stands is not contradicted by a later row.
LEMMA JudgedStays ==
  ASSUME Inv, Serial, Next, NEW a \in Approval, status[a] \in {"done", "failed"}, Judged(a)
  PROVE  IF status[a] = "done" THEN effect'[<<a, 0>>] = "done"
                               ELSE effect'[<<a, 0>>] \in {"failed", "outcome_unknown"}
<1>0. /\ TypeOK /\ job \in [Proc -> Approval] /\ at \in [Proc -> 0..Width] /\ 0 \in 0..Width
  BY WidthAssumption DEF Inv, TypeOK, LocalType
<1>1. CASE effect' = effect
  BY <1>1 DEF Judged
<1>2. ASSUME NEW p \in Proc, ClaimTaken(p) PROVE effect'[<<a, 0>>] = effect[<<a, 0>>]
  <2>1. Wrote(job[p], 0, "pending")
    BY <1>0, <1>2, RowWritten DEF ClaimTaken, Record
  <2>2. a # job[p]
    BY <1>2 DEF ClaimTaken
  <2>3. QED
    BY <1>0, <2>1, <2>2 DEF Wrote
<1>3. ASSUME NEW p \in Proc, Begin(p) PROVE effect'[<<a, 0>>] = effect[<<a, 0>>]
  <2>1. Wrote(job[p], at[p], "pending") /\ at[p] # 0
    BY <1>0, <1>3, BeginActs, RowWritten
  <2>2. QED
    BY <1>0, <2>1 DEF Wrote
<1>4. ASSUME NEW p \in Proc, Settle(p) PROVE effect'[<<a, 0>>] = effect[<<a, 0>>]
  <2>1. Wrote(job[p], at[p], outcome[p])
    BY <1>0, <1>4, RowWritten DEF Settle, SettleRow
  <2>2. effect[<<job[p], 0>>] = "pending"
    BY <1>4 DEF Settle, Serial, Knows, Driven, Own
  <2>3. a # job[p]
    BY <2>2 DEF Judged
  <2>4. QED
    BY <1>0, <2>1, <2>3 DEF Wrote
<1>5. ASSUME NEW p \in Proc, NEW k \in Key, ReconUnknown(p, k)
      PROVE  effect'[<<a, 0>>] = effect[<<a, 0>>]
  <2>1. k[1] \in Approval /\ k[2] \in 0..Width /\ k = <<k[1], k[2]>>
    BY KeyParts
  <2>2. Wrote(k[1], k[2], "outcome_unknown")
    BY <1>0, <1>5, <2>1, RowWritten DEF ReconUnknown, SettleRow
  <2>3. effect[k] = "pending"
    BY <1>5 DEF ReconUnknown, Oldest, Serial, Knows, Listed
  <2>4. ~(a = k[1] /\ 0 = k[2])
    BY <2>1, <2>3 DEF Judged
  <2>5. QED
    BY <1>0, <2>2, <2>4 DEF Wrote
<1>6. QED
  BY <1>1, <1>2, <1>3, <1>4, <1>5, EffectWriters DEF Judged

LEMMA VerdictStep ==
  ASSUME Inv, Serial, Next
  PROVE  VerdictIsOwn'
<1>0. /\ TypeOK /\ job \in [Proc -> Approval] /\ reminders \in [Approval -> Nat]
      /\ status \in [Approval -> {"absent", "staged", "claimed", "done", "failed",
                                  "cancelled", "expired"}]
  BY DEF Inv, TypeOK, StoreType, LocalType
<1>1. ASSUME NEW a \in Approval PROVE Judged(a)'
  <2>0. Judged(a)
    BY DEF Serial, VerdictIsOwn, Judged
  <2>1. ASSUME status'[a] = status[a] PROVE Judged(a)'
    BY <2>0, <2>1, JudgedStays DEF Judged
  <2>2. ASSUME NEW b \in Approval, NEW d \in Cards, Stage(b, d) PROVE Judged(a)'
    BY <1>0, <2>1, <2>2 DEF Stage, Judged
  <2>3. ASSUME NEW p \in Proc, ClaimLate(p) \/ ClaimTaken(p) \/ CancelOld(p) PROVE Judged(a)'
    <3>1. status'[a] \in {"done", "failed"} => status'[a] = status[a]
      BY <1>0, <2>3 DEF ClaimLate, ClaimTaken, CancelOld, CancelRow
    <3>2. QED
      BY <2>1, <3>1 DEF Judged
  <2>4. ASSUME NEW p \in Proc, NEW b \in Approval, PressReject(p, b) \/ Restage(p, b)
        PROVE  Judged(a)'
    <3>1. status'[a] \in {"done", "failed"} => status'[a] = status[a]
      BY <1>0, <2>4 DEF PressReject, Restage, CancelRow
    <3>2. QED
      BY <2>1, <3>1 DEF Judged
  <2>5. ASSUME NEW p \in Proc, Mark(p) PROVE Judged(a)'
    <3>1. status' = [status EXCEPT ![job[p]] = Verdict(outcome[p])] /\ effect' = effect
      BY <2>5 DEF Mark
    <3>2. IF outcome[p] = "done" THEN effect[<<job[p], 0>>] = "done"
                                 ELSE effect[<<job[p], 0>>] \in {"failed", "outcome_unknown"}
      BY <2>5 DEF Mark, Serial, Knows, Concluded, Own
    <3>3. CASE a = job[p]
      BY <1>0, <3>1, <3>2, <3>3 DEF Verdict, Judged
    <3>4. CASE a # job[p]
      BY <1>0, <2>1, <3>1, <3>4
    <3>5. QED
      BY <3>3, <3>4
  <2>6. QED
    BY <2>1, <2>2, <2>3, <2>4, <2>5, StatusWriters
<1>2. ASSUME NEW a \in Approval PROVE reminders'[a] <= 1
  <2>1. reminders[a] <= 1
    BY DEF Serial, VerdictIsOwn
  <2>2. ASSUME NEW p \in Proc, CreateReminder(p) PROVE reminders'[a] <= 1
    <3>1. reminders[job[p]] = 0 /\ reminders' = [reminders EXCEPT ![job[p]] = @ + 1]
      BY <2>2 DEF CreateReminder, Serial, Knows, Driven
    <3>2. QED
      BY <1>0, <2>1, <3>1
  <2>3. QED
    BY <2>1, <2>2, ReminderWriters
<1>3. QED
  BY <1>1, <1>2 DEF VerdictIsOwn, Judged

\* What one process knows, and what its rows say, hold together.
THEOREM SerialInductive == OneProcess /\ Spec => []Serial
<1> DEFINE I == OneProcess /\ Serial
<1>1. OneProcess /\ Init => I
  BY InitSerial
<1>2. Inv /\ I /\ [Next]_vars => I'
  <2> SUFFICES ASSUME OneProcess, Inv, Serial, [Next]_vars PROVE Serial'
    BY DEF OneProcess
  <2>1. CASE UNCHANGED vars
    BY <2>1 DEF Serial, CardShapes, RowsShown, OwnDone, VerdictIsOwn, ItemsDone,
       Knows, Listed, Driven, Concluded, Own, IsExecuted
  <2>2. CASE Next
    <3>1. CardShapes' /\ RowsShown' /\ OwnDone' /\ VerdictIsOwn'
      BY <2>2, ShapesStep, RowsShownStep, OwnDoneStep, VerdictStep DEF Serial
    <3>2. ASSUME NEW p \in Proc PROVE Knows(p)'
      <4>1. CASE Elsewhere
        BY <4>1, ElsewhereKnows DEF Serial
      <4>2. ASSUME NEW q \in Proc, Acts(q) PROVE Knows(p)'
        BY <4>2, ActsKnows DEF OneProcess
      <4>3. QED
        BY <2>2, <4>1, <4>2, WhoSteps
    <3>3. QED
      BY <3>1, <3>2 DEF Serial
  <2>3. QED
    BY <2>1, <2>2
<1>3. I => Serial
  OBVIOUS
<1>4. QED
  BY <1>1, <1>2, <1>3, Inductive, PTL DEF Spec

\* The verdict on an approval agrees with its own row and those of its items, and
\* one approval gives rise to one reminder, however often the one process crashes
\* and reconcile replays (execute, _execute_bundle, reconcile).
THEOREM VerdictAgrees == OneProcess /\ Spec => []VerdictMatchesJournal
<1>1. Serial => VerdictMatchesJournal
  BY DEF Serial, VerdictIsOwn, OwnDone, ItemsDone, VerdictMatchesJournal
<1>2. QED
  BY <1>1, SerialInductive, PTL
=============================================================================
