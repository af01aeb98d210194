------------------------ MODULE ProvisioningProofs ------------------------
(***************************************************************************)
(* Proofs about the mailbox of a household, for any number of attempts,    *)
(* tries, faults and plans: what the provider holds is on record, a        *)
(* mailbox the family was shown is there, and what is called deleted or    *)
(* erased is gone, but for what astray collects.                           *)
(***************************************************************************)
EXTENDS ProvisioningInvariant, TLAPS

USE DEF db, world, local, vars

-----------------------------------------------------------------------------
(* The names of the jobs *)

Mailboxes == {None} \cup Attempt

\* Attempts are numbers, and none of them is the one that stands for none.
LEMMA Attempts ==
  /\ AttemptMax \in Nat /\ Attempt \subseteq Nat /\ None \notin Attempt /\ None \in Nat
  /\ \A n \in Attempt : n \in Nat /\ n >= 1 /\ n <= AttemptMax
BY BoundsAssumption DEF Attempt, None

LEMMA StepName ==
  ASSUME NEW n \in Attempt
  PROVE  /\ Step(n) \in StepJob /\ Step(n) \in JobId /\ Step(n)[2] = n
         /\ Step(n) \notin CleanJob /\ Step(n) \notin Maker /\ Step(n) \notin NamespaceCleanup
         /\ Step(n) \notin Teardown /\ Step(n) \notin SecretJob
BY DEF Step, StepJob, JobId, CleanJob, Teardown, SecretJob, Maker, NamespaceCleanup, Making,
       Registered, LateCleanup, WaitingCleanup, SecretCleanup, Namespace, LateNamespace

LEMMA StepsDiffer == \A n, m \in Attempt : Step(n) = Step(m) => n = m
BY DEF Step

LEMMA StepIs == \A j \in StepJob : j[2] \in Attempt /\ j = Step(j[2])
BY DEF Step, StepJob

LEMMA MakerName ==
  ASSUME NEW n \in Mailboxes
  PROVE  Making(n) \in Maker /\ Making(n) \in JobId /\ Making(n)[2] = n
BY DEF Making, Maker, JobId, Mailboxes

LEMMA MakerIs == \A j \in Maker : j[2] \in Mailboxes /\ j = Making(j[2])
BY DEF Making, Maker, Mailboxes

LEMMA CleanIs ==
  /\ \A j \in Teardown : j[2] \in Attempt
  /\ \A j \in SecretJob : j[2] \in Attempt /\ j = SecretCleanup(j[2])
BY DEF Teardown, SecretJob, Registered, LateCleanup, WaitingCleanup, SecretCleanup

LEMMA CleanName ==
  ASSUME NEW n \in Attempt
  PROVE  /\ SecretCleanup(n) \in SecretJob /\ SecretCleanup(n)[2] = n
         /\ LateCleanup(n) \in Teardown /\ LateCleanup(n)[2] = n
         /\ WaitingCleanup(n) \in Teardown /\ WaitingCleanup(n)[2] = n
BY DEF Teardown, SecretJob, LateCleanup, WaitingCleanup, SecretCleanup

LEMMA Kinds ==
  /\ StepJob \cap Maker = {} /\ StepJob \cap SecretJob = {} /\ StepJob \cap Teardown = {}
  /\ StepJob \cap NamespaceCleanup = {} /\ Maker \cap SecretJob = {}
  /\ Maker \cap Teardown = {} /\ Maker \cap NamespaceCleanup = {}
  /\ SecretJob \cap Teardown = {} /\ SecretJob \cap NamespaceCleanup = {}
  /\ Teardown \cap NamespaceCleanup = {}
  /\ JobId = StepJob \cup Maker \cup SecretJob \cup Teardown \cup NamespaceCleanup
  /\ Namespace \in NamespaceCleanup
  /\ \A j \in Maker : LateNamespace(j) \in NamespaceCleanup
<1>1. \A j \in StepJob : j[1] = "step"
  BY DEF Step, StepJob
<1>2. \A j \in Maker : j[1] = "making"
  BY DEF Making, Maker
<1>3. \A j \in SecretJob : j[1] = "secret"
  BY DEF SecretJob, SecretCleanup
<1>4. \A j \in Teardown : j[1] \in {"registered", "late", "waiting"}
  BY DEF Teardown, Registered, LateCleanup, WaitingCleanup
<1>5. \A j \in NamespaceCleanup : j[1] \in {"namespace", "unmake"}
  BY DEF NamespaceCleanup, Namespace, LateNamespace
<1>6. Namespace \in NamespaceCleanup /\ \A j \in Maker : LateNamespace(j) \in NamespaceCleanup
  BY DEF NamespaceCleanup
<1>7. QED
  BY <1>1, <1>2, <1>3, <1>4, <1>5, <1>6 DEF JobId

-----------------------------------------------------------------------------
(* What the helpers write *)

Settled(x, s, w) == [x EXCEPT !.status = s, !.why = w]

LEMMA SettledRecord ==
  ASSUME NEW x \in JobRec, NEW s \in JobStatus, NEW w \in JobWhy
  PROVE  /\ Settled(x, s, w) \in JobRec
         /\ Settled(x, s, w).status = s /\ Settled(x, s, w).why = w
         /\ Settled(x, s, w).parent = x.parent /\ Settled(x, s, w).of = x.of
BY DEF JobRec, Settled

LEMMA SettleJob ==
  ASSUME NEW js \in [JobId -> JobRec], NEW j \in JobId,
         NEW s \in JobStatus, NEW w \in JobWhy
  PROVE  /\ Settle(js, j, s, w) \in [JobId -> JobRec]
         /\ Settle(js, j, s, w)[j].status = s /\ Settle(js, j, s, w)[j].why = w
         /\ Settle(js, j, s, w)[j].parent = js[j].parent
         /\ Settle(js, j, s, w)[j].of = js[j].of
         /\ \A k \in JobId : k # j => Settle(js, j, s, w)[k] = js[k]
<1> DEFINE y == Settled(js[j], s, w)
<1>1. js[j] \in JobRec
  OBVIOUS
<1>2. Settle(js, j, s, w) = [js EXCEPT ![j] = y]
  <2> DEFINE x == [js[j] EXCEPT !.status = s]
             f == [js EXCEPT ![j] = x]
  <2>1. Settle(js, j, s, w) = [f EXCEPT ![j] = [f[j] EXCEPT !.why = w]]
    BY DEF Settle
  <2>2. y = [x EXCEPT !.why = w]
    BY DEF Settled
  <2> HIDE DEF x, y
  <2>3. f[j] = x
    OBVIOUS
  <2>4. Settle(js, j, s, w) = [f EXCEPT ![j] = y]
    BY <2>1, <2>2, <2>3
  <2>5. [f EXCEPT ![j] = y] = [js EXCEPT ![j] = y]
    OBVIOUS
  <2>6. QED
    BY <2>4, <2>5
<1>3. /\ y \in JobRec /\ y.status = s /\ y.why = w
      /\ y.parent = js[j].parent /\ y.of = js[j].of
  BY <1>1, SettledRecord
<1> HIDE DEF y
<1>4. QED
  BY <1>2, <1>3

LEMMA NewJob ==
  ASSUME NEW op \in {"ensure", "inspect", "clean"}, NEW i \in Mailboxes, NEW p \in Mailboxes
  PROVE  /\ New(op, i, p) \in JobRec
         /\ New(op, i, p).status = "pending" /\ New(op, i, p).parent = p
         /\ New(op, i, p).why = "none"
<1>1. NoJob \in JobRec /\ NoJob.why = "none"
  BY BoundsAssumption DEF NoJob, JobRec, JobStatus, JobWhy, None
<1>2. "pending" \in JobStatus
  BY DEF JobStatus, Unsettled
<1>3. QED
  BY <1>1, <1>2 DEF New, JobRec, Mailboxes

LEMMA CreateJob ==
  ASSUME NEW js \in [JobId -> JobRec], NEW j \in JobId, NEW job \in JobRec
  PROVE  /\ Create(js, j, job) \in [JobId -> JobRec]
         /\ js[j].status = "none" => Create(js, j, job)[j] = job
         /\ js[j].status # "none" => Create(js, j, job)[j] = js[j]
         /\ \A k \in JobId : k # j => Create(js, j, job)[k] = js[k]
BY DEF Create

LEMMA RetryJob ==
  ASSUME NEW js \in [JobId -> JobRec], NEW j \in JobId, NEW w \in JobWhy
  PROVE  /\ RetryLater(js, j, w) \in [JobId -> JobRec]
         /\ \/ RetryLater(js, j, w) = js
            \/ /\ js[j].status = "running" \/ (js[j].status = "unknown" /\ js[j].why # "quarantine")
               /\ RetryLater(js, j, w)[j].status = "pending"
               /\ RetryLater(js, j, w)[j].why = w
               /\ RetryLater(js, j, w)[j].parent = js[j].parent
         /\ \A k \in JobId : k # j => RetryLater(js, j, w)[k] = js[k]
<1>1. "pending" \in JobStatus
  BY DEF JobStatus, Unsettled
<1>2. QED
  BY <1>1, SettleJob DEF RetryLater

LEMMA SettleParentJob ==
  ASSUME NEW js \in [JobId -> JobRec], NEW n \in Mailboxes
  PROVE  /\ SettleParent(js, n) \in [JobId -> JobRec]
         /\ \/ SettleParent(js, n) = js
            \/ /\ n \in Attempt
               /\ js[Step(n)].status \in {"running", "unknown", "cancelled"}
               /\ SettleParent(js, n)[Step(n)].status = "cancelled"
               /\ SettleParent(js, n)[Step(n)].why = "compensated"
               /\ \A k \in JobId : k # Step(n) => SettleParent(js, n)[k] = js[k]
<1>1. "cancelled" \in JobStatus /\ "compensated" \in JobWhy
  BY DEF JobStatus, JobWhy
<1>2. CASE n = None
  BY <1>2 DEF SettleParent
<1>3. CASE n \in Attempt
  BY <1>1, <1>3, SettleJob, StepName DEF SettleParent
<1>4. QED
  BY <1>2, <1>3 DEF Mailboxes

LEMMA SupersedeJobs ==
  ASSUME NEW js \in [JobId -> JobRec], NEW kinds
  PROVE  /\ Supersede(js, kinds) \in [JobId -> JobRec]
         /\ \A j \in JobId :
              \/ /\ j \in kinds /\ js[j].status = "pending"
                 /\ Supersede(js, kinds)[j].status = "cancelled"
                 /\ Supersede(js, kinds)[j].why = "before"
                 /\ Supersede(js, kinds)[j].parent = js[j].parent
              \/ /\ j \in kinds /\ js[j].status \in {"running", "waiting", "unknown"}
                 /\ Supersede(js, kinds)[j].status = "unknown"
                 /\ Supersede(js, kinds)[j].why = "quarantine"
                 /\ Supersede(js, kinds)[j].parent = js[j].parent
              \/ /\ j \notin kinds \/ js[j].status \notin Unsettled
                 /\ Supersede(js, kinds)[j] = js[j]
<1> DEFINE r == Supersede(js, kinds)
<1>1. \A j \in JobId :
        r[j] = IF j \in kinds /\ js[j].status = "pending"
               THEN Settled(js[j], "cancelled", "before")
               ELSE IF j \in kinds /\ js[j].status \in {"running", "waiting", "unknown"}
               THEN Settled(js[j], "unknown", "quarantine")
               ELSE js[j]
  BY DEF Supersede, Settled
<1>2. r = [j \in JobId |-> r[j]]
  BY DEF Supersede
<1>3. /\ "cancelled" \in JobStatus /\ "unknown" \in JobStatus
      /\ "before" \in JobWhy /\ "quarantine" \in JobWhy
  BY DEF JobStatus, JobWhy, Unsettled
<1> HIDE DEF r
<1>4. \A j \in JobId :
        /\ r[j] \in JobRec
        /\ \/ /\ j \in kinds /\ js[j].status = "pending"
              /\ r[j].status = "cancelled" /\ r[j].why = "before" /\ r[j].parent = js[j].parent
           \/ /\ j \in kinds /\ js[j].status \in {"running", "waiting", "unknown"}
              /\ r[j].status = "unknown" /\ r[j].why = "quarantine"
              /\ r[j].parent = js[j].parent
           \/ /\ j \notin kinds \/ js[j].status \notin Unsettled
              /\ r[j] = js[j]
  <2> TAKE j \in JobId
  <2>1. js[j] \in JobRec
    OBVIOUS
  <2> DEFINE c == Settled(js[j], "cancelled", "before")
             q == Settled(js[j], "unknown", "quarantine")
  <2>2. /\ c \in JobRec /\ c.status = "cancelled" /\ c.why = "before"
        /\ c.parent = js[j].parent
        /\ q \in JobRec /\ q.status = "unknown" /\ q.why = "quarantine"
        /\ q.parent = js[j].parent
    BY <1>3, <2>1, SettledRecord
  <2>3. r[j] = IF j \in kinds /\ js[j].status = "pending" THEN c
               ELSE IF j \in kinds /\ js[j].status \in {"running", "waiting", "unknown"}
               THEN q ELSE js[j]
    BY <1>1
  <2> HIDE DEF c, q
  <2> QED
    BY <2>1, <2>2, <2>3 DEF Unsettled
<1>5. r \in [JobId -> JobRec]
  BY <1>2, <1>4
<1> QED
  BY <1>4, <1>5 DEF r

\* The greatest of at most one number.
LEMMA LatestOne ==
  ASSUME NEW S, S \subseteq Attempt, \A x, y \in S : x = y
  PROVE  /\ Latest(S) \in Mailboxes
         /\ Latest(S) # None => Latest(S) \in S
         /\ S = {} <=> Latest(S) = None
<1>1. CASE S = {}
  BY <1>1 DEF Latest, Mailboxes
<1>2. CASE S # {}
  <2>1. PICK x \in S : S = {x}
    BY <1>2
  <2>2. \E n \in S : \A m \in S : m <= n
    BY <2>1, Attempts
  <2>3. Latest(S) \in S
    BY <1>2, <2>2 DEF Latest
  <2> QED
    BY <1>2, <2>3, Attempts DEF Mailboxes
<1> QED
  BY <1>1, <1>2

LEMMA LatestOf ==
  ASSUME NEW S, S \subseteq Mailboxes, NEW x \in S, \A y \in S : y <= x
  PROVE  Latest(S) = x
<1>1. \A n \in S : (\A m \in S : m <= n) => n = x
  BY Attempts DEF Mailboxes
<1>2. QED
  BY <1>1 DEF Latest

LEMMA RegisterJobs ==
  ASSUME NEW js \in [JobId -> JobRec], NEW v, Undeleted \in Mailboxes,
         Latest({n \in Attempt : js[Step(n)].status = "waiting"}) \in Mailboxes
  PROVE  /\ RegisterCleanup(js, v) \in [JobId -> JobRec]
         /\ \A j \in JobId :
              \/ RegisterCleanup(js, v)[j] = js[j]
              \/ /\ j \in Teardown /\ j[2] \in Registrable /\ js[j].status = "none"
                 /\ RegisterCleanup(js, v)[j].status = "pending"
                 /\ RegisterCleanup(js, v)[j].why = "none"
                 /\ RegisterCleanup(js, v)[j].parent
                      = Latest({n \in Attempt : js[Step(n)].status = "waiting"})
<1> DEFINE r == RegisterCleanup(js, v)
           p == Latest({n \in Attempt : js[Step(n)].status = "waiting"})
           new == New("clean", Undeleted, p)
           fresh == {Registered(n, v) : n \in Registrable}
<1>1. r = [j \in JobId |-> IF j \in fresh /\ js[j].status = "none" THEN new ELSE js[j]]
  BY DEF RegisterCleanup
<1>2. new \in JobRec /\ new.status = "pending" /\ new.parent = p /\ new.why = "none"
  BY NewJob
<1>3. \A j \in JobId : j \in fresh => j \in Teardown /\ j[2] \in Registrable
  <2> SUFFICES ASSUME NEW n \in Registrable, Registered(n, v) \in JobId
               PROVE  Registered(n, v) \in Teardown /\ Registered(n, v)[2] = n
    OBVIOUS
  <2>1. Registered(n, v)[1] = "registered" /\ Registered(n, v)[2] = n
    BY DEF Registered
  <2>2. \A j \in JobId : j[1] = "registered" => j \in Teardown
    <3>1. \A j \in StepJob : j[1] = "step"
      BY DEF Step, StepJob
    <3>2. \A j \in Maker : j[1] = "making"
      BY DEF Making, Maker
    <3>3. \A j \in SecretJob : j[1] = "secret"
      BY DEF SecretJob, SecretCleanup
    <3>5. \A j \in NamespaceCleanup : j[1] \in {"namespace", "unmake"}
      BY DEF NamespaceCleanup, Namespace, LateNamespace
    <3> QED
      BY <3>1, <3>2, <3>3, <3>5 DEF JobId
  <2> QED
    BY <2>1, <2>2
<1> HIDE DEF r, p, new, fresh
<1>4. r \in [JobId -> JobRec]
  BY <1>1, <1>2
<1>5. \A j \in JobId : r[j] = js[j] \/ (j \in fresh /\ js[j].status = "none" /\ r[j] = new)
  BY <1>1
<1> QED
  BY <1>2, <1>3, <1>4, <1>5 DEF r, p

\* An identity is called deleted only when nothing of the mailbox is unresolved.
LEMMA FinishIds ==
  ASSUME NEW ids \in [Attempt -> IdentityState], NEW js, NEW rows, NEW i
  PROVE  /\ FinishDisconnect(ids, js, rows, i) \in [Attempt -> IdentityState]
         /\ \A k \in Attempt :
              \/ FinishDisconnect(ids, js, rows, i)[k] = ids[k]
              \/ /\ k = i /\ ids[k] = "disconnecting" /\ Closable(js, rows)
                 /\ FinishDisconnect(ids, js, rows, i)[k] = "deleted"
BY DEF FinishDisconnect, IdentityState

LEMMA BeginIds ==
  ASSUME identity \in [Attempt -> IdentityState]
  PROVE  /\ BeginDisconnect \in [Attempt -> IdentityState]
         /\ \A k \in Attempt : BeginDisconnect[k] = IF IsLive(k) THEN "disconnecting" ELSE identity[k]
BY DEF BeginDisconnect, IdentityState, IsLive

LEMMA RegisteringRows ==
  ASSUME row \in [Attempt -> RowState]
  PROVE  /\ Registering \in [Attempt -> RowState]
         /\ \A n \in Attempt :
              \/ Registering[n] = row[n] /\ row[n] \notin {"creating", "ready", "unknown"}
              \/ Registering[n] = "deleting" /\ row[n] \in {"creating", "ready", "unknown"}
BY DEF Registering, Registrable, RowState

LEMMA ExternalRow ==
  ASSUME row \in [Attempt -> RowState], NEW n \in Attempt, NEW s \in RowState
  PROVE  /\ External(n, s) \in [Attempt -> RowState]
         /\ External(n, s)[n] = s /\ \A m \in Attempt : m # n => External(n, s)[m] = row[m]
BY DEF External

-----------------------------------------------------------------------------
(* What the steps do, as far as the invariant is concerned *)

LEMMA MarkEffect ==
  ASSUME ShapeJobs, ShapeRest, NEW n \in Attempt, belongs[n] \in Attempt,
         NEW s \in {"failed", "unknown", "waiting"}, NEW w \in JobWhy \ {"quarantine"},
         MarkStepProblem(Step(n), s, w)
  PROVE  /\ ShapeStep /\ JobsBut({Step(n)})
         /\ \/ UNCHANGED <<jobs, row, identity, step>>
            \/ s = "unknown" /\ Revives(n)
            \/ Marks(n, s)
<1> DEFINE j == Step(n)
           i == belongs[n]
           settled == Settle(jobs, j, s, w)
           polling == IF plan.polled /\ s = "waiting"
                      THEN [settled EXCEPT ![j].op = "inspect"] ELSE settled
           rows == IF s = "waiting" THEN External(n, "creating") ELSE row
           marked == IF identity[i] \in Live THEN [identity EXCEPT ![i] = MarkOf[s]]
                     ELSE identity
<1>1. j \in JobId /\ j[2] = n
  BY StepName
<1>2. s \in JobStatus /\ w \in JobWhy /\ "unknown" \in JobStatus /\ "late" \in JobWhy
  BY DEF JobStatus, Unsettled, JobWhy
<1>3. /\ settled \in [JobId -> JobRec] /\ settled[j].status = s /\ settled[j].why = w
      /\ \A k \in JobId : k # j => settled[k] = jobs[k]
  BY <1>1, <1>2, SettleJob DEF ShapeJobs
<1>4. /\ polling \in [JobId -> JobRec] /\ polling[j].status = s /\ polling[j].why = w
      /\ \A k \in JobId : k # j => polling[k] = jobs[k]
  <2> HIDE DEF settled
  <2>1. CASE plan.polled /\ s = "waiting"
    BY <1>1, <1>3, <2>1 DEF JobRec
  <2>2. QED
    BY <1>3, <2>1
<1>5. /\ rows \in [Attempt -> RowState]
      /\ \A m \in Attempt : m # n => rows[m] = row[m]
      /\ s # "waiting" => rows[n] = row[n]
      /\ s = "waiting" => rows[n] = "creating"
  BY ExternalRow DEF ShapeRest, RowState
<1>6. MarkOf[s] \in Live /\ StepOf[s] \in {"failed"} \cup InProgress
  BY DEF MarkOf, StepOf, Live, InProgress
<1>7. /\ marked \in [Attempt -> IdentityState]
      /\ \A k \in Attempt : k # i => marked[k] = identity[k]
      /\ IsLive(i) => marked[i] = MarkOf[s]
      /\ ~IsLive(i) => marked[i] = identity[i]
  BY <1>6 DEF ShapeRest, IdentityState, IsLive
<1>8. CASE Status(j) = "cancelled" /\ s = "unknown"
  <2>1. jobs' = Settle(jobs, j, "unknown", "late") /\ UNCHANGED <<row, identity, step>>
    BY <1>8 DEF MarkStepProblem
  <2>2. /\ jobs' \in [JobId -> JobRec] /\ jobs'[j].status = "unknown"
        /\ jobs'[j].why = "late" /\ \A k \in JobId : k # j => jobs'[k] = jobs[k]
    BY <2>1, <1>1, <1>2, SettleJob DEF ShapeJobs
  <2>3. QED
    BY <1>8, <2>1, <2>2 DEF ShapeStep, ShapeJobs, ShapeRest, JobsBut, Revives
<1>9. CASE ~(Status(j) = "cancelled" /\ s = "unknown") /\ ~MayMark(j, s)
  <2>1. UNCHANGED <<jobs, row, identity, step>>
    BY <1>9 DEF MarkStepProblem
  <2>2. QED
    BY <2>1 DEF ShapeStep, ShapeJobs, ShapeRest, JobsBut
<1>10. CASE ~(Status(j) = "cancelled" /\ s = "unknown") /\ MayMark(j, s)
  <2>1. /\ jobs' = polling /\ row' = rows
        /\ identity' = FinishDisconnect(marked, polling, rows, i)
        /\ step' = IF step \in InProgress /\ home = "onboarding" THEN StepOf[s] ELSE step
    BY <1>1, <1>10, Zenon DEF MarkStepProblem
  <2> HIDE DEF j, i, settled, polling, rows, marked
  <2>2. /\ identity' \in [Attempt -> IdentityState]
        /\ \A k \in Attempt :
             \/ identity'[k] = marked[k]
             \/ /\ k = i /\ marked[k] = "disconnecting" /\ Closable(jobs', row')
                /\ identity'[k] = "deleted"
    BY <2>1, <1>7, FinishIds
  <2>3. "disconnecting" \notin Live
    BY DEF Live
  <2>4. /\ \A k \in Attempt : k # i => identity'[k] = identity[k]
        /\ IsLive(i) => identity'[i] = MarkOf[s]
        /\ ~IsLive(i) => identity'[i] = identity[i] \/ Finished(i)
    BY <2>2, <2>3, <1>6, <1>7 DEF Finished, i
  <2>5. ShapeStep
    BY <2>1, <2>2, <1>4, <1>5, <1>6 DEF ShapeStep, ShapeJobs, ShapeRest, InProgress
  <2>6. JobsBut({j})
    BY <2>1, <1>4 DEF JobsBut
  <2>7. jobs'[j].status = s /\ jobs'[j].why # "quarantine"
    BY <2>1, <1>4
  <2>8. Marks(n, s)
    BY <2>1, <2>4, <2>7, <1>5, <1>10 DEF Marks, i, j, MayMark
  <2>9. QED
    BY <2>5, <2>6, <2>8 DEF j
<1>11. QED
  BY <1>8, <1>9, <1>10

LEMMA LateEffect ==
  ASSUME ShapeJobs, ShapeRest, NEW n \in Attempt, belongs[n] \in Attempt,
         ScheduleLate(Step(n))
  PROVE  ShapeStep /\ Defers(n)
<1> DEFINE j == Step(n)
           w == WaitingCleanup(n)
           open == IF Status(j) = "running" THEN [jobs EXCEPT ![j].status = "unknown"] ELSE jobs
           job == New("clean", belongs[n], n)
<1>1. /\ j \in JobId /\ j[2] = n /\ w \in JobId /\ w # j
  BY StepName, CleanName, Kinds
<1>2. /\ open \in [JobId -> JobRec] /\ \A k \in JobId : k # j => open[k] = jobs[k]
      /\ open[j].why = jobs[j].why
      /\ Status(j) = "running" => open[j].status = "unknown"
      /\ Status(j) # "running" => open[j].status = Status(j)
  <2>1. CASE Status(j) = "running"
    <3>1. "unknown" \in JobStatus
      BY DEF JobStatus, Unsettled
    <3>2. QED
      BY <2>1, <3>1, <1>1 DEF ShapeJobs, JobRec
  <2>2. CASE Status(j) # "running"
    BY <2>2 DEF ShapeJobs, Status
  <2>3. QED
    BY <2>1, <2>2
<1>3. job \in JobRec /\ job.status = "pending" /\ job.parent = n
  BY NewJob DEF Mailboxes
<1>4. jobs' = Create(open, w, job) /\ row' = External(n, "deleting")
      /\ UNCHANGED <<identity, step>>
  BY <1>1, Zenon DEF ScheduleLate
<1>5. "deleting" \in RowState
  BY DEF RowState
<1>6. ShapeJobs' /\ row' \in [Attempt -> RowState] /\ row'[n] = "deleting"
      /\ \A m \in Attempt : m # n => row'[m] = row[m]
  <2> HIDE DEF open, job
  <2>1. jobs' \in [JobId -> JobRec]
    BY <1>1, <1>2, <1>3, <1>4, CreateJob
  <2>2. row \in [Attempt -> RowState]
    BY DEF ShapeRest
  <2>3. QED
    BY <2>1, <2>2, <1>4, <1>5, ExternalRow DEF ShapeJobs
<1>7. /\ open[w].status = "none" => jobs'[w] = job
      /\ open[w].status # "none" => jobs'[w] = open[w]
      /\ \A k \in JobId : k # w => jobs'[k] = open[k]
  <2> HIDE DEF open, job
  <2> QED
  BY <1>1, <1>2, <1>3, <1>4, CreateJob
<1>8. ShapeStep
  BY <1>4, <1>6 DEF ShapeStep, ShapeRest
<1> HIDE DEF open, job
<1>9. QED
  BY <1>1, <1>2, <1>3, <1>4, <1>6, <1>7, <1>8 DEF Defers, JobsBut, Status

\* Nothing goes astray: no quarantine is overwritten, no job put back over a mailbox.
LEMMA Observed ==
  ASSUME Observe, astray' = {}
  PROVE  astray = {} /\ \A m \in Attempt : ~Overwritten(m) /\ ~PutBack(m)
BY DEF Observe

LEMMA RestEffect ==
  ASSUME ShapeLocal, NEW a \in Actor, Rest(a)
  PROVE  /\ Rests /\ Others(a) /\ pc'[a] = "idle" /\ at'[a] = Namespace
         /\ eraser' = eraser => ShapeLocal'
BY Kinds DEF ShapeLocal, Rest, Rests, Others

LEMMA GoEffect ==
  ASSUME ShapeLocal, NEW a \in Actor, NEW p \in Places, NEW g \in Answers, Go(a, p, g)
  PROVE  /\ Others(a) /\ pc'[a] = p /\ got'[a] = g /\ at'[a] = at[a]
         /\ eraser' = eraser => ShapeLocal'
BY DEF ShapeLocal, Go, Others, Places, Answers

-----------------------------------------------------------------------------
(* The steps at an email job *)

LEMMA InvIs ==
  ASSUME Inv
  PROVE  /\ Shape /\ ShapeJobs /\ ShapeRest /\ ShapeWorld /\ ShapeLocal /\ Numbers /\ Where
         /\ home # "gone" => /\ Handed /\ OneLeft /\ Parents /\ Claims /\ Kept
                             /\ Consented /\ NotDeleted /\ Makers /\ Erasing /\ Served
         /\ OpenHouse => /\ Hands /\ OneOpen /\ Wanted /\ Steps /\ Untouched /\ Secrets
                         /\ home # "gone"
         /\ home = "gone" => Gone
BY DEF Inv, Shape, Ordered, OpenHouse

LEMMA AttemptMade ==
  ASSUME ShapeRest, Numbers, NEW n \in 1..created
  PROVE  n \in Attempt /\ belongs[n] \in 1..created /\ belongs[n] \in Attempt
BY BoundsAssumption DEF ShapeRest, Numbers, Attempt

\* The email job an actor has in hand.
LEMMA AtStep ==
  ASSUME Inv, NEW a \in Actor, Forward(a) \/ Backward(a)
  PROVE  /\ Here(a) \in 1..created /\ Here(a) \in Attempt /\ at[a] = Step(Here(a))
         /\ Mailbox(a) = belongs[Here(a)] /\ Mailbox(a) \in 1..created /\ Mailbox(a) \in Attempt
<1>1. at[a] \in StepJob /\ pc[a] # "idle"
  BY InvIs DEF Where, Forward, Backward
<1>2. Here(a) \in 1..created
  BY <1>1, InvIs DEF Numbers
<1>3. QED
  BY <1>1, <1>2, InvIs, AttemptMade, StepIs DEF Here, Mailbox

\* What the steps that write leave as it is.
LEMMA WritingMarked ==
  ASSUME Inv, home # "gone", astray' = {}, Observe, NEW a \in Actor, NEW n \in 1..created,
         NEW s \in {"failed", "unknown", "waiting"}, NEW w \in JobWhy \ {"quarantine"},
         MarkStepProblem(Step(n), s, w), UNCHANGED Outside, Rests, pc'[a] = "idle",
         OpenHouse => Forward(a) /\ at[a] = Step(n),
         s = "failed" /\ Status(Step(n)) \in {"running", "unknown"} => Safe(belongs[n]),
         s = "waiting" => Made,
         Status(Step(n)) = "cancelled" /\ s = "unknown" => Safe(belongs[n])
  PROVE  ShapeStep /\ Writing(a)
<1>1. n \in Attempt /\ belongs[n] \in Attempt
  BY InvIs, AttemptMade
<1>2. /\ ShapeStep /\ JobsBut({Step(n)})
      /\ \/ UNCHANGED <<jobs, row, identity, step>>
         \/ s = "unknown" /\ Revives(n)
         \/ Marks(n, s)
  BY <1>1, MarkEffect, InvIs
<1>3. CASE UNCHANGED <<jobs, row, identity, step>>
  BY <1>2, <1>3 DEF Writing, Resting
<1>4. CASE s = "unknown" /\ Revives(n)
  <2>1. ~OpenHouse
    BY <1>4, InvIs DEF Revives, Hands
  <2>2. Reviving(n)
    BY <1>2, <1>4, <2>1 DEF Reviving, Revives
  <2>3. QED
    BY <1>2, <2>2 DEF Writing
<1>5. CASE Marks(n, s)
  <2>1. Quarantined(Step(n)) => s = "failed"
    <3>1. ~Overwritten(n)
      BY <1>1, Observed
    <3>2. Quarantined(Step(n)) => Status(Step(n)) = "unknown"
      BY <1>1, StepName, InvIs DEF Handed
    <3>3. QED
      BY <1>5, <3>1, <3>2 DEF Marks, Overwritten
  <2>2. s = "failed" => Safe(belongs[n])
    BY <1>5 DEF Marks
  <2>3. Marking(a, n, s)
    BY <1>2, <1>5, <2>1, <2>2 DEF Marking
  <2>4. QED
    BY <1>2, <2>3 DEF Writing
<1>6. QED
  BY <1>2, <1>3, <1>4, <1>5

LEMMA WritingBack ==
  ASSUME Inv, home # "gone", astray' = {}, Observe, NEW a \in Actor, NEW n \in 1..created,
         NEW w \in JobWhy \ {"quarantine"}, jobs' = RetryLater(jobs, Step(n), w),
         UNCHANGED <<row, identity, step>>, UNCHANGED Outside, Rests, pc'[a] = "idle",
         OpenHouse => Forward(a) /\ at[a] = Step(n)
  PROVE  ShapeStep /\ Writing(a)
<1>1. n \in Attempt /\ Step(n) \in JobId
  BY InvIs, AttemptMade, StepName
<1>2. ShapeStep /\ JobsBut({Step(n)})
  BY <1>1, RetryJob, InvIs DEF ShapeStep, ShapeJobs, ShapeRest, JobsBut
<1>3. CASE jobs' = jobs
  BY <1>2, <1>3 DEF Writing, Resting
<1>4. CASE jobs' # jobs
  <2>1. /\ Status(Step(n)) = "running"
             \/ (Status(Step(n)) = "unknown" /\ ~Quarantined(Step(n)))
        /\ jobs'[Step(n)].status = "pending" /\ jobs'[Step(n)].why = w
    BY <1>1, <1>4, RetryJob, InvIs DEF ShapeJobs, Status, Quarantined
  <2>2. ~Quarantined(Step(n))
    BY <1>1, <2>1, StepName, InvIs DEF Handed
  <2>3. belongs[n] \notin upstream
    BY <1>1, <2>1, Observed DEF PutBack
  <2>4. PuttingBack(a, n)
    BY <1>2, <2>1, <2>2, <2>3 DEF PuttingBack
  <2>5. QED
    BY <1>2, <2>4 DEF Writing
<1>5. QED
  BY <1>3, <1>4

LEMMA WritingLate ==
  ASSUME Inv, home # "gone", NEW a \in Actor, NEW n \in 1..created,
         ScheduleLate(Step(n)), UNCHANGED Outside, Rests, pc'[a] = "idle",
         TakesLateReference(Step(n)),
         (pc[a] = "answer" /\ at[a] = Step(n)) \/ (pc[a] = "idle" /\ a # Worker)
  PROVE  ShapeStep /\ Writing(a)
<1>1. n \in Attempt /\ belongs[n] \in Attempt
  BY InvIs, AttemptMade
<1>2. ShapeStep /\ Defers(n)
  BY <1>1, LateEffect, InvIs
<1>3. Handing(a, n)
  BY <1>2 DEF Handing, TakesLateReference
<1>4. QED
  BY <1>2, <1>3 DEF Writing

LEMMA WritingNothing ==
  ASSUME Inv, UNCHANGED <<jobs, row, identity, step>>, UNCHANGED Outside, Rests,
         NEW a \in Actor
  PROVE  ShapeStep /\ Writing(a)
BY InvIs DEF ShapeStep, ShapeJobs, ShapeRest, Writing, Resting

LEMMA WhyOf ==
  /\ {"refused", "braked", "unready", "lost", "waiting", "limited", "rejected", "absent",
      "inconclusive", "handoff"} \subseteq JobWhy \ {"quarantine"}
  /\ JobWhy \ {"quarantine"} \subseteq JobWhy
BY DEF JobWhy

LEMMA WorkerActs == Worker \in Actor
BY DEF Actor

\* A refused job may be closed: nothing is made without consent.
LEMMA RefusedIsSafe ==
  ASSUME Inv, home # "gone", NEW n \in 1..created, Refused(Step(n)),
         Status(Step(n)) \in {"running", "unknown"}
  PROVE  Safe(belongs[n]) /\ ~OpenHouse
<1>1. n \in Attempt
  BY InvIs, AttemptMade
<1>2. Active(n) /\ ~consent
  BY DEF Active, Unset, Unsettled, Refused
<1>3. QED
  BY <1>1, <1>2, InvIs DEF Kept, Wanted

LEMMA GateStep ==
  ASSUME Inv, home # "gone", astray' = {}, Gate
  PROVE  ShapeStep /\ ShapeLocal' /\ (Writing(Worker) \/ Entering)
<1> DEFINE n == Here(Worker)
           w == Worker
<1>1. /\ n \in 1..created /\ n \in Attempt /\ at[w] = Step(n) /\ Mailbox(w) = belongs[n]
      /\ pc[w] = "gate" /\ Forward(w)
  BY AtStep, WorkerActs DEF Forward, Gate
<1>2. Observe /\ UNCHANGED Outside
  BY DEF Gate, Outside
<1>3. Status(Step(n)) = "cancelled" => Safe(belongs[n])
  BY <1>1, InvIs, WorkerActs DEF Claims
<1>4. ASSUME Rest(w)
      PROVE  Rests /\ pc'[w] = "idle" /\ ShapeLocal'
  BY <1>2, <1>4, InvIs, RestEffect, WorkerActs DEF Outside
<1>5. CASE Refused(Step(n)) /\ MarkStepProblem(Step(n), "failed", "refused") /\ Rest(w)
  <2>1. Status(Step(n)) \in {"running", "unknown"} => Safe(belongs[n])
    BY <1>1, <1>5, RefusedIsSafe
  <2>2. QED
    BY <1>1, <1>2, <1>3, <1>4, <1>5, <2>1, WritingMarked, WhyOf, WorkerActs
<1>6. CASE /\ BrakeOption(Step(n), got[w] = "reclaimed" \/ jobs[Step(n)].tries > 1)
           /\ Rest(w)
  <2>1. CASE got[w] = "reclaimed" \/ jobs[Step(n)].tries > 1
    <3>1. MarkStepProblem(Step(n), "unknown", "braked")
      BY <1>6, <2>1 DEF BrakeOption
    <3>2. QED
      BY <1>1, <1>2, <1>3, <1>4, <1>6, <3>1, WritingMarked, WhyOf, WorkerActs
  <2>2. CASE ~(got[w] = "reclaimed" \/ jobs[Step(n)].tries > 1)
    <3>1. MarkStepProblem(Step(n), "failed", "braked")
      BY <1>6, <2>2 DEF BrakeOption
    <3>2. Safe(belongs[n])
      BY <1>1, <2>2, InvIs, WorkerActs DEF Claims
    <3>3. QED
      BY <1>1, <1>2, <1>4, <1>6, <3>1, <3>2, WritingMarked, WhyOf, WorkerActs
  <2>3. QED
    BY <2>1, <2>2
<1>7. CASE /\ Status(LatestMaker) = "failed"
           /\ MarkStepProblem(Step(n), "failed", "unready") /\ Rest(w)
  <2>1. Safe(belongs[n])
    BY <1>7, InvIs DEF Makers, Made, Safe
  <2>2. QED
    BY <1>1, <1>2, <1>4, <1>7, <2>1, WritingMarked, WhyOf, WorkerActs
<1>8. CASE /\ jobs' = RetryLater(jobs, Step(n), "unready") /\ Rest(w)
           /\ UNCHANGED <<row, identity, step>>
  BY <1>1, <1>2, <1>4, <1>8, WritingBack, WhyOf, WorkerActs
<1>9. CASE /\ NamespaceReady
           /\ Go(w, "call", IF jobs[Step(n)].op = "inspect" THEN "inspect" ELSE got[w])
           /\ UNCHANGED <<jobs, row, identity, step>>
  <2>1. (IF jobs[Step(n)].op = "inspect" THEN "inspect" ELSE got[w]) \in Answers
    BY InvIs, WorkerActs DEF ShapeLocal, Answers
  <2>2. Others(w) /\ pc'[w] = "call" /\ at'[w] = at[w] /\ ShapeLocal'
    BY <1>2, <1>9, <2>1, InvIs, GoEffect, WorkerActs DEF Places, Outside
  <2>3. Entering
    BY <1>1, <1>2, <1>9, <2>2 DEF Entering, NamespaceReady
  <2>4. ShapeStep
    BY <1>9, InvIs DEF ShapeStep, ShapeJobs, ShapeRest
  <2>5. QED
    BY <2>2, <2>3, <2>4
<1>10. QED
  <2>1. \/ Refused(Step(n)) /\ MarkStepProblem(Step(n), "failed", "refused") /\ Rest(w)
        \/ /\ BrakeOption(Step(n), got[w] = "reclaimed" \/ jobs[Step(n)].tries > 1)
           /\ Rest(w)
        \/ /\ Status(LatestMaker) = "failed"
           /\ MarkStepProblem(Step(n), "failed", "unready") /\ Rest(w)
        \/ /\ jobs' = RetryLater(jobs, Step(n), "unready") /\ Rest(w)
           /\ UNCHANGED <<row, identity, step>>
        \/ /\ NamespaceReady
           /\ Go(w, "call", IF jobs[Step(n)].op = "inspect" THEN "inspect" ELSE got[w])
           /\ UNCHANGED <<jobs, row, identity, step>>
    BY <1>1, Zenon DEF Gate
  <2>2. QED
    BY <1>4, <1>5, <1>6, <1>7, <1>8, <1>9, <2>1

LEMMA AnswerStep ==
  ASSUME Inv, home # "gone", astray' = {}, NEW a \in Actor, Answer(a)
  PROVE  ShapeStep /\ ShapeLocal' /\ Writing(a)
<1> DEFINE n == Here(a)
<1>1. /\ n \in 1..created /\ n \in Attempt /\ at[a] = Step(n) /\ Mailbox(a) = belongs[n]
      /\ pc[a] = "answer" /\ Forward(a)
  BY AtStep DEF Forward, Answer
<1>2. Observe /\ UNCHANGED Outside /\ Rest(a)
  BY DEF Answer, Outside
<1>3. Status(Step(n)) = "cancelled" => Safe(belongs[n])
  BY <1>1, InvIs DEF Claims
<1>4. Rests /\ pc'[a] = "idle" /\ ShapeLocal'
  BY <1>2, InvIs, RestEffect DEF Outside
<1>5. Made
  BY <1>1, InvIs DEF Makers
<1>6. got[a] \in {"rejected", "limited", "absent"} => Safe(belongs[n])
  BY <1>1, InvIs DEF Claims, Safe
<1>7. ASSUME NEW s \in {"unknown", "waiting"}, NEW w \in JobWhy \ {"quarantine"},
             MarkStepProblem(Step(n), s, w)
      PROVE  ShapeStep /\ Writing(a)
  BY <1>1, <1>2, <1>3, <1>4, <1>5, <1>7, WritingMarked
<1>8. ASSUME got[a] \in {"rejected", "limited", "absent"}, NEW w \in JobWhy \ {"quarantine"},
             MarkStepProblem(Step(n), "failed", w)
      PROVE  ShapeStep /\ Writing(a)
  BY <1>1, <1>2, <1>4, <1>6, <1>8, WritingMarked
<1>9. CASE got[a] = "waiting" /\ WaitingAnswer(a)
  <2>1. CASE TakesLateReference(Step(n))
    <3>1. ScheduleLate(Step(n))
      BY <1>1, <1>9, <2>1 DEF WaitingAnswer
    <3>2. QED
      BY <1>1, <1>2, <1>4, <2>1, <3>1, WritingLate
  <2>2. CASE ~TakesLateReference(Step(n))
    <3>1. MarkStepProblem(Step(n), IF ByDeletion THEN "unknown" ELSE "waiting", "waiting")
      BY <1>1, <1>9, <2>2 DEF WaitingAnswer
    <3>2. MarkStepProblem(Step(n), "unknown", "waiting")
             \/ MarkStepProblem(Step(n), "waiting", "waiting")
      BY <3>1
    <3>3. QED
      BY <3>2, <1>4, <1>7, WhyOf
  <2>3. QED
    BY <2>1, <2>2
<1>10. CASE got[a] = "limited" /\ Limited(a)
  <2>1. CASE MarkStepProblem(Step(n), "failed", "limited")
    <3>1. got[a] \in {"rejected", "limited", "absent"} /\ "limited" \in JobWhy \ {"quarantine"}
      BY <1>10, WhyOf
    <3>2. QED
      BY <1>4, <1>8, <2>1, <3>1
  <2>2. CASE jobs' = RetryLater(jobs, Step(n), "limited") /\ UNCHANGED <<row, identity, step>>
    BY <1>1, <1>2, <1>4, <2>2, WritingBack, WhyOf
  <2>3. \/ MarkStepProblem(Step(n), "failed", "limited")
        \/ jobs' = RetryLater(jobs, Step(n), "limited") /\ UNCHANGED <<row, identity, step>>
    BY <1>1, <1>10, Zenon DEF Limited
  <2>4. QED
    BY <2>1, <2>2, <2>3
<1>11. CASE got[a] = "lost" /\ NoAnswer(a)
  <2>1. CASE MarkStepProblem(Step(n), "unknown", "lost")
    BY <1>4, <1>7, <2>1, WhyOf
  <2>2. CASE UNCHANGED <<jobs, row, identity, step>>
    BY <1>2, <1>4, <2>2, WritingNothing
  <2>3. QED
    BY <1>1, <1>11, <2>1, <2>2 DEF NoAnswer
<1>12. QED
  <2>1. \/ got[a] = "waiting" /\ WaitingAnswer(a)
        \/ MarkStepProblem(Step(n), "waiting", "waiting")
        \/ got[a] = "limited" /\ Limited(a)
        \/ /\ got[a] \in {"rejected", "absent"}
           /\ MarkStepProblem(Step(n), "failed", got[a])
        \/ MarkStepProblem(Step(n), "unknown", "inconclusive")
        \/ got[a] = "lost" /\ NoAnswer(a)
    BY <1>1, Zenon DEF Answer
  <2>2. got[a] \in {"rejected", "absent"} => got[a] \in JobWhy \ {"quarantine"}
    BY WhyOf
  <2>3. QED
    BY <1>4, <1>7, <1>8, <1>9, <1>10, <1>11, <2>1, <2>2, WhyOf

LEMMA OperatorActs == ASSUME NEW o \in Operators PROVE o \in Actor /\ o # Worker
BY ActorAssumption DEF Actor

LEMMA ReconcileStep ==
  ASSUME Inv, home # "gone", astray' = {}, NEW o \in Operators, NEW j \in JobId,
         Reconcile(o, j)
  PROVE  ShapeStep /\ ShapeLocal' /\ (Writing(o) \/ Taking(o, j))
<1>1. Observe /\ UNCHANGED Outside /\ pc[o] = "idle" /\ Status(j) = "unknown"
  BY DEF Reconcile, Outside
<1>2. o \in Actor /\ o # Worker
  BY OperatorActs
<1>3. ASSUME at' = [at EXCEPT ![o] = j], NEW p \in Places, pc' = [pc EXCEPT ![o] = p],
             UNCHANGED got
      PROVE  ShapeLocal' /\ Others(o) /\ at'[o] = j /\ pc'[o] = p /\ got'[o] = got[o]
  BY <1>1, <1>2, <1>3, InvIs DEF ShapeLocal, Others, Places, Outside
<1>4. ASSUME UNCHANGED <<jobs, row, identity, step>>
      PROVE  ShapeStep
  BY <1>4, InvIs DEF ShapeStep, ShapeJobs, ShapeRest
<1>5. CASE j \notin StepJob
  <2>1. /\ at' = [at EXCEPT ![o] = j]
        /\ pc' = [pc EXCEPT ![o] = IF j \in Maker THEN "make" ELSE "clean"]
        /\ UNCHANGED <<got, jobs, row, identity, step>>
    BY <1>5 DEF Reconcile
  <2>2. CASE j \in Maker
    <3>1. /\ ShapeLocal' /\ Others(o) /\ at'[o] = j /\ pc'[o] = "make" /\ got'[o] = got[o]
      BY <1>3, <2>1, <2>2 DEF Places
    <3>2. Taking(o, j)
      BY <1>1, <2>1, <2>2, <3>1 DEF Taking
    <3>3. QED
      BY <1>4, <2>1, <3>1, <3>2
  <2>3. CASE j \notin Maker
    <3>1. /\ ShapeLocal' /\ Others(o) /\ at'[o] = j /\ pc'[o] = "clean" /\ got'[o] = got[o]
      BY <1>3, <2>1, <2>3 DEF Places
    <3>2. Taking(o, j)
      BY <1>1, <1>5, <2>1, <2>3, <3>1 DEF Taking
    <3>3. QED
      BY <1>4, <2>1, <3>1, <3>2
  <2>4. QED
    BY <2>2, <2>3
<1>6. CASE j \in StepJob
  <2> DEFINE n == j[2]
  <2>1. n \in 1..created /\ n \in Attempt /\ j = Step(n)
    <3>1. n \in Attempt /\ j = Step(n)
      BY <1>6, StepIs
    <3>2. n \leq created
      BY <1>1, <3>1, InvIs DEF Numbers, Attempt, ShapeRest
    <3>3. QED
      BY <3>1, <3>2, Attempts, InvIs DEF Attempt, ShapeRest
  <2> HIDE DEF n
  <2>2. CASE Refused(j) /\ MarkStepProblem(j, "failed", "refused") /\ UNCHANGED local
    <3>1. Safe(belongs[n]) /\ ~OpenHouse
      BY <1>1, <2>1, <2>2, RefusedIsSafe
    <3>2. Rests /\ pc'[o] = "idle" /\ ShapeLocal'
      BY <1>1, <2>2, InvIs DEF Rests, ShapeLocal, Outside
    <3>3. QED
      BY <1>1, <1>2, <2>1, <2>2, <3>1, <3>2, WritingMarked, WhyOf
  <2>3. CASE (Quarantined(j) \/ ByDeletion) /\ ShutdownProbe(j) /\ UNCHANGED local
    <3>1. Rests /\ pc'[o] = "idle" /\ ShapeLocal'
      BY <1>1, <2>3, InvIs DEF Rests, ShapeLocal, Outside
    <3>2. ScheduleLate(Step(n)) /\ TakesLateReference(Step(n))
      BY <1>1, <2>1, <2>3 DEF ShutdownProbe, TakesLateReference
    <3>3. QED
      BY <1>1, <1>2, <2>1, <3>1, <3>2, WritingLate
  <2>4. CASE /\ ~Quarantined(j) /\ NamespaceReady
             /\ at' = [at EXCEPT ![o] = j]
             /\ pc' = [pc EXCEPT ![o] = "call"]
             /\ UNCHANGED <<got, jobs, row, identity, step>>
    <3>1. ShapeLocal' /\ Others(o) /\ at'[o] = j /\ pc'[o] = "call" /\ got'[o] = got[o]
      BY <1>3, <2>4 DEF Places
    <3>2. Taking(o, j)
      BY <1>1, <1>6, <2>4, <3>1 DEF Taking, NamespaceReady
    <3>3. QED
      BY <1>4, <2>4, <3>1, <3>2
  <2>5. QED
    BY <1>6, <2>2, <2>3, <2>4 DEF Reconcile
<1>7. QED
  BY <1>5, <1>6

LEMMA UnwantedIsNotLive ==
  ASSUME Inv, home # "gone", NEW a \in Actor, Forward(a),
         Superseded(at[a]) \/ ~IsWanted(at[a])
  PROVE  ~IsLive(Mailbox(a))
<1> DEFINE n == Here(a)
<1>1. /\ n \in Attempt /\ at[a] = Step(n) /\ Mailbox(a) = belongs[n] /\ belongs[n] \in Attempt
      /\ pc[a] # "idle"
  BY AtStep DEF Forward
<1>2. CASE OpenHouse
  <2>1. Status(Step(n)) \in {"running", "unknown"}
    BY <1>1, <1>2, InvIs DEF Hands
  <2>2. Quarantined(Step(n))
    <3> SUFFICES ASSUME ~Quarantined(Step(n)) PROVE FALSE
      OBVIOUS
    <3>1. Active(n)
      BY <2>1 DEF Active, Unset, Unsettled
    <3>2. home = "onboarding" /\ step \in InProgress
      BY <1>1, <1>2, <3>1, InvIs DEF Wanted
    <3>3. QED
      BY <1>1, <2>1, <3>2 DEF Superseded, IsWanted
  <2>3. identity[belongs[n]] = "disconnecting"
    BY <1>1, <1>2, <2>1, <2>2, InvIs DEF Wanted, Active, Unset, Unsettled
  <2>4. QED
    BY <1>1, <2>3 DEF IsLive, Live
<1>3. CASE ~OpenHouse
  BY <1>1, <1>3, InvIs DEF OpenHouse, Erasing, ByDeletion
<1>4. QED
  BY <1>2, <1>3

LEMMA UndoEffect ==
  ASSUME Inv, home # "gone", NEW a \in Actor, Undo(a), UNCHANGED Outside,
         pc[a] \in {"answer", "finish"}, Superseded(at[a]) \/ ~IsWanted(at[a])
  PROVE  ShapeStep /\ ShapeLocal' /\ \E n \in 1..created : Undoing(a, n)
<1> DEFINE n == Here(a)
<1>1. /\ n \in Attempt /\ n \in 1..created /\ at[a] = Step(n) /\ Mailbox(a) = belongs[n]
      /\ Forward(a)
  BY AtStep DEF Forward
<1>2. ~IsLive(belongs[n])
  BY <1>1, UnwantedIsNotLive
<1>3. row' = External(n, "deleting") /\ Go(a, "raze", "none")
      /\ UNCHANGED <<jobs, identity, step>>
  BY DEF Undo
<1>4. "deleting" \in RowState
  BY DEF RowState
<1>5. row' \in [Attempt -> RowState] /\ row'[n] = "deleting"
      /\ \A m \in Attempt : m # n => row'[m] = row[m]
  BY <1>1, <1>3, <1>4, ExternalRow, InvIs DEF ShapeRest
<1>6. Others(a) /\ pc'[a] = "raze" /\ at'[a] = at[a] /\ ShapeLocal'
  BY <1>3, InvIs, GoEffect DEF Places, Answers, Outside
<1>7. Undoing(a, n)
  BY <1>1, <1>2, <1>3, <1>5, <1>6 DEF Undoing
<1>8. ShapeStep
  BY <1>3, <1>5, InvIs DEF ShapeStep, ShapeJobs, ShapeRest
<1>9. QED
  BY <1>1, <1>6, <1>7, <1>8

LEMMA BarrierStep ==
  ASSUME Inv, home # "gone", NEW a \in Actor, Barrier(a)
  PROVE  ShapeStep /\ ShapeLocal' /\ \E n \in 1..created : Undoing(a, n)
<1>1. Undo(a) /\ UNCHANGED Outside /\ pc[a] = "answer" /\ Superseded(at[a])
  BY DEF Barrier, Ready, Barred, Undo, Outside
<1>2. QED
  BY <1>1, UndoEffect

LEMMA StageStep ==
  ASSUME Inv, home # "gone", astray' = {}, NEW a \in Actor, StageSecret(a)
  PROVE  ShapeStep /\ ShapeLocal' /\ key' \in [Attempt -> Actor \cup {"namespace", "lost"}]
         /\ (Writing(a) \/ Installing(a))
<1> DEFINE n == Here(a)
<1>1. /\ n \in Attempt /\ n \in 1..created /\ at[a] = Step(n) /\ Mailbox(a) = belongs[n]
      /\ Forward(a) /\ pc[a] = "answer" /\ got[a] = "ready"
  BY AtStep DEF Forward, StageSecret, Ready
<1>2. Status(Step(n)) = "cancelled" => Safe(belongs[n])
  BY <1>1, InvIs DEF Claims
<1>3. /\ Observe
      /\ UNCHANGED <<belongs, namespace, home, consent, created, upstream, app, eraser>>
  BY DEF StageSecret
<1>4. CASE Install(a) /\ Go(a, "finish", "none") /\ UNCHANGED <<jobs, row, identity, step>>
  <2>1. \A k \in Attempt :
          key'[k] = IF k = Mailbox(a) /\ key[k] = a THEN "namespace"
                    ELSE IF key[k] = "namespace" THEN "lost" ELSE key[k]
    BY <1>4 DEF Install, Held
  <2>2. key' \in [Attempt -> Actor \cup {"namespace", "lost"}]
    BY <1>4, InvIs DEF Install, Held, ShapeWorld
  <2>3. Others(a) /\ pc'[a] = "finish" /\ at'[a] = at[a] /\ ShapeLocal'
    BY <1>3, <1>4, InvIs, GoEffect DEF Places, Answers
  <2>4. Installing(a)
    BY <1>1, <1>3, <1>4, <2>1, <2>3 DEF Installing
  <2>5. ShapeStep
    BY <1>4, InvIs DEF ShapeStep, ShapeJobs, ShapeRest
  <2>6. QED
    BY <2>2, <2>3, <2>4, <2>5
<1>5. CASE MarkStepProblem(Step(n), "unknown", "handoff") /\ Rest(a) /\ UNCHANGED key
  <2>1. UNCHANGED Outside
    BY <1>3, <1>5 DEF Outside
  <2>2. Rests /\ pc'[a] = "idle" /\ ShapeLocal'
    BY <1>3, <1>5, InvIs, RestEffect
  <2>3. ShapeStep /\ Writing(a)
    BY <1>1, <1>2, <1>3, <1>5, <2>1, <2>2, WritingMarked, WhyOf
  <2>4. QED
    BY <1>5, <2>2, <2>3, InvIs DEF ShapeWorld
<1>6. QED
  BY <1>1, <1>4, <1>5 DEF StageSecret

LEMMA FinishStepStep ==
  ASSUME Inv, home # "gone", NEW a \in Actor, FinishStep(a)
  PROVE  ShapeStep /\ ShapeLocal'
         /\ (Writing(a) \/ \E n \in 1..created : Undoing(a, n) \/ Verifying(a, n))
<1> DEFINE n == Here(a)
<1>1. /\ n \in Attempt /\ n \in 1..created /\ at[a] = Step(n) /\ Mailbox(a) = belongs[n]
      /\ Forward(a) /\ pc[a] = "finish" /\ belongs[n] \in Attempt
  BY AtStep DEF Forward, FinishStep
<1>2. UNCHANGED Outside
  BY DEF FinishStep, Outside
<1>3. CASE IsWanted(at[a]) /\ Verifiable(Mailbox(a)) /\ Verify(a)
  <2>1. Rests /\ pc'[a] = "idle" /\ ShapeLocal'
    BY <1>2, <1>3, InvIs, RestEffect DEF Verify, Outside
  <2>2. jobs' = Settle(jobs, Step(n), "succeeded", "none") /\ row' = External(n, "ready")
        /\ identity' = [identity EXCEPT ![belongs[n]] = "verified"] /\ step' = "verified"
    BY <1>1, <1>3 DEF Verify
  <2>3. "succeeded" \in JobStatus /\ "none" \in JobWhy /\ "ready" \in RowState
        /\ Step(n) \in JobId
    BY <1>1, StepName DEF JobStatus, JobWhy, RowState
  <2>4. /\ ShapeJobs' /\ jobs'[Step(n)].status = "succeeded"
        /\ jobs'[Step(n)].why = "none" /\ JobsBut({Step(n)})
    BY <2>2, <2>3, SettleJob, InvIs DEF ShapeJobs, JobsBut
  <2>5. /\ row' \in [Attempt -> RowState] /\ row'[n] = "ready"
        /\ \A m \in Attempt : m # n => row'[m] = row[m]
    BY <1>1, <2>2, <2>3, ExternalRow, InvIs DEF ShapeRest
  <2>6. /\ identity' \in [Attempt -> IdentityState] /\ identity'[belongs[n]] = "verified"
        /\ \A k \in Attempt : k # belongs[n] => identity'[k] = identity[k]
    BY <1>1, <2>2, InvIs DEF ShapeRest, IdentityState, Live
  <2>7. Verifying(a, n)
    BY <1>1, <1>2, <1>3, <2>1, <2>2, <2>4, <2>5, <2>6 DEF Verifying, IsWanted
  <2>8. ShapeStep
    BY <2>2, <2>4, <2>5, <2>6 DEF ShapeStep
  <2>9. QED
    BY <1>1, <2>1, <2>7, <2>8
<1>4. CASE IsWanted(at[a]) /\ ~Verifiable(Mailbox(a))
  <2>1. Active(n) /\ OpenHouse
    BY <1>1, <1>4 DEF IsWanted, Active, Unset, Unsettled, OpenHouse
  <2>2. QED
    BY <1>1, <1>4, <2>1, InvIs DEF Wanted
<1>5. CASE ~IsWanted(at[a]) /\ Rest(a) /\ UNCHANGED <<jobs, row, identity, step>>
  <2>1. Rests /\ ShapeLocal'
    BY <1>2, <1>5, InvIs, RestEffect DEF Outside
  <2>2. QED
    BY <1>2, <1>5, <2>1, WritingNothing
<1>6. CASE ~IsWanted(at[a]) /\ Undo(a)
  BY <1>1, <1>2, <1>6, UndoEffect
<1>7. QED
  BY <1>3, <1>4, <1>5, <1>6 DEF FinishStep

-----------------------------------------------------------------------------
(* The other steps at a mailbox *)

LEMMA RestingSteps ==
  ASSUME Inv, \/ \E a \in Actor : Crash(a)
              \/ \E a \in Actor : Drop(a)
              \/ Brake
  PROVE  Shape' /\ Resting
<1>1. ASSUME NEW a \in Actor, Rest(a), UNCHANGED eraser
      PROVE  Rests /\ ShapeLocal'
  BY <1>1, InvIs, RestEffect
<1>2. UNCHANGED <<jobs, row, identity, step>> /\ UNCHANGED Outside
  BY DEF Crash, Drop, Brake, Outside
<1>3. Rests /\ ShapeLocal'
  <2>1. CASE Brake
    BY <2>1, InvIs DEF Brake, Rests, ShapeLocal
  <2>2. ASSUME NEW a \in Actor, Crash(a) \/ Drop(a) PROVE Rests /\ ShapeLocal'
    BY <1>1, <2>2 DEF Crash, Drop
  <2>3. QED
    BY <2>1, <2>2
<1>4. QED
  BY <1>2, <1>3, InvIs DEF Shape, ShapeJobs, ShapeRest, ShapeWorld, Resting, Outside

LEMMA LeaseStep ==
  ASSUME Inv, NEW j \in JobId, Lease(j)
  PROVE  Shape' /\ Leasing(j)
<1>1. Status(j) \in {"pending", "running", "waiting"} /\ pc[Worker] = "idle"
  BY DEF Lease, Leasable
<1>2. /\ ShapeJobs' /\ jobs'[j].status = "running" /\ jobs'[j].why = jobs[j].why
      /\ jobs'[j].parent = jobs[j].parent /\ JobsBut({j})
  <2>1. jobs' = [jobs EXCEPT ![j].status = "running",
                             ![j].tries = IF @ = TryMax THEN @ ELSE @ + 1]
    BY DEF Lease
  <2> DEFINE t == IF jobs[j].tries = TryMax THEN TryMax ELSE jobs[j].tries + 1
  <2>2. t \in 0..TryMax /\ "running" \in JobStatus
    BY InvIs, BoundsAssumption DEF ShapeJobs, JobRec, JobStatus, Unsettled
  <2>3. jobs' = [jobs EXCEPT ![j] = [jobs[j] EXCEPT !.status = "running", !.tries = t]]
    BY <2>1, InvIs DEF ShapeJobs, JobRec
  <2> DEFINE x == [jobs[j] EXCEPT !.status = "running", !.tries = t]
  <2> HIDE DEF t
  <2>4. x \in JobRec /\ x.status = "running" /\ x.why = jobs[j].why /\ x.parent = jobs[j].parent
    BY <2>2, InvIs DEF ShapeJobs, JobRec, JobStatus
  <2> HIDE DEF x
  <2>5. QED
    BY <2>3, <2>4, InvIs DEF ShapeJobs, JobsBut, x
<1>3. /\ at'[Worker] = j /\ Others(Worker)
      /\ got'[Worker] = IF Status(j) = "running" THEN "reclaimed" ELSE "none"
      /\ pc'[Worker] = IF j \in StepJob THEN "gate" ELSE IF j \in Maker THEN "make" ELSE "clean"
      /\ ShapeLocal'
  BY InvIs, WorkerActs DEF Lease, ShapeLocal, Others
<1>4. UNCHANGED <<row, identity, step>> /\ UNCHANGED Outside
  BY DEF Lease, Outside
<1>5. QED
  BY <1>1, <1>2, <1>3, <1>4, InvIs DEF Leasing, Shape, ShapeRest, ShapeWorld, Outside

LEMMA CallStep ==
  ASSUME Inv, NEW a \in Actor, Call(a), astray' = {}
  PROVE  Shape' /\ \E n \in 1..created : Calling(a, n)
<1> DEFINE n == Here(a)
           i == belongs[n]
           K == Actor \cup {"namespace", "lost"}
<1>1. /\ n \in Attempt /\ n \in 1..created /\ at[a] = Step(n) /\ Mailbox(a) = i
      /\ i \in Attempt /\ pc[a] = "call"
  BY AtStep DEF Forward, Call
<1>2. /\ OpenHouse /\ ~LeftBehind(a) /\ ~Undermined(a)
      /\ UNCHANGED <<db, app, enabled, eraser, plan>>
  BY DEF Call
<1>3. \A b \in Actor : pc[b] = "sweep" => Mailbox(b) # i
  BY <1>1, <1>2 DEF Undermined
<1>4. ASSUME NEW h \in K, KeyOf(i, h)
      PROVE  /\ key' \in [Attempt -> K] /\ key'[i] = h
             /\ \A k \in Attempt : k # i => key'[k] = key[k]
  BY <1>1, <1>4, InvIs DEF KeyOf, ShapeWorld
<1>5. ASSUME UNCHANGED key
      PROVE  key' \in [Attempt -> K] /\ \A k \in Attempt : k # i => key'[k] = key[k]
  BY <1>5, InvIs DEF ShapeWorld
<1>6. "lost" \in K /\ a \in K
  OBVIOUS
<1>7. ASSUME MayTouch(i)
      PROVE  /\ key' \in [Attempt -> K] /\ \A k \in Attempt : k # i => key'[k] = key[k]
             /\ upstream' = upstream \/ upstream' = upstream \cup {i}
  BY <1>4, <1>5, <1>6, <1>7 DEF MayTouch
<1>8. \E p \in {"call", "answer"}, g \in Answers :
        /\ Go(a, p, g)
        /\ upstream' = upstream \/ upstream' = upstream \cup {i}
        /\ key' \in [Attempt -> K] /\ \A k \in Attempt : k # i => key'[k] = key[k]
        /\ p = "answer" /\ g = "ready" => i \in upstream' /\ key'[i] = a
        /\ p = "answer" /\ g = "absent" => i \notin upstream'
  <2>1. CASE Inspecting(a)
    <3>1. Inspected(a)
      BY <2>1 DEF Call
    <3>2. CASE i \notin upstream /\ UNCHANGED <<upstream, key>>
               /\ (Go(a, "call", "none") \/ Go(a, "answer", "absent"))
      BY <1>5, <3>2 DEF Answers
    <3>3. CASE i \in upstream /\ UNCHANGED upstream
               /\ Go(a, "answer", "ready") /\ KeyOf(i, a)
      BY <1>4, <1>6, <3>3 DEF Answers
    <3>4. CASE i \in upstream /\ UNCHANGED upstream
               /\ \E g \in {"inconclusive", "pending"} : Go(a, "answer", g)
               /\ (UNCHANGED key \/ KeyOf(i, "lost"))
      BY <1>4, <1>5, <1>6, <3>4 DEF Answers
    <3>5. CASE i \in upstream /\ UNCHANGED upstream
               /\ Go(a, "answer", "lost") /\ KeyOf(i, "lost")
      BY <1>4, <1>6, <3>5 DEF Answers
    <3>6. QED
      <4>1. CASE got[a] = "reclaimed"
        BY <1>1, <3>1, <3>2, <3>3, <3>4, <3>5, <4>1 DEF Inspected
      <4>2. CASE got[a] # "reclaimed"
        BY <1>1, <3>1, <3>2, <3>3, <3>4, <3>5, <4>2 DEF Inspected
      <4>3. QED
        BY <4>1, <4>2
  <2>2. CASE ~Inspecting(a)
    <3>1. Answered(a)
      BY <2>2 DEF Call
    <3>2. CASE Go(a, "answer", "ready") /\ upstream' = upstream \cup {i} /\ KeyOf(i, a)
      BY <1>4, <1>6, <3>2 DEF Answers
    <3>3. CASE Go(a, "answer", "waiting") /\ upstream' = upstream \cup {i} /\ KeyOf(i, "lost")
      BY <1>4, <1>6, <3>3 DEF Answers
    <3>4. CASE /\ \E g \in {"limited", "rejected", "lost"} : Go(a, "answer", g)
               /\ MayTouch(i)
      BY <1>7, <3>4 DEF Answers
    <3>5. QED
      BY <1>1, <3>1, <3>2, <3>3, <3>4 DEF Answered, MayTouch
  <2>3. QED
    BY <2>1, <2>2
<1>9. PICK p \in {"call", "answer"}, g \in Answers :
        /\ Go(a, p, g)
        /\ upstream' = upstream \/ upstream' = upstream \cup {i}
        /\ key' \in [Attempt -> K] /\ \A k \in Attempt : k # i => key'[k] = key[k]
        /\ p = "answer" /\ g = "ready" => i \in upstream' /\ key'[i] = a
        /\ p = "answer" /\ g = "absent" => i \notin upstream'
  BY <1>8
<1>10. Others(a) /\ pc'[a] = p /\ got'[a] = g /\ at'[a] = at[a] /\ ShapeLocal'
  BY <1>2, <1>9, InvIs, GoEffect DEF Places
<1>11. p = "answer" /\ g \in {"limited", "rejected"} => i \notin upstream'
  BY <1>1, <1>2, <1>10 DEF LeftBehind
<1>12. Calling(a, n)
  BY <1>1, <1>2, <1>3, <1>9, <1>10, <1>11 DEF Calling
<1>13. Shape'
  BY <1>1, <1>2, <1>9, <1>10, InvIs DEF Shape, ShapeJobs, ShapeRest, ShapeWorld
<1>14. QED
  BY <1>1, <1>12, <1>13

LEMMA KeyGone ==
  ASSUME ShapeWorld, SecretGone
  PROVE  KeyTaken /\ key' \in [Attempt -> Actor \cup {"namespace", "lost"}]
BY DEF ShapeWorld, SecretGone, Held, KeyTaken

LEMMA KeySame ==
  ASSUME ShapeWorld, UNCHANGED key
  PROVE  KeyTaken /\ key' \in [Attempt -> Actor \cup {"namespace", "lost"}]
BY DEF ShapeWorld, KeyTaken

LEMMA RazeStep ==
  ASSUME Inv, NEW a \in Actor, Raze(a)
  PROVE  Shape' /\ \E n \in 1..created : Razing(a, n)
<1> DEFINE n == Here(a)
           i == belongs[n]
           s == SecretCleanup(n)
           job == New("clean", i, n)
<1>1. /\ n \in Attempt /\ n \in 1..created /\ at[a] = Step(n) /\ Mailbox(a) = i
      /\ i \in Attempt /\ pc[a] = "raze"
  BY AtStep DEF Forward, Raze
<1>2. PICK secret, mailbox \in BOOLEAN :
        /\ jobs' = IF secret \/ ~Exists(a) THEN jobs ELSE Create(jobs, s, job)
        /\ upstream' = upstream \ {i} \/ (~mailbox /\ UNCHANGED upstream)
        /\ IF secret THEN SecretGone ELSE UNCHANGED key
        /\ Go(a, "close", IF secret THEN IF mailbox THEN "clean" ELSE "resource"
                          ELSE IF mailbox THEN "secret" ELSE "both")
  BY <1>1 DEF Raze
<1>3. UNCHANGED <<row, identity, belongs, namespace, step, home, consent, created, app, eraser>>
  BY DEF Raze
<1>4. s \in JobId /\ job \in JobRec /\ job.status = "pending" /\ job.parent = n
  BY <1>1, CleanName, Kinds, NewJob DEF Mailboxes
<1>5. /\ ShapeJobs' /\ JobsBut({s})
      /\ \/ jobs'[s] = jobs[s]
         \/ Status(s) = "none" /\ jobs'[s].status = "pending" /\ jobs'[s].parent = n
  <2>1. CASE jobs' = jobs
    BY <2>1, InvIs DEF ShapeJobs, JobsBut
  <2>2. CASE jobs' = Create(jobs, s, job)
    <3> HIDE DEF job, s
    <3> QED
      BY <1>4, <2>2, CreateJob, InvIs DEF ShapeJobs, JobsBut, Status
  <2>3. QED
    BY <1>2, <2>1, <2>2
<1>6. KeyTaken /\ key' \in [Attempt -> Actor \cup {"namespace", "lost"}]
  BY <1>2, KeyGone, KeySame, InvIs
<1>7. PICK g \in {"clean", "resource", "secret", "both"} :
        Go(a, "close", g) /\ (g \in {"clean", "secret"} <=> mailbox)
  BY <1>2
<1>8. Others(a) /\ pc'[a] = "close" /\ got'[a] = g /\ at'[a] = at[a] /\ ShapeLocal'
  BY <1>3, <1>7, InvIs, GoEffect DEF Places, Answers
<1>9. /\ upstream' = upstream \/ upstream' = upstream \ {i}
      /\ g \in {"clean", "secret"} => i \notin upstream'
  BY <1>2, <1>7
<1>10. Razing(a, n)
  <2> HIDE DEF job
  <2> QED
    BY <1>1, <1>3, <1>5, <1>6, <1>8, <1>9 DEF Razing
<1>11. Shape'
  BY <1>3, <1>5, <1>6, <1>8, <1>9, InvIs DEF Shape, ShapeRest, ShapeWorld
<1>12. QED
  BY <1>1, <1>10, <1>11

LEMMA CloseStep ==
  ASSUME Inv, NEW a \in Actor, Close(a)
  PROVE  Shape' /\ \E n \in 1..created : Closing(a, n)
<1> DEFINE n == Here(a)
           l == LateCleanup(n)
           torn == got[a] \in {"clean", "secret"}
           rows == [row EXCEPT ![n] = IF torn THEN "deleted" ELSE "unknown"]
           settled == SettleParent(jobs, n)
           job == New("clean", Mailbox(a), n)
<1>1. /\ n \in Attempt /\ n \in 1..created /\ at[a] = Step(n) /\ Mailbox(a) \in Attempt
      /\ pc[a] = "close"
  BY AtStep DEF Backward, Close
<1>2. /\ row' = rows
      /\ jobs' = IF got[a] = "clean" THEN settled ELSE IF torn THEN jobs
                 ELSE Create(jobs, l, job)
      /\ identity' = IF got[a] = "clean"
                     THEN FinishDisconnect(identity, settled, rows, Mailbox(a)) ELSE identity
      /\ Rest(a) /\ UNCHANGED step /\ UNCHANGED Outside
  BY DEF Close, Outside
<1>3. Rests /\ pc'[a] = "idle" /\ ShapeLocal'
  BY <1>2, InvIs, RestEffect DEF Outside
<1>4. /\ rows \in [Attempt -> RowState] /\ rows[n] = IF torn THEN "deleted" ELSE "unknown"
      /\ \A m \in Attempt : m # n => rows[m] = row[m]
  BY <1>1, InvIs DEF ShapeRest, RowState
<1>5. /\ l \in JobId /\ l # Step(n) /\ Step(n) \in JobId
      /\ job \in JobRec /\ job.status = "pending" /\ job.parent = n
  BY <1>1, CleanName, Kinds, NewJob, StepName DEF Mailboxes
<1>6. /\ settled \in [JobId -> JobRec]
      /\ \/ settled = jobs
         \/ /\ jobs[Step(n)].status \in {"running", "unknown", "cancelled"}
            /\ settled[Step(n)].status = "cancelled" /\ settled[Step(n)].why = "compensated"
            /\ \A k \in JobId : k # Step(n) => settled[k] = jobs[k]
  BY <1>1, SettleParentJob, InvIs DEF ShapeJobs, Mailboxes
<1> HIDE DEF l, rows, settled, job
<1>7. /\ ShapeJobs' /\ ClosesParent(n) /\ (got[a] # "clean" => jobs'[Step(n)] = jobs[Step(n)])
      /\ \/ jobs'[l] = jobs[l]
         \/ Status(l) = "none" /\ jobs'[l].status = "pending" /\ jobs'[l].parent = n
      /\ JobsBut({Step(n), l})
  <2>1. CASE got[a] = "clean"
    BY <1>2, <1>5, <1>6, <2>1 DEF ShapeJobs, ClosesParent, JobsBut, Status
  <2>2. CASE got[a] # "clean" /\ torn
    BY <1>2, <2>2, InvIs DEF ShapeJobs, ClosesParent, JobsBut
  <2>3. CASE ~torn
    <3>1. jobs' = Create(jobs, l, job)
      BY <1>2, <2>3
    <3>2. /\ jobs' \in [JobId -> JobRec] /\ \A k \in JobId : k # l => jobs'[k] = jobs[k]
          /\ jobs[l].status = "none" => jobs'[l] = job
          /\ jobs[l].status # "none" => jobs'[l] = jobs[l]
      BY <1>5, <3>1, CreateJob, InvIs DEF ShapeJobs
    <3>3. QED
      BY <1>5, <2>3, <3>2 DEF ShapeJobs, ClosesParent, JobsBut, Status
  <2>4. QED
    BY <2>1, <2>2, <2>3
<1>8. /\ identity' \in [Attempt -> IdentityState]
      /\ \A k \in Attempt : identity'[k] = identity[k] \/ Finished(k)
  <2>1. CASE got[a] = "clean"
    <3>1. identity' = FinishDisconnect(identity, jobs', row', Mailbox(a))
      BY <1>2, <2>1
    <3>2. QED
      BY <3>1, FinishIds, InvIs DEF ShapeRest, Finished
  <2>2. CASE got[a] # "clean"
    BY <1>2, <2>2, InvIs DEF ShapeRest
  <2>3. QED
    BY <2>1, <2>2
<1>9. Closing(a, n)
  BY <1>1, <1>2, <1>3, <1>4, <1>7, <1>8 DEF Closing, l
<1>10. Shape'
  BY <1>2, <1>3, <1>4, <1>7, <1>8, InvIs DEF Shape, ShapeRest, ShapeWorld, Outside
<1>11. QED
  BY <1>1, <1>9, <1>10

LEMMA ProblemJob ==
  ASSUME ShapeJobs, NEW j \in JobId, NEW s \in JobStatus, NEW w \in JobWhy \ {"quarantine"},
         MarkProblem(j, s, w)
  PROVE  /\ ShapeJobs' /\ JobsBut({j})
         /\ \/ jobs'[j] = jobs[j]
            \/ /\ jobs'[j].status = s /\ jobs'[j].why # "quarantine"
               /\ jobs'[j].parent = jobs[j].parent /\ Status(j) \in {"running", "unknown"}
            \/ /\ s = "unknown" /\ Status(j) = "cancelled"
               /\ jobs'[j].status = s /\ jobs'[j].why # "quarantine"
               /\ jobs'[j].parent = jobs[j].parent
<1>1. "late" \in JobWhy \ {"quarantine"} /\ "unknown" \in JobStatus
  BY DEF JobWhy, JobStatus, Unsettled
<1>2. CASE jobs' = Settle(jobs, j, s, w) /\ Status(j) \in {"running", "unknown"}
  BY <1>2, SettleJob DEF ShapeJobs, JobsBut
<1>3. CASE jobs' = Settle(jobs, j, "unknown", "late") /\ Status(j) = "cancelled" /\ s = "unknown"
  BY <1>1, <1>3, SettleJob DEF ShapeJobs, JobsBut
<1>4. CASE jobs' = jobs
  BY <1>4 DEF ShapeJobs, JobsBut
<1>5. QED
  BY <1>2, <1>3, <1>4 DEF MarkProblem

LEMMA ProblemWhy ==
  /\ {"teardown", "handoff", "lost", "limited", "rejected"} \subseteq JobWhy \ {"quarantine"}
  /\ "unknown" \in JobStatus /\ "failed" \in JobStatus /\ "succeeded" \in JobStatus
  /\ "none" \in JobWhy
BY DEF JobWhy, JobStatus, Unsettled

LEMMA CleanHand ==
  ASSUME Inv, NEW a \in Actor, pc[a] \in {"clean", "sweep"}, at[a] \in CleanJob
  PROVE  /\ Here(a) \in Attempt /\ Here(a) \in 1..created /\ Mailbox(a) = belongs[Here(a)]
         /\ Mailbox(a) \in Attempt /\ Mailbox(a) \in 1..created
         /\ Here(a) = at[a][2] /\ at[a] \in JobId
<1>1. Here(a) \in 1..created
  BY InvIs DEF Numbers
<1>2. at[a] \in JobId
  BY Kinds DEF CleanJob
<1>3. QED
  BY <1>1, <1>2, InvIs, AttemptMade DEF Here, Mailbox

LEMMA DepriveStep ==
  ASSUME Inv, home # "gone", NEW a \in Actor, Deprovision(a)
  PROVE  Shape' /\ \E j \in Teardown : Depriving(a, j)
<1> DEFINE j == at[a]
           i == Mailbox(a)
<1>1. /\ j \in Teardown /\ j \in JobId /\ pc[a] = "clean" /\ i \in Attempt /\ j \in CleanJob
      /\ UNCHANGED <<row, identity, belongs, namespace, step, home, consent,
                     created, key, app, enabled, eraser>>
  BY CleanHand DEF Deprovision, CleanJob
<1>2. Status(j) # "none"
  BY <1>1, InvIs DEF Handed
<1>3. CASE upstream' = upstream \ {i} /\ Go(a, "sweep", "none") /\ UNCHANGED jobs
  <2>1. Others(a) /\ pc'[a] = "sweep" /\ at'[a] = at[a] /\ ShapeLocal'
    BY <1>1, <1>3, InvIs, GoEffect DEF Places, Answers
  <2>2. Depriving(a, j)
    BY <1>1, <1>3, <2>1 DEF Depriving
  <2>3. Shape'
    BY <1>1, <1>3, <2>1, InvIs DEF Shape, ShapeJobs, ShapeRest, ShapeWorld
  <2>4. QED
    BY <1>1, <2>2, <2>3
<1>4. CASE /\ MarkProblem(j, "unknown", "teardown") /\ Rest(a)
           /\ UNCHANGED upstream \/ upstream' = upstream \ {i}
  <2>1. Rests /\ ShapeLocal'
    BY <1>1, <1>4, InvIs, RestEffect
  <2>2. ShapeJobs' /\ Troubled(j)
    BY <1>1, <1>2, <1>4, ProblemJob, ProblemWhy, InvIs DEF Troubled
  <2>3. Depriving(a, j)
    BY <1>1, <1>4, <2>1, <2>2 DEF Depriving
  <2>4. Shape'
    BY <1>1, <1>4, <2>1, <2>2, InvIs DEF Shape, ShapeRest, ShapeWorld
  <2>5. QED
    BY <1>1, <2>3, <2>4
<1>5. QED
  BY <1>3, <1>4 DEF Deprovision

LEMMA SweepStep ==
  ASSUME Inv, NEW a \in Actor, Sweep(a)
  PROVE  Shape' /\ \E j \in Teardown : Sweeping(a, j)
<1> DEFINE j == at[a]
           i == jobs[j].of
           p == jobs[j].parent
           once == Settle(jobs, j, "succeeded", "none")
           done == SettleParent(once, p)
           rows == [row EXCEPT ![Here(a)] = "deleted"]
<1>1. /\ pc[a] = "sweep" /\ j \in Teardown /\ j \in JobId /\ j \in CleanJob
      /\ Here(a) = j[2] /\ j[2] \in Attempt /\ Status(j) # "none"
      /\ UNCHANGED <<belongs, namespace, step, home, consent, created, upstream, app, eraser>>
      /\ Rest(a)
  <2>1. pc[a] = "sweep" /\ j \in Teardown
    BY InvIs DEF Sweep, Where
  <2>2. QED
    BY <2>1, CleanHand DEF CleanJob, Sweep, Exists
<1>2. Rests /\ ShapeLocal'
  BY <1>1, InvIs, RestEffect
<1>3. p \in Mailboxes /\ jobs \in [JobId -> JobRec]
  BY <1>1, InvIs DEF ShapeJobs, JobRec, Mailboxes
<1>4. /\ once \in [JobId -> JobRec] /\ once[j].status = "succeeded"
      /\ once[j].parent = p /\ \A k \in JobId : k # j => once[k] = jobs[k]
  BY <1>1, <1>3, SettleJob, ProblemWhy
<1>5. /\ done \in [JobId -> JobRec]
      /\ \/ done = once
         \/ /\ p \in Attempt /\ once[Step(p)].status \in {"running", "unknown", "cancelled"}
            /\ done[Step(p)].status = "cancelled" /\ done[Step(p)].why = "compensated"
            /\ \A k \in JobId : k # Step(p) => done[k] = once[k]
  <2> HIDE DEF once, p
  <2> QED
    BY <1>3, <1>4, SettleParentJob
<1>6. /\ rows \in [Attempt -> RowState] /\ rows[j[2]] = "deleted"
      /\ \A m \in Attempt : m # j[2] => rows[m] = row[m]
  BY <1>1, InvIs DEF ShapeRest, RowState
<1>7. CASE /\ IsLeaving(i)
           /\ IF IsLeaving(i) /\ Stored(i) THEN app /\ SecretGone ELSE UNCHANGED key
           /\ jobs' = done /\ row' = rows
           /\ identity' = FinishDisconnect(identity, done, rows, i)
  <2> HIDE DEF i, p, once, done, rows
  <2>1. KeyTaken /\ key' \in [Attempt -> Actor \cup {"namespace", "lost"}]
    BY <1>7, KeyGone, KeySame, InvIs
  <2>2. UNCHANGED key \/ \E k \in Attempt : identity[k] = "disconnecting"
    <3>1. CASE UNCHANGED key
      BY <3>1
    <3>2. CASE IsLeaving(i)
      <4>1. i \in Mailboxes
        BY <1>1, InvIs DEF i, ShapeJobs, JobRec, Mailboxes
      <4>2. QED
        BY <3>2, <4>1 DEF IsLeaving, Mailboxes
    <3>3. QED
      BY <1>7, <3>2
  <2>3. /\ identity' \in [Attempt -> IdentityState]
        /\ \A k \in Attempt : identity'[k] = identity[k] \/ Finished(k)
    BY <1>7, FinishIds, InvIs DEF ShapeRest, Finished
  <2>4. \A n \in Attempt : Step(n) # j /\ Step(n) \in JobId
    BY <1>1, StepName
  <2>5. jobs'[j].status = "succeeded" /\ jobs'[j].parent = jobs[j].parent
    BY <1>1, <1>4, <1>5, <1>7, <2>4 DEF p
  <2>6. jobs[j].parent # None => ClosesParent(jobs[j].parent)
    <3>1. ASSUME p # None PROVE ClosesParent(p)
      <4>1. p \in Attempt
        BY <1>3, <3>1 DEF Mailboxes
      <4>2. once[Step(p)] = jobs[Step(p)]
        BY <1>4, <2>4, <4>1
      <4>3. QED
        BY <1>5, <1>7, <4>1, <4>2 DEF ClosesParent, Status
    <3>2. QED
      BY <3>1 DEF p
  <2>7. \A k \in JobId :
          k # j /\ ~(jobs[j].parent # None /\ k = Step(jobs[j].parent)) => jobs'[k] = jobs[k]
    BY <1>4, <1>5, <1>7, Attempts DEF p
  <2>8. Sweeping(a, j)
    BY <1>1, <1>2, <1>6, <1>7, <2>1, <2>2, <2>3, <2>5, <2>6, <2>7 DEF Sweeping
  <2>9. Shape'
    BY <1>1, <1>2, <1>5, <1>6, <1>7, <2>1, <2>3, InvIs
    DEF Shape, ShapeJobs, ShapeRest, ShapeWorld
  <2>10. QED
    BY <1>1, <2>8, <2>9
<1>8. CASE MarkProblem(j, "unknown", "handoff") /\ UNCHANGED <<row, identity, key>>
  <2>1. ShapeJobs' /\ Troubled(j)
    BY <1>1, <1>8, ProblemJob, ProblemWhy, InvIs DEF Troubled
  <2>2. Sweeping(a, j)
    BY <1>1, <1>2, <1>8, <2>1 DEF Sweeping
  <2>3. Shape'
    BY <1>1, <1>2, <1>8, <2>1, InvIs DEF Shape, ShapeRest, ShapeWorld
  <2>4. QED
    BY <1>1, <2>2, <2>3
<1>9. QED
  BY <1>7, <1>8 DEF Sweep

LEMMA UnstageStep ==
  ASSUME Inv, home # "gone", NEW a \in Actor, CleanSecret(a)
  PROVE  Shape' /\ \E j \in SecretJob : Unstaging(a, j)
<1> DEFINE j == at[a]
           n == j[2]
           done == Settle(jobs, j, "succeeded", "none")
           settled == IF row[n] = "deleted" THEN SettleParent(done, n) ELSE done
<1>1. /\ pc[a] = "clean" /\ j \in SecretJob /\ j \in JobId /\ j \in CleanJob
      /\ Here(a) = n /\ n \in Attempt /\ Exists(a)
      /\ UNCHANGED <<row, belongs, namespace, step, home, consent, created, upstream, app, eraser>>
      /\ Rest(a)
  <2>1. pc[a] = "clean" /\ j \in SecretJob
    BY DEF CleanSecret
  <2>2. Exists(a)
    BY <2>1, InvIs DEF Handed, Exists
  <2>3. QED
    BY <2>1, <2>2, CleanHand DEF CleanJob, CleanSecret
<1>2. Rests /\ pc'[a] = "idle" /\ ShapeLocal'
  BY <1>1, InvIs, RestEffect
<1>3. jobs \in [JobId -> JobRec] /\ Step(n) \in JobId /\ Step(n) # j
  BY <1>1, StepName, InvIs DEF ShapeJobs
<1>4. /\ done \in [JobId -> JobRec] /\ done[j].status = "succeeded"
      /\ done[j].parent = jobs[j].parent /\ \A k \in JobId : k # j => done[k] = jobs[k]
  BY <1>1, <1>3, SettleJob, ProblemWhy
<1>5. /\ settled \in [JobId -> JobRec]
      /\ \/ settled = done
         \/ /\ row[n] = "deleted"
            /\ done[Step(n)].status \in {"running", "unknown", "cancelled"}
            /\ settled[Step(n)].status = "cancelled" /\ settled[Step(n)].why = "compensated"
            /\ \A k \in JobId : k # Step(n) => settled[k] = done[k]
  <2> HIDE DEF done
  <2> QED
    BY <1>1, <1>4, SettleParentJob DEF Mailboxes
<1>6. CASE /\ IF NamespaceGone THEN UNCHANGED key ELSE app /\ SecretGone
           /\ jobs' = IF Exists(a) THEN settled ELSE jobs
           /\ identity' = IF row[n] = "deleted" /\ Exists(a)
                          THEN FinishDisconnect(identity, settled, row, jobs[j].of)
                          ELSE identity
  <2> HIDE DEF done, settled
  <2>1. KeyTaken /\ key' \in [Attempt -> Actor \cup {"namespace", "lost"}]
    BY <1>6, KeyGone, KeySame, InvIs
  <2>2. jobs' = settled
    BY <1>1, <1>6
  <2>3. /\ identity' \in [Attempt -> IdentityState]
        /\ \A k \in Attempt : identity'[k] = identity[k] \/ Finished(k)
    <3>1. CASE row[n] = "deleted"
      <4>1. identity' = FinishDisconnect(identity, jobs', row', jobs[j].of)
        BY <1>1, <1>6, <2>2, <3>1
      <4>2. QED
        BY <4>1, FinishIds, InvIs DEF ShapeRest, Finished
    <3>2. CASE row[n] # "deleted"
      BY <1>6, <3>2, InvIs DEF ShapeRest
    <3>3. QED
      BY <3>1, <3>2
  <2>4. /\ jobs'[j].status = "succeeded" /\ jobs'[j].parent = jobs[j].parent
        /\ \/ row[n] = "deleted" /\ ClosesParent(n)
           \/ jobs'[Step(n)] = jobs[Step(n)]
        /\ JobsBut({j, Step(n)})
    BY <1>1, <1>3, <1>4, <1>5, <2>2 DEF JobsBut, ClosesParent, Status
  <2>5. Unstaging(a, j)
    BY <1>1, <1>2, <2>1, <2>3, <2>4 DEF Unstaging
  <2>6. Shape'
    BY <1>1, <1>2, <1>5, <2>1, <2>2, <2>3, InvIs DEF Shape, ShapeJobs, ShapeRest, ShapeWorld
  <2>7. QED
    BY <1>1, <2>5, <2>6
<1>7. CASE jobs' = Settle(jobs, j, "unknown", "teardown") /\ UNCHANGED <<identity, key>>
  <2>1. /\ ShapeJobs' /\ jobs'[j].status = "unknown" /\ jobs'[j].parent = jobs[j].parent
        /\ JobsBut({j})
    BY <1>1, <1>3, <1>7, SettleJob, ProblemWhy DEF ShapeJobs, JobsBut
  <2>2. Unstaging(a, j)
    BY <1>1, <1>2, <1>7, <2>1 DEF Unstaging
  <2>3. Shape'
    BY <1>1, <1>2, <1>7, <2>1, InvIs DEF Shape, ShapeRest, ShapeWorld
  <2>4. QED
    BY <1>1, <2>2, <2>3
<1>8. QED
  BY <1>1, <1>6, <1>7 DEF CleanSecret

-----------------------------------------------------------------------------
(* What the steps have in common, while the home is there *)

Now(j) == jobs'[j].status
NowQuarantined(j) == jobs'[j].why = "quarantine"

\* The email job n is as it was, or goes on.
Turn(n) ==
  LET s == Status(Step(n))
      t == Now(Step(n))
  IN \/ t = s /\ NowQuarantined(Step(n)) = Quarantined(Step(n))
     \/ /\ s \in {"pending", "running", "waiting"} /\ t = "running"
        /\ NowQuarantined(Step(n)) = Quarantined(Step(n))
     \/ /\ s = "running" /\ t = "unknown" /\ ~OpenHouse
        /\ NowQuarantined(Step(n)) = Quarantined(Step(n))
     \/ /\ s \in {"running", "unknown"} /\ ~NowQuarantined(Step(n))
        /\ \/ t = "failed" /\ Safe(belongs[n])
           \/ t = "cancelled" /\ Safe(belongs[n])
           \/ /\ ~Quarantined(Step(n))
              /\ \/ t = "waiting" /\ row'[n] = "creating"
                 \/ t = "unknown"
                 \/ t = "pending" /\ belongs[n] \notin upstream
                 \/ t = "succeeded" /\ row'[n] = "ready"
     \/ /\ s = "cancelled" /\ ~NowQuarantined(Step(n))
        /\ t = "cancelled" \/ (t = "unknown" /\ ~OpenHouse /\ Safe(belongs[n]))

\* A tear-down goes on, or is put down for a mailbox that is not wanted.
CleanTurn(j) ==
  \/ Status(j) = "none" /\ Now(j) = "none"
  \/ /\ Status(j) # "none" /\ jobs'[j].parent = jobs[j].parent
     /\ Now(j) \notin {"none", "waiting"} /\ (Now(j) = "pending" => Status(j) = "pending")
  \/ /\ Status(j) = "none" /\ Now(j) = "pending"
     /\ j[2] \in 1..created /\ jobs'[j].parent = j[2] /\ ~IsLive(belongs[j[2]])
     /\ j \in SecretJob /\ row[j[2]] = "deleted" => Safe(belongs[j[2]])

OtherTurn(j) ==
  /\ Now(j) # "waiting"
  /\ j \in Maker => /\ Now(j) = "none" <=> Status(j) = "none"
                    /\ NowQuarantined(j) => Now(j) = "unknown"
  /\ Status(j) # "none" => Now(j) # "none"

RowLaw ==
  \A m \in Attempt :
    /\ row'[m] # row[m] => m \in 1..created
    /\ RowOpen(m) /\ belongs[m] \in upstream' =>
         row'[m] \in {"creating", "ready", "deleting", "unknown"}
    /\ row'[m] = "deleted" /\ row[m] # "deleted" => belongs[m] \notin upstream'
IdLaw ==
  \A k \in Attempt :
    identity'[k] = identity[k] \/ Finished(k) \/ (IsLive(k) /\ identity'[k] \in Live)
StepLaw ==
  \/ step' = step
  \/ /\ step \in InProgress /\ home = "onboarding"
     /\ step' \in {"failed", "verified"} \cup InProgress
     /\ step' \in {"verified", "waiting_user"} => Made

\* An actor rests, goes on, or takes a job.
Takes(a) ==
  /\ at'[a] \in JobId /\ Status(at'[a]) # "none"
  /\ pc'[a] \in {"gate", "call"} => at'[a] \in StepJob
  /\ pc'[a] = "make" => at'[a] \in Maker
  /\ pc'[a] = "clean" => at'[a] \in CleanJob \cup NamespaceCleanup
  /\ pc'[a] \in {"gate", "call", "make", "clean"}
Goes(a) ==
  /\ at'[a] = at[a]
  /\ \/ /\ pc'[a] \in {"call", "answer", "finish", "raze", "close"}
        /\ Forward(a) \/ Backward(a)
     \/ pc'[a] = "sweep" /\ pc[a] = "clean" /\ at[a] \in Teardown
     \/ pc'[a] \in {"made", "unmake", "unmade", "kept"} /\ Building(a)
PlaceLaw ==
  \A a \in Actor : \/ pc'[a] = "idle"
                   \/ pc'[a] = pc[a] /\ at'[a] = at[a] /\ got'[a] = got[a]
                   \/ Goes(a) \/ Takes(a)

Lawful ==
  /\ UNCHANGED <<belongs, home, consent, created>>
  /\ \A n \in Attempt : Turn(n)
  /\ \A j \in CleanJob : CleanTurn(j)
  /\ \A j \in Maker \cup NamespaceCleanup : OtherTurn(j)
  /\ RowLaw /\ IdLaw /\ StepLaw /\ PlaceLaw
  /\ upstream' \subseteq upstream \cup 1..created

\* Where nothing is written.
LEMMA SameJobs ==
  ASSUME Inv, home # "gone", UNCHANGED jobs
  PROVE  /\ \A n \in Attempt : Turn(n)
         /\ \A j \in CleanJob : CleanTurn(j)
         /\ \A j \in Maker \cup NamespaceCleanup : OtherTurn(j)
<1>1. Handed
  BY InvIs
<1>2. \A n \in Attempt : Turn(n)
  BY DEF Turn, Now, NowQuarantined, Status, Quarantined
<1>3. \A j \in CleanJob : CleanTurn(j)
  BY <1>1, Kinds DEF CleanTurn, Now, Status, Handed, CleanJob
<1>4. \A j \in Maker \cup NamespaceCleanup : OtherTurn(j)
  BY <1>1, Kinds DEF OtherTurn, Now, NowQuarantined, Status, Quarantined, Handed
<1>5. QED
  BY <1>2, <1>3, <1>4

LEMMA SameRows ==
  ASSUME UNCHANGED row
  PROVE  RowLaw
BY DEF RowLaw, RowOpen

LEMMA SameIds ==
  ASSUME UNCHANGED <<identity, step>>
  PROVE  IdLaw /\ StepLaw
BY DEF IdLaw, StepLaw

LEMMA SamePlaces ==
  ASSUME Rests
  PROVE  PlaceLaw
BY DEF Rests, PlaceLaw

\* Where only one email job is written.
LEMMA OneTurn ==
  ASSUME Inv, home # "gone", NEW n \in Attempt, JobsBut({Step(n)}), Turn(n)
  PROVE  /\ \A m \in Attempt : Turn(m)
         /\ \A j \in CleanJob : CleanTurn(j)
         /\ \A j \in Maker \cup NamespaceCleanup : OtherTurn(j)
<1>1. Handed
  BY InvIs
<1>2. \A m \in Attempt : Turn(m)
  <2> SUFFICES ASSUME NEW m \in Attempt, m # n PROVE Turn(m)
    OBVIOUS
  <2>1. jobs'[Step(m)] = jobs[Step(m)]
    BY StepName, StepsDiffer DEF JobsBut
  <2>2. QED
    BY <2>1 DEF Turn, Now, NowQuarantined, Status, Quarantined
<1>3. \A j \in CleanJob \cup Maker \cup NamespaceCleanup : jobs'[j] = jobs[j] /\ j \in JobId
  BY Kinds, StepName DEF JobsBut, CleanJob
<1>4. \A j \in CleanJob : CleanTurn(j)
  BY <1>1, <1>3, Kinds DEF CleanTurn, Now, Status, Handed, CleanJob
<1>5. \A j \in Maker \cup NamespaceCleanup : OtherTurn(j)
  BY <1>1, <1>3, Kinds DEF OtherTurn, Now, NowQuarantined, Status, Quarantined, Handed
<1>6. QED
  BY <1>2, <1>4, <1>5

LEMMA OutsideIs ==
  ASSUME UNCHANGED Outside
  PROVE  /\ UNCHANGED <<belongs, namespace, home, consent, created, upstream, key, app, eraser>>
         /\ upstream' \subseteq upstream \cup 1..created
BY DEF Outside

LEMMA RestingLawful ==
  ASSUME Inv, home # "gone", Resting
  PROVE  Lawful
<1>1. UNCHANGED <<jobs, row, identity, step>> /\ UNCHANGED Outside /\ Rests
  BY DEF Resting
<1>2. QED
  BY <1>1, OutsideIs, SameJobs, SameRows, SameIds, SamePlaces DEF Lawful

LEMMA MarkingLawful ==
  ASSUME Inv, home # "gone", NEW a \in Actor, NEW n \in 1..created,
         NEW s \in {"failed", "unknown", "waiting"}, Marking(a, n, s)
  PROVE  Lawful
<1>1. n \in Attempt /\ belongs[n] \in Attempt
  BY InvIs, AttemptMade
<1>2. Marks(n, s) /\ JobsBut({Step(n)}) /\ UNCHANGED Outside /\ Rests
  BY DEF Marking
<1>3. Turn(n)
  BY <1>2 DEF Marking, Marks, Turn, Now, NowQuarantined
<1>4. RowLaw
  BY <1>1, <1>2 DEF Marks, RowLaw, RowOpen
<1>5. /\ MarkOf[s] \in Live /\ StepOf[s] \in {"failed"} \cup InProgress /\ StepOf[s] # "verified"
      /\ StepOf[s] = "waiting_user" => s = "waiting"
  BY DEF MarkOf, StepOf, Live, InProgress
<1>6. IdLaw
  <2>1. /\ \A k \in Attempt : k # belongs[n] => identity'[k] = identity[k]
        /\ IsLive(belongs[n]) => identity'[belongs[n]] = MarkOf[s]
        /\ ~IsLive(belongs[n]) =>
             identity'[belongs[n]] = identity[belongs[n]] \/ Finished(belongs[n])
    BY <1>2 DEF Marks
  <2>2. QED
    BY <2>1, <1>5 DEF IdLaw
<1>7. StepLaw
  <2>1. step' = IF step \in InProgress /\ home = "onboarding" THEN StepOf[s] ELSE step
    BY <1>2 DEF Marks
  <2>2. s = "waiting" => Made
    BY DEF Marking
  <2>3. QED
    BY <1>5, <2>1, <2>2 DEF StepLaw
<1>8. QED
  BY <1>1, <1>2, <1>3, <1>4, <1>6, <1>7, OutsideIs, OneTurn, SamePlaces DEF Lawful

LEMMA RevivingLawful ==
  ASSUME Inv, home # "gone", NEW n \in 1..created, Reviving(n)
  PROVE  Lawful
<1>1. n \in Attempt
  BY InvIs, AttemptMade
<1>2. /\ JobsBut({Step(n)}) /\ UNCHANGED Outside /\ Rests
      /\ UNCHANGED <<row, identity, step>> /\ Turn(n)
  BY DEF Reviving, Revives, Turn, Now, NowQuarantined
<1>3. QED
  BY <1>1, <1>2, OutsideIs, OneTurn, SameRows, SameIds, SamePlaces DEF Lawful

LEMMA PuttingBackLawful ==
  ASSUME Inv, home # "gone", NEW a \in Actor, NEW n \in 1..created, PuttingBack(a, n)
  PROVE  Lawful
<1>1. n \in Attempt
  BY InvIs, AttemptMade
<1>2. /\ JobsBut({Step(n)}) /\ UNCHANGED Outside /\ Rests
      /\ UNCHANGED <<row, identity, step>> /\ Turn(n)
  BY DEF PuttingBack, Turn, Now, NowQuarantined
<1>3. QED
  BY <1>1, <1>2, OutsideIs, OneTurn, SameRows, SameIds, SamePlaces DEF Lawful

\* What is handed to a tear-down is not wanted.
LEMMA HandedIsNotLive ==
  ASSUME Inv, home # "gone", NEW a, NEW n \in 1..created, Handing(a, n)
  PROVE  ~IsLive(belongs[n]) /\ (OpenHouse => Quarantined(Step(n)) /\ Status(Step(n)) = "unknown")
<1>1. n \in Attempt /\ belongs[n] \in Attempt
  BY InvIs, AttemptMade
<1>2. CASE OpenHouse
  <2>1. Quarantined(Step(n)) /\ Status(Step(n)) = "unknown"
    BY <1>2 DEF Handing, ByDeletion, OpenHouse
  <2>2. identity[belongs[n]] = "disconnecting"
    BY <1>1, <1>2, <2>1, InvIs DEF Wanted, Active, Unset, Unsettled
  <2>3. QED
    BY <1>2, <2>1, <2>2 DEF IsLive, Live
<1>3. CASE ~OpenHouse
  BY <1>1, <1>3, InvIs DEF OpenHouse, Erasing, ByDeletion
<1>4. QED
  BY <1>2, <1>3

LEMMA HandingLawful ==
  ASSUME Inv, home # "gone", NEW a \in Actor, NEW n \in 1..created, Handing(a, n)
  PROVE  Lawful
<1> DEFINE w == WaitingCleanup(n)
<1>1. /\ n \in Attempt /\ w \in Teardown /\ w[2] = n /\ w \in JobId /\ w \in CleanJob
      /\ Step(n) \in JobId
  BY InvIs, AttemptMade, CleanName, Kinds, StepName DEF CleanJob
<1>2. Defers(n) /\ UNCHANGED Outside /\ Rests
  BY DEF Handing
<1>3. ~IsLive(belongs[n])
  BY HandedIsNotLive
<1>4. \A m \in Attempt : Turn(m)
  <2>1. Turn(n)
    BY <1>2 DEF Handing, Defers, Turn, Now, NowQuarantined, Quarantined, ByDeletion, OpenHouse
  <2>2. ASSUME NEW m \in Attempt, m # n PROVE Turn(m)
    <3>1. Step(m) \in JobId /\ Step(m) # Step(n) /\ Step(m) # w
      BY <1>1, <2>2, StepName, StepsDiffer, Kinds
    <3>2. jobs'[Step(m)] = jobs[Step(m)]
      BY <1>2, <3>1 DEF Defers, JobsBut
    <3>3. QED
      BY <3>2 DEF Turn, Now, NowQuarantined, Status, Quarantined
  <2>3. QED
    BY <2>1, <2>2
<1>5. Handed
  BY InvIs
<1>6. \A j \in JobId : j # w /\ j \notin StepJob => jobs'[j] = jobs[j]
  BY <1>1, <1>2, StepName DEF Defers, JobsBut
<1>7. \A j \in CleanJob : CleanTurn(j)
  <2>1. ASSUME NEW j \in CleanJob, j # w PROVE CleanTurn(j)
    <3>1. jobs'[j] = jobs[j] /\ j \in JobId \ StepJob
      BY <1>6, <2>1, Kinds DEF CleanJob
    <3>2. QED
      BY <1>5, <3>1 DEF CleanTurn, Now, Status, Handed
  <2>2. CleanTurn(w)
    <3>1. Status(w) # "waiting"
      BY <1>1, <1>5, Kinds DEF Handed
    <3>2. w \notin SecretJob
      BY <1>1, Kinds
    <3>3. CASE Status(w) = "none"
      BY <1>1, <1>2, <1>3, <3>2, <3>3 DEF CleanTurn, Now, Defers
    <3>4. CASE Status(w) # "none"
      <4>1. jobs'[w] = jobs[w]
        BY <1>2, <3>4 DEF Defers
      <4>2. QED
        BY <3>1, <3>4, <4>1 DEF CleanTurn, Now, Status
    <3>5. QED
      BY <3>3, <3>4
  <2>3. QED
    BY <2>1, <2>2
<1>8. \A j \in Maker \cup NamespaceCleanup : OtherTurn(j)
  <2> SUFFICES ASSUME NEW j \in Maker \cup NamespaceCleanup PROVE OtherTurn(j)
    OBVIOUS
  <2>1. jobs'[j] = jobs[j] /\ j \in JobId \ StepJob
    BY <1>1, <1>6, Kinds
  <2>2. QED
    BY <1>5, <2>1 DEF OtherTurn, Now, NowQuarantined, Status, Quarantined, Handed
<1>9. RowLaw
  BY <1>1, <1>2 DEF Defers, RowLaw, RowOpen
<1>10. IdLaw /\ StepLaw
  BY <1>2, SameIds DEF Defers
<1>11. QED
  BY <1>2, <1>4, <1>7, <1>8, <1>9, <1>10, OutsideIs, SamePlaces DEF Lawful

LEMMA EnteringLawful ==
  ASSUME Inv, home # "gone", Entering
  PROVE  Lawful
<1>1. /\ pc[Worker] = "gate" /\ pc'[Worker] = "call" /\ at'[Worker] = at[Worker]
      /\ Others(Worker) /\ UNCHANGED <<jobs, row, identity, step>> /\ UNCHANGED Outside
  BY DEF Entering
<1>2. PlaceLaw
  BY <1>1 DEF PlaceLaw, Others, Goes, Forward
<1>3. QED
  BY <1>1, <1>2, OutsideIs, SameJobs, SameRows, SameIds DEF Lawful

LEMMA TakingLawful ==
  ASSUME Inv, home # "gone", NEW o \in Operators, NEW j \in JobId, Taking(o, j)
  PROVE  Lawful
<1>1. /\ UNCHANGED <<jobs, row, identity, step>> /\ UNCHANGED Outside
      /\ Others(o) /\ at'[o] = j /\ Status(j) = "unknown"
  BY DEF Taking
<1>2. Takes(o)
  BY <1>1, Kinds DEF Taking, Takes, CleanJob
<1>3. PlaceLaw
  BY <1>1, <1>2 DEF PlaceLaw, Others
<1>4. QED
  BY <1>1, <1>3, OutsideIs, SameJobs, SameRows, SameIds DEF Lawful

LEMMA LeasingLawful ==
  ASSUME Inv, home # "gone", NEW j \in JobId, Leasing(j)
  PROVE  Lawful
<1>1. /\ UNCHANGED <<row, identity, step>> /\ UNCHANGED Outside
      /\ Others(Worker) /\ at'[Worker] = j /\ Status(j) \in {"pending", "running", "waiting"}
      /\ Now(j) = "running" /\ NowQuarantined(j) = Quarantined(j)
      /\ jobs'[j].parent = jobs[j].parent /\ JobsBut({j})
  BY DEF Leasing, Now, NowQuarantined, Quarantined
<1>2. Takes(Worker)
  BY <1>1, Kinds DEF Leasing, Takes, CleanJob
<1>3. PlaceLaw
  BY <1>1, <1>2 DEF PlaceLaw, Others
<1>4. Handed
  BY InvIs
<1>5. \A k \in JobId : k # j => jobs'[k] = jobs[k]
  BY <1>1 DEF JobsBut
<1>6. \A n \in Attempt : Turn(n)
  <2> SUFFICES ASSUME NEW n \in Attempt PROVE Turn(n)
    OBVIOUS
  <2>1. CASE Step(n) = j
    BY <1>1, <2>1 DEF Turn
  <2>2. CASE Step(n) # j
    <3>1. jobs'[Step(n)] = jobs[Step(n)]
      BY <1>5, <2>2, StepName
    <3>2. QED
      BY <3>1 DEF Turn, Now, NowQuarantined, Status, Quarantined
  <2>3. QED
    BY <2>1, <2>2
<1>7. \A k \in CleanJob : CleanTurn(k)
  <2> SUFFICES ASSUME NEW k \in CleanJob PROVE CleanTurn(k)
    OBVIOUS
  <2>1. k \in JobId \ StepJob
    BY Kinds DEF CleanJob
  <2>2. CASE k = j
    BY <1>1, <2>2 DEF CleanTurn
  <2>3. CASE k # j
    BY <1>4, <1>5, <2>1, <2>3 DEF CleanTurn, Now, Status, Handed
  <2>4. QED
    BY <2>2, <2>3
<1>8. \A k \in Maker \cup NamespaceCleanup : OtherTurn(k)
  <2> SUFFICES ASSUME NEW k \in Maker \cup NamespaceCleanup PROVE OtherTurn(k)
    OBVIOUS
  <2>1. k \in JobId \ StepJob
    BY Kinds
  <2>2. CASE k = j
    BY <1>1, <1>4, <2>2 DEF OtherTurn, Handed
  <2>3. CASE k # j
    BY <1>4, <1>5, <2>1, <2>3 DEF OtherTurn, Now, NowQuarantined, Status, Quarantined, Handed
  <2>4. QED
    BY <2>2, <2>3
<1>9. QED
  BY <1>1, <1>3, <1>6, <1>7, <1>8, OutsideIs, SameRows, SameIds DEF Lawful

LEMMA CallingLawful ==
  ASSUME Inv, home # "gone", NEW a \in Actor, NEW n \in 1..created, Calling(a, n)
  PROVE  Lawful
<1>1. /\ UNCHANGED <<jobs, row, identity, step>> /\ UNCHANGED <<belongs, home, consent, created>>
      /\ pc[a] = "call" /\ pc'[a] \in {"call", "answer"} /\ at'[a] = at[a] /\ Others(a)
      /\ upstream' = upstream \/ upstream' = upstream \cup {belongs[n]}
  BY DEF Calling
<1>2. belongs[n] \in 1..created
  BY InvIs, AttemptMade
<1>3. PlaceLaw
  BY <1>1 DEF PlaceLaw, Others, Goes, Forward
<1>4. RowLaw
  BY <1>1, SameRows
<1>5. QED
  BY <1>1, <1>2, <1>3, <1>4, SameJobs, SameIds DEF Lawful

LEMMA UndoingLawful ==
  ASSUME Inv, home # "gone", NEW a \in Actor, NEW n \in 1..created, Undoing(a, n)
  PROVE  Lawful
<1>1. /\ UNCHANGED <<jobs, identity, step>> /\ UNCHANGED Outside
      /\ pc[a] \in {"answer", "finish"} /\ pc'[a] = "raze" /\ at'[a] = at[a] /\ Others(a)
      /\ row'[n] = "deleting" /\ \A m \in Attempt : m # n => row'[m] = row[m]
  BY DEF Undoing
<1>2. PlaceLaw
  BY <1>1 DEF PlaceLaw, Others, Goes, Forward
<1>3. RowLaw
  BY <1>1 DEF RowLaw, RowOpen
<1>4. QED
  BY <1>1, <1>2, <1>3, OutsideIs, SameJobs, SameIds DEF Lawful

LEMMA InstallingLawful ==
  ASSUME Inv, home # "gone", NEW a \in Actor, Installing(a)
  PROVE  Lawful
<1>1. /\ UNCHANGED <<jobs, row, identity, step>>
      /\ UNCHANGED <<belongs, home, consent, created, upstream>>
      /\ pc[a] = "answer" /\ pc'[a] = "finish" /\ at'[a] = at[a] /\ Others(a)
  BY DEF Installing
<1>2. PlaceLaw
  BY <1>1 DEF PlaceLaw, Others, Goes, Forward
<1>3. QED
  BY <1>1, <1>2, SameJobs, SameRows, SameIds DEF Lawful

LEMMA VerifyingLawful ==
  ASSUME Inv, home # "gone", NEW a \in Actor, NEW n \in 1..created, Verifying(a, n)
  PROVE  Lawful
<1>1. /\ JobsBut({Step(n)}) /\ UNCHANGED Outside /\ Rests /\ pc[a] = "finish"
      /\ row'[n] = "ready" /\ \A m \in Attempt : m # n => row'[m] = row[m]
      /\ Verifiable(belongs[n]) /\ identity'[belongs[n]] = "verified"
      /\ \A k \in Attempt : k # belongs[n] => identity'[k] = identity[k]
      /\ step \in InProgress /\ home = "onboarding" /\ step' = "verified"
  BY DEF Verifying
<1>2. n \in Attempt /\ belongs[n] \in Attempt
  BY InvIs, AttemptMade
<1>3. Turn(n)
  BY <1>1 DEF Verifying, Turn, Now, NowQuarantined
<1>4. RowLaw
  BY <1>1 DEF RowLaw, RowOpen
<1>5. IdLaw
  BY <1>1 DEF IdLaw, IsLive, Live, Verifiable
<1>6. StepLaw
  BY <1>1, InvIs DEF StepLaw, Makers
<1>7. QED
  BY <1>1, <1>2, <1>3, <1>4, <1>5, <1>6, OutsideIs, OneTurn, SamePlaces DEF Lawful

\* Where one tear-down is put down, or goes on, and an email job may be closed.
LEMMA CleanTurns ==
  ASSUME Inv, home # "gone", NEW n \in Attempt, NEW j \in CleanJob,
         JobsBut({Step(n), j}), Turn(n), CleanTurn(j)
  PROVE  /\ \A m \in Attempt : Turn(m)
         /\ \A k \in CleanJob : CleanTurn(k)
         /\ \A k \in Maker \cup NamespaceCleanup : OtherTurn(k)
<1>1. Handed
  BY InvIs
<1>2. \A m \in Attempt : Turn(m)
  <2> SUFFICES ASSUME NEW m \in Attempt, m # n PROVE Turn(m)
    OBVIOUS
  <2>1. jobs'[Step(m)] = jobs[Step(m)]
    BY StepName, StepsDiffer DEF JobsBut
  <2>2. QED
    BY <2>1 DEF Turn, Now, NowQuarantined, Status, Quarantined
<1>3. \A k \in CleanJob : CleanTurn(k)
  <2> SUFFICES ASSUME NEW k \in CleanJob, k # j PROVE CleanTurn(k)
    OBVIOUS
  <2>1. jobs'[k] = jobs[k] /\ k \in JobId \ StepJob
    BY StepName, Kinds DEF JobsBut, CleanJob
  <2>2. QED
    BY <1>1, <2>1 DEF CleanTurn, Now, Status, Handed
<1>4. \A k \in Maker \cup NamespaceCleanup : OtherTurn(k)
  <2> SUFFICES ASSUME NEW k \in Maker \cup NamespaceCleanup PROVE OtherTurn(k)
    OBVIOUS
  <2>1. jobs'[k] = jobs[k] /\ k \in JobId \ StepJob
    BY StepName, Kinds DEF JobsBut, CleanJob
  <2>2. QED
    BY <1>1, <2>1 DEF OtherTurn, Now, NowQuarantined, Status, Quarantined, Handed
<1>5. QED
  BY <1>2, <1>3, <1>4

LEMMA SameTurn ==
  ASSUME NEW n \in Attempt, jobs'[Step(n)] = jobs[Step(n)]
  PROVE  Turn(n)
BY DEF Turn, Now, NowQuarantined, Status, Quarantined

LEMMA SameClean ==
  ASSUME Inv, home # "gone", NEW j \in CleanJob, jobs'[j] = jobs[j]
  PROVE  CleanTurn(j)
<1>1. j \in JobId \ StepJob
  BY Kinds DEF CleanJob
<1>2. QED
  BY <1>1, InvIs DEF CleanTurn, Now, Status, Handed

LEMMA ClosedTurn ==
  ASSUME NEW n \in Attempt, ClosesParent(n), Safe(belongs[n])
  PROVE  Turn(n)
BY DEF ClosesParent, Turn, Now, NowQuarantined, Status, Quarantined

LEMMA TroubledTurn ==
  ASSUME Inv, home # "gone", NEW j \in CleanJob, Troubled(j)
  PROVE  CleanTurn(j)
<1>1. CASE jobs'[j] = jobs[j]
  BY <1>1, SameClean
<1>2. CASE /\ jobs'[j].status = "unknown" /\ jobs'[j].parent = jobs[j].parent
           /\ Status(j) # "none"
  BY <1>2 DEF CleanTurn, Now
<1>3. QED
  BY <1>1, <1>2 DEF Troubled

LEMMA RazingLawful ==
  ASSUME Inv, home # "gone", NEW a \in Actor, NEW n \in 1..created, Razing(a, n)
  PROVE  Lawful
<1> DEFINE s == SecretCleanup(n)
<1>1. /\ UNCHANGED <<row, identity, step>> /\ UNCHANGED <<belongs, home, consent, created>>
      /\ pc[a] = "raze" /\ at[a] = Step(n) /\ pc'[a] = "close" /\ at'[a] = at[a] /\ Others(a)
      /\ upstream' = upstream \/ upstream' = upstream \ {belongs[n]}
      /\ JobsBut({s})
  BY DEF Razing
<1>2. /\ n \in Attempt /\ s \in SecretJob /\ s \in CleanJob /\ s[2] = n
      /\ Here(a) = n /\ Mailbox(a) = belongs[n]
  BY <1>1, InvIs, AttemptMade, CleanName, StepName DEF CleanJob, Here, Mailbox
<1>3. ~IsLive(belongs[n]) /\ (row[n] = "deleted" => Safe(belongs[n]))
  BY <1>1, <1>2, InvIs DEF Claims, Backward
<1>4. CleanTurn(s)
  <2>1. CASE jobs'[s] = jobs[s]
    BY <1>2, <2>1, SameClean
  <2>2. CASE Status(s) = "none" /\ jobs'[s].status = "pending" /\ jobs'[s].parent = n
    BY <1>2, <1>3, <2>2 DEF CleanTurn, Now
  <2>3. QED
    BY <2>1, <2>2 DEF Razing
<1>5. jobs'[Step(n)] = jobs[Step(n)]
  BY <1>1, <1>2, StepName DEF JobsBut
<1>6. JobsBut({Step(n), s})
  BY <1>1 DEF JobsBut
<1>7. PlaceLaw
  BY <1>1 DEF PlaceLaw, Others, Goes, Forward
<1>8. /\ \A m \in Attempt : Turn(m)
      /\ \A k \in CleanJob : CleanTurn(k)
      /\ \A k \in Maker \cup NamespaceCleanup : OtherTurn(k)
  BY <1>2, <1>4, <1>5, <1>6, SameTurn, CleanTurns
<1>9. QED
  BY <1>1, <1>7, <1>8, SameRows, SameIds DEF Lawful

LEMMA ClosingLawful ==
  ASSUME Inv, home # "gone", NEW a \in Actor, NEW n \in 1..created, Closing(a, n)
  PROVE  Lawful
<1> DEFINE l == LateCleanup(n)
<1>1. /\ pc[a] = "close" /\ at[a] = Step(n) /\ Rests /\ UNCHANGED Outside /\ UNCHANGED step
      /\ row'[n] = IF got[a] \in {"clean", "secret"} THEN "deleted" ELSE "unknown"
      /\ \A m \in Attempt : m # n => row'[m] = row[m]
      /\ ClosesParent(n) /\ (got[a] # "clean" => jobs'[Step(n)] = jobs[Step(n)])
      /\ JobsBut({Step(n), l})
      /\ \A k \in Attempt : identity'[k] = identity[k] \/ Finished(k)
  BY DEF Closing
<1>2. /\ n \in Attempt /\ l \in Teardown /\ l \in CleanJob /\ l[2] = n
      /\ Here(a) = n /\ Mailbox(a) = belongs[n]
  BY <1>1, InvIs, AttemptMade, CleanName, StepName DEF CleanJob, Here, Mailbox
<1>3. /\ ~IsLive(belongs[n])
      /\ got[a] \in {"clean", "secret"} => belongs[n] \notin upstream
  BY <1>1, <1>2, InvIs DEF Claims, Backward
<1>4. CleanTurn(l)
  <2>1. CASE jobs'[l] = jobs[l]
    BY <1>2, <2>1, SameClean
  <2>2. CASE Status(l) = "none" /\ jobs'[l].status = "pending" /\ jobs'[l].parent = n
    BY <1>2, <1>3, <2>2, Kinds DEF CleanTurn, Now
  <2>3. QED
    BY <2>1, <2>2 DEF Closing
<1>5. Turn(n)
  <2>1. CASE got[a] = "clean"
    BY <1>1, <1>2, <1>3, <2>1, ClosedTurn DEF Safe
  <2>2. CASE got[a] # "clean"
    BY <1>1, <1>2, <2>2, SameTurn
  <2>3. QED
    BY <2>1, <2>2
<1>6. RowLaw
  <2>1. upstream' = upstream
    BY <1>1, OutsideIs
  <2>2. QED
    BY <1>1, <1>3, <2>1 DEF RowLaw, RowOpen
<1>7. IdLaw /\ StepLaw
  BY <1>1 DEF IdLaw, StepLaw
<1>8. /\ \A m \in Attempt : Turn(m)
      /\ \A k \in CleanJob : CleanTurn(k)
      /\ \A k \in Maker \cup NamespaceCleanup : OtherTurn(k)
  BY <1>1, <1>2, <1>4, <1>5, CleanTurns
<1>9. QED
  BY <1>1, <1>6, <1>7, <1>8, OutsideIs, SamePlaces DEF Lawful

LEMMA DeprivingLawful ==
  ASSUME Inv, home # "gone", NEW a \in Actor, NEW j \in Teardown, Depriving(a, j)
  PROVE  Lawful
<1>1. /\ UNCHANGED <<row, identity, step>> /\ UNCHANGED <<belongs, home, consent, created>>
      /\ pc[a] = "clean" /\ at[a] = j
      /\ upstream' \subseteq upstream \cup 1..created
  BY DEF Depriving
<1>2. j \in CleanJob /\ j \in JobId /\ j[2] \in Attempt
  BY Kinds, CleanIs DEF CleanJob
<1>3. CASE UNCHANGED jobs /\ pc'[a] = "sweep" /\ at'[a] = at[a] /\ Others(a)
  <2>1. PlaceLaw
    BY <1>1, <1>3 DEF PlaceLaw, Others, Goes
  <2>2. QED
    BY <1>1, <1>3, <2>1, SameJobs, SameRows, SameIds DEF Lawful
<1>4. CASE Rests /\ Troubled(j)
  <2>1. jobs'[Step(j[2])] = jobs[Step(j[2])] /\ JobsBut({Step(j[2]), j})
    BY <1>2, <1>4, StepName DEF Troubled, JobsBut
  <2>2. /\ \A m \in Attempt : Turn(m)
        /\ \A k \in CleanJob : CleanTurn(k)
        /\ \A k \in Maker \cup NamespaceCleanup : OtherTurn(k)
    BY <1>2, <1>4, <2>1, TroubledTurn, SameTurn, CleanTurns
  <2>3. QED
    BY <1>1, <1>4, <2>2, SameRows, SameIds, SamePlaces DEF Lawful
<1>5. QED
  BY <1>3, <1>4 DEF Depriving

LEMMA SweepingLawful ==
  ASSUME Inv, home # "gone", NEW a \in Actor, NEW j \in Teardown, Sweeping(a, j)
  PROVE  Lawful
<1> DEFINE p == jobs[j].parent
<1>1. /\ UNCHANGED step /\ UNCHANGED <<belongs, home, consent, created, upstream>>
      /\ pc[a] = "sweep" /\ at[a] = j /\ Rests
  BY DEF Sweeping
<1>2. /\ j \in CleanJob /\ j \in JobId /\ j[2] \in Attempt /\ Status(j) # "none"
      /\ Here(a) = j[2] /\ Mailbox(a) = belongs[j[2]] /\ j \notin SecretJob
  <2>1. j \in CleanJob /\ j \in JobId /\ j[2] \in Attempt /\ j \notin SecretJob
    BY Kinds, CleanIs DEF CleanJob
  <2>2. QED
    BY <1>1, <2>1, InvIs DEF Handed, Here, Mailbox
<1>3. belongs[j[2]] \notin upstream
  BY <1>1, <1>2, InvIs DEF Claims
<1>4. p \in {None} \cup Attempt
  BY <1>2, InvIs DEF ShapeJobs, JobRec
<1>5. p # None => p \in Attempt /\ Safe(belongs[p])
  BY <1>2, <1>3, <1>4, InvIs DEF Parents, Safe
<1>6. CASE /\ jobs'[j].status = "succeeded" /\ jobs'[j].parent = p
           /\ p # None => ClosesParent(p)
           /\ \A k \in JobId : k # j /\ ~(p # None /\ k = Step(p)) => jobs'[k] = jobs[k]
           /\ row'[j[2]] = "deleted" /\ \A m \in Attempt : m # j[2] => row'[m] = row[m]
           /\ \A k \in Attempt : identity'[k] = identity[k] \/ Finished(k)
  <2>1. CleanTurn(j)
    BY <1>2, <1>6 DEF CleanTurn, Now
  <2>2. /\ \A m \in Attempt : Turn(m)
        /\ \A k \in CleanJob : CleanTurn(k)
        /\ \A k \in Maker \cup NamespaceCleanup : OtherTurn(k)
    <3>1. CASE p # None
      <4>1. JobsBut({Step(p), j})
        BY <1>6, <3>1 DEF JobsBut
      <4>2. Turn(p)
        BY <1>5, <1>6, <3>1, ClosedTurn
      <4>3. QED
        BY <1>2, <1>5, <2>1, <3>1, <4>1, <4>2, CleanTurns
    <3>2. CASE p = None
      <4>1. JobsBut({Step(j[2]), j}) /\ jobs'[Step(j[2])] = jobs[Step(j[2])]
        BY <1>2, <1>6, <3>2, StepName DEF JobsBut
      <4>2. QED
        BY <1>2, <2>1, <4>1, SameTurn, CleanTurns
    <3>3. QED
      BY <3>1, <3>2
  <2>3. j[2] \in 1..created
    BY <1>2, InvIs DEF Numbers
  <2>4. RowLaw
    BY <1>1, <1>3, <1>6, <2>3 DEF RowLaw, RowOpen
  <2>5. IdLaw /\ StepLaw
    BY <1>1, <1>6 DEF IdLaw, StepLaw
  <2>6. QED
    BY <1>1, <2>2, <2>4, <2>5, SamePlaces DEF Lawful
<1>7. CASE Troubled(j) /\ UNCHANGED <<row, identity>>
  <2>1. jobs'[Step(j[2])] = jobs[Step(j[2])] /\ JobsBut({Step(j[2]), j})
    BY <1>2, <1>7, StepName DEF Troubled, JobsBut
  <2>2. /\ \A m \in Attempt : Turn(m)
        /\ \A k \in CleanJob : CleanTurn(k)
        /\ \A k \in Maker \cup NamespaceCleanup : OtherTurn(k)
    BY <1>2, <1>7, <2>1, TroubledTurn, SameTurn, CleanTurns
  <2>3. QED
    BY <1>1, <1>7, <2>2, SameRows, SameIds, SamePlaces DEF Lawful
<1>8. QED
  BY <1>6, <1>7 DEF Sweeping

LEMMA UnstagingLawful ==
  ASSUME Inv, home # "gone", NEW a \in Actor, NEW j \in SecretJob, Unstaging(a, j)
  PROVE  Lawful
<1> DEFINE n == j[2]
<1>1. /\ UNCHANGED <<row, step>> /\ UNCHANGED <<belongs, home, consent, created, upstream>>
      /\ pc[a] = "clean" /\ at[a] = j /\ Rests
  BY DEF Unstaging
<1>2. j \in CleanJob /\ j \in JobId /\ n \in Attempt /\ Status(j) # "none"
  <2>1. j \in CleanJob /\ j \in JobId /\ n \in Attempt
    BY Kinds, CleanIs DEF CleanJob
  <2>2. QED
    BY <1>1, <2>1, InvIs DEF Handed
<1>3. row[n] = "deleted" => Safe(belongs[n])
  BY <1>2, InvIs DEF Parents
<1>4. CleanTurn(j)
  BY <1>2 DEF Unstaging, CleanTurn, Now
<1>5. Turn(n) /\ JobsBut({Step(n), j})
  <2>1. CASE /\ \/ row[n] = "deleted" /\ ClosesParent(n)
                \/ jobs'[Step(n)] = jobs[Step(n)]
             /\ JobsBut({j, Step(n)})
    <3>1. JobsBut({Step(n), j})
      BY <2>1 DEF JobsBut
    <3>2. QED
      BY <1>2, <1>3, <2>1, <3>1, ClosedTurn, SameTurn
  <2>2. CASE JobsBut({j})
    BY <1>2, <2>2, StepName, SameTurn DEF JobsBut
  <2>3. QED
    BY <2>1, <2>2 DEF Unstaging
<1>6. /\ \A m \in Attempt : Turn(m)
      /\ \A k \in CleanJob : CleanTurn(k)
      /\ \A k \in Maker \cup NamespaceCleanup : OtherTurn(k)
  BY <1>2, <1>4, <1>5, CleanTurns
<1>7. IdLaw /\ StepLaw
  <2>1. \A k \in Attempt : identity'[k] = identity[k] \/ Finished(k)
    BY DEF Unstaging
  <2>2. QED
    BY <1>1, <2>1 DEF IdLaw, StepLaw
<1>8. QED
  BY <1>1, <1>6, <1>7, SameRows, SamePlaces DEF Lawful

-----------------------------------------------------------------------------
(* The steps at the namespace *)

MailSame == UNCHANGED <<row, identity, belongs, step, home, consent, created, upstream, eraser>>

\* Nobody else is at the job, and no app is made that the job forgets.
Alone(a) == \A b \in Actor : b # a => at[b] # at[a]
Remembered(a) ==
  /\ Alone(a)
  /\ app' => Now(at[a]) \in {"running", "unknown", "succeeded"}
  /\ ~(ByDeletion /\ Now(at[a]) = "pending")

Clearing(a) ==
  /\ pc[a] = "clean" /\ at[a] \in NamespaceCleanup /\ Rests /\ MailSame
  /\ JobsBut({at[a]}) /\ Now(at[a]) \notin {"none", "waiting"}
  /\ namespace' \in {namespace, "deleted"}
  /\ app' => app /\ namespace' = namespace
  /\ KeyTaken

Housing(a) ==
  /\ pc[a] = "make" /\ pc'[a] = "made" /\ at'[a] = at[a] /\ Others(a) /\ MailSame
  /\ UNCHANGED <<jobs, namespace, key>> /\ Alone(a)

Refusing(a) ==
  /\ pc[a] = "made" /\ pc'[a] = "idle" /\ Rests /\ MailSame /\ UNCHANGED <<namespace, app, key>>
  /\ JobsBut({at[a]}) /\ Remembered(a)
  /\ \/ jobs'[at[a]] = jobs[at[a]]
     \/ /\ Status(at[a]) \in {"running", "unknown"} /\ ~NowQuarantined(at[a])
        /\ Now(at[a]) \in {"failed", "unknown", "pending"}

Housed(a) ==
  /\ pc[a] = "made" /\ pc'[a] = "idle" /\ Rests /\ MailSame /\ UNCHANGED <<app, key>>
  /\ JobsBut({at[a]}) /\ Alone(a)
  /\ Now(at[a]) = "succeeded" /\ ~NowQuarantined(at[a]) /\ namespace' = "ready"
  /\ home = "onboarding"

Unhousing(a) ==
  /\ pc[a] = "made" /\ pc'[a] = "unmake" /\ at'[a] = at[a] /\ Others(a) /\ MailSame
  /\ UNCHANGED <<jobs, app, key>> /\ namespace' = "deleting" /\ home # "onboarding"

Unmaking(a) ==
  /\ pc[a] = "unmake" /\ pc'[a] \in {"unmade", "kept"} /\ at'[a] = at[a] /\ Others(a)
  /\ MailSame /\ UNCHANGED <<jobs, namespace>> /\ (app' => app) /\ KeyTaken

Unhoused(a) ==
  /\ pc[a] \in {"unmade", "kept"} /\ pc'[a] = "idle" /\ Rests /\ MailSame
  /\ UNCHANGED <<app, key>>
  /\ JobsBut({at[a], LateNamespace(at[a])}) /\ Remembered(a)
  /\ jobs'[at[a]] = jobs[at[a]] \/ (Now(at[a]) \in {"cancelled", "unknown"} /\ ~NowQuarantined(at[a]))
  /\ \/ jobs'[LateNamespace(at[a])] = jobs[LateNamespace(at[a])]
     \/ Status(LateNamespace(at[a])) = "none" /\ Now(LateNamespace(at[a])) = "pending"
  /\ namespace' \in {"deleted", "unknown"}

\* The job an actor makes, or unmakes, the namespace for is open.
LEMMA AtMaker ==
  ASSUME Inv, home # "gone", NEW a \in Actor, Building(a)
  PROVE  /\ at[a] \in Maker /\ at[a] \in JobId /\ Status(at[a]) \in {"running", "unknown"}
         /\ home = "onboarding" => ~Quarantined(at[a]) /\ pc[a] \in {"make", "made"}
<1>1. at[a] \in Maker
  BY InvIs DEF Where
<1>2. Status(at[a]) \in {"running", "unknown"}
  BY InvIs DEF Makers, MakerOpen
<1>3. QED
  BY <1>1, <1>2, InvIs, Kinds DEF Makers, MakerOpen, Building

LEMMA AppObserved ==
  ASSUME NEW a \in Actor, ObserveApp(a), astray' = {}
  PROVE  Remembered(a) /\ Alone(a)
<1>1. ~(\/ \E b \in Actor \ {a} : at[b] = at[a]
        \/ app' /\ Now(at[a]) \notin {"running", "unknown", "succeeded"}
        \/ ByDeletion /\ Now(at[a]) = "pending")
  BY DEF ObserveApp, Now
<1>2. Alone(a)
  BY <1>1 DEF Alone
<1>3. QED
  BY <1>1, <1>2, Zenon DEF Remembered

LEMMA CleanNamespaceStep ==
  ASSUME Inv, home # "gone", NEW a \in Actor, CleanNamespace(a)
  PROVE  Shape' /\ Clearing(a)
<1> DEFINE j == at[a]
<1>1. /\ pc[a] = "clean" /\ j \in NamespaceCleanup /\ Rest(a) /\ MailSame
  BY DEF CleanNamespace, MailSame
<1>2. Rests /\ ShapeLocal'
  BY <1>1, InvIs, RestEffect DEF MailSame
<1>3. j \in JobId \ StepJob /\ Status(j) # "none" /\ Status(j) # "waiting"
  BY <1>1, Kinds, InvIs DEF Handed
<1>4. /\ ShapeJobs' /\ JobsBut({j}) /\ Now(j) \notin {"none", "waiting"}
  <2>1. CASE jobs' = RetryLater(jobs, j, "unready")
    <3>1. "unready" \in JobWhy
      BY WhyOf
    <3>2. RetryLater(jobs, j, "unready")[j].status = "pending"
             \/ RetryLater(jobs, j, "unready") = jobs
      BY <1>3, <3>1, RetryJob, InvIs DEF ShapeJobs
    <3>3. QED
      BY <1>3, <2>1, <3>1, <3>2, RetryJob, InvIs DEF ShapeJobs, JobsBut, Now, Status
  <2>2. CASE jobs' = Settle(jobs, j, "succeeded", "none")
    BY <1>3, <2>2, SettleJob, ProblemWhy, InvIs DEF ShapeJobs, JobsBut, Now
  <2>3. CASE jobs' = jobs
    BY <1>3, <2>3, InvIs DEF ShapeJobs, JobsBut, Now, Status
  <2>4. CASE MarkProblem(j, "unknown", "teardown")
    <3>1. "teardown" \in JobWhy \ {"quarantine"} /\ "unknown" \in JobStatus
      BY ProblemWhy
    <3>2. /\ ShapeJobs' /\ JobsBut({j})
          /\ jobs'[j] = jobs[j] \/ jobs'[j].status = "unknown"
      BY <1>3, <2>4, <3>1, ProblemJob, InvIs
    <3>3. QED
      BY <1>3, <3>2 DEF Now, Status
  <2>5. QED
    BY <2>1, <2>2, <2>3, <2>4 DEF CleanNamespace, DeferCleanup
<1>5. /\ namespace' \in {namespace, "deleted"} /\ (app' => app /\ namespace' = namespace)
      /\ app' \in BOOLEAN
      /\ (UNCHANGED key \/ SecretGone)
  <2>1. app \in BOOLEAN
    BY InvIs DEF ShapeWorld
  <2>2. CASE UNCHANGED <<namespace, app, key>>
    BY <2>1, <2>2
  <2>3. CASE AppGone /\ namespace' \in {namespace, "deleted"}
    BY <2>3 DEF AppGone
  <2>4. QED
    BY <2>2, <2>3 DEF CleanNamespace
<1>6. KeyTaken /\ key' \in [Attempt -> Actor \cup {"namespace", "lost"}]
  BY <1>5, KeyGone, KeySame, InvIs
<1>7. Clearing(a)
  BY <1>1, <1>2, <1>4, <1>5, <1>6 DEF Clearing
<1>8. Shape'
  BY <1>1, <1>2, <1>4, <1>5, <1>6, InvIs DEF Shape, ShapeRest, ShapeWorld, MailSame
<1>9. QED
  BY <1>7, <1>8

LEMMA MakeNamespaceStep ==
  ASSUME Inv, home # "gone", astray' = {}, NEW a \in Actor, MakeNamespace(a)
  PROVE  Shape' /\ Housing(a)
<1>1. /\ pc[a] = "make" /\ MailSame /\ UNCHANGED <<jobs, namespace, key>>
      /\ EnsureApp(a) /\ Alone(a)
  BY AppObserved DEF MakeNamespace, MailSame
<1>2. \E g \in Answers : Go(a, "made", g)
  BY <1>1 DEF EnsureApp, Answers, HostRefusal
<1>3. Others(a) /\ pc'[a] = "made" /\ at'[a] = at[a] /\ ShapeLocal'
  BY <1>1, <1>2, InvIs, GoEffect DEF Places, MailSame
<1>4. app' \in BOOLEAN
  <2>1. app' = TRUE \/ app' = app
    BY <1>1 DEF EnsureApp
  <2>2. QED
    BY <2>1, InvIs DEF ShapeWorld
<1>5. Housing(a)
  BY <1>1, <1>3 DEF Housing
<1>6. Shape'
  BY <1>1, <1>3, <1>4, InvIs DEF Shape, ShapeJobs, ShapeRest, ShapeWorld, MailSame
<1>7. QED
  BY <1>5, <1>6

LEMMA FinishNamespaceStep ==
  ASSUME Inv, home # "gone", astray' = {}, NEW a \in Actor, FinishNamespace(a)
  PROVE  Shape' /\ (Refusing(a) \/ Housed(a) \/ Unhousing(a))
<1> DEFINE j == at[a]
<1>1. /\ pc[a] = "made" /\ MailSame /\ UNCHANGED <<app, key>> /\ Remembered(a)
      /\ Alone(a)
  BY AppObserved DEF FinishNamespace, MailSame
<1>2. /\ j \in JobId /\ Status(j) \in {"running", "unknown"}
      /\ home = "onboarding" => ~Quarantined(j)
  BY <1>1, AtMaker DEF Building
<1>3. ASSUME Rest(a) PROVE Rests /\ pc'[a] = "idle" /\ ShapeLocal'
  BY <1>1, <1>3, InvIs, RestEffect DEF MailSame
<1>4. ASSUME ShapeJobs', ShapeLocal',
             namespace' \in {"none", "ready", "deleting", "unknown", "deleted"}
      PROVE  Shape'
  BY <1>1, <1>4, InvIs DEF Shape, ShapeRest, ShapeWorld, MailSame
<1>5. CASE NamespaceRefused(a) /\ Rest(a) /\ UNCHANGED namespace
  <2>1. /\ ShapeJobs' /\ JobsBut({j})
        /\ \/ jobs'[j] = jobs[j]
           \/ ~NowQuarantined(j) /\ Now(j) \in {"failed", "unknown", "pending"}
    <3>1. CASE MarkProblem(j, "failed", "rejected") \/ MarkProblem(j, "unknown", "lost")
                 \/ MarkProblem(j, "failed", "limited")
      <4>1. \E s \in {"failed", "unknown"}, w \in {"rejected", "lost", "limited"} :
              MarkProblem(j, s, w)
        BY <3>1
      <4>2. PICK s \in {"failed", "unknown"}, w \in {"rejected", "lost", "limited"} :
              MarkProblem(j, s, w)
        BY <4>1
      <4>3. s \in JobStatus /\ w \in JobWhy \ {"quarantine"}
        BY ProblemWhy
      <4>4. QED
        BY <1>2, <4>2, <4>3, ProblemJob, InvIs DEF Now, NowQuarantined
    <3>2. CASE UNCHANGED jobs
      BY <3>2, InvIs DEF ShapeJobs, JobsBut
    <3>3. CASE jobs' = RetryLater(jobs, j, "limited")
      <4>1. "limited" \in JobWhy \ {"quarantine"}
        BY ProblemWhy
      <4>2. QED
        BY <1>2, <3>3, <4>1, RetryJob, InvIs DEF ShapeJobs, JobsBut, Now, NowQuarantined
    <3>4. QED
      BY <1>5, <3>1, <3>2, <3>3, Zenon DEF NamespaceRefused
  <2>2. Refusing(a)
    BY <1>1, <1>2, <1>3, <1>5, <2>1 DEF Refusing
  <2>3. QED
    BY <1>3, <1>4, <1>5, <2>1, <2>2, InvIs DEF ShapeRest
<1>6. CASE Unwanted(j) /\ namespace' = "deleting" /\ UNCHANGED jobs
           /\ \E g \in {"open", "shut"} : Go(a, "unmake", g)
  <2>1. home # "onboarding"
    BY <1>2, <1>6 DEF Unwanted, Superseded
  <2>2. Others(a) /\ pc'[a] = "unmake" /\ at'[a] = at[a] /\ ShapeLocal'
    BY <1>1, <1>6, InvIs, GoEffect DEF Places, Answers, MailSame
  <2>3. Unhousing(a)
    BY <1>1, <1>6, <2>1, <2>2 DEF Unhousing
  <2>4. ShapeJobs'
    BY <1>6, InvIs DEF ShapeJobs
  <2>5. QED
    BY <1>4, <1>6, <2>2, <2>3, <2>4
<1>7. CASE /\ ~Unwanted(j) /\ jobs' = Settle(jobs, j, "succeeded", "none")
           /\ namespace' = "ready" /\ Rest(a)
  <2>1. ShapeJobs' /\ JobsBut({j}) /\ Now(j) = "succeeded" /\ ~NowQuarantined(j)
    BY <1>2, <1>7, SettleJob, ProblemWhy, InvIs DEF ShapeJobs, JobsBut, Now, NowQuarantined
  <2>2. home = "onboarding"
    BY <1>7 DEF Unwanted
  <2>3. Housed(a)
    BY <1>1, <1>3, <1>7, <2>1, <2>2 DEF Housed
  <2>4. QED
    BY <1>3, <1>4, <1>7, <2>1, <2>3
<1>8. QED
  <2>1. \/ NamespaceRefused(a) /\ Rest(a) /\ UNCHANGED namespace
        \/ Unwanted(j) /\ namespace' = "deleting" /\ UNCHANGED jobs
           /\ \E g \in {"open", "shut"} : Go(a, "unmake", g)
        \/ /\ ~Unwanted(j) /\ jobs' = Settle(jobs, j, "succeeded", "none")
           /\ namespace' = "ready" /\ Rest(a)
    BY <1>2 DEF FinishNamespace
  <2>2. QED
    BY <1>5, <1>6, <1>7, <2>1

LEMMA UnmakeStep ==
  ASSUME Inv, home # "gone", NEW a \in Actor, Unmake(a)
  PROVE  Shape' /\ Unmaking(a)
<1>1. /\ pc[a] = "unmake" /\ MailSame /\ UNCHANGED <<jobs, namespace>>
      /\ \E p \in {"unmade", "kept"} : Go(a, p, got[a])
      /\ (app' => app) /\ app' \in BOOLEAN /\ (UNCHANGED key \/ SecretGone)
  <2>1. /\ pc[a] = "unmake" /\ MailSame /\ UNCHANGED <<jobs, namespace>>
        /\ \E p \in {"unmade", "kept"} : Go(a, p, got[a])
        /\ AppGone \/ UNCHANGED <<app, key>>
    BY DEF Unmake, MailSame
  <2>2. app \in BOOLEAN
    BY InvIs DEF ShapeWorld
  <2>3. /\ app' = FALSE \/ app' = app
        /\ UNCHANGED key \/ SecretGone
    BY <2>1 DEF AppGone
  <2>4. app' = FALSE \/ app' = app
    BY <2>3
  <2>5. app' => app
    BY <2>4
  <2>6. app' \in BOOLEAN
    BY <2>2, <2>4
  <2>7. QED
    BY <2>1, <2>3, <2>5, <2>6
<1>2. got[a] \in Answers
  BY InvIs DEF ShapeLocal, Answers
<1>3. Others(a) /\ pc'[a] \in {"unmade", "kept"} /\ at'[a] = at[a] /\ ShapeLocal'
  BY <1>1, <1>2, InvIs, GoEffect DEF Places, MailSame
<1>4. KeyTaken /\ key' \in [Attempt -> Actor \cup {"namespace", "lost"}]
  BY <1>1, KeyGone, KeySame, InvIs
<1>5. Unmaking(a)
  BY <1>1, <1>3, <1>4 DEF Unmaking
<1>6. Shape'
  BY <1>1, <1>3, <1>4, InvIs DEF Shape, ShapeJobs, ShapeRest, ShapeWorld, MailSame
<1>7. QED
  BY <1>5, <1>6

LEMMA CloseNamespaceStep ==
  ASSUME Inv, home # "gone", astray' = {}, NEW a \in Actor, CloseNamespace(a)
  PROVE  Shape' /\ Unhoused(a)
<1> DEFINE j == at[a]
           l == LateNamespace(j)
           status == IF pc[a] = "unmade" THEN "cancelled" ELSE "unknown"
           closed == IF got[a] = "open" THEN Settle(jobs, j, status, "compensated") ELSE jobs
           job == New("clean", None, None)
<1>1. /\ pc[a] \in {"unmade", "kept"} /\ MailSame /\ UNCHANGED <<app, key>> /\ Remembered(a)
      /\ Rest(a)
      /\ namespace' \in {"deleted", "unknown"} /\ (jobs' = closed \/ jobs' = Create(closed, l, job))
  BY AppObserved DEF CloseNamespace, MailSame
<1>2. j \in Maker /\ j \in JobId /\ l \in JobId /\ l # j
  BY <1>1, AtMaker, Kinds DEF Building
<1>3. Rests /\ pc'[a] = "idle" /\ ShapeLocal'
  BY <1>1, InvIs, RestEffect DEF MailSame
<1>4. status \in {"cancelled", "unknown"} /\ status \in JobStatus
      /\ "compensated" \in JobWhy /\ "compensated" # "quarantine"
  BY DEF JobStatus, JobWhy, Unsettled
<1>5. /\ closed \in [JobId -> JobRec] /\ \A k \in JobId : k # j => closed[k] = jobs[k]
      /\ \/ closed[j] = jobs[j]
         \/ closed[j].status \in {"cancelled", "unknown"} /\ closed[j].why = "compensated"
  <2> HIDE DEF status
  <2> QED
    BY <1>2, <1>4, SettleJob, InvIs DEF ShapeJobs
<1>6. job \in JobRec /\ job.status = "pending"
  BY NewJob DEF Mailboxes
<1>7. /\ ShapeJobs' /\ JobsBut({j, l})
      /\ jobs'[j] = jobs[j] \/ (Now(j) \in {"cancelled", "unknown"} /\ ~NowQuarantined(j))
      /\ jobs'[l] = jobs[l] \/ (Status(l) = "none" /\ Now(l) = "pending")
  <2> HIDE DEF closed, job, l, j
  <2>1. CASE jobs' = closed
    BY <1>2, <1>5, <2>1 DEF ShapeJobs, JobsBut, Now, NowQuarantined
  <2>2. CASE jobs' = Create(closed, l, job)
    <3>1. /\ jobs' \in [JobId -> JobRec] /\ \A k \in JobId : k # l => jobs'[k] = closed[k]
          /\ closed[l].status = "none" => jobs'[l] = job
          /\ closed[l].status # "none" => jobs'[l] = closed[l]
      BY <1>2, <1>5, <1>6, <2>2, CreateJob
    <3>2. QED
      BY <1>2, <1>5, <1>6, <3>1 DEF ShapeJobs, JobsBut, Now, NowQuarantined, Status
  <2>3. QED
    BY <1>1, <2>1, <2>2
<1>8. Unhoused(a)
  <2> HIDE DEF closed, job
  <2> QED
    BY <1>1, <1>3, <1>7 DEF Unhoused
<1>9. Shape'
  <2> HIDE DEF closed, job
  <2> QED
    BY <1>1, <1>3, <1>7, InvIs DEF Shape, ShapeRest, ShapeWorld, MailSame
<1>10. QED
  BY <1>8, <1>9

\* Where only jobs of the namespace are written.
LEMMA NamespaceLawful ==
  ASSUME Inv, home # "gone", MailSame, NEW S, S \subseteq Maker \cup NamespaceCleanup,
         JobsBut(S), \A j \in S : OtherTurn(j), PlaceLaw
  PROVE  Lawful
<1>1. Handed
  BY InvIs
<1>2. \A j \in JobId : j \notin Maker \cup NamespaceCleanup => jobs'[j] = jobs[j]
  BY DEF JobsBut
<1>3. \A n \in Attempt : Turn(n)
  <2> SUFFICES ASSUME NEW n \in Attempt PROVE Turn(n)
    OBVIOUS
  <2>1. jobs'[Step(n)] = jobs[Step(n)]
    BY <1>2, StepName
  <2>2. QED
    BY <2>1, SameTurn
<1>4. \A j \in CleanJob : CleanTurn(j)
  <2> SUFFICES ASSUME NEW j \in CleanJob PROVE CleanTurn(j)
    OBVIOUS
  <2>1. jobs'[j] = jobs[j]
    BY <1>2, Kinds DEF CleanJob
  <2>2. QED
    BY <2>1, SameClean
<1>5. \A j \in Maker \cup NamespaceCleanup : OtherTurn(j)
  <2> SUFFICES ASSUME NEW j \in Maker \cup NamespaceCleanup, j \notin S PROVE OtherTurn(j)
    OBVIOUS
  <2>1. jobs'[j] = jobs[j] /\ j \in JobId
    BY Kinds DEF JobsBut
  <2>2. QED
    BY <1>1, <2>1, Kinds DEF OtherTurn, Now, NowQuarantined, Status, Quarantined, Handed
<1>6. RowLaw /\ IdLaw /\ StepLaw
  BY SameRows, SameIds DEF MailSame
<1>7. QED
  BY <1>3, <1>4, <1>5, <1>6 DEF Lawful, MailSame

LEMMA ClearingLawful ==
  ASSUME Inv, home # "gone", NEW a \in Actor, Clearing(a)
  PROVE  Lawful
<1> DEFINE j == at[a]
<1>1. j \in NamespaceCleanup /\ j \in JobId
  BY Kinds DEF Clearing
<1>2. OtherTurn(j)
  BY <1>1, Kinds DEF Clearing, OtherTurn
<1>3. PlaceLaw
  BY SamePlaces DEF Clearing
<1>4. MailSame /\ JobsBut({j})
  BY DEF Clearing
<1> HIDE DEF j
<1>5. QED
  BY <1>1, <1>2, <1>3, <1>4, NamespaceLawful

LEMMA HousingLawful ==
  ASSUME Inv, home # "gone", NEW a \in Actor, Housing(a) \/ Unhousing(a) \/ Unmaking(a)
  PROVE  Lawful
<1>1. Building(a) /\ at'[a] = at[a] /\ Others(a) /\ MailSame /\ UNCHANGED jobs
      /\ pc'[a] \in {"made", "unmake", "unmade", "kept"}
  BY DEF Housing, Unhousing, Unmaking, Building
<1>2. PlaceLaw
  BY <1>1 DEF PlaceLaw, Others, Goes
<1>3. JobsBut({})
  BY <1>1 DEF JobsBut
<1>4. QED
  BY <1>1, <1>2, <1>3, NamespaceLawful

LEMMA RefusingLawful ==
  ASSUME Inv, home # "gone", NEW a \in Actor, Refusing(a) \/ Housed(a)
  PROVE  Lawful
<1> DEFINE j == at[a]
<1>1. pc[a] = "made" /\ MailSame /\ JobsBut({j}) /\ Rests
  BY DEF Refusing, Housed
<1>2. j \in Maker /\ j \in JobId /\ Status(j) \in {"running", "unknown"}
  BY <1>1, AtMaker DEF Building
<1>3. Handed
  BY InvIs
<1>4. CASE jobs'[j] = jobs[j]
  <2>1. OtherTurn(j)
    BY <1>2, <1>3, <1>4, Kinds DEF OtherTurn, Now, NowQuarantined, Status, Quarantined, Handed
  <2>2. PlaceLaw
    BY <1>1, SamePlaces
  <2> HIDE DEF j
  <2>3. QED
    BY <1>1, <1>2, <2>1, <2>2, NamespaceLawful
<1>5. CASE ~NowQuarantined(j) /\ Now(j) \in {"failed", "unknown", "pending", "succeeded"}
  <2>1. OtherTurn(j)
    BY <1>2, <1>5 DEF OtherTurn
  <2>2. PlaceLaw
    BY <1>1, SamePlaces
  <2> HIDE DEF j
  <2>3. QED
    BY <1>1, <1>2, <2>1, <2>2, NamespaceLawful
<1>6. QED
  BY <1>4, <1>5 DEF Refusing, Housed

LEMMA UnhousedLawful ==
  ASSUME Inv, home # "gone", NEW a \in Actor, Unhoused(a)
  PROVE  Lawful
<1> DEFINE j == at[a]
           l == LateNamespace(j)
<1>1. pc[a] \in {"unmade", "kept"} /\ MailSame /\ JobsBut({j, l}) /\ Rests
  BY DEF Unhoused
<1>2. j \in Maker /\ j \in JobId /\ Status(j) \in {"running", "unknown"}
  BY <1>1, AtMaker DEF Building
<1>3. l \in NamespaceCleanup /\ l \in JobId /\ l \notin Maker
  BY <1>2, Kinds
<1>4. Handed
  BY InvIs
<1>5. OtherTurn(j)
  <2>1. jobs'[j] = jobs[j] \/ (Now(j) \in {"cancelled", "unknown"} /\ ~NowQuarantined(j))
    BY DEF Unhoused
  <2>2. CASE jobs'[j] = jobs[j]
    BY <1>2, <1>4, <2>2, Kinds DEF OtherTurn, Now, NowQuarantined, Status, Quarantined, Handed
  <2>3. CASE Now(j) \in {"cancelled", "unknown"} /\ ~NowQuarantined(j)
    BY <1>2, <2>3 DEF OtherTurn
  <2>4. QED
    BY <2>1, <2>2, <2>3
<1>6. OtherTurn(l)
  <2>1. jobs'[l] = jobs[l] \/ (Status(l) = "none" /\ Now(l) = "pending")
    BY DEF Unhoused
  <2>2. CASE jobs'[l] = jobs[l]
    BY <1>3, <1>4, <2>2, Kinds DEF OtherTurn, Now, Status, Handed
  <2>3. CASE Status(l) = "none" /\ Now(l) = "pending"
    BY <1>3, <2>3 DEF OtherTurn
  <2>4. QED
    BY <2>1, <2>2, <2>3
<1>7. PlaceLaw
  BY <1>1, SamePlaces
<1> HIDE DEF j, l
<1>8. QED
  BY <1>1, <1>2, <1>3, <1>5, <1>6, <1>7, NamespaceLawful

-----------------------------------------------------------------------------
(* What every lawful step keeps *)

LEMMA LawfulIs ==
  ASSUME Lawful
  PROVE  /\ UNCHANGED <<belongs, home, consent, created>>
         /\ OpenHouse' = OpenHouse /\ ByDeletion' = ByDeletion
         /\ \A n \in Attempt : Turn(n)
         /\ \A j \in CleanJob : CleanTurn(j)
         /\ \A j \in Maker \cup NamespaceCleanup : OtherTurn(j)
         /\ RowLaw /\ IdLaw /\ StepLaw /\ PlaceLaw
         /\ upstream' \subseteq upstream \cup 1..created
BY DEF Lawful, OpenHouse, ByDeletion

LEMMA LiveLaw ==
  ASSUME Lawful
  PROVE  \A i \in Attempt : identity'[i] \in Live => IsLive(i)
BY LawfulIs DEF IdLaw, Finished, IsLive, Live

LEMMA SafeLaw ==
  ASSUME Lawful, NEW i, i \in upstream' => i \in upstream, Safe(i)
  PROVE  Safe(i)'
<1> SUFFICES ASSUME i \in upstream' PROVE RowKept(i)'
  BY DEF Safe
<1>1. PICK m \in Attempt : belongs[m] = i /\ RowOpen(m)
  BY DEF Safe, RowKept
<1>2. row'[m] \in {"creating", "ready", "deleting", "unknown"} /\ belongs'[m] = i
  BY <1>1, LawfulIs DEF RowLaw
<1>3. QED
  BY <1>2 DEF RowKept, RowOpen

LEMMA WhereKept ==
  ASSUME Inv, Lawful
  PROVE  Where'
<1>1. Where /\ PlaceLaw
  BY InvIs, LawfulIs
<1> SUFFICES ASSUME NEW a \in Actor
             PROVE  /\ pc'[a] \in {"gate", "call", "answer", "finish", "raze", "close"} =>
                         at'[a] \in StepJob
                    /\ pc'[a] \in {"make", "made", "unmake", "unmade", "kept"} => at'[a] \in Maker
                    /\ pc'[a] = "sweep" => at'[a] \in Teardown
                    /\ pc'[a] = "clean" => at'[a] \in CleanJob \cup NamespaceCleanup
  BY DEF Where, Forward, Backward, Building
<1>2. CASE pc'[a] = "idle"
  BY <1>2
<1>3. CASE pc'[a] = pc[a] /\ at'[a] = at[a]
  BY <1>1, <1>3 DEF Where, Forward, Backward, Building
<1>4. CASE Goes(a)
  BY <1>1, <1>4 DEF Where, Goes
<1>5. CASE Takes(a)
  BY <1>5 DEF Takes
<1>6. QED
  BY <1>1, <1>2, <1>3, <1>4, <1>5 DEF PlaceLaw

\* A job that is there stays there, and is at no attempt still to come.
LEMMA StaysThere ==
  ASSUME Inv, home # "gone", Lawful, NEW j \in JobId, Status(j) # "none"
  PROVE  /\ Now(j) # "none"
         /\ j \in StepJob \cup CleanJob => j[2] \in 1..created
<1>1. CASE j \in StepJob
  <2>1. PICK n \in Attempt : j = Step(n) /\ j[2] = n
    BY <1>1, StepIs
  <2>2. Turn(n)
    BY LawfulIs
  <2>3. Now(j) # "none"
    BY <2>1, <2>2 DEF Turn
  <2>4. created \in Nat /\ n \in Nat /\ n >= 1
    BY InvIs, Attempts DEF ShapeRest
  <2>5. ~(n > created)
    BY <2>1, InvIs DEF Numbers
  <2>6. QED
    BY <2>1, <2>3, <2>4, <2>5
<1>2. CASE j \in CleanJob
  BY <1>2, InvIs, LawfulIs DEF CleanTurn, Numbers
<1>3. CASE j \in Maker \cup NamespaceCleanup
  <2>1. j \notin StepJob \cup CleanJob
    BY <1>3, Kinds DEF CleanJob
  <2>2. QED
    BY <1>3, <2>1, LawfulIs DEF OtherTurn
<1>4. QED
  BY <1>1, <1>2, <1>3, Kinds DEF CleanJob

\* Who has something in hand afterwards has a job that was there.
LEMMA HasJob ==
  ASSUME Inv, home # "gone", Lawful, NEW a \in Actor, pc'[a] # "idle"
  PROVE  at'[a] \in JobId /\ Status(at'[a]) # "none"
<1>1. Handed /\ PlaceLaw /\ at[a] \in JobId
  BY InvIs, LawfulIs DEF ShapeLocal
<1>2. CASE Takes(a)
  BY <1>2 DEF Takes
<1>3. CASE at'[a] = at[a] /\ pc[a] # "idle"
  BY <1>1, <1>3 DEF Handed
<1>4. QED
  BY <1>1, <1>2, <1>3 DEF PlaceLaw, Goes, Forward, Backward, Building

LEMMA NumbersKept ==
  ASSUME Inv, home # "gone", Lawful
  PROVE  Numbers'
<1>1. Numbers /\ UNCHANGED <<belongs, created>>
  BY InvIs, LawfulIs
<1>2. \A n \in Attempt : n <= created' => belongs'[n] \in 1..created'
  BY <1>1 DEF Numbers
<1>3. ASSUME NEW n \in Attempt, n > created
      PROVE  /\ belongs'[n] = None /\ row'[n] = "none" /\ identity'[n] = "none"
             /\ Now(Step(n)) = "none" /\ Now(Making(n)) = "none" /\ n \notin upstream'
  <2>1. /\ belongs[n] = None /\ row[n] = "none" /\ identity[n] = "none"
        /\ Status(Step(n)) = "none" /\ Status(Making(n)) = "none" /\ n \notin upstream
    BY <1>1, <1>3 DEF Numbers
  <2>2. n \notin 1..created
    BY <1>3, InvIs, Attempts DEF ShapeRest
  <2>3. row'[n] = "none"
    BY <2>1, <2>2, LawfulIs DEF RowLaw
  <2>4. identity'[n] = "none"
    BY <2>1, LawfulIs DEF IdLaw, Finished, IsLive, Live
  <2>5. Now(Step(n)) = "none"
    BY <2>1, LawfulIs DEF Turn
  <2>6. Now(Making(n)) = "none"
    <3>1. Making(n) \in Maker
      BY MakerName DEF Mailboxes
    <3>2. QED
      BY <2>1, <3>1, LawfulIs DEF OtherTurn
  <2>7. n \notin upstream'
    BY <2>1, <2>2, LawfulIs
  <2>8. QED
    BY <1>1, <2>1, <2>3, <2>4, <2>5, <2>6, <2>7
<1>4. ASSUME NEW j \in CleanJob, Now(j) # "none"
      PROVE  j[2] \in 1..created /\ jobs'[j].parent \in 0..created
  <2>1. CleanTurn(j) /\ created \in Nat
    BY LawfulIs, InvIs DEF ShapeRest
  <2>2. QED
    BY <1>1, <1>4, <2>1 DEF CleanTurn, Numbers
<1>5. ASSUME NEW a \in Actor, pc'[a] # "idle", at'[a] \in StepJob \cup CleanJob
      PROVE  at'[a][2] \in 1..created
  BY <1>5, HasJob, StaysThere
<1>6. QED
  BY <1>1, <1>2, <1>3, <1>4, <1>5 DEF Numbers, Status, Now, Here

LEMMA HandedKept ==
  ASSUME Inv, home # "gone", Lawful
  PROVE  Handed'
<1>1. Handed
  BY InvIs
<1>2. ASSUME NEW a \in Actor, pc'[a] # "idle"
      PROVE  Now(at'[a]) # "none"
  BY <1>2, HasJob, StaysThere
<1>3. ASSUME NEW j \in JobId \ StepJob
      PROVE  Now(j) # "waiting"
  BY LawfulIs, Kinds DEF CleanTurn, OtherTurn, CleanJob
<1>4. ASSUME NEW j \in StepJob \cup Maker, NowQuarantined(j)
      PROVE  Now(j) = "unknown"
  <2>1. CASE j \in StepJob
    <3>1. j[2] \in Attempt /\ j = Step(j[2])
      BY <2>1, StepIs
    <3>2. Turn(j[2])
      BY <3>1, LawfulIs
    <3>3. Quarantined(j) => Status(j) = "unknown"
      BY <1>1, <2>1 DEF Handed
    <3>4. QED
      BY <1>4, <3>1, <3>2, <3>3 DEF Turn
  <2>2. CASE j \in Maker
    BY <1>4, <2>2, LawfulIs DEF OtherTurn
  <2>3. QED
    BY <2>1, <2>2
<1>5. QED
  BY <1>2, <1>3, <1>4 DEF Handed, Status, Now, Quarantined, NowQuarantined

LEMMA OneLeftKept ==
  ASSUME Inv, home # "gone", Lawful
  PROVE  OneLeft' /\ Consented'
<1>1. \A i \in Attempt : identity'[i] \notin {"none", "deleted"} =>
        identity[i] \notin {"none", "deleted"}
  BY LawfulIs DEF IdLaw, Finished, IsLive, Live
<1>2. OneLeft'
  BY <1>1, InvIs DEF OneLeft
<1>3. Consented'
  BY InvIs, LawfulIs, LiveLaw DEF Consented, IsLive
<1>4. QED
  BY <1>2, <1>3

\* While the house is open no email job is opened again.
LEMMA UnsetLaw ==
  ASSUME Inv, Lawful, OpenHouse, NEW n \in Attempt, Now(Step(n)) \in Unsettled
  PROVE  /\ Unset(n)
         /\ ~NowQuarantined(Step(n)) => Active(n)
         /\ NowQuarantined(Step(n)) => Quarantined(Step(n))
<1>1. Turn(n) /\ Handed
  BY LawfulIs, InvIs DEF OpenHouse
<1>2. Status(Step(n)) \in {"pending", "running", "waiting"} => ~Quarantined(Step(n))
  BY <1>1, StepName DEF Handed
<1>3. QED
  BY <1>1, <1>2 DEF Turn, Unset, Active, Unsettled

LEMMA OneOpenKept ==
  ASSUME Inv, Lawful, OpenHouse
  PROVE  OneOpen'
<1>1. OneOpen
  BY InvIs
<1>2. QED
  BY <1>1, UnsetLaw DEF OneOpen, Unset, Status, Now

LEMMA StepsKept ==
  ASSUME Inv, Lawful, OpenHouse
  PROVE  Steps'
<1>1. Steps /\ StepLaw /\ home' = home
  BY InvIs, LawfulIs
<1>2. \A i \in Attempt : identity'[i] \in Live => IsLive(i)
  BY LiveLaw
<1>3. QED
  BY <1>1, <1>2 DEF Steps, StepLaw, InProgress, IsLive

\* What is still open is not called deleted.
LEMMA OpenIsNotFinished ==
  ASSUME NEW n \in Attempt, Now(Step(n)) \in Unsettled, NEW k
  PROVE  ~Finished(k)
<1>1. Step(n) \in StepJob
  BY StepName
<1>2. QED
  BY <1>1 DEF Finished, Closable, Now

LEMMA WantedKept ==
  ASSUME Inv, Lawful, OpenHouse,
         \A n \in Attempt : Now(Step(n)) \in Unsettled /\ ~NowQuarantined(Step(n)) =>
           /\ step' \in InProgress \/ step' = step
           /\ identity'[belongs[n]] \in {identity[belongs[n]], "waiting", "unknown"}
  PROVE  Wanted'
<1>1. Wanted /\ Numbers /\ UNCHANGED <<belongs, home, consent>> /\ ShapeRest /\ home # "gone"
  BY InvIs, LawfulIs
<1>2. ASSUME NEW n \in Attempt, Now(Step(n)) \in Unsettled, ~NowQuarantined(Step(n))
      PROVE  /\ home' = "onboarding" /\ step' \in InProgress /\ consent'
             /\ identity'[belongs'[n]] \in {"provisioning", "waiting", "unknown"}
  <2>1. Active(n)
    BY <1>2, UnsetLaw
  <2>2. home = "onboarding" /\ step \in InProgress /\ consent /\ Verifiable(belongs[n])
    BY <1>1, <2>1 DEF Wanted
  <2>3. QED
    BY <1>1, <1>2, <2>2 DEF Verifiable
<1>3. ASSUME NEW n \in Attempt, Now(Step(n)) \in Unsettled, NowQuarantined(Step(n))
      PROVE  identity'[belongs'[n]] = "disconnecting"
  <2>1. Unset(n) /\ Quarantined(Step(n))
    BY <1>3, UnsetLaw
  <2>2. identity[belongs[n]] = "disconnecting"
    BY <1>1, <2>1 DEF Wanted, Active
  <2>3. Status(Step(n)) # "none"
    BY <2>1 DEF Unset, Unsettled
  <2>4. n \in 1..created
    BY <2>3, InvIs, StaysThere, StepName
  <2>5. belongs[n] \in Attempt
    BY <1>1, <2>4, AttemptMade
  <2>6. ~Finished(belongs[n])
    BY <1>3, OpenIsNotFinished
  <2>7. QED
    BY <1>1, <2>2, <2>5, <2>6, LawfulIs DEF IdLaw, IsLive, Live
<1>4. QED
  BY <1>2, <1>3 DEF Wanted, Unset, Active, Verifiable, Status, Now, Quarantined, NowQuarantined

-----------------------------------------------------------------------------
(* What is kept where nothing new is made at the provider *)

Quiet == Lawful /\ upstream' \subseteq upstream
SafeNow(i) ==
  i \in upstream' => \E m \in Attempt :
    belongs'[m] = i /\ row'[m] \in {"creating", "ready", "deleting", "unknown"}

LEMMA QuietSafe ==
  ASSUME Quiet, NEW i, Safe(i)
  PROVE  SafeNow(i)
<1>1. belongs' = belongs /\ upstream' \subseteq upstream /\ RowLaw
  BY LawfulIs DEF Quiet
<1>2. QED
  BY <1>1 DEF RowLaw, Safe, SafeNow, RowKept

LEMMA KeptQuiet ==
  ASSUME Inv, home # "gone", Quiet
  PROVE  Kept'
<1>1. Kept /\ Lawful /\ upstream' \subseteq upstream /\ belongs' = belongs /\ consent' = consent
  BY InvIs, LawfulIs DEF Quiet
<1>2. ASSUME NEW n \in Attempt, Safe(belongs[n])
      PROVE  SafeNow(belongs[n])
  BY <1>2, QuietSafe
<1>3. ASSUME NEW n \in Attempt, row'[n] \in {"creating", "ready", "deleting", "unknown"}
      PROVE  SafeNow(belongs[n])
  BY <1>1, <1>3 DEF SafeNow
<1>4. ASSUME NEW n \in Attempt, Now(Step(n)) \in {"pending", "waiting"}
      PROVE  SafeNow(belongs[n])
  <2>1. Turn(n)
    BY <1>1, LawfulIs
  <2>2. \/ Status(Step(n)) \in {"pending", "waiting"} \/ row'[n] = "creating"
        \/ belongs[n] \notin upstream
    BY <1>4, <2>1 DEF Turn
  <2>3. Safe(belongs[n]) \/ row'[n] = "creating"
    BY <1>1, <2>2 DEF Kept, Safe
  <2>4. QED
    BY <1>2, <1>3, <2>3
<1>5. ASSUME NEW n \in Attempt, Now(Step(n)) \in Unsettled, ~NowQuarantined(Step(n)), ~consent
      PROVE  SafeNow(belongs[n])
  <2>1. Turn(n) /\ Handed
    BY <1>1, LawfulIs, InvIs
  <2>2. Active(n) \/ Safe(belongs[n])
    BY <1>5, <2>1 DEF Turn, Active, Unset, Unsettled
  <2>3. Safe(belongs[n])
    BY <1>1, <1>5, <2>2 DEF Kept
  <2>4. QED
    BY <1>2, <2>3
<1>6. ASSUME NEW i \in upstream'
      PROVE  RowKept(i)' \/ \E n \in Attempt : belongs'[n] = i /\ Now(Step(n)) \in {"running", "unknown"}
  <2>1. CASE RowKept(i)
    <3>1. Safe(i)
      BY <2>1 DEF Safe
    <3>2. SafeNow(i)
      BY <1>1, <3>1, QuietSafe
    <3>3. QED
      BY <1>6, <3>2 DEF SafeNow, RowKept, RowOpen
  <2>2. CASE \E n \in Attempt : belongs[n] = i /\ MakerOpen(Step(n))
    <3>1. PICK n \in Attempt : belongs[n] = i /\ Status(Step(n)) \in {"running", "unknown"}
      BY <2>2 DEF MakerOpen
    <3>2. Turn(n)
      BY <1>1, LawfulIs
    <3>3. \/ Now(Step(n)) \in {"running", "unknown"} \/ Safe(belongs[n])
          \/ row'[n] \in {"creating", "ready"} \/ belongs[n] \notin upstream
      BY <3>1, <3>2 DEF Turn
    <3>4. CASE Safe(belongs[n])
      BY <1>2, <1>6, <3>1, <3>4 DEF SafeNow, RowKept, RowOpen
    <3>5. CASE row'[n] \in {"creating", "ready"}
      BY <1>3, <1>6, <3>1, <3>5 DEF SafeNow, RowKept, RowOpen
    <3>6. QED
      BY <1>1, <1>6, <3>1, <3>3, <3>4, <3>5
  <2>3. QED
    BY <1>1, <1>6, <2>1, <2>2 DEF Kept
<1>7. QED
  BY <1>1, <1>4, <1>5, <1>6
     DEF Kept, Safe, SafeNow, RowKept, RowOpen, Active, Unset, MakerOpen, Status, Now, Quarantined, NowQuarantined

LEMMA ParentsQuiet ==
  ASSUME Inv, home # "gone", Quiet
  PROVE  Parents'
<1>1. Parents /\ Numbers /\ Lawful /\ upstream' \subseteq upstream /\ belongs' = belongs
  BY InvIs, LawfulIs DEF Quiet
<1>2. ASSUME NEW n \in 1..created
      PROVE  /\ belongs[n] \in Attempt /\ n \in Attempt
             /\ identity'[belongs[n]] \in Live => IsLive(belongs[n])
             /\ Safe(belongs[n]) => SafeNow(belongs[n])
             /\ row'[n] = "deleted" /\ row[n] # "deleted" => SafeNow(belongs[n])
  <2>1. n \in Attempt /\ belongs[n] \in Attempt
    BY <1>1, InvIs, AttemptMade
  <2>2. Safe(belongs[n]) => SafeNow(belongs[n])
    BY QuietSafe
  <2>3. row'[n] = "deleted" /\ row[n] # "deleted" => SafeNow(belongs[n])
    BY <1>1, <2>1, LawfulIs DEF RowLaw, SafeNow
  <2>4. QED
    BY <1>1, <2>1, <2>2, <2>3, LiveLaw
<1>3. ASSUME NEW j \in CleanJob, Now(j) # "none"
      PROVE  /\ ~(identity'[belongs[j[2]]] \in Live)
             /\ jobs'[j].parent # None => ~(identity'[belongs[jobs'[j].parent]] \in Live)
             /\ j \in Teardown =>
                  jobs'[j].parent \in {None, j[2]} \/ SafeNow(belongs[jobs'[j].parent])
             /\ j \in SecretJob =>
                  jobs'[j].parent = j[2] /\ (row'[j[2]] = "deleted" => SafeNow(belongs[j[2]]))
  <2>1. CleanTurn(j)
    BY <1>1, LawfulIs
  <2>2. CASE Status(j) # "none" /\ jobs'[j].parent = jobs[j].parent
    <3>1. j[2] \in 1..created /\ jobs[j].parent \in 0..created /\ created \in Nat
      BY <1>1, <2>2, InvIs DEF Numbers, ShapeRest
    <3>2. jobs[j].parent # None => jobs[j].parent \in 1..created
      BY <3>1 DEF None
    <3>3. /\ ~IsLive(belongs[j[2]])
          /\ jobs[j].parent # None => ~IsLive(belongs[jobs[j].parent])
      BY <1>1, <2>2 DEF Parents
    <3>4. j \in Teardown =>
            jobs[j].parent \in {None, j[2]} \/ Safe(belongs[jobs[j].parent])
      BY <1>1, <2>2 DEF Parents
    <3>5. j \in SecretJob =>
            jobs[j].parent = j[2] /\ (row[j[2]] = "deleted" => Safe(belongs[j[2]]))
      BY <1>1, <2>2 DEF Parents
    <3>6. j \in Teardown =>
            jobs'[j].parent \in {None, j[2]} \/ SafeNow(belongs[jobs'[j].parent])
      <4> SUFFICES ASSUME j \in Teardown, jobs'[j].parent \notin {None, j[2]}
                   PROVE  SafeNow(belongs[jobs'[j].parent])
        OBVIOUS
      <4> DEFINE p == jobs[j].parent
      <4>1. p \in 1..created /\ Safe(belongs[p]) /\ jobs'[j].parent = p
        BY <2>2, <3>2, <3>4
      <4>2. SafeNow(belongs[p])
        BY <4>1, QuietSafe
      <4>3. QED
        BY <4>1, <4>2, <2>2
    <3>7. QED
      BY <2>2, <3>1, <3>2, <3>3, <3>5, <3>6, <1>2
  <2>3. CASE Status(j) = "none" /\ Now(j) = "pending"
    <3>1. /\ j[2] \in 1..created /\ jobs'[j].parent = j[2] /\ ~IsLive(belongs[j[2]])
          /\ j \in SecretJob /\ row[j[2]] = "deleted" => Safe(belongs[j[2]])
      BY <2>1, <2>3 DEF CleanTurn
    <3>2. QED
      BY <3>1, <1>2
  <2>4. QED
    BY <1>3, <2>1, <2>2, <2>3 DEF CleanTurn
<1>4. QED
  <2>1. Teardown \subseteq CleanJob /\ SecretJob \subseteq CleanJob
    BY DEF CleanJob
  <2>2. QED
    BY <1>1, <1>3, <2>1 DEF Parents, Safe, SafeNow, RowKept, RowOpen, IsLive, Status, Now

LEMMA NotDeletedKept ==
  ASSUME Inv, home # "gone", Lawful, Kept',
         \A i \in upstream' : i \in upstream \/ identity[i] # "deleted"
  PROVE  NotDeleted'
<1> SUFFICES ASSUME NEW i \in upstream', identity'[i] = "deleted" PROVE FALSE
  BY DEF NotDeleted
<1>1. NotDeleted /\ upstream \subseteq Attempt /\ upstream' \subseteq upstream \cup 1..created
      /\ created \in 0..AttemptMax
  BY InvIs, LawfulIs DEF ShapeWorld, ShapeRest
<1>2. i \in Attempt
  BY <1>1, BoundsAssumption DEF Attempt
<1>3. Finished(i)
  BY <1>1, <1>2, LawfulIs DEF IdLaw, NotDeleted, Live
<1>4. /\ \A j \in StepJob : Now(j) \notin Unsettled
      /\ \A m \in Attempt : row'[m] \in {"none", "deleted"}
  BY <1>3 DEF Finished, Closable, Now
<1>5. RowKept(i)' \/ \E m \in Attempt : Now(Step(m)) \in {"running", "unknown"}
  BY DEF Kept, MakerOpen, Status, Now
<1>6. ~RowKept(i)'
  BY <1>4 DEF RowKept, RowOpen
<1>7. \A m \in Attempt : Now(Step(m)) \notin {"running", "unknown"}
  BY <1>4, StepName DEF Unsettled
<1>8. QED
  BY <1>5, <1>6, <1>7

-----------------------------------------------------------------------------
(* A call to the provider *)

\* Who works at a mailbox in an open house does so alone, and it is wanted, or
\* is being disconnected.
LEMMA InForward ==
  ASSUME Inv, OpenHouse, NEW a \in Actor, Forward(a)
  PROVE  /\ Here(a) \in 1..created /\ Here(a) \in Attempt /\ at[a] = Step(Here(a))
         /\ Mailbox(a) = belongs[Here(a)] /\ Mailbox(a) \in 1..created /\ Mailbox(a) \in Attempt
         /\ Status(at[a]) \in {"running", "unknown"} /\ Unset(Here(a))
         /\ Status(at[a]) = "unknown" => (a = Worker => Quarantined(at[a]))
         /\ Status(at[a]) = "running" => a = Worker
         /\ identity[Mailbox(a)] \in {"provisioning", "waiting", "unknown", "disconnecting"}
         /\ IsLive(Mailbox(a)) => Active(Here(a))
         /\ \A b \in Actor : Forward(b) => b = a
         /\ \A b \in Actor : Backward(b) /\ Mailbox(b) = Mailbox(a) => b = a
<1>1. /\ Here(a) \in 1..created /\ Here(a) \in Attempt /\ at[a] = Step(Here(a))
      /\ Mailbox(a) = belongs[Here(a)] /\ Mailbox(a) \in 1..created /\ Mailbox(a) \in Attempt
  BY AtStep
<1>2. /\ Status(at[a]) \in {"running", "unknown"}
      /\ Status(at[a]) = "unknown" => (a = Worker => Quarantined(at[a]))
      /\ Status(at[a]) = "running" => a = Worker
      /\ \A b \in Actor : Forward(b) => b = a
      /\ \A b \in Actor : Backward(b) /\ Mailbox(b) = Mailbox(a) => b = a
  BY InvIs DEF Hands
<1>3. Unset(Here(a))
  BY <1>1, <1>2 DEF Unset, Unsettled
<1>4. /\ Active(Here(a)) => Verifiable(Mailbox(a))
      /\ ~Active(Here(a)) => identity[Mailbox(a)] = "disconnecting"
  BY <1>1, <1>3, InvIs DEF Wanted
<1>5. /\ identity[Mailbox(a)] \in {"provisioning", "waiting", "unknown", "disconnecting"}
      /\ IsLive(Mailbox(a)) => Active(Here(a))
  BY <1>4 DEF Verifiable, IsLive, Live
<1>6. QED
  BY <1>1, <1>2, <1>3, <1>5

LEMMA CallingIs ==
  ASSUME Inv, NEW a \in Actor, NEW n \in 1..created, Calling(a, n)
  PROVE  /\ OpenHouse /\ home # "gone" /\ Forward(a) /\ Here(a) = n /\ at[a] = Step(n)
         /\ n \in Attempt /\ Mailbox(a) = belongs[n] /\ belongs[n] \in Attempt
         /\ upstream' \subseteq upstream \cup {belongs[n]}
         /\ UNCHANGED <<jobs, row, identity, step, belongs, home, consent, created, namespace>>
         /\ Others(a) /\ at'[a] = at[a] /\ pc'[a] \in {"call", "answer"}
         /\ \A i : Safe(i) /\ i # belongs[n] => SafeNow(i)
<1>1. Forward(a) /\ OpenHouse /\ n \in Attempt /\ at[a] = Step(n)
  BY InvIs, AttemptMade DEF Calling, Forward
<1>2. Here(a) = n
  BY <1>1, StepName DEF Here
<1>3. Mailbox(a) = belongs[n] /\ belongs[n] \in Attempt
  BY <1>1, <1>2, InForward
<1>4. /\ upstream' \subseteq upstream \cup {belongs[n]}
      /\ UNCHANGED <<jobs, row, identity, step, belongs, home, consent, created, namespace>>
      /\ Others(a) /\ at'[a] = at[a] /\ pc'[a] \in {"call", "answer"}
  BY DEF Calling
<1>5. ASSUME NEW i, Safe(i), i # belongs[n]
      PROVE  SafeNow(i)
  BY <1>4, <1>5 DEF Safe, SafeNow, RowKept, RowOpen
<1>6. QED
  BY <1>1, <1>2, <1>3, <1>4, <1>5, InvIs

LEMMA KeptCalling ==
  ASSUME Inv, NEW a \in Actor, NEW n \in 1..created, Calling(a, n)
  PROVE  Kept'
<1>1. /\ OpenHouse /\ home # "gone" /\ Forward(a) /\ Here(a) = n /\ at[a] = Step(n)
      /\ n \in Attempt /\ Mailbox(a) = belongs[n] /\ belongs[n] \in Attempt
      /\ upstream' \subseteq upstream \cup {belongs[n]}
      /\ UNCHANGED <<jobs, row, belongs, consent>>
      /\ \A i : Safe(i) /\ i # belongs[n] => SafeNow(i)
  BY CallingIs
<1>2. Unset(n) /\ Status(Step(n)) \in {"running", "unknown"}
  BY <1>1, InForward
<1>3. Kept /\ OneOpen /\ Wanted
  BY <1>1, InvIs
<1>4. ASSUME NEW m \in Attempt, Status(Step(m)) \in {"pending", "waiting"}
      PROVE  SafeNow(belongs[m])
  <2>1. Unset(m) /\ m # n /\ Safe(belongs[m])
    BY <1>2, <1>3, <1>4 DEF Unset, Unsettled, Kept
  <2>2. QED
    BY <1>1, <1>2, <1>3, <2>1 DEF OneOpen
<1>5. ASSUME NEW m \in Attempt, Active(m)
      PROVE  consent
  BY <1>3, <1>5 DEF Wanted
<1>6. \A i \in upstream' :
        RowKept(i) \/ \E m \in Attempt : belongs[m] = i /\ MakerOpen(Step(m))
  <2>1. MakerOpen(Step(n))
    BY <1>2 DEF MakerOpen
  <2>2. \A i \in upstream :
          RowKept(i) \/ \E m \in Attempt : belongs[m] = i /\ MakerOpen(Step(m))
    BY <1>3 DEF Kept
  <2>3. QED
    BY <1>1, <2>1, <2>2
<1>7. \A m \in Attempt : Active(m)' => consent'
  <2>1. ASSUME NEW m \in Attempt, Active(m)' PROVE consent'
    <3>1. Active(m)
      BY <1>1, <2>1 DEF Active, Unset, Status, Quarantined
    <3>2. consent /\ consent' = consent
      BY <1>1, <1>5, <3>1
    <3>3. QED
      BY <3>2
  <2>2. QED
    BY <2>1
<1>8. \A m \in Attempt : Status(Step(m))' \in {"pending", "waiting"} => Safe(belongs[m])'
  BY <1>1, <1>4 DEF Safe, SafeNow, RowKept, RowOpen, Status
<1>9. \A i \in upstream' :
        RowKept(i)' \/ \E m \in Attempt : belongs'[m] = i /\ MakerOpen(Step(m))'
  BY <1>1, <1>6 DEF RowKept, RowOpen, MakerOpen, Status
<1>10. QED
  BY <1>7, <1>8, <1>9 DEF Kept

LEMMA ParentsCalling ==
  ASSUME Inv, NEW a \in Actor, NEW n \in 1..created, Calling(a, n)
  PROVE  Parents'
<1>1. /\ OpenHouse /\ home # "gone" /\ Forward(a) /\ Mailbox(a) = belongs[n]
      /\ UNCHANGED <<jobs, row, identity, belongs>>
      /\ \A i : Safe(i) /\ i # belongs[n] => SafeNow(i)
  BY CallingIs
<1>2. Parents /\ Untouched
  BY <1>1, InvIs
<1>3. ASSUME NEW j \in Teardown, Status(j) # "none"
      PROVE  jobs[j].parent \in {None, j[2]} \/ SafeNow(belongs[jobs[j].parent])
  BY <1>1, <1>2, <1>3 DEF Parents, Untouched
<1>4. ASSUME NEW j \in SecretJob, Status(j) # "none"
      PROVE  jobs[j].parent = j[2] /\ (row[j[2]] = "deleted" => SafeNow(belongs[j[2]]))
  BY <1>1, <1>2, <1>4 DEF Parents, Untouched
<1>5. QED
  BY <1>1, <1>2, <1>3, <1>4 DEF Parents, Safe, SafeNow, RowKept, RowOpen, IsLive, Status

LEMMA NotDeletedCalling ==
  ASSUME Inv, NEW a \in Actor, NEW n \in 1..created, Calling(a, n)
  PROVE  NotDeleted'
<1>1. /\ OpenHouse /\ home # "gone" /\ Forward(a) /\ Mailbox(a) = belongs[n]
      /\ upstream' \subseteq upstream \cup {belongs[n]}
  BY CallingIs
<1>2. identity[belongs[n]] # "deleted"
  BY <1>1, InForward
<1>3. Kept' /\ Lawful
  BY <1>1, KeptCalling, CallingLawful
<1>4. QED
  BY <1>1, <1>2, <1>3, NotDeletedKept

-----------------------------------------------------------------------------
(* What an actor knows *)

Claim(a) ==
  /\ pc[a] = "gate" /\ got[a] # "reclaimed" => Safe(Mailbox(a))
  /\ pc[a] = "answer" /\ got[a] \in {"rejected", "limited", "absent"}
       => Mailbox(a) \notin upstream
  /\ pc[a] = "raze" /\ row[Here(a)] = "deleted" => Safe(Mailbox(a))
  /\ pc[a] = "close" /\ got[a] \in {"clean", "secret"} => Mailbox(a) \notin upstream
  /\ pc[a] = "sweep" => Mailbox(a) \notin upstream
  /\ Forward(a) /\ Status(at[a]) = "cancelled" => Safe(Mailbox(a))
  /\ Backward(a) => ~IsLive(Mailbox(a))

LEMMA ClaimsIs == Claims <=> \A a \in Actor : Claim(a)
BY DEF Claims, Claim

LEMMA ClaimsNow ==
  ASSUME \A a \in Actor : Claim(a)'
  PROVE  Claims'
BY DEF Claims, Claim

LEMMA HereNow ==
  ASSUME Lawful, NEW a \in Actor, at'[a] = at[a]
  PROVE  Here(a)' = Here(a) /\ Mailbox(a)' = Mailbox(a)
BY LawfulIs DEF Here, Mailbox

LEMMA SafeIsNow ==
  ASSUME NEW i, i' = i
  PROVE  Safe(i)' <=> SafeNow(i)
BY DEF Safe, SafeNow, RowKept, RowOpen

LEMMA CancelledIsSafe ==
  ASSUME Inv, home # "gone", Quiet, NEW a \in Actor, Forward(a), Now(at[a]) = "cancelled"
  PROVE  SafeNow(Mailbox(a))
<1>1. Here(a) \in Attempt /\ at[a] = Step(Here(a)) /\ Mailbox(a) = belongs[Here(a)]
  BY AtStep
<1>2. Turn(Here(a))
  BY <1>1, LawfulIs DEF Quiet
<1>3. Status(at[a]) = "cancelled" \/ Safe(Mailbox(a))
  BY <1>1, <1>2 DEF Turn
<1>4. Safe(Mailbox(a))
  BY <1>3, InvIs, ClaimsIs DEF Claim
<1>5. QED
  BY <1>4, QuietSafe

LEMMA RestingClaim ==
  ASSUME NEW a \in Actor, pc'[a] = "idle"
  PROVE  Claim(a)'
BY DEF Claim, Forward, Backward

LEMMA NamespaceClaim ==
  ASSUME NEW a \in Actor, pc'[a] \in {"clean", "make", "made", "unmake", "unmade", "kept"}
  PROVE  Claim(a)'
BY DEF Claim, Forward, Backward

LEMMA StayingClaim ==
  ASSUME Inv, home # "gone", Quiet, NEW a \in Actor,
         pc'[a] = pc[a], at'[a] = at[a], got'[a] = got[a]
  PROVE  Claim(a)'
<1>1. Claim(a) /\ Lawful /\ upstream' \subseteq upstream /\ Where
  BY InvIs, ClaimsIs DEF Quiet
<1>2. Here(a)' = Here(a) /\ Mailbox(a)' = Mailbox(a)
  BY <1>1, HereNow
<1>3. Safe(Mailbox(a)) => Safe(Mailbox(a))'
  BY <1>2, QuietSafe DEF Safe, SafeNow, RowKept, RowOpen
<1>4. pc'[a] = "gate" /\ got'[a] # "reclaimed" => Safe(Mailbox(a))'
  BY <1>1, <1>3 DEF Claim
<1>5. /\ pc'[a] = "answer" /\ got'[a] \in {"rejected", "limited", "absent"}
           => Mailbox(a)' \notin upstream'
      /\ pc'[a] = "close" /\ got'[a] \in {"clean", "secret"} => Mailbox(a)' \notin upstream'
      /\ pc'[a] = "sweep" => Mailbox(a)' \notin upstream'
  BY <1>1, <1>2 DEF Claim
<1>6. pc'[a] = "raze" /\ row'[Here(a)'] = "deleted" => Safe(Mailbox(a))'
  <2> SUFFICES ASSUME pc[a] = "raze", row'[Here(a)] = "deleted" PROVE Safe(Mailbox(a))'
    BY <1>2
  <2>1. Here(a) \in Attempt /\ Mailbox(a) = belongs[Here(a)]
    BY AtStep DEF Forward
  <2>2. CASE row[Here(a)] = "deleted"
    BY <1>1, <1>3, <2>2 DEF Claim
  <2>3. CASE row[Here(a)] # "deleted"
    <3>1. Mailbox(a) \notin upstream'
      BY <1>1, <2>1, <2>3, LawfulIs DEF RowLaw
    <3>2. QED
      BY <1>2, <3>1 DEF Safe
  <2>4. QED
    BY <2>2, <2>3
<1>7. Forward(a)' /\ Status(at[a])' = "cancelled" => Safe(Mailbox(a))'
  <2> SUFFICES ASSUME Forward(a), Now(at[a]) = "cancelled" PROVE Safe(Mailbox(a))'
    BY DEF Forward, Status, Now
  <2>1. SafeNow(Mailbox(a))
    BY CancelledIsSafe
  <2>2. QED
    BY <1>2, <2>1 DEF Safe, SafeNow, RowKept, RowOpen
<1>8. Backward(a)' => ~IsLive(Mailbox(a))'
  <2> SUFFICES ASSUME Backward(a) PROVE ~IsLive(Mailbox(a))'
    BY DEF Backward
  <2>1. Mailbox(a) \in Attempt /\ ~IsLive(Mailbox(a))
    BY <1>1, AtStep DEF Claim
  <2>2. QED
    BY <1>1, <1>2, <2>1, LiveLaw DEF IsLive
<1>9. QED
  BY <1>4, <1>5, <1>6, <1>7, <1>8 DEF Claim

\* The next place of one who makes a mailbox, where that is all.
LEMMA AdvancingClaim ==
  ASSUME Inv, home # "gone", Quiet, NEW a \in Actor, at'[a] = at[a],
         Forward(a), pc'[a] \in {"call", "finish"}
  PROVE  Claim(a)'
<1>1. Here(a)' = Here(a) /\ Mailbox(a)' = Mailbox(a)
  BY HereNow DEF Quiet
<1>2. Forward(a)' /\ Status(at[a])' = "cancelled" => Safe(Mailbox(a))'
  <2> SUFFICES ASSUME Now(at[a]) = "cancelled" PROVE Safe(Mailbox(a))'
    BY DEF Forward, Status, Now
  <2>1. SafeNow(Mailbox(a))
    BY CancelledIsSafe
  <2>2. QED
    BY <1>1, <2>1 DEF Safe, SafeNow, RowKept, RowOpen
<1>3. QED
  BY <1>2 DEF Claim, Backward

LEMMA ClaimsResting ==
  ASSUME Inv, home # "gone", Quiet, Rests
  PROVE  Claims'
<1>1. ASSUME NEW a \in Actor PROVE Claim(a)'
  <2>1. CASE pc'[a] = "idle"
    BY <2>1, RestingClaim
  <2>2. CASE pc'[a] = pc[a] /\ at'[a] = at[a] /\ got'[a] = got[a]
    BY <2>2, StayingClaim
  <2>3. QED
    BY <2>1, <2>2 DEF Rests
<1>2. QED
  BY <1>1, ClaimsNow

LEMMA ClaimsOthers ==
  ASSUME Inv, home # "gone", Quiet, NEW a \in Actor, Others(a), Claim(a)'
  PROVE  Claims'
<1>1. ASSUME NEW b \in Actor, b # a PROVE Claim(b)'
  <2>1. pc'[b] = pc[b] /\ at'[b] = at[b] /\ got'[b] = got[b]
    BY <1>1 DEF Others
  <2>2. QED
    BY <2>1, StayingClaim
<1>2. ASSUME NEW b \in Actor PROVE Claim(b)'
  <2>1. CASE b = a
    BY <2>1
  <2>2. CASE b # a
    BY <1>1, <2>2
  <2>3. QED
    BY <2>1, <2>2
<1>3. QED
  BY <1>2, ClaimsNow

LEMMA ClaimsEntering ==
  ASSUME Inv, home # "gone", Entering
  PROVE  Claims'
<1>1. /\ Worker \in Actor /\ Others(Worker) /\ at'[Worker] = at[Worker]
      /\ Forward(Worker) /\ pc'[Worker] = "call" /\ UNCHANGED upstream
  BY WorkerActs DEF Entering, Forward, Outside
<1>2. Quiet
  BY <1>1, EnteringLawful DEF Quiet
<1>3. QED
  BY <1>1, <1>2, AdvancingClaim, ClaimsOthers

LEMMA ClaimsTaking ==
  ASSUME Inv, home # "gone", NEW o \in Operators, NEW j \in JobId, Taking(o, j)
  PROVE  Claims'
<1>1. /\ o \in Actor /\ Others(o) /\ at'[o] = j /\ Status(j) = "unknown"
      /\ pc'[o] \in {"call", "make", "clean"} /\ UNCHANGED <<jobs, upstream>>
  BY OperatorActs DEF Taking, Outside
<1>2. Quiet
  BY <1>1, TakingLawful DEF Quiet
<1>3. Status(at[o])' # "cancelled"
  BY <1>1 DEF Status
<1>4. Claim(o)'
  BY <1>1, <1>3 DEF Claim, Backward
<1>5. QED
  BY <1>1, <1>2, <1>4, ClaimsOthers

LEMMA ClaimsLeasing ==
  ASSUME Inv, home # "gone", NEW j \in JobId, Leasing(j)
  PROVE  Claims'
<1>1. /\ Worker \in Actor /\ Others(Worker) /\ at'[Worker] = j /\ UNCHANGED upstream
      /\ jobs'[j].status = "running"
      /\ pc'[Worker] = IF j \in StepJob THEN "gate" ELSE IF j \in Maker THEN "make" ELSE "clean"
      /\ Status(j) \in {"pending", "running", "waiting"}
      /\ got'[Worker] = IF Status(j) = "running" THEN "reclaimed" ELSE "none"
  BY WorkerActs DEF Leasing, Outside
<1>2. Quiet
  BY <1>1, LeasingLawful DEF Quiet
<1>3. Status(at[Worker])' # "cancelled"
  BY <1>1 DEF Status
<1>4. pc'[Worker] = "gate" /\ got'[Worker] # "reclaimed" => Safe(Mailbox(Worker))'
  <2> SUFFICES ASSUME j \in StepJob, Status(j) \in {"pending", "waiting"}
               PROVE  Safe(Mailbox(Worker))'
    BY <1>1
  <2>1. PICK n \in Attempt : j = Step(n) /\ j[2] = n
    BY StepIs
  <2>2. Safe(belongs[n])
    BY <2>1, InvIs DEF Kept
  <2>3. SafeNow(belongs[n])
    BY <1>2, <2>2, QuietSafe
  <2>4. Mailbox(Worker)' = belongs[n]
    BY <1>1, <1>2, <2>1, LawfulIs DEF Mailbox, Here, Quiet
  <2>5. QED
    BY <2>3, <2>4 DEF Safe, SafeNow, RowKept, RowOpen
<1>5. Claim(Worker)'
  BY <1>1, <1>3, <1>4 DEF Claim, Backward
<1>6. QED
  BY <1>1, <1>2, <1>5, ClaimsOthers

LEMMA ClaimsInstalling ==
  ASSUME Inv, home # "gone", NEW a \in Actor, Installing(a)
  PROVE  Claims'
<1>1. /\ Others(a) /\ at'[a] = at[a] /\ Forward(a) /\ pc'[a] = "finish" /\ UNCHANGED upstream
  BY DEF Installing, Forward
<1>2. Quiet
  BY <1>1, InstallingLawful DEF Quiet
<1>3. QED
  BY <1>1, <1>2, AdvancingClaim, ClaimsOthers

LEMMA ClaimsUndoing ==
  ASSUME Inv, home # "gone", NEW a \in Actor, NEW n \in 1..created, Undoing(a, n)
  PROVE  Claims'
<1>1. /\ Others(a) /\ at'[a] = at[a] /\ Forward(a) /\ pc'[a] = "raze" /\ UNCHANGED upstream
      /\ at[a] = Step(n) /\ ~IsLive(belongs[n]) /\ row'[n] = "deleting" /\ UNCHANGED jobs
      /\ UNCHANGED identity
  BY DEF Undoing, Forward, Outside
<1>2. Quiet
  BY <1>1, UndoingLawful DEF Quiet
<1>3. n \in Attempt /\ Here(a) = n /\ Mailbox(a) = belongs[n]
  BY <1>1, InvIs, AttemptMade, StepName DEF Here, Mailbox
<1>4. Here(a)' = n /\ Mailbox(a)' = belongs[n]
  BY <1>1, <1>2, <1>3, HereNow DEF Quiet
<1>5. Forward(a)' /\ Status(at[a])' = "cancelled" => Safe(Mailbox(a))'
  <2> SUFFICES ASSUME Now(at[a]) = "cancelled" PROVE Safe(Mailbox(a))'
    BY <1>1 DEF Status, Now
  <2>1. SafeNow(belongs[n])
    BY <1>1, <1>2, <1>3, CancelledIsSafe
  <2>2. QED
    BY <1>4, <2>1 DEF Safe, SafeNow, RowKept, RowOpen
<1>6. row'[Here(a)'] # "deleted" /\ ~IsLive(Mailbox(a))'
  BY <1>1, <1>4 DEF IsLive
<1>7. Claim(a)'
  BY <1>1, <1>5, <1>6 DEF Claim
<1>8. QED
  BY <1>1, <1>2, <1>7, ClaimsOthers

LEMMA RazingQuiet ==
  ASSUME Inv, home # "gone", NEW a \in Actor, NEW n \in 1..created, Razing(a, n)
  PROVE  Quiet
BY RazingLawful DEF Quiet, Razing

LEMMA ClaimsRazing ==
  ASSUME Inv, home # "gone", NEW a \in Actor, NEW n \in 1..created, Razing(a, n)
  PROVE  Claims'
<1>1. /\ Others(a) /\ at'[a] = at[a] /\ pc[a] = "raze" /\ pc'[a] = "close"
      /\ at[a] = Step(n) /\ UNCHANGED identity
      /\ got'[a] \in {"clean", "secret"} => belongs[n] \notin upstream'
  BY DEF Razing
<1>2. Quiet
  BY RazingQuiet
<1>3. n \in Attempt /\ Here(a) = n /\ Mailbox(a) = belongs[n]
  BY <1>1, InvIs, AttemptMade, StepName DEF Here, Mailbox
<1>4. Mailbox(a)' = belongs[n]
  BY <1>1, <1>2, <1>3, HereNow DEF Quiet
<1>5. ~IsLive(belongs[n])
  BY <1>1, <1>3, InvIs, ClaimsIs DEF Claim, Backward
<1>6. ~IsLive(Mailbox(a))'
  BY <1>1, <1>4, <1>5 DEF IsLive
<1>7. Claim(a)'
  BY <1>1, <1>4, <1>6 DEF Claim, Forward
<1>8. QED
  BY <1>1, <1>2, <1>7, ClaimsOthers

LEMMA DeprivingQuiet ==
  ASSUME Inv, home # "gone", NEW a \in Actor, NEW j \in Teardown, Depriving(a, j)
  PROVE  Quiet
BY DeprivingLawful DEF Quiet, Depriving

LEMMA ClaimsDepriving ==
  ASSUME Inv, home # "gone", NEW a \in Actor, NEW j \in Teardown, Depriving(a, j)
  PROVE  Claims'
<1>1. Quiet
  BY DeprivingQuiet
<1>2. CASE Rests
  BY <1>1, <1>2, ClaimsResting
<1>3. CASE /\ pc'[a] = "sweep" /\ at'[a] = at[a] /\ Others(a)
           /\ upstream' = upstream \ {Mailbox(a)}
  <2>1. Mailbox(a)' = Mailbox(a)
    BY <1>1, <1>3, HereNow DEF Quiet
  <2>2. Claim(a)'
    BY <1>3, <2>1 DEF Claim, Forward, Backward
  <2>3. QED
    BY <1>1, <1>3, <2>2, ClaimsOthers
<1>4. QED
  BY <1>2, <1>3 DEF Depriving

LEMMA ClaimsHousing ==
  ASSUME Inv, home # "gone", NEW a \in Actor, Housing(a) \/ Unhousing(a) \/ Unmaking(a)
  PROVE  Claims'
<1>1. /\ Others(a) /\ pc'[a] \in {"made", "unmake", "unmade", "kept"} /\ UNCHANGED upstream
  BY DEF Housing, Unhousing, Unmaking, MailSame
<1>2. Quiet
  BY <1>1, HousingLawful DEF Quiet
<1>3. QED
  BY <1>1, <1>2, NamespaceClaim, ClaimsOthers

LEMMA ClaimsCalling ==
  ASSUME Inv, NEW a \in Actor, NEW n \in 1..created, Calling(a, n)
  PROVE  Claims'
<1>1. /\ OpenHouse /\ home # "gone" /\ Forward(a) /\ Here(a) = n /\ at[a] = Step(n)
      /\ n \in Attempt /\ Mailbox(a) = belongs[n]
      /\ upstream' \subseteq upstream \cup {belongs[n]}
      /\ UNCHANGED <<jobs, row, identity, belongs>>
      /\ Others(a) /\ at'[a] = at[a] /\ pc'[a] \in {"call", "answer"}
      /\ \A i : Safe(i) /\ i # belongs[n] => SafeNow(i)
  BY CallingIs
<1>2. /\ Status(at[a]) \in {"running", "unknown"}
      /\ \A b \in Actor : Forward(b) => b = a
      /\ \A b \in Actor : Backward(b) /\ Mailbox(b) = Mailbox(a) => b = a
  BY <1>1, InForward
<1>3. ASSUME NEW b \in Actor, b # a PROVE Claim(b)'
  <2>1. /\ pc'[b] = pc[b] /\ at'[b] = at[b] /\ got'[b] = got[b] /\ Claim(b)
        /\ Mailbox(b)' = Mailbox(b) /\ ~Forward(b)
    BY <1>1, <1>2, <1>3, InvIs, ClaimsIs DEF Others, Mailbox, Here
  <2>2. pc[b] = "close" => Mailbox(b) # belongs[n]
    BY <1>1, <1>2, <1>3 DEF Backward
  <2>3. pc[b] = "sweep" => Mailbox(b) # belongs[n]
    BY DEF Calling
  <2>4. /\ pc'[b] = "close" /\ got'[b] \in {"clean", "secret"} => Mailbox(b)' \notin upstream'
        /\ pc'[b] = "sweep" => Mailbox(b)' \notin upstream'
    BY <1>1, <2>1, <2>2, <2>3 DEF Claim
  <2>5. Backward(b)' => ~IsLive(Mailbox(b))'
    BY <1>1, <2>1 DEF Claim, Backward, IsLive
  <2>6. ~Forward(b)'
    BY <2>1 DEF Forward
  <2>7. QED
    BY <2>4, <2>5, <2>6 DEF Claim, Forward
<1>4. Claim(a)'
  <2>1. Mailbox(a)' = belongs[n]
    BY <1>1 DEF Mailbox, Here
  <2>2. Status(at[a])' # "cancelled"
    BY <1>1, <1>2 DEF Status
  <2>3. pc'[a] = "answer" /\ got'[a] \in {"rejected", "limited", "absent"}
          => Mailbox(a)' \notin upstream'
    BY <2>1 DEF Calling
  <2>4. QED
    BY <1>1, <2>2, <2>3 DEF Claim, Backward
<1>5. ASSUME NEW b \in Actor PROVE Claim(b)'
  <2>1. CASE b = a
    BY <1>4, <2>1
  <2>2. CASE b # a
    BY <1>3, <2>2
  <2>3. QED
    BY <2>1, <2>2
<1>6. QED
  BY <1>5, ClaimsNow

-----------------------------------------------------------------------------
(* The makers of the namespace *)

LEMMA LatestSame ==
  ASSUME Lawful
  PROVE  LatestMaker' = LatestMaker
<1>1. \A n \in Attempt : Now(Making(n)) # "none" <=> Status(Making(n)) # "none"
  <2> SUFFICES ASSUME NEW n \in Attempt
               PROVE  Now(Making(n)) # "none" <=> Status(Making(n)) # "none"
    OBVIOUS
  <2>1. Making(n) \in Maker
    BY MakerName DEF Mailboxes
  <2>2. QED
    BY <2>1, LawfulIs DEF OtherTurn
<1>2. {n \in Attempt : Now(Making(n)) # "none"} = {n \in Attempt : Status(Making(n)) # "none"}
  BY <1>1
<1>3. QED
  BY <1>2 DEF LatestMaker, Status, Now

LEMMA LatestIs ==
  ASSUME NEW n \in Mailboxes, Status(Making(n)) # "none",
         \A m \in Mailboxes : Status(Making(m)) # "none" => m <= n
  PROVE  LatestMaker = Making(n)
<1> DEFINE S == {m \in Attempt : Status(Making(m)) # "none"}
<1>1. CASE n = None
  <2>1. S = {}
    <3> SUFFICES ASSUME NEW m \in S PROVE FALSE
      OBVIOUS
    <3>1. m <= 0 /\ m \in Attempt
      BY <1>1 DEF Mailboxes, None
    <3>2. QED
      BY <3>1, Attempts
  <2>2. QED
    BY <1>1, <2>1 DEF LatestMaker, Latest
<1>2. CASE n \in Attempt
  <2>1. n \in S /\ (\A m \in S : m <= n) /\ S \subseteq Mailboxes
    BY <1>2 DEF Mailboxes
  <2>2. Latest(S) = n
    <3> HIDE DEF S
    <3>1. QED
      BY <2>1, LatestOf
  <2>3. QED
    BY <2>2 DEF LatestMaker
<1>3. QED
  BY <1>1, <1>2 DEF Mailboxes

LEMMA LatestIsMaker ==
  ASSUME Inv, home # "gone"
  PROVE  LatestMaker \in Maker
<1>1. PICK n \in Mailboxes :
        /\ Status(Making(n)) # "none"
        /\ \A m \in Mailboxes : Status(Making(m)) # "none" => m <= n
  BY InvIs DEF Makers, Mailboxes
<1>2. QED
  BY <1>1, LatestIs, MakerName

LEMMA MakersKept ==
  ASSUME Inv, home # "gone", Lawful,
         \A j \in Maker : Now(j) \in {"pending", "running", "unknown"} =>
           Status(j) \in {"pending", "running", "unknown"},
         Made' <=> Made,
         namespace' = namespace \/ (home # "onboarding" /\ namespace' # "ready"),
         upstream' \subseteq upstream \/ Made,
         \A a \in Actor : pc'[a] \in {"call", "answer", "finish", "raze", "close"} =>
           pc[a] \in {"call", "answer", "finish", "raze", "close"} \/ Made,
         home = "onboarding" =>
           /\ \A j \in Maker : Now(j) \in {"running", "unknown"} => ~NowQuarantined(j)
           /\ \A j \in NamespaceCleanup : Now(j) = "none"
           /\ \A a \in Actor : pc'[a] \notin {"unmake", "unmade", "kept"},
         \A a \in Actor : Building(a)' => MakerOpen(at[a])',
         app' => Owned' \/ OpenMaker'
  PROVE  Makers'
<1>1. Makers /\ home' = home /\ StepLaw
  BY InvIs, LawfulIs
<1>2. ASSUME NEW n \in Mailboxes, NEW m \in Mailboxes, Now(Making(m)) # "none",
             Now(Making(n)) \in {"pending", "running", "unknown"}
      PROVE  m <= n
  <2>1. Making(n) \in Maker /\ Making(m) \in Maker
    BY MakerName
  <2>2. Status(Making(n)) \in {"pending", "running", "unknown"} /\ Status(Making(m)) # "none"
    BY <1>2, <2>1, LawfulIs DEF OtherTurn
  <2>3. QED
    BY <1>1, <2>2 DEF Makers, Mailboxes
<1>11. \E n \in Mailboxes : /\ Status(Making(n))' # "none"
                             /\ \A m \in Mailboxes : Status(Making(m))' # "none" => m <= n
  <2>1. PICK n \in Mailboxes :
          /\ Status(Making(n)) # "none"
          /\ \A m \in Mailboxes : Status(Making(m)) # "none" => m <= n
    BY <1>1 DEF Makers, Mailboxes
  <2>2. \A m \in Mailboxes : Now(Making(m)) # "none" <=> Status(Making(m)) # "none"
    <3>1. \A m \in Mailboxes : Making(m) \in Maker
      BY MakerName
    <3>2. QED
      BY <3>1, LawfulIs DEF OtherTurn
  <2>3. QED
    BY <2>1, <2>2 DEF Status, Now
<1>3. namespace' = "ready" => Made'
  BY <1>1 DEF Makers
<1>4. home' = "onboarding" /\ Made' => namespace' = "ready"
  BY <1>1 DEF Makers
<1>5. upstream' # {} => Made'
  BY <1>1 DEF Makers
<1>6. \A a \in Actor : pc'[a] \in {"call", "answer", "finish", "raze", "close"} => Made'
  BY <1>1 DEF Makers
<1>7. home' = "onboarding" /\ step' \in {"verified", "waiting_user"} => Made'
  BY <1>1 DEF Makers, StepLaw
<1>8. home' = "onboarding" =>
        /\ \A j \in Maker : MakerOpen(j)' => ~Quarantined(j)'
        /\ \A j \in NamespaceCleanup : Status(j)' = "none"
        /\ \A a \in Actor : pc'[a] \notin {"unmake", "unmade", "kept"}
  BY <1>1 DEF MakerOpen, Status, Quarantined, Now, NowQuarantined
<1>9. \A n \in Mailboxes : Status(Making(n))' \in {"pending", "running", "unknown"} =>
        \A m \in Mailboxes : Status(Making(m))' # "none" => m <= n
  BY <1>2 DEF Status, Now
<1>10. QED
  BY <1>3, <1>4, <1>5, <1>6, <1>7, <1>8, <1>9, <1>11 DEF Makers, Mailboxes

\* The last maker is the one that is open, and none is made while it is.
LEMMA OpenIsLatest ==
  ASSUME Inv, home # "gone", NEW j \in Maker, Status(j) \in {"pending", "running", "unknown"}
  PROVE  LatestMaker = j
<1>1. PICK n \in Mailboxes : j = Making(n)
  BY MakerIs
<1>2. Status(Making(n)) # "none"
        /\ \A m \in Mailboxes : Status(Making(m)) # "none" => m <= n
  BY <1>1, InvIs DEF Makers, Mailboxes
<1>3. QED
  BY <1>1, <1>2, LatestIs

\* A job that is written before and after as not succeeded makes nothing.
LEMMA MadeSame ==
  ASSUME Inv, home # "gone", Lawful,
         \A j \in Maker : jobs'[j] = jobs[j] \/ (Status(j) # "succeeded" /\ Now(j) # "succeeded")
  PROVE  Made' <=> Made
<1>1. LatestMaker' = LatestMaker /\ LatestMaker \in Maker
  BY LatestSame, LatestIsMaker
<1>2. Made <=> Status(LatestMaker) = "succeeded"
  BY DEF Made
<1>3. Made' <=> Now(LatestMaker) = "succeeded"
  BY <1>1 DEF Made, Status, Now
<1>4. jobs'[LatestMaker] = jobs[LatestMaker]
        \/ (Status(LatestMaker) # "succeeded" /\ Now(LatestMaker) # "succeeded")
  BY <1>1
<1>5. QED
  BY <1>2, <1>3, <1>4 DEF Status, Now

\* The steps at the mailbox.
LEMMA MakersMail ==
  ASSUME Inv, home # "gone", Lawful,
         \A j \in Maker \cup NamespaceCleanup : jobs'[j] = jobs[j],
         UNCHANGED <<namespace, app>>, upstream' \subseteq upstream \/ Made,
         \A a \in Actor : pc'[a] \in {"call", "answer", "finish", "raze", "close"} =>
           pc[a] \in {"call", "answer", "finish", "raze", "close"} \/ Made,
         \A a \in Actor : pc'[a] \in {"make", "made", "unmake", "unmade", "kept"} =>
           pc'[a] = pc[a] /\ at'[a] = at[a]
  PROVE  Makers'
<1>1. Makers
  BY InvIs
<1>2. \A j \in Maker \cup NamespaceCleanup :
        Now(j) = Status(j) /\ NowQuarantined(j) = Quarantined(j)
  BY DEF Now, Status, NowQuarantined, Quarantined
<1>3. \A j \in Maker : Now(j) \in {"pending", "running", "unknown"} =>
           Status(j) \in {"pending", "running", "unknown"}
  BY <1>2
<1>4. Made' <=> Made
  BY MadeSame
<1>5. home = "onboarding" =>
        /\ \A j \in Maker : Now(j) \in {"running", "unknown"} => ~NowQuarantined(j)
        /\ \A j \in NamespaceCleanup : Now(j) = "none"
        /\ \A a \in Actor : pc'[a] \notin {"unmake", "unmade", "kept"}
  BY <1>1, <1>2 DEF Makers, MakerOpen
<1>6. \A a \in Actor : Building(a)' => MakerOpen(at[a])'
  <2> SUFFICES ASSUME NEW a \in Actor, Building(a)' PROVE Now(at'[a]) \in {"running", "unknown"}
    BY DEF MakerOpen, Status, Now
  <2>1. Building(a) /\ at'[a] = at[a]
    BY DEF Building
  <2>2. at[a] \in Maker /\ Status(at[a]) \in {"running", "unknown"}
    BY <2>1, AtMaker
  <2>3. QED
    BY <1>2, <2>1, <2>2
<1>7. OpenMaker => OpenMaker'
  <2>1. \A j \in Maker : MakerOpen(j) => MakerOpen(j)'
    BY <1>2 DEF MakerOpen, Status, Now
  <2>2. QED
    BY <2>1 DEF OpenMaker
<1>8. app' => Owned' \/ OpenMaker'
  BY <1>1, <1>7 DEF Makers, Owned
<1>9. QED
  BY <1>3, <1>4, <1>5, <1>6, <1>8, MakersKept

\* The steps at the mailbox leave the namespace alone.
MailOnly ==
  /\ \A j \in Maker \cup NamespaceCleanup : jobs'[j] = jobs[j]
  /\ UNCHANGED <<namespace, app, eraser>>
  /\ upstream' \subseteq upstream \/ (Made /\ OpenHouse)
  /\ \A a \in Actor : pc'[a] \in {"call", "answer", "finish", "raze", "close"} =>
       pc[a] \in {"call", "answer", "finish", "raze", "close"} \/ Made
  /\ \A a \in Actor : pc'[a] \in {"make", "made", "unmake", "unmade", "kept"} =>
       pc'[a] = pc[a] /\ at'[a] = at[a]

LEMMA NotTheMakers ==
  ASSUME NEW S, S \subseteq StepJob \cup CleanJob, JobsBut(S)
  PROVE  \A j \in Maker \cup NamespaceCleanup : jobs'[j] = jobs[j]
BY Kinds DEF JobsBut, CleanJob

LEMMA RestingMail ==
  ASSUME NEW S, S \subseteq StepJob \cup CleanJob, JobsBut(S), Rests,
         UNCHANGED <<namespace, app, eraser>>, upstream' \subseteq upstream
  PROVE  MailOnly
<1>1. \A j \in Maker \cup NamespaceCleanup : jobs'[j] = jobs[j]
  BY NotTheMakers
<1>2. QED
  BY <1>1 DEF MailOnly, Rests

LEMMA MovingMail ==
  ASSUME NEW S, S \subseteq StepJob \cup CleanJob, JobsBut(S), NEW a \in Actor, Others(a),
         pc'[a] \in {"gate", "call", "answer", "finish", "raze", "close", "clean", "sweep"},
         pc'[a] \in {"call", "answer", "finish", "raze", "close"} =>
           pc[a] \in {"call", "answer", "finish", "raze", "close"} \/ Made,
         UNCHANGED <<namespace, app, eraser>>, upstream' \subseteq upstream \/ (Made /\ OpenHouse)
  PROVE  MailOnly
<1>1. \A j \in Maker \cup NamespaceCleanup : jobs'[j] = jobs[j]
  BY NotTheMakers
<1>2. QED
  BY <1>1 DEF MailOnly, Others

LEMMA WritingMail ==
  ASSUME Inv, NEW a \in Actor, Writing(a)
  PROVE  MailOnly
<1>1. CASE Resting
  <2>1. JobsBut({}) /\ Rests /\ UNCHANGED <<namespace, app, eraser, upstream>>
    BY <1>1 DEF Resting, JobsBut, Outside
  <2>2. QED
    BY <2>1, RestingMail
<1>2. ASSUME NEW n \in 1..created, JobsBut({Step(n)}), Rests, UNCHANGED Outside
      PROVE  MailOnly
  <2>1. Step(n) \in StepJob
    BY InvIs, AttemptMade, StepName
  <2>2. QED
    BY <1>2, <2>1, RestingMail DEF Outside
<1>3. ASSUME NEW n \in 1..created, Handing(a, n)
      PROVE  MailOnly
  <2>1. Step(n) \in StepJob /\ WaitingCleanup(n) \in CleanJob
    BY InvIs, AttemptMade, StepName, CleanName DEF CleanJob
  <2>2. JobsBut({Step(n), WaitingCleanup(n)}) /\ Rests /\ UNCHANGED Outside
    BY <1>3 DEF Handing, Defers
  <2>3. QED
    BY <2>1, <2>2, RestingMail DEF Outside
<1>4. QED
  BY <1>1, <1>2, <1>3 DEF Writing, Marking, Reviving, PuttingBack

LEMMA EnteringMail ==
  ASSUME Inv, home # "gone", Entering
  PROVE  MailOnly
<1>1. JobsBut({}) /\ Worker \in Actor /\ Others(Worker) /\ pc'[Worker] = "call" /\ UNCHANGED Outside
      /\ namespace = "ready"
  BY WorkerActs DEF Entering, JobsBut
<1>2. Made
  BY <1>1, InvIs DEF Makers
<1>3. QED
  BY <1>1, <1>2, MovingMail DEF Outside

LEMMA MakingMail ==
  ASSUME Inv, home # "gone", NEW a \in Actor, NEW n \in 1..created,
         Installing(a) \/ Undoing(a, n) \/ Calling(a, n)
  PROVE  MailOnly
<1>1. /\ JobsBut({}) /\ Others(a) /\ pc[a] \in {"call", "answer", "finish"}
      /\ pc'[a] \in {"call", "answer", "finish", "raze"} /\ UNCHANGED <<namespace, app, eraser>>
      /\ upstream' \subseteq upstream \/ (pc[a] = "call" /\ OpenHouse)
  BY DEF Installing, Undoing, Calling, JobsBut, Outside
<1>2. Made
  BY <1>1, InvIs DEF Makers
<1>3. QED
  BY <1>1, <1>2, MovingMail

LEMMA VerifyingMail ==
  ASSUME Inv, NEW a \in Actor, NEW n \in 1..created, Verifying(a, n)
  PROVE  MailOnly
<1>1. Step(n) \in StepJob
  BY InvIs, AttemptMade, StepName
<1>2. QED
  BY <1>1, RestingMail DEF Verifying, Outside

LEMMA RazingMail ==
  ASSUME Inv, NEW a \in Actor, NEW n \in 1..created, Razing(a, n)
  PROVE  MailOnly
<1>1. SecretCleanup(n) \in CleanJob
  BY InvIs, AttemptMade, CleanName DEF CleanJob
<1>2. JobsBut({SecretCleanup(n)}) /\ Others(a) /\ pc[a] = "raze" /\ pc'[a] = "close"
      /\ UNCHANGED <<namespace, app, eraser>> /\ upstream' \subseteq upstream
  BY DEF Razing
<1>3. QED
  BY <1>1, <1>2, MovingMail

LEMMA ClosingMail ==
  ASSUME Inv, NEW a \in Actor, NEW n \in 1..created, Closing(a, n)
  PROVE  MailOnly
<1>1. Step(n) \in StepJob /\ LateCleanup(n) \in CleanJob
  BY InvIs, AttemptMade, StepName, CleanName DEF CleanJob
<1>2. QED
  BY <1>1, RestingMail DEF Closing, Outside

LEMMA DeprivingMail ==
  ASSUME Inv, NEW a \in Actor, NEW j \in Teardown, Depriving(a, j)
  PROVE  MailOnly
<1>1. j \in CleanJob
  BY DEF CleanJob
<1>2. JobsBut({j}) /\ UNCHANGED <<namespace, app, eraser>> /\ upstream' \subseteq upstream
      /\ (Rests \/ (Others(a) /\ pc'[a] = "sweep"))
  BY DEF Depriving, Troubled, JobsBut
<1>3. QED
  BY <1>1, <1>2, RestingMail, MovingMail

LEMMA SweepingMail ==
  ASSUME Inv, home # "gone", NEW a \in Actor, NEW j \in Teardown, Sweeping(a, j)
  PROVE  MailOnly
<1>1. j \in CleanJob /\ j \in JobId /\ Status(j) # "none"
  BY Kinds, InvIs DEF CleanJob, Sweeping, Handed
<1>2. Rests /\ UNCHANGED <<namespace, app, eraser, upstream>>
  BY DEF Sweeping
<1>3. CASE Troubled(j)
  <2>1. JobsBut({j})
    BY <1>3 DEF Troubled
  <2>2. QED
    BY <1>1, <1>2, <2>1, RestingMail
<1>4. CASE \A k \in JobId :
             k # j /\ ~(jobs[j].parent # None /\ k = Step(jobs[j].parent)) => jobs'[k] = jobs[k]
  <2> DEFINE p == jobs[j].parent
             S == {j} \cup {k \in StepJob : p # None /\ k = Step(p)}
  <2>1. p # None => Step(p) \in StepJob
    <3>1. p \in 0..created /\ created \in 0..AttemptMax
      BY <1>1, InvIs DEF Numbers, ShapeRest
    <3>2. p # None => p \in Attempt
      BY <3>1, BoundsAssumption DEF None, Attempt
    <3>3. QED
      BY <3>2, StepName
  <2>2. JobsBut(S)
    BY <1>4, <2>1 DEF JobsBut
  <2>3. S \subseteq StepJob \cup CleanJob
    BY <1>1
  <2> HIDE DEF S
  <2>4. QED
    BY <1>2, <2>2, <2>3, RestingMail
<1>5. QED
  BY <1>3, <1>4 DEF Sweeping

LEMMA UnstagingMail ==
  ASSUME Inv, NEW a \in Actor, NEW j \in SecretJob, Unstaging(a, j)
  PROVE  MailOnly
<1>1. j \in CleanJob /\ Step(j[2]) \in StepJob
  BY CleanIs, StepName DEF CleanJob
<1>2. Rests /\ UNCHANGED <<namespace, app, eraser, upstream>>
  BY DEF Unstaging
<1>3. JobsBut({j, Step(j[2])})
  BY DEF Unstaging, JobsBut
<1>4. QED
  BY <1>1, <1>2, <1>3, RestingMail

LEMMA MakersMailOnly ==
  ASSUME Inv, home # "gone", Lawful, MailOnly
  PROVE  Makers'
BY MakersMail DEF MailOnly

\* What one step at a maker's job leaves.
LEMMA MakersOne ==
  ASSUME Inv, home # "gone", Lawful, NEW j \in Maker, JobsBut({j} \cup NamespaceCleanup),
         Status(j) \in {"pending", "running", "unknown"}, Now(j) # "succeeded",
         home = "onboarding" => /\ JobsBut({j})
                                /\ Now(j) \in {"running", "unknown"} => ~NowQuarantined(j),
         namespace' = namespace \/ (home # "onboarding" /\ namespace' # "ready"),
         upstream' = upstream,
         \A a \in Actor : pc'[a] \in {"call", "answer", "finish", "raze", "close"} =>
           pc[a] \in {"call", "answer", "finish", "raze", "close"},
         home = "onboarding" => \A a \in Actor : pc'[a] \in {"unmake", "unmade", "kept"} =>
           pc[a] \in {"unmake", "unmade", "kept"},
         \A a \in Actor : Building(a)' =>
           \/ Building(a) /\ at'[a] = at[a] /\ (at[a] = j => Now(j) \in {"running", "unknown"})
           \/ at'[a] = j /\ Now(j) \in {"running", "unknown"},
         app' => Owned' \/ OpenMaker'
  PROVE  Makers'
<1>1. Makers
  BY InvIs
<1>2. j \in JobId /\ \A k \in Maker : k # j => jobs'[k] = jobs[k] /\ k \in JobId
  BY Kinds DEF JobsBut
<1>3. \A k \in Maker : Now(k) \in {"pending", "running", "unknown"} =>
           Status(k) \in {"pending", "running", "unknown"}
  BY <1>2 DEF Now, Status
<1>4. Made' <=> Made
  <2>1. \A k \in Maker : jobs'[k] = jobs[k] \/ (Status(k) # "succeeded" /\ Now(k) # "succeeded")
    BY <1>2
  <2>2. QED
    BY <2>1, MadeSame
<1>5. ASSUME home = "onboarding"
      PROVE  /\ \A k \in Maker : Now(k) \in {"running", "unknown"} => ~NowQuarantined(k)
             /\ \A k \in NamespaceCleanup : Now(k) = "none"
             /\ \A a \in Actor : pc'[a] \notin {"unmake", "unmade", "kept"}
  <2>1. /\ \A k \in Maker : MakerOpen(k) => ~Quarantined(k)
        /\ \A k \in NamespaceCleanup : Status(k) = "none"
        /\ \A a \in Actor : pc[a] \notin {"unmake", "unmade", "kept"}
    BY <1>1, <1>5 DEF Makers
  <2>2. \A k \in Maker : Now(k) \in {"running", "unknown"} => ~NowQuarantined(k)
    BY <1>2, <1>5, <2>1 DEF MakerOpen, Now, Status, Quarantined, NowQuarantined
  <2>3. \A k \in NamespaceCleanup : jobs'[k] = jobs[k]
    BY <1>5, Kinds DEF JobsBut
  <2>4. QED
    BY <1>5, <2>1, <2>2, <2>3 DEF Now, Status
<1>6. \A a \in Actor : Building(a)' => MakerOpen(at[a])'
  <2> SUFFICES ASSUME NEW a \in Actor, Building(a)' PROVE Now(at'[a]) \in {"running", "unknown"}
    BY DEF MakerOpen, Status, Now
  <2>1. CASE Building(a) /\ at'[a] = at[a] /\ (at[a] = j => Now(j) \in {"running", "unknown"})
    <3>1. at[a] \in Maker /\ Status(at[a]) \in {"running", "unknown"}
      BY <2>1, AtMaker
    <3>2. QED
      BY <1>2, <2>1, <3>1 DEF Now, Status
  <2>2. CASE at'[a] = j /\ Now(j) \in {"running", "unknown"}
    BY <2>2
  <2>3. QED
    BY <2>1, <2>2
<1>7. QED
  BY <1>3, <1>4, <1>5, <1>6, MakersKept

LEMMA MakersLeasing ==
  ASSUME Inv, home # "gone", NEW j \in JobId, Leasing(j)
  PROVE  Makers'
<1>1. /\ Worker \in Actor /\ Others(Worker) /\ at'[Worker] = j /\ JobsBut({j})
      /\ Now(j) = "running" /\ jobs'[j].why = jobs[j].why
      /\ pc'[Worker] = IF j \in StepJob THEN "gate" ELSE IF j \in Maker THEN "make" ELSE "clean"
      /\ Status(j) \in {"pending", "running", "waiting"}
      /\ UNCHANGED <<namespace, home, upstream, app, eraser>>
  BY WorkerActs DEF Leasing, Outside, Now
<1>2. Lawful /\ Makers /\ Handed
  BY LeasingLawful, InvIs
<1>3. CASE j \in StepJob \cup CleanJob
  <2>1. j \notin Maker
    BY <1>3, Kinds DEF CleanJob
  <2>2. pc'[Worker] \in {"gate", "clean"}
    BY <1>1, <2>1
  <2>3. MailOnly
    BY <1>1, <1>3, <2>2, MovingMail
  <2>4. QED
    BY <1>2, <2>3, MakersMailOnly
<1>4. CASE j \in Maker
  <2>1. pc'[Worker] = "make" /\ Status(j) \in {"pending", "running"} /\ ~NowQuarantined(j)
    BY <1>1, <1>2, <1>4, Kinds DEF Handed, NowQuarantined, Quarantined
  <2>2. OpenMaker'
    BY <1>1, <1>4 DEF OpenMaker, MakerOpen, Status, Now
  <2>3. JobsBut({j} \cup NamespaceCleanup)
    BY <1>1 DEF JobsBut
  <2>4. \A a \in Actor : pc'[a] \in {"call", "answer", "finish", "raze", "close"} =>
           pc[a] \in {"call", "answer", "finish", "raze", "close"}
    BY <1>1, <2>1 DEF Others
  <2>5. \A a \in Actor : pc'[a] \in {"unmake", "unmade", "kept"} =>
           pc[a] \in {"unmake", "unmade", "kept"}
    BY <1>1, <2>1 DEF Others
  <2>6. \A a \in Actor : Building(a)' =>
           \/ Building(a) /\ at'[a] = at[a] /\ (at[a] = j => Now(j) \in {"running", "unknown"})
           \/ at'[a] = j /\ Now(j) \in {"running", "unknown"}
    BY <1>1 DEF Others, Building
  <2>7. QED
    BY <1>1, <1>2, <1>4, <2>1, <2>2, <2>3, <2>4, <2>5, <2>6, MakersOne
<1>5. CASE j \in NamespaceCleanup
  <2>1. j \notin StepJob /\ j \notin Maker
    BY <1>5, Kinds
  <2>2. home # "onboarding"
    BY <1>1, <1>2, <1>5 DEF Makers
  <2>3. \A k \in Maker : jobs'[k] = jobs[k]
    BY <1>1, <2>1, Kinds DEF JobsBut
  <2>4. Made' <=> Made
    BY <1>2, <2>3, MadeSame
  <2>5. \A k \in Maker : Now(k) = Status(k) /\ (MakerOpen(k)' <=> MakerOpen(k))
    BY <2>3 DEF Now, Status, MakerOpen
  <2>6. pc'[Worker] = "clean"
    BY <1>1, <2>1
  <2>7. \A a \in Actor : Building(a)' => MakerOpen(at[a])'
    <3> SUFFICES ASSUME NEW a \in Actor, Building(a)' PROVE MakerOpen(at[a])'
      OBVIOUS
    <3>1. Building(a) /\ at'[a] = at[a]
      BY <1>1, <2>6 DEF Building, Others
    <3>2. at[a] \in Maker /\ MakerOpen(at[a])
      BY <3>1, AtMaker DEF MakerOpen
    <3>3. QED
      BY <2>3, <3>1, <3>2 DEF MakerOpen, Status
  <2>8. app' => Owned' \/ OpenMaker'
    BY <1>1, <1>2, <2>5 DEF Makers, Owned, OpenMaker
  <2>9. \A a \in Actor : pc'[a] \in {"call", "answer", "finish", "raze", "close"} =>
           pc[a] \in {"call", "answer", "finish", "raze", "close"} \/ Made
    BY <1>1, <2>6 DEF Others
  <2>10. QED
    BY <1>1, <1>2, <2>2, <2>4, <2>5, <2>7, <2>8, <2>9, MakersKept
<1>6. QED
  BY <1>3, <1>4, <1>5, Kinds DEF CleanJob

LEMMA MakersTaking ==
  ASSUME Inv, home # "gone", NEW o \in Operators, NEW j \in JobId, Taking(o, j)
  PROVE  Makers'
<1>1. /\ o \in Actor /\ Others(o) /\ at'[o] = j /\ UNCHANGED jobs /\ Status(j) = "unknown"
      /\ UNCHANGED <<namespace, home, upstream, app, eraser>>
      /\ \/ j \in StepJob /\ pc'[o] = "call" /\ namespace = "ready"
         \/ j \in Maker /\ pc'[o] = "make"
         \/ j \notin StepJob /\ j \notin Maker /\ pc'[o] = "clean"
  BY OperatorActs DEF Taking, Outside
<1>2. Lawful /\ Makers /\ Handed
  BY TakingLawful, InvIs
<1>3. CASE pc'[o] \in {"call", "clean"}
  <2>1. pc'[o] = "call" => Made
    BY <1>1, <1>2, Kinds DEF Makers
  <2>2. JobsBut({})
    BY <1>1 DEF JobsBut
  <2>3. MailOnly
    BY <1>1, <1>3, <2>1, <2>2, MovingMail
  <2>4. QED
    BY <1>2, <2>3, MakersMailOnly
<1>4. CASE j \in Maker /\ pc'[o] = "make"
  <2>1. JobsBut({j} \cup NamespaceCleanup) /\ JobsBut({j}) /\ Now(j) = "unknown"
    BY <1>1 DEF JobsBut, Now, Status
  <2>2. home = "onboarding" => ~NowQuarantined(j)
    BY <1>1, <1>2, <1>4 DEF Makers, MakerOpen, NowQuarantined, Quarantined
  <2>3. OpenMaker'
    BY <1>4, <2>1 DEF OpenMaker, MakerOpen, Status, Now
  <2>4. \A a \in Actor : pc'[a] \in {"call", "answer", "finish", "raze", "close"} =>
           pc[a] \in {"call", "answer", "finish", "raze", "close"}
    BY <1>1, <1>4 DEF Others
  <2>5. \A a \in Actor : pc'[a] \in {"unmake", "unmade", "kept"} =>
           pc[a] \in {"unmake", "unmade", "kept"}
    BY <1>1, <1>4 DEF Others
  <2>6. \A a \in Actor : Building(a)' =>
           \/ Building(a) /\ at'[a] = at[a] /\ (at[a] = j => Now(j) \in {"running", "unknown"})
           \/ at'[a] = j /\ Now(j) \in {"running", "unknown"}
    BY <1>1, <2>1 DEF Others, Building
  <2>7. QED
    BY <1>1, <1>2, <1>4, <2>1, <2>2, <2>3, <2>4, <2>5, <2>6, MakersOne
<1>5. QED
  BY <1>1, <1>3, <1>4

LEMMA MakersClearing ==
  ASSUME Inv, home # "gone", NEW a \in Actor, Clearing(a)
  PROVE  Makers'
<1> DEFINE j == at[a]
<1>1. /\ pc[a] = "clean" /\ j \in NamespaceCleanup /\ Rests /\ MailSame /\ JobsBut({j})
      /\ namespace' \in {namespace, "deleted"}
      /\ app' => app /\ namespace' = namespace
  BY DEF Clearing
<1>2. Lawful /\ Makers /\ Handed
  BY ClearingLawful, InvIs
<1>3. home # "onboarding"
  BY <1>1, <1>2 DEF Makers, Handed
<1> HIDE DEF j
<1>4. \A k \in Maker : jobs'[k] = jobs[k]
  BY <1>1, Kinds DEF JobsBut
<1>5. Made' <=> Made
  BY <1>2, <1>4, MadeSame
<1>6. \A k \in Maker : Now(k) = Status(k) /\ (MakerOpen(k)' <=> MakerOpen(k))
  BY <1>4 DEF Now, Status, MakerOpen
<1>7. \A b \in Actor : Building(b)' => MakerOpen(at[b])'
  <2> SUFFICES ASSUME NEW b \in Actor, Building(b)' PROVE MakerOpen(at[b])'
    OBVIOUS
  <2>1. Building(b) /\ at'[b] = at[b]
    BY <1>1 DEF Building, Rests
  <2>2. at[b] \in Maker /\ MakerOpen(at[b])
    BY <2>1, AtMaker DEF MakerOpen
  <2>3. QED
    BY <1>4, <2>1, <2>2 DEF MakerOpen, Status
<1>8. app' => Owned' \/ OpenMaker'
  BY <1>1, <1>2, <1>6 DEF Makers, Owned, OpenMaker
<1>9. \A b \in Actor : pc'[b] \in {"call", "answer", "finish", "raze", "close"} =>
         pc[b] \in {"call", "answer", "finish", "raze", "close"} \/ Made
  BY <1>1 DEF Rests
<1>10. upstream' = upstream /\ (namespace' = namespace \/ namespace' # "ready")
  BY <1>1 DEF MailSame
<1>11. QED
  BY <1>2, <1>3, <1>5, <1>6, <1>7, <1>8, <1>9, <1>10, MakersKept

\* Who builds stays where the job is, and the job stays as it is.
LEMMA MakersHousing ==
  ASSUME Inv, home # "gone", NEW a \in Actor, Housing(a) \/ Unhousing(a) \/ Unmaking(a)
  PROVE  Makers'
<1>1. /\ Building(a) /\ Others(a) /\ at'[a] = at[a] /\ MailSame /\ UNCHANGED jobs
      /\ pc'[a] \in {"made", "unmake", "unmade", "kept"}
      /\ namespace' = namespace \/ (home # "onboarding" /\ namespace' = "deleting")
      /\ pc'[a] # "made" => (app' => app)
      /\ pc'[a] \in {"unmade", "kept"} => pc[a] = "unmake"
      /\ pc'[a] = "unmake" => home # "onboarding"
  BY DEF Housing, Unhousing, Unmaking, Building
<1>2. Lawful /\ Makers
  BY HousingLawful, InvIs
<1>3. at[a] \in Maker /\ Status(at[a]) \in {"running", "unknown"}
      /\ (home = "onboarding" => ~Quarantined(at[a]))
  BY <1>1, AtMaker
<1> DEFINE j == at[a]
<1>4. /\ JobsBut({j} \cup NamespaceCleanup) /\ JobsBut({j}) /\ Now(j) \in {"running", "unknown"}
      /\ home = "onboarding" => ~NowQuarantined(j)
  BY <1>1, <1>3 DEF JobsBut, Now, Status, NowQuarantined, Quarantined
<1>5. OpenMaker'
  BY <1>1, <1>3, <1>4 DEF OpenMaker, MakerOpen, Status, Now
<1>6. \A b \in Actor : pc'[b] \in {"call", "answer", "finish", "raze", "close"} =>
         pc[b] \in {"call", "answer", "finish", "raze", "close"}
  BY <1>1 DEF Others
<1>7. home = "onboarding" => \A b \in Actor : pc'[b] \in {"unmake", "unmade", "kept"} =>
         pc[b] \in {"unmake", "unmade", "kept"}
  BY <1>1 DEF Others
<1>8. \A b \in Actor : Building(b)' =>
         \/ Building(b) /\ at'[b] = at[b] /\ (at[b] = j => Now(j) \in {"running", "unknown"})
         \/ at'[b] = j /\ Now(j) \in {"running", "unknown"}
  BY <1>1, <1>4 DEF Others, Building
<1>9. upstream' = upstream /\ (namespace' = namespace \/ (home # "onboarding" /\ namespace' # "ready"))
  BY <1>1 DEF MailSame
<1>10. j \in Maker /\ Status(j) \in {"pending", "running", "unknown"} /\ Now(j) # "succeeded"
  BY <1>3, <1>4
<1> HIDE DEF j
<1>11. QED
  BY <1>2, <1>4, <1>5, <1>6, <1>7, <1>8, <1>9, <1>10, MakersOne

LEMMA MakersRefusing ==
  ASSUME Inv, home # "gone", NEW a \in Actor, Refusing(a) \/ Unhoused(a)
  PROVE  Makers'
<1> DEFINE j == at[a]
<1>1. /\ Building(a) /\ Rests /\ pc'[a] = "idle" /\ MailSame /\ UNCHANGED app /\ Remembered(a)
      /\ namespace' = namespace \/ (namespace' # "ready" /\ pc[a] \in {"unmade", "kept"})
      /\ jobs'[j] = jobs[j] \/ (Now(j) # "succeeded" /\ ~NowQuarantined(j))
  BY DEF Refusing, Unhoused, Building
<1>2. Lawful /\ Makers
  BY RefusingLawful, UnhousedLawful, InvIs
<1>3. j \in Maker /\ Status(j) \in {"running", "unknown"}
      /\ (home = "onboarding" => ~Quarantined(j) /\ pc[a] \in {"make", "made"})
  BY <1>1, AtMaker
<1>4. JobsBut({j} \cup NamespaceCleanup) /\ (home = "onboarding" => JobsBut({j}))
  <2>1. CASE Refusing(a)
    BY <2>1 DEF Refusing, JobsBut
  <2>2. CASE Unhoused(a)
    <3>1. pc[a] \in {"unmade", "kept"} /\ JobsBut({j, LateNamespace(j)})
      BY <2>2 DEF Unhoused
    <3>2. home # "onboarding"
      BY <1>3, <3>1
    <3>3. LateNamespace(j) \in NamespaceCleanup
      BY <1>3, Kinds
    <3>4. QED
      BY <3>1, <3>2, <3>3 DEF JobsBut
  <2>3. QED
    BY <2>1, <2>2
<1>5. namespace' = namespace \/ (home # "onboarding" /\ namespace' # "ready")
  BY <1>1, <1>3
<1>6. home = "onboarding" => (Now(j) \in {"running", "unknown"} => ~NowQuarantined(j))
  BY <1>1, <1>3 DEF NowQuarantined, Quarantined
<1>7. Now(j) # "succeeded"
  BY <1>1, <1>3 DEF Now, Status
<1>8. \A b \in Actor : b # a => at[b] # j
  BY <1>1 DEF Remembered, Alone
<1>9. \A b \in Actor : pc'[b] \in {"call", "answer", "finish", "raze", "close"} =>
         pc[b] \in {"call", "answer", "finish", "raze", "close"}
  BY <1>1 DEF Rests
<1>10. \A b \in Actor : pc'[b] \in {"unmake", "unmade", "kept"} =>
         pc[b] \in {"unmake", "unmade", "kept"}
  BY <1>1 DEF Rests
<1>11. \A b \in Actor : Building(b)' =>
         \/ Building(b) /\ at'[b] = at[b] /\ (at[b] = j => Now(j) \in {"running", "unknown"})
         \/ at'[b] = j /\ Now(j) \in {"running", "unknown"}
  BY <1>1, <1>8 DEF Rests, Building
<1>12. app' => OpenMaker'
  <2> SUFFICES ASSUME app' PROVE OpenMaker'
    OBVIOUS
  <2>1. Now(j) \in {"running", "unknown", "succeeded"}
    BY <1>1 DEF Remembered
  <2>2. QED
    BY <1>3, <1>7, <2>1 DEF OpenMaker, MakerOpen, Status, Now
<1>13. upstream' = upstream
  BY <1>1 DEF MailSame
<1>14. Status(j) \in {"pending", "running", "unknown"}
  BY <1>3
<1> HIDE DEF j
<1>15. QED
  BY <1>2, <1>3, <1>4, <1>5, <1>6, <1>7, <1>9, <1>10, <1>11, <1>12, <1>13, <1>14, MakersOne

LEMMA MakersHoused ==
  ASSUME Inv, home # "gone", NEW a \in Actor, Housed(a)
  PROVE  Makers'
<1> DEFINE j == at[a]
<1>1. /\ pc[a] = "made" /\ Rests /\ pc'[a] = "idle" /\ MailSame /\ UNCHANGED <<app, key>>
      /\ JobsBut({j}) /\ Alone(a) /\ Now(j) = "succeeded" /\ namespace' = "ready"
      /\ home = "onboarding"
  BY DEF Housed
<1>2. Lawful /\ Makers
  BY RefusingLawful, InvIs
<1>3. j \in Maker /\ Status(j) \in {"running", "unknown"} /\ j \in JobId
  BY <1>1, AtMaker DEF Building
<1>4. LatestMaker = j
  BY <1>3, OpenIsLatest
<1>5. Made'
  BY <1>1, <1>2, <1>4, LatestSame DEF Made, Status, Now
<1>6. \A k \in Maker : k # j => jobs'[k] = jobs[k]
  BY <1>1, Kinds DEF JobsBut
<1>7. PICK l \in Mailboxes : j = Making(l)
  BY <1>3, MakerIs
<1>8. \A m \in Mailboxes : Now(Making(m)) # "none" => m <= l
  <2> SUFFICES ASSUME NEW m \in Mailboxes, Now(Making(m)) # "none" PROVE m <= l
    OBVIOUS
  <2>1. Status(Making(m)) # "none"
    <3>1. Making(m) \in Maker
      BY MakerName
    <3>2. QED
      BY <3>1, <1>2, LawfulIs DEF OtherTurn
  <2>2. QED
    BY <1>2, <1>3, <1>7, <2>1 DEF Makers, Mailboxes
<1>9. \A n \in Mailboxes : Now(Making(n)) \notin {"pending", "running", "unknown"}
  <2> SUFFICES ASSUME NEW n \in Mailboxes, Now(Making(n)) \in {"pending", "running", "unknown"}
               PROVE  FALSE
    OBVIOUS
  <2>1. Making(n) \in Maker /\ Making(n) # j
    BY <1>1, MakerName
  <2>2. Status(Making(n)) \in {"pending", "running", "unknown"}
    BY <1>6, <2>1 DEF Now, Status
  <2>3. LatestMaker = Making(n)
    BY <2>1, <2>2, OpenIsLatest
  <2>4. QED
    BY <1>4, <2>1, <2>3
<1>10. \A k \in Maker : ~MakerOpen(k)'
  <2> SUFFICES ASSUME NEW k \in Maker, Now(k) \in {"running", "unknown"} PROVE FALSE
    BY DEF MakerOpen, Status, Now
  <2>1. k[2] \in Mailboxes /\ k = Making(k[2])
    BY MakerIs
  <2>2. QED
    BY <1>9, <2>1
<1>11. \A k \in NamespaceCleanup : Status(k)' = "none"
  <2>1. \A k \in NamespaceCleanup : jobs'[k] = jobs[k]
    BY <1>1, <1>3, Kinds DEF JobsBut
  <2>2. QED
    BY <1>1, <1>2, <2>1 DEF Makers, Status
<1>12. \A b \in Actor : pc'[b] \notin {"unmake", "unmade", "kept"}
  BY <1>1, <1>2 DEF Makers, Rests
<1>13. \A b \in Actor : ~Building(b)'
  <2> SUFFICES ASSUME NEW b \in Actor, Building(b)' PROVE FALSE
    OBVIOUS
  <2>1. Building(b) /\ b # a
    BY <1>1 DEF Rests, Building
  <2>2. at[b] \in Maker /\ Status(at[b]) \in {"running", "unknown"}
    BY <2>1, AtMaker
  <2>3. at[b] = j
    BY <1>4, <2>2, OpenIsLatest
  <2>4. QED
    BY <1>1, <2>1, <2>3 DEF Alone
<1>14. Owned'
  BY <1>1 DEF Owned
<1>15. \E n \in Mailboxes : /\ Status(Making(n))' # "none"
                            /\ \A m \in Mailboxes : Status(Making(m))' # "none" => m <= n
  BY <1>1, <1>7, <1>8 DEF Status, Now
<1>16. \A n \in Mailboxes : Status(Making(n))' \notin {"pending", "running", "unknown"}
  BY <1>9 DEF Status, Now
<1>17. namespace' = "ready"
  BY <1>1
<1> HIDE DEF j
<1>18. QED
  BY <1>5, <1>10, <1>11, <1>12, <1>13, <1>14, <1>15, <1>16, <1>17 DEF Makers, Mailboxes

-----------------------------------------------------------------------------
(* The erasure, while others work *)

LEMMA ErasingKept ==
  ASSUME Inv, home # "gone", Lawful, eraser' = eraser,
         upstream' \subseteq upstream \/ OpenHouse,
         ByDeletion => \A j \in Maker : Now(j) # "pending",
         ByDeletion /\ app' => OpenMaker' \/ (app /\ ~OpenMaker),
         ByDeletion /\ ~OpenMaker => ~OpenMaker' /\ (Owned' => Owned)
  PROVE  Erasing'
<1>1. Erasing /\ belongs' = belongs /\ home' = home /\ created' = created
  BY InvIs, LawfulIs
<1>2. ByDeletion => upstream' \subseteq upstream
  BY DEF ByDeletion, OpenHouse
<1>3. ByDeletion' <=> ByDeletion
  BY <1>1 DEF ByDeletion
<1>4. ByDeletion' => (\A j \in Maker : Status(j)' # "pending") /\ \A i \in Attempt : ~IsLive(i)'
  BY <1>1, <1>3, LiveLaw DEF Erasing, Status, Now, IsLive
<1>5. eraser'.doing # "idle" =>
        /\ ByDeletion' /\ eraser'.rows \subseteq 0..created'
        /\ None \in eraser'.absent /\ app' => OpenMaker'
  BY <1>1, <1>3 DEF Erasing
<1>6. eraser'.doing # "idle" /\ ~eraser'.open =>
        /\ ~OpenMaker'
        /\ None \notin eraser'.rows => ~Owned'
        /\ eraser'.doing = "call" =>
             \A i \in upstream' : \E n \in eraser'.rows \ eraser'.absent : n # None /\ belongs'[n] = i
        /\ eraser'.doing = "end" /\ eraser'.absent = eraser'.rows => upstream' = {}
  <2> SUFFICES ASSUME eraser.doing # "idle", ~eraser.open
               PROVE  /\ ~OpenMaker'
                      /\ None \notin eraser.rows => ~Owned'
                      /\ eraser.doing = "call" => \A i \in upstream' :
                           \E n \in eraser.rows \ eraser.absent : n # None /\ belongs[n] = i
                      /\ eraser.doing = "end" /\ eraser.absent = eraser.rows => upstream' = {}
    BY <1>1
  <2>1. ByDeletion /\ ~OpenMaker /\ upstream' \subseteq upstream
    BY <1>1, <1>2 DEF Erasing
  <2>2. QED
    BY <1>1, <2>1 DEF Erasing
<1>7. QED
  BY <1>4, <1>5, <1>6 DEF Erasing

LEMMA OpenSame ==
  ASSUME \A j \in Maker : jobs'[j] = jobs[j]
  PROVE  OpenMaker' <=> OpenMaker
<1>1. \A j \in Maker : MakerOpen(j)' <=> MakerOpen(j)
  BY DEF MakerOpen, Status
<1>2. QED
  BY <1>1 DEF OpenMaker

\* Where the makers' jobs stay as they are, and no app is made.
LEMMA ErasingSame ==
  ASSUME Inv, home # "gone", Lawful, eraser' = eraser,
         upstream' \subseteq upstream \/ OpenHouse,
         \A j \in Maker : jobs'[j] = jobs[j], app' => app, Owned' => Owned
  PROVE  Erasing'
<1>1. OpenMaker' <=> OpenMaker
  BY OpenSame
<1>2. ByDeletion => \A j \in Maker : Now(j) # "pending"
  BY InvIs DEF Erasing, Now, Status
<1>3. ByDeletion /\ app' => OpenMaker' \/ (app /\ ~OpenMaker)
  BY <1>1
<1>4. ByDeletion /\ ~OpenMaker => ~OpenMaker' /\ (Owned' => Owned)
  BY <1>1
<1>5. QED
  BY <1>2, <1>3, <1>4, ErasingKept

LEMMA ErasingMailOnly ==
  ASSUME Inv, home # "gone", Lawful, MailOnly
  PROVE  Erasing'
<1>1. /\ \A j \in Maker : jobs'[j] = jobs[j]
      /\ UNCHANGED <<namespace, app, eraser>> /\ (upstream' \subseteq upstream \/ OpenHouse)
  BY DEF MailOnly
<1>2. (app' => app) /\ (Owned' => Owned)
  BY <1>1 DEF Owned
<1>3. QED
  BY <1>1, <1>2, ErasingSame

LEMMA ErasingLeasing ==
  ASSUME Inv, home # "gone", NEW j \in JobId, Leasing(j)
  PROVE  Erasing'
<1>1. /\ JobsBut({j}) /\ Now(j) = "running" /\ Status(j) \in {"pending", "running", "waiting"}
      /\ UNCHANGED <<namespace, home, upstream, app, eraser>>
  BY DEF Leasing, Outside, Now
<1>2. Lawful /\ Erasing /\ Handed
  BY LeasingLawful, InvIs
<1>3. CASE j \notin Maker
  <2>1. \A k \in Maker : jobs'[k] = jobs[k]
    BY <1>1, <1>3, Kinds DEF JobsBut
  <2>2. (app' => app) /\ (Owned' => Owned) /\ upstream' \subseteq upstream
    BY <1>1 DEF Owned
  <2>3. QED
    BY <1>1, <1>2, <2>1, <2>2, ErasingSame
<1>4. CASE j \in Maker
  <2>1. OpenMaker'
    BY <1>1, <1>4 DEF OpenMaker, MakerOpen, Status, Now
  <2>2. ByDeletion => Status(j) = "running"
    BY <1>1, <1>2, <1>4, Kinds DEF Erasing, Handed
  <2>3. ByDeletion => OpenMaker
    BY <1>4, <2>2 DEF OpenMaker, MakerOpen
  <2>4. ByDeletion => \A k \in Maker : Now(k) # "pending"
    <3> SUFFICES ASSUME ByDeletion, NEW k \in Maker PROVE Now(k) # "pending"
      OBVIOUS
    <3>1. k # j => jobs'[k] = jobs[k]
      BY <1>1, Kinds DEF JobsBut
    <3>2. QED
      BY <1>1, <1>2, <3>1 DEF Erasing, Now, Status
  <2>5. upstream' \subseteq upstream
    BY <1>1
  <2>6. QED
    BY <1>1, <1>2, <2>1, <2>3, <2>4, <2>5, ErasingKept
<1>5. QED
  BY <1>3, <1>4

LEMMA ErasingTaking ==
  ASSUME Inv, home # "gone", NEW o \in Operators, NEW j \in JobId, Taking(o, j)
  PROVE  Erasing'
<1>1. UNCHANGED <<jobs, namespace, upstream, app, eraser>>
  BY DEF Taking, Outside
<1>2. (app' => app) /\ (Owned' => Owned) /\ upstream' \subseteq upstream
      /\ \A k \in Maker : jobs'[k] = jobs[k]
  BY <1>1 DEF Owned
<1>3. Lawful
  BY TakingLawful
<1>4. QED
  BY <1>1, <1>2, <1>3, ErasingSame

LEMMA ErasingClearing ==
  ASSUME Inv, home # "gone", NEW a \in Actor, Clearing(a)
  PROVE  Erasing'
<1>1. /\ at[a] \in NamespaceCleanup /\ JobsBut({at[a]}) /\ UNCHANGED <<upstream, eraser>>
      /\ namespace' \in {namespace, "deleted"}
      /\ app' => app /\ namespace' = namespace
  BY DEF Clearing, MailSame
<1>2. \A k \in Maker : jobs'[k] = jobs[k]
  BY <1>1, Kinds DEF JobsBut
<1>3. (app' => app) /\ (Owned' => Owned) /\ upstream' \subseteq upstream
  BY <1>1 DEF Owned
<1>4. Lawful
  BY ClearingLawful
<1>5. QED
  BY <1>1, <1>2, <1>3, <1>4, ErasingSame

LEMMA ErasingHousing ==
  ASSUME Inv, home # "gone", NEW a \in Actor, Housing(a) \/ Unhousing(a) \/ Unmaking(a)
  PROVE  Erasing'
<1>1. Building(a) /\ UNCHANGED <<jobs, upstream, eraser>>
  BY DEF Housing, Unhousing, Unmaking, Building, MailSame
<1>2. Lawful
  BY HousingLawful
<1>3. OpenMaker
  BY <1>1, AtMaker DEF OpenMaker, MakerOpen
<1>4. OpenMaker'
  BY <1>1, <1>3, OpenSame
<1>5. ByDeletion => \A j \in Maker : Now(j) # "pending"
  BY <1>1, InvIs DEF Erasing, Now, Status
<1>6. QED
  BY <1>1, <1>2, <1>3, <1>4, <1>5, ErasingKept

LEMMA ErasingRefusing ==
  ASSUME Inv, home # "gone", NEW a \in Actor, Refusing(a) \/ Unhoused(a)
  PROVE  Erasing'
<1> DEFINE j == at[a]
<1>1. /\ Building(a) /\ UNCHANGED <<app, upstream, eraser>> /\ Remembered(a)
      /\ jobs'[j] = jobs[j] \/ Now(j) # "succeeded"
  BY DEF Refusing, Unhoused, Building, MailSame
<1>2. Lawful
  BY RefusingLawful, UnhousedLawful
<1>3. j \in Maker /\ Status(j) \in {"running", "unknown"}
  BY <1>1, AtMaker
<1>4. OpenMaker
  BY <1>3 DEF OpenMaker, MakerOpen
<1>5. app' => OpenMaker'
  <2> SUFFICES ASSUME app' PROVE OpenMaker'
    OBVIOUS
  <2>1. Now(j) \in {"running", "unknown", "succeeded"}
    BY <1>1 DEF Remembered
  <2>2. Now(j) # "succeeded"
    BY <1>1, <1>3 DEF Now, Status
  <2>3. QED
    BY <1>3, <2>1, <2>2 DEF OpenMaker, MakerOpen, Status, Now
<1>6. \A k \in Maker : k # j => jobs'[k] = jobs[k]
  <2>1. CASE Refusing(a)
    BY <2>1, Kinds DEF Refusing, JobsBut
  <2>2. CASE Unhoused(a)
    <3>1. LateNamespace(j) \notin Maker
      BY <1>3, Kinds
    <3>2. QED
      BY <2>2, <3>1, Kinds DEF Unhoused, JobsBut
  <2>3. QED
    BY <2>1, <2>2
<1>7. ByDeletion => \A k \in Maker : Now(k) # "pending"
  <2> SUFFICES ASSUME ByDeletion, NEW k \in Maker PROVE Now(k) # "pending"
    OBVIOUS
  <2>1. CASE k = j
    BY <1>1, <2>1 DEF Remembered
  <2>2. CASE k # j
    BY <1>6, <2>2, InvIs DEF Erasing, Now, Status
  <2>3. QED
    BY <2>1, <2>2
<1>8. upstream' \subseteq upstream
  BY <1>1
<1> HIDE DEF j
<1>9. QED
  BY <1>1, <1>2, <1>4, <1>5, <1>7, <1>8, ErasingKept

LEMMA ErasingHoused ==
  ASSUME Inv, home # "gone", NEW a \in Actor, Housed(a)
  PROVE  Erasing'
<1>1. ~ByDeletion /\ UNCHANGED <<upstream, eraser>>
  BY DEF Housed, ByDeletion, MailSame
<1>2. Lawful
  BY RefusingLawful
<1>3. upstream' \subseteq upstream
  BY <1>1
<1>4. QED
  BY <1>1, <1>2, <1>3, ErasingKept

-----------------------------------------------------------------------------
(* The mailbox that is served *)

LEMMA LiveIsOnboarding ==
  ASSUME Inv, home # "gone", NEW i \in Attempt, IsLive(i)
  PROVE  home = "onboarding" /\ OpenHouse
<1>1. OpenHouse
  BY InvIs DEF Erasing, ByDeletion, OpenHouse
<1>2. home # "draft"
  BY <1>1, InvIs DEF Steps
<1>3. QED
  BY <1>1, <1>2, InvIs DEF ShapeRest, OpenHouse

\* Nobody works at a mailbox while one is verified.
LEMMA VerifiedIsAlone ==
  ASSUME Inv, home # "gone", NEW i \in Attempt, identity[i] = "verified", NEW a \in Actor
  PROVE  ~Forward(a)
<1>1. OpenHouse
  BY LiveIsOnboarding DEF IsLive, Live
<1>2. \A n \in Attempt : ~Unset(n)
  BY InvIs DEF Served
<1>3. QED
  BY <1>1, <1>2, InForward

\* Nor at two live ones.
LEMMA LiveIsAlone ==
  ASSUME Inv, home # "gone", NEW a \in Actor, Forward(a), IsLive(Mailbox(a)),
         NEW b \in Actor, Forward(b)
  PROVE  a = b
<1>1. Mailbox(a) \in Attempt
  BY AtStep
<1>2. OpenHouse
  BY <1>1, LiveIsOnboarding
<1>3. QED
  BY <1>2, InForward

ServedHas(i) ==
  /\ i \in upstream /\ key[i] = "namespace" /\ step = "verified" /\ consent
  /\ home = "onboarding" /\ \A n \in Attempt : ~Unset(n)

LEMMA VerifiedKept ==
  ASSUME Inv, home # "gone", Lawful, NEW i \in Attempt, identity[i] = "verified",
         i \in upstream', key'[i] = key[i]
  PROVE  ServedHas(i)'
<1>1. ServedHas(i) /\ OpenHouse
  BY InvIs, LiveIsOnboarding DEF Served, ServedHas, IsLive, Live
<1>2. step' = "verified" /\ home' = "onboarding"
  BY <1>1, LawfulIs DEF StepLaw, InProgress, ServedHas
<1>3. consent'
  BY <1>1, LawfulIs DEF ServedHas
<1>4. \A n \in Attempt : ~Unset(n)'
  <2> SUFFICES ASSUME NEW n \in Attempt, Now(Step(n)) \in Unsettled PROVE FALSE
    BY DEF Unset, Status, Now
  <2>1. Unset(n)
    BY <1>1, UnsetLaw
  <2>2. QED
    BY <1>1, <2>1 DEF ServedHas
<1>5. key'[i] = "namespace"
  BY <1>1 DEF ServedHas
<1>6. QED
  BY <1>2, <1>3, <1>4, <1>5 DEF ServedHas

LEMMA ServedKept ==
  ASSUME Inv, home # "gone", Lawful,
         \A i \in Attempt : identity'[i] = "verified" => identity[i] = "verified",
         \A i \in Attempt : IsLive(i) /\ i \in upstream => i \in upstream',
         \A i \in Attempt : identity[i] = "verified" => key'[i] = key[i],
         \A b \in Actor : pc'[b] \in {"answer", "finish"} =>
           /\ pc'[b] = pc[b] /\ at'[b] = at[b] /\ got'[b] = got[b]
           /\ IsLive(Mailbox(b)) => key'[Mailbox(b)] = key[Mailbox(b)]
  PROVE  Served'
<1>1. Served
  BY InvIs
<1>2. ASSUME NEW i \in Attempt, identity'[i] = "verified"
      PROVE  ServedHas(i)'
  <2>1. identity[i] = "verified" /\ key'[i] = key[i]
    BY <1>2
  <2>2. i \in upstream'
    BY <1>1, <2>1 DEF Served, IsLive, Live
  <2>3. QED
    BY <2>1, <2>2, VerifiedKept
<1>3. ASSUME NEW b \in Actor, pc'[b] \in {"answer", "finish"}, IsLive(Mailbox(b))'
      PROVE  /\ pc'[b] = pc[b] /\ got'[b] = got[b] /\ Mailbox(b)' = Mailbox(b)
             /\ IsLive(Mailbox(b)) /\ key'[Mailbox(b)] = key[Mailbox(b)]
             /\ Mailbox(b) \in upstream => Mailbox(b) \in upstream'
  <2>1. pc'[b] = pc[b] /\ at'[b] = at[b] /\ got'[b] = got[b] /\ Forward(b)
    BY <1>3 DEF Forward
  <2>2. Mailbox(b)' = Mailbox(b) /\ Mailbox(b) \in Attempt
    BY <2>1, HereNow, AtStep
  <2>3. IsLive(Mailbox(b))
    BY <1>3, <2>2, LiveLaw DEF IsLive
  <2>4. QED
    BY <1>3, <2>1, <2>2, <2>3
<1>4. ASSUME NEW b \in Actor, pc'[b] = "answer", got'[b] = "ready", IsLive(Mailbox(b))'
      PROVE  Mailbox(b)' \in upstream' /\ key'[Mailbox(b)'] = b
  BY <1>1, <1>3, <1>4 DEF Served
<1>5. ASSUME NEW b \in Actor, pc'[b] = "finish", IsLive(Mailbox(b))'
      PROVE  Mailbox(b)' \in upstream' /\ key'[Mailbox(b)'] = "namespace"
  BY <1>1, <1>3, <1>5 DEF Served
<1>6. QED
  BY <1>2, <1>4, <1>5 DEF Served, ServedHas

\* Where neither the provider nor a key is touched.
LEMMA ServedSame ==
  ASSUME Inv, home # "gone", Lawful, UNCHANGED <<upstream, key>>,
         \A i \in Attempt : identity'[i] = "verified" => identity[i] = "verified",
         \A b \in Actor : pc'[b] \in {"answer", "finish"} =>
           pc'[b] = pc[b] /\ at'[b] = at[b] /\ got'[b] = got[b]
  PROVE  Served'
BY ServedKept

\* Where a key may be taken out of the namespace, and no mailbox is live.
LEMMA ServedNone ==
  ASSUME Inv, home # "gone", Lawful, \A i \in Attempt : ~IsLive(i),
         \A b \in Actor : pc'[b] \in {"answer", "finish"} => Forward(b) /\ at'[b] = at[b]
  PROVE  Served'
<1>1. \A i \in Attempt : ~IsLive(i)'
  BY LiveLaw DEF IsLive
<1>2. \A i \in Attempt : identity'[i] # "verified"
  BY <1>1 DEF IsLive, Live
<1>3. \A b \in Actor : pc'[b] \in {"answer", "finish"} => ~IsLive(Mailbox(b))'
  <2> SUFFICES ASSUME NEW b \in Actor, pc'[b] \in {"answer", "finish"}
               PROVE  ~IsLive(Mailbox(b))'
    OBVIOUS
  <2>1. Mailbox(b)' = Mailbox(b) /\ Mailbox(b) \in Attempt
    BY HereNow, AtStep
  <2>2. QED
    BY <1>1, <2>1 DEF IsLive
<1>4. QED
  BY <1>2, <1>3 DEF Served

LEMMA ServedWriting ==
  ASSUME Inv, home # "gone", Lawful, NEW a \in Actor, Writing(a)
  PROVE  Served'
<1>1. UNCHANGED <<upstream, key>> /\ Rests
  BY DEF Writing, Resting, Marking, Reviving, PuttingBack, Handing, Outside
<1>2. ASSUME NEW i \in Attempt, identity'[i] = "verified"
      PROVE  identity[i] = "verified"
  <2>1. ASSUME NEW n \in 1..created, NEW s \in {"failed", "unknown", "waiting"}, Marking(a, n, s)
        PROVE  identity'[i] = identity[i]
    <3>1. Marks(n, s)
      BY <2>1 DEF Marking
    <3>2. MarkOf[s] # "verified"
      BY DEF MarkOf
    <3>3. CASE i # belongs[n]
      BY <3>1, <3>3 DEF Marks
    <3>4. CASE i = belongs[n]
      BY <1>2, <3>1, <3>2, <3>4 DEF Marks, Finished
    <3>5. QED
      BY <3>3, <3>4
  <2>2. Resting \/ (\E n \in 1..created : Reviving(n) \/ PuttingBack(a, n) \/ Handing(a, n))
           => identity' = identity
    BY DEF Resting, Reviving, Revives, PuttingBack, Handing, Defers
  <2>3. QED
    BY <1>2, <2>1, <2>2 DEF Writing
<1>3. \A b \in Actor : pc'[b] \in {"answer", "finish"} =>
        pc'[b] = pc[b] /\ at'[b] = at[b] /\ got'[b] = got[b]
  BY <1>1 DEF Rests
<1>4. QED
  BY <1>1, <1>2, <1>3, ServedSame

\* The steps that go on, and write nothing about an identity.
LEMMA ServedGoing ==
  ASSUME Inv, home # "gone", Lawful, UNCHANGED <<upstream, key, identity>>,
         NEW a \in Actor, Others(a) \/ Rests, pc'[a] \notin {"answer", "finish"} \/ Rests
  PROVE  Served'
<1>1. \A b \in Actor : pc'[b] \in {"answer", "finish"} =>
        pc'[b] = pc[b] /\ at'[b] = at[b] /\ got'[b] = got[b]
  BY DEF Rests, Others
<1>2. QED
  BY <1>1, ServedSame

LEMMA ServedVerifying ==
  ASSUME Inv, home # "gone", NEW a \in Actor, NEW n \in 1..created, Verifying(a, n)
  PROVE  Served'
<1>1. /\ pc[a] = "finish" /\ at[a] = Step(n) /\ Rests /\ pc'[a] = "idle" /\ Forward(a)
      /\ Status(Step(n)) \in {"running", "unknown"} /\ ~Quarantined(Step(n))
      /\ home = "onboarding" /\ Verifiable(belongs[n])
      /\ jobs'[Step(n)].status = "succeeded"
      /\ identity'[belongs[n]] = "verified"
      /\ \A k \in Attempt : k # belongs[n] => identity'[k] = identity[k]
      /\ step' = "verified" /\ UNCHANGED Outside
  BY DEF Verifying, Forward
<1>2. n \in Attempt /\ Here(a) = n /\ Mailbox(a) = belongs[n] /\ belongs[n] \in Attempt
  BY <1>1, InvIs, AttemptMade, StepName DEF Here, Mailbox
<1>3. Lawful /\ Served /\ OpenHouse /\ OneOpen /\ Wanted
  BY <1>1, VerifyingLawful, InvIs DEF OpenHouse
<1>4. IsLive(belongs[n]) /\ Unset(n) /\ Active(n)
  BY <1>1 DEF Verifiable, IsLive, Live, Unset, Active, Unsettled
<1>5. belongs[n] \in upstream /\ key[belongs[n]] = "namespace" /\ consent
  BY <1>1, <1>2, <1>3, <1>4 DEF Served, Wanted
<1>6. ASSUME NEW m \in Attempt, Now(Step(m)) \in Unsettled
      PROVE  FALSE
  <2>1. Unset(m)
    BY <1>3, <1>6, UnsetLaw
  <2>2. m = n
    BY <1>2, <1>3, <1>4, <2>1 DEF OneOpen
  <2>3. QED
    BY <1>1, <1>6, <2>2 DEF Now, Unsettled
<1>7. ASSUME NEW i \in Attempt, identity'[i] = "verified"
      PROVE  i = belongs[n]
  BY <1>1, <1>7, VerifiedIsAlone
<1>8. ASSUME NEW b \in Actor, pc'[b] \in {"answer", "finish"}
      PROVE  ~IsLive(Mailbox(b))'
  <2>1. pc'[b] = pc[b] /\ at'[b] = at[b] /\ b # a /\ Forward(b)
    BY <1>1, <1>8 DEF Rests, Forward
  <2>2. a = b
    BY <1>1, <1>2, <1>4, <2>1, LiveIsAlone
  <2>3. QED
    BY <2>1, <2>2
<1>9. upstream' = upstream /\ key' = key /\ home' = "onboarding" /\ consent'
  BY <1>1, <1>5 DEF Outside
<1>10. \A m \in Attempt : ~Unset(m)'
  BY <1>6 DEF Unset, Status, Now
<1>11. \A i \in Attempt : identity'[i] = "verified" => ServedHas(i)'
  BY <1>1, <1>5, <1>7, <1>9, <1>10 DEF ServedHas
<1>12. QED
  BY <1>8, <1>11 DEF Served, ServedHas

LEMMA ServedInstalling ==
  ASSUME Inv, home # "gone", NEW a \in Actor, Installing(a)
  PROVE  Served'
<1>1. /\ pc[a] = "answer" /\ got[a] = "ready" /\ pc'[a] = "finish" /\ at'[a] = at[a] /\ Others(a)
      /\ \A k \in Attempt :
           key'[k] = IF k = Mailbox(a) /\ key[k] = a THEN "namespace"
                     ELSE IF key[k] = "namespace" THEN "lost" ELSE key[k]
      /\ UNCHANGED <<identity, upstream>> /\ Forward(a)
  BY DEF Installing, Forward
<1>2. Lawful /\ Served /\ Mailbox(a) \in Attempt
  BY <1>1, InstallingLawful, InvIs, AtStep
<1>3. \A i \in Attempt : identity'[i] # "verified"
  BY <1>1, VerifiedIsAlone
<1>4. ASSUME NEW b \in Actor, pc'[b] \in {"answer", "finish"}, IsLive(Mailbox(b))'
      PROVE  b = a
  <2> SUFFICES ASSUME b # a PROVE FALSE
    OBVIOUS
  <2>1. pc'[b] = pc[b] /\ at'[b] = at[b] /\ Forward(b)
    BY <1>1, <1>4 DEF Others, Forward
  <2>2. Mailbox(b)' = Mailbox(b)
    BY <1>2, <2>1, HereNow
  <2>3. IsLive(Mailbox(b))
    BY <1>1, <1>4, <2>2 DEF IsLive
  <2>4. QED
    BY <1>1, <2>1, <2>3, LiveIsAlone
<1>5. ASSUME IsLive(Mailbox(a))'
      PROVE  Mailbox(a)' \in upstream' /\ key'[Mailbox(a)'] = "namespace"
  <2>1. Mailbox(a)' = Mailbox(a)
    BY <1>1, <1>2, HereNow
  <2>2. IsLive(Mailbox(a))
    BY <1>1, <1>5, <2>1 DEF IsLive
  <2>3. Mailbox(a) \in upstream /\ key[Mailbox(a)] = a
    BY <1>1, <1>2, <2>2 DEF Served
  <2>4. QED
    BY <1>1, <1>2, <2>1, <2>3
<1>6. QED
  BY <1>1, <1>3, <1>4, <1>5 DEF Served

LEMMA ServedCalling ==
  ASSUME Inv, NEW a \in Actor, NEW n \in 1..created, Calling(a, n)
  PROVE  Served'
<1>1. /\ OpenHouse /\ home # "gone" /\ Forward(a) /\ Mailbox(a) = belongs[n]
      /\ UNCHANGED <<identity, belongs>> /\ Others(a) /\ at'[a] = at[a]
      /\ pc'[a] \in {"call", "answer"}
      /\ pc'[a] = "answer" /\ got'[a] = "ready" => belongs[n] \in upstream' /\ key'[belongs[n]] = a
  BY CallingIs DEF Calling
<1>2. \A i \in Attempt : identity'[i] # "verified"
  BY <1>1, VerifiedIsAlone
<1>3. \A b \in Actor : Forward(b) => b = a
  BY <1>1, InForward
<1>4. \A b \in Actor : pc'[b] \in {"answer", "finish"} => b = a
  BY <1>1, <1>3 DEF Others, Forward
<1>5. Mailbox(a)' = belongs[n]
  BY <1>1 DEF Mailbox, Here
<1>6. QED
  BY <1>1, <1>2, <1>4, <1>5 DEF Served

LEMMA ServedRazing ==
  ASSUME Inv, home # "gone", NEW a \in Actor, NEW n \in 1..created, Razing(a, n)
  PROVE  Served'
<1>1. /\ pc[a] = "raze" /\ pc'[a] = "close" /\ Forward(a) /\ Backward(a) /\ Others(a)
      /\ at[a] = Step(n) /\ UNCHANGED identity
      /\ upstream' = upstream \/ upstream' = upstream \ {belongs[n]}
  BY DEF Razing, Forward, Backward
<1>2. Lawful
  BY RazingLawful
<1>3. Mailbox(a) = belongs[n] /\ ~IsLive(belongs[n])
  BY <1>1, InvIs, AttemptMade, StepName DEF Here, Mailbox, Claims
<1>4. \A i \in Attempt : identity[i] # "verified"
  BY <1>1, VerifiedIsAlone
<1>5. ASSUME NEW b \in Actor, pc'[b] \in {"answer", "finish"}
      PROVE  /\ pc'[b] = pc[b] /\ at'[b] = at[b] /\ got'[b] = got[b]
             /\ ~IsLive(Mailbox(b))
  <2>1. b # a
    BY <1>1, <1>5
  <2>2. pc'[b] = pc[b] /\ at'[b] = at[b] /\ got'[b] = got[b] /\ Forward(b)
    BY <1>1, <1>5, <2>1 DEF Others, Forward
  <2>3. ~IsLive(Mailbox(b))
    BY <1>1, <2>1, <2>2, LiveIsAlone
  <2>4. QED
    BY <2>2, <2>3
<1>6. \A i \in Attempt : IsLive(i) /\ i \in upstream => i \in upstream'
  BY <1>1, <1>3
<1>7. QED
  BY <1>1, <1>2, <1>4, <1>5, <1>6, ServedKept

LEMMA ServedDepriving ==
  ASSUME Inv, home # "gone", NEW a \in Actor, NEW j \in Teardown, Depriving(a, j)
  PROVE  Served'
<1>1. /\ pc[a] = "clean" /\ at[a] = j /\ UNCHANGED <<identity, key>>
      /\ Rests \/ (Others(a) /\ pc'[a] = "sweep")
      /\ upstream' = upstream \/ upstream' = upstream \ {Mailbox(a)}
  BY DEF Depriving
<1>2. Lawful /\ Parents /\ Handed
  BY DeprivingLawful, InvIs
<1>3. ~IsLive(Mailbox(a))
  BY <1>1, <1>2 DEF Parents, Handed, CleanJob, Mailbox, Here
<1>4. \A i \in Attempt : IsLive(i) /\ i \in upstream => i \in upstream'
  BY <1>1, <1>3
<1>5. \A b \in Actor : pc'[b] \in {"answer", "finish"} =>
        pc'[b] = pc[b] /\ at'[b] = at[b] /\ got'[b] = got[b]
  BY <1>1 DEF Rests, Others
<1>6. QED
  BY <1>1, <1>2, <1>4, <1>5, ServedKept

\* While one mailbox is being disconnected, no other is live.
LEMMA LeavingIsAlone ==
  ASSUME Inv, home # "gone", NEW i \in Attempt, identity[i] = "disconnecting",
         NEW k \in Attempt
  PROVE  ~IsLive(k)
BY InvIs DEF OneLeft, IsLive, Live

LEMMA ServedSweeping ==
  ASSUME Inv, home # "gone", NEW a \in Actor, NEW j \in CleanJob, Lawful,
         (Sweeping(a, j) /\ j \in Teardown) \/ (Unstaging(a, j) /\ j \in SecretJob)
  PROVE  Served'
<1>1. /\ Rests /\ upstream' = upstream
      /\ \A k \in Attempt : identity'[k] = identity[k] \/ Finished(k)
  BY DEF Sweeping, Unstaging
<1>2. \A b \in Actor : pc'[b] \in {"answer", "finish"} =>
        pc'[b] = pc[b] /\ at'[b] = at[b] /\ got'[b] = got[b] /\ Forward(b)
  BY <1>1 DEF Rests, Forward
<1>3. \A i \in Attempt : identity'[i] = "verified" => identity[i] = "verified"
  BY <1>1 DEF Finished
<1>4. CASE UNCHANGED key
  BY <1>1, <1>2, <1>3, <1>4, ServedSame
<1>5. CASE \A i \in Attempt : ~IsLive(i)
  BY <1>2, <1>5, ServedNone
<1>6. UNCHANGED key \/ \A i \in Attempt : ~IsLive(i)
  <2>1. CASE Sweeping(a, j)
    BY <2>1, LeavingIsAlone DEF Sweeping
  <2>2. CASE Unstaging(a, j) /\ j \in SecretJob
    <3> SUFFICES ASSUME NEW i \in Attempt, IsLive(i) PROVE FALSE
      OBVIOUS
    <3>1. pc[a] = "clean" /\ at[a] = j /\ OpenHouse
      BY <2>2, LiveIsOnboarding DEF Unstaging
    <3>2. Status(j) \in {"pending", "running", "unknown"}
      BY <2>2, <3>1, InvIs DEF Secrets
    <3>3. identity[belongs[j[2]]] = "disconnecting"
      BY <2>2, <3>1, <3>2, InvIs DEF Secrets
    <3>4. belongs[j[2]] \in Attempt
      BY <2>2, <3>1, CleanHand DEF Mailbox, Here, CleanJob
    <3>5. QED
      BY <3>3, <3>4, LeavingIsAlone
  <2>3. QED
    BY <2>1, <2>2
<1>7. QED
  BY <1>4, <1>5, <1>6

LEMMA ServedClosing ==
  ASSUME Inv, home # "gone", NEW a \in Actor, NEW n \in 1..created, Closing(a, n)
  PROVE  Served'
<1>1. Rests /\ UNCHANGED <<upstream, key>>
      /\ \A k \in Attempt : identity'[k] = identity[k] \/ Finished(k)
  BY DEF Closing, Outside
<1>2. \A i \in Attempt : identity'[i] = "verified" => identity[i] = "verified"
  BY <1>1 DEF Finished
<1>3. \A b \in Actor : pc'[b] \in {"answer", "finish"} =>
        pc'[b] = pc[b] /\ at'[b] = at[b] /\ got'[b] = got[b]
  BY <1>1 DEF Rests
<1>4. Lawful
  BY ClosingLawful
<1>5. QED
  BY <1>1, <1>2, <1>3, <1>4, ServedSame

\* The namespace and its keys are taken away when nobody is at home any more.
LEMMA ServedUnmaking ==
  ASSUME Inv, home # "gone", NEW a \in Actor, Clearing(a) \/ Unmaking(a)
  PROVE  Served'
<1>1. CASE Clearing(a)
  <2>1. pc[a] = "clean" /\ at[a] \in NamespaceCleanup /\ Rests
    BY <1>1 DEF Clearing
  <2>2. home # "onboarding"
    BY <2>1, InvIs DEF Makers, Handed
  <2>3. \A i \in Attempt : ~IsLive(i)
    BY <2>2, LiveIsOnboarding
  <2>4. \A b \in Actor : pc'[b] \in {"answer", "finish"} => Forward(b) /\ at'[b] = at[b]
    BY <2>1 DEF Rests, Forward
  <2>5. QED
    BY <1>1, <2>3, <2>4, ServedNone, ClearingLawful
<1>2. CASE Unmaking(a)
  <2>1. pc[a] = "unmake" /\ pc'[a] \in {"unmade", "kept"} /\ Others(a)
    BY <1>2 DEF Unmaking
  <2>2. home # "onboarding"
    BY <2>1, InvIs DEF Makers
  <2>3. \A i \in Attempt : ~IsLive(i)
    BY <2>2, LiveIsOnboarding
  <2>4. \A b \in Actor : pc'[b] \in {"answer", "finish"} => Forward(b) /\ at'[b] = at[b]
    BY <2>1 DEF Others, Forward
  <2>5. QED
    BY <1>2, <2>3, <2>4, ServedNone, HousingLawful
<1>3. QED
  BY <1>1, <1>2

-----------------------------------------------------------------------------
(* The order in an open house *)

\* Nobody begins at a mailbox, and who works at one stays there.
Steady ==
  \A a \in Actor :
    /\ Forward(a)' => Forward(a) /\ at'[a] = at[a]
    /\ Backward(a)' => (Backward(a) \/ Forward(a)) /\ at'[a] = at[a]

LEMMA HandsSteady ==
  ASSUME Inv, Lawful, OpenHouse, Steady,
         \A a \in Actor : Forward(a)' =>
           Now(at[a]) = Status(at[a]) /\ (NowQuarantined(at[a]) <=> Quarantined(at[a]))
  PROVE  Hands'
<1>1. Hands
  BY InvIs
<1>2. ASSUME NEW a \in Actor, Forward(a)'
      PROVE  \/ a = Worker /\ Now(at'[a]) = "running"
             \/ Now(at'[a]) = "unknown" /\ (a = Worker => NowQuarantined(at'[a]))
  <2>1. Forward(a) /\ at'[a] = at[a]
    BY <1>2 DEF Steady
  <2>2. \/ a = Worker /\ Status(at[a]) = "running"
        \/ Status(at[a]) = "unknown" /\ (a = Worker => Quarantined(at[a]))
    BY <1>1, <2>1 DEF Hands
  <2>3. QED
    BY <1>2, <2>1, <2>2
<1>3. ASSUME NEW a \in Actor, NEW b \in Actor, Forward(a)', Forward(b)'
      PROVE  a = b
  BY <1>1, <1>3 DEF Steady, Hands
<1>4. ASSUME NEW a \in Actor, NEW b \in Actor, Backward(a)', Forward(b)', Mailbox(a)' = Mailbox(b)'
      PROVE  a = b
  <2>1. Mailbox(a)' = Mailbox(a) /\ Mailbox(b)' = Mailbox(b)
    BY <1>4, HereNow DEF Steady
  <2>2. (Backward(a) \/ Forward(a)) /\ Forward(b)
    BY <1>4 DEF Steady
  <2>3. QED
    BY <1>1, <1>4, <2>1, <2>2 DEF Hands
<1>5. QED
  BY <1>2, <1>3, <1>4 DEF Hands, Status, Now, Quarantined, NowQuarantined

LEMMA UntouchedSteady ==
  ASSUME Inv, Lawful, OpenHouse, Steady,
         \A j \in SecretJob : Now(j) # "none" /\ Status(j) = "none" =>
           \A a \in Actor : Forward(a)' => Mailbox(a) # belongs[j[2]],
         \A j \in Teardown : Now(j) # "none" =>
           \/ /\ Status(j) # "none" /\ jobs'[j].parent = jobs[j].parent
              /\ Status(j) = "pending" /\ Forward(Worker)' => Now(j) = "pending"
           \/ /\ Now(j) = "pending" /\ jobs'[j].parent = j[2]
              /\ \A a \in Actor : Forward(a)' /\ Mailbox(a) = belongs[j[2]] => a = Worker
  PROVE  Untouched'
<1>1. Untouched /\ belongs' = belongs
  BY InvIs, LawfulIs
<1>2. ASSUME NEW a \in Actor, Forward(a)'
      PROVE  Forward(a) /\ Mailbox(a)' = Mailbox(a)
  BY <1>2, HereNow DEF Steady
<1>3. ASSUME NEW j \in SecretJob, NEW a \in Actor, Now(j) # "none", Forward(a)'
      PROVE  Mailbox(a)' # belongs'[j[2]]
  <2>1. CASE Status(j) = "none"
    BY <1>1, <1>2, <1>3, <2>1
  <2>2. CASE Status(j) # "none"
    BY <1>1, <1>2, <1>3, <2>2 DEF Untouched
  <2>3. QED
    BY <2>1, <2>2
<1>4. ASSUME NEW j \in Teardown, NEW a \in Actor, Now(j) # "none", jobs'[j].parent # None,
             Forward(a)', Mailbox(a)' = belongs'[jobs'[j].parent]
      PROVE  jobs'[j].parent = j[2] /\ a = Worker /\ Now(j) = "pending"
  <2>1. CASE /\ Status(j) # "none" /\ jobs'[j].parent = jobs[j].parent
             /\ Status(j) = "pending" /\ Forward(Worker)' => Now(j) = "pending"
    <3>1. Forward(a) /\ Mailbox(a) = belongs[jobs[j].parent] /\ jobs[j].parent # None
      BY <1>1, <1>2, <1>4, <2>1
    <3>2. jobs[j].parent = j[2] /\ a = Worker /\ Status(j) = "pending"
      BY <1>1, <2>1, <3>1 DEF Untouched
    <3>3. QED
      BY <1>4, <2>1, <3>2
  <2>2. CASE /\ Now(j) = "pending" /\ jobs'[j].parent = j[2]
             /\ \A b \in Actor : Forward(b)' /\ Mailbox(b) = belongs[j[2]] => b = Worker
    BY <1>1, <1>2, <1>4, <2>2
  <2>3. QED
    BY <1>4, <2>1, <2>2
<1>5. QED
  BY <1>3, <1>4 DEF Untouched, Status, Now

LEMMA SecretsKept ==
  ASSUME Inv, Lawful, OpenHouse,
         \A j \in SecretJob : Now(j) \in {"pending", "running", "unknown"} =>
           \/ Status(j) \in {"pending", "running", "unknown"}
           \/ identity[belongs[j[2]]] = "disconnecting",
         \A a \in Actor : pc'[a] = "clean" /\ at'[a] \in SecretJob =>
           \/ pc[a] = "clean" /\ at'[a] = at[a] /\ Now(at[a]) = Status(at[a])
           \/ Now(at'[a]) = IF a = Worker THEN "running" ELSE "unknown",
         \A a \in Actor : pc'[a] \in {"clean", "sweep"} /\ at'[a] \in Teardown =>
           (pc[a] \in {"clean", "sweep"} /\ at'[a] = at[a]) \/ Now(at'[a]) # "pending"
  PROVE  Secrets'
<1>1. Secrets /\ Handed /\ belongs' = belongs /\ home # "gone"
  BY InvIs, LawfulIs
<1>2. ASSUME NEW j \in SecretJob, Now(j) \in {"pending", "running", "unknown"}
      PROVE  identity'[belongs'[j[2]]] = "disconnecting"
  <2>1. identity[belongs[j[2]]] = "disconnecting"
    BY <1>1, <1>2 DEF Secrets
  <2>2. j[2] \in 1..created
    <3>1. CleanTurn(j)
      BY LawfulIs DEF CleanJob
    <3>2. QED
      BY <1>2, <3>1, InvIs DEF CleanTurn, Numbers, CleanJob
  <2>3. belongs[j[2]] \in Attempt
    BY <2>2, InvIs, AttemptMade
  <2>4. ~Finished(belongs[j[2]])
    BY <1>2 DEF Finished, Closable, Now
  <2>5. QED
    BY <1>1, <2>1, <2>3, <2>4, LawfulIs DEF IdLaw, IsLive, Live
<1>3. ASSUME NEW a \in Actor, pc'[a] = "clean", at'[a] \in SecretJob
      PROVE  Now(at'[a]) = IF a = Worker THEN "running" ELSE "unknown"
  BY <1>1, <1>3 DEF Secrets
<1>4. ASSUME NEW a \in Actor, pc'[a] \in {"clean", "sweep"}, at'[a] \in Teardown
      PROVE  Now(at'[a]) # "pending"
  <2> SUFFICES ASSUME pc[a] \in {"clean", "sweep"}, at'[a] = at[a] PROVE Now(at[a]) # "pending"
    BY <1>4
  <2>1. Status(at[a]) # "pending" /\ Status(at[a]) # "none"
    BY <1>1, <1>4 DEF Secrets, Handed
  <2>2. CleanTurn(at[a])
    BY <1>4, LawfulIs DEF CleanJob
  <2>3. QED
    BY <2>1, <2>2 DEF CleanTurn
<1>5. QED
  BY <1>2, <1>3, <1>4 DEF Secrets, Status, Now

LEMMA WantedSame ==
  ASSUME Inv, Lawful, OpenHouse, step' = step,
         \A k \in Attempt : identity'[k] = identity[k] \/ Finished(k)
  PROVE  Wanted'
<1> SUFFICES ASSUME NEW n \in Attempt, Now(Step(n)) \in Unsettled
             PROVE  identity'[belongs[n]] = identity[belongs[n]]
  BY WantedKept
<1>1. Unset(n)
  BY UnsetLaw
<1>2. Status(Step(n)) # "none" /\ home # "gone"
  BY <1>1, InvIs DEF Unset, Unsettled
<1>3. n \in 1..created
  BY <1>2, InvIs, StaysThere, StepName
<1>4. belongs[n] \in Attempt
  BY <1>3, InvIs, AttemptMade
<1>5. QED
  BY <1>4, OpenIsNotFinished

LEMMA OrderedIs ==
  ASSUME Inv, Lawful, OpenHouse, Hands', Wanted', Untouched', Secrets'
  PROVE  Ordered'
BY OneOpenKept, StepsKept DEF Ordered

\* Where no tear-down is touched.
LEMMA OrderedMaking ==
  ASSUME Inv, Lawful, OpenHouse, Steady, Wanted',
         \A j \in CleanJob : jobs'[j] = jobs[j],
         \A a \in Actor : Forward(a)' =>
           Now(at[a]) = Status(at[a]) /\ (NowQuarantined(at[a]) <=> Quarantined(at[a])),
         \A a \in Actor : pc'[a] \in {"clean", "sweep"} => pc'[a] = pc[a] /\ at'[a] = at[a]
  PROVE  Ordered'
<1>1. Hands'
  BY HandsSteady
<1>2. \A j \in CleanJob : Now(j) = Status(j) /\ jobs'[j].parent = jobs[j].parent
  BY DEF Now, Status
<1>3. Untouched'
  BY <1>2, UntouchedSteady DEF CleanJob
<1>4. Secrets'
  BY <1>2, SecretsKept DEF CleanJob
<1>5. QED
  BY <1>1, <1>3, <1>4, OrderedIs

LEMMA OrderedSame ==
  ASSUME Inv, Lawful, OpenHouse, Steady, UNCHANGED <<identity, step>>,
         \A j \in StepJob \cup CleanJob : jobs'[j] = jobs[j],
         \A a \in Actor : pc'[a] \in {"clean", "sweep"} => pc'[a] = pc[a] /\ at'[a] = at[a]
  PROVE  Ordered'
<1>1. Wanted'
  BY WantedSame
<1>2. ASSUME NEW a \in Actor, Forward(a)'
      PROVE  Now(at[a]) = Status(at[a]) /\ (NowQuarantined(at[a]) <=> Quarantined(at[a]))
  <2>1. Forward(a)
    BY <1>2 DEF Steady
  <2>2. at[a] \in StepJob
    BY <2>1, InvIs DEF Where
  <2>3. QED
    BY <2>2 DEF Now, Status, NowQuarantined, Quarantined
<1>3. QED
  BY <1>1, <1>2, OrderedMaking

LEMMA RestsSteady ==
  ASSUME Rests
  PROVE  /\ Steady
         /\ \A a \in Actor : pc'[a] \in {"clean", "sweep"} => pc'[a] = pc[a] /\ at'[a] = at[a]
BY DEF Rests, Steady, Forward, Backward

LEMMA OthersSteady ==
  ASSUME NEW a \in Actor, Others(a), at'[a] = at[a],
         Forward(a)' => Forward(a), Backward(a)' => Forward(a) \/ Backward(a),
         pc'[a] \notin {"clean", "sweep"}
  PROVE  /\ Steady
         /\ \A b \in Actor : pc'[b] \in {"clean", "sweep"} => pc'[b] = pc[b] /\ at'[b] = at[b]
BY DEF Others, Steady, Forward, Backward

\* Who puts down the only job that is open leaves nobody at work.
LEMMA NobodyLeft ==
  ASSUME Inv, OpenHouse, NEW a \in Actor, Forward(a), Rests, pc'[a] = "idle",
         NEW n \in Attempt, at[a] = Step(n)
  PROVE  /\ \A b \in Actor : ~Forward(b)'
         /\ \A m \in Attempt : Unset(m) => m = n
<1>1. OneOpen /\ Unset(Here(a)) /\ Here(a) \in Attempt /\ Here(a) = n
  BY InForward, InvIs, StepName DEF Here
<1>2. ASSUME NEW b \in Actor, Forward(b)' PROVE FALSE
  <2>1. Forward(b)
    BY <1>2 DEF Rests, Forward
  <2>2. b = a
    BY <2>1, InForward
  <2>3. QED
    BY <1>2, <2>2 DEF Forward
<1>3. QED
  BY <1>1, <1>2 DEF OneOpen

LEMMA OrderedResting ==
  ASSUME Inv, home # "gone", OpenHouse, Resting
  PROVE  Ordered'
<1>1. Lawful /\ Rests /\ UNCHANGED <<jobs, identity, step>>
  BY RestingLawful DEF Resting
<1>2. QED
  BY <1>1, RestsSteady, OrderedSame

LEMMA OrderedMarking ==
  ASSUME Inv, home # "gone", OpenHouse, NEW a \in Actor, NEW n \in 1..created,
         NEW s \in {"failed", "unknown", "waiting"}, Marking(a, n, s)
  PROVE  Ordered'
<1>1. n \in Attempt /\ belongs[n] \in Attempt
  BY InvIs, AttemptMade
<1>2. /\ Lawful /\ Marks(n, s) /\ JobsBut({Step(n)}) /\ Rests /\ pc'[a] = "idle"
      /\ Forward(a) /\ at[a] = Step(n)
  BY MarkingLawful DEF Marking
<1>3. /\ \A b \in Actor : ~Forward(b)'
      /\ \A m \in Attempt : Unset(m) => m = n
  BY <1>1, <1>2, NobodyLeft
<1>4. ASSUME NEW m \in Attempt, Now(Step(m)) \in Unsettled, ~NowQuarantined(Step(m))
      PROVE  /\ step' \in InProgress \/ step' = step
             /\ identity'[belongs[m]] \in {identity[belongs[m]], "waiting", "unknown"}
  <2>1. m = n
    BY <1>2, <1>3, <1>4, UnsetLaw
  <2>2. Now(Step(n)) = s
    BY <1>2 DEF Marks, Now
  <2>3. s \in {"unknown", "waiting"}
    BY <1>4, <2>1, <2>2 DEF Unsettled
  <2>4. MarkOf[s] \in {"unknown", "waiting"} /\ StepOf[s] \in InProgress
    BY <2>3 DEF MarkOf, StepOf, InProgress
  <2>5. ~Finished(belongs[n])
    BY <1>4, <2>1, OpenIsNotFinished
  <2>6. QED
    BY <1>2, <2>1, <2>4, <2>5 DEF Marks
<1>5. Wanted'
  BY <1>2, <1>4, WantedKept
<1>6. \A j \in CleanJob : jobs'[j] = jobs[j]
  <2>1. ASSUME NEW j \in CleanJob PROVE j \in JobId /\ j # Step(n)
    BY <1>1, <2>1, Kinds, StepName DEF CleanJob
  <2>2. QED
    BY <1>2, <2>1 DEF JobsBut
<1>7. QED
  BY <1>2, <1>3, <1>5, <1>6, RestsSteady, OrderedMaking

LEMMA OrderedPuttingBack ==
  ASSUME Inv, home # "gone", OpenHouse, NEW a \in Actor, NEW n \in 1..created, PuttingBack(a, n)
  PROVE  Ordered'
<1>1. n \in Attempt
  BY InvIs, AttemptMade
<1>2. /\ Lawful /\ JobsBut({Step(n)}) /\ Rests /\ pc'[a] = "idle"
      /\ Forward(a) /\ at[a] = Step(n) /\ UNCHANGED <<identity, step>>
  BY PuttingBackLawful DEF PuttingBack
<1>3. \A b \in Actor : ~Forward(b)'
  BY <1>1, <1>2, NobodyLeft
<1>4. Wanted'
  BY <1>2, WantedSame
<1>5. \A j \in CleanJob : jobs'[j] = jobs[j]
  <2>1. ASSUME NEW j \in CleanJob PROVE j \in JobId /\ j # Step(n)
    BY <1>1, <2>1, Kinds, StepName DEF CleanJob
  <2>2. QED
    BY <1>2, <2>1 DEF JobsBut
<1>6. QED
  BY <1>2, <1>3, <1>4, <1>5, RestsSteady, OrderedMaking

LEMMA OrderedVerifying ==
  ASSUME Inv, home # "gone", OpenHouse, NEW a \in Actor, NEW n \in 1..created, Verifying(a, n)
  PROVE  Ordered'
<1>1. n \in Attempt
  BY InvIs, AttemptMade
<1>2. /\ Lawful /\ JobsBut({Step(n)}) /\ Rests /\ pc'[a] = "idle"
      /\ Forward(a) /\ at[a] = Step(n) /\ Now(Step(n)) = "succeeded"
  BY VerifyingLawful DEF Verifying, Forward, Now
<1>3. /\ \A b \in Actor : ~Forward(b)'
      /\ \A m \in Attempt : Unset(m) => m = n
  BY <1>1, <1>2, NobodyLeft
<1>4. \A m \in Attempt : Now(Step(m)) \notin Unsettled
  <2>1. ASSUME NEW m \in Attempt, Now(Step(m)) \in Unsettled PROVE FALSE
    <3>1. m = n
      BY <1>2, <1>3, <2>1, UnsetLaw
    <3>2. QED
      BY <1>2, <2>1, <3>1 DEF Unsettled
  <2>2. QED
    BY <2>1
<1>5. Wanted'
  BY <1>2, <1>4, WantedKept
<1>6. \A j \in CleanJob : jobs'[j] = jobs[j]
  <2>1. ASSUME NEW j \in CleanJob PROVE j \in JobId /\ j # Step(n)
    BY <1>1, <2>1, Kinds, StepName DEF CleanJob
  <2>2. QED
    BY <1>2, <2>1 DEF JobsBut
<1>7. QED
  BY <1>2, <1>3, <1>5, <1>6, RestsSteady, OrderedMaking

LEMMA OrderedGoing ==
  ASSUME Inv, home # "gone", OpenHouse, NEW a \in Actor, NEW n \in 1..created,
         \/ a = Worker /\ Entering
         \/ Installing(a) \/ Undoing(a, n) \/ Calling(a, n)
  PROVE  Ordered'
<1>1. Lawful
  BY EnteringLawful, InstallingLawful, UndoingLawful, CallingLawful
<1>2. /\ Others(a) /\ at'[a] = at[a] /\ UNCHANGED <<jobs, identity, step>>
      /\ pc[a] \in {"gate", "call", "answer", "finish"}
      /\ pc'[a] \in {"call", "answer", "finish", "raze"}
  BY DEF Entering, Installing, Undoing, Calling
<1>3. Forward(a) /\ pc'[a] \notin {"clean", "sweep"}
  BY <1>2 DEF Forward
<1>4. QED
  BY <1>1, <1>2, <1>3, OthersSteady, OrderedSame

LEMMA OrderedNamespace ==
  ASSUME Inv, home # "gone", OpenHouse, NEW a \in Actor,
         \/ Clearing(a) \/ Housing(a) \/ Unhousing(a) \/ Unmaking(a)
         \/ Refusing(a) \/ Housed(a) \/ Unhoused(a)
  PROVE  Ordered'
<1>1. Lawful
  BY ClearingLawful, HousingLawful, RefusingLawful, UnhousedLawful
<1>2. UNCHANGED <<identity, step>>
  BY DEF Clearing, Housing, Unhousing, Unmaking, Refusing, Housed, Unhoused, MailSame
<1>3. \A j \in StepJob \cup CleanJob : jobs'[j] = jobs[j]
  <2>1. Building(a) => at[a] \in Maker
    BY InvIs DEF Where
  <2>2. /\ at[a] \in Maker \cup NamespaceCleanup
        /\ Unhoused(a) => at[a] \in Maker
    BY <2>1 DEF Clearing, Housing, Unhousing, Unmaking, Refusing, Housed, Unhoused, Building
  <2>3. ASSUME NEW j \in StepJob \cup CleanJob
        PROVE  j \in JobId /\ j # at[a] /\ (at[a] \in Maker => j # LateNamespace(at[a]))
    BY <2>2, <2>3, Kinds DEF CleanJob
  <2>4. CASE Housing(a) \/ Unhousing(a) \/ Unmaking(a)
    BY <2>4 DEF Housing, Unhousing, Unmaking
  <2>5. CASE Clearing(a) \/ Refusing(a) \/ Housed(a)
    BY <2>3, <2>5 DEF Clearing, Refusing, Housed, JobsBut
  <2>6. CASE Unhoused(a)
    BY <2>2, <2>3, <2>6 DEF Unhoused, JobsBut
  <2>7. QED
    BY <2>4, <2>5, <2>6
<1>4. /\ Steady
      /\ \A b \in Actor : pc'[b] \in {"clean", "sweep"} => pc'[b] = pc[b] /\ at'[b] = at[b]
  <2>1. CASE Clearing(a) \/ Refusing(a) \/ Housed(a) \/ Unhoused(a)
    BY <2>1, RestsSteady DEF Clearing, Refusing, Housed, Unhoused
  <2>2. CASE Housing(a) \/ Unhousing(a) \/ Unmaking(a)
    <3>1. /\ Others(a) /\ at'[a] = at[a]
          /\ pc'[a] \notin {"clean", "sweep"} /\ ~Forward(a)' /\ ~Backward(a)'
      BY <2>2 DEF Housing, Unhousing, Unmaking, Forward, Backward
    <3>2. QED
      BY <3>1, OthersSteady
  <2>3. QED
    BY <2>1, <2>2
<1>5. QED
  BY <1>1, <1>2, <1>3, <1>4, OrderedSame

\* Who comes to a mailbox that is wanted finds nobody else there.
LEMMA OrderedComing ==
  ASSUME Inv, home # "gone", OpenHouse, Lawful, NEW a \in Actor, NEW n \in 1..created,
         Active(n), Others(a), pc'[a] \in {"gate", "call"}, at'[a] = Step(n),
         IF a = Worker THEN Now(Step(n)) = "running" ELSE Now(Step(n)) = "unknown",
         \A b \in Actor : b # a => ~Forward(b),
         UNCHANGED <<identity, step>>, JobsBut({Step(n)})
  PROVE  Ordered'
<1>1. n \in Attempt /\ belongs' = belongs /\ belongs[n] \in Attempt
  BY InvIs, AttemptMade, LawfulIs
<1>2. IsLive(belongs[n])
  BY <1>1, InvIs DEF Wanted, Verifiable, IsLive, Live
<1>3. \A b \in Actor : Forward(b)' => b = a
  BY DEF Others, Forward
<1>4. Here(a)' = n /\ Mailbox(a)' = belongs[n]
  BY <1>1, StepName DEF Here, Mailbox
<1>5. ASSUME NEW j \in CleanJob
      PROVE  jobs'[j] = jobs[j] /\ j \in JobId /\ Now(j) = Status(j)
  <2>1. j \in JobId /\ j # Step(n)
    BY <1>1, <1>5, Kinds, StepName DEF CleanJob
  <2>2. QED
    BY <2>1 DEF JobsBut, Now, Status
<1>6. Hands'
  <2>1. ASSUME NEW b \in Actor, Backward(b)', Mailbox(b)' = belongs[n] PROVE FALSE
    <3>1. b # a
      BY <2>1 DEF Backward
    <3>2. Backward(b) /\ at'[b] = at[b]
      BY <2>1, <3>1 DEF Backward, Others
    <3>3. Mailbox(b) = belongs[n]
      BY <2>1, <3>2, HereNow
    <3>4. QED
      BY <1>2, <3>2, <3>3, InvIs DEF Claims
  <2>2. \/ a = Worker /\ Now(at'[a]) = "running"
        \/ Now(at'[a]) = "unknown" /\ a # Worker
    OBVIOUS
  <2>3. QED
    BY <1>3, <1>4, <2>1, <2>2 DEF Hands, Status, Now, Quarantined
<1>7. Untouched'
  <2>1. ASSUME NEW j \in SecretJob, Now(j) # "none" PROVE belongs[j[2]] # belongs[n]
    BY <1>2, <1>5, <2>1, InvIs DEF Parents, CleanJob
  <2>2. ASSUME NEW j \in Teardown, Now(j) # "none", jobs'[j].parent # None
        PROVE  belongs[jobs'[j].parent] # belongs[n]
    BY <1>2, <1>5, <2>2, InvIs DEF Parents, CleanJob
  <2>3. QED
    BY <1>1, <1>3, <1>4, <2>1, <2>2 DEF Untouched, Status, Now
<1>8. Wanted'
  BY WantedSame
<1>9. \A b \in Actor : pc'[b] \in {"clean", "sweep"} => pc[b] = pc'[b] /\ at'[b] = at[b]
  BY DEF Others
<1>10. Secrets'
  BY <1>5, <1>9, SecretsKept DEF CleanJob
<1>11. QED
  BY <1>6, <1>7, <1>8, <1>10, OrderedIs

LEMMA OrderedHanding ==
  ASSUME OneOperator, Inv, home # "gone", OpenHouse,
         NEW a \in Actor, NEW n \in 1..created, Handing(a, n)
  PROVE  Ordered'
<1> DEFINE w == WaitingCleanup(n)
<1>1. /\ n \in Attempt /\ w \in Teardown /\ w[2] = n /\ w \in JobId
  BY InvIs, AttemptMade, CleanName, Kinds
<1>2. /\ Lawful /\ Defers(n) /\ Rests /\ pc'[a] = "idle" /\ UNCHANGED <<identity, step>>
      /\ Quarantined(Step(n)) /\ Status(Step(n)) = "unknown"
  BY HandingLawful, HandedIsNotLive DEF Handing, Defers
<1>3. Steady
  BY <1>2, RestsSteady
<1>4. ASSUME NEW b \in Actor, Forward(b)'
      PROVE  Now(at[b]) = Status(at[b]) /\ (NowQuarantined(at[b]) <=> Quarantined(at[b]))
  <2>1. Forward(b)
    BY <1>3, <1>4 DEF Steady
  <2>2. at[b] \in StepJob
    BY <2>1, InvIs DEF Where
  <2>3. at[b] \in JobId /\ at[b] # w
    BY <1>1, <2>2, Kinds
  <2>4. CASE at[b] = Step(n)
    BY <1>2, <2>4 DEF Defers, Now, NowQuarantined, Quarantined
  <2>5. CASE at[b] # Step(n)
    BY <1>2, <2>3, <2>5 DEF Defers, JobsBut, Now, Status, NowQuarantined, Quarantined
  <2>6. QED
    BY <2>4, <2>5
<1>5. ASSUME NEW j \in CleanJob, j # w
      PROVE  jobs'[j] = jobs[j]
  <2>1. j \in JobId /\ j # Step(n)
    BY <1>1, <1>5, Kinds, StepName DEF CleanJob
  <2>2. QED
    BY <1>2, <1>5, <2>1 DEF Defers, JobsBut
<1>6. ASSUME NEW b \in Actor, Forward(b)', Mailbox(b) = belongs[n]
      PROVE  b = Worker
  <2>1. Forward(b) /\ b # a
    BY <1>2, <1>3, <1>6 DEF Steady, Forward
  <2>2. CASE pc[a] = "answer"
    <3>1. Forward(a)
      BY <2>2 DEF Forward
    <3>2. QED
      BY <2>1, <3>1, InForward
  <2>3. CASE pc[a] = "idle" /\ a # Worker
    BY <2>1, <2>3 DEF Actor, OneOperator
  <2>4. QED
    BY <2>2, <2>3 DEF Handing
<1>7. Hands'
  BY <1>2, <1>3, <1>4, HandsSteady
<1>8. ASSUME NEW j \in Teardown, Now(j) # "none"
      PROVE  \/ /\ Status(j) # "none" /\ jobs'[j].parent = jobs[j].parent
                /\ Status(j) = "pending" /\ Forward(Worker)' => Now(j) = "pending"
             \/ /\ Now(j) = "pending" /\ jobs'[j].parent = j[2]
                /\ \A b \in Actor : Forward(b)' /\ Mailbox(b) = belongs[j[2]] => b = Worker
  <2>1. CASE jobs'[j] = jobs[j]
    BY <1>8, <2>1 DEF Now, Status
  <2>2. CASE j = w /\ Status(w) = "none"
    BY <1>1, <1>2, <1>6, <2>2 DEF Defers, Now
  <2>3. QED
    BY <1>2, <1>5, <2>1, <2>2 DEF Defers, CleanJob
<1>9. \A j \in SecretJob : jobs'[j] = jobs[j]
  BY <1>1, <1>5, Kinds DEF CleanJob
<1>10. Untouched'
  BY <1>2, <1>3, <1>8, <1>9, UntouchedSteady DEF Now, Status
<1>11. Secrets'
  BY <1>2, <1>9, RestsSteady, SecretsKept DEF Now, Status
<1>12. Wanted'
  BY <1>2, WantedSame
<1>13. QED
  BY <1>2, <1>7, <1>10, <1>11, <1>12, OrderedIs

LEMMA OrderedRazing ==
  ASSUME Inv, home # "gone", OpenHouse, NEW a \in Actor, NEW n \in 1..created, Razing(a, n)
  PROVE  Ordered'
<1> DEFINE w == SecretCleanup(n)
<1>1. /\ n \in Attempt /\ w \in SecretJob /\ w[2] = n /\ w \in JobId
  BY InvIs, AttemptMade, CleanName, Kinds
<1>2. /\ Lawful /\ Others(a) /\ at'[a] = at[a] /\ pc[a] = "raze" /\ pc'[a] = "close"
      /\ at[a] = Step(n) /\ UNCHANGED <<identity, step>> /\ JobsBut({w})
      /\ jobs'[w] = jobs[w] \/ Status(w) = "none"
  BY RazingLawful DEF Razing
<1>3. Forward(a) /\ Backward(a) /\ ~Forward(a)' /\ pc'[a] \notin {"clean", "sweep"}
  BY <1>2 DEF Forward, Backward
<1>4. /\ Steady
      /\ \A b \in Actor : pc'[b] \in {"clean", "sweep"} => pc'[b] = pc[b] /\ at'[b] = at[b]
  BY <1>2, <1>3, OthersSteady
<1>5. \A b \in Actor : ~Forward(b)'
  <2>1. \A b \in Actor : Forward(b) => b = a
    BY <1>3, InForward
  <2>2. QED
    BY <1>3, <1>4, <2>1 DEF Steady
<1>6. identity[belongs[n]] = "disconnecting"
  <2>1. /\ Mailbox(a) = belongs[n]
        /\ identity[Mailbox(a)] \in {"provisioning", "waiting", "unknown", "disconnecting"}
    BY <1>1, <1>2, <1>3, InForward, StepName DEF Here, Mailbox
  <2>2. ~IsLive(Mailbox(a))
    BY <1>3, InvIs DEF Claims
  <2>3. QED
    BY <2>1, <2>2 DEF IsLive, Live
<1>7. ASSUME NEW j \in CleanJob, j # w
      PROVE  jobs'[j] = jobs[j]
  <2>1. j \in JobId
    BY <1>7, Kinds DEF CleanJob
  <2>2. QED
    BY <1>2, <1>7, <2>1 DEF JobsBut
<1>8. Hands'
  BY <1>2, <1>4, <1>5, HandsSteady
<1>9. \A j \in Teardown : jobs'[j] = jobs[j]
  BY <1>1, <1>7, Kinds DEF CleanJob
<1>10. Untouched'
  BY <1>2, <1>4, <1>5, <1>9, UntouchedSteady DEF Now, Status
<1>11. \A j \in SecretJob : jobs'[j] = jobs[j] \/ (j = w /\ Status(w) = "none")
  BY <1>2, <1>7 DEF CleanJob
<1>12. Secrets'
  <2>1. ASSUME NEW j \in SecretJob, Now(j) \in {"pending", "running", "unknown"}
        PROVE  \/ Status(j) \in {"pending", "running", "unknown"}
               \/ identity[belongs[j[2]]] = "disconnecting"
    BY <1>1, <1>6, <1>11, <2>1 DEF Now, Status
  <2>2. ASSUME NEW b \in Actor, pc'[b] = "clean", at'[b] \in SecretJob
        PROVE  pc[b] = "clean" /\ at'[b] = at[b] /\ Now(at[b]) = Status(at[b])
    <3>1. pc[b] = "clean" /\ at'[b] = at[b]
      BY <1>4, <2>2
    <3>2. Status(at[b]) # "none"
      BY <3>1, InvIs DEF Handed
    <3>3. QED
      BY <1>11, <2>2, <3>1, <3>2 DEF Now, Status
  <2>3. QED
    BY <1>2, <1>4, <2>1, <2>2, SecretsKept
<1>13. Wanted'
  BY <1>2, WantedSame
<1>14. QED
  BY <1>2, <1>8, <1>10, <1>12, <1>13, OrderedIs

LEMMA OrderedClosing ==
  ASSUME Inv, home # "gone", OpenHouse, NEW a \in Actor, NEW n \in 1..created, Closing(a, n)
  PROVE  Ordered'
<1> DEFINE w == LateCleanup(n)
<1>1. /\ n \in Attempt /\ w \in Teardown /\ w[2] = n /\ w \in JobId
  BY InvIs, AttemptMade, CleanName, Kinds
<1>2. /\ Lawful /\ Rests /\ pc[a] = "close" /\ at[a] = Step(n) /\ step' = step
      /\ \A k \in Attempt : identity'[k] = identity[k] \/ Finished(k)
      /\ JobsBut({Step(n), w})
      /\ jobs'[w] = jobs[w] \/ (Status(w) = "none" /\ Now(w) = "pending" /\ jobs'[w].parent = n)
  BY ClosingLawful DEF Closing, Now
<1>3. /\ Steady
      /\ \A b \in Actor : pc'[b] \in {"clean", "sweep"} => pc'[b] = pc[b] /\ at'[b] = at[b]
  BY <1>2, RestsSteady
<1>4. Backward(a) /\ ~Forward(a) /\ Mailbox(a) = belongs[n]
  BY <1>1, <1>2, StepName DEF Forward, Backward, Here, Mailbox
<1>5. ASSUME NEW b \in Actor, Forward(b)
      PROVE  Mailbox(b) # belongs[n]
  BY <1>4, <1>5, InvIs DEF Hands
<1>6. ASSUME NEW b \in Actor, Forward(b)'
      PROVE  Forward(b) /\ Mailbox(b) # belongs[n] /\ jobs'[at[b]] = jobs[at[b]]
  <2>1. Forward(b)
    BY <1>3, <1>6 DEF Steady
  <2>2. at[b] \in StepJob /\ Mailbox(b) # belongs[n]
    BY <1>5, <2>1, InvIs DEF Where
  <2>3. at[b] # Step(n)
    BY <1>1, <2>2, StepName DEF Here, Mailbox
  <2>4. at[b] \in JobId /\ at[b] # w
    BY <1>1, <2>2, Kinds
  <2>5. QED
    BY <1>2, <2>1, <2>2, <2>3, <2>4 DEF JobsBut
<1>7. ASSUME NEW j \in CleanJob, j # w
      PROVE  jobs'[j] = jobs[j]
  <2>1. j \in JobId /\ j # Step(n)
    BY <1>1, <1>7, Kinds, StepName DEF CleanJob
  <2>2. QED
    BY <1>2, <1>7, <2>1 DEF JobsBut
<1>8. Hands'
  BY <1>2, <1>3, <1>6, HandsSteady DEF Now, Status, NowQuarantined, Quarantined
<1>9. \A j \in SecretJob : jobs'[j] = jobs[j]
  BY <1>1, <1>7, Kinds DEF CleanJob
<1>10. ASSUME NEW j \in Teardown, Now(j) # "none"
      PROVE  \/ /\ Status(j) # "none" /\ jobs'[j].parent = jobs[j].parent
                /\ Status(j) = "pending" /\ Forward(Worker)' => Now(j) = "pending"
             \/ /\ Now(j) = "pending" /\ jobs'[j].parent = j[2]
                /\ \A b \in Actor : Forward(b)' /\ Mailbox(b) = belongs[j[2]] => b = Worker
  <2>1. CASE jobs'[j] = jobs[j]
    BY <1>10, <2>1 DEF Now, Status
  <2>2. CASE j = w /\ jobs'[w] # jobs[w]
    BY <1>1, <1>2, <1>6, <2>2
  <2>3. QED
    BY <1>7, <2>1, <2>2 DEF CleanJob
<1>11. Untouched'
  BY <1>2, <1>3, <1>9, <1>10, UntouchedSteady DEF Now, Status
<1>12. Secrets'
  BY <1>2, <1>3, <1>9, SecretsKept DEF Now, Status
<1>13. Wanted'
  BY <1>2, WantedSame
<1>14. QED
  BY <1>2, <1>8, <1>11, <1>12, <1>13, OrderedIs

\* A tear-down that is carried on: the jobs of the family but the one it settles stay.
LEMMA OrderedTearing ==
  ASSUME Inv, home # "gone", OpenHouse, Lawful, NEW a \in Actor, NEW j \in Teardown,
         pc[a] \in {"clean", "sweep"}, at[a] = j, Steady,
         \A b \in Actor : pc'[b] \in {"clean", "sweep"} =>
           at'[b] = at[b] /\ (pc'[b] = pc[b] \/ (b = a /\ pc[b] = "clean" /\ pc'[b] = "sweep")),
         step' = step, \A k \in Attempt : identity'[k] = identity[k] \/ Finished(k),
         jobs'[j].parent = jobs[j].parent,
         \A k \in JobId : k # j /\ ~(jobs[j].parent # None /\ k = Step(jobs[j].parent))
           => jobs'[k] = jobs[k]
  PROVE  Ordered'
<1>1. /\ Status(j) # "none" /\ Status(j) # "pending" /\ Untouched /\ Secrets
      /\ jobs[j].parent # None => jobs[j].parent \in 1..created
  <2>1. Status(j) # "none" /\ Status(j) # "pending" /\ Untouched /\ Secrets
    BY InvIs DEF Handed, Secrets
  <2>2. jobs[j].parent \in 0..created /\ created \in Nat
    BY <2>1, InvIs DEF Numbers, ShapeRest, CleanJob
  <2>3. jobs[j].parent # None => jobs[j].parent \in 1..created
    BY <2>2 DEF None
  <2>4. QED
    BY <2>1, <2>3
<1>2. ASSUME NEW k \in CleanJob, k # j
      PROVE  jobs'[k] = jobs[k]
  <2>1. k \in JobId
    BY <1>2, Kinds DEF CleanJob
  <2>2. jobs[j].parent # None => k # Step(jobs[j].parent)
    BY <1>1, <1>2, InvIs, AttemptMade, StepName
  <2>3. QED
    BY <1>2, <2>1, <2>2
<1>3. ASSUME NEW b \in Actor, Forward(b)'
      PROVE  jobs'[at[b]] = jobs[at[b]]
  <2>1. Forward(b)
    BY <1>3 DEF Steady
  <2>2. at[b] \in StepJob /\ at[b] \in JobId /\ at[b] # j
    BY <2>1, InvIs, Kinds DEF Where
  <2>3. ASSUME jobs[j].parent # None, at[b] = Step(jobs[j].parent) PROVE FALSE
    <3>1. Mailbox(b) = belongs[jobs[j].parent]
      BY <1>1, <2>3, InvIs, AttemptMade, StepName DEF Here, Mailbox
    <3>2. QED
      BY <1>1, <2>1, <2>3, <3>1 DEF Untouched
  <2>4. QED
    BY <2>2, <2>3
<1>4. Hands'
  BY <1>3, HandsSteady DEF Now, Status, NowQuarantined, Quarantined
<1>5. \A k \in SecretJob : jobs'[k] = jobs[k]
  BY <1>2, Kinds DEF CleanJob
<1>6. ASSUME NEW k \in Teardown, Now(k) # "none"
      PROVE  /\ Status(k) # "none" /\ jobs'[k].parent = jobs[k].parent
             /\ Status(k) = "pending" /\ Forward(Worker)' => Now(k) = "pending"
  BY <1>1, <1>2, <1>6 DEF Now, Status, CleanJob
<1>7. Untouched'
  BY <1>5, <1>6, UntouchedSteady DEF Now, Status
<1>8. Secrets'
  <2>1. ASSUME NEW b \in Actor, pc'[b] = "clean", at'[b] \in SecretJob
        PROVE  pc[b] = "clean" /\ at'[b] = at[b] /\ Now(at[b]) = Status(at[b])
    BY <1>5, <2>1 DEF Now, Status
  <2>2. ASSUME NEW b \in Actor, pc'[b] \in {"clean", "sweep"}
        PROVE  pc[b] \in {"clean", "sweep"} /\ at'[b] = at[b]
    BY <2>2
  <2>3. QED
    BY <1>5, <2>1, <2>2, SecretsKept DEF Now, Status
<1>9. Wanted'
  BY WantedSame
<1>10. QED
  BY <1>4, <1>7, <1>8, <1>9, OrderedIs

LEMMA OrderedDepriving ==
  ASSUME Inv, home # "gone", OpenHouse, NEW a \in Actor, NEW j \in Teardown, Depriving(a, j)
  PROVE  Ordered'
<1>1. /\ Lawful /\ pc[a] = "clean" /\ at[a] = j /\ UNCHANGED <<identity, step>> /\ j \in JobId
  BY DeprivingLawful, Kinds DEF Depriving
<1>2. /\ Steady
      /\ \A b \in Actor : pc'[b] \in {"clean", "sweep"} =>
           at'[b] = at[b] /\ (pc'[b] = pc[b] \/ (b = a /\ pc[b] = "clean" /\ pc'[b] = "sweep"))
  <2>1. CASE Rests
    BY <2>1, RestsSteady
  <2>2. CASE pc'[a] = "sweep" /\ at'[a] = at[a] /\ Others(a)
    BY <1>1, <2>2 DEF Others, Steady, Forward, Backward
  <2>3. QED
    BY <2>1, <2>2 DEF Depriving
<1>3. /\ jobs'[j].parent = jobs[j].parent
      /\ \A k \in JobId : k # j => jobs'[k] = jobs[k]
  BY DEF Depriving, Troubled, JobsBut
<1>4. QED
  BY <1>1, <1>2, <1>3, OrderedTearing

LEMMA OrderedSweeping ==
  ASSUME Inv, home # "gone", OpenHouse, NEW a \in Actor, NEW j \in Teardown, Sweeping(a, j)
  PROVE  Ordered'
<1>1. /\ Lawful /\ pc[a] = "sweep" /\ at[a] = j /\ Rests /\ step' = step
      /\ \A k \in Attempt : identity'[k] = identity[k] \/ Finished(k)
  BY SweepingLawful DEF Sweeping
<1>2. /\ Steady
      /\ \A b \in Actor : pc'[b] \in {"clean", "sweep"} => pc'[b] = pc[b] /\ at'[b] = at[b]
  BY <1>1, RestsSteady
<1>3. /\ jobs'[j].parent = jobs[j].parent
      /\ \A k \in JobId : k # j /\ ~(jobs[j].parent # None /\ k = Step(jobs[j].parent))
           => jobs'[k] = jobs[k]
  BY DEF Sweeping, Troubled, JobsBut
<1>4. QED
  BY <1>1, <1>2, <1>3, OrderedTearing

LEMMA OrderedUnstaging ==
  ASSUME OneOperator, Inv, home # "gone", OpenHouse,
         NEW a \in Actor, NEW j \in SecretJob, Unstaging(a, j)
  PROVE  Ordered'
<1> DEFINE n == j[2]
<1>1. /\ Lawful /\ pc[a] = "clean" /\ at[a] = j /\ Rests /\ step' = step
      /\ \A k \in Attempt : identity'[k] = identity[k] \/ Finished(k)
      /\ JobsBut({j, Step(n)}) /\ Now(j) \in {"succeeded", "unknown"}
  BY UnstagingLawful DEF Unstaging, JobsBut, Now
<1>2. /\ Steady
      /\ \A b \in Actor : pc'[b] \in {"clean", "sweep"} => pc'[b] = pc[b] /\ at'[b] = at[b]
  BY <1>1, RestsSteady
<1>3. /\ n \in Attempt /\ j \in JobId /\ Status(j) # "none"
      /\ Untouched /\ Secrets /\ pc'[a] = "idle"
  <2>1. n \in Attempt /\ j \in JobId /\ Status(j) # "none" /\ Untouched /\ Secrets
    BY <1>1, CleanIs, Kinds, InvIs DEF Handed
  <2>2. QED
    BY <2>1 DEF Unstaging
<1>4. ASSUME NEW k \in CleanJob, k # j
      PROVE  jobs'[k] = jobs[k]
  <2>1. k \in JobId /\ k # Step(n)
    BY <1>3, <1>4, Kinds, StepName DEF CleanJob
  <2>2. QED
    BY <1>1, <1>4, <2>1 DEF JobsBut
<1>5. ASSUME NEW b \in Actor, Forward(b)'
      PROVE  jobs'[at[b]] = jobs[at[b]]
  <2>1. Forward(b)
    BY <1>2, <1>5 DEF Steady
  <2>2. at[b] \in StepJob /\ at[b] \in JobId /\ at[b] # j
    BY <2>1, InvIs, Kinds DEF Where
  <2>3. at[b] # Step(n)
    BY <1>3, <2>1, StepName DEF Untouched, Here, Mailbox
  <2>4. QED
    BY <1>1, <2>2, <2>3 DEF JobsBut
<1>6. Hands'
  BY <1>1, <1>2, <1>5, HandsSteady DEF Now, Status, NowQuarantined, Quarantined
<1>7. \A k \in Teardown : jobs'[k] = jobs[k]
  BY <1>4, Kinds DEF CleanJob
<1>8. Untouched'
  <2>1. \A k \in SecretJob : ~(Now(k) # "none" /\ Status(k) = "none")
    BY <1>3, <1>4 DEF Now, Status, CleanJob
  <2>2. QED
    BY <1>1, <1>2, <1>7, <2>1, UntouchedSteady DEF Now, Status
<1>9. Secrets'
  <2>1. Status(j) = IF a = Worker THEN "running" ELSE "unknown"
    BY <1>1, <1>3 DEF Secrets
  <2>2. ASSUME NEW k \in SecretJob, Now(k) \in {"pending", "running", "unknown"}
        PROVE  Status(k) \in {"pending", "running", "unknown"}
    BY <1>4, <2>1, <2>2 DEF Now, Status, CleanJob
  <2>3. ASSUME NEW b \in Actor, pc'[b] = "clean", at'[b] \in SecretJob
        PROVE  pc[b] = "clean" /\ at'[b] = at[b] /\ Now(at[b]) = Status(at[b])
    <3>1. pc[b] = "clean" /\ at'[b] = at[b]
      BY <1>2, <2>3
    <3>2. at[b] # j
      <4> SUFFICES ASSUME at[b] = j PROVE FALSE
        OBVIOUS
      <4>1. Status(j) = IF b = Worker THEN "running" ELSE "unknown"
        BY <1>3, <3>1 DEF Secrets
      <4>2. (a = Worker <=> b = Worker) /\ b # a
        BY <1>3, <2>1, <2>3, <4>1
      <4>3. QED
        BY <4>2 DEF Actor, OneOperator
    <3>3. QED
      BY <1>4, <2>3, <3>1, <3>2 DEF Now, Status, CleanJob
  <2>4. QED
    BY <1>1, <1>2, <2>2, <2>3, SecretsKept
<1>10. Wanted'
  BY <1>1, WantedSame
<1>11. QED
  BY <1>1, <1>6, <1>8, <1>9, <1>10, OrderedIs

\* An email job that can be taken is wanted.
LEMMA TakenIsActive ==
  ASSUME Inv, home # "gone", NEW j \in StepJob,
         \/ Status(j) \in {"pending", "running", "waiting"}
         \/ Status(j) = "unknown" /\ ~Quarantined(j)
  PROVE  \E n \in 1..created : j = Step(n) /\ n \in Attempt /\ Active(n)
<1>1. PICK n \in Attempt : j = Step(n) /\ j[2] = n
  BY StepIs
<1>2. ~Quarantined(j)
  BY InvIs DEF Handed
<1>3. Active(n)
  BY <1>1, <1>2 DEF Active, Unset, Unsettled
<1>4. created \in Nat /\ n \in Nat /\ n >= 1 /\ ~(n > created)
  BY <1>1, InvIs, Attempts DEF ShapeRest, Numbers
<1>5. QED
  BY <1>1, <1>3, <1>4

LEMMA OrderedLeasing ==
  ASSUME Inv, home # "gone", OpenHouse, NEW j \in JobId, Leasing(j)
  PROVE  Ordered'
<1>1. /\ Lawful /\ Worker \in Actor /\ Others(Worker) /\ at'[Worker] = j
      /\ pc[Worker] = "idle" /\ Status(j) \in {"pending", "running", "waiting"}
      /\ Now(j) = "running" /\ JobsBut({j}) /\ jobs'[j].parent = jobs[j].parent
      /\ UNCHANGED <<identity, step>>
      /\ pc'[Worker] = IF j \in StepJob THEN "gate" ELSE IF j \in Maker THEN "make" ELSE "clean"
  BY LeasingLawful, WorkerActs DEF Leasing, Now
<1>2. CASE j \in StepJob
  <2>1. PICK n \in 1..created : j = Step(n) /\ n \in Attempt /\ Active(n)
    BY <1>1, <1>2, TakenIsActive
  <2>2. ASSUME NEW b \in Actor, b # Worker, Forward(b) PROVE FALSE
    <3>1. Unset(Here(b)) /\ Here(b) \in Attempt /\ at[b] = Step(Here(b)) /\ Status(at[b]) = "unknown"
      BY <2>2, InForward
    <3>2. Here(b) = n
      BY <2>1, <3>1, InvIs DEF OneOpen, Active
    <3>3. QED
      BY <1>1, <2>1, <3>1, <3>2
  <2>3. QED
    BY <1>1, <1>2, <2>1, <2>2, OrderedComing
<1>3. CASE j \notin StepJob
  <2>1. Steady
    BY <1>1, <1>3 DEF Others, Steady, Forward, Backward
  <2>2. ASSUME NEW b \in Actor, Forward(b)'
        PROVE  jobs'[at[b]] = jobs[at[b]]
    <3>1. at[b] \in StepJob
      BY <2>1, <2>2, InvIs DEF Steady, Where
    <3>2. at[b] \in JobId /\ at[b] # j
      BY <1>3, <3>1, Kinds
    <3>3. QED
      BY <1>1, <3>2 DEF JobsBut
  <2>3. ASSUME NEW k \in CleanJob, k # j PROVE jobs'[k] = jobs[k]
    <3>1. k \in JobId
      BY <2>3, Kinds DEF CleanJob
    <3>2. QED
      BY <1>1, <2>3, <3>1 DEF JobsBut
  <2>4. Hands'
    BY <1>1, <2>1, <2>2, HandsSteady DEF Now, Status, NowQuarantined, Quarantined
  <2>5. ~Forward(Worker)'
    BY <1>1, <1>3 DEF Forward
  <2>6. Untouched'
    <3>1. \A k \in SecretJob : ~(Now(k) # "none" /\ Status(k) = "none")
      BY <1>1, <2>3 DEF Now, Status, CleanJob
    <3>2. ASSUME NEW k \in Teardown, Now(k) # "none"
          PROVE  /\ Status(k) # "none" /\ jobs'[k].parent = jobs[k].parent
                 /\ Status(k) = "pending" /\ Forward(Worker)' => Now(k) = "pending"
      BY <1>1, <2>3, <2>5, <3>2 DEF Now, Status, CleanJob
    <3>3. QED
      BY <1>1, <2>1, <3>1, <3>2, UntouchedSteady
  <2>7. Secrets'
    <3>1. ASSUME NEW k \in SecretJob, Now(k) \in {"pending", "running", "unknown"}
          PROVE  Status(k) \in {"pending", "running", "unknown"}
      <4>1. Status(k) # "waiting"
        BY <3>1, Kinds, InvIs DEF Handed
      <4>2. QED
        BY <1>1, <2>3, <3>1, <4>1 DEF Now, Status, CleanJob
    <3>2. ASSUME NEW b \in Actor, pc'[b] = "clean", at'[b] \in SecretJob
          PROVE  \/ pc[b] = "clean" /\ at'[b] = at[b] /\ Now(at[b]) = Status(at[b])
                 \/ Now(at'[b]) = IF b = Worker THEN "running" ELSE "unknown"
      <4>1. CASE b = Worker
        BY <1>1, <4>1
      <4>2. CASE b # Worker
        <5>1. pc[b] = "clean" /\ at'[b] = at[b]
          BY <1>1, <3>2, <4>2 DEF Others
        <5>2. Status(at[b]) = "unknown"
          BY <3>2, <4>2, <5>1, InvIs DEF Secrets
        <5>3. QED
          BY <1>1, <2>3, <3>2, <5>1, <5>2 DEF Now, Status, CleanJob
      <4>3. QED
        BY <4>1, <4>2
    <3>3. ASSUME NEW b \in Actor, pc'[b] \in {"clean", "sweep"}, at'[b] \in Teardown
          PROVE  (pc[b] \in {"clean", "sweep"} /\ at'[b] = at[b]) \/ Now(at'[b]) # "pending"
      BY <1>1, <3>3 DEF Others
    <3>4. QED
      BY <1>1, <3>1, <3>2, <3>3, SecretsKept
  <2>8. Wanted'
    BY <1>1, WantedSame
  <2>9. QED
    BY <1>1, <2>4, <2>6, <2>7, <2>8, OrderedIs
<1>4. QED
  BY <1>2, <1>3

LEMMA OrderedTaking ==
  ASSUME OneOperator, Inv, home # "gone", OpenHouse,
         NEW o \in Operators, NEW j \in JobId, Taking(o, j)
  PROVE  Ordered'
<1>1. /\ Lawful /\ o \in Actor /\ o # Worker /\ Others(o) /\ at'[o] = j /\ pc[o] = "idle"
      /\ Status(j) = "unknown" /\ UNCHANGED <<jobs, identity, step>>
  BY TakingLawful, OperatorActs DEF Taking
<1>2. CASE j \in StepJob
  <2>1. pc'[o] = "call" /\ ~Quarantined(j)
    BY <1>2, Kinds DEF Taking
  <2>2. PICK n \in 1..created : j = Step(n) /\ n \in Attempt /\ Active(n)
    BY <1>1, <1>2, <2>1, TakenIsActive
  <2>3. ASSUME NEW b \in Actor, b # o, Forward(b) PROVE FALSE
    <3>1. b = Worker
      BY <2>3 DEF Actor, OneOperator
    <3>2. /\ Unset(Here(b)) /\ Here(b) \in Attempt /\ at[b] = Step(Here(b))
          /\ Status(at[b]) = "unknown" => Quarantined(at[b])
      BY <2>3, <3>1, InForward
    <3>3. Here(b) = n
      BY <2>2, <3>2, InvIs DEF OneOpen, Active
    <3>4. QED
      BY <1>1, <2>1, <2>2, <3>2, <3>3
  <2>4. Now(Step(n)) = "unknown" /\ JobsBut({Step(n)})
    BY <1>1, <2>2 DEF Now, Status, JobsBut
  <2>5. QED
    BY <1>1, <2>1, <2>2, <2>3, <2>4, OrderedComing
<1>3. CASE j \notin StepJob
  <2>1. pc'[o] \in {"make", "clean"}
    BY <1>3 DEF Taking
  <2>2. Steady
    BY <1>1, <2>1 DEF Others, Steady, Forward, Backward
  <2>3. \A k : Now(k) = Status(k) /\ NowQuarantined(k) = Quarantined(k)
    BY <1>1 DEF Now, Status, NowQuarantined, Quarantined
  <2>4. Hands'
    BY <1>1, <2>2, <2>3, HandsSteady
  <2>5. Untouched'
    BY <1>1, <2>2, <2>3, UntouchedSteady
  <2>6. Secrets'
    <3>1. ASSUME NEW b \in Actor, pc'[b] \in {"clean", "sweep"}
          PROVE  (pc'[b] = pc[b] /\ at'[b] = at[b]) \/ (b = o /\ Now(at'[b]) = "unknown")
      BY <1>1, <2>3, <3>1 DEF Others
    <3>2. QED
      BY <1>1, <2>3, <3>1, SecretsKept
  <2>7. Wanted'
    BY <1>1, WantedSame
  <2>8. QED
    BY <1>1, <2>4, <2>5, <2>6, <2>7, OrderedIs
<1>4. QED
  BY <1>2, <1>3

-----------------------------------------------------------------------------
(* The steps of the processes keep the invariant *)

LEMMA KeepsInv ==
  ASSUME Inv, home # "gone", Lawful, Shape', Claims', Parents', Kept', NotDeleted',
         Makers', Erasing', Served', OpenHouse => Ordered'
  PROVE  Inv'
<1>1. OpenHouse' = OpenHouse /\ home' # "gone"
  BY LawfulIs
<1>2. Where' /\ Numbers' /\ Handed' /\ OneLeft' /\ Consented'
  BY WhereKept, NumbersKept, HandedKept, OneLeftKept
<1>3. QED
  BY <1>1, <1>2 DEF Inv

LEMMA KeepsQuiet ==
  ASSUME Inv, home # "gone", Quiet, Shape', Claims', Makers', Erasing', Served',
         OpenHouse => Ordered'
  PROVE  Inv'
<1>1. Lawful /\ upstream' \subseteq upstream
  BY DEF Quiet
<1>2. Kept' /\ Parents'
  BY KeptQuiet, ParentsQuiet
<1>3. NotDeleted'
  BY <1>1, <1>2, NotDeletedKept
<1>4. QED
  BY <1>1, <1>2, <1>3, KeepsInv

\* The same of a step that is not at the namespace.
LEMMA KeepsMail ==
  ASSUME Inv, home # "gone", Quiet, MailOnly, Shape', Claims', Served',
         OpenHouse => Ordered'
  PROVE  Inv'
<1>1. Makers' /\ Erasing'
  BY MakersMailOnly, ErasingMailOnly DEF Quiet
<1>2. QED
  BY <1>1, KeepsQuiet

LEMMA OutsideQuiet ==
  ASSUME Lawful, UNCHANGED upstream
  PROVE  Quiet
BY DEF Quiet

LEMMA WritingKeeps ==
  ASSUME OneOperator, Inv, home # "gone", Shape', NEW a \in Actor, Writing(a)
  PROVE  Inv'
<1>1. Lawful /\ UNCHANGED Outside /\ Rests /\ (OpenHouse => Ordered')
  <2>1. CASE Resting
    BY <2>1, RestingLawful, OrderedResting DEF Resting
  <2>2. ASSUME NEW n \in 1..created, NEW s \in {"failed", "unknown", "waiting"}, Marking(a, n, s)
        PROVE  Lawful /\ UNCHANGED Outside /\ Rests /\ (OpenHouse => Ordered')
    BY <2>2, MarkingLawful, OrderedMarking DEF Marking
  <2>3. ASSUME NEW n \in 1..created, Reviving(n)
        PROVE  Lawful /\ UNCHANGED Outside /\ Rests /\ (OpenHouse => Ordered')
    BY <2>3, RevivingLawful DEF Reviving
  <2>4. ASSUME NEW n \in 1..created, PuttingBack(a, n)
        PROVE  Lawful /\ UNCHANGED Outside /\ Rests /\ (OpenHouse => Ordered')
    BY <2>4, PuttingBackLawful, OrderedPuttingBack DEF PuttingBack
  <2>5. ASSUME NEW n \in 1..created, Handing(a, n)
        PROVE  Lawful /\ UNCHANGED Outside /\ Rests /\ (OpenHouse => Ordered')
    BY <2>5, HandingLawful, OrderedHanding DEF Handing
  <2>6. QED
    BY <2>1, <2>2, <2>3, <2>4, <2>5 DEF Writing
<1>2. Quiet
  BY <1>1, OutsideIs, OutsideQuiet
<1>3. Claims' /\ Served' /\ MailOnly
  BY <1>1, <1>2, ClaimsResting, ServedWriting, WritingMail
<1>4. QED
  BY <1>1, <1>2, <1>3, KeepsMail

LEMMA EnteringKeeps ==
  ASSUME Inv, home # "gone", Shape', Entering
  PROVE  Inv'
<1>1. Lawful /\ UNCHANGED Outside /\ UNCHANGED identity /\ Others(Worker)
      /\ pc'[Worker] = "call" /\ Worker \in Actor /\ MailOnly /\ Claims'
  BY EnteringLawful, EnteringMail, ClaimsEntering, WorkerActs DEF Entering
<1>2. Quiet /\ UNCHANGED <<upstream, key>>
  BY <1>1, OutsideIs, OutsideQuiet
<1>3. Served'
  BY <1>1, <1>2, ServedGoing
<1>4. OpenHouse => Ordered'
  <2>1. CASE created = 0
    <3>1. Forward(Worker) /\ ~(0 \in 1..0)
      BY DEF Forward, Entering
    <3>2. Here(Worker) \in 1..created
      BY <1>1, <3>1, AtStep
    <3>3. QED
      BY <2>1, <3>2
  <2>2. CASE created # 0
    <3>1. created \in 1..created
      BY <2>2, InvIs DEF ShapeRest
    <3>2. QED
      BY <1>1, <3>1, OrderedGoing
  <2>3. QED
    BY <2>1, <2>2
<1>5. QED
  BY <1>1, <1>2, <1>3, <1>4, KeepsMail

LEMMA TakingKeeps ==
  ASSUME OneOperator, Inv, home # "gone", Shape', NEW o \in Operators, NEW j \in JobId,
         Taking(o, j)
  PROVE  Inv'
<1>1. Lawful /\ UNCHANGED Outside /\ UNCHANGED identity /\ Others(o) /\ o \in Actor
      /\ Claims' /\ Makers' /\ Erasing' /\ (OpenHouse => Ordered')
  BY TakingLawful, OperatorActs, ClaimsTaking, MakersTaking, ErasingTaking, OrderedTaking DEF Taking
<1>2. Quiet /\ UNCHANGED <<upstream, key>>
  BY <1>1, OutsideIs, OutsideQuiet
<1>3. pc'[o] \notin {"answer", "finish"}
  BY DEF Taking
<1>4. Served'
  BY <1>1, <1>2, <1>3, ServedGoing
<1>5. QED
  BY <1>1, <1>2, <1>4, KeepsQuiet

LEMMA LeasingKeeps ==
  ASSUME Inv, home # "gone", Shape', NEW j \in JobId, Leasing(j)
  PROVE  Inv'
<1>1. Lawful /\ UNCHANGED Outside /\ UNCHANGED identity /\ Others(Worker) /\ Worker \in Actor
      /\ Claims' /\ Makers' /\ Erasing' /\ (OpenHouse => Ordered')
  BY LeasingLawful, WorkerActs, ClaimsLeasing, MakersLeasing, ErasingLeasing, OrderedLeasing
     DEF Leasing
<1>2. Quiet /\ UNCHANGED <<upstream, key>>
  BY <1>1, OutsideIs, OutsideQuiet
<1>3. pc'[Worker] \notin {"answer", "finish"}
  BY DEF Leasing
<1>4. Served'
  BY <1>1, <1>2, <1>3, ServedGoing
<1>5. QED
  BY <1>1, <1>2, <1>4, KeepsQuiet

LEMMA MakingKeeps ==
  ASSUME Inv, home # "gone", Shape', NEW a \in Actor, NEW n \in 1..created,
         Installing(a) \/ Undoing(a, n) \/ Verifying(a, n)
  PROVE  Inv'
<1>1. CASE Installing(a)
  <2>1. Lawful /\ UNCHANGED upstream
    BY <1>1, InstallingLawful DEF Installing
  <2>2. QED
    BY <1>1, <2>1, OutsideQuiet, MakingMail, ClaimsInstalling, ServedInstalling, OrderedGoing,
       KeepsMail
<1>2. CASE Undoing(a, n)
  <2>1. Lawful /\ UNCHANGED Outside /\ UNCHANGED identity /\ Others(a) /\ pc'[a] = "raze"
    BY <1>2, UndoingLawful DEF Undoing
  <2>2. Quiet /\ UNCHANGED <<upstream, key>>
    BY <2>1, OutsideIs, OutsideQuiet
  <2>3. Served'
    BY <2>1, <2>2, ServedGoing
  <2>4. QED
    BY <1>2, <2>2, <2>3, MakingMail, ClaimsUndoing, OrderedGoing, KeepsMail
<1>3. CASE Verifying(a, n)
  <2>1. Lawful /\ UNCHANGED Outside /\ Rests
    BY <1>3, VerifyingLawful DEF Verifying
  <2>2. Quiet
    BY <2>1, OutsideIs, OutsideQuiet
  <2>3. QED
    BY <1>3, <2>1, <2>2, VerifyingMail, ClaimsResting, ServedVerifying, OrderedVerifying,
       KeepsMail
<1>4. QED
  BY <1>1, <1>2, <1>3

LEMMA CallingKeeps ==
  ASSUME Inv, home # "gone", Shape', NEW a \in Actor, NEW n \in 1..created, Calling(a, n)
  PROVE  Inv'
<1>1. Lawful /\ MailOnly
  BY CallingLawful, MakingMail
<1>2. Makers' /\ Erasing'
  BY <1>1, MakersMailOnly, ErasingMailOnly
<1>3. QED
  BY <1>1, <1>2, ClaimsCalling, ParentsCalling, KeptCalling, NotDeletedCalling, ServedCalling,
     OrderedGoing, KeepsInv

LEMMA TearingKeeps ==
  ASSUME Inv, home # "gone", Shape', NEW a \in Actor, NEW n \in 1..created,
         Razing(a, n) \/ Closing(a, n)
  PROVE  Inv'
<1>1. CASE Razing(a, n)
  BY <1>1, RazingQuiet, RazingMail, ClaimsRazing, ServedRazing, OrderedRazing, KeepsMail
<1>2. CASE Closing(a, n)
  <2>1. Lawful /\ Rests /\ UNCHANGED Outside
    BY <1>2, ClosingLawful DEF Closing
  <2>2. Quiet
    BY <2>1, OutsideIs, OutsideQuiet
  <2>3. QED
    BY <1>2, <2>1, <2>2, ClosingMail, ClaimsResting, ServedClosing, OrderedClosing, KeepsMail
<1>3. QED
  BY <1>1, <1>2

LEMMA CleaningKeeps ==
  ASSUME OneOperator, Inv, home # "gone", Shape', NEW a \in Actor, NEW j \in CleanJob,
         \/ j \in Teardown /\ (Depriving(a, j) \/ Sweeping(a, j))
         \/ j \in SecretJob /\ Unstaging(a, j)
  PROVE  Inv'
<1>1. CASE j \in Teardown /\ Depriving(a, j)
  BY <1>1, DeprivingQuiet, DeprivingMail, ClaimsDepriving, ServedDepriving, OrderedDepriving,
     KeepsMail
<1>2. CASE j \in Teardown /\ Sweeping(a, j)
  <2>1. Lawful /\ Rests /\ UNCHANGED upstream
    BY <1>2, SweepingLawful DEF Sweeping
  <2>2. QED
    BY <1>2, <2>1, OutsideQuiet, SweepingMail, ClaimsResting, ServedSweeping, OrderedSweeping,
       KeepsMail
<1>3. CASE j \in SecretJob /\ Unstaging(a, j)
  <2>1. Lawful /\ Rests /\ UNCHANGED upstream
    BY <1>3, UnstagingLawful DEF Unstaging
  <2>2. QED
    BY <1>3, <2>1, OutsideQuiet, UnstagingMail, ClaimsResting, ServedSweeping, OrderedUnstaging,
       KeepsMail
<1>4. QED
  BY <1>1, <1>2, <1>3

LEMMA NamespaceKeeps ==
  ASSUME Inv, home # "gone", Shape', NEW a \in Actor,
         \/ Clearing(a) \/ Housing(a) \/ Unhousing(a) \/ Unmaking(a)
         \/ Refusing(a) \/ Housed(a) \/ Unhoused(a)
  PROVE  Inv'
<1>1. Lawful /\ UNCHANGED <<upstream, identity>> /\ (OpenHouse => Ordered')
  BY ClearingLawful, HousingLawful, RefusingLawful, UnhousedLawful, OrderedNamespace
     DEF Clearing, Housing, Unhousing, Unmaking, Refusing, Housed, Unhoused, MailSame
<1>2. Quiet
  BY <1>1, OutsideQuiet
<1>3. Claims'
  <2>1. CASE Clearing(a) \/ Refusing(a) \/ Housed(a) \/ Unhoused(a)
    BY <1>2, <2>1, ClaimsResting DEF Clearing, Refusing, Housed, Unhoused
  <2>2. QED
    BY <2>1, ClaimsHousing
<1>4. Makers' /\ Erasing'
  BY MakersClearing, MakersHousing, MakersRefusing, MakersHoused,
     ErasingClearing, ErasingHousing, ErasingRefusing, ErasingHoused
<1>5. Served'
  <2>1. CASE Clearing(a) \/ Unmaking(a)
    BY <2>1, ServedUnmaking
  <2>2. CASE Housing(a) \/ Unhousing(a) \/ Refusing(a) \/ Housed(a) \/ Unhoused(a)
    <3>1. /\ UNCHANGED key /\ (Others(a) \/ Rests)
          /\ pc'[a] \notin {"answer", "finish"}
      BY <2>2 DEF Housing, Unhousing, Refusing, Housed, Unhoused
    <3>2. QED
      BY <1>1, <3>1, ServedGoing
  <2>3. QED
    BY <2>1, <2>2
<1>6. QED
  BY <1>1, <1>2, <1>3, <1>4, <1>5, KeepsQuiet

LEMMA ShapeStepShape ==
  ASSUME Inv, ShapeStep, ShapeLocal', UNCHANGED <<belongs, namespace, home, created, upstream, app>>,
         key' \in [Attempt -> Actor \cup {"namespace", "lost"}]
  PROVE  Shape'
BY InvIs DEF ShapeStep, Shape, ShapeRest, ShapeWorld

LEMMA ShapeOutside ==
  ASSUME Inv, ShapeStep, ShapeLocal',
         UNCHANGED <<belongs, namespace, home, created, upstream, app, key>>
  PROVE  Shape'
<1>1. key' \in [Attempt -> Actor \cup {"namespace", "lost"}]
  BY InvIs DEF ShapeWorld
<1>2. QED
  BY <1>1, ShapeStepShape

LEMMA GateInv ==
  ASSUME OneOperator, Inv, home # "gone", astray' = {}, Gate
  PROVE  Inv'
<1>1. ShapeStep /\ ShapeLocal' /\ (Writing(Worker) \/ Entering) /\ Worker \in Actor
  BY GateStep, WorkerActs
<1>2. Shape'
  BY <1>1, ShapeOutside DEF Gate
<1>3. QED
  BY <1>1, <1>2, WritingKeeps, EnteringKeeps

LEMMA ReconcileInv ==
  ASSUME OneOperator, Inv, home # "gone", astray' = {}, NEW o \in Operators, NEW j \in JobId,
         Reconcile(o, j)
  PROVE  Inv'
<1>1. ShapeStep /\ ShapeLocal' /\ (Writing(o) \/ Taking(o, j)) /\ o \in Actor
  BY ReconcileStep, OperatorActs
<1>2. Shape'
  BY <1>1, ShapeOutside DEF Reconcile
<1>3. QED
  BY <1>1, <1>2, WritingKeeps, TakingKeeps

LEMMA LeaseInv ==
  ASSUME Inv, home # "gone", NEW j \in JobId, Lease(j)
  PROVE  Inv'
BY LeaseStep, LeasingKeeps

LEMMA RestingInv ==
  ASSUME OneOperator, Inv, home # "gone",
         \/ \E a \in Actor : Crash(a)
         \/ \E a \in Actor : Drop(a)
         \/ Brake
  PROVE  Inv'
<1>1. Shape' /\ Resting
  BY RestingSteps
<1>2. Writing(Worker) /\ Worker \in Actor
  BY <1>1, WorkerActs DEF Writing
<1>3. QED
  BY <1>1, <1>2, WritingKeeps

LEMMA WorkInv ==
  ASSUME OneOperator, Inv, home # "gone", astray' = {}, NEW a \in Actor, Work(a)
  PROVE  Inv'
<1>1. CASE Call(a)
  BY <1>1, CallStep, CallingKeeps
<1>2. CASE Answer(a)
  <2>1. ShapeStep /\ ShapeLocal' /\ Writing(a)
    BY <1>2, AnswerStep
  <2>2. Shape'
    BY <1>2, <2>1, ShapeOutside DEF Answer
  <2>3. QED
    BY <2>1, <2>2, WritingKeeps
<1>3. CASE Barrier(a)
  <2>1. ShapeStep /\ ShapeLocal' /\ \E n \in 1..created : Undoing(a, n)
    BY <1>3, BarrierStep
  <2>2. Shape'
    BY <1>3, <2>1, ShapeOutside DEF Barrier
  <2>3. QED
    BY <2>1, <2>2, MakingKeeps
<1>4. CASE StageSecret(a)
  <2>1. ShapeStep /\ ShapeLocal' /\ key' \in [Attempt -> Actor \cup {"namespace", "lost"}]
        /\ (Writing(a) \/ Installing(a))
    BY <1>4, StageStep
  <2>2. Shape'
    BY <1>4, <2>1, ShapeStepShape DEF StageSecret
  <2>3. ASSUME Installing(a) PROVE 1 \in 1..created
    <3>1. Forward(a)
      BY <2>3 DEF Installing, Forward
    <3>2. Here(a) \in 1..created /\ created \in Nat
      BY <3>1, AtStep, InvIs DEF ShapeRest
    <3>3. QED
      BY <3>2
  <2>4. QED
    BY <2>1, <2>2, <2>3, WritingKeeps, MakingKeeps
<1>5. CASE FinishStep(a)
  <2>1. ShapeStep /\ ShapeLocal'
        /\ (Writing(a) \/ \E n \in 1..created : Undoing(a, n) \/ Verifying(a, n))
    BY <1>5, FinishStepStep
  <2>2. Shape'
    BY <1>5, <2>1, ShapeOutside DEF FinishStep
  <2>3. QED
    BY <2>1, <2>2, WritingKeeps, MakingKeeps
<1>6. CASE Raze(a)
  BY <1>6, RazeStep, TearingKeeps
<1>7. CASE Close(a)
  BY <1>7, CloseStep, TearingKeeps
<1>8. CASE Deprovision(a)
  BY <1>8, DepriveStep, CleaningKeeps DEF CleanJob
<1>9. CASE Sweep(a)
  BY <1>9, SweepStep, CleaningKeeps DEF CleanJob
<1>10. CASE CleanSecret(a)
  BY <1>10, UnstageStep, CleaningKeeps DEF CleanJob
<1>11. CASE CleanNamespace(a)
  BY <1>11, CleanNamespaceStep, NamespaceKeeps
<1>12. CASE Drop(a)
  BY <1>12, RestingInv
<1>13. CASE MakeNamespace(a)
  BY <1>13, MakeNamespaceStep, NamespaceKeeps
<1>14. CASE FinishNamespace(a)
  BY <1>14, FinishNamespaceStep, NamespaceKeeps
<1>15. CASE Unmake(a)
  BY <1>15, UnmakeStep, NamespaceKeeps
<1>16. CASE CloseNamespace(a)
  BY <1>16, CloseNamespaceStep, NamespaceKeeps
<1>17. QED
  BY <1>1, <1>2, <1>3, <1>4, <1>5, <1>6, <1>7, <1>8, <1>9, <1>10, <1>11, <1>12, <1>13,
     <1>14, <1>15, <1>16 DEF Work

-----------------------------------------------------------------------------
(* The erasure *)

\* An erasure settles no job and shows the family nothing.
Mind == <<jobs, identity, belongs, step, home, consent, created, pc, at, got>>

LEMMA MindLawful ==
  ASSUME Inv, home # "gone", UNCHANGED Mind, RowLaw, upstream' \subseteq upstream
  PROVE  Quiet /\ Rests /\ Claims'
<1>1. UNCHANGED <<jobs, identity, belongs, step, home, consent, created, pc, at, got>>
  BY DEF Mind
<1>2. Rests
  BY <1>1 DEF Rests
<1>3. Lawful
  BY <1>1, <1>2, SameJobs, SameIds, SamePlaces DEF Lawful
<1>4. Quiet
  BY <1>3 DEF Quiet
<1>5. QED
  BY <1>2, <1>4, ClaimsResting

LEMMA MindMakers ==
  ASSUME Inv, home # "gone", UNCHANGED Mind, Lawful, upstream' \subseteq upstream,
         namespace' = namespace \/ (home # "onboarding" /\ namespace' # "ready"),
         app' => Owned' \/ OpenMaker
  PROVE  Makers'
<1>1. UNCHANGED <<jobs, identity, belongs, step, home, consent, created, pc, at, got>> /\ Makers
  BY InvIs DEF Mind
<1>2. Made' <=> Made
  BY <1>1, LatestSame DEF Made, Status
<1>3. \A j : Now(j) = Status(j) /\ (NowQuarantined(j) <=> Quarantined(j))
  BY <1>1 DEF Now, Status, NowQuarantined, Quarantined
<1>4. OpenMaker' <=> OpenMaker
  BY <1>1, OpenSame
<1>5. \A a \in Actor : Building(a)' => MakerOpen(at[a])'
  BY <1>1 DEF Makers, Building, MakerOpen, Status
<1>6. home = "onboarding" =>
        /\ \A j \in Maker : Now(j) \in {"running", "unknown"} => ~NowQuarantined(j)
        /\ \A j \in NamespaceCleanup : Now(j) = "none"
        /\ \A a \in Actor : pc'[a] \notin {"unmake", "unmade", "kept"}
  BY <1>1, <1>3 DEF Makers, MakerOpen
<1>7. \A a \in Actor : pc'[a] \in {"call", "answer", "finish", "raze", "close"} =>
        pc[a] \in {"call", "answer", "finish", "raze", "close"}
  BY <1>1
<1>8. \A a \in Actor : Building(a)' => MakerOpen(at[a])'
  BY <1>5
<1>9. QED
  BY <1>2, <1>3, <1>4, <1>6, <1>7, <1>8, MakersKept

LEMMA MindKeeps ==
  ASSUME Inv, home # "gone", ByDeletion, UNCHANGED Mind, RowLaw, upstream' \subseteq upstream,
         namespace' = namespace \/ namespace' # "ready",
         app' => Owned' \/ OpenMaker,
         row' \in [Attempt -> RowState],
         namespace' \in {"none", "ready", "deleting", "unknown", "deleted"},
         app' \in BOOLEAN, key' \in [Attempt -> Actor \cup {"namespace", "lost"}],
         eraser' \in [doing : {"idle", "call", "end"}, rows : SUBSET ({None} \cup Attempt),
                      absent : SUBSET ({None} \cup Attempt), open : BOOLEAN],
         Erasing'
  PROVE  Inv'
<1>1. UNCHANGED <<jobs, identity, belongs, step, home, consent, created, pc, at, got>>
  BY DEF Mind
<1>2. Quiet /\ Rests /\ Claims' /\ Lawful
  BY MindLawful DEF Quiet
<1>3. home # "onboarding" /\ ~OpenHouse /\ \A i \in Attempt : ~IsLive(i)
  BY InvIs DEF ByDeletion, OpenHouse, Erasing
<1>4. Makers'
  BY <1>2, <1>3, MindMakers
<1>5. Served'
  <2>1. \A b \in Actor : pc'[b] \in {"answer", "finish"} => Forward(b) /\ at'[b] = at[b]
    BY <1>1 DEF Forward
  <2>2. QED
    BY <1>2, <1>3, <2>1, ServedNone
<1>6. upstream' \subseteq Attempt
  BY InvIs DEF ShapeWorld
<1>7. Shape'
  BY <1>1, <1>6, InvIs DEF Shape, ShapeJobs, ShapeRest, ShapeWorld, ShapeLocal
<1>8. QED
  BY <1>2, <1>3, <1>4, <1>5, <1>7, KeepsQuiet

LEMMA RecordedIs ==
  ASSUME NEW but
  PROVE  /\ Recorded(but) \subseteq {None} \cup Attempt
         /\ \A n \in Attempt : n \in Recorded(but) <=> row[n] \notin but
         /\ None \in Recorded(but) <=> namespace \notin but
BY Attempts DEF Recorded

LEMMA EraseReadInv ==
  ASSUME Inv, home # "gone", EraseRead
  PROVE  Inv'
<1> DEFINE rows == Recorded({"none"})
           absent == {n \in rows : n \notin Recorded({"none", "deleted"})}
           open == \E j \in JobId : Status(j) \in {"running", "unknown"}
<1>1. /\ ByDeletion /\ UNCHANGED Mind /\ UNCHANGED <<row, namespace, upstream, key, app>>
      /\ eraser' = [doing |-> "call", rows |-> rows, absent |-> absent, open |-> open]
  BY DEF EraseRead, Mind
<1>2. /\ UNCHANGED <<jobs, identity, belongs, home, created>>
      /\ OpenMaker' = OpenMaker /\ Owned' = Owned /\ ByDeletion' = ByDeletion
  BY <1>1 DEF Mind, OpenMaker, MakerOpen, Status, Owned, ByDeletion
<1>3. rows \subseteq 0..created
  <2>1. ASSUME NEW n \in rows PROVE n \in 0..created
    <3>1. n \in {None} \cup Attempt /\ created \in Nat
      BY <2>1, RecordedIs, InvIs DEF ShapeRest
    <3>2. CASE n \in Attempt
      <4>1. row[n] # "none" /\ n \in Nat
        BY <2>1, <3>2, RecordedIs, Attempts
      <4>2. ~(n > created)
        BY <3>2, <4>1, InvIs DEF Numbers
      <4>3. QED
        BY <3>1, <4>1, <4>2
    <3>3. QED
      BY <3>1, <3>2 DEF None
  <2>2. QED
    BY <2>1
<1>4. None \in absent => namespace = "deleted"
  BY RecordedIs
<1>5. None \notin rows => ~Owned
  BY RecordedIs DEF Owned
<1>6. ASSUME ~open, NEW i \in upstream
      PROVE  \E n \in rows \ absent : n # None /\ belongs[n] = i
  <2>1. ~ \E n \in Attempt : belongs[n] = i /\ MakerOpen(Step(n))
    BY <1>6, StepName DEF MakerOpen
  <2>2. PICK m \in Attempt : belongs[m] = i /\ RowOpen(m)
    BY <2>1, InvIs DEF Kept, RowKept
  <2>3. m \in rows /\ m \notin absent /\ m # None
    BY <2>2, RecordedIs, Attempts DEF RowOpen
  <2>4. QED
    BY <2>2, <2>3
<1>7. ~open => ~OpenMaker
  BY Kinds DEF OpenMaker, MakerOpen
<1>8. None \in absent /\ app => OpenMaker
  BY <1>4, InvIs DEF Makers, Owned
<1>9. Erasing'
  <2> HIDE DEF rows, absent, open
  <2>1. ByDeletion' => (\A j \in Maker : Status(j)' # "pending") /\ \A i \in Attempt : ~IsLive(i)'
    BY <1>1, <1>2, InvIs DEF Erasing, Status, IsLive
  <2>2. QED
    BY <1>1, <1>2, <1>3, <1>5, <1>6, <1>7, <1>8, <2>1 DEF Erasing
<1>10. eraser' \in [doing : {"idle", "call", "end"}, rows : SUBSET ({None} \cup Attempt),
                    absent : SUBSET ({None} \cup Attempt), open : BOOLEAN]
  <2>1. rows \subseteq {None} \cup Attempt /\ absent \subseteq {None} \cup Attempt /\ open \in BOOLEAN
    BY RecordedIs
  <2> HIDE DEF rows, absent, open
  <2>2. QED
    BY <1>1, <2>1
<1>11. RowLaw
  BY <1>1, SameRows
<1>12. app' => Owned' \/ OpenMaker
  BY <1>1, <1>2, InvIs DEF Makers
<1>13. QED
  <2> HIDE DEF rows, absent, open
  <2> QED
    BY <1>1, <1>9, <1>10, <1>11, <1>12, MindKeeps, InvIs DEF ShapeRest, ShapeWorld

LEMMA EraserCrashInv ==
  ASSUME Inv, home # "gone", EraserCrash
  PROVE  Inv'
<1>1. /\ UNCHANGED Mind /\ UNCHANGED <<row, namespace, upstream, key, app>>
      /\ eraser.doing # "idle" /\ eraser' = Idle
  BY DEF EraserCrash, Mind
<1>2. ByDeletion
  BY <1>1, InvIs DEF Erasing
<1>3. Erasing'
  <2>1. UNCHANGED <<jobs, identity, home>>
    BY <1>1 DEF Mind
  <2>2. ByDeletion' => (\A j \in Maker : Status(j)' # "pending") /\ \A i \in Attempt : ~IsLive(i)'
    BY <1>2, <2>1, InvIs DEF Erasing, Status, IsLive
  <2>3. QED
    BY <1>1, <2>2 DEF Erasing, Idle
<1>4. app' => Owned' \/ OpenMaker
  BY <1>1, InvIs DEF Makers, Owned
<1>5. eraser' \in [doing : {"idle", "call", "end"}, rows : SUBSET ({None} \cup Attempt),
                   absent : SUBSET ({None} \cup Attempt), open : BOOLEAN]
  BY <1>1 DEF Idle
<1>6. QED
  BY <1>1, <1>2, <1>3, <1>4, <1>5, SameRows, MindKeeps, InvIs DEF ShapeRest, ShapeWorld

LEMMA EraseCallInv ==
  ASSUME Inv, home # "gone", EraseCall
  PROVE  Inv'
<1>1. PICK torn \in SUBSET (eraser.rows \ eraser.absent) :
        /\ eraser' = [eraser EXCEPT !.doing = "end", !.absent = @ \cup torn]
        /\ upstream' = upstream \ {belongs[n] : n \in torn \ {None}}
        /\ IF None \in torn THEN AppGone ELSE UNCHANGED <<app, key>>
  BY DEF EraseCall
<1>2. UNCHANGED Mind /\ UNCHANGED <<row, namespace>> /\ eraser.doing = "call"
  BY DEF EraseCall, Mind
<1>3. ByDeletion
  BY <1>2, InvIs DEF Erasing
<1>4. eraser \in [doing : {"idle", "call", "end"}, rows : SUBSET ({None} \cup Attempt),
                  absent : SUBSET ({None} \cup Attempt), open : BOOLEAN]
  BY InvIs DEF ShapeLocal
<1>5. /\ eraser' \in [doing : {"idle", "call", "end"}, rows : SUBSET ({None} \cup Attempt),
                      absent : SUBSET ({None} \cup Attempt), open : BOOLEAN]
      /\ eraser'.doing = "end" /\ eraser'.rows = eraser.rows /\ eraser'.open = eraser.open
      /\ eraser'.absent = eraser.absent \cup torn
  BY <1>1, <1>4
<1>6. app \in BOOLEAN
  BY InvIs DEF ShapeWorld
<1>7. /\ app' \in BOOLEAN /\ (app' => app) /\ (None \in torn => ~app')
      /\ key' \in [Attempt -> Actor \cup {"namespace", "lost"}]
  <2>1. CASE None \in torn
    BY <1>1, <2>1, KeyGone, InvIs DEF AppGone
  <2>2. CASE None \notin torn
    BY <1>1, <1>6, <2>2, KeySame, InvIs
  <2>3. QED
    BY <2>1, <2>2
<1>8. UNCHANGED <<jobs, identity, belongs, home, created>>
  BY <1>2 DEF Mind
<1>9. OpenMaker' = OpenMaker /\ Owned' = Owned /\ ByDeletion' = ByDeletion
  BY <1>2, <1>8 DEF OpenMaker, MakerOpen, Status, Owned, ByDeletion
<1>10. ASSUME ~eraser.open, eraser.absent \cup torn = eraser.rows, NEW i \in upstream'
       PROVE  FALSE
  <2>1. i \in upstream
    BY <1>1, <1>10
  <2>2. PICK n \in eraser.rows \ eraser.absent : n # None /\ belongs[n] = i
    BY <1>2, <1>10, <2>1, InvIs DEF Erasing
  <2>3. n \in torn
    BY <1>10, <2>2
  <2>4. QED
    BY <1>1, <1>10, <2>2, <2>3
<1>11. Erasing'
  <2>1. ByDeletion' => (\A j \in Maker : Status(j)' # "pending") /\ \A i \in Attempt : ~IsLive(i)'
    BY <1>3, <1>8, InvIs DEF Erasing, Status, IsLive
  <2>2. /\ eraser.rows \subseteq 0..created
        /\ None \in eraser.absent /\ app => OpenMaker
        /\ ~eraser.open => ~OpenMaker /\ (None \notin eraser.rows => ~Owned)
    BY <1>2, InvIs DEF Erasing
  <2>3. QED
    BY <1>3, <1>5, <1>7, <1>8, <1>9, <1>10, <2>1, <2>2 DEF Erasing
<1>12. app' => Owned' \/ OpenMaker
  BY <1>7, <1>9, InvIs DEF Makers
<1>13. upstream' \subseteq upstream
  BY <1>1
<1>14. QED
  BY <1>2, <1>3, <1>5, <1>7, <1>11, <1>12, <1>13, SameRows, MindKeeps, InvIs DEF ShapeRest

\* What the erasure has read, and what it writes back over it.
LEMMA EraseBackInv ==
  ASSUME Inv, home # "gone", astray' = {}, EraseEnd, ~EraseComplete
  PROVE  Inv'
<1>1. /\ eraser.doing = "end" /\ eraser' = Idle /\ UNCHANGED Mind
      /\ UNCHANGED <<upstream, key, app>> /\ WrittenOff = {}
      /\ row' = [n \in Attempt |-> IF n \notin eraser.rows THEN row[n]
                                   ELSE IF n \in eraser.absent THEN "deleted" ELSE "unknown"]
      /\ namespace' = IF None \notin eraser.rows THEN namespace
                      ELSE IF None \in eraser.absent THEN "deleted" ELSE "unknown"
  BY DEF EraseEnd, Mind
<1>2. UNCHANGED <<jobs, identity, belongs, home, created>>
  BY <1>1 DEF Mind
<1>3. /\ ByDeletion /\ eraser.rows \subseteq 0..created
      /\ None \in eraser.absent /\ app => OpenMaker
  BY <1>1, InvIs DEF Erasing
<1>4. eraser.absent \subseteq {None} \cup Attempt /\ None \notin Attempt
  BY InvIs, Attempts DEF ShapeLocal
<1>5. ASSUME NEW n \in Attempt, n \in eraser.absent
      PROVE  row[n] = "deleted" \/ belongs[n] \notin upstream
  <2>1. n \in eraser.absent \ {None}
    BY <1>4, <1>5
  <2>2. QED
    BY <1>1, <2>1 DEF WrittenOff
<1>6. RowLaw
  <2> SUFFICES ASSUME NEW m \in Attempt
               PROVE  /\ row'[m] # row[m] => m \in 1..created
                      /\ RowOpen(m) /\ belongs[m] \in upstream' =>
                           row'[m] \in {"creating", "ready", "deleting", "unknown"}
                      /\ row'[m] = "deleted" /\ row[m] # "deleted" => belongs[m] \notin upstream'
    BY DEF RowLaw
  <2>1. CASE m \notin eraser.rows
    BY <1>1, <2>1 DEF RowOpen
  <2>2. CASE m \in eraser.rows
    <3>1. m \in 1..created
      BY <1>3, <2>2, Attempts
    <3>2. row'[m] = IF m \in eraser.absent THEN "deleted" ELSE "unknown"
      BY <1>1, <2>2
    <3>3. QED
      BY <1>1, <1>5, <3>1, <3>2 DEF RowOpen
  <2>3. QED
    BY <2>1, <2>2
<1>7. row' \in [Attempt -> RowState]
  BY <1>1, InvIs DEF ShapeRest, RowState
<1>8. /\ namespace' \in {"none", "ready", "deleting", "unknown", "deleted"}
      /\ namespace' = namespace \/ namespace' # "ready"
  BY <1>1, InvIs DEF ShapeRest
<1>9. app' => Owned' \/ OpenMaker
  BY <1>1, <1>3, InvIs DEF Makers, Owned
<1>10. Erasing'
  <2>1. ByDeletion' => (\A j \in Maker : Status(j)' # "pending") /\ \A i \in Attempt : ~IsLive(i)'
    BY <1>2, <1>3, InvIs DEF Erasing, Status, IsLive
  <2>2. QED
    BY <1>1, <2>1 DEF Erasing, Idle
<1>11. eraser' \in [doing : {"idle", "call", "end"}, rows : SUBSET ({None} \cup Attempt),
                    absent : SUBSET ({None} \cup Attempt), open : BOOLEAN]
  BY <1>1 DEF Idle
<1>12. QED
  BY <1>1, <1>3, <1>6, <1>7, <1>8, <1>9, <1>10, <1>11, MindKeeps, InvIs DEF ShapeWorld

\* It ends when nothing is left that it read, and nothing was open when it read.
LEMMA EraseCompleteInv ==
  ASSUME Inv, home # "gone", EraseEnd, EraseComplete
  PROVE  Inv'
<1>1. /\ eraser.doing = "end" /\ eraser.absent = eraser.rows /\ ~eraser.open
      /\ eraser' = Idle /\ home' = "gone" /\ jobs' = [j \in JobId |-> NoJob]
      /\ row' = [n \in Attempt |-> "none"] /\ identity' = [i \in Attempt |-> "none"]
      /\ namespace' = "deleted"
      /\ UNCHANGED <<belongs, step, consent, created, upstream, key, app, pc, at, got>>
  BY DEF EraseEnd, EraseComplete
<1>2. /\ upstream = {} /\ ~OpenMaker
      /\ None \notin eraser.rows => ~Owned
      /\ None \in eraser.absent /\ app => OpenMaker
  BY <1>1, InvIs DEF Erasing
<1>3. ~app
  BY <1>1, <1>2, InvIs DEF Makers
<1>4. NoJob \in JobRec /\ NoJob.status = "none"
  BY BoundsAssumption DEF NoJob, JobRec, JobStatus, JobWhy, None
<1>5. Shape'
  <2>1. ShapeJobs'
    BY <1>1, <1>4 DEF ShapeJobs
  <2>2. ShapeRest'
    BY <1>1, InvIs DEF ShapeRest, RowState, IdentityState
  <2>3. ShapeWorld'
    BY <1>1, InvIs DEF ShapeWorld
  <2>4. ShapeLocal'
    BY <1>1, InvIs DEF ShapeLocal, Idle
  <2>5. QED
    BY <2>1, <2>2, <2>3, <2>4 DEF Shape
<1>6. \A j \in JobId : Status(j)' = "none"
  BY <1>1, <1>4 DEF Status
<1>7. Numbers'
  <2>1. \A n \in Attempt : Step(n) \in JobId /\ Making(n) \in JobId
    BY StepName, MakerName DEF Mailboxes
  <2>2. \A j \in CleanJob : j \in JobId
    BY Kinds DEF CleanJob
  <2>3. \A n \in Attempt : n > created => belongs[n] = None
    BY InvIs DEF Numbers
  <2>4. \A n \in Attempt : n <= created => belongs[n] \in 1..created
    BY InvIs DEF Numbers
  <2>5. \A a \in Actor : pc[a] # "idle" /\ at[a] \in StepJob \cup CleanJob => Here(a) \in 1..created
    BY InvIs DEF Numbers
  <2>6. QED
    BY <1>1, <1>2, <1>6, <2>1, <2>2, <2>3, <2>4, <2>5 DEF Numbers, Here
<1>8. Where'
  BY <1>1, InvIs DEF Where, Forward, Backward, Building
<1>9. Gone'
  BY <1>1, <1>2, <1>3, <1>6 DEF Gone, Idle
<1>10. QED
  BY <1>1, <1>5, <1>7, <1>8, <1>9 DEF Inv, OpenHouse

LEMMA EraseInv ==
  ASSUME Inv, home # "gone", astray' = {}, Erase
  PROVE  Inv'
BY EraseReadInv, EraseCallInv, EraseBackInv, EraseCompleteInv DEF Erase

-----------------------------------------------------------------------------
(* A new attempt: the mailbox i is tried by the job m, and nobody is at work *)

Beginning(m, i) ==
  /\ m = created + 1 /\ m \in Attempt /\ i \in Attempt
  /\ created' = m /\ belongs'[m] = i
  /\ \A n \in Attempt : n # m => belongs'[n] = belongs[n]
  /\ home = "onboarding" /\ consent' = TRUE /\ step' \in {"provisioning", "verifying"}
  /\ i = m \/ (IsLive(i) /\ i <= created)
  /\ identity'[i] \in {"provisioning", "waiting", "unknown"}
  /\ \A k \in Attempt : k # i =>
       identity[k] \in {"none", "deleted"} /\ identity'[k] = identity[k]
  /\ i \in upstream => RowKept(i)
  /\ \A a \in Actor : ~Forward(a)
  /\ jobs'[Step(m)].status = "pending" /\ jobs'[Step(m)].why = "none"
  /\ \A n \in Attempt : n # m =>
       /\ Now(Step(n)) \notin Unsettled
       /\ \/ jobs'[Step(n)] = jobs[Step(n)]
          \/ Status(Step(n)) = "waiting" /\ ~NowQuarantined(Step(n)) /\ Now(Step(n)) = "cancelled"
  /\ \A j \in CleanJob \cup NamespaceCleanup : jobs'[j] = jobs[j]
  /\ UNCHANGED <<row, namespace, home, upstream, key, app, eraser, pc, at, got>>
\* The jobs of the namespace, when there is one or one is being made, or not.
SameMakers == \A j \in Maker : jobs'[j] = jobs[j]
OneMaker(m) ==
  /\ ~Made /\ \A j \in Maker : Status(j) \notin {"pending", "running", "unknown"}
  /\ jobs'[Making(m)].status = "pending" /\ jobs'[Making(m)].why = "none"
  /\ \A j \in Maker : j # Making(m) => jobs'[j] = jobs[j]

LEMMA PlacesSame ==
  ASSUME UNCHANGED <<pc, at, got>>, NEW a \in Actor
  PROVE  /\ Forward(a)' = Forward(a) /\ Backward(a)' = Backward(a)
         /\ Building(a)' = Building(a) /\ Here(a)' = Here(a)
BY DEF Forward, Backward, Building, Here

LEMMA WhereSame ==
  ASSUME Inv, UNCHANGED <<pc, at, got>>
  PROVE  Where'
BY InvIs, PlacesSame DEF Where

\* Nothing but the mailbox at hand was alive, and it is not torn down.
LEMMA BeginningIs ==
  ASSUME Inv, NEW m, NEW i, Beginning(m, i)
  PROVE  /\ home # "gone" /\ OpenHouse /\ created \in Nat /\ m \notin 1..created
         /\ 1..created \subseteq Attempt /\ 1..created \subseteq 1..created'
         /\ \A n \in 1..created : belongs'[n] = belongs[n] /\ belongs[n] \in 1..created
         /\ row[m] = "none" /\ Status(Step(m)) = "none" /\ Status(Making(m)) = "none"
         /\ \A k \in 1..created : ~IsLive(k) => identity'[k] \notin Live
         /\ \A k \in Attempt : identity[k] # "disconnecting"
         /\ \A k \in Attempt : identity'[k] = "deleted" => identity[k] = "deleted"
<1>1. /\ home # "gone" /\ OpenHouse /\ created \in Nat /\ m = created + 1 /\ m \in Attempt
      /\ i \in Attempt
  BY InvIs DEF Beginning, OpenHouse, ShapeRest
<1>2. \A n \in 1..created : n \in Attempt /\ n # m
  BY <1>1, Attempts, BoundsAssumption DEF Attempt
<1>3. \A n \in 1..created : belongs'[n] = belongs[n] /\ belongs[n] \in 1..created
  <2> SUFFICES ASSUME NEW n \in 1..created
               PROVE  belongs'[n] = belongs[n] /\ belongs[n] \in 1..created
    OBVIOUS
  <2>1. n <= created /\ n \in Attempt
    BY <1>2
  <2>2. QED
    BY <1>2, <2>1, InvIs DEF Numbers, Beginning
<1>4. m > created
  BY <1>1
<1>5. row[m] = "none" /\ Status(Step(m)) = "none" /\ Status(Making(m)) = "none"
      /\ identity[m] = "none"
  BY <1>1, <1>4, InvIs DEF Numbers
<1>6. \A k \in Attempt : k # i =>
        identity[k] \in {"none", "deleted"} /\ identity'[k] = identity[k]
  BY DEF Beginning
<1>7. i = m \/ IsLive(i)
  BY DEF Beginning
<1>8. \A k \in 1..created : ~IsLive(k) => identity'[k] \notin Live
  <2> SUFFICES ASSUME NEW k \in 1..created, ~IsLive(k) PROVE identity'[k] \notin Live
    OBVIOUS
  <2>1. k # i
    BY <1>2, <1>7
  <2>2. QED
    BY <1>2, <1>6, <2>1 DEF Live
<1>9. \A k \in Attempt : identity[k] # "disconnecting"
  BY <1>5, <1>6, <1>7 DEF IsLive, Live
<1>10. identity'[i] \in {"provisioning", "waiting", "unknown"}
  BY DEF Beginning
<1>11. \A k \in Attempt : identity'[k] = "deleted" => identity[k] = "deleted"
  BY <1>6, <1>10
<1>12. 1..created \subseteq 1..created'
  BY <1>1 DEF Beginning
<1>13. QED
  BY <1>1, <1>2, <1>3, <1>5, <1>8, <1>9, <1>11, <1>12

LEMMA BeginningSafe ==
  ASSUME Inv, NEW m, NEW i, Beginning(m, i), NEW k
  PROVE  Safe(k) => SafeNow(k)
<1>1. UNCHANGED <<row, upstream>> /\ \A n \in Attempt : n # m => belongs'[n] = belongs[n]
  BY DEF Beginning
<1>2. SUFFICES ASSUME Safe(k), k \in upstream
               PROVE  \E n \in Attempt : belongs'[n] = k
                        /\ row'[n] \in {"creating", "ready", "deleting", "unknown"}
  BY <1>1 DEF SafeNow
<1>3. PICK n \in Attempt : belongs[n] = k /\ RowOpen(n)
  BY <1>2 DEF Safe, RowKept
<1>4. n # m
  BY <1>3, BeginningIs DEF RowOpen
<1>5. QED
  BY <1>1, <1>3, <1>4 DEF RowOpen

LEMMA BeginningJob ==
  ASSUME Inv, home # "gone", NEW m, NEW i, Beginning(m, i), SameMakers \/ OneMaker(m), NEW j \in JobId
  PROVE  /\ Status(j) # "none" => Now(j) # "none"
         /\ j \notin StepJob => Now(j) # "waiting"
         /\ j \in StepJob \cup Maker /\ NowQuarantined(j) => Now(j) = "unknown"
<1>1. /\ \A k \in JobId \ StepJob : Status(k) # "waiting"
      /\ \A k \in StepJob \cup Maker : Quarantined(k) => Status(k) = "unknown"
  BY InvIs DEF Handed
<1>2. CASE j \in StepJob
  <2>1. PICK n \in Attempt : j = Step(n)
    BY <1>2, StepIs
  <2>2. CASE n = m
    BY <1>2, <2>1, <2>2 DEF Beginning, Now, NowQuarantined
  <2>3. CASE n # m
    <3>1. \/ jobs'[Step(n)] = jobs[Step(n)]
          \/ Status(Step(n)) = "waiting" /\ ~NowQuarantined(Step(n)) /\ Now(Step(n)) = "cancelled"
      BY <2>3 DEF Beginning
    <3>2. QED
      BY <1>1, <1>2, <2>1, <3>1 DEF Now, NowQuarantined, Status, Quarantined
  <2>4. QED
    BY <2>2, <2>3
<1>3. CASE j \in Maker
  <2>1. j \notin StepJob
    BY <1>3, Kinds
  <2>2. jobs'[j] = jobs[j] \/ (Now(j) = "pending" /\ ~NowQuarantined(j))
    BY <1>3 DEF SameMakers, OneMaker, Now, NowQuarantined
  <2>3. QED
    BY <1>1, <1>3, <2>1, <2>2 DEF Now, NowQuarantined, Status, Quarantined
<1>4. CASE j \in CleanJob \cup NamespaceCleanup
  <2>1. jobs'[j] = jobs[j] /\ j \notin StepJob /\ j \notin Maker
    BY <1>4, Kinds DEF Beginning, CleanJob
  <2>2. QED
    BY <1>1, <2>1 DEF Now, NowQuarantined, Status, Quarantined
<1>5. QED
  BY <1>2, <1>3, <1>4, Kinds DEF CleanJob

LEMMA BeginningNumbers ==
  ASSUME Inv, NEW m, NEW i, Beginning(m, i), SameMakers \/ OneMaker(m)
  PROVE  Numbers'
<1>1. /\ m = created + 1 /\ m \in Attempt /\ i \in Attempt /\ created' = m /\ belongs'[m] = i
      /\ \A n \in Attempt : n # m => belongs'[n] = belongs[n]
      /\ i = m \/ i <= created
      /\ \A k \in Attempt : k # i => identity'[k] = identity[k]
      /\ \A j \in CleanJob : jobs'[j] = jobs[j]
      /\ UNCHANGED <<row, upstream, pc, at, got>>
  BY DEF Beginning
<1>2. created \in Nat /\ \A n \in Attempt : n \in Nat /\ n >= 1
  BY InvIs, Attempts DEF ShapeRest
<1>3. \A n \in Attempt : n <= created => belongs[n] \in 1..created
  BY InvIs DEF Numbers
<1>4. \A n \in Attempt : n <= created' => belongs'[n] \in 1..created'
  BY <1>1, <1>2, <1>3
<1>5. ASSUME NEW n \in Attempt, n > created'
      PROVE  /\ belongs'[n] = None /\ row'[n] = "none" /\ identity'[n] = "none"
             /\ Now(Step(n)) = "none" /\ Now(Making(n)) = "none"
             /\ n \notin upstream'
  <2>1. n > created /\ n # m /\ n # i
    BY <1>1, <1>2, <1>5
  <2>2. /\ belongs[n] = None /\ row[n] = "none" /\ identity[n] = "none"
        /\ Status(Step(n)) = "none" /\ Status(Making(n)) = "none"
        /\ n \notin upstream
    BY <2>1, InvIs DEF Numbers
  <2>3. Now(Step(n)) = "none"
    BY <2>1, <2>2 DEF Beginning, Now, Status
  <2>4. Making(n) # Making(m) /\ Making(n) \in Maker
    BY <1>1, <2>1, MakerName DEF Mailboxes
  <2>5. Now(Making(n)) = "none"
    BY <2>2, <2>4 DEF SameMakers, OneMaker, Now, Status
  <2>6. QED
    BY <1>1, <2>1, <2>2, <2>3, <2>5
<1>6. \A j \in CleanJob : Now(j) # "none" => j[2] \in 1..created' /\ jobs'[j].parent \in 0..created'
  <2> SUFFICES ASSUME NEW j \in CleanJob, Now(j) # "none"
               PROVE  j[2] \in 1..created' /\ jobs'[j].parent \in 0..created'
    OBVIOUS
  <2>1. jobs'[j] = jobs[j] /\ Status(j) # "none"
    BY <1>1 DEF Now, Status
  <2>2. j[2] \in 1..created /\ jobs[j].parent \in 0..created
    BY <2>1, InvIs DEF Numbers
  <2>3. QED
    BY <1>1, <1>2, <2>1, <2>2
<1>7. ASSUME NEW a \in Actor, pc'[a] # "idle", at'[a] \in StepJob \cup CleanJob
      PROVE  Here(a)' \in 1..created'
  <2>1. Here(a) \in 1..created
    BY <1>1, <1>7, InvIs DEF Numbers
  <2>2. QED
    BY <1>1, <2>1, BeginningIs, PlacesSame
<1>8. QED
  BY <1>4, <1>5, <1>6, <1>7 DEF Numbers, Now, Status

LEMMA BeginningParents ==
  ASSUME Inv, NEW m, NEW i, Beginning(m, i)
  PROVE  Parents' /\ OneLeft' /\ Consented' /\ NotDeleted' /\ Kept'
<1>0. home # "gone" /\ created \in Nat
  BY BeginningIs
<1>1. /\ \A n \in 1..created : belongs'[n] = belongs[n] /\ belongs[n] \in 1..created
      /\ \A k \in 1..created : ~IsLive(k) => identity'[k] \notin Live
  BY BeginningIs
<1>2. \A k : Safe(k) => SafeNow(k)
  BY BeginningSafe
<1>3. ASSUME NEW n \in 1..created
      PROVE  (~IsLive(belongs[n]) => ~IsLive(belongs[n])') /\ (Safe(belongs[n]) => Safe(belongs[n])')
  BY <1>1, <1>2, <1>3 DEF IsLive, Safe, SafeNow, RowKept, RowOpen
<1>4. ASSUME NEW j \in CleanJob, Now(j) # "none"
      PROVE  /\ jobs'[j] = jobs[j] /\ Status(j) # "none"
             /\ j[2] \in 1..created /\ jobs[j].parent \in 0..created
  <2>1. jobs'[j] = jobs[j] /\ Status(j) # "none"
    BY <1>4 DEF Beginning, Now, Status
  <2>2. QED
    BY <2>1, InvIs DEF Numbers
<1>5. Parents'
  <2>1. ASSUME NEW j \in CleanJob, Now(j) # "none"
        PROVE  /\ ~IsLive(belongs[j[2]])'
               /\ jobs'[j].parent # None => ~IsLive(belongs[jobs[j].parent])'
    <3>1. /\ ~IsLive(belongs[j[2]])
          /\ jobs[j].parent # None => ~IsLive(belongs[jobs[j].parent])
      BY <1>0, <1>4, <2>1, InvIs DEF Parents
    <3>2. ~IsLive(belongs[j[2]])'
      BY <1>3, <1>4, <2>1, <3>1
    <3>3. ASSUME jobs[j].parent # None PROVE ~IsLive(belongs[jobs[j].parent])'
      <4>1. jobs[j].parent \in 1..created /\ jobs'[j].parent = jobs[j].parent
        BY <1>0, <1>4, <2>1, <3>3 DEF None
      <4> DEFINE p == jobs[j].parent
      <4>2. p' = p
        BY <4>1
      <4> HIDE DEF p
      <4>3. p \in 1..created /\ ~IsLive(belongs[p])
        BY <3>1, <3>3, <4>1 DEF p
      <4>4. ~IsLive(belongs[p])'
        BY <1>1, <4>2, <4>3 DEF IsLive
      <4>5. QED
        BY <4>4 DEF p
    <3>4. QED
      BY <1>4, <2>1, <3>2, <3>3
  <2>2. ASSUME NEW j \in Teardown, Now(j) # "none"
        PROVE  jobs'[j].parent \in {None, j[2]} \/ SafeNow(belongs'[jobs'[j].parent])
    <3>1. j \in CleanJob
      BY DEF CleanJob
    <3>2. jobs'[j] = jobs[j] /\ Status(j) # "none" /\ jobs[j].parent \in 0..created
      BY <1>4, <2>2, <3>1
    <3>3. jobs[j].parent \in {None, j[2]} \/ Safe(belongs[jobs[j].parent])
      BY <1>0, <3>2, InvIs DEF Parents
    <3>4. CASE jobs[j].parent = None
      BY <3>2, <3>4
    <3>5. CASE jobs[j].parent # None
      <4>1. jobs[j].parent \in 1..created
        BY <1>0, <3>2, <3>5 DEF None
      <4>2. QED
        BY <1>1, <1>2, <3>2, <3>3, <4>1
    <3>6. QED
      BY <3>4, <3>5
  <2>3. ASSUME NEW j \in SecretJob, Now(j) # "none"
        PROVE  jobs'[j].parent = j[2] /\ (row'[j[2]] = "deleted" => SafeNow(belongs'[j[2]]))
    <3>1. j \in CleanJob
      BY DEF CleanJob
    <3>2. jobs'[j] = jobs[j] /\ Status(j) # "none" /\ j[2] \in 1..created
      BY <1>4, <2>3, <3>1
    <3>3. jobs[j].parent = j[2] /\ (row[j[2]] = "deleted" => Safe(belongs[j[2]])) /\ row' = row
      BY <1>0, <3>2, InvIs DEF Parents, Beginning
    <3>4. QED
      BY <1>1, <1>2, <3>2, <3>3
  <2>4. QED
    BY <2>1, <2>2, <2>3 DEF Parents, Now, Status, SafeNow, Safe, RowKept, RowOpen
<1>6. /\ identity'[i] \in {"provisioning", "waiting", "unknown"} /\ consent' = TRUE
      /\ \A k \in Attempt : k # i =>
           identity[k] \in {"none", "deleted"} /\ identity'[k] = identity[k]
      /\ upstream' = upstream
  BY DEF Beginning
<1>7. OneLeft' /\ Consented'
  BY <1>6 DEF OneLeft, Consented
<1>8. NotDeleted'
  BY <1>0, <1>6, BeginningIs, InvIs DEF NotDeleted, ShapeWorld
<1>9. Kept'
  <2>1. \A n \in Attempt : ~Unset(n)' \/ n = m
    BY DEF Beginning, Now, Unset, Status
  <2>2. m \in Attempt /\ belongs'[m] = i /\ (i \in upstream => RowKept(i))
    BY DEF Beginning
  <2>3. SafeNow(i)
    BY <1>2, <2>2 DEF Safe
  <2>4. \A n \in Attempt : Status(Step(n))' \in {"pending", "waiting"} => Safe(belongs[n])'
    BY <2>1, <2>2, <2>3 DEF Unset, Unsettled, SafeNow, Safe, RowKept, RowOpen
  <2>5. \A k \in upstream' : RowKept(k)'
    <3> SUFFICES ASSUME NEW k \in upstream PROVE RowKept(k)'
      BY <1>6
    <3>1. CASE k = i
      BY <1>6, <2>3, <3>1 DEF SafeNow, RowKept, RowOpen
    <3>2. CASE k # i
      <4>1. RowKept(k) \/ \E n \in Attempt : belongs[n] = k /\ MakerOpen(Step(n))
        BY <1>0, InvIs DEF Kept
      <4>2. ASSUME NEW n \in Attempt, MakerOpen(Step(n)) PROVE FALSE
        <5>1. n # m
          BY <4>2, BeginningIs DEF MakerOpen
        <5>2. /\ Now(Step(n)) \notin Unsettled
              /\ jobs'[Step(n)] = jobs[Step(n)] \/ Status(Step(n)) = "waiting"
          BY <5>1 DEF Beginning
        <5>3. QED
          BY <4>2, <5>2 DEF MakerOpen, Now, Status, Unsettled
      <4>3. Safe(k)
        BY <4>1, <4>2 DEF Safe
      <4>4. QED
        BY <1>2, <1>6, <4>3 DEF SafeNow, RowKept, RowOpen
    <3>3. QED
      BY <3>1, <3>2
  <2>6. QED
    BY <1>6, <2>4, <2>5 DEF Kept
<1>10. QED
  BY <1>5, <1>7, <1>8, <1>9

LEMMA BeginningClaims ==
  ASSUME Inv, NEW m, NEW i, Beginning(m, i)
  PROVE  Claims' /\ Erasing' /\ Served'
<1>1. /\ home = "onboarding" /\ \A a \in Actor : ~Forward(a)
      /\ UNCHANGED <<home, upstream, pc, at, got, eraser>>
      /\ \A k \in Attempt : k # i =>
           identity[k] \in {"none", "deleted"} /\ identity'[k] = identity[k]
      /\ identity'[i] \in {"provisioning", "waiting", "unknown"}
  BY DEF Beginning
<1>2. ASSUME NEW a \in Actor PROVE Claim(a)'
  <2>1. ~Forward(a)' /\ Backward(a)' = Backward(a) /\ Here(a)' = Here(a)
    BY <1>1, PlacesSame
  <2>2. Claim(a)
    BY <1>1, ClaimsIs, InvIs
  <2>3. pc[a] = "close" => Backward(a)
    BY DEF Backward
  <2>4. ASSUME Backward(a)
        PROVE  /\ Mailbox(a)' = Mailbox(a)
               /\ ~IsLive(Mailbox(a))'
    <3>1. Here(a) \in 1..created /\ Mailbox(a) = belongs[Here(a)]
      BY <2>4, AtStep
    <3>2. Mailbox(a)' = Mailbox(a) /\ Mailbox(a) \in 1..created
      BY <2>1, <3>1, BeginningIs DEF Mailbox
    <3>3. ~IsLive(Mailbox(a))
      BY <2>2, <2>4 DEF Claim
    <3>4. QED
      BY <3>2, <3>3, BeginningIs DEF IsLive
  <2>5. CASE pc[a] = "close"
    <3>1. got[a] \in {"clean", "secret"} => Mailbox(a) \notin upstream
      BY <2>2, <2>5 DEF Claim
    <3>2. QED
      BY <1>1, <2>1, <2>3, <2>4, <2>5, <3>1 DEF Claim
  <2>6. CASE pc[a] = "sweep"
    <3>1. Mailbox(a) \notin upstream
      BY <2>2, <2>6 DEF Claim
    <3>2. at[a] \in CleanJob
      BY <2>6, InvIs DEF Where, CleanJob
    <3>3. Here(a) \in 1..created /\ Mailbox(a) = belongs[Here(a)]
      BY <2>6, <3>2, CleanHand
    <3>4. Mailbox(a)' = Mailbox(a)
      BY <2>1, <3>3, BeginningIs DEF Mailbox
    <3>5. ~Backward(a)
      BY <2>6 DEF Backward
    <3>6. QED
      BY <1>1, <2>1, <2>6, <3>1, <3>4, <3>5 DEF Claim
  <2>7. CASE pc[a] \notin {"close", "sweep"}
    <3>1. ~Backward(a) /\ pc[a] \notin {"gate", "answer", "raze"}
      BY <1>1, <2>7 DEF Backward, Forward
    <3>2. QED
      BY <1>1, <2>1, <2>7, <3>1 DEF Claim
  <2>8. QED
    BY <2>5, <2>6, <2>7
<1>3. Claims'
  BY <1>2, ClaimsNow
<1>4. eraser.doing = "idle"
  BY <1>1, InvIs DEF Erasing, ByDeletion
<1>5. Erasing'
  BY <1>1, <1>4 DEF Erasing, ByDeletion
<1>6. Served'
  <2>1. \A k \in Attempt : identity'[k] # "verified"
    BY <1>1
  <2>2. \A a \in Actor : pc'[a] \notin {"answer", "finish"}
    BY <1>1 DEF Forward
  <2>3. QED
    BY <2>1, <2>2 DEF Served
<1>7. QED
  BY <1>3, <1>5, <1>6

LEMMA BeginningOrdered ==
  ASSUME Inv, NEW m, NEW i, Beginning(m, i)
  PROVE  Ordered'
<1>1. /\ home = "onboarding" /\ \A a \in Actor : ~Forward(a)
      /\ UNCHANGED <<home, upstream, pc, at, got>>
      /\ identity'[i] \in {"provisioning", "waiting", "unknown"}
      /\ step' \in {"provisioning", "verifying"} /\ consent' = TRUE
      /\ m \in Attempt /\ belongs'[m] = i /\ jobs'[Step(m)].why = "none"
      /\ \A j \in CleanJob : jobs'[j] = jobs[j]
  BY DEF Beginning
<1>2. \A a \in Actor : ~Forward(a)'
  BY <1>1, PlacesSame
<1>3. \A n \in Attempt : Unset(n)' => n = m
  BY DEF Beginning, Now, Unset, Status
<1>4. Hands' /\ Untouched'
  BY <1>2 DEF Hands, Untouched
<1>5. OneOpen'
  BY <1>3 DEF OneOpen
<1>6. Wanted'
  <2>1. ~Quarantined(Step(m))'
    BY <1>1 DEF Quarantined
  <2>2. Verifiable(belongs[m])'
    BY <1>1 DEF Verifiable
  <2>3. \A n \in Attempt : Verifiable(belongs[n])' \/ n # m
    BY <2>2
  <2>4. QED
    BY <1>1, <1>3, <2>1, <2>3 DEF Wanted, Active, InProgress
<1>7. Steps'
  BY <1>1 DEF Steps
<1>8. Secrets'
  <2>1. OpenHouse /\ created \in Nat /\ 1..created \subseteq Attempt
        /\ \A n \in 1..created : belongs[n] \in 1..created
        /\ \A k \in Attempt : identity[k] # "disconnecting"
    BY BeginningIs
  <2>2. ASSUME NEW j \in SecretJob PROVE Now(j) = Status(j) /\ Now(j) \notin {"pending", "running", "unknown"}
    <3>1. Now(j) = Status(j)
      BY <1>1 DEF Now, Status, CleanJob
    <3>2. ASSUME Status(j) \in {"pending", "running", "unknown"} PROVE FALSE
      <4>1. identity[belongs[j[2]]] = "disconnecting"
        BY <2>1, <3>2, InvIs DEF Secrets
      <4>2. j[2] \in 1..created
        BY <3>2, InvIs DEF Numbers, CleanJob
      <4>3. QED
        BY <2>1, <4>1, <4>2
    <3>3. QED
      BY <3>1, <3>2
  <2>3. \A a \in Actor : pc[a] = "clean" /\ at[a] \in SecretJob =>
          Status(at[a]) \in {"running", "unknown"}
    BY <2>1, InvIs DEF Secrets
  <2>4. \A a \in Actor : ~(pc[a] = "clean" /\ at[a] \in SecretJob)
    BY <2>2, <2>3
  <2>5. \A a \in Actor : pc[a] \in {"clean", "sweep"} /\ at[a] \in Teardown =>
          Now(at[a]) # "pending"
    <3> SUFFICES ASSUME NEW a \in Actor, pc[a] \in {"clean", "sweep"}, at[a] \in Teardown
                 PROVE  Now(at[a]) # "pending"
      OBVIOUS
    <3>1. Status(at[a]) # "pending"
      BY <2>1, InvIs DEF Secrets
    <3>2. jobs'[at[a]] = jobs[at[a]]
      BY <1>1 DEF CleanJob
    <3>3. QED
      BY <3>1, <3>2 DEF Now, Status
  <2>6. \A a \in Actor : pc'[a] \in {"clean", "sweep"} /\ at'[a] \in Teardown =>
          jobs'[at'[a]].status # "pending"
    BY <1>1, <2>5 DEF Now
  <2>7. \A a \in Actor : ~(pc'[a] = "clean" /\ at'[a] \in SecretJob)
    BY <1>1, <2>4
  <2>8. \A j \in SecretJob : jobs'[j].status \notin {"pending", "running", "unknown"}
    BY <2>2 DEF Now
  <2>9. QED
    BY <2>6, <2>7, <2>8 DEF Secrets, Status
<1>9. QED
  BY <1>4, <1>5, <1>6, <1>7, <1>8 DEF Ordered

\* What is only stopped was not made, and stays the last to be made.
StillMakers ==
  \A j \in Maker :
    \/ jobs'[j] = jobs[j]
    \/ Status(j) = "pending" /\ Now(j) = "cancelled" /\ ~NowQuarantined(j)
    \/ Status(j) \in {"running", "unknown"} /\ Now(j) = "unknown"

LEMMA MakersStill ==
  ASSUME Inv, home # "gone", StillMakers,
         home' = "onboarding" => /\ home = "onboarding" /\ SameMakers
                                 /\ \A j \in NamespaceCleanup : jobs'[j] = jobs[j],
         home' = "onboarding" /\ step' \in {"verified", "waiting_user"} => Made,
         namespace' = namespace \/ (namespace' # "ready" /\ Owned'),
         home' = "onboarding" => namespace' = namespace,
         UNCHANGED <<upstream, app, pc, at, got>>
  PROVE  Makers'
<1>1. \A j \in Maker : /\ Now(j) = "none" <=> Status(j) = "none"
                       /\ Now(j) \in {"pending", "running", "unknown"} =>
                            Status(j) \in {"pending", "running", "unknown"}
                       /\ Status(j) \in {"running", "unknown"} => Now(j) \in {"running", "unknown"}
                       /\ Now(j) = "succeeded" <=> Status(j) = "succeeded"
  <2> SUFFICES ASSUME NEW j \in Maker
               PROVE  /\ Now(j) = "none" <=> Status(j) = "none"
                      /\ Now(j) \in {"pending", "running", "unknown"} =>
                            Status(j) \in {"pending", "running", "unknown"}
                      /\ Status(j) \in {"running", "unknown"} => Now(j) \in {"running", "unknown"}
                      /\ Now(j) = "succeeded" <=> Status(j) = "succeeded"
    OBVIOUS
  <2>1. \/ Now(j) = Status(j)
        \/ Status(j) = "pending" /\ Now(j) = "cancelled"
        \/ Status(j) \in {"running", "unknown"} /\ Now(j) = "unknown"
    BY DEF StillMakers, Now, Status
  <2>2. QED
    BY <2>1
<1>2. PICK n \in Mailboxes : /\ Status(Making(n)) # "none"
                             /\ \A m \in Mailboxes : Status(Making(m)) # "none" => m <= n
  BY InvIs DEF Makers, Mailboxes
<1>3. \A m \in Mailboxes : Making(m) \in Maker
  BY MakerName
<1>4. Now(Making(n)) # "none" /\ \A m \in Mailboxes : Now(Making(m)) # "none" => m <= n
  BY <1>1, <1>2, <1>3
<1>5. LatestMaker' = LatestMaker
  <2>1. \A m \in Attempt : Making(m) \in Maker
    BY <1>3 DEF Mailboxes
  <2>2. {m \in Attempt : Status(Making(m))' # "none"} = {m \in Attempt : Status(Making(m)) # "none"}
    BY <1>1, <2>1 DEF Now, Status
  <2>3. QED
    BY <2>2 DEF LatestMaker
<1>6. LatestMaker \in Maker
  BY LatestIsMaker
<1>7. Made' <=> Made
  BY <1>1, <1>5, <1>6 DEF Made, Now, Status
<1>8. ASSUME NEW p \in Mailboxes, Now(Making(p)) \in {"pending", "running", "unknown"},
             NEW m \in Mailboxes, Now(Making(m)) # "none"
      PROVE  m <= p
  <2>1. Status(Making(p)) \in {"pending", "running", "unknown"} /\ Status(Making(m)) # "none"
    BY <1>1, <1>3, <1>8
  <2>2. QED
    BY <2>1, InvIs DEF Makers, Mailboxes
<1>9. namespace' = "ready" => Made'
  BY <1>7, InvIs DEF Makers
<1>10. home' = "onboarding" =>
         /\ Made' => namespace' = "ready"
         /\ step' \in {"verified", "waiting_user"} => Made'
         /\ \A j \in Maker : MakerOpen(j)' => ~Quarantined(j)'
         /\ \A j \in NamespaceCleanup : Now(j) = "none"
         /\ \A a \in Actor : pc'[a] \notin {"unmake", "unmade", "kept"}
  <2> SUFFICES ASSUME home' = "onboarding"
               PROVE  /\ Made' => namespace' = "ready"
                      /\ step' \in {"verified", "waiting_user"} => Made'
                      /\ \A j \in Maker : MakerOpen(j)' => ~Quarantined(j)'
                      /\ \A j \in NamespaceCleanup : Now(j) = "none"
                      /\ \A a \in Actor : pc'[a] \notin {"unmake", "unmade", "kept"}
    OBVIOUS
  <2>1. /\ home = "onboarding" /\ namespace' = namespace /\ \A j \in Maker : jobs'[j] = jobs[j]
        /\ \A j \in NamespaceCleanup : jobs'[j] = jobs[j]
        /\ step' \in {"verified", "waiting_user"} => Made
    BY DEF SameMakers
  <2>2. /\ Made => namespace = "ready"
        /\ \A j \in Maker : MakerOpen(j) => ~Quarantined(j)
        /\ \A j \in NamespaceCleanup : Status(j) = "none"
        /\ \A a \in Actor : pc[a] \notin {"unmake", "unmade", "kept"}
    BY <2>1, InvIs DEF Makers
  <2>3. QED
    BY <1>7, <2>1, <2>2 DEF MakerOpen, Quarantined, Now, Status
<1>11. \A a \in Actor : Building(a)' => MakerOpen(at[a])'
  <2> SUFFICES ASSUME NEW a \in Actor, Building(a)'
               PROVE  jobs'[at'[a]].status \in {"running", "unknown"}
    BY DEF MakerOpen, Status
  <2>1. Building(a) /\ at'[a] = at[a]
    BY PlacesSame
  <2>2. MakerOpen(at[a]) /\ at[a] \in Maker
    BY <2>1, InvIs DEF Makers, Where
  <2>3. QED
    BY <1>1, <2>1, <2>2 DEF MakerOpen, Now
<1>12. app' => Owned' \/ OpenMaker'
  <2>1. app => Owned \/ OpenMaker
    BY InvIs DEF Makers
  <2>2. ASSUME OpenMaker PROVE OpenMaker'
    <3>1. PICK j \in Maker : MakerOpen(j)
      BY <2>2 DEF OpenMaker
    <3>2. QED
      BY <1>1, <3>1 DEF OpenMaker, MakerOpen, Now, Status
  <2>3. Owned => Owned'
    BY DEF Owned
  <2>4. QED
    BY <2>1, <2>2, <2>3
<1>13. /\ upstream' # {} => Made'
       /\ \A a \in Actor : pc'[a] \in {"call", "answer", "finish", "raze", "close"} => Made'
  BY <1>7, InvIs DEF Makers
<1>14. QED
  BY <1>4, <1>8, <1>9, <1>10, <1>11, <1>12, <1>13 DEF Makers, Now, Status, Mailboxes

LEMMA BeginningMakers ==
  ASSUME Inv, NEW m, NEW i, Beginning(m, i), SameMakers \/ OneMaker(m)
  PROVE  Makers'
<1>1. /\ home = "onboarding" /\ home' = home /\ home # "gone"
      /\ step' \in {"provisioning", "verifying"} /\ m \in Attempt /\ m = created + 1
      /\ UNCHANGED <<namespace, upstream, app, pc, at, got>>
      /\ \A j \in NamespaceCleanup : jobs'[j] = jobs[j]
  BY BeginningIs DEF Beginning
<1>2. CASE SameMakers
  BY <1>1, <1>2, MakersStill DEF StillMakers, SameMakers
<1>3. CASE OneMaker(m)
  <2>1. /\ ~Made /\ \A j \in Maker : Status(j) \notin {"pending", "running", "unknown"}
        /\ jobs'[Making(m)].status = "pending" /\ jobs'[Making(m)].why = "none"
        /\ \A j \in Maker : j # Making(m) => jobs'[j] = jobs[j]
    BY <1>3 DEF OneMaker
  <2>2. m \in Mailboxes /\ Making(m) \in Maker /\ \A n \in Mailboxes : Making(n) \in Maker
    BY <1>1, MakerName DEF Mailboxes
  <2>3. \A n \in Mailboxes : Now(Making(n)) # "none" => n <= m
    <3> SUFFICES ASSUME NEW n \in Mailboxes, Now(Making(n)) # "none", n # m PROVE n <= m
      BY <1>1, Attempts
    <3>1. Making(n)[2] = n /\ Making(m)[2] = m
      BY <2>2, MakerName
    <3>2. Status(Making(n)) # "none"
      BY <2>1, <2>2, <3>1 DEF Now, Status
    <3>3. created \in Nat /\ n \in Nat
      BY Attempts, InvIs DEF ShapeRest, Mailboxes
    <3>4. n <= created
      BY <3>2, <3>3, InvIs DEF Numbers, Mailboxes, None
    <3>5. QED
      BY <1>1, <3>3, <3>4
  <2>4. Now(Making(m)) = "pending"
    BY <2>1 DEF Now
  <2>5. LatestMaker' = Making(m)
    <3>1. {n \in Attempt : Now(Making(n)) # "none"} \subseteq Mailboxes
      BY DEF Mailboxes
    <3>2. Latest({n \in Attempt : Now(Making(n)) # "none"}) = m
      BY <1>1, <2>3, <2>4, <3>1, LatestOf DEF Mailboxes
    <3>3. QED
      BY <3>2 DEF LatestMaker, Now, Status
  <2>6. ~Made'
    BY <2>1, <2>5 DEF Made, Status
  <2>7. /\ namespace # "ready" /\ upstream = {}
        /\ \A a \in Actor : pc[a] \notin {"call", "answer", "finish", "raze", "close"}
        /\ \A a \in Actor : pc[a] \notin {"unmake", "unmade", "kept"}
        /\ \A a \in Actor : ~Building(a)
        /\ app => Owned
        /\ \A j \in NamespaceCleanup : Status(j) = "none"
    <3>1. \A j \in Maker : ~MakerOpen(j)
      BY <2>1 DEF MakerOpen
    <3>2. \A a \in Actor : Building(a) => at[a] \in Maker
      BY InvIs DEF Where
    <3>3. QED
      BY <1>1, <2>1, <3>1, <3>2, InvIs DEF Makers, OpenMaker
  <2>8. \A p \in Mailboxes : Now(Making(p)) \in {"pending", "running", "unknown"} => p = m
    <3> SUFFICES ASSUME NEW p \in Mailboxes, Now(Making(p)) \in {"pending", "running", "unknown"},
                        p # m
                 PROVE  FALSE
      OBVIOUS
    <3>1. Making(p) # Making(m) /\ Making(p) \in Maker
      BY <2>2, MakerName
    <3>2. QED
      BY <2>1, <3>1 DEF Now, Status
  <2>9. \A j \in Maker : MakerOpen(j)' => ~Quarantined(j)'
    BY <2>1 DEF MakerOpen, Quarantined, Status
  <2>10. \A a \in Actor : ~Building(a)'
    BY <1>1, <2>7, PlacesSame
  <2>11. app' => Owned'
    BY <1>1, <2>7 DEF Owned
  <2>12. \A j \in NamespaceCleanup : Now(j) = "none"
    BY <1>1, <2>7 DEF Now, Status
  <2>13. QED
    BY <1>1, <2>2, <2>3, <2>4, <2>6, <2>7, <2>8, <2>9, <2>10, <2>11, <2>12
       DEF Makers, Now, Status, Mailboxes
<1>4. QED
  BY <1>2, <1>3

LEMMA BeginningInv ==
  ASSUME Inv, NEW m, NEW i, Beginning(m, i), SameMakers \/ OneMaker(m), Shape'
  PROVE  Inv'
<1>1. home # "gone" /\ OpenHouse /\ home' = home
  BY BeginningIs DEF Beginning
<1>2. UNCHANGED <<pc, at, got>>
  BY DEF Beginning
<1>3. Handed'
  <2>1. ASSUME NEW a \in Actor, pc'[a] # "idle" PROVE Now(at'[a]) # "none"
    <3>1. Status(at[a]) # "none" /\ at[a] \in JobId /\ at'[a] = at[a]
      BY <1>1, <1>2, <2>1, InvIs DEF Handed, ShapeLocal
    <3>2. QED
      BY <1>1, <3>1, BeginningJob
  <2>2. \A j \in JobId \ StepJob : Now(j) # "waiting"
    BY <1>1, BeginningJob
  <2>3. \A j \in StepJob \cup Maker : NowQuarantined(j) => Now(j) = "unknown"
    BY <1>1, BeginningJob, Kinds
  <2>4. QED
    BY <2>1, <2>2, <2>3 DEF Handed, Now, NowQuarantined, Status, Quarantined
<1>4. QED
  BY <1>1, <1>2, <1>3, WhereSame, BeginningNumbers, BeginningParents, BeginningClaims,
     BeginningOrdered, BeginningMakers DEF Inv, OpenHouse

LEMMA StartEffect ==
  ASSUME Inv, plan \in Plans, created < plan.attempts, NEW js \in [JobId -> JobRec],
         NEW op \in {"ensure", "inspect"}, NEW i \in Attempt,
         js[Step(NextAttempt)].status = "none", StartJob(js, op, i)
  PROVE  /\ NextAttempt = created + 1 /\ NextAttempt \in Attempt /\ created' = NextAttempt
         /\ jobs' \in [JobId -> JobRec]
         /\ jobs'[Step(NextAttempt)].status = "pending" /\ jobs'[Step(NextAttempt)].why = "none"
         /\ \A j \in JobId : j # Step(NextAttempt) => jobs'[j] = js[j]
         /\ belongs' \in [Attempt -> Mailboxes] /\ belongs'[NextAttempt] = i
         /\ \A n \in Attempt : n # NextAttempt => belongs'[n] = belongs[n]
<1>1. NextAttempt = created + 1 /\ NextAttempt \in Attempt
  <2>1. plan.attempts \in Attempt
    BY PlanAssumption
  <2>2. created \in Nat
    BY InvIs DEF ShapeRest
  <2>3. QED
    BY <2>1, <2>2, BoundsAssumption DEF NextAttempt, Attempt
<1>2. Step(NextAttempt) \in JobId
  BY <1>1, StepName
<1>3. i \in Mailboxes /\ None \in Mailboxes /\ op \in {"ensure", "inspect", "clean"}
  BY DEF Mailboxes
<1>4. /\ New(op, i, None) \in JobRec
      /\ New(op, i, None).status = "pending" /\ New(op, i, None).why = "none"
  BY <1>3, NewJob
<1>5. jobs' = Create(js, Step(NextAttempt), New(op, i, None))
      /\ belongs' = [belongs EXCEPT ![NextAttempt] = i] /\ created' = NextAttempt
  BY DEF StartJob
<1>6. belongs \in [Attempt -> Mailboxes]
  BY InvIs DEF ShapeRest, Mailboxes
<1>7. /\ jobs' \in [JobId -> JobRec] /\ jobs'[Step(NextAttempt)] = New(op, i, None)
      /\ \A j \in JobId : j # Step(NextAttempt) => jobs'[j] = js[j]
  BY <1>2, <1>4, <1>5, CreateJob
<1>8. /\ belongs' \in [Attempt -> Mailboxes] /\ belongs'[NextAttempt] = i
      /\ \A n \in Attempt : n # NextAttempt => belongs'[n] = belongs[n]
  BY <1>1, <1>3, <1>5, <1>6
<1>9. QED
  BY <1>1, <1>4, <1>5, <1>7, <1>8

\* While no job of the step is unsettled nobody works at one.
LEMMA NobodyForward ==
  ASSUME Inv, OpenHouse, \A n \in Attempt : Status(Step(n)) \notin {"running", "unknown"}
  PROVE  \A a \in Actor : ~Forward(a)
BY InForward

\* What is upstream is on record, when nothing is under way.
LEMMA OnRecord ==
  ASSUME Inv, home # "gone", \A n \in Attempt : ~MakerOpen(Step(n)), NEW i, i \in upstream
  PROVE  RowKept(i)
BY InvIs DEF Kept

LEMMA NextIsNew ==
  ASSUME Inv, NextAttempt \in Attempt
  PROVE  /\ Status(Step(NextAttempt)) = "none" /\ Status(Making(NextAttempt)) = "none"
         /\ row[NextAttempt] = "none" /\ identity[NextAttempt] = "none"
         /\ NextAttempt \notin upstream /\ NextAttempt \notin 1..created
<1>1. created \in Nat
  BY InvIs DEF ShapeRest
<1>2. NextAttempt > created
  BY <1>1 DEF NextAttempt
<1>3. QED
  BY <1>1, <1>2, InvIs DEF Numbers

LEMMA SelectInv ==
  ASSUME Inv, plan \in Plans, Select
  PROVE  Inv'
<1> DEFINE m == NextAttempt
<1>1. /\ OpenHouse /\ step = "available" /\ created < plan.attempts
      /\ \A i \in Attempt : identity[i] # "disconnecting"
      /\ consent' = TRUE /\ step' = "provisioning"
      /\ identity' = [identity EXCEPT ![m] = "provisioning"]
      /\ StartJob(jobs, "ensure", m)
      /\ UNCHANGED <<row, namespace, home, upstream, key, app, eraser, pc, at, got>>
  BY DEF Select, CanAttempt
<1>2. jobs \in [JobId -> JobRec] /\ created \in Nat /\ home # "gone"
  BY <1>1, InvIs DEF ShapeJobs, ShapeRest
<1>3. m \in Attempt
  BY <1>1, <1>2, PlanAssumption, BoundsAssumption DEF NextAttempt, Attempt
<1>4. /\ Status(Step(m)) = "none" /\ row[m] = "none" /\ identity[m] = "none" /\ m \notin upstream
  BY <1>3, NextIsNew
<1>5. /\ m = created + 1 /\ created' = m /\ jobs' \in [JobId -> JobRec]
      /\ jobs'[Step(m)].status = "pending" /\ jobs'[Step(m)].why = "none"
      /\ \A j \in JobId : j # Step(m) => jobs'[j] = jobs[j]
      /\ belongs' \in [Attempt -> Mailboxes] /\ belongs'[m] = m
      /\ \A n \in Attempt : n # m => belongs'[n] = belongs[n]
  BY <1>1, <1>2, <1>3, <1>4, StartEffect DEF Status
<1>6. home = "onboarding" /\ \A i \in Attempt : ~IsLive(i)
  BY <1>1, <1>2, InvIs DEF Steps, OpenHouse, ShapeRest
<1>7. \A n \in Attempt : Status(Step(n)) \notin Unsettled
  <2> SUFFICES ASSUME NEW n \in Attempt, Unset(n) PROVE FALSE
    BY DEF Unset
  <2>1. ~Active(n)
    BY <1>1, InvIs DEF Wanted, InProgress
  <2>2. identity[belongs[n]] = "disconnecting"
    BY <1>1, <2>1, InvIs DEF Wanted
  <2>3. n <= created
    BY <1>2, Attempts, InvIs DEF Numbers, Unset, Unsettled
  <2>4. belongs[n] \in Attempt
    <3>1. n \in 1..created
      BY <1>2, <2>3, Attempts
    <3>2. QED
      BY <3>1, AttemptMade, InvIs
  <2>5. QED
    BY <1>1, <2>2, <2>4
<1>8. \A a \in Actor : ~Forward(a)
  BY <1>1, <1>7, NobodyForward DEF Unsettled
<1>9. identity' \in [Attempt -> IdentityState] /\ identity'[m] = "provisioning"
      /\ \A k \in Attempt : k # m => identity'[k] = identity[k]
  BY <1>1, <1>3, InvIs DEF ShapeRest, IdentityState, Live
<1>10. \A k \in Attempt : identity[k] \in {"none", "deleted"}
  BY <1>1, <1>6, InvIs DEF ShapeRest, IdentityState, IsLive
<1>11. \A n \in Attempt : n # m => jobs'[Step(n)] = jobs[Step(n)] /\ Step(n) # Step(m)
  BY <1>3, <1>5, StepName
<1>12. \A j \in CleanJob \cup NamespaceCleanup \cup Maker : jobs'[j] = jobs[j]
  <2>1. \A j \in CleanJob \cup NamespaceCleanup \cup Maker : j \in JobId /\ j # Step(m)
    BY <1>3, StepName, Kinds DEF CleanJob
  <2>2. QED
    BY <1>5, <2>1
<1>13. SameMakers
  BY <1>12 DEF SameMakers
<1>14. Beginning(m, m)
  BY <1>1, <1>3, <1>4, <1>5, <1>6, <1>7, <1>8, <1>9, <1>10, <1>11, <1>12 DEF Beginning, Now, Status
<1>15. Shape'
  BY <1>1, <1>3, <1>5, <1>9, InvIs, BoundsAssumption
     DEF Shape, ShapeJobs, ShapeRest, ShapeWorld, ShapeLocal, InProgress, Mailboxes, Attempt
<1> HIDE DEF m
<1>16. QED
  BY <1>13, <1>14, <1>15, BeginningInv

LEMMA CurrentIs ==
  ASSUME Inv, home # "gone", Current # None
  PROVE  /\ Current \in Attempt /\ IsLive(Current)
         /\ \A k \in Attempt : k # Current => identity[k] \in {"none", "deleted"}
         /\ Current \in 1..created /\ home = "onboarding" /\ OpenHouse /\ consent
<1>1. \A x, y \in {i \in Attempt : identity[i] \in Live} : x = y
  BY InvIs DEF OneLeft, Live
<1>2. Current \in {i \in Attempt : identity[i] \in Live}
  BY <1>1, LatestOne DEF Current
<1>3. Current \in Attempt /\ IsLive(Current)
  BY <1>2 DEF IsLive
<1>4. \A k \in Attempt : k # Current => identity[k] \in {"none", "deleted"}
  BY <1>3, InvIs DEF OneLeft, IsLive, Live
<1>5. home = "onboarding" /\ OpenHouse /\ consent
  BY <1>3, LiveIsOnboarding, InvIs DEF Consented
<1>6. Current <= created
  <2>1. identity[Current] # "none"
    BY <1>3 DEF IsLive, Live
  <2>2. created \in Nat /\ Current \in Nat
    BY <1>3, Attempts, InvIs DEF ShapeRest
  <2>3. ~(Current > created)
    BY <1>3, <2>1, InvIs DEF Numbers
  <2>4. QED
    BY <2>2, <2>3
<1>7. Current \in 1..created
  BY <1>3, <1>6, Attempts, InvIs DEF ShapeRest
<1>8. QED
  BY <1>3, <1>4, <1>5, <1>7

\* An unsettled job of a house with a mailbox is that mailbox's, and active.
LEMMA OpenIsCurrent ==
  ASSUME Inv, home # "gone", Current # None, NEW n \in Attempt, Unset(n)
  PROVE  Active(n) /\ belongs[n] = Current /\ step \in InProgress /\ Verifiable(Current)
<1>1. Current \in Attempt /\ IsLive(Current) /\ OpenHouse
      /\ \A k \in Attempt : k # Current => identity[k] \in {"none", "deleted"}
  BY CurrentIs
<1>2. n \in 1..created
  <2>1. created \in Nat /\ n \in Nat /\ n >= 1
    BY Attempts, InvIs DEF ShapeRest
  <2>2. ~(n > created)
    BY InvIs DEF Numbers, Unset, Unsettled
  <2>3. QED
    BY <2>1, <2>2
<1>3. belongs[n] \in Attempt
  BY <1>2, AttemptMade, InvIs
<1>4. Active(n)
  <2>1. SUFFICES ASSUME ~Active(n) PROVE FALSE
    OBVIOUS
  <2>2. identity[belongs[n]] = "disconnecting"
    BY <1>1, <2>1, InvIs DEF Wanted
  <2>3. QED
    BY <1>1, <1>3, <2>2 DEF IsLive, Live
<1>5. step \in InProgress /\ Verifiable(belongs[n])
  BY <1>1, <1>4, InvIs DEF Wanted
<1>6. belongs[n] = Current
  BY <1>1, <1>3, <1>5 DEF Verifiable
<1>7. QED
  BY <1>4, <1>5, <1>6

LEMMA RetryInv ==
  ASSUME Inv, plan \in Plans, Retry
  PROVE  Inv'
<1> DEFINE m == NextAttempt
           c == Current
           js == IF NeedsNamespace
                 THEN Create(jobs, Making(m), New("ensure", None, None)) ELSE jobs
<1>1. /\ OpenHouse /\ step = "failed" /\ created < plan.attempts
      /\ c # None /\ step' = "provisioning"
      /\ identity' = [identity EXCEPT ![c] = "provisioning"]
      /\ StartJob(js, "ensure", c)
      /\ UNCHANGED <<row, namespace, home, consent, upstream, key, app, eraser, pc, at, got>>
  BY DEF Retry, CanAttempt
<1>2. jobs \in [JobId -> JobRec] /\ created \in Nat /\ home # "gone"
  BY <1>1, InvIs DEF ShapeJobs, ShapeRest
<1>3. m \in Attempt
  BY <1>1, <1>2, PlanAssumption, BoundsAssumption DEF NextAttempt, Attempt
<1>4. /\ Status(Step(m)) = "none" /\ row[m] = "none" /\ identity[m] = "none"
      /\ Status(Making(m)) = "none" /\ m \notin 1..created
  BY <1>3, NextIsNew
<1>5. /\ c \in Attempt /\ IsLive(c) /\ c \in 1..created /\ home = "onboarding" /\ consent
      /\ \A k \in Attempt : k # c => identity[k] \in {"none", "deleted"}
  BY <1>1, <1>2, CurrentIs
<1>6. /\ Making(m) \in Maker /\ Making(m) \in JobId /\ Step(m) \in JobId
      /\ \A n \in Attempt : Step(n) # Making(m) /\ Step(n) \in JobId /\ (Step(n) = Step(m) => n = m)
      /\ \A j \in CleanJob \cup NamespaceCleanup :
           j \in JobId /\ j # Making(m) /\ j # Step(m)
      /\ \A j \in Maker : j \in JobId /\ j # Step(m)
  <2>1. Making(m) \in Maker
    BY <1>3, MakerName DEF Mailboxes
  <2>2. \A n \in Attempt : Step(n) \in StepJob
    BY StepName
  <2>3. QED
    BY <1>3, <2>1, <2>2, StepsDiffer, Kinds DEF CleanJob
<1>7. /\ js \in [JobId -> JobRec] /\ \A j \in JobId : j # Making(m) => js[j] = jobs[j]
      /\ ~NeedsNamespace => js = jobs
      /\ NeedsNamespace => js[Making(m)].status = "pending" /\ js[Making(m)].why = "none"
  <2>1. CASE NeedsNamespace
    <3>1. /\ New("ensure", None, None) \in JobRec
          /\ New("ensure", None, None).status = "pending" /\ New("ensure", None, None).why = "none"
      BY NewJob DEF Mailboxes
    <3>2. js = Create(jobs, Making(m), New("ensure", None, None))
      BY <2>1
    <3>3. QED
      BY <1>2, <1>4, <1>6, <2>1, <3>1, <3>2, CreateJob DEF Status
  <2>2. CASE ~NeedsNamespace
    BY <1>2, <2>2
  <2>3. QED
    BY <2>1, <2>2
<1> HIDE DEF js
<1>8. js[Step(m)].status = "none"
  BY <1>3, <1>4, <1>6, <1>7 DEF Status
<1>9. /\ m = created + 1 /\ created' = m /\ jobs' \in [JobId -> JobRec]
      /\ jobs'[Step(m)].status = "pending" /\ jobs'[Step(m)].why = "none"
      /\ \A j \in JobId : j # Step(m) => jobs'[j] = js[j]
      /\ belongs' \in [Attempt -> Mailboxes] /\ belongs'[m] = c
      /\ \A n \in Attempt : n # m => belongs'[n] = belongs[n]
  BY <1>1, <1>5, <1>7, <1>8, StartEffect
<1>10. \A n \in Attempt : Status(Step(n)) \notin Unsettled
  BY <1>1, <1>2, OpenIsCurrent DEF Unset, InProgress
<1>11. \A a \in Actor : ~Forward(a)
  BY <1>1, <1>10, NobodyForward DEF Unsettled
<1>12. c \in upstream => RowKept(c)
  BY <1>2, <1>10, OnRecord DEF MakerOpen, Unsettled
<1>13. identity' \in [Attempt -> IdentityState] /\ identity'[c] = "provisioning"
      /\ \A k \in Attempt : k # c => identity'[k] = identity[k]
  BY <1>1, <1>5, InvIs DEF ShapeRest, IdentityState, Live
<1>14. \A n \in Attempt : n # m => jobs'[Step(n)] = jobs[Step(n)]
  BY <1>6, <1>7, <1>9
<1>15. \A j \in CleanJob \cup NamespaceCleanup : jobs'[j] = jobs[j]
  BY <1>6, <1>7, <1>9
<1>16. SameMakers \/ OneMaker(m)
  <2>1. CASE ~NeedsNamespace
    BY <1>6, <1>7, <1>9, <2>1 DEF SameMakers
  <2>2. CASE NeedsNamespace
    <3>1. namespace # "ready" /\ \A j \in Maker : Status(j) \notin {"pending", "running", "unknown"}
      BY <2>2 DEF NeedsNamespace
    <3>2. ~Made
      BY <1>2, <1>5, <3>1, InvIs DEF Makers
    <3>3. QED
      BY <1>6, <1>7, <1>9, <2>2, <3>1, <3>2 DEF OneMaker
  <2>3. QED
    BY <2>1, <2>2
<1>17. c <= created
  BY <1>2, <1>5
<1> HIDE DEF m, c
<1>18. Beginning(m, c)
  BY <1>1, <1>3, <1>5, <1>9, <1>10, <1>11, <1>12, <1>13, <1>14, <1>15, <1>17
     DEF Beginning, Now, Status
<1>19. Shape'
  <2>1. ShapeJobs'
    BY <1>9 DEF ShapeJobs
  <2>2. m \in 0..AttemptMax
    BY <1>3, BoundsAssumption DEF Attempt
  <2>3. ShapeRest'
    BY <1>1, <1>9, <1>13, <2>2, InvIs DEF ShapeRest, InProgress, Mailboxes
  <2>4. ShapeWorld' /\ ShapeLocal'
    BY <1>1, InvIs DEF ShapeWorld, ShapeLocal
  <2>5. QED
    BY <2>1, <2>3, <2>4 DEF Shape
<1>20. QED
  BY <1>16, <1>18, <1>19, BeginningInv

LEMMA CheckInv ==
  ASSUME Inv, plan \in Plans, Check
  PROVE  Inv'
<1> DEFINE m == NextAttempt
           c == Current
           w == WaitingAttempt
           js == Settle(jobs, Step(w), "cancelled", jobs[Step(w)].why)
<1>1. /\ OpenHouse /\ step = "waiting_user" /\ created < plan.attempts
      /\ c # None /\ w # None /\ step' = "verifying"
      /\ StartJob(js, "inspect", c)
      /\ UNCHANGED <<row, identity, namespace, home, consent, upstream, key, app, eraser,
                     pc, at, got>>
  BY DEF Check
<1>2. jobs \in [JobId -> JobRec] /\ created \in Nat /\ home # "gone"
  BY <1>1, InvIs DEF ShapeJobs, ShapeRest
<1>3. m \in Attempt
  BY <1>1, <1>2, PlanAssumption, BoundsAssumption DEF NextAttempt, Attempt
<1>4. Status(Step(m)) = "none" /\ row[m] = "none" /\ identity[m] = "none" /\ m \notin 1..created
  BY <1>3, NextIsNew
<1>5. /\ c \in Attempt /\ IsLive(c) /\ c \in 1..created /\ home = "onboarding" /\ consent
      /\ \A k \in Attempt : k # c => identity[k] \in {"none", "deleted"}
  BY <1>1, <1>2, CurrentIs
<1>6. w \in Attempt /\ Status(Step(w)) = "waiting"
  <2>1. \A x, y \in {n \in Attempt : Status(Step(n)) = "waiting"} : x = y
    BY <1>1, InvIs DEF OneOpen, Unset, Unsettled
  <2>2. w \in {n \in Attempt : Status(Step(n)) = "waiting"}
    BY <1>1, <2>1, LatestOne DEF WaitingAttempt
  <2>3. QED
    BY <2>2
<1>7. \A n \in Attempt : Unset(n) => n = w
  BY <1>1, <1>6, InvIs DEF OneOpen, Unset, Unsettled
<1>8. Verifiable(c) /\ ~Quarantined(Step(w)) /\ m # w
  BY <1>1, <1>2, <1>4, <1>6, OpenIsCurrent DEF Unset, Unsettled, Active
<1>9. /\ Step(w) \in JobId /\ Step(m) \in JobId
      /\ \A n \in Attempt : Step(n) \in JobId /\ (n # m => Step(n) # Step(m))
                            /\ (n # w => Step(n) # Step(w))
      /\ \A j \in CleanJob \cup NamespaceCleanup \cup Maker :
           j \in JobId /\ j # Step(w) /\ j # Step(m)
  <2>1. \A n \in Attempt : Step(n) \in StepJob
    BY StepName
  <2>2. QED
    BY <1>3, <1>6, <2>1, StepsDiffer, Kinds DEF CleanJob
<1>10. jobs[Step(w)].why \in JobWhy /\ "cancelled" \in JobStatus
  BY <1>2, <1>9 DEF JobRec, JobStatus
<1>11. /\ js \in [JobId -> JobRec] /\ js[Step(w)].status = "cancelled"
       /\ js[Step(w)].why = jobs[Step(w)].why
       /\ \A k \in JobId : k # Step(w) => js[k] = jobs[k]
  BY <1>2, <1>9, <1>10, SettleJob
<1> HIDE DEF js
<1>12. js[Step(m)].status = "none"
  BY <1>3, <1>4, <1>8, <1>9, <1>11 DEF Status
<1>13. /\ m = created + 1 /\ created' = m /\ jobs' \in [JobId -> JobRec]
       /\ jobs'[Step(m)].status = "pending" /\ jobs'[Step(m)].why = "none"
       /\ \A j \in JobId : j # Step(m) => jobs'[j] = js[j]
       /\ belongs' \in [Attempt -> Mailboxes] /\ belongs'[m] = c
       /\ \A n \in Attempt : n # m => belongs'[n] = belongs[n]
  BY <1>1, <1>5, <1>11, <1>12, StartEffect
<1>14. \A n \in Attempt : Status(Step(n)) \notin {"running", "unknown"}
  BY <1>6, <1>7 DEF Unset, Unsettled
<1>15. \A a \in Actor : ~Forward(a)
  BY <1>1, <1>14, NobodyForward
<1>16. c \in upstream => RowKept(c)
  BY <1>2, <1>14, OnRecord DEF MakerOpen
<1>17. ASSUME NEW n \in Attempt, n # m
       PROVE  /\ Now(Step(n)) \notin Unsettled
              /\ \/ jobs'[Step(n)] = jobs[Step(n)]
                 \/ Status(Step(n)) = "waiting" /\ ~NowQuarantined(Step(n)) /\ Now(Step(n)) = "cancelled"
  <2>1. jobs'[Step(n)] = js[Step(n)]
    BY <1>9, <1>13, <1>17
  <2>2. CASE n = w
    BY <1>6, <1>8, <1>11, <2>1, <2>2 DEF Now, NowQuarantined, Quarantined, Unsettled
  <2>3. CASE n # w
    <3>1. js[Step(n)] = jobs[Step(n)]
      BY <1>9, <1>11, <2>3
    <3>2. Status(Step(n)) \notin Unsettled
      BY <1>7, <2>3 DEF Unset
    <3>3. QED
      BY <2>1, <3>1, <3>2 DEF Now, Status
  <2>4. QED
    BY <2>2, <2>3
<1>18. \A j \in CleanJob \cup NamespaceCleanup \cup Maker : jobs'[j] = jobs[j]
  BY <1>9, <1>11, <1>13
<1>19. c <= created
  BY <1>2, <1>5
<1> HIDE DEF m, c, w
<1>20. identity'[c] \in {"provisioning", "waiting", "unknown"}
  BY <1>1, <1>8 DEF Verifiable
<1>21. Beginning(m, c)
  BY <1>1, <1>3, <1>5, <1>13, <1>15, <1>16, <1>17, <1>18, <1>19, <1>20 DEF Beginning
<1>22. Shape'
  <2>1. ShapeJobs'
    BY <1>13 DEF ShapeJobs
  <2>2. m \in 0..AttemptMax
    BY <1>3, BoundsAssumption DEF Attempt
  <2>3. ShapeRest'
    BY <1>1, <1>13, <2>2, InvIs DEF ShapeRest, InProgress, Mailboxes
  <2>4. ShapeWorld' /\ ShapeLocal'
    BY <1>1, InvIs DEF ShapeWorld, ShapeLocal
  <2>5. QED
    BY <2>1, <2>3, <2>4 DEF Shape
<1>23. SameMakers
  BY <1>18 DEF SameMakers
<1>24. QED
  BY <1>21, <1>22, <1>23, BeginningInv

-----------------------------------------------------------------------------
(* A disconnection: the jobs of the step are stopped, what is on record is  *)
(* to be torn down, and p is the attempt that waited                        *)

Stops(n) ==
  \/ Status(Step(n)) = "pending" /\ Now(Step(n)) = "cancelled" /\ ~NowQuarantined(Step(n))
  \/ /\ Status(Step(n)) \in {"running", "waiting", "unknown"}
     /\ Now(Step(n)) = "unknown" /\ NowQuarantined(Step(n))
  \/ Status(Step(n)) \notin Unsettled /\ jobs'[Step(n)] = jobs[Step(n)]
Leaves(k) ==
  \/ identity'[k] = IF IsLive(k) THEN "disconnecting" ELSE identity[k]
  \/ /\ identity'[k] = "deleted" /\ Closable(jobs', row')
     /\ IsLive(k) \/ identity[k] = "disconnecting"
Leaving(p) ==
  /\ \A n \in Attempt : Stops(n) /\ Leaves(n)
  /\ \A n \in Attempt : row'[n] = row[n] \/ (row'[n] = "deleting" /\ RowOpen(n))
  /\ \A j \in SecretJob : jobs'[j] = jobs[j]
  /\ \A j \in Teardown :
       \/ jobs'[j] = jobs[j]
       \/ /\ Status(j) = "none" /\ Now(j) = "pending" /\ jobs'[j].parent = p
          /\ j[2] \in Attempt /\ row[j[2]] # "none"
  /\ p = None \/ (p \in Attempt /\ Status(Step(p)) = "waiting")
  /\ \A j \in NamespaceCleanup : jobs'[j] = jobs[j] \/ (Status(j) = "none" /\ Now(j) = "pending")
  /\ StillMakers
  /\ home # "gone" /\ home' # "gone" /\ (ByDeletion' <=> ByDeletion)
  /\ home' = "draft" => step' \in {"verified", "cancelled"}
  /\ ByDeletion => SameMakers /\ namespace' = namespace
  /\ UNCHANGED <<belongs, created, upstream, key, app, eraser, pc, at, got>>

LEMMA LeavingIs ==
  ASSUME Inv, NEW p, Leaving(p)
  PROVE  /\ \A k \in Attempt : identity'[k] \notin Live
         /\ \A k \in Attempt : identity'[k] \notin {"none", "deleted"} =>
              identity[k] \notin {"none", "deleted"}
         /\ \A k : Safe(k) => SafeNow(k)
         /\ \A n \in Attempt : RowOpen(n) => RowOpen(n)'
         /\ \A n \in Attempt : row'[n] = "deleted" => row[n] = "deleted"
         /\ \A n \in Attempt : Unset(n)' => Unset(n) /\ ~Active(n)'
         /\ \A n \in Attempt : Status(Step(n)) # "none" => n \in 1..created
<1>0. \A k \in Attempt : Leaves(k)
  BY Zenon DEF Leaving
<1>1. \A k \in Attempt : identity'[k] \notin Live
      /\ (identity'[k] \notin {"none", "deleted"} => identity[k] \notin {"none", "deleted"})
  BY <1>0 DEF Leaves, IsLive, Live
<1>2. \A n \in Attempt : row'[n] = row[n] \/ (row'[n] = "deleting" /\ RowOpen(n))
  BY DEF Leaving
<1>3. \A n \in Attempt : (RowOpen(n) => RowOpen(n)') /\ (row'[n] = "deleted" => row[n] = "deleted")
  BY <1>2 DEF RowOpen
<1>4. UNCHANGED <<belongs, upstream>>
  BY DEF Leaving
<1>5. \A k : Safe(k) => SafeNow(k)
  BY <1>3, <1>4 DEF Safe, SafeNow, RowKept, RowOpen
<1>6. \A n \in Attempt : Unset(n)' => Unset(n) /\ ~Active(n)'
  <2> SUFFICES ASSUME NEW n \in Attempt, Now(Step(n)) \in Unsettled
               PROVE  Unset(n) /\ NowQuarantined(Step(n))
    BY DEF Unset, Active, Now, NowQuarantined, Status, Quarantined
  <2>1. Stops(n)
    BY Zenon DEF Leaving
  <2>2. QED
    BY <2>1 DEF Stops, Unset, Unsettled, Now, Status
<1>7. \A n \in Attempt : Status(Step(n)) # "none" => n \in 1..created
  <2>1. created \in Nat /\ \A n \in Attempt : n \in Nat /\ n >= 1
    BY Attempts, InvIs DEF ShapeRest
  <2>2. QED
    BY <2>1, InvIs DEF Numbers
<1>8. QED
  BY <1>1, <1>3, <1>5, <1>6, <1>7

LEMMA LeavingJob ==
  ASSUME Inv, NEW p, Leaving(p), NEW j \in JobId
  PROVE  /\ Status(j) # "none" => Now(j) # "none"
         /\ j \notin StepJob => Now(j) # "waiting"
         /\ j \in StepJob \cup Maker /\ NowQuarantined(j) => Now(j) = "unknown"
<1>0. home # "gone"
  BY DEF Leaving
<1>1. /\ \A k \in JobId \ StepJob : Status(k) # "waiting"
      /\ \A k \in StepJob \cup Maker : Quarantined(k) => Status(k) = "unknown"
  BY <1>0, InvIs DEF Handed
<1>2. CASE j \in StepJob
  <2>1. PICK n \in Attempt : j = Step(n)
    BY <1>2, StepIs
  <2>2. Stops(n)
    BY Zenon DEF Leaving
  <2>3. QED
    BY <1>1, <1>2, <2>1, <2>2 DEF Stops, Now, NowQuarantined, Status, Quarantined
<1>3. CASE j \in Maker
  <2>1. j \notin StepJob
    BY <1>3, Kinds
  <2>2. \/ jobs'[j] = jobs[j]
        \/ Now(j) = "cancelled" /\ ~NowQuarantined(j)
        \/ Now(j) = "unknown"
    BY <1>3 DEF Leaving, StillMakers
  <2>3. QED
    BY <1>1, <1>3, <2>1, <2>2 DEF Now, NowQuarantined, Status, Quarantined
<1>4. CASE j \in SecretJob \cup Teardown \cup NamespaceCleanup
  <2>1. j \notin StepJob /\ j \notin Maker
    BY <1>4, Kinds
  <2>2. jobs'[j] = jobs[j] \/ Now(j) = "pending"
    BY <1>4 DEF Leaving
  <2>3. QED
    BY <1>1, <2>1, <2>2 DEF Now, Status
<1>5. QED
  BY <1>2, <1>3, <1>4, Kinds

LEMMA LeavingNumbers ==
  ASSUME Inv, NEW p, Leaving(p)
  PROVE  Numbers' /\ Handed' /\ Where'
<1>0. home # "gone" /\ UNCHANGED <<belongs, created, upstream, pc, at, got>>
  BY DEF Leaving
<1>1. ASSUME NEW n \in Attempt, n > created
      PROVE  /\ belongs'[n] = None /\ row'[n] = "none" /\ identity'[n] = "none"
             /\ Now(Step(n)) = "none" /\ Now(Making(n)) = "none"
             /\ n \notin upstream'
  <2>1. /\ belongs[n] = None /\ row[n] = "none" /\ identity[n] = "none"
        /\ Status(Step(n)) = "none" /\ Status(Making(n)) = "none"
        /\ n \notin upstream
    BY <1>1, InvIs DEF Numbers
  <2>2. Stops(n) /\ Leaves(n) /\ StillMakers
    BY Zenon DEF Leaving
  <2>3. row'[n] = row[n] \/ RowOpen(n)
    BY DEF Leaving
  <2>4. Now(Step(n)) = "none"
    BY <2>1, <2>2 DEF Stops, Now, Status, Unsettled
  <2>5. Now(Making(n)) = "none"
    BY <2>1, <2>2, MakerName DEF StillMakers, Now, Status, Mailboxes
  <2>6. identity'[n] = "none"
    BY <2>1, <2>2 DEF Leaves, IsLive, Live
  <2>7. QED
    BY <1>0, <2>1, <2>3, <2>4, <2>5, <2>6 DEF RowOpen
<1>2. ASSUME NEW j \in CleanJob, Now(j) # "none"
      PROVE  j[2] \in 1..created /\ jobs'[j].parent \in 0..created
  <2>1. CASE jobs'[j] = jobs[j]
    <3>1. Status(j) # "none"
      BY <1>2, <2>1 DEF Now, Status
    <3>2. QED
      BY <2>1, <3>1, InvIs DEF Numbers
  <2>2. CASE jobs'[j] # jobs[j]
    <3>1. /\ jobs'[j].parent = p /\ j[2] \in Attempt /\ row[j[2]] # "none"
          /\ p = None \/ (p \in Attempt /\ Status(Step(p)) = "waiting")
      BY <2>2 DEF Leaving, CleanJob
    <3>2. created \in Nat /\ \A n \in Attempt : n \in Nat /\ n >= 1
      BY Attempts, InvIs DEF ShapeRest
    <3>3. ~(j[2] > created)
      BY <3>1, InvIs DEF Numbers
    <3>4. p # None => p \in 1..created
      BY <3>1, LeavingIs
    <3>5. QED
      BY <3>1, <3>2, <3>3, <3>4 DEF None
  <2>3. QED
    BY <2>1, <2>2
<1>3. \A a \in Actor : pc'[a] # "idle" /\ at'[a] \in StepJob \cup CleanJob => Here(a)' \in 1..created'
  BY <1>0, PlacesSame, InvIs DEF Numbers
<1>4. \A n \in Attempt : n <= created' => belongs'[n] \in 1..created'
  BY <1>0, InvIs DEF Numbers
<1>5. Numbers'
  BY <1>0, <1>1, <1>2, <1>3, <1>4 DEF Numbers, Now, Status
<1>6. ASSUME NEW a \in Actor, pc'[a] # "idle" PROVE Now(at'[a]) # "none"
  <2>1. Status(at[a]) # "none" /\ at[a] \in JobId /\ at'[a] = at[a]
    BY <1>0, <1>6, InvIs DEF Handed, ShapeLocal
  <2>2. QED
    BY <2>1, LeavingJob
<1>7. \A j \in JobId \ StepJob : Now(j) # "waiting"
  BY LeavingJob
<1>8. \A j \in StepJob \cup Maker : NowQuarantined(j) => Now(j) = "unknown"
  BY LeavingJob, Kinds
<1>9. Handed'
  BY <1>6, <1>7, <1>8 DEF Handed, Now, NowQuarantined, Status, Quarantined
<1>10. QED
  BY <1>0, <1>5, <1>9, WhereSame

LEMMA LeavingKept ==
  ASSUME Inv, NEW p, Leaving(p)
  PROVE  Kept' /\ Consented' /\ OneLeft' /\ NotDeleted'
<1>0. home # "gone" /\ UNCHANGED <<belongs, created, upstream>>
  BY DEF Leaving
<1>1. \A n \in Attempt : Stops(n) /\ Leaves(n)
  BY Zenon DEF Leaving
<1>2. ASSUME NEW n \in Attempt, MakerOpen(Step(n)) PROVE MakerOpen(Step(n))'
  <2>1. Stops(n)
    BY <1>1
  <2>2. QED
    BY <1>2, <2>1 DEF Stops, MakerOpen, Now, Status, Unsettled
<1>3. \A i \in upstream' :
        RowKept(i)' \/ \E n \in Attempt : belongs'[n] = i /\ MakerOpen(Step(n))'
  <2> SUFFICES ASSUME NEW i \in upstream
               PROVE  RowKept(i)' \/ \E n \in Attempt : belongs'[n] = i /\ MakerOpen(Step(n))'
    BY <1>0
  <2>1. RowKept(i) \/ \E n \in Attempt : belongs[n] = i /\ MakerOpen(Step(n))
    BY <1>0, InvIs DEF Kept
  <2>2. RowKept(i) => RowKept(i)'
    BY <1>0, LeavingIs DEF RowKept
  <2>3. QED
    BY <1>0, <1>2, <2>1, <2>2
<1>4. ASSUME NEW n \in Attempt PROVE Now(Step(n)) \notin {"pending", "waiting"}
  <2>1. Stops(n)
    BY <1>1
  <2>2. QED
    BY <2>1 DEF Stops, Now, Status, Unsettled
<1>5. \A n \in Attempt : ~Active(n)'
  BY LeavingIs DEF Active
<1>6. Kept'
  BY <1>3, <1>4, <1>5 DEF Kept, Now, Status
<1>7. Consented' /\ OneLeft'
  <2>1. \A k \in Attempt : ~IsLive(k)'
    BY LeavingIs DEF IsLive
  <2>2. QED
    BY <1>0, <2>1, LeavingIs, InvIs DEF Consented, OneLeft
<1>8. ASSUME NEW i \in upstream', identity'[i] = "deleted" PROVE FALSE
  <2>1. i \in Attempt /\ i \in upstream
    BY <1>0, <1>8, InvIs DEF ShapeWorld
  <2>2. identity[i] # "deleted"
    BY <1>0, <2>1, InvIs DEF NotDeleted
  <2>3. Leaves(i)
    BY <1>1, <2>1
  <2>4. Closable(jobs', row')
    BY <1>8, <2>2, <2>3 DEF Leaves
  <2>5. CASE RowKept(i)'
    BY <2>4, <2>5 DEF Closable, RowKept, RowOpen
  <2>6. CASE \E n \in Attempt : MakerOpen(Step(n))'
    <3>1. PICK n \in Attempt : Now(Step(n)) \in {"running", "unknown"}
      BY <2>6 DEF MakerOpen, Now, Status
    <3>2. Step(n) \in StepJob
      BY StepName
    <3>3. QED
      BY <2>4, <3>1, <3>2 DEF Closable, Now, Unsettled
  <2>7. QED
    BY <1>3, <1>8, <2>5, <2>6
<1>9. QED
  BY <1>6, <1>7, <1>8 DEF NotDeleted

LEMMA LeavingParents ==
  ASSUME Inv, NEW p, Leaving(p)
  PROVE  Parents'
<1>0. home # "gone" /\ UNCHANGED <<belongs, created, upstream>>
  BY DEF Leaving
<1>1. \A k : Safe(k) => SafeNow(k)
  BY LeavingIs
<1>2. \A k \in Attempt : ~IsLive(k)'
  BY LeavingIs DEF IsLive
<1>3. 1..created \subseteq Attempt /\ \A n \in 1..created : belongs[n] \in Attempt
  BY AttemptMade, InvIs
<1>4. created \in Nat
  BY InvIs DEF ShapeRest
<1>5. Numbers'
  BY LeavingNumbers
<1>6. ASSUME NEW j \in CleanJob, Now(j) # "none"
      PROVE  j[2] \in 1..created /\ jobs'[j].parent \in 0..created
  BY <1>0, <1>5, <1>6 DEF Numbers, Now, Status
<1>7. ASSUME NEW j \in CleanJob, Now(j) # "none"
      PROVE  /\ ~IsLive(belongs[j[2]])'
             /\ jobs'[j].parent # None => ~IsLive(belongs[jobs[j].parent])'
  <2>1. identity'[belongs[j[2]]] \notin Live
    BY <1>2, <1>3, <1>6, <1>7 DEF IsLive
  <2>2. jobs'[j].parent # None => identity'[belongs[jobs'[j].parent]] \notin Live
    BY <1>2, <1>3, <1>4, <1>6, <1>7 DEF IsLive, None
  <2>3. QED
    BY <1>0, <2>1, <2>2 DEF IsLive
<1>8. ASSUME NEW j \in Teardown, Now(j) # "none"
      PROVE  jobs'[j].parent \in {None, j[2]} \/ SafeNow(belongs[jobs'[j].parent])
  <2>1. CASE jobs'[j] = jobs[j]
    <3>1. Status(j) # "none"
      BY <1>8, <2>1 DEF Now, Status
    <3>2. jobs[j].parent \in {None, j[2]} \/ Safe(belongs[jobs[j].parent])
      BY <1>0, <3>1, InvIs DEF Parents
    <3>3. QED
      BY <1>1, <2>1, <3>2
  <2>2. CASE jobs'[j] # jobs[j]
    <3>1. jobs'[j].parent = p
      BY <2>2 DEF Leaving
    <3>2. p = None \/ (p \in Attempt /\ Status(Step(p)) = "waiting")
      BY DEF Leaving
    <3>3. p = None \/ Safe(belongs[p])
      BY <1>0, <3>2, InvIs DEF Kept
    <3>4. QED
      BY <1>1, <3>1, <3>3
  <2>3. QED
    BY <2>1, <2>2
<1>9. ASSUME NEW j \in SecretJob, Now(j) # "none"
      PROVE  jobs'[j].parent = j[2] /\ (row'[j[2]] = "deleted" => SafeNow(belongs[j[2]]))
  <2>1. jobs'[j] = jobs[j] /\ j \in CleanJob
    BY DEF Leaving, CleanJob
  <2>2. Status(j) # "none" /\ j[2] \in Attempt
    BY <1>3, <1>6, <1>9, <2>1 DEF Now, Status
  <2>3. jobs[j].parent = j[2] /\ (row[j[2]] = "deleted" => Safe(belongs[j[2]]))
    BY <1>0, <2>2, InvIs DEF Parents
  <2>4. row'[j[2]] = "deleted" => row[j[2]] = "deleted"
    BY <2>2, LeavingIs
  <2>5. QED
    BY <1>1, <2>1, <2>3, <2>4
<1>10. QED
  BY <1>0, <1>7, <1>8, <1>9 DEF Parents, Now, Status, SafeNow, Safe, RowKept, RowOpen, IsLive

LEMMA LeavingClaims ==
  ASSUME Inv, NEW p, Leaving(p)
  PROVE  Claims'
<1>0. home # "gone" /\ UNCHANGED <<belongs, upstream, pc, at, got>>
  BY DEF Leaving
<1>1. ASSUME NEW a \in Actor PROVE Claim(a)'
  <2>1. /\ Forward(a)' = Forward(a) /\ Backward(a)' = Backward(a)
        /\ Here(a)' = Here(a) /\ Mailbox(a)' = Mailbox(a)
    BY <1>0, PlacesSame DEF Mailbox
  <2>2. Claim(a)
    BY <1>0, ClaimsIs, InvIs
  <2>3. Safe(Mailbox(a)) => Safe(Mailbox(a))'
    BY <2>1, LeavingIs DEF SafeNow, Safe, RowKept, RowOpen
  <2>4. CASE Forward(a) \/ Backward(a)
    <3>1. Here(a) \in Attempt /\ at[a] = Step(Here(a)) /\ Mailbox(a) \in Attempt
      BY <2>4, AtStep
    <3>2. row'[Here(a)] = "deleted" => row[Here(a)] = "deleted"
      BY <3>1, LeavingIs
    <3>3. ~IsLive(Mailbox(a))'
      BY <2>1, <3>1, LeavingIs DEF IsLive
    <3>4. Stops(Here(a))
      BY <3>1, Zenon DEF Leaving
    <3>5. Mailbox(a) = belongs[Here(a)]
      BY DEF Mailbox
    <3>6. ASSUME Forward(a), Now(at[a]) = "cancelled" PROVE Safe(Mailbox(a))
      <4>1. Status(at[a]) \in {"pending", "cancelled"}
        BY <3>1, <3>4, <3>6 DEF Stops, Now, Status
      <4>2. CASE Status(at[a]) = "cancelled"
        BY <2>2, <3>6, <4>2 DEF Claim
      <4>3. CASE Status(at[a]) = "pending"
        BY <1>0, <3>1, <3>5, <4>3, InvIs DEF Kept
      <4>4. QED
        BY <4>1, <4>2, <4>3
    <3>7. Forward(a)' /\ Status(at[a])' = "cancelled" => Safe(Mailbox(a))'
      BY <1>0, <2>1, <2>3, <3>6 DEF Now, Status
    <3>8. pc'[a] = "raze" /\ row'[Here(a)'] = "deleted" => Safe(Mailbox(a))'
      BY <1>0, <2>1, <2>2, <2>3, <3>2 DEF Claim
    <3>9. pc'[a] = "gate" /\ got'[a] # "reclaimed" => Safe(Mailbox(a))'
      BY <1>0, <2>2, <2>3 DEF Claim
    <3>10. /\ pc'[a] = "answer" /\ got'[a] \in {"rejected", "limited", "absent"}
                => Mailbox(a)' \notin upstream'
           /\ pc'[a] = "close" /\ got'[a] \in {"clean", "secret"} => Mailbox(a)' \notin upstream'
           /\ pc'[a] = "sweep" => Mailbox(a)' \notin upstream'
      BY <1>0, <2>1, <2>2 DEF Claim
    <3>11. QED
      BY <3>3, <3>7, <3>8, <3>9, <3>10 DEF Claim
  <2>5. CASE ~(Forward(a) \/ Backward(a))
    <3>1. pc'[a] \notin {"gate", "call", "answer", "finish", "raze", "close"}
      BY <1>0, <2>5 DEF Forward, Backward
    <3>2. pc'[a] = "sweep" => Mailbox(a)' \notin upstream'
      BY <1>0, <2>1, <2>2 DEF Claim
    <3>3. QED
      BY <2>1, <2>5, <3>1, <3>2 DEF Claim
  <2>6. QED
    BY <2>4, <2>5
<1>2. QED
  BY <1>1, ClaimsNow

LEMMA LeavingErasing ==
  ASSUME Inv, NEW p, Leaving(p), ByDeletion => step' = step
  PROVE  Erasing' /\ Served'
<1>0. home # "gone" /\ UNCHANGED <<belongs, created, upstream, app, eraser, pc, at, got>>
      /\ (ByDeletion' <=> ByDeletion) /\ (ByDeletion => SameMakers /\ namespace' = namespace)
  BY DEF Leaving
<1>1. \A k \in Attempt : ~IsLive(k)'
  BY LeavingIs DEF IsLive
<1>2. Erasing'
  <2>1. CASE ~ByDeletion
    <3>1. eraser.doing = "idle"
      BY <1>0, <2>1, InvIs DEF Erasing
    <3>2. QED
      BY <1>0, <2>1, <3>1 DEF Erasing
  <2>2. CASE ByDeletion
    <3>1. SameMakers /\ namespace' = namespace
      BY <1>0, <2>2
    <3>2. /\ OpenMaker' <=> OpenMaker
          /\ \A j \in Maker : Status(j)' = Status(j)
      BY <3>1 DEF SameMakers, OpenMaker, MakerOpen, Status
    <3>3. Owned' <=> Owned
      BY <3>1 DEF Owned
    <3>4. /\ \A j \in Maker : Status(j) # "pending"
          /\ eraser.doing # "idle" =>
               /\ ByDeletion /\ eraser.rows \subseteq 0..created
               /\ None \in eraser.absent /\ app => OpenMaker
          /\ eraser.doing # "idle" /\ ~eraser.open =>
               /\ ~OpenMaker
               /\ None \notin eraser.rows => ~Owned
               /\ eraser.doing = "call" =>
                    \A i \in upstream : \E n \in eraser.rows \ eraser.absent : n # None /\ belongs[n] = i
               /\ eraser.doing = "end" /\ eraser.absent = eraser.rows => upstream = {}
      BY <1>0, <2>2, InvIs DEF Erasing
    <3>5. (\A j \in Maker : Status(j)' # "pending") /\ ByDeletion'
      BY <1>0, <2>2, <3>2, <3>4
    <3>6. eraser' = eraser /\ created' = created /\ upstream' = upstream /\ belongs' = belongs
          /\ app' = app
      BY <1>0
    <3>7. QED
      BY <1>1, <3>2, <3>3, <3>4, <3>5, <3>6 DEF Erasing
  <2>3. QED
    BY <2>1, <2>2
<1>3. \A a \in Actor : pc'[a] \in {"answer", "finish"} => ~IsLive(Mailbox(a))'
  <2> SUFFICES ASSUME NEW a \in Actor, pc'[a] \in {"answer", "finish"}
               PROVE  ~IsLive(Mailbox(a))'
    OBVIOUS
  <2>1. Forward(a)
    BY <1>0 DEF Forward
  <2>2. Mailbox(a) \in Attempt
    BY <2>1, AtStep
  <2>3. Mailbox(a)' = Mailbox(a)
    BY <1>0, PlacesSame DEF Mailbox
  <2>4. QED
    BY <1>1, <2>2, <2>3 DEF IsLive
<1>4. Served'
  <2>1. \A i \in Attempt : identity'[i] # "verified"
    BY <1>1 DEF IsLive, Live
  <2>2. QED
    BY <1>3, <2>1 DEF Served
<1>5. QED
  BY <1>2, <1>4

LEMMA LeavingOrdered ==
  ASSUME Inv, NEW p, Leaving(p), OpenHouse
  PROVE  Ordered'
<1>0. home # "gone" /\ UNCHANGED <<belongs, created, upstream, pc, at, got>>
  BY DEF Leaving
<1>1. \A n \in Attempt : Stops(n) /\ Leaves(n)
  BY Zenon DEF Leaving
<1>2. ASSUME NEW a \in Actor
      PROVE  /\ Forward(a)' = Forward(a) /\ Backward(a)' = Backward(a)
             /\ Here(a)' = Here(a) /\ Mailbox(a)' = Mailbox(a)
  BY <1>0, PlacesSame DEF Mailbox
<1>3. \A k \in Attempt : ~IsLive(k)'
  BY LeavingIs DEF IsLive
<1>4. \A n \in Attempt : Unset(n)' => Unset(n) /\ ~Active(n)'
  BY LeavingIs
<1>5. ASSUME NEW a \in Actor, Forward(a)
      PROVE  Now(at[a]) = "unknown" /\ NowQuarantined(at[a])
  <2>1. Here(a) \in Attempt /\ at[a] = Step(Here(a)) /\ Status(at[a]) \in {"running", "unknown"}
    BY <1>5, InForward
  <2>2. Stops(Here(a))
    BY <1>1, <2>1
  <2>3. QED
    BY <2>1, <2>2 DEF Stops, Status, Unsettled
<1>6. Hands'
  <2>1. ASSUME NEW a \in Actor, Forward(a)'
        PROVE  Status(at[a])' = "unknown" /\ Quarantined(at[a])'
    BY <1>0, <1>2, <1>5, <2>1 DEF Now, NowQuarantined, Status, Quarantined
  <2>2. \A a, b \in Actor : Forward(a)' /\ Forward(b)' => a = b
    BY <1>2, InvIs DEF Hands
  <2>3. \A a, b \in Actor : Backward(a)' /\ Forward(b)' /\ Mailbox(a)' = Mailbox(b)' => a = b
    BY <1>2, InvIs DEF Hands
  <2>4. QED
    BY <2>1, <2>2, <2>3 DEF Hands
<1>7. OneOpen'
  BY <1>4, InvIs DEF OneOpen
<1>8. ASSUME NEW i \in Attempt, NEW n \in Attempt, Unset(n)',
             identity[i] = "disconnecting" \/ IsLive(i)
      PROVE  identity'[i] = "disconnecting"
  <2>1. ~Closable(jobs', row')
    <3>1. Step(n) \in StepJob
      BY StepName
    <3>2. QED
      BY <1>8, <3>1 DEF Closable, Unset, Status
  <2>2. Leaves(i)
    BY <1>1
  <2>3. QED
    BY <1>8, <2>1, <2>2 DEF Leaves
<1>9. Wanted'
  <2> SUFFICES ASSUME NEW n \in Attempt, Unset(n)' PROVE identity'[belongs[n]] = "disconnecting"
    BY <1>0, <1>4 DEF Wanted, Active
  <2>1. Unset(n)
    BY <1>4
  <2>2. n \in 1..created
    BY <2>1, LeavingIs DEF Unset, Unsettled
  <2>3. belongs[n] \in Attempt
    BY <2>2, AttemptMade, InvIs
  <2>4. identity[belongs[n]] = "disconnecting" \/ IsLive(belongs[n])
    <3>1. CASE Active(n)
      BY <3>1, InvIs DEF Wanted, Verifiable, IsLive, Live
    <3>2. CASE ~Active(n)
      BY <2>1, <3>2, InvIs DEF Wanted
    <3>3. QED
      BY <3>1, <3>2
  <2>5. QED
    BY <1>8, <2>3, <2>4
<1>10. Steps'
  BY <1>3 DEF Steps, Leaving
<1>11. Untouched'
  <2>1. ASSUME NEW j \in SecretJob, NEW a \in Actor, Now(j) # "none", Forward(a)'
        PROVE  Mailbox(a)' # belongs'[j[2]]
    <3>1. Status(j) # "none"
      BY <2>1 DEF Leaving, Now, Status
    <3>2. QED
      BY <1>0, <1>2, <2>1, <3>1, InvIs DEF Untouched
  <2>2. ASSUME NEW j \in Teardown, NEW a \in Actor, Now(j) # "none", jobs'[j].parent # None,
               Forward(a)', Mailbox(a)' = belongs'[jobs'[j].parent]
        PROVE  jobs'[j].parent = j[2] /\ a = Worker /\ Now(j) = "pending"
    <3>1. CASE jobs'[j] = jobs[j]
      BY <1>0, <1>2, <2>2, <3>1, InvIs DEF Untouched, Now, Status
    <3>2. CASE jobs'[j] # jobs[j]
      <4>1. jobs'[j].parent = p /\ p \in Attempt /\ Status(Step(p)) = "waiting"
        BY <2>2, <3>2 DEF Leaving
      <4>2. Forward(a)
        BY <1>2, <2>2
      <4>3. /\ Here(a) \in Attempt /\ at[a] = Step(Here(a)) /\ Unset(Here(a))
            /\ Status(at[a]) \in {"running", "unknown"}
        BY <4>2, InForward
      <4>4. Here(a) = p
        BY <4>1, <4>3, InvIs DEF OneOpen, Unset, Unsettled
      <4>5. QED
        BY <4>1, <4>3, <4>4
    <3>3. QED
      BY <3>1, <3>2
  <2>3. QED
    BY <2>1, <2>2 DEF Untouched, Now, Status
<1>12. Secrets'
  <2>1. ASSUME NEW j \in SecretJob, Now(j) \in {"pending", "running", "unknown"}
        PROVE  identity'[belongs'[j[2]]] = "disconnecting"
    <3>1. Status(j) \in {"pending", "running", "unknown"}
      BY <2>1 DEF Leaving, Now, Status
    <3>2. identity[belongs[j[2]]] = "disconnecting"
      BY <3>1, InvIs DEF Secrets
    <3>3. j[2] \in 1..created
      BY <3>1, InvIs DEF Numbers, CleanJob
    <3>4. belongs[j[2]] \in Attempt
      BY <3>3, AttemptMade, InvIs
    <3>5. Leaves(belongs[j[2]])
      BY <1>1, <3>4
    <3>6. ~Closable(jobs', row')
      BY <2>1 DEF Closable, Now
    <3>7. QED
      BY <1>0, <3>2, <3>5, <3>6 DEF Leaves, IsLive, Live
  <2>2. ASSUME NEW a \in Actor, pc'[a] = "clean", at'[a] \in SecretJob
        PROVE  Now(at'[a]) = IF a = Worker THEN "running" ELSE "unknown"
    <3>1. jobs'[at[a]] = jobs[at[a]] /\ at[a] \in SecretJob /\ pc[a] = "clean" /\ at'[a] = at[a]
      BY <1>0, <2>2 DEF Leaving
    <3>2. QED
      BY <3>1, InvIs DEF Secrets, Now, Status
  <2>3. ASSUME NEW a \in Actor, pc'[a] \in {"clean", "sweep"}, at'[a] \in Teardown
        PROVE  Now(at'[a]) # "pending"
    <3>1. at[a] \in Teardown /\ pc[a] \in {"clean", "sweep"} /\ at'[a] = at[a]
      BY <1>0, <2>3
    <3>2. Status(at[a]) # "none" /\ Status(at[a]) # "pending"
      BY <1>0, <3>1, InvIs DEF Handed, Secrets
    <3>3. jobs'[at[a]] = jobs[at[a]]
      BY <3>1, <3>2 DEF Leaving
    <3>4. QED
      BY <3>1, <3>2, <3>3 DEF Now, Status
  <2>4. QED
    BY <2>1, <2>2, <2>3 DEF Secrets, Now, Status
<1>13. QED
  BY <1>6, <1>7, <1>9, <1>10, <1>11, <1>12 DEF Ordered

LEMMA LeavingInv ==
  ASSUME Inv, NEW p, Leaving(p), ByDeletion => step' = step, Shape', Makers'
  PROVE  Inv'
<1>1. home # "gone" /\ home' # "gone" /\ (OpenHouse' => OpenHouse)
  BY DEF Leaving, ByDeletion, OpenHouse
<1>2. QED
  BY <1>1, LeavingNumbers, LeavingKept, LeavingParents, LeavingClaims, LeavingErasing,
     LeavingOrdered DEF Inv

LEMMA DisconnectEffect ==
  ASSUME Inv, home # "gone", NEW js, Disconnect(js)
  PROVE  /\ jobs' = js /\ row' \in [Attempt -> RowState] /\ identity' \in [Attempt -> IdentityState]
         /\ \A n \in Attempt : row'[n] = row[n] \/ (row'[n] = "deleting" /\ RowOpen(n))
         /\ \A k \in Attempt : Leaves(k)
<1>1. identity \in [Attempt -> IdentityState] /\ row \in [Attempt -> RowState]
  BY InvIs DEF ShapeRest
<1>2. PICK i : /\ jobs' = js /\ row' = Registering
               /\ identity' = FinishDisconnect(BeginDisconnect, js, Registering, i)
  BY DEF Disconnect
<1>3. /\ BeginDisconnect \in [Attempt -> IdentityState]
      /\ \A k \in Attempt : BeginDisconnect[k] = IF IsLive(k) THEN "disconnecting" ELSE identity[k]
  BY <1>1, BeginIds
<1>4. /\ row' \in [Attempt -> RowState]
      /\ \A n \in Attempt : row'[n] = row[n] \/ (row'[n] = "deleting" /\ RowOpen(n))
  BY <1>1, <1>2, RegisteringRows DEF RowOpen
<1>5. /\ identity' \in [Attempt -> IdentityState]
      /\ \A k \in Attempt :
           \/ identity'[k] = BeginDisconnect[k]
           \/ /\ BeginDisconnect[k] = "disconnecting" /\ Closable(jobs', row')
              /\ identity'[k] = "deleted"
  BY <1>2, <1>3, FinishIds
<1>6. \A k \in Attempt : Leaves(k)
  BY <1>3, <1>5 DEF Leaves
<1>7. QED
  BY <1>2, <1>4, <1>5, <1>6

LEMMA UndeletedIs ==
  ASSUME Inv, home # "gone"
  PROVE  Undeleted \in Mailboxes
<1>1. \A x, y \in {i \in Attempt : identity[i] \notin {"none", "deleted"}} : x = y
  BY InvIs DEF OneLeft
<1>2. QED
  BY <1>1, LatestOne DEF Undeleted

LEMMA WaitingIs ==
  ASSUME Inv, OpenHouse
  PROVE  /\ WaitingAttempt \in Mailboxes
         /\ WaitingAttempt # None =>
              WaitingAttempt \in Attempt /\ Status(Step(WaitingAttempt)) = "waiting"
<1>1. \A x, y \in {n \in Attempt : Status(Step(n)) = "waiting"} : x = y
  BY InvIs DEF OneOpen, Unset, Unsettled
<1>2. /\ WaitingAttempt \in Mailboxes
      /\ WaitingAttempt # None => WaitingAttempt \in {n \in Attempt : Status(Step(n)) = "waiting"}
  BY <1>1, LatestOne DEF WaitingAttempt
<1>3. QED
  BY <1>2

\* The cleanups are scheduled, then the jobs are stopped.
LEMMA RegisterThenStop ==
  ASSUME Inv, OpenHouse, NEW v, NEW regs \in [JobId -> JobRec],
         \A j \in JobId : \/ regs[j] = RegisterCleanup(jobs, v)[j]
                          \/ j = Namespace /\ Status(j) = "none" /\ regs[j].status = "pending",
         jobs' = Supersede(regs, StepJob \cup Maker)
  PROVE  /\ jobs' \in [JobId -> JobRec] /\ StillMakers
         /\ \A n \in Attempt : Stops(n)
         /\ \A j \in SecretJob : jobs'[j] = jobs[j]
         /\ \A j \in Teardown :
              \/ jobs'[j] = jobs[j]
              \/ /\ Status(j) = "none" /\ Now(j) = "pending" /\ jobs'[j].parent = WaitingAttempt
                 /\ j[2] \in Attempt /\ row[j[2]] # "none"
         /\ \A j \in NamespaceCleanup :
              \/ jobs'[j] = jobs[j]
              \/ j = Namespace /\ Status(j) = "none" /\ Now(j) = "pending"
         /\ \A j \in NamespaceCleanup :
              jobs'[j] = regs[j] /\ RegisterCleanup(jobs, v)[j] = jobs[j]
<1>1. home # "gone" /\ jobs \in [JobId -> JobRec]
  BY InvIs DEF OpenHouse, ShapeJobs
<1>2. WaitingAttempt = Latest({n \in Attempt : jobs[Step(n)].status = "waiting"})
  BY DEF WaitingAttempt, Status
<1>3. \A j \in JobId :
        \/ RegisterCleanup(jobs, v)[j] = jobs[j]
        \/ /\ j \in Teardown /\ j[2] \in Registrable /\ jobs[j].status = "none"
           /\ RegisterCleanup(jobs, v)[j].status = "pending"
           /\ RegisterCleanup(jobs, v)[j].parent = WaitingAttempt
  BY <1>1, <1>2, UndeletedIs, WaitingIs, RegisterJobs
<1>4. /\ jobs' \in [JobId -> JobRec]
      /\ \A j \in JobId :
           \/ /\ j \in StepJob \cup Maker /\ regs[j].status = "pending"
              /\ jobs'[j].status = "cancelled" /\ jobs'[j].why = "before"
           \/ /\ j \in StepJob \cup Maker /\ regs[j].status \in {"running", "waiting", "unknown"}
              /\ jobs'[j].status = "unknown" /\ jobs'[j].why = "quarantine"
           \/ /\ j \notin StepJob \cup Maker \/ regs[j].status \notin Unsettled
              /\ jobs'[j] = regs[j]
  BY SupersedeJobs
<1>5. /\ \A j \in StepJob \cup Maker : j \in JobId /\ j \notin Teardown /\ j # Namespace
      /\ \A j \in SecretJob \cup Teardown \cup NamespaceCleanup :
           j \in JobId /\ j \notin StepJob \cup Maker
      /\ \A j \in SecretJob : j \notin Teardown /\ j # Namespace
      /\ \A j \in Teardown : j # Namespace
      /\ \A j \in NamespaceCleanup : j \notin Teardown
  BY Kinds
<1>6. \A j \in StepJob \cup Maker : regs[j] = jobs[j]
  BY <1>3, <1>5
<1>7. \A n \in Attempt : Stops(n)
  <2> SUFFICES ASSUME NEW n \in Attempt PROVE Stops(n)
    OBVIOUS
  <2>1. Step(n) \in StepJob \cup Maker /\ Step(n) \in JobId
    BY StepName
  <2>2. regs[Step(n)] = jobs[Step(n)]
    BY <1>6, <2>1
  <2>3. QED
    BY <1>4, <2>1, <2>2 DEF Stops, Now, NowQuarantined, Status, Quarantined
<1>8. StillMakers
  <2> SUFFICES ASSUME NEW j \in Maker
               PROVE  \/ jobs'[j] = jobs[j]
                      \/ Status(j) = "pending" /\ Now(j) = "cancelled" /\ ~NowQuarantined(j)
                      \/ Status(j) \in {"running", "unknown"} /\ Now(j) = "unknown"
    BY DEF StillMakers
  <2>1. regs[j] = jobs[j] /\ j \in StepJob \cup Maker /\ j \in JobId /\ j \notin StepJob
    BY <1>5, <1>6, Kinds
  <2>2. Status(j) # "waiting"
    BY <1>1, <2>1, InvIs DEF Handed
  <2>3. QED
    BY <1>4, <2>1, <2>2 DEF Now, NowQuarantined, Status
<1>9. \A j \in SecretJob : jobs'[j] = jobs[j]
  BY <1>3, <1>4, <1>5
<1>10. ASSUME NEW j \in Teardown
       PROVE  \/ jobs'[j] = jobs[j]
              \/ /\ Status(j) = "none" /\ Now(j) = "pending" /\ jobs'[j].parent = WaitingAttempt
                 /\ j[2] \in Attempt /\ row[j[2]] # "none"
  <2>1. jobs'[j] = RegisterCleanup(jobs, v)[j] /\ j \in JobId
    BY <1>4, <1>5
  <2>2. QED
    BY <1>3, <2>1 DEF Now, Status, Registrable
<1>11. \A j \in NamespaceCleanup :
         \/ jobs'[j] = jobs[j]
         \/ j = Namespace /\ Status(j) = "none" /\ Now(j) = "pending"
  <2> SUFFICES ASSUME NEW j \in NamespaceCleanup
               PROVE  \/ jobs'[j] = jobs[j]
                      \/ j = Namespace /\ Status(j) = "none" /\ Now(j) = "pending"
    OBVIOUS
  <2>1. jobs'[j] = regs[j] /\ j \in JobId /\ RegisterCleanup(jobs, v)[j] = jobs[j]
    BY <1>3, <1>4, <1>5
  <2>2. QED
    BY <2>1 DEF Now
<1>12. \A j \in NamespaceCleanup :
         jobs'[j] = regs[j] /\ RegisterCleanup(jobs, v)[j] = jobs[j]
  BY <1>3, <1>4, <1>5
<1>13. QED
  BY <1>4, <1>7, <1>8, <1>9, <1>10, <1>11, <1>12

LEMMA LeavingShape ==
  ASSUME Inv, jobs' \in [JobId -> JobRec], row' \in [Attempt -> RowState],
         identity' \in [Attempt -> IdentityState],
         UNCHANGED <<belongs, created, upstream, key, app, eraser, pc, at, got>>,
         namespace' \in {namespace, "deleting"}, home' \in {home, "draft", "deleting"},
         step' \in {step, "available", "cancelled"}
  PROVE  Shape'
<1>1. ShapeJobs' /\ ShapeWorld' /\ ShapeLocal'
  BY InvIs DEF ShapeJobs, ShapeWorld, ShapeLocal
<1>2. ShapeRest'
  BY InvIs DEF ShapeRest
<1>3. QED
  BY <1>1, <1>2 DEF Shape

LEMMA ResetInv ==
  ASSUME Inv, Reset
  PROVE  Inv'
<1> DEFINE js == RegisterCleanup(jobs, version + 1)
<1>1. /\ home = "onboarding" /\ step \in {"verified", "waiting_user"}
      /\ Disconnect(Supersede(js, StepJob \cup Maker)) /\ step' = "available"
      /\ UNCHANGED <<belongs, namespace, home, consent, created, upstream, key, app, eraser,
                     pc, at, got>>
  BY DEF Reset
<1>2. home # "gone" /\ OpenHouse /\ ~ByDeletion
  BY <1>1 DEF OpenHouse, ByDeletion
<1>3. jobs \in [JobId -> JobRec]
  BY InvIs DEF ShapeJobs
<1>4. /\ jobs' = Supersede(js, StepJob \cup Maker)
      /\ row' \in [Attempt -> RowState] /\ identity' \in [Attempt -> IdentityState]
      /\ \A n \in Attempt : row'[n] = row[n] \/ (row'[n] = "deleting" /\ RowOpen(n))
      /\ \A k \in Attempt : Leaves(k)
  BY <1>1, <1>2, DisconnectEffect
<1>5. js \in [JobId -> JobRec]
  <2>1. Latest({n \in Attempt : jobs[Step(n)].status = "waiting"}) \in Mailboxes
    BY <1>2, WaitingIs DEF WaitingAttempt, Status
  <2>2. QED
    BY <1>2, <1>3, <2>1, UndeletedIs, RegisterJobs
<1>6. /\ jobs' \in [JobId -> JobRec] /\ StillMakers
      /\ \A n \in Attempt : Stops(n)
      /\ \A j \in SecretJob : jobs'[j] = jobs[j]
      /\ \A j \in Teardown :
           \/ jobs'[j] = jobs[j]
           \/ /\ Status(j) = "none" /\ Now(j) = "pending" /\ jobs'[j].parent = WaitingAttempt
              /\ j[2] \in Attempt /\ row[j[2]] # "none"
      /\ \A j \in NamespaceCleanup : jobs'[j] = js[j] /\ js[j] = jobs[j]
  BY <1>2, <1>4, <1>5, RegisterThenStop
<1>7. SameMakers
  <2> SUFFICES ASSUME NEW j \in Maker PROVE jobs'[j] = jobs[j]
    BY DEF SameMakers
  <2>1. Made
    BY <1>1, <1>2, InvIs DEF Makers
  <2>2. Status(j) \in {"pending", "running", "unknown"} => LatestMaker = j
    BY <1>2, OpenIsLatest
  <2>3. Status(j) \notin {"pending", "running", "unknown"}
    BY <2>1, <2>2 DEF Made
  <2>4. QED
    BY <1>6, <2>3 DEF StillMakers
<1> HIDE DEF js
<1>8. Leaving(WaitingAttempt)
  <2>1. WaitingAttempt = None \/ (WaitingAttempt \in Attempt /\ Status(Step(WaitingAttempt)) = "waiting")
    BY <1>2, WaitingIs
  <2>2. \A j \in NamespaceCleanup : jobs'[j] = jobs[j]
    BY <1>6
  <2>3. ~ByDeletion' /\ home' # "gone" /\ home' # "draft"
    BY <1>1 DEF ByDeletion
  <2>4. QED
    BY <1>1, <1>2, <1>4, <1>6, <2>1, <2>2, <2>3, Zenon DEF Leaving
<1>9. Shape'
  BY <1>1, <1>4, <1>6, LeavingShape
<1>10. \A j \in NamespaceCleanup : jobs'[j] = jobs[j]
  BY <1>6
<1>11. Makers'
  BY <1>1, <1>2, <1>6, <1>7, <1>10, MakersStill
<1>12. QED
  BY <1>2, <1>8, <1>9, <1>11, LeavingInv

LEMMA CancelInv ==
  ASSUME Inv, Cancel
  PROVE  Inv'
<1> DEFINE js == RegisterCleanup(jobs, version + 1)
           regs == IF namespace \in {"ready", "unknown"}
                   THEN Create(js, Namespace, New("clean", None, None)) ELSE js
<1>1. /\ home = "onboarding" /\ home' = "draft"
      /\ Disconnect(Supersede(regs, StepJob \cup Maker))
      /\ step' = IF step = "verified" THEN step ELSE "cancelled"
      /\ namespace' = IF namespace \in {"ready", "unknown"} THEN "deleting" ELSE namespace
      /\ UNCHANGED <<belongs, consent, created, upstream, key, app, eraser, pc, at, got>>
  BY DEF Cancel
<1>2. home # "gone" /\ OpenHouse /\ ~ByDeletion
  BY <1>1 DEF OpenHouse, ByDeletion
<1>3. jobs \in [JobId -> JobRec]
  BY InvIs DEF ShapeJobs
<1>4. /\ jobs' = Supersede(regs, StepJob \cup Maker)
      /\ row' \in [Attempt -> RowState] /\ identity' \in [Attempt -> IdentityState]
      /\ \A n \in Attempt : row'[n] = row[n] \/ (row'[n] = "deleting" /\ RowOpen(n))
      /\ \A k \in Attempt : Leaves(k)
  BY <1>1, <1>2, DisconnectEffect
<1>5. js \in [JobId -> JobRec]
      /\ \A j \in JobId : js[j] = jobs[j] \/ j \in Teardown
  <2>1. Latest({n \in Attempt : jobs[Step(n)].status = "waiting"}) \in Mailboxes
    BY <1>2, WaitingIs DEF WaitingAttempt, Status
  <2>2. QED
    BY <1>2, <1>3, <2>1, UndeletedIs, RegisterJobs
<1>6. Namespace \in NamespaceCleanup /\ Namespace \in JobId /\ Namespace \notin Teardown
  BY Kinds
<1>7. Status(Namespace) = "none" /\ js[Namespace] = jobs[Namespace]
  BY <1>1, <1>2, <1>5, <1>6, InvIs DEF Makers
<1>8. /\ regs \in [JobId -> JobRec]
      /\ \A j \in JobId : \/ regs[j] = js[j]
                          \/ j = Namespace /\ Status(j) = "none" /\ regs[j].status = "pending"
  <2>1. CASE namespace \in {"ready", "unknown"}
    <3>1. regs = Create(js, Namespace, New("clean", None, None))
      BY <2>1
    <3>2. New("clean", None, None) \in JobRec /\ New("clean", None, None).status = "pending"
      BY NewJob DEF Mailboxes
    <3>3. js[Namespace].status = "none"
      BY <1>7 DEF Status
    <3>4. /\ Create(js, Namespace, New("clean", None, None)) \in [JobId -> JobRec]
          /\ Create(js, Namespace, New("clean", None, None))[Namespace] = New("clean", None, None)
          /\ \A k \in JobId : k # Namespace =>
               Create(js, Namespace, New("clean", None, None))[k] = js[k]
      BY <1>5, <1>6, <3>2, <3>3, CreateJob
    <3>5. QED
      BY <1>7, <3>1, <3>2, <3>4
  <2>2. CASE namespace \notin {"ready", "unknown"}
    BY <1>5, <2>2
  <2>3. QED
    BY <2>1, <2>2
<1> HIDE DEF regs
<1>9. /\ jobs' \in [JobId -> JobRec] /\ StillMakers
      /\ \A n \in Attempt : Stops(n)
      /\ \A j \in SecretJob : jobs'[j] = jobs[j]
      /\ \A j \in Teardown :
           \/ jobs'[j] = jobs[j]
           \/ /\ Status(j) = "none" /\ Now(j) = "pending" /\ jobs'[j].parent = WaitingAttempt
              /\ j[2] \in Attempt /\ row[j[2]] # "none"
      /\ \A j \in NamespaceCleanup :
           \/ jobs'[j] = jobs[j]
           \/ j = Namespace /\ Status(j) = "none" /\ Now(j) = "pending"
  BY <1>2, <1>4, <1>8, RegisterThenStop
<1> HIDE DEF js
<1>10. Leaving(WaitingAttempt)
  <2>1. WaitingAttempt = None \/ (WaitingAttempt \in Attempt /\ Status(Step(WaitingAttempt)) = "waiting")
    BY <1>2, WaitingIs
  <2>2. \A j \in NamespaceCleanup : jobs'[j] = jobs[j] \/ (Status(j) = "none" /\ Now(j) = "pending")
    BY <1>9
  <2>3. ~ByDeletion' /\ home' # "gone" /\ step' \in {"verified", "cancelled"}
    BY <1>1 DEF ByDeletion
  <2>4. QED
    BY <1>1, <1>2, <1>4, <1>9, <2>1, <2>2, <2>3, Zenon DEF Leaving
<1>11. Shape'
  <2>1. namespace' \in {namespace, "deleting"} /\ step' \in {step, "available", "cancelled"}
    BY <1>1
  <2>2. QED
    BY <1>1, <1>4, <1>9, <2>1, LeavingShape
<1>12. Makers'
  <2>1. namespace' = namespace \/ (namespace' # "ready" /\ Owned')
    BY <1>1 DEF Owned
  <2>2. home' # "onboarding"
    BY <1>1
  <2>3. QED
    BY <1>1, <1>2, <1>9, <2>1, <2>2, MakersStill
<1>13. QED
  BY <1>2, <1>10, <1>11, <1>12, LeavingInv

LEMMA WithdrawInv ==
  ASSUME Inv, Withdraw
  PROVE  Inv'
<1> DEFINE js == Supersede(jobs, StepJob)
<1>1. /\ home # "gone"
      /\ Disconnect(RegisterCleanup(js, version))
      /\ UNCHANGED <<belongs, namespace, step, home, created, upstream, key, app, eraser,
                     pc, at, got>>
  BY DEF Withdraw
<1>2. jobs \in [JobId -> JobRec]
  BY InvIs DEF ShapeJobs
<1>3. /\ jobs' = RegisterCleanup(js, version)
      /\ row' \in [Attempt -> RowState] /\ identity' \in [Attempt -> IdentityState]
      /\ \A n \in Attempt : row'[n] = row[n] \/ (row'[n] = "deleting" /\ RowOpen(n))
      /\ \A k \in Attempt : Leaves(k)
  BY <1>1, DisconnectEffect
<1>4. /\ js \in [JobId -> JobRec]
      /\ \A j \in JobId :
           \/ /\ j \in StepJob /\ jobs[j].status = "pending"
              /\ js[j].status = "cancelled" /\ js[j].why = "before"
           \/ /\ j \in StepJob /\ jobs[j].status \in {"running", "waiting", "unknown"}
              /\ js[j].status = "unknown" /\ js[j].why = "quarantine"
           \/ /\ j \notin StepJob \/ jobs[j].status \notin Unsettled
              /\ js[j] = jobs[j]
  BY <1>2, SupersedeJobs
<1> HIDE DEF js
<1>5. \A n \in Attempt : Step(n) \in StepJob /\ Step(n) \in JobId /\ Step(n) \notin Teardown
  BY StepName
<1>6. Latest({n \in Attempt : js[Step(n)].status = "waiting"}) = None
  <2>1. \A n \in Attempt : js[Step(n)].status # "waiting"
    BY <1>4, <1>5 DEF Unsettled
  <2>2. {n \in Attempt : js[Step(n)].status = "waiting"} = {}
    BY <2>1
  <2>3. QED
    BY <2>2 DEF Latest
<1>7. /\ jobs' \in [JobId -> JobRec]
      /\ \A j \in JobId :
           \/ jobs'[j] = js[j]
           \/ /\ j \in Teardown /\ j[2] \in Registrable /\ js[j].status = "none"
              /\ jobs'[j].status = "pending" /\ jobs'[j].parent = None
  <2>1. Latest({n \in Attempt : js[Step(n)].status = "waiting"}) \in Mailboxes
    BY <1>6 DEF Mailboxes
  <2>2. QED
    BY <1>1, <1>3, <1>4, <1>6, <2>1, UndeletedIs, RegisterJobs
<1>8. ASSUME NEW n \in Attempt PROVE Stops(n)
  <2>1. jobs'[Step(n)] = js[Step(n)]
    BY <1>5, <1>7
  <2>2. QED
    BY <1>4, <1>5, <2>1 DEF Stops, Now, NowQuarantined, Status
<1>9. /\ \A j \in Maker : j \in JobId /\ j \notin StepJob /\ j \notin Teardown
      /\ \A j \in SecretJob : j \in JobId /\ j \notin StepJob /\ j \notin Teardown
      /\ \A j \in NamespaceCleanup : j \in JobId /\ j \notin StepJob /\ j \notin Teardown
      /\ \A j \in Teardown : j \in JobId /\ j \notin StepJob
  BY Kinds
<1>10. /\ \A j \in Maker : jobs'[j] = jobs[j]
       /\ \A j \in SecretJob : jobs'[j] = jobs[j]
       /\ \A j \in NamespaceCleanup : jobs'[j] = jobs[j]
  BY <1>4, <1>7, <1>9
<1>11. \A j \in Teardown :
         \/ jobs'[j] = jobs[j]
         \/ /\ Status(j) = "none" /\ Now(j) = "pending" /\ jobs'[j].parent = None
            /\ j[2] \in Attempt /\ row[j[2]] # "none"
  <2> SUFFICES ASSUME NEW j \in Teardown
               PROVE  \/ jobs'[j] = jobs[j]
                      \/ /\ Status(j) = "none" /\ Now(j) = "pending" /\ jobs'[j].parent = None
                         /\ j[2] \in Attempt /\ row[j[2]] # "none"
    OBVIOUS
  <2>1. js[j] = jobs[j]
    BY <1>4, <1>9
  <2>2. \/ jobs'[j] = js[j]
        \/ /\ j[2] \in Registrable /\ js[j].status = "none"
           /\ jobs'[j].status = "pending" /\ jobs'[j].parent = None
    BY <1>7, <1>9
  <2>3. QED
    BY <2>1, <2>2 DEF Registrable, Now, Status
<1>12. SameMakers /\ StillMakers
  BY <1>10 DEF SameMakers, StillMakers
<1>13. Leaving(None)
  <2>1. home' # "gone" /\ (ByDeletion' <=> ByDeletion)
    BY <1>1 DEF ByDeletion
  <2>2. home' = "draft" => step' \in {"verified", "cancelled"}
    <3>1. home = "draft" => OpenHouse
      BY DEF OpenHouse
    <3>2. QED
      BY <1>1, <3>1, InvIs DEF Steps
  <2>3. QED
    BY <1>1, <1>3, <1>8, <1>10, <1>11, <1>12, <2>1, <2>2, Zenon DEF Leaving
<1>14. Shape'
  BY <1>1, <1>3, <1>7, LeavingShape
<1>15. Makers'
  <2>1. home' = "onboarding" /\ step' \in {"verified", "waiting_user"} => Made
    BY <1>1, InvIs DEF Makers
  <2>2. QED
    BY <1>1, <1>10, <1>12, <2>1, MakersStill
<1>16. QED
  BY <1>1, <1>13, <1>14, <1>15, LeavingInv

-----------------------------------------------------------------------------
(* A deletion stops what nobody has begun *)

LEMMA DeleteIs ==
  ASSUME Inv, Delete
  PROVE  /\ home # "gone" /\ OpenHouse /\ home' = "deleting"
         /\ jobs' \in [JobId -> JobRec] /\ identity' \in [Attempt -> IdentityState]
         /\ \A j \in JobId :
              /\ jobs'[j].parent = jobs[j].parent /\ jobs'[j].why = jobs[j].why
              /\ Now(j) = IF Status(j) \in {"pending", "waiting"} THEN "cancelled" ELSE Status(j)
              /\ Status(j) \notin {"pending", "waiting"} => jobs'[j] = jobs[j]
         /\ \A k \in Attempt : identity'[k] = IF IsLive(k) THEN "disconnecting" ELSE identity[k]
         /\ UNCHANGED <<row, belongs, namespace, step, consent, created, upstream, key, app,
                        eraser, pc, at, got>>
<1>1. jobs \in [JobId -> JobRec] /\ identity \in [Attempt -> IdentityState]
  BY InvIs DEF ShapeJobs, ShapeRest
<1>2. /\ OpenHouse /\ home' = "deleting" /\ identity' = BeginDisconnect
      /\ jobs' = [j \in JobId |-> IF Status(j) \in {"pending", "waiting"}
                                  THEN [jobs[j] EXCEPT !.status = "cancelled"] ELSE jobs[j]]
      /\ UNCHANGED <<row, belongs, namespace, step, consent, created, upstream, key, app,
                     eraser, pc, at, got>>
  BY DEF Delete
<1>3. /\ identity' \in [Attempt -> IdentityState]
      /\ \A k \in Attempt : identity'[k] = IF IsLive(k) THEN "disconnecting" ELSE identity[k]
  BY <1>1, <1>2, BeginIds
<1>4. ASSUME NEW j \in JobId
      PROVE  /\ jobs'[j] \in JobRec
             /\ jobs'[j].parent = jobs[j].parent /\ jobs'[j].why = jobs[j].why
             /\ Now(j) = IF Status(j) \in {"pending", "waiting"} THEN "cancelled" ELSE Status(j)
             /\ Status(j) \notin {"pending", "waiting"} => jobs'[j] = jobs[j]
  <2>1. jobs[j] \in JobRec /\ "cancelled" \in JobStatus
    BY <1>1 DEF JobStatus
  <2>2. jobs'[j] = IF Status(j) \in {"pending", "waiting"}
                   THEN [jobs[j] EXCEPT !.status = "cancelled"] ELSE jobs[j]
    BY <1>2
  <2>3. /\ [jobs[j] EXCEPT !.status = "cancelled"] \in JobRec
        /\ [jobs[j] EXCEPT !.status = "cancelled"].status = "cancelled"
        /\ [jobs[j] EXCEPT !.status = "cancelled"].parent = jobs[j].parent
        /\ [jobs[j] EXCEPT !.status = "cancelled"].why = jobs[j].why
    BY <2>1 DEF JobRec
  <2>4. QED
    BY <2>1, <2>2, <2>3 DEF Now, Status
<1>5. jobs' \in [JobId -> JobRec]
  BY <1>2, <1>4
<1>6. QED
  BY <1>2, <1>3, <1>4, <1>5 DEF OpenHouse

LEMMA DeleteNumbers ==
  ASSUME Inv, Delete
  PROVE  Numbers' /\ Handed' /\ Where' /\ OneLeft' /\ Consented' /\ NotDeleted'
<1>1. /\ home # "gone" /\ \A k \in Attempt : identity'[k] = IF IsLive(k) THEN "disconnecting" ELSE identity[k]
      /\ UNCHANGED <<row, belongs, created, upstream, pc, at, got>>
      /\ \A j \in JobId :
           /\ jobs'[j].parent = jobs[j].parent /\ jobs'[j].why = jobs[j].why
           /\ Now(j) = IF Status(j) \in {"pending", "waiting"} THEN "cancelled" ELSE Status(j)
  BY DeleteIs
<1>2. /\ \A j \in CleanJob : j \in JobId
      /\ \A j \in StepJob \cup Maker : j \in JobId
      /\ \A n \in Attempt : Step(n) \in JobId /\ Making(n) \in JobId
  BY Kinds, StepName, MakerName DEF CleanJob, Mailboxes
<1>3. \A j \in JobId : (Now(j) = "none" <=> Status(j) = "none") /\ Now(j) \notin {"pending", "waiting"}
  BY <1>1
<1>4. Where'
  BY <1>1, WhereSame
<1>5. Numbers'
  <2>1. ASSUME NEW n \in Attempt, n > created
        PROVE  /\ belongs'[n] = None /\ row'[n] = "none" /\ identity'[n] = "none"
               /\ Now(Step(n)) = "none" /\ Now(Making(n)) = "none"
               /\ n \notin upstream'
    BY <1>1, <1>2, <1>3, <2>1, InvIs DEF Numbers, IsLive, Live
  <2>2. ASSUME NEW j \in CleanJob, Now(j) # "none"
        PROVE  j[2] \in 1..created /\ jobs'[j].parent \in 0..created
    BY <1>1, <1>2, <1>3, <2>2, InvIs DEF Numbers
  <2>3. \A a \in Actor : pc'[a] # "idle" /\ at'[a] \in StepJob \cup CleanJob => Here(a)' \in 1..created'
    BY <1>1, PlacesSame, InvIs DEF Numbers
  <2>4. \A n \in Attempt : n <= created' => belongs'[n] \in 1..created'
    BY <1>1, InvIs DEF Numbers
  <2>5. QED
    BY <1>1, <2>1, <2>2, <2>3, <2>4 DEF Numbers, Now, Status
<1>6. Handed'
  <2>1. ASSUME NEW a \in Actor, pc'[a] # "idle" PROVE Now(at'[a]) # "none"
    <3>1. Status(at[a]) # "none" /\ at[a] \in JobId /\ at'[a] = at[a]
      BY <1>1, <2>1, InvIs DEF Handed, ShapeLocal
    <3>2. QED
      BY <1>3, <3>1
  <2>2. \A j \in StepJob \cup Maker : NowQuarantined(j) => Now(j) = "unknown"
    <3> SUFFICES ASSUME NEW j \in StepJob \cup Maker, NowQuarantined(j) PROVE Now(j) = "unknown"
      OBVIOUS
    <3>1. Quarantined(j)
      BY <1>1, <1>2 DEF NowQuarantined, Quarantined
    <3>2. Status(j) = "unknown"
      BY <1>1, <3>1, InvIs DEF Handed
    <3>3. QED
      BY <1>1, <1>2, <3>2
  <2>3. QED
    BY <1>3, <2>1, <2>2 DEF Handed, Now, NowQuarantined, Status, Quarantined
<1>7. OneLeft' /\ Consented'
  BY <1>1, InvIs DEF OneLeft, Consented, IsLive, Live
<1>8. NotDeleted'
  BY <1>1, InvIs DEF NotDeleted, ShapeWorld
<1>9. QED
  BY <1>4, <1>5, <1>6, <1>7, <1>8

LEMMA DeleteKept ==
  ASSUME Inv, Delete
  PROVE  Kept' /\ Parents' /\ Erasing' /\ Served' /\ Makers'
<1>0. /\ home # "gone" /\ OpenHouse /\ home' = "deleting"
      /\ UNCHANGED <<row, belongs, namespace, step, consent, created, upstream, key, app,
                     eraser, pc, at, got>>
  BY DeleteIs
<1>1. /\ \A k \in Attempt : identity'[k] = IF IsLive(k) THEN "disconnecting" ELSE identity[k]
      /\ \A j \in JobId :
           /\ jobs'[j].parent = jobs[j].parent /\ jobs'[j].why = jobs[j].why
           /\ Now(j) = IF Status(j) \in {"pending", "waiting"} THEN "cancelled" ELSE Status(j)
           /\ Status(j) \notin {"pending", "waiting"} => jobs'[j] = jobs[j]
  BY DeleteIs
<1>2. /\ \A j \in CleanJob : j \in JobId
      /\ \A j \in StepJob \cup Maker : j \in JobId
      /\ \A j \in Maker : j \notin StepJob
      /\ \A n \in Attempt : Step(n) \in JobId /\ Making(n) \in JobId
  BY Kinds, StepName, MakerName DEF CleanJob, Mailboxes
<1>3. \A j \in JobId : (Now(j) = "none" <=> Status(j) = "none") /\ Now(j) \notin {"pending", "waiting"}
  BY <1>1
<1>4. \A k \in Attempt : identity'[k] \notin Live
  BY <1>1 DEF IsLive, Live
<1>5. ASSUME NEW k PROVE Safe(k)' = Safe(k)
  BY <1>0 DEF Safe, RowKept, RowOpen
<1>6. Kept'
  <2>1. \A n \in Attempt : Now(Step(n)) \notin {"pending", "waiting"}
    BY <1>2, <1>3
  <2>2. ASSUME NEW n \in Attempt, Active(n)', ~consent' PROVE SafeNow(belongs[n])
    <3>1. Now(Step(n)) = Status(Step(n))
      BY <1>1, <1>2, <2>2 DEF Active, Unset, Unsettled, Now, Status
    <3>2. Active(n) /\ ~consent
      BY <1>0, <1>1, <1>2, <2>2, <3>1 DEF Active, Unset, Unsettled, Now, Status, Quarantined
    <3>3. Safe(belongs[n])
      BY <1>0, <3>2, InvIs DEF Kept
    <3>4. QED
      BY <1>0, <3>3 DEF Safe, SafeNow, RowKept, RowOpen
  <2>3. \A n \in Attempt : MakerOpen(Step(n)) => MakerOpen(Step(n))'
    BY <1>1, <1>2 DEF MakerOpen, Now, Status
  <2>4. \A i \in upstream' : RowKept(i)' \/ \E n \in Attempt : belongs'[n] = i /\ MakerOpen(Step(n))'
    BY <1>0, <2>3, InvIs DEF Kept, RowKept, RowOpen
  <2>5. QED
    BY <1>0, <2>1, <2>2, <2>4 DEF Kept, Now, Status, SafeNow, Safe, RowKept, RowOpen
<1>7. Parents'
  <2>1. 1..created \subseteq Attempt /\ \A n \in 1..created : belongs[n] \in Attempt
    BY AttemptMade, InvIs
  <2>2. ASSUME NEW j \in CleanJob, Now(j) # "none"
        PROVE  /\ Status(j) # "none" /\ jobs'[j].parent = jobs[j].parent
               /\ j[2] \in 1..created /\ jobs[j].parent \in 0..created
    BY <1>1, <1>2, <1>3, <2>2, InvIs DEF Numbers
  <2>3. created \in Nat
    BY InvIs DEF ShapeRest
  <2>4. ASSUME NEW j \in CleanJob, Now(j) # "none"
        PROVE  /\ identity'[belongs[j[2]]] \notin Live
               /\ jobs'[j].parent # None => identity'[belongs[jobs'[j].parent]] \notin Live
    BY <1>4, <2>1, <2>2, <2>3, <2>4 DEF None
  <2>5. ASSUME NEW j \in Teardown, Now(j) # "none"
        PROVE  jobs'[j].parent \in {None, j[2]} \/ SafeNow(belongs[jobs'[j].parent])
    <3>1. jobs[j].parent \in {None, j[2]} \/ Safe(belongs[jobs[j].parent])
      BY <1>0, <2>2, <2>5, InvIs DEF Parents, CleanJob
    <3>2. QED
      BY <1>0, <2>2, <2>5, <3>1 DEF CleanJob, Safe, SafeNow, RowKept, RowOpen
  <2>6. ASSUME NEW j \in SecretJob, Now(j) # "none"
        PROVE  jobs'[j].parent = j[2] /\ (row[j[2]] = "deleted" => SafeNow(belongs[j[2]]))
    <3>1. jobs[j].parent = j[2] /\ (row[j[2]] = "deleted" => Safe(belongs[j[2]]))
      BY <1>0, <2>2, <2>6, InvIs DEF Parents, CleanJob
    <3>2. QED
      BY <1>0, <2>2, <2>6, <3>1 DEF CleanJob, Safe, SafeNow, RowKept, RowOpen
  <2>7. QED
    BY <1>0, <2>4, <2>5, <2>6 DEF Parents, Now, Status, SafeNow, Safe, RowKept, RowOpen, IsLive
<1>8. eraser.doing = "idle"
  BY <1>0, InvIs DEF Erasing, ByDeletion, OpenHouse
<1>9. Erasing'
  <2>1. \A j \in Maker : Status(j)' # "pending"
    BY <1>2, <1>3 DEF Now, Status
  <2>2. QED
    BY <1>0, <1>4, <1>8, <2>1 DEF Erasing, IsLive
<1>10. Served'
  <2>1. \A i \in Attempt : identity'[i] # "verified"
    BY <1>4 DEF Live
  <2>2. ASSUME NEW a \in Actor, pc'[a] \in {"answer", "finish"} PROVE ~IsLive(Mailbox(a))'
    <3>1. Forward(a)
      BY <1>0, <2>2 DEF Forward
    <3>2. Mailbox(a) \in Attempt
      BY <3>1, AtStep
    <3>3. Mailbox(a)' = Mailbox(a)
      BY <1>0, PlacesSame DEF Mailbox
    <3>4. QED
      BY <1>4, <3>2, <3>3 DEF IsLive
  <2>3. QED
    BY <2>1, <2>2 DEF Served
<1>11. Makers'
  <2>1. StillMakers
    <3> SUFFICES ASSUME NEW j \in Maker
                 PROVE  \/ jobs'[j] = jobs[j]
                        \/ Status(j) = "pending" /\ Now(j) = "cancelled" /\ ~NowQuarantined(j)
      BY DEF StillMakers
    <3>1. j \in JobId /\ j \notin StepJob
      BY <1>2
    <3>2. Status(j) # "waiting" /\ (Quarantined(j) => Status(j) = "unknown")
      BY <1>0, <3>1, InvIs DEF Handed
    <3>3. QED
      BY <1>1, <3>1, <3>2 DEF Now, NowQuarantined, Status, Quarantined
  <2>2. home' # "onboarding"
    BY <1>0
  <2>3. QED
    BY <1>0, <2>1, <2>2, MakersStill
<1>12. QED
  BY <1>6, <1>7, <1>9, <1>10, <1>11

LEMMA DeleteInv ==
  ASSUME Inv, Delete
  PROVE  Inv'
<1>0. /\ home # "gone" /\ OpenHouse /\ home' = "deleting"
      /\ UNCHANGED <<row, belongs, namespace, step, consent, created, upstream, key, app,
                     eraser, pc, at, got>>
      /\ jobs' \in [JobId -> JobRec] /\ identity' \in [Attempt -> IdentityState]
      /\ \A k \in Attempt : identity'[k] = IF IsLive(k) THEN "disconnecting" ELSE identity[k]
      /\ \A j \in JobId :
           Now(j) = IF Status(j) \in {"pending", "waiting"} THEN "cancelled" ELSE Status(j)
  BY DeleteIs
<1>1. Shape'
  <2>1. namespace' \in {namespace, "deleting"} /\ home' \in {home, "draft", "deleting"}
        /\ step' \in {step, "available", "cancelled"}
    BY <1>0
  <2>2. row' \in [Attempt -> RowState]
    BY <1>0, InvIs DEF ShapeRest
  <2>3. QED
    BY <1>0, <2>1, <2>2, LeavingShape
<1>2. ASSUME NEW a \in Actor PROVE Claim(a)'
  <2>1. /\ Forward(a)' = Forward(a) /\ Backward(a)' = Backward(a)
        /\ Here(a)' = Here(a) /\ Mailbox(a)' = Mailbox(a)
    BY <1>0, PlacesSame DEF Mailbox
  <2>2. Claim(a)
    BY <1>0, ClaimsIs, InvIs
  <2>3. Safe(Mailbox(a))' = Safe(Mailbox(a))
    BY <1>0, <2>1 DEF Safe, RowKept, RowOpen
  <2>4. ASSUME Forward(a), Now(at[a]) = "cancelled" PROVE Safe(Mailbox(a))
    <3>1. Here(a) \in Attempt /\ at[a] = Step(Here(a)) /\ Mailbox(a) = belongs[Here(a)]
      BY <2>4, AtStep
    <3>2. at[a] \in JobId
      BY <3>1, StepName
    <3>3. Status(at[a]) \in {"pending", "waiting", "cancelled"}
      BY <1>0, <2>4, <3>2
    <3>4. CASE Status(at[a]) = "cancelled"
      BY <2>2, <2>4, <3>4 DEF Claim
    <3>5. CASE Status(at[a]) \in {"pending", "waiting"}
      BY <1>0, <3>1, <3>5, InvIs DEF Kept
    <3>6. QED
      BY <3>3, <3>4, <3>5
  <2>5. Forward(a)' /\ Status(at[a])' = "cancelled" => Safe(Mailbox(a))'
    BY <1>0, <2>1, <2>3, <2>4 DEF Now, Status
  <2>6. Backward(a)' => ~IsLive(Mailbox(a))'
    <3>1. ASSUME Backward(a) PROVE ~IsLive(Mailbox(a))'
      <4>1. Mailbox(a) \in Attempt
        BY <3>1, AtStep
      <4>2. QED
        BY <1>0, <2>1, <4>1 DEF IsLive, Live
    <3>2. QED
      BY <2>1, <3>1
  <2>7. /\ pc'[a] = "gate" /\ got'[a] # "reclaimed" => Safe(Mailbox(a))'
        /\ pc'[a] = "raze" /\ row'[Here(a)'] = "deleted" => Safe(Mailbox(a))'
    BY <1>0, <2>1, <2>2, <2>3 DEF Claim
  <2>8. /\ pc'[a] = "answer" /\ got'[a] \in {"rejected", "limited", "absent"}
             => Mailbox(a)' \notin upstream'
        /\ pc'[a] = "close" /\ got'[a] \in {"clean", "secret"} => Mailbox(a)' \notin upstream'
        /\ pc'[a] = "sweep" => Mailbox(a)' \notin upstream'
    BY <1>0, <2>1, <2>2 DEF Claim
  <2>9. QED
    BY <2>5, <2>6, <2>7, <2>8 DEF Claim
<1>3. Claims'
  BY <1>2, ClaimsNow
<1>4. QED
  BY <1>0, <1>1, <1>3, DeleteNumbers, DeleteKept DEF Inv, OpenHouse

-----------------------------------------------------------------------------
(* What is observed stays observed, and no step changes the household's plan. *)
OnlyMore == astray \subseteq astray' /\ plan' = plan

LEMMA OrderOnlyMore == ASSUME Order PROVE OnlyMore
<1>1. CASE Select
  BY <1>1 DEF Select, OnlyMore
<1>2. CASE Retry
  BY <1>2 DEF Retry, OnlyMore
<1>3. CASE Check
  BY <1>3 DEF Check, OnlyMore
<1>4. CASE Reset
  BY <1>4 DEF Reset, OnlyMore
<1>5. CASE Cancel
  BY <1>5 DEF Cancel, OnlyMore
<1>6. CASE Withdraw
  BY <1>6 DEF Withdraw, OnlyMore
<1>7. CASE Delete
  BY <1>7 DEF Delete, OnlyMore
<1>8. CASE Brake
  BY <1>8 DEF Brake, OnlyMore
<1>9. QED
  BY <1>1, <1>2, <1>3, <1>4, <1>5, <1>6, <1>7, <1>8 DEF Order

LEMMA WorkOnlyMore == ASSUME NEW a \in Actor, Work(a) PROVE OnlyMore
<1>1. CASE Call(a)
  BY <1>1 DEF Call, OnlyMore
<1>2. CASE Answer(a)
  BY <1>2 DEF Answer, Observe, OnlyMore
<1>3. CASE Barrier(a)
  BY <1>3 DEF Barrier, OnlyMore
<1>4. CASE StageSecret(a)
  BY <1>4 DEF StageSecret, Observe, OnlyMore
<1>5. CASE FinishStep(a)
  BY <1>5 DEF FinishStep, Observe, OnlyMore
<1>6. CASE Raze(a)
  BY <1>6 DEF Raze, OnlyMore
<1>7. CASE Close(a)
  BY <1>7 DEF Close, OnlyMore
<1>8. CASE Deprovision(a)
  BY <1>8 DEF Deprovision, OnlyMore
<1>9. CASE Sweep(a)
  BY <1>9 DEF Sweep, OnlyMore
<1>10. CASE CleanSecret(a)
  BY <1>10 DEF CleanSecret, OnlyMore
<1>11. CASE CleanNamespace(a)
  BY <1>11 DEF CleanNamespace, OnlyMore
<1>12. CASE Drop(a)
  BY <1>12 DEF Drop, OnlyMore
<1>13. CASE MakeNamespace(a)
  BY <1>13 DEF MakeNamespace, ObserveApp, OnlyMore
<1>14. CASE FinishNamespace(a)
  BY <1>14 DEF FinishNamespace, ObserveApp, OnlyMore
<1>15. CASE Unmake(a)
  BY <1>15 DEF Unmake, OnlyMore
<1>16. CASE CloseNamespace(a)
  BY <1>16 DEF CloseNamespace, ObserveApp, OnlyMore
<1>17. QED
  BY <1>1, <1>2, <1>3, <1>4, <1>5, <1>6, <1>7, <1>8, <1>9, <1>10, <1>11, <1>12, <1>13,
     <1>14, <1>15, <1>16 DEF Work

LEMMA NextOnlyMore == ASSUME [Next]_vars PROVE OnlyMore
<1>1. CASE \E j \in JobId : Lease(j)
  BY <1>1 DEF Lease, OnlyMore
<1>2. CASE Gate
  BY <1>2 DEF Gate, Observe, OnlyMore
<1>3. CASE \E o \in Operators, j \in JobId : Reconcile(o, j)
  BY <1>3 DEF Reconcile, Observe, OnlyMore
<1>4. CASE \E a \in Actor : Crash(a)
  BY <1>4 DEF Crash, OnlyMore
<1>5. CASE Erase
  <2>1. CASE EraseRead
    BY <2>1 DEF EraseRead, OnlyMore
  <2>2. CASE EraseCall
    BY <2>2 DEF EraseCall, OnlyMore
  <2>3. CASE EraseEnd
    BY <2>3 DEF EraseEnd, OnlyMore
  <2>4. QED
    BY <1>5, <2>1, <2>2, <2>3 DEF Erase
<1>6. CASE EraserCrash
  BY <1>6 DEF EraserCrash, OnlyMore
<1>7. CASE UNCHANGED vars
  BY <1>7 DEF OnlyMore
<1>8. QED
  BY <1>1, <1>2, <1>3, <1>4, <1>5, <1>6, <1>7, OrderOnlyMore, WorkOnlyMore DEF Next

-----------------------------------------------------------------------------
(* When the household is gone: who is still at a job of its own finds nothing *)
(* to write, and makes nothing that is not observed.                          *)
Silent == UNCHANGED <<jobs, row, identity, step>>
Lingers(a) ==
  /\ Others(a)
  /\ \/ pc'[a] = "idle"
     \/ pc'[a] = pc[a] /\ at'[a] = at[a]
     \/ /\ at'[a] = at[a] /\ pc[a] # "idle"
        /\ Forward(a)' \/ Backward(a)' => Forward(a) \/ Backward(a)
        /\ Building(a)' => Building(a)
        /\ pc'[a] = "sweep" => at[a] \in Teardown
        /\ pc'[a] # "clean"
Still ==
  /\ Silent /\ UNCHANGED <<belongs, namespace, home, created, eraser>>
  /\ upstream' = {} /\ app' = FALSE
  /\ key' \in [Attempt -> Actor \cup {"namespace", "lost"}] /\ ShapeLocal'

LEMMA NothingToMark ==
  ASSUME NEW j, NEW s, NEW w, Status(j) = "none"
  PROVE  /\ MarkStepProblem(j, s, w) => Silent
         /\ MarkProblem(j, s, w) => jobs' = jobs
         /\ RetryLater(jobs, j, w) = jobs
<1>1. ASSUME MarkStepProblem(j, s, w) PROVE Silent
  BY <1>1, Zenon DEF MarkStepProblem, MayMark, Silent
<1>2. ASSUME MarkProblem(j, s, w) PROVE jobs' = jobs
  BY <1>2 DEF MarkProblem
<1>3. RetryLater(jobs, j, w) = jobs
  BY DEF RetryLater, Status
<1>4. QED
  BY <1>1, <1>2, <1>3

LEMMA GoneIs ==
  ASSUME Inv, home = "gone"
  PROVE  /\ upstream = {} /\ app = FALSE /\ eraser.doing = "idle" /\ ~OpenHouse /\ ~ByDeletion
         /\ \A j \in JobId : Status(j) = "none"
         /\ \A i \in Attempt : identity[i] = "none"
         /\ \A a \in Actor : at[a] \in JobId /\ Status(at[a]) = "none" /\ ~Exists(a)
         /\ ShapeLocal /\ ShapeWorld
<1>1. Gone /\ ShapeLocal /\ ShapeWorld
  BY InvIs DEF Inv
<1>2. \A a \in Actor : at[a] \in JobId
  BY <1>1 DEF ShapeLocal
<1>3. QED
  BY <1>1, <1>2 DEF Gone, OpenHouse, ByDeletion, Exists, ShapeWorld

LEMMA GoneKeeps ==
  ASSUME Inv, home = "gone", NEW a \in Actor, Lingers(a), Still
  PROVE  Inv'
<1>0. /\ UNCHANGED <<jobs, row, identity, step, belongs, namespace, home, created, eraser>>
      /\ upstream' = {} /\ app' = FALSE
  BY DEF Still, Silent
<1>1. Shape'
  BY <1>0, InvIs DEF Shape, ShapeJobs, ShapeRest, ShapeWorld, Still, Status
<1>2. Gone'
  BY <1>0, GoneIs DEF Gone, Status
<1>3. ASSUME NEW b \in Actor, pc'[b] # "idle"
      PROVE  /\ at'[b] = at[b] /\ pc[b] # "idle"
             /\ Forward(b)' \/ Backward(b)' => Forward(b) \/ Backward(b)
             /\ Building(b)' => Building(b)
             /\ pc'[b] = "sweep" => at[b] \in Teardown
             /\ pc'[b] = "clean" => pc[b] = "clean"
  <2>1. CASE pc'[b] # pc[b] \/ at'[b] # at[b]
    <3>1. b = a
      BY <2>1 DEF Lingers, Others
    <3>2. QED
      BY <1>3, <2>1, <3>1 DEF Lingers
  <2>2. CASE pc'[b] = pc[b] /\ at'[b] = at[b]
    BY <1>3, <2>2, InvIs DEF Where, Forward, Backward, Building
  <2>3. QED
    BY <2>1, <2>2
<1>4. Numbers'
  <2>1. Numbers
    BY InvIs
  <2>2. \A b \in Actor : pc'[b] # "idle" /\ at'[b] \in StepJob \cup CleanJob => Here(b)' \in 1..created
    BY <1>3, <2>1 DEF Numbers, Here
  <2>3. \A n \in Attempt : n > created => n \notin upstream'
    BY <1>0
  <2>4. QED
    BY <1>0, <2>1, <2>2, <2>3 DEF Numbers, Status
<1>5. Where'
  <2>1. Where
    BY InvIs
  <2>2. ASSUME NEW b \in Actor
        PROVE  /\ Forward(b)' \/ Backward(b)' => at'[b] \in StepJob
               /\ Building(b)' => at'[b] \in Maker
               /\ pc'[b] = "sweep" => at'[b] \in Teardown
               /\ pc'[b] = "clean" => at'[b] \in CleanJob \cup NamespaceCleanup
    <3>1. CASE pc'[b] = "idle"
      BY <3>1 DEF Forward, Backward, Building
    <3>2. CASE pc'[b] # "idle"
      BY <1>3, <2>1, <3>2 DEF Where
    <3>3. QED
      BY <3>1, <3>2
  <2>3. QED
    BY <2>2 DEF Where
<1>6. QED
  BY <1>0, <1>1, <1>2, <1>4, <1>5 DEF Inv, OpenHouse

LEMMA RestLingers ==
  ASSUME Inv, home = "gone", NEW a \in Actor, Rest(a), Silent,
         UNCHANGED <<belongs, namespace, home, created, eraser>>,
         upstream' = {}, app' = FALSE, KeyTaken,
         key' \in [Attempt -> Actor \cup {"namespace", "lost"}]
  PROVE  Still /\ Lingers(a)
BY RestEffect, GoneIs DEF Still, Lingers

LEMMA GoLingers ==
  ASSUME Inv, home = "gone", NEW a \in Actor, NEW p \in Places \ {"clean"}, NEW g \in Answers,
         Go(a, p, g), Silent, UNCHANGED <<belongs, namespace, home, created, eraser>>,
         upstream' = {}, app' = FALSE,
         key' \in [Attempt -> Actor \cup {"namespace", "lost"}],
         pc[a] # "idle",
         p \in {"gate", "call", "answer", "finish", "raze", "close"} =>
           Forward(a) \/ Backward(a),
         p \in {"make", "made", "unmake", "unmade", "kept"} => Building(a),
         p = "sweep" => at[a] \in Teardown
  PROVE  Still /\ Lingers(a)
<1>1. /\ Others(a) /\ pc'[a] = p /\ at'[a] = at[a] /\ ShapeLocal'
  BY GoEffect, GoneIs
<1>2. Lingers(a)
  BY <1>1 DEF Lingers, Forward, Backward, Building
<1>3. QED
  BY <1>1, <1>2 DEF Still

LEMMA GoneGate ==
  ASSUME Inv, home = "gone", Gate
  PROVE  Still /\ Lingers(Worker)
<1>0. Worker \in Actor /\ pc[Worker] = "gate" /\ Status(at[Worker]) = "none"
      /\ upstream' = {} /\ app' = FALSE /\ key' = key
      /\ UNCHANGED <<belongs, namespace, home, created, eraser>>
  BY WorkerActs, GoneIs DEF Gate
<1>1. KeyTaken /\ key' \in [Attempt -> Actor \cup {"namespace", "lost"}]
  BY <1>0, GoneIs, KeySame
<1>2. CASE Silent /\ Rest(Worker)
  BY <1>0, <1>1, <1>2, RestLingers
<1>3. CASE Silent /\ Go(Worker, "call", IF jobs[at[Worker]].op = "inspect" THEN "inspect"
                                        ELSE got[Worker])
  <2>1. got[Worker] \in Answers
    BY <1>0, GoneIs DEF ShapeLocal, Answers
  <2> DEFINE g == IF jobs[at[Worker]].op = "inspect" THEN "inspect" ELSE got[Worker]
  <2>2. g \in Answers
    BY <2>1 DEF Answers
  <2>3. "call" \in Places \ {"clean"} /\ (Forward(Worker) \/ Backward(Worker))
    BY <1>0 DEF Places, Forward
  <2>4. Go(Worker, "call", g)
    BY <1>3
  <2> HIDE DEF g
  <2>5. QED
    BY <1>0, <1>1, <1>3, <2>2, <2>3, <2>4, GoLingers
<1>4. \/ Silent /\ Rest(Worker)
      \/ Silent /\ Go(Worker, "call", IF jobs[at[Worker]].op = "inspect" THEN "inspect"
                                      ELSE got[Worker])
  <2> DEFINE j == at[Worker]
             reached == got[Worker] = "reclaimed" \/ jobs[j].tries > 1
  <2>1. \/ Rest(Worker) /\ \/ MarkStepProblem(j, "failed", "refused")
                           \/ BrakeOption(j, reached)
                           \/ MarkStepProblem(j, "failed", "unready")
                           \/ /\ jobs' = RetryLater(jobs, j, "unready")
                              /\ UNCHANGED <<row, identity, step>>
        \/ /\ Go(Worker, "call", IF jobs[j].op = "inspect" THEN "inspect" ELSE got[Worker])
           /\ UNCHANGED <<jobs, row, identity, step>>
    BY Zenon DEF Gate
  <2>2. BrakeOption(j, reached) => Silent
    BY <1>0, NothingToMark DEF BrakeOption
  <2>3. MarkStepProblem(j, "failed", "refused") \/ MarkStepProblem(j, "failed", "unready") => Silent
    BY <1>0, NothingToMark
  <2>4. RetryLater(jobs, j, "unready") = jobs
    BY <1>0, NothingToMark
  <2> HIDE DEF reached
  <2>5. QED
    BY <2>1, <2>2, <2>3, <2>4 DEF Silent
<1>5. QED
  BY <1>2, <1>3, <1>4

LEMMA GoneWork ==
  ASSUME Inv, home = "gone", astray' = {}, NEW a \in Actor, Work(a)
  PROVE  Still /\ Lingers(a)
<1>0. /\ upstream = {} /\ app = FALSE /\ ~OpenHouse /\ ~ByDeletion
      /\ at[a] \in JobId /\ Status(at[a]) = "none" /\ ~Exists(a)
      /\ key \in [Attempt -> Actor \cup {"namespace", "lost"}]
      /\ \A i \in Attempt : identity[i] = "none"
  BY GoneIs DEF ShapeWorld
<1>1. ASSUME UNCHANGED key
      PROVE  KeyTaken /\ key' \in [Attempt -> Actor \cup {"namespace", "lost"}]
  BY <1>1, GoneIs, KeySame
<1>2. ASSUME SecretGone
      PROVE  KeyTaken /\ key' \in [Attempt -> Actor \cup {"namespace", "lost"}]
  BY <1>2, GoneIs, KeyGone
<1>3. ASSUME Rest(a), Silent, UNCHANGED <<belongs, namespace, home, created, eraser>>,
             upstream' = {}, app' = FALSE, UNCHANGED key \/ SecretGone
      PROVE  Still /\ Lingers(a)
  BY <1>1, <1>2, <1>3, RestLingers
<1>4. ~Call(a)
  BY <1>0 DEF Call
<1>5. CASE Answer(a)
  <2>1. /\ Rest(a) /\ UNCHANGED <<belongs, namespace, home, created, eraser, key, upstream, app>>
        /\ \/ WaitingAnswer(a)
           \/ MarkStepProblem(at[a], "waiting", "waiting")
           \/ Limited(a)
           \/ MarkStepProblem(at[a], "failed", got[a])
           \/ MarkStepProblem(at[a], "unknown", "inconclusive")
           \/ NoAnswer(a)
    BY <1>5 DEF Answer
  <2>2. ~TakesLateReference(at[a])
    BY <1>0 DEF TakesLateReference
  <2>3. WaitingAnswer(a) => Silent
    BY <1>0, <2>2, NothingToMark DEF WaitingAnswer
  <2>4. Limited(a) => Silent
    BY <1>0, NothingToMark DEF Limited, Silent
  <2>5. NoAnswer(a) => Silent
    BY <1>0, NothingToMark DEF NoAnswer, Silent
  <2>6. Silent
    BY <1>0, <2>1, <2>3, <2>4, <2>5, NothingToMark
  <2>7. QED
    BY <1>0, <1>3, <2>1, <2>6
<1>6. CASE Drop(a)
  BY <1>0, <1>3, <1>6 DEF Drop, Silent
<1>7. CASE Raze(a)
  <2>1. PICK s \in BOOLEAN, m \in BOOLEAN :
          /\ upstream' = upstream \ {Mailbox(a)} \/ UNCHANGED upstream
          /\ IF s THEN SecretGone ELSE UNCHANGED key
          /\ jobs' = jobs
          /\ Go(a, "close", IF s THEN IF m THEN "clean" ELSE "resource"
                            ELSE IF m THEN "secret" ELSE "both")
    BY <1>0, <1>7, Zenon DEF Raze
  <2> DEFINE g == IF s THEN IF m THEN "clean" ELSE "resource" ELSE IF m THEN "secret" ELSE "both"
  <2>2. /\ UNCHANGED <<row, identity, step, belongs, namespace, home, created, eraser, app>>
        /\ pc[a] = "raze"
    BY <1>7, Zenon DEF Raze
  <2>3. key' \in [Attempt -> Actor \cup {"namespace", "lost"}]
    BY <1>1, <1>2, <2>1
  <2>4. upstream' = {} /\ Silent /\ app' = FALSE
    BY <1>0, <2>1, <2>2 DEF Silent
  <2>5. g \in Answers /\ "close" \in Places \ {"clean"} /\ (Forward(a) \/ Backward(a))
    BY <2>2 DEF Answers, Places, Backward
  <2>6. Go(a, "close", g)
    BY <2>1
  <2> HIDE DEF g
  <2>7. QED
    BY <2>2, <2>3, <2>4, <2>5, <2>6, GoLingers
<1>8. CASE Deprovision(a)
  <2>1. /\ UNCHANGED <<row, identity, step, belongs, namespace, home, created, eraser, key, app>>
        /\ pc[a] = "clean" /\ at[a] \in Teardown
        /\ \/ upstream' = upstream \ {Mailbox(a)} /\ Go(a, "sweep", "none") /\ jobs' = jobs
           \/ /\ MarkProblem(at[a], "unknown", "teardown") /\ Rest(a)
              /\ UNCHANGED upstream \/ upstream' = upstream \ {Mailbox(a)}
    BY <1>8 DEF Deprovision
  <2>2. upstream' = {} /\ jobs' = jobs /\ app' = FALSE
    BY <1>0, <2>1, NothingToMark
  <2>3. CASE Rest(a)
    BY <1>3, <2>1, <2>2, <2>3 DEF Silent
  <2>4. CASE Go(a, "sweep", "none")
    <3>1. "sweep" \in Places \ {"clean"} /\ "none" \in Answers /\ Silent
      BY <2>1, <2>2 DEF Places, Answers, Silent
    <3>2. QED
      BY <1>1, <2>1, <2>2, <2>4, <3>1, GoLingers
  <2>5. QED
    BY <2>1, <2>3, <2>4
<1>9. CASE CleanSecret(a)
  <2>1. /\ UNCHANGED <<row, step, belongs, namespace, home, created, eraser, upstream, app>>
        /\ Rest(a) /\ jobs' = jobs /\ identity' = identity /\ (UNCHANGED key \/ SecretGone)
    BY <1>0, <1>9, Zenon DEF CleanSecret
  <2>2. QED
    BY <1>0, <1>3, <2>1 DEF Silent
<1>10. CASE CleanNamespace(a)
  <2>1. ~EmailCleanupPending
    BY <1>0 DEF EmailCleanupPending
  <2>2. /\ UNCHANGED <<row, identity, step, belongs, home, created, eraser, upstream>>
        /\ Rest(a)
        /\ \/ AppGone /\ namespace' = namespace /\ jobs' = jobs
           \/ /\ MarkProblem(at[a], "unknown", "teardown")
              /\ AppGone \/ UNCHANGED <<app, key>>
              /\ UNCHANGED namespace
    BY <1>0, <1>10, <2>1, Zenon DEF CleanNamespace, DeferCleanup
  <2>3. jobs' = jobs /\ namespace' = namespace /\ app' = FALSE /\ (UNCHANGED key \/ SecretGone)
    BY <1>0, <2>2, NothingToMark DEF AppGone
  <2>4. QED
    BY <1>0, <1>3, <2>2, <2>3 DEF Silent
<1>11. CASE MakeNamespace(a)
  <2>1. /\ UNCHANGED <<db, upstream, key, enabled, eraser, plan>> /\ pc[a] = "make"
        /\ \E g \in {"ready", "limited", "rejected", "lost"} : Go(a, "made", g)
        /\ app' \in {app, TRUE}
    BY <1>11, Zenon DEF MakeNamespace, EnsureApp, HostRefusal
  <2>2. jobs' = jobs
    BY <2>1
  <2>3. ~app'
    <3>1. jobs'[at[a]].status = "none"
      BY <1>0, <2>2 DEF Status
    <3>2. ASSUME app' PROVE FALSE
      <4>1. astray' = astray \cup {None}
        BY <1>11, <3>1, <3>2 DEF MakeNamespace, ObserveApp
      <4>2. QED
        BY <4>1
    <3>3. QED
      BY <3>2
  <2>4. app' = FALSE /\ upstream' = {} /\ Silent
        /\ UNCHANGED <<belongs, namespace, home, created, eraser>>
    BY <1>0, <2>1, <2>3 DEF Silent
  <2>5. PICK g \in {"ready", "limited", "rejected", "lost"} : Go(a, "made", g)
    BY <2>1
  <2>6. g \in Answers /\ "made" \in Places \ {"clean"} /\ Building(a)
    BY <2>1 DEF Answers, Places, Building
  <2>7. QED
    BY <1>1, <2>1, <2>4, <2>5, <2>6, GoLingers
<1>12. CASE Unmake(a)
  <2>1. /\ UNCHANGED <<db, upstream, enabled, eraser, plan>> /\ pc[a] = "unmake"
        /\ AppGone \/ UNCHANGED <<app, key>>
        /\ Go(a, "unmade", got[a]) \/ Go(a, "kept", got[a])
    BY <1>12 DEF Unmake
  <2>2. app' = FALSE /\ upstream' = {} /\ Silent /\ (UNCHANGED key \/ SecretGone)
        /\ UNCHANGED <<belongs, namespace, home, created, eraser>>
    BY <1>0, <2>1 DEF AppGone, Silent
  <2>3. got[a] \in Answers /\ "unmade" \in Places \ {"clean"} /\ "kept" \in Places \ {"clean"}
        /\ Building(a)
    BY <2>1, GoneIs DEF Answers, Places, Building, ShapeLocal
  <2>4. key' \in [Attempt -> Actor \cup {"namespace", "lost"}]
    BY <1>1, <1>2, <2>2
  <2>5. CASE Go(a, "unmade", got[a])
    BY <2>1, <2>2, <2>3, <2>4, <2>5, GoLingers
  <2>6. CASE Go(a, "kept", got[a])
    BY <2>1, <2>2, <2>3, <2>4, <2>6, GoLingers
  <2>7. QED
    BY <2>1, <2>5, <2>6
<1>13. ~Barrier(a) /\ ~StageSecret(a) /\ ~FinishStep(a) /\ ~Close(a) /\ ~Sweep(a)
       /\ ~FinishNamespace(a) /\ ~CloseNamespace(a)
  BY <1>0, Zenon DEF Barrier, StageSecret, FinishStep, Close, Sweep, FinishNamespace, CloseNamespace
<1>14. QED
  BY <1>4, <1>5, <1>6, <1>7, <1>8, <1>9, <1>10, <1>11, <1>12, <1>13 DEF Work

LEMMA GoneNext ==
  ASSUME Inv, home = "gone", astray' = {}, [Next]_vars
  PROVE  Inv'
<1>0. /\ upstream = {} /\ app = FALSE /\ eraser.doing = "idle" /\ ~OpenHouse /\ ~ByDeletion
      /\ \A j \in JobId : Status(j) = "none"
      /\ \A a \in Actor : at[a] \in JobId /\ Status(at[a]) = "none" /\ ~Exists(a)
      /\ ShapeLocal /\ ShapeWorld
  BY GoneIs
<1>1. CASE Brake \/ UNCHANGED vars
  <2>1. /\ UNCHANGED <<jobs, row, identity, step, belongs, namespace, home, created, eraser>>
        /\ UNCHANGED <<upstream, app, key, pc, at, got>>
    BY <1>1 DEF Brake
  <2>2. Still /\ Lingers(Worker)
    BY <1>0, <2>1 DEF Still, Silent, Lingers, Others, ShapeLocal, ShapeWorld
  <2>3. QED
    BY <2>2, GoneKeeps, WorkerActs
<1>2. CASE Gate
  BY <1>2, GoneGate, GoneKeeps, WorkerActs
<1>3. ASSUME NEW a \in Actor, Work(a) PROVE Inv'
  BY <1>3, GoneWork, GoneKeeps
<1>4. ASSUME NEW a \in Actor, Crash(a) PROVE Inv'
  <2>1. /\ Rest(a) /\ UNCHANGED <<db, upstream, key, app, enabled, eraser, plan, astray>>
    BY <1>4 DEF Crash
  <2>2. KeyTaken /\ key' \in [Attempt -> Actor \cup {"namespace", "lost"}]
    BY <1>0, <2>1, KeySame
  <2>3. Still /\ Lingers(a)
    BY <1>0, <2>1, <2>2, RestLingers DEF Silent
  <2>4. QED
    BY <2>3, GoneKeeps
<1>5. ~Order \/ Brake
  BY <1>0 DEF Order, Select, Retry, Check, Reset, Cancel, Withdraw, Delete, OpenHouse
<1>6. \A j \in JobId : ~Lease(j)
  BY <1>0 DEF Lease, Leasable
<1>7. \A o \in Operators, j \in JobId : ~Reconcile(o, j)
  BY <1>0, Zenon DEF Reconcile
<1>8. ~Erase /\ ~EraserCrash
  BY <1>0 DEF Erase, EraseRead, EraseCall, EraseEnd, EraserCrash
<1>9. QED
  BY <1>1, <1>2, <1>3, <1>4, <1>5, <1>6, <1>7, <1>8 DEF Next

-----------------------------------------------------------------------------
(* The beginning, every step, and the theorems *)

LEMMA InitJobs ==
  ASSUME Init
  PROVE  /\ ShapeJobs
         /\ \A j \in JobId : j # Making(None) => Status(j) = "none" /\ ~Quarantined(j)
         /\ Status(Making(None)) = IF plan.fresh THEN "pending" ELSE "succeeded"
         /\ ~Quarantined(Making(None))
<1>1. Making(None) \in JobId
  BY MakerName DEF Mailboxes
<1>2. 0 \in 0..TryMax
  BY BoundsAssumption
<1>3. NoJob \in JobRec
  BY <1>2 DEF NoJob, JobRec, JobStatus, JobWhy
<1>4. \A s \in {"pending", "succeeded"} :
        [NoJob EXCEPT !.op = "ensure", !.status = s] \in JobRec
  BY <1>2 DEF NoJob, JobRec, JobStatus, JobWhy, Unsettled
<1>5. \A s : /\ [NoJob EXCEPT !.op = "ensure", !.status = s].status = s
             /\ [NoJob EXCEPT !.op = "ensure", !.status = s].why = "none"
  BY DEF NoJob
<1>6. jobs = [j \in JobId |-> IF j # Making(None) THEN NoJob
                              ELSE [NoJob EXCEPT !.op = "ensure",
                                !.status = IF plan.fresh THEN "pending" ELSE "succeeded"]]
  BY DEF Init
<1>7. NoJob.status = "none" /\ NoJob.why = "none"
  BY DEF NoJob
<1>8. ShapeJobs
  BY <1>3, <1>4, <1>6 DEF ShapeJobs
<1>9. QED
  BY <1>1, <1>5, <1>6, <1>7, <1>8 DEF Status, Quarantined

LEMMA InitInv ==
  ASSUME Init
  PROVE  Inv
<1>0. /\ \A n \in Attempt : row[n] = "none" /\ identity[n] = "none" /\ belongs[n] = None
      /\ upstream = {} /\ step = "available" /\ home = "onboarding" /\ consent = FALSE
      /\ namespace = IF plan.fresh THEN "none" ELSE "ready"
      /\ app = ~plan.fresh /\ created = 0
      /\ \A a \in Actor : pc[a] = "idle" /\ at[a] = Namespace /\ got[a] = "none"
      /\ eraser = Idle
  BY DEF Init
<1>1. /\ \A j \in JobId : j # Making(None) => Status(j) = "none" /\ ~Quarantined(j)
      /\ Status(Making(None)) = IF plan.fresh THEN "pending" ELSE "succeeded"
      /\ ~Quarantined(Making(None))
  BY InitJobs
<1>2. AttemptMax \in Nat /\ \A n \in Attempt : n \in Nat /\ n >= 1 /\ n # None
  BY Attempts
<1>3. Making(None) \in Maker /\ Making(None) \notin StepJob /\ Making(None) \notin CleanJob
      /\ Making(None) \notin NamespaceCleanup
  BY MakerName, Kinds DEF Mailboxes, CleanJob
<1>4. StepJob \subseteq JobId /\ Maker \subseteq JobId /\ CleanJob \subseteq JobId
      /\ NamespaceCleanup \subseteq JobId /\ Teardown \subseteq CleanJob
      /\ SecretJob \subseteq CleanJob /\ Namespace \in JobId
  BY Kinds DEF CleanJob
<1>5. \A n \in Attempt : Step(n) \in StepJob /\ Making(n) \in Maker /\ Making(n) # Making(None)
  BY <1>2, StepName, MakerName DEF Mailboxes, Making
<1>6. /\ \A j \in StepJob \cup CleanJob \cup NamespaceCleanup : Status(j) = "none" /\ ~Quarantined(j)
      /\ \A n \in Attempt : Status(Step(n)) = "none" /\ Status(Making(n)) = "none"
      /\ \A j \in Maker : Status(j) \in {"none", "pending", "succeeded"} /\ ~Quarantined(j)
      /\ \A j \in Maker : ~MakerOpen(j)
  BY <1>1, <1>3, <1>4, <1>5 DEF MakerOpen
<1>7. \A a \in Actor : ~Forward(a) /\ ~Backward(a) /\ ~Building(a)
  BY <1>0 DEF Forward, Backward, Building
<1>8. \A n \in Attempt : ~Unset(n) /\ ~Active(n) /\ ~IsLive(n)
  BY <1>0, <1>6 DEF Unset, Active, Unsettled, IsLive, Live
<1>9. Shape
  <2>1. ShapeJobs
    BY InitJobs
  <2>2. ShapeRest
    BY <1>2 DEF Init, ShapeRest, RowState, IdentityState, InProgress, None
  <2>3. ShapeWorld
    BY <1>0 DEF Init, ShapeWorld
  <2>4. ShapeLocal
    BY <1>4 DEF Init, ShapeLocal, Idle
  <2>5. QED
    BY <2>1, <2>2, <2>3, <2>4 DEF Shape
<1>10. Numbers
  <2>1. \A n \in Attempt : ~(n <= created) /\ n > created
    BY <1>0, <1>2
  <2>2. QED
    BY <1>0, <1>6, <2>1 DEF Numbers
<1>11. Where
  BY <1>0, <1>7 DEF Where
<1>12. Handed
  <2>1. \A j \in JobId : Status(j) # "waiting"
    BY <1>1
  <2>2. QED
    BY <1>0, <1>6, <2>1 DEF Handed
<1>13. OneLeft /\ Kept /\ NotDeleted /\ Consented /\ Steps
  BY <1>0, <1>6, <1>8 DEF OneLeft, Kept, NotDeleted, Consented, Steps
<1>14. Parents
  BY <1>4, <1>6 DEF Parents
<1>15. Claims
  BY <1>0, <1>7 DEF Claims
<1>16. Makers
  <2>1. /\ Status(Making(None)) # "none"
        /\ \A m \in {None} \cup Attempt : Status(Making(m)) # "none" => m <= None
        /\ None \in Mailboxes
    BY <1>1, <1>6 DEF Mailboxes, None
  <2>2. Made <=> Status(Making(None)) = "succeeded"
    BY <2>1, LatestIs DEF Made, Mailboxes
  <2>3. namespace = "ready" <=> Made
    BY <1>0, <1>1, <2>2
  <2>4. app => Owned
    BY <1>0 DEF Owned
  <2>5. \A n \in Attempt : Status(Making(n)) = "none"
    BY <1>6
  <2>6. \E n \in {None} \cup Attempt :
           /\ Status(Making(n)) # "none"
           /\ \A m \in {None} \cup Attempt : Status(Making(m)) # "none" => m <= n
    BY <2>1
  <2>7. \A n \in {None} \cup Attempt : Status(Making(n)) # "none" =>
           \A m \in {None} \cup Attempt : Status(Making(m)) # "none" => m <= n
    BY <2>1, <2>5
  <2>8. \A n \in {None} \cup Attempt : Status(Making(n)) \in {"pending", "running", "unknown"} =>
           \A m \in {None} \cup Attempt : Status(Making(m)) # "none" => m <= n
    BY <2>7
  <2>9. QED
    BY <1>0, <1>6, <1>7, <2>3, <2>4, <2>6, <2>8 DEF Makers
<1>17. Erasing
  BY <1>0 DEF Erasing, ByDeletion, Idle
<1>18. Served
  BY <1>0 DEF Served
<1>19. Hands /\ OneOpen /\ Wanted
  BY <1>7, <1>8 DEF Hands, OneOpen, Wanted
<1>20. Untouched /\ Secrets
  BY <1>0, <1>4, <1>6, <1>7 DEF Untouched, Secrets
<1>21. QED
  BY <1>0, <1>9, <1>10, <1>11, <1>12, <1>13, <1>14, <1>15, <1>16, <1>17, <1>18, <1>19, <1>20
     DEF Inv, Ordered

LEMMA OrderInv ==
  ASSUME OneOperator, Inv, home # "gone", plan \in Plans, Order
  PROVE  Inv'
BY SelectInv, RetryInv, CheckInv, ResetInv, CancelInv, WithdrawInv, DeleteInv, RestingInv
   DEF Order

LEMMA StillInv ==
  ASSUME OneOperator, Inv, home # "gone", UNCHANGED vars
  PROVE  Inv'
<1>1. Resting
  BY DEF Resting, Outside, Rests
<1>2. Shape'
  BY InvIs DEF Shape, ShapeJobs, ShapeRest, ShapeWorld, ShapeLocal
<1>3. Writing(Worker) /\ Worker \in Actor
  BY <1>1, WorkerActs DEF Writing
<1>4. QED
  BY <1>2, <1>3, WritingKeeps

LEMMA NextInv ==
  ASSUME OneOperator, Inv, plan \in Plans, astray' = {}, [Next]_vars
  PROVE  Inv'
<1>1. CASE home = "gone"
  BY <1>1, GoneNext
<1>2. CASE home # "gone"
  <2>1. CASE Order
    BY <1>2, <2>1, OrderInv
  <2>2. CASE \E j \in JobId : Lease(j)
    BY <1>2, <2>2, LeaseInv
  <2>3. CASE Gate
    BY <1>2, <2>3, GateInv
  <2>4. CASE \E o \in Operators, j \in JobId : Reconcile(o, j)
    BY <1>2, <2>4, ReconcileInv
  <2>5. CASE \E a \in Actor : Work(a)
    BY <1>2, <2>5, WorkInv
  <2>6. CASE \E a \in Actor : Crash(a)
    BY <1>2, <2>6, RestingInv
  <2>7. CASE Erase
    BY <1>2, <2>7, EraseInv
  <2>8. CASE EraserCrash
    BY <1>2, <2>8, EraserCrashInv
  <2>9. CASE UNCHANGED vars
    BY <1>2, <2>9, StillInv
  <2>10. QED
    BY <2>1, <2>2, <2>3, <2>4, <2>5, <2>6, <2>7, <2>8, <2>9 DEF Next
<1>3. QED
  BY <1>1, <1>2

(* No action touches the household's plan: what is assumed of the plans holds *)
(* of the one a behaviour is about, in every one of its states.               *)
LEMMA PlanStays == Spec => [](plan \in Plans)
<1>1. Init => plan \in Plans
  BY DEF Init
<1>2. plan \in Plans /\ [Next]_vars => (plan \in Plans)'
  BY NextOnlyMore DEF OnlyMore
<1>3. QED
  BY <1>1, <1>2, PTL DEF Spec

(* What the worker, the operator, the family and the erasure keep true        *)
(* together, as long as nothing was observed that the code does not guard:    *)
(* one attempt at a time in one pair of hands, each row of what may be at the *)
(* provider kept open until it is torn down, one job that makes the namespace *)
(* (worker.py, service.py, withdraw.py, delete.py). For any number of         *)
(* attempts, tries and faults, with one operator who reconciles.              *)
THEOREM ProvisioningInductive == OneOperator /\ Spec => [](astray = {} => Inv)
<1> DEFINE I == OneOperator /\ (astray = {} => Inv)
<1>1. OneOperator /\ Init => I
  BY InitInv
<1>2. plan \in Plans /\ I /\ [Next]_vars => I'
  <2> SUFFICES ASSUME OneOperator, plan \in Plans, astray = {} => Inv, [Next]_vars, astray' = {}
               PROVE  Inv'
    BY DEF OneOperator
  <2>1. astray = {}
    BY NextOnlyMore DEF OnlyMore
  <2>2. QED
    BY <2>1, NextInv
<1>3. I => (astray = {} => Inv)
  OBVIOUS
<1>4. QED
  BY <1>1, <1>2, <1>3, PlanStays, PTL DEF Spec

(* finish_disconnect calls a mailbox deleted, and resume an erasure complete, *)
(* only when nothing of it is at the provider or the host, however late the   *)
(* answer to a call comes.                                                    *)
THEOREM NothingLeft == OneOperator /\ Spec => [](astray = {} => NothingIsLeft)
<1>1. Inv => NothingIsLeft
  <2>1. CASE home = "gone"
    BY <2>1, GoneIs DEF NothingIsLeft
  <2>2. CASE home # "gone"
    <3>1. Inv => NotDeleted
      BY <2>2, InvIs
    <3>2. QED
      BY <2>2, <3>1 DEF NotDeleted, NothingIsLeft
  <2>3. QED
    BY <2>1, <2>2
<1>2. QED
  BY <1>1, ProvisioningInductive, PTL

(* The mailbox that mark_verified showed the family is at the provider, and   *)
(* the key its runtime reads is the one the provider accepts.                 *)
THEOREM VerifiedServed == OneOperator /\ Spec => [](astray = {} => VerifiedIsServed)
<1>1. Inv => VerifiedIsServed
  <2>1. CASE home = "gone"
    BY <2>1, GoneIs DEF VerifiedIsServed
  <2>2. CASE home # "gone"
    <3>1. Inv => Served
      BY <2>2, InvIs
    <3>2. QED
      BY <3>1 DEF Served, VerifiedIsServed
  <2>3. QED
    BY <2>1, <2>2
<1>2. QED
  BY <1>1, ProvisioningInductive, PTL

(* No crash, lost answer or supersession loses what is at the provider or the *)
(* host: a row that is not deleted or a job whose outcome is open leads to it. *)
THEOREM NoneIsLost == OneOperator /\ Spec => [](astray = {} => NeverLost)
<1>1. Inv => NeverLost
  <2>1. CASE home = "gone"
    BY <2>1 DEF NeverLost
  <2>2. CASE home # "gone"
    <3> SUFFICES ASSUME Inv PROVE NeverLost
      OBVIOUS
    <3>1. Kept /\ Makers
      BY <2>2, InvIs
    <3>2. ASSUME NEW i \in upstream PROVE \E n \in Attempt : belongs[n] = i /\ Reaches(n)
      BY <3>1 DEF Kept, RowKept, RowOpen, MakerOpen, Reaches
    <3>3. app => \/ namespace \in {"ready", "deleting", "unknown"}
                 \/ \E j \in Maker : Status(j) \in {"running", "unknown"}
      BY <3>1 DEF Makers, Owned, OpenMaker, MakerOpen
    <3>4. QED
      BY <3>2, <3>3 DEF NeverLost
  <2>3. QED
    BY <2>1, <2>2
<1>2. QED
  BY <1>1, ProvisioningInductive, PTL
=============================================================================
