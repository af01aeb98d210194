--------------------------- MODULE Provisioning ---------------------------
(***************************************************************************)
(* The mailbox of one household at an outside provider, and the secret     *)
(* namespace it needs, an app of the host: the commands of the family      *)
(* (onboarding/service.py, privacy/withdraw.py, privacy/delete.py), the    *)
(* durable jobs they leave (repositories/jobs.py),                         *)
(* the worker that carries them out, the operator who reconciles those of  *)
(* unknown outcome (provisioning/worker.py), and the erasure.              *)
(*                                                                         *)
(* A mailbox is named by the number of the attempt that selected it. What  *)
(* the provider holds is in upstream, whatever the database says.          *)
(***************************************************************************)
EXTENDS Integers, FiniteSets

CONSTANTS
  AttemptMax,  \* bound: jobs of the email step
  CommandMax,  \* bound: versions of the workflow its people make
  TryMax,      \* max_safe_attempts, and the polls of a waiting domain
  FaultMax,    \* bound: lost answers, refused tear-downs, kills, together
  Worker,      \* the embedded worker
  Operators,   \* processes of the command reconcile
  Plans        \* the households looked at: see PlanAssumption

Attempt == 1..AttemptMax
Version == 0..(CommandMax + AttemptMax)  \* an attempt is verified once
Actor == {Worker} \cup Operators
None == 0
Command == {"select", "retry", "check", "reset", "cancel", "withdraw", "delete", "brake"}

ASSUME BoundsAssumption ==
  /\ AttemptMax \in Nat \ {0} /\ CommandMax \in Nat
  /\ TryMax \in Nat \ {0} /\ FaultMax \in Nat
ASSUME ActorAssumption ==
  Worker \notin Operators /\ Actor \cap {"namespace", "lost"} = {}
(* A household: what its people do, the bounds of its counters, and its      *)
(* provider: gated on consent and on the kill switch (real), polled by the   *)
(* worker while it waits (polled), refusing only before it begins (atomic).  *)
(* A fresh one has saved its profile and its namespace is still to be made.  *)
ASSUME PlanAssumption ==
  Plans \subseteq [commands : SUBSET Command, attempts : Attempt, versions : 0..CommandMax,
                   faults : 0..FaultMax, real : BOOLEAN, polled : BOOLEAN, atomic : BOOLEAN,
                   fresh : BOOLEAN]

(* Rows of provisioning_jobs, named by what makes their intent_key. *)
Step(n) == <<"step", n, 0>>
Registered(n, v) == <<"registered", n, v>>
LateCleanup(n) == <<"late", n, 0>>
WaitingCleanup(n) == <<"waiting", n, 0>>
SecretCleanup(n) == <<"secret", n, 0>>
Namespace == <<"namespace", 0, 0>>
Making(n) == <<"making", n, 0>>          \* 0: by the profile, n: by a retry
LateNamespace(j) == <<"unmake", j[2], 0>>

StepJob == {Step(n) : n \in Attempt}
Maker == {Making(n) : n \in {None} \cup Attempt}
NamespaceCleanup == {Namespace} \cup {LateNamespace(j) : j \in Maker}
SecretJob == {SecretCleanup(n) : n \in Attempt}
Teardown == {Registered(n, v) : n \in Attempt, v \in Version}
              \cup {LateCleanup(n) : n \in Attempt}
              \cup {WaitingCleanup(n) : n \in Attempt}
JobId == StepJob \cup Maker \cup SecretJob \cup Teardown \cup NamespaceCleanup

VARIABLES
  (* the database *)
  jobs,       \* provisioning_jobs
  row,        \* external_resources: what job n made at the provider
  identity,   \* email_identities.status
  bound,      \* identities with a secret_binding_ref
  belongs,    \* the identity in the request of job n
  namespace,  \* the row of the secret namespace
  step,       \* the email step
  home,       \* the household, and its workflow: draft is cancelled
  consent,    \* the receipts the provider needs are current
  version,    \* of the workflow
  created,    \* the last attempt
  (* the world *)
  upstream,   \* identities the provider holds something of
  key,        \* where the key is that the provider accepts for a mailbox
  app,        \* the namespace itself: an app of the hosting provider
  enabled,    \* the kill switch: forward calls are allowed
  faults,
  (* the processes *)
  pc, at, got,  \* of an actor: its place, its job, the answer it has
  eraser,       \* an erasure in progress
  plan,         \* the household, which no action changes
  (* an observation, which no action reads *)
  astray        \* identities, and None for the app, of which something may be
                \* left behind by one of the ways the code does not guard:
                \* see Observe, Call, ObserveApp and EraseEnd

db == <<jobs, row, identity, bound, belongs, namespace, step, home, consent,
        version, created>>
world == <<upstream, key, app, enabled, faults>>
local == <<pc, at, got>>
vars == <<db, world, local, eraser, plan, astray>>

Live == {"provisioning", "waiting", "unknown", "attention", "verified"}
Unsettled == {"pending", "running", "waiting", "unknown"}
InProgress == {"provisioning", "waiting_user", "verifying"}
Idle == [doing |-> "idle", rows |-> {}, absent |-> {}, open |-> FALSE]
NoJob == [status |-> "none", why |-> "none", op |-> "none", tries |-> 0,
          of |-> None, parent |-> None]

TypeOK ==
  /\ jobs \in [JobId ->
       [status : {"none", "succeeded", "failed", "cancelled"} \cup Unsettled,
        why : {"none", "quarantine", "before", "refused", "braked", "limited",
               "rejected", "lost", "late", "inconclusive", "handoff", "waiting",
               "absent", "unready", "teardown", "compensated"},
        op : {"none", "ensure", "inspect", "clean"},
        tries : 0..TryMax, of : {None} \cup Attempt, parent : {None} \cup Attempt]]
  /\ row \in [Attempt -> {"none", "creating", "ready", "deleting", "unknown", "deleted"}]
  /\ identity \in [Attempt -> {"none", "disconnecting", "deleted"} \cup Live]
  /\ bound \subseteq Attempt /\ upstream \subseteq Attempt
  /\ astray \subseteq {None} \cup Attempt /\ plan \in Plans
  /\ belongs \in [Attempt -> {None} \cup Attempt]
  /\ namespace \in {"none", "ready", "deleting", "unknown", "deleted"}
  /\ step \in {"available", "verified", "failed", "cancelled"} \cup InProgress
  /\ home \in {"onboarding", "draft", "deleting", "gone"}
  /\ {consent, app, enabled} \subseteq BOOLEAN
  /\ version \in Version /\ created \in 0..AttemptMax /\ faults \in 0..FaultMax
  /\ key \in [Attempt -> Actor \cup {"namespace", "lost"}]
  /\ pc \in [Actor -> {"idle", "gate", "call", "answer", "finish", "raze", "close",
                       "clean", "sweep", "make", "made", "unmake", "unmade", "kept"}]
  /\ at \in [Actor -> JobId]
  /\ got \in [Actor -> {"none", "reclaimed", "inspect", "ready", "waiting", "pending", "limited",
                        "rejected", "lost", "absent", "inconclusive",
                        "clean", "secret", "resource", "both", "open", "shut"}]
  /\ eraser \in [doing : {"idle", "call", "end"}, rows : SUBSET ({None} \cup Attempt),
                 absent : SUBSET ({None} \cup Attempt), open : BOOLEAN]

Init ==
  /\ plan \in Plans
  /\ jobs = [j \in JobId |-> IF j # Making(None) THEN NoJob
                             ELSE [NoJob EXCEPT !.op = "ensure",
                               !.status = IF plan.fresh THEN "pending" ELSE "succeeded"]]
  /\ row = [n \in Attempt |-> "none"]
  /\ identity = [n \in Attempt |-> "none"]
  /\ bound = {} /\ upstream = {}
  /\ belongs = [n \in Attempt |-> None]
  /\ namespace = IF plan.fresh THEN "none" ELSE "ready"
  /\ step = "available" /\ home = "onboarding"
  /\ consent = FALSE /\ app = ~plan.fresh /\ enabled = TRUE
  /\ version = 0 /\ created = 0 /\ faults = 0
  /\ key = [i \in Attempt |-> "lost"]
  /\ pc = [a \in Actor |-> "idle"]
  /\ at = [a \in Actor |-> Namespace]
  /\ got = [a \in Actor |-> "none"]
  /\ eraser = Idle /\ astray = {}

-----------------------------------------------------------------------------
(* What the database says *)
Status(j) == jobs[j].status
Quarantined(j) == jobs[j].why = "quarantine"
ByDeletion == home = "deleting"
Superseded(j) == Status(j) \in {"none", "cancelled"} \/ Quarantined(j)

NamespaceReady == namespace = "ready"
NamespaceGone == namespace = "deleted"

Latest(S) == IF S = {} THEN None ELSE CHOOSE n \in S : \A m \in S : m <= n
Current == Latest({i \in Attempt : identity[i] \in Live})
Undeleted == Latest({i \in Attempt : identity[i] \notin {"none", "deleted"}})
WaitingAttempt == Latest({n \in Attempt : Status(Step(n)) = "waiting"})
\* The namespace job an email job looks at: Making(None) is always there.
LatestMaker == Making(Latest({n \in Attempt : Status(Making(n)) # "none"}))

New(op, i, parent) ==
  [NoJob EXCEPT !.status = "pending", !.op = op, !.of = i, !.parent = parent]
Create(js, j, job) == IF js[j].status = "none" THEN [js EXCEPT ![j] = job] ELSE js
Settle(js, j, status, why) == [js EXCEPT ![j].status = status, ![j].why = why]

RetryLater(js, j, why) ==
  IF js[j].status = "running" \/ (js[j].status = "unknown" /\ js[j].why # "quarantine")
  THEN Settle(js, j, "pending", why) ELSE js

\* Slip: the job that was compensated stays open.
SettleNoParent(js, n) == js
SettleParent(js, n) ==
  IF n # None /\ js[Step(n)].status \in {"running", "unknown", "cancelled"}
  THEN Settle(js, Step(n), "cancelled", "compensated") ELSE js

(* Nothing of the mailbox is unresolved: no job, no resource, no secret. *)
Closable(js, rows) ==
  /\ \A j \in StepJob : js[j].status \notin Unsettled
  /\ \A n \in Attempt : rows[n] \in {"none", "deleted"}
  /\ \A j \in SecretJob : js[j].status \in {"none", "succeeded"}

FinishDisconnect(ids, js, rows, i) ==
  IF i # None /\ ids[i] = "disconnecting" /\ Closable(js, rows)
  THEN [ids EXCEPT ![i] = "deleted"] ELSE ids

\* Slip: only what is still being made is disconnected.
BeginUnverified ==
  [i \in Attempt |-> IF identity[i] \in Live \ {"verified"} THEN "disconnecting"
                     ELSE identity[i]]
BeginDisconnect ==
  [i \in Attempt |-> IF identity[i] \in Live THEN "disconnecting" ELSE identity[i]]

EmailCleanupPending ==
  (\E i \in Attempt : identity[i] = "disconnecting") /\ ~Closable(jobs, row)

-----------------------------------------------------------------------------
(* Commands of the family *)
OpenHouse == home \notin {"deleting", "gone"}
Issue(c) == c \in plan.commands /\ version < plan.versions
NextAttempt == created + 1
(* A retry makes a namespace when there is none and none is being made. *)
NeedsNamespace ==
  /\ namespace \notin {"ready", "unknown"}
  /\ \A j \in Maker : Status(j) \notin {"pending", "running", "unknown"}
CanAttempt == created < plan.attempts /\ (plan.real => enabled)

StartJob(js, op, i) ==
  /\ jobs' = Create(js, Step(NextAttempt), New(op, i, None))
  /\ belongs' = [belongs EXCEPT ![NextAttempt] = i]
  /\ created' = NextAttempt
  /\ version' = version + 1

Select ==
  /\ Issue("select") /\ OpenHouse /\ CanAttempt
  /\ step = "available"
  /\ \A i \in Attempt : identity[i] # "disconnecting"
  /\ consent' = TRUE
  /\ identity' = [identity EXCEPT ![NextAttempt] = "provisioning"]
  /\ StartJob(jobs, "ensure", NextAttempt)
  /\ step' = "provisioning"
  /\ UNCHANGED <<row, bound, namespace, home, world, local, eraser, plan, astray>>

Retry ==
  /\ Issue("retry") /\ OpenHouse /\ CanAttempt
  /\ step = "failed"
  /\ Current # None
  /\ identity[Current] \in {"provisioning", "waiting", "attention", "unknown"}
  /\ identity' = [identity EXCEPT ![Current] = "provisioning"]
  /\ StartJob(IF NeedsNamespace
              THEN Create(jobs, Making(NextAttempt), New("ensure", None, None)) ELSE jobs,
              "ensure", Current)
  /\ step' = "provisioning"
  /\ UNCHANGED <<row, bound, namespace, home, consent, world,
                 local, eraser, plan, astray>>

Check ==
  /\ Issue("check") /\ OpenHouse /\ created < plan.attempts
  /\ step = "waiting_user"
  /\ WaitingAttempt # None
  /\ Current # None
  /\ StartJob(Settle(jobs, Step(WaitingAttempt), "cancelled",
                     jobs[Step(WaitingAttempt)].why), "inspect", Current)
  /\ step' = "verifying"
  /\ UNCHANGED <<row, identity, bound, namespace, home, consent, world,
                 local, eraser, plan, astray>>

(* _schedule_registered_cleanup *)
Registrable == {n \in Attempt : row[n] \in {"creating", "ready", "unknown"}}
RegisterCleanup(js, v) ==
  LET fresh == {Registered(n, v) : n \in Registrable}
  IN [j \in JobId |-> IF j \in fresh /\ js[j].status = "none"
                      THEN New("clean", Undeleted, Latest({n \in Attempt :
                             js[Step(n)].status = "waiting"}))
                      ELSE js[j]]
Registering == [n \in Attempt |-> IF n \in Registrable THEN "deleting" ELSE row[n]]

\* Slip: a call that may have been made is cancelled like one that was not.
SupersedeAll(js, kinds) ==
  [j \in JobId |-> IF j \in kinds /\ js[j].status \in Unsettled
                   THEN [js[j] EXCEPT !.status = "cancelled", !.why = "before"] ELSE js[j]]

(* _supersede_unsettled_jobs *)
Supersede(js, kinds) ==
  [j \in JobId |->
     IF j \in kinds /\ js[j].status = "pending"
     THEN [js[j] EXCEPT !.status = "cancelled", !.why = "before"]
     ELSE IF j \in kinds /\ js[j].status \in {"running", "waiting", "unknown"}
     THEN [js[j] EXCEPT !.status = "unknown", !.why = "quarantine"]
     ELSE js[j]]

Disconnect(js) ==
  /\ jobs' = js
  /\ row' = Registering
  /\ identity' = FinishDisconnect(BeginDisconnect, js, Registering,
                   Latest({i \in Attempt : BeginDisconnect[i] = "disconnecting"}))

(* A cancelled household is not reset: its namespace would be made anew. *)
Reset ==
  /\ Issue("reset") /\ home = "onboarding"
  /\ step \in {"verified", "waiting_user"}
  /\ Disconnect(Supersede(RegisterCleanup(jobs, version + 1), StepJob \cup Maker))
  /\ step' = "available"
  /\ version' = version + 1
  /\ UNCHANGED <<bound, belongs, namespace, home, consent, created, world,
                 local, eraser, plan, astray>>

Cancel ==
  /\ Issue("cancel") /\ home = "onboarding"
  /\ LET js == RegisterCleanup(jobs, version + 1)
         registered == IF namespace \in {"ready", "unknown"}
                       THEN Create(js, Namespace, New("clean", None, None)) ELSE js
     IN Disconnect(Supersede(registered, StepJob \cup Maker))
  /\ namespace' = IF namespace \in {"ready", "unknown"} THEN "deleting" ELSE namespace
  /\ step' = IF step = "verified" THEN step ELSE "cancelled"
  /\ home' = "draft"
  /\ version' = version + 1
  /\ UNCHANGED <<bound, belongs, consent, created, world, local, eraser, plan, astray>>

(* A repeated withdrawal runs the disconnection again. *)
Withdraw ==
  /\ "withdraw" \in plan.commands
  /\ created > 0 /\ home # "gone"
  /\ consent' = FALSE
  /\ Disconnect(RegisterCleanup(Supersede(jobs, StepJob), version))
  /\ UNCHANGED <<bound, belongs, namespace, step, home, version, created, world,
                 local, eraser, plan, astray>>

Delete ==
  /\ "delete" \in plan.commands
  /\ OpenHouse
  /\ home' = "deleting"
  /\ jobs' = [j \in JobId |-> IF Status(j) \in {"pending", "waiting"}
                              THEN [jobs[j] EXCEPT !.status = "cancelled"] ELSE jobs[j]]
  /\ identity' = BeginDisconnect
  /\ UNCHANGED <<row, bound, belongs, namespace, step, consent, version, created,
                 world, local, eraser, plan, astray>>

(* The operator moves the kill switch. *)
Brake ==
  /\ plan.real /\ "brake" \in plan.commands
  /\ enabled' = ~enabled
  /\ UNCHANGED <<db, upstream, key, app, faults, local, eraser, plan, astray>>

-----------------------------------------------------------------------------
(* What a worker writes *)

\* _external_resource: a job has one row, whoever writes it.
External(n, status) == [row EXCEPT ![n] = status]

Go(a, place, answer) ==
  /\ pc' = [pc EXCEPT ![a] = place]
  /\ got' = [got EXCEPT ![a] = answer]
  /\ UNCHANGED at
Rest(a) ==
  /\ pc' = [pc EXCEPT ![a] = "idle"]
  /\ got' = [got EXCEPT ![a] = "none"]
  /\ at' = [at EXCEPT ![a] = Namespace]

Here(a) == at[a][2]              \* the attempt of the job at hand
Mailbox(a) == belongs[Here(a)]   \* and the identity in its request
IsWorker(a) == a = Worker
Fault == faults' = faults + 1 /\ faults < plan.faults

MarkOf == [failed |-> "attention", unknown |-> "unknown", waiting |-> "waiting"]
StepOf == [failed |-> "failed", unknown |-> "verifying", waiting |-> "waiting_user"]

(* A job that was cancelled stays ambiguous, a quarantined one waits for no *)
(* family, and one that is settled stays settled.                           *)
MayMark(j, status) ==
  /\ Status(j) \in {"running", "unknown"}
  /\ ~(status = "waiting" /\ Status(j) = "unknown" /\ Quarantined(j))

MarkStepProblem(j, status, why) ==
  LET n == j[2]
      i == belongs[n]
      settled == Settle(jobs, j, status, why)
      polling == IF plan.polled /\ status = "waiting"
                 THEN [settled EXCEPT ![j].op = "inspect"] ELSE settled
      rows == IF status = "waiting" THEN External(n, "creating") ELSE row
      marked == IF identity[i] \in Live THEN [identity EXCEPT ![i] = MarkOf[status]]
                ELSE identity
  IN IF Status(j) = "cancelled" /\ status = "unknown"
     THEN jobs' = Settle(jobs, j, "unknown", "late") /\ UNCHANGED <<row, identity, step>>
     ELSE IF ~MayMark(j, status) THEN UNCHANGED <<jobs, row, identity, step>>
     ELSE /\ jobs' = polling
          /\ row' = rows
          /\ identity' = FinishDisconnect(marked, polling, rows, i)
          /\ step' = IF step \in InProgress /\ home = "onboarding" THEN StepOf[status]
                     ELSE step

(* The same of a job that is not the email step's. *)
MarkProblem(j, status, why) ==
  jobs' = IF Status(j) \in {"running", "unknown"} THEN Settle(jobs, j, status, why)
          ELSE IF Status(j) = "cancelled" /\ status = "unknown"
          THEN Settle(jobs, j, "unknown", "late")
          ELSE jobs

(* The database loses sight of what a call may have made. *)
Overwritten(n) == /\ Quarantined(Step(n))
                  /\ jobs'[Step(n)].status = "unknown" /\ jobs'[Step(n)].why # "quarantine"
PutBack(n) == /\ Status(Step(n)) # "pending" /\ jobs'[Step(n)].status = "pending"
              /\ belongs[n] \in upstream
Observe ==
  astray' = astray \cup
                 {belongs[n] : n \in {m \in Attempt : Overwritten(m) \/ PutBack(m)}}

(* _schedule_cancelled_waiting_cleanup *)
TakesLateReference(j) ==
  \/ Status(j) = "running" /\ ByDeletion
  \/ Status(j) = "unknown" /\ (Quarantined(j) \/ ByDeletion)
ScheduleLate(j) ==
  LET n == j[2]
      open == IF Status(j) = "running" THEN [jobs EXCEPT ![j].status = "unknown"] ELSE jobs
  IN /\ jobs' = Create(open, WaitingCleanup(n), New("clean", belongs[n], n))
     /\ row' = External(n, "deleting")
     /\ UNCHANGED <<identity, step>>

(* Each provider's reference is on record or can be derived from what is: a *)
(* shutdown asks the provider for nothing.                                  *)
ShutdownProbe(j) == ScheduleLate(j)

-----------------------------------------------------------------------------
(* The worker takes a job. Its own lease has ended when it is back at work. *)
Leasable(j) ==
  \/ Status(j) \in {"pending", "running"}
  \/ plan.polled /\ Status(j) = "waiting" /\ jobs[j].op = "inspect" /\ jobs[j].tries < TryMax

Lease(j) ==
  /\ pc[Worker] = "idle"
  /\ Leasable(j)
  /\ jobs' = [jobs EXCEPT ![j].status = "running",
                          ![j].tries = IF @ = TryMax THEN @ ELSE @ + 1]
  /\ at' = [at EXCEPT ![Worker] = j]
  /\ pc' = [pc EXCEPT ![Worker] = IF j \in StepJob THEN "gate"
                                 ELSE IF j \in Maker THEN "make" ELSE "clean"]
  /\ got' = [got EXCEPT ![Worker] = IF Status(j) = "running" THEN "reclaimed" ELSE "none"]
  /\ UNCHANGED <<row, identity, bound, belongs, namespace, step, home, consent,
                 version, created, world, eraser, plan, astray>>

(* Consent first, then the kill switch, then the namespace; what is *)
(* quarantined passes the first two.                                *)
Refused(j) == plan.real /\ ~consent /\ ~Quarantined(j)
Braked(j) == plan.real /\ ~enabled /\ ~Quarantined(j)
(* The brake settles nothing that may have reached the provider. *)
BrakeOption(j, reached) ==
  MarkStepProblem(j, IF reached THEN "unknown" ELSE "failed", "braked")

Gate ==
  /\ pc[Worker] = "gate"
  /\ LET j == at[Worker]
         reached == got[Worker] = "reclaimed" \/ jobs[j].tries > 1
     IN \/ /\ Refused(j)
           /\ MarkStepProblem(j, "failed", "refused")
           /\ Rest(Worker)
        \/ /\ ~Refused(j) /\ Braked(j)
           /\ BrakeOption(j, reached)
           /\ Rest(Worker)
        \/ /\ ~Refused(j) /\ ~Braked(j) /\ ~NamespaceReady
           /\ Status(LatestMaker) = "failed"
           /\ MarkStepProblem(j, "failed", "unready")
           /\ Rest(Worker)
        \/ /\ ~Refused(j) /\ ~Braked(j) /\ ~NamespaceReady
           /\ Status(LatestMaker) # "failed"
           /\ jobs' = RetryLater(jobs, j, "unready")
           /\ Rest(Worker)
           /\ UNCHANGED <<row, identity, step>>
        \/ /\ ~Refused(j) /\ ~Braked(j) /\ NamespaceReady
           /\ Go(Worker, "call", IF jobs[j].op = "inspect" THEN "inspect" ELSE got[Worker])
           /\ UNCHANGED <<jobs, row, identity, step>>
  /\ Observe
  /\ UNCHANGED <<bound, belongs, namespace, home, consent, version, created, world,
                 eraser, plan>>

(* The operator takes a job of unknown outcome; no lease guards it. *)
Reconcile(o, j) ==
  /\ pc[o] = "idle"
  /\ Status(j) = "unknown"
  /\ IF j \notin StepJob
     THEN /\ at' = [at EXCEPT ![o] = j]
          /\ pc' = [pc EXCEPT ![o] = IF j \in Maker THEN "make" ELSE "clean"]
          /\ UNCHANGED <<got, jobs, row, identity, step>>
     ELSE \/ /\ Refused(j)
             /\ MarkStepProblem(j, "failed", "refused")
             /\ UNCHANGED local
          \/ /\ ~Refused(j) /\ (Quarantined(j) \/ ByDeletion)
             /\ ShutdownProbe(j)
             /\ UNCHANGED local
          \/ /\ ~Refused(j) /\ ~Quarantined(j) /\ ~ByDeletion
             /\ ~Braked(j) /\ NamespaceReady
             /\ at' = [at EXCEPT ![o] = j]
             /\ pc' = [pc EXCEPT ![o] = "call"]
             /\ UNCHANGED <<got, jobs, row, identity, step>>
  /\ Observe
  /\ UNCHANGED <<bound, belongs, namespace, home, consent, version, created, world,
                 eraser, plan>>

-----------------------------------------------------------------------------
(* The provider *)
Inspecting(a) == got[a] \in {"reclaimed", "inspect"}

KeyOf(i, holder) == key' = [key EXCEPT ![i] = holder]

MayTouch(i) ==
  \/ UNCHANGED <<upstream, key>>
  \/ upstream' = upstream \cup {i} /\ KeyOf(i, "lost")

Answered(a) ==
  LET i == Mailbox(a) IN
  \/ /\ Go(a, "answer", "ready")
     /\ upstream' = upstream \cup {i} /\ KeyOf(i, a)
     /\ UNCHANGED faults
  \/ /\ Go(a, "answer", "waiting")
     /\ upstream' = upstream \cup {i} /\ KeyOf(i, "lost")
     /\ UNCHANGED faults
  \/ \E refusal \in {"limited", "rejected"} :
       /\ Go(a, "answer", refusal)
       /\ plan.atomic => i \notin upstream
       /\ IF plan.atomic THEN UNCHANGED <<upstream, key>> ELSE MayTouch(i)
       /\ UNCHANGED faults
  \/ /\ Go(a, "answer", "lost")
     /\ MayTouch(i)
     /\ Fault

(* inspect finds what there is, and issues a new key for it. *)
Inspected(a) ==
  LET i == Mailbox(a)
      again == got[a] = "reclaimed"
  IN \/ /\ i \notin upstream
        /\ IF again THEN Go(a, "call", "none") ELSE Go(a, "answer", "absent")
        /\ UNCHANGED <<upstream, key, faults>>
     \/ /\ i \in upstream
        /\ \/ Go(a, "answer", "ready") /\ KeyOf(i, a) /\ UNCHANGED faults
           \/ /\ Go(a, "answer", IF again THEN "inconclusive" ELSE "pending")
              /\ UNCHANGED key \/ KeyOf(i, "lost")
              /\ UNCHANGED faults
           \/ Go(a, "answer", "lost") /\ KeyOf(i, "lost") /\ Fault
        /\ UNCHANGED upstream

(* A refusal is taken to mean that nothing was made. *)
LeftBehind(a) == got'[a] \in {"limited", "rejected"} /\ Mailbox(a) \in upstream'
(* What a tear-down took away is written off after it, though it is there again. *)
Undermined(a) == \E b \in Actor \ {a} : pc[b] = "sweep" /\ Mailbox(b) = Mailbox(a)

Call(a) ==
  /\ pc[a] = "call"
  /\ IF Inspecting(a) THEN Inspected(a) ELSE Answered(a)
  /\ astray' = IF ~OpenHouse \/ LeftBehind(a) \/ Undermined(a)
               THEN astray \cup {Mailbox(a)} ELSE astray
  /\ UNCHANGED <<db, app, enabled, eraser, plan>>

-----------------------------------------------------------------------------
(* The answer *)
Exists(a) == Status(at[a]) # "none"

WaitingAnswer(a) ==
  LET j == at[a] IN
  IF TakesLateReference(j) THEN ScheduleLate(j)
  ELSE MarkStepProblem(j, IF ByDeletion THEN "unknown" ELSE "waiting", "waiting")

Limited(a) ==
  LET j == at[a] IN
  IF IsWorker(a) /\ Status(j) # "cancelled" /\ jobs[j].tries = TryMax
  THEN MarkStepProblem(j, "failed", "limited")
  ELSE /\ jobs' = RetryLater(jobs, j, "limited")
       /\ UNCHANGED <<row, identity, step>>

(* The operator's process leaves a job without an answer as it was. *)
NoAnswer(a) ==
  IF IsWorker(a) THEN MarkStepProblem(at[a], "unknown", "lost")
  ELSE UNCHANGED <<jobs, row, identity, step>>

Answer(a) ==
  /\ pc[a] = "answer" /\ got[a] # "ready"
  /\ \/ got[a] = "waiting" /\ WaitingAnswer(a)
     \/ got[a] = "pending" /\ MarkStepProblem(at[a], "waiting", "waiting")
     \/ got[a] = "limited" /\ Limited(a)
     \/ got[a] \in {"rejected", "absent"} /\ MarkStepProblem(at[a], "failed", got[a])
     \/ got[a] = "inconclusive" /\ MarkStepProblem(at[a], "unknown", "inconclusive")
     \/ got[a] = "lost" /\ NoAnswer(a)
  /\ Rest(a)
  /\ Observe
  /\ UNCHANGED <<bound, belongs, namespace, home, consent, version, created, world,
                 eraser, plan>>

(* The barrier of the worker's own ensure; no other path has one here. *)
Barred(a) == IsWorker(a) /\ jobs[at[a]].op = "ensure" /\ Superseded(at[a])

Undo(a) ==
  /\ row' = External(Here(a), "deleting")
  /\ Go(a, "raze", "none")
  /\ UNCHANGED <<jobs, identity, bound, step, version>>

Ready(a) == pc[a] = "answer" /\ got[a] = "ready"

(* With its household the job is gone, and its request. *)
Drop(a) ==
  /\ Ready(a) \/ pc[a] \in {"finish", "close", "sweep", "made", "unmade", "kept"}
  /\ ~Exists(a)
  /\ Rest(a)
  /\ UNCHANGED <<db, world, eraser, plan, astray>>

Barrier(a) ==
  /\ Ready(a) /\ Exists(a) /\ Barred(a)
  /\ Undo(a)
  /\ UNCHANGED <<belongs, namespace, home, consent, created, world, eraser, plan, astray>>

(* Every mailbox has its secret under the same name. *)
Held == {i \in Attempt : key[i] = "namespace"}
Install(a) ==
  LET i == Mailbox(a)
  IN key' = [k \in Attempt |-> IF k = i /\ key[i] = a THEN "namespace"
                               ELSE IF k \in Held THEN "lost" ELSE key[k]]

StageSecret(a) ==
  /\ Ready(a) /\ Exists(a) /\ ~Barred(a)
  /\ \/ /\ app
        /\ Install(a)
        /\ Go(a, "finish", "none")
        /\ UNCHANGED <<jobs, row, identity, step, faults>>
     \/ /\ IF app THEN Fault ELSE UNCHANGED faults
        /\ MarkStepProblem(at[a], "unknown", "handoff")
        /\ Rest(a)
        /\ UNCHANGED key
  /\ Observe
  /\ UNCHANGED <<bound, belongs, namespace, home, consent, version, created, upstream,
                 app, enabled, eraser, plan>>

IsWanted(j) ==
  /\ Status(j) \in {"running", "unknown"}
  /\ ~Quarantined(j)
  /\ step \in InProgress
  /\ home = "onboarding"
Verifiable(i) == identity[i] \in {"provisioning", "waiting", "unknown"}

Verify(a) ==
  /\ identity' = [identity EXCEPT ![Mailbox(a)] = "verified"]
  /\ bound' = bound \cup {Mailbox(a)}
  /\ jobs' = Settle(jobs, at[a], "succeeded", "none")
  /\ row' = External(Here(a), "ready")
  /\ step' = "verified"
  /\ version' = version + 1
  /\ Rest(a)

(* An inspect job of the worker has no result to compensate. *)
FinishStep(a) ==
  /\ pc[a] = "finish" /\ Exists(a)
  /\ \/ /\ IsWanted(at[a]) /\ Verifiable(Mailbox(a))
        /\ Verify(a)
     \/ /\ IsWanted(at[a]) /\ ~Verifiable(Mailbox(a))
        /\ MarkStepProblem(at[a], "failed", "rejected")
        /\ Rest(a)
        /\ UNCHANGED <<bound, version>>
     \/ /\ ~IsWanted(at[a])
        /\ IF IsWorker(a) /\ jobs[at[a]].op = "inspect"
           THEN Rest(a) /\ UNCHANGED <<jobs, row, identity, bound, step, version>>
           ELSE Undo(a)
  /\ Observe
  /\ UNCHANGED <<belongs, namespace, home, consent, created, world, eraser, plan>>

-----------------------------------------------------------------------------
(* _cleanup_cancelled_result *)
SecretGone == key' = [k \in Attempt |-> IF k \in Held THEN "lost" ELSE key[k]]
AppGone == app' = FALSE /\ SecretGone

Raze(a) ==
  /\ pc[a] = "raze"
  /\ LET n == Here(a)
         i == Mailbox(a)
     IN \E secret, mailbox \in BOOLEAN :   \* what is taken away
          /\ secret => app /\ ~NamespaceGone
          /\ IF mailbox /\ (secret \/ ~app \/ NamespaceGone)
             THEN UNCHANGED faults ELSE Fault
          /\ jobs' = IF secret \/ ~Exists(a) THEN jobs
                     ELSE Create(jobs, SecretCleanup(n), New("clean", i, n))
          /\ upstream' = upstream \ {i} \/ (~mailbox /\ UNCHANGED upstream)
          /\ IF secret THEN SecretGone ELSE UNCHANGED key
          /\ Go(a, "close", IF secret THEN IF mailbox THEN "clean" ELSE "resource"
                            ELSE IF mailbox THEN "secret" ELSE "both")
  /\ UNCHANGED <<row, identity, bound, belongs, namespace, step, home, consent, version,
                 created, app, enabled, eraser, plan, astray>>

Close(a) ==
  /\ pc[a] = "close" /\ Exists(a)
  /\ LET n == Here(a)
         torn == got[a] \in {"clean", "secret"}
         rows == [row EXCEPT ![n] = IF torn THEN "deleted" ELSE "unknown"]
         settled == SettleParent(jobs, n)
     IN /\ row' = rows
        /\ jobs' = IF got[a] = "clean" THEN settled
                   ELSE IF torn THEN jobs
                   ELSE Create(jobs, LateCleanup(n), New("clean", Mailbox(a), n))
        /\ identity' = IF got[a] = "clean"
                       THEN FinishDisconnect(identity, settled, rows, Mailbox(a))
                       ELSE identity
  /\ Rest(a)
  /\ UNCHANGED <<bound, belongs, namespace, step, home, consent, version, created, world,
                 eraser, plan, astray>>

-----------------------------------------------------------------------------
(* Cleanup jobs *)
Deprovision(a) ==
  /\ pc[a] = "clean" /\ at[a] \in Teardown
  /\ \/ /\ upstream' = upstream \ {Mailbox(a)}
        /\ Go(a, "sweep", "none")
        /\ UNCHANGED <<jobs, faults>>
     \/ /\ Fault
        /\ MarkProblem(at[a], "unknown", "teardown")
        /\ Rest(a)
        /\ UNCHANGED upstream \/ upstream' = upstream \ {Mailbox(a)}
  /\ UNCHANGED <<row, identity, bound, belongs, namespace, step, home, consent, version,
                 created, key, app, enabled, eraser, plan, astray>>

(* The secret is deleted only for an identity that is disconnecting: the     *)
(* next mailbox of the household has its own under the same name.            *)
IsLeaving(i) == i # None /\ identity[i] = "disconnecting"
Stored(i) == i \in bound /\ ~NamespaceGone

Sweep(a) ==
  /\ pc[a] = "sweep" /\ Exists(a)
  /\ LET j == at[a]
         i == jobs[j].of
         known == IsLeaving(i)
         done == SettleParent(Settle(jobs, j, "succeeded", "none"), jobs[j].parent)
         rows == [row EXCEPT ![Here(a)] = "deleted"]
         stored == known /\ Stored(i)
     IN \/ /\ known
           /\ IF stored THEN app /\ SecretGone ELSE UNCHANGED key
           /\ jobs' = done
           /\ row' = rows
           /\ identity' = FinishDisconnect(identity, done, rows, i)
           /\ UNCHANGED faults
        \/ /\ ~known \/ stored
           /\ IF stored /\ app THEN Fault ELSE UNCHANGED faults
           /\ MarkProblem(j, "unknown", "handoff")
           /\ UNCHANGED <<row, identity, key>>
  /\ Rest(a)
  /\ UNCHANGED <<bound, belongs, namespace, step, home, consent, version, created,
                 upstream, app, enabled, eraser, plan, astray>>

CleanSecret(a) ==
  /\ pc[a] = "clean" /\ at[a] \in SecretJob
  /\ LET j == at[a]
         done == Settle(jobs, j, "succeeded", "none")
         settled == IF row[Here(a)] = "deleted" THEN SettleParent(done, Here(a)) ELSE done
     IN \/ /\ IF NamespaceGone THEN UNCHANGED key ELSE app /\ SecretGone
           /\ jobs' = IF Exists(a) THEN settled ELSE jobs
           /\ identity' = IF row[Here(a)] = "deleted" /\ Exists(a)
                          THEN FinishDisconnect(identity, settled, row, jobs[j].of)
                          ELSE identity
           /\ UNCHANGED faults
        \/ /\ ~NamespaceGone /\ Exists(a)
           /\ IF app THEN Fault ELSE UNCHANGED faults
           /\ jobs' = Settle(jobs, j, "unknown", "teardown")
           /\ UNCHANGED <<identity, key>>
  /\ Rest(a)
  /\ UNCHANGED <<row, bound, belongs, namespace, step, home, consent, version, created,
                 upstream, app, enabled, eraser, plan, astray>>

(* The namespace waits for the mailbox: its credential is in there. *)
DeferCleanup(j) == EmailCleanupPending /\ jobs' = RetryLater(jobs, j, "unready")

CleanNamespace(a) ==
  /\ pc[a] = "clean" /\ at[a] \in NamespaceCleanup
  /\ \/ /\ DeferCleanup(at[a])
        /\ UNCHANGED <<namespace, app, key, faults>>
     \/ /\ ~EmailCleanupPending
        /\ AppGone
        /\ namespace' = IF Exists(a) THEN "deleted" ELSE namespace
        /\ jobs' = IF Exists(a) THEN Settle(jobs, at[a], "succeeded", "none") ELSE jobs
        /\ UNCHANGED faults
     \/ /\ ~EmailCleanupPending /\ Fault
        /\ MarkProblem(at[a], "unknown", "teardown")
        /\ AppGone \/ UNCHANGED <<app, key>>
        /\ UNCHANGED namespace
  /\ Rest(a)
  /\ UNCHANGED <<row, identity, bound, belongs, step, home, consent, version, created,
                 upstream, enabled, eraser, plan, astray>>

-----------------------------------------------------------------------------
(* No lease keeps the operator from a job the worker is at; a refusal is taken *)
(* to mean that nothing was made; an erasure counts only what is under way, not *)
(* what was put back.                                                           *)
ObserveApp(a) ==
  LET status == jobs'[at[a]].status IN
  astray' = IF \/ \E b \in Actor \ {a} : at[b] = at[a]
               \/ app' /\ status \notin {"running", "unknown", "succeeded"}
               \/ ByDeletion /\ status = "pending"
            THEN astray \cup {None} ELSE astray

(* The namespace is an app the host knows by the household: a second call *)
(* finds the first one's. No consent is asked for, and no kill switch.    *)
HostRefusal == {"limited", "rejected"}
EnsureApp(a) ==
  \/ Go(a, "made", "ready") /\ app' = TRUE /\ UNCHANGED faults
  \/ (\E refusal \in HostRefusal : Go(a, "made", refusal)) /\ UNCHANGED <<app, faults>>
  \/ Go(a, "made", "lost") /\ app' \in {app, TRUE} /\ Fault

MakeNamespace(a) ==
  /\ pc[a] = "make"
  /\ EnsureApp(a)
  /\ UNCHANGED <<db, upstream, key, enabled, eraser, plan>>
  /\ ObserveApp(a)

NamespaceRefused(a) ==
  LET j == at[a] IN
  \/ got[a] = "rejected" /\ MarkProblem(j, "failed", "rejected")
  \/ got[a] = "lost" /\ MarkProblem(j, "unknown", "lost")
  \/ got[a] = "limited" /\ ~IsWorker(a) /\ UNCHANGED jobs
  \/ /\ got[a] = "limited" /\ IsWorker(a)
     /\ IF jobs[j].tries = TryMax THEN MarkProblem(j, "failed", "limited")
        ELSE jobs' = RetryLater(jobs, j, "limited")

(* _finish_secret_namespace *)
Unwanted(j) == Superseded(j) \/ home # "onboarding"
FinishNamespace(a) ==
  /\ pc[a] = "made" /\ Exists(a)
  /\ LET j == at[a]
         open == Status(j) \in {"running", "unknown"}
     IN \/ /\ got[a] # "ready"
           /\ NamespaceRefused(a)
           /\ Rest(a)
           /\ UNCHANGED namespace
        \/ /\ got[a] = "ready" /\ Status(j) # "succeeded" /\ Unwanted(j)
           /\ namespace' = "deleting"
           /\ Go(a, "unmake", IF open THEN "open" ELSE "shut")
           /\ UNCHANGED jobs
        \/ /\ got[a] = "ready" /\ (Status(j) = "succeeded" \/ ~Unwanted(j))
           /\ jobs' = IF open THEN Settle(jobs, j, "succeeded", "none") ELSE jobs
           /\ namespace' = IF open THEN "ready" ELSE namespace
           /\ Rest(a)
  /\ UNCHANGED <<row, identity, bound, belongs, step, home, consent, version, created,
                 world, eraser, plan>>
  /\ ObserveApp(a)

(* _cleanup_cancelled_namespace waits for no mailbox, and closes the job by *)
(* the status it read before the call.                                      *)
Unmake(a) ==
  /\ pc[a] = "unmake"
  /\ \/ AppGone /\ Go(a, "unmade", got[a]) /\ UNCHANGED faults
     \/ (AppGone \/ UNCHANGED <<app, key>>) /\ Go(a, "kept", got[a]) /\ Fault
  /\ UNCHANGED <<db, upstream, enabled, eraser, plan, astray>>

CloseNamespace(a) ==
  /\ pc[a] \in {"unmade", "kept"} /\ Exists(a)
  /\ LET j == at[a]
         status == IF pc[a] = "unmade" THEN "cancelled" ELSE "unknown"
         closed == IF got[a] = "open" THEN Settle(jobs, j, status, "compensated") ELSE jobs
     IN IF pc[a] = "unmade"
        THEN namespace' = "deleted" /\ jobs' = closed
        ELSE /\ namespace' = "unknown"
             /\ jobs' = Create(closed, LateNamespace(j), New("clean", None, None))
  /\ Rest(a)
  /\ UNCHANGED <<row, identity, bound, belongs, step, home, consent, version, created,
                 world, eraser, plan>>
  /\ ObserveApp(a)

(* A process dies; what it wrote and what it asked for stays. *)
Crash(a) ==
  /\ pc[a] # "idle"
  /\ Fault
  /\ Rest(a)
  /\ UNCHANGED <<db, upstream, key, app, enabled, eraser, plan, astray>>

-----------------------------------------------------------------------------
(* DeletionService.resume; None is the row of the namespace *)
Recorded(but) == {n \in Attempt : row[n] \notin but}
                   \cup (IF namespace \in but THEN {} ELSE {None})

EraseRead ==
  /\ ByDeletion /\ eraser.doing = "idle"
  /\ eraser' = [doing |-> "call",
                rows |-> Recorded({"none"}),
                absent |-> {n \in Recorded({"none"}) : n \notin Recorded({"none", "deleted"})},
                open |-> \E j \in JobId : Status(j) \in {"running", "unknown"}]
  /\ UNCHANGED <<db, world, local, plan, astray>>

EraseCall ==
  /\ eraser.doing = "call"
  /\ \E torn \in SUBSET (eraser.rows \ eraser.absent) :
       /\ eraser' = [eraser EXCEPT !.doing = "end", !.absent = @ \cup torn]
       /\ upstream' = upstream \ {belongs[n] : n \in torn \ {None}}
       /\ IF None \in torn THEN AppGone ELSE UNCHANGED <<app, key>>
       /\ IF eraser'.absent = eraser.rows THEN UNCHANGED faults ELSE Fault
  /\ UNCHANGED <<db, enabled, local, plan, astray>>

\* Slip: the jobs whose outcome is open are not counted.
EraseTorn == eraser.absent = eraser.rows
EraseComplete == eraser.absent = eraser.rows /\ ~eraser.open

(* An erasure writes back what it read, over what was marked meanwhile. *)
WrittenOff == {belongs[n] : n \in {m \in eraser.absent \ {None} :
                                     row[m] # "deleted" /\ belongs[m] \in upstream}}

EraseEnd ==
  /\ eraser.doing = "end"
  /\ eraser' = Idle
  /\ IF EraseComplete
     THEN /\ home' = "gone"
          /\ jobs' = [j \in JobId |-> NoJob]
          /\ row' = [n \in Attempt |-> "none"]
          /\ identity' = [i \in Attempt |-> "none"]
          /\ bound' = {}
          /\ namespace' = "deleted"
          /\ UNCHANGED astray
     ELSE /\ row' = [n \in Attempt |-> IF n \notin eraser.rows THEN row[n]
                                       ELSE IF n \in eraser.absent THEN "deleted"
                                       ELSE "unknown"]
          /\ namespace' = IF None \notin eraser.rows THEN namespace
                          ELSE IF None \in eraser.absent THEN "deleted" ELSE "unknown"
          /\ astray' = astray \cup WrittenOff
          /\ UNCHANGED <<home, jobs, identity, bound>>
  /\ UNCHANGED <<belongs, step, consent, version, created, world, local, plan>>

EraserCrash ==
  /\ eraser.doing # "idle"
  /\ Fault
  /\ eraser' = Idle
  /\ UNCHANGED <<db, upstream, key, app, enabled, local, plan, astray>>

-----------------------------------------------------------------------------
Order == Select \/ Retry \/ Check \/ Reset \/ Cancel \/ Withdraw \/ Delete \/ Brake

Work(a) ==
  \/ Call(a) \/ Answer(a) \/ Barrier(a) \/ StageSecret(a) \/ FinishStep(a)
  \/ Raze(a) \/ Close(a) \/ Deprovision(a) \/ Sweep(a) \/ CleanSecret(a)
  \/ CleanNamespace(a) \/ Drop(a)
  \/ MakeNamespace(a) \/ FinishNamespace(a) \/ Unmake(a) \/ CloseNamespace(a)

Erase == EraseRead \/ EraseCall \/ EraseEnd

Next ==
  \/ Order
  \/ (\E j \in JobId : Lease(j)) \/ Gate
  \/ \E o \in Operators, j \in JobId : Reconcile(o, j)
  \/ \E a \in Actor : Work(a) \/ Crash(a)
  \/ Erase \/ EraserCrash

Spec == Init /\ [][Next]_vars

(* A tear-down that comes after the disconnection fails every time. *)
Hopeless(j) == j \in Teardown /\ jobs[j].of # None /\ identity[jobs[j].of] = "deleted"

(* The worker polls and finishes what it began; a job put back waits for the *)
(* others; the operator goes through what is of unknown outcome.             *)
Fairness ==
  /\ WF_vars(\E j \in JobId : Lease(j))
  /\ SF_vars(\E j \in JobId \ NamespaceCleanup : Lease(j))
  /\ WF_vars(Gate)
  /\ \A a \in Actor : WF_vars(Work(a))
  /\ \A o \in Operators :
       SF_vars(\E j \in JobId \ Maker : ~Hopeless(j) /\ Reconcile(o, j))
  /\ WF_vars(Erase)

FairSpec == Spec /\ Fairness

-----------------------------------------------------------------------------
(* finish_disconnect calls an identity deleted, and resume reports an erasure *)
(* as complete, only when nothing of it is left at the provider or the host,  *)
(* however late the answer to a call comes and whatever the worker did        *)
(* meanwhile; but for what the code does not guard.                           *)
NothingIsLeft ==
  /\ \A i \in upstream : identity[i] = "deleted" => i \in astray
  /\ home = "gone" => upstream \subseteq astray /\ (app => None \in astray)
(* An erasure without the exceptions, as the documents promise it. *)
ErasedIsEmptyAlways == home = "gone" => upstream = {}

(* A mailbox that mark_verified showed the family exists, and the key its    *)
(* runtime reads is the one the provider accepts: no late tear-down of an    *)
(* earlier mailbox, no second call for this one has taken either away.       *)
VerifiedIsServed ==
  \A i \in Attempt : identity[i] = "verified" /\ astray \subseteq {i, None} =>
    i \in upstream /\ key[i] = "namespace" /\ step = "verified" /\ consent

(* A crash, a lost answer or a supersession loses no mailbox and no app: what *)
(* is at the provider or the host can be found by what the database still     *)
(* means to do, a resource that is not deleted or a job whose outcome is open. *)
Reaches(n) ==
  \/ row[n] \in {"creating", "ready", "deleting", "unknown"}
  \/ Status(Step(n)) \in {"running", "waiting", "unknown"}
NeverLost ==
  home # "gone" =>
    /\ \A i \in upstream \ astray : \E n \in Attempt : belongs[n] = i /\ Reaches(n)
    /\ app /\ None \notin astray =>
         \/ namespace \in {"ready", "deleting", "unknown"}
         \/ \E j \in Maker : Status(j) \in {"running", "unknown"}

(* What a reset, a cancellation or a withdrawal disconnects is disconnected  *)
(* in the end, and the namespace of a cancelled household goes after it, the *)
(* one too that was being made when it was cancelled: no parent job stays    *)
(* open, no tear-down waits for one that waits for it.                       *)
Disconnecting ==
  \/ \E i \in Attempt : identity[i] = "disconnecting"
  \/ home = "draft" /\ namespace \in {"ready", "unknown"}
  \/ home = "draft" /\ namespace = "deleting" /\ Status(Namespace) # "none"
Disconnects == Disconnecting ~> ~Disconnecting \/ astray # {} \/ ~OpenHouse
=============================================================================
