------------------------------ MODULE Rollout ------------------------------
(***************************************************************************)
(* How a planned revision becomes the one a household is served by:        *)
(* provisioning/planner.py and rollout.py plan it, the durable job takes   *)
(* it through provisioning/worker.py to the hosting provider (fly.py,      *)
(* secrets.py), the machine claims and activates it                        *)
(* (hermes_cloud/runtime/bootstrap.py and service.py against               *)
(* provisioning/bootstrap.py), and the operator reconciles what has an     *)
(* unknown outcome. Withdrawal, reset and cancellation undo it.            *)
(*                                                                         *)
(* One household and its one app. The mailbox is in Provisioning, and so   *)
(* is the erasure; the owner's own binding is in every manifest.           *)
(***************************************************************************)
EXTENDS Integers, Sequences, FiniteSets

CONSTANTS
  RevMax,      \* bound: revisions planned
  TokenMax,    \* bound: bootstrap tokens issued for one revision
  IdMax,       \* bound: machines and volumes the provider ever creates
  Member,      \* people the owner may bind
  FaultMax,    \* bound: lost answers, refusals, kills, together
  Worker,      \* the embedded worker
  Operator,    \* a process of the command reconcile
  Plans        \* the households looked at: see PlanAssumption

Rev == 1..RevMax
None == 0
Staged == 0      \* published_revision IS NULL
Unbound == -1    \* no row
Actor == {Worker, Operator}
Command == {"add", "drift", "sweep", "withdraw", "reset", "cancel"}

ASSUME BoundsAssumption ==
  /\ RevMax \in Nat \ {0} /\ TokenMax \in Nat \ {0} /\ IdMax \in Nat \ {0}
  /\ FaultMax \in Nat
ASSUME ActorAssumption == Worker # Operator
(* A household: what its people do, how many revisions and mishaps, and the *)
(* provider: refusing what it was asked (strict), showing a machine that    *)
(* has not started yet (slow).                                              *)
ASSUME PlanAssumption ==
  Plans \subseteq [commands : SUBSET Command, revs : Rev, faults : 0..FaultMax,
                   strict : BOOLEAN, slow : BOOLEAN]

(* Rows of provisioning_jobs, named by what makes their intent_key: the     *)
(* rollout of a revision, the tear-down of what it made (registered by the  *)
(* family's command, or late), the removal of its bootstrap secret (after   *)
(* the receipt, or late), and the stop of the runtime at the end of a cycle *)
(* of consent.                                                              *)
Kind == {"run", "raze", "late", "secret", "latesecret", "stop"}
JobId == Kind \X Rev
Run(r) == <<"run", r>>
RunJob == {Run(r) : r \in Rev}
Ref == [volume : 0..IdMax, machine : 0..IdMax]
Nothing == [volume |-> None, machine |-> None]

VARIABLES
  (* the database *)
  home,        \* households.status; draft is cancelled
  workflow,    \* onboarding_workflows.state
  current,     \* current_config_revision
  bound,       \* households.runtime_ref is set
  rev,         \* config_revisions
  names,       \* the members a revision's manifest authorises
  cycle,       \* the cycle of consent whose receipts it embeds
  consent,     \* the cycle whose receipts are current, or None
  cycles,      \* cycles of consent so far
  jobs,        \* provisioning_jobs
  order,       \* and the order they were created in
  row,         \* external_resources of type runtime, by revision
  token,       \* bootstrap_tokens: the last one issued for a revision
  binding,     \* channel_bindings.published_revision of a member
  (* the provider *)
  app, secret, volume, machine, ids, faults,
  (* the processes *)
  pc, at, got, res,   \* of an actor: place, job, answer, reference it holds
  rt,          \* the runtime's bootstrap thread
  plan,        \* the household, which no action changes
  (* observations, which no action reads *)
  activated    \* how many times a revision went live

house == <<home, workflow, current, bound>>
spec == <<rev, names, cycle, token>>
people == <<consent, cycles, binding>>
queue == <<jobs, order>>
db == <<house, spec, people, queue, row>>
cloud == <<app, secret, volume, machine, ids>>
local == <<pc, at, got, res>>
vars == <<db, cloud, faults, local, rt, plan, activated>>

NoToken == [n |-> None, state |-> "none", expired |-> FALSE]
NoJob == [status |-> "none", why |-> "none", op |-> "none", ref |-> Nothing]
NoVolume == [id |-> None, manifest |-> None, state |-> "none", of |-> None, marked |-> FALSE]
NoMachine == [id |-> None, rev |-> None, token |-> None]
NoSecret == <<None, None>>

TypeOK ==
  /\ home \in {"onboarding", "provisioning", "active", "draft"}
  /\ workflow \in {"in_progress", "runtime_provisioning", "activating", "complete", "cancelled"}
  /\ current \in 0..RevMax /\ {bound, app} \subseteq BOOLEAN
  /\ rev \in [Rev -> {"none", "planned", "issued", "claimed", "active", "superseded", "revoked"}]
  /\ names \in [Rev -> SUBSET Member] /\ binding \in [Member -> Unbound..RevMax]
  /\ cycle \in [Rev -> 0..RevMax] /\ consent \in 0..RevMax /\ cycles \in 0..RevMax
  /\ jobs \in [JobId -> [status : {"none", "pending", "running", "unknown",
                                   "succeeded", "failed", "cancelled"},
                         why : {"none", "awaiting", "quarantine", "problem"},
                         op : {"none", "ensure", "reprovision"}, ref : Ref]]
  /\ order \in Seq(JobId)
  /\ row \in [Rev -> [status : {"none", "creating", "ready", "deleting", "unknown", "deleted"},
                      ref : Ref]]
  /\ token \in [Rev -> [n : 0..TokenMax, expired : BOOLEAN,
                        state : {"none", "live", "claimed", "used", "revoked"}]]
  /\ secret \in (0..RevMax) \X (0..TokenMax)
  /\ volume \in [id : 0..IdMax, manifest : 0..RevMax, of : 0..RevMax, marked : BOOLEAN,
                 state : {"none", "activating", "active"}]
  /\ machine \in [id : 0..IdMax, rev : 0..RevMax, token : 0..TokenMax]
  /\ ids \in 0..IdMax /\ faults \in 0..FaultMax /\ plan \in Plans
  /\ pc \in [Actor -> {"idle", "gate", "inspect", "judge", "prepare", "issue", "install",
                       "recheck", "launch", "ready", "forget", "raze", "settle", "call"}]
  /\ at \in [Actor -> JobId] /\ res \in [Actor -> Ref]
  /\ got \in [Actor -> {"none", "reclaimed", "awaiting", "ready", "pending", "absent",
                        "failed", "lost", "kept"}]
  /\ rt \in {"off", "boot", "claimed", "installed", "activating", "activated", "active", "done"}
  /\ activated \in [Rev -> 0..TokenMax]

(* The channel has just been proved: revision 1 is planned and its job made. *)
Init ==
  /\ home = "provisioning" /\ workflow = "runtime_provisioning"
  /\ current = 1 /\ bound = FALSE
  /\ rev = [r \in Rev |-> IF r = 1 THEN "planned" ELSE "none"]
  /\ names = [r \in Rev |-> {}]
  /\ cycle = [r \in Rev |-> IF r = 1 THEN 1 ELSE 0]
  /\ consent = 1 /\ cycles = 1
  /\ jobs = [j \in JobId |-> IF j = Run(1)
                             THEN [NoJob EXCEPT !.status = "pending", !.op = "ensure"] ELSE NoJob]
  /\ order = <<Run(1)>>
  /\ row = [r \in Rev |-> [status |-> "none", ref |-> Nothing]]
  /\ token = [r \in Rev |-> NoToken]
  /\ binding = [m \in Member |-> Unbound]
  /\ app = TRUE /\ secret = NoSecret /\ volume = NoVolume /\ machine = NoMachine
  /\ ids = 0 /\ faults = 0
  /\ pc = [a \in Actor |-> "idle"] /\ at = [a \in Actor |-> Run(1)]
  /\ got = [a \in Actor |-> "none"] /\ res = [a \in Actor |-> Nothing]
  /\ rt = "off" /\ activated = [r \in Rev |-> 0]
  /\ plan \in Plans

-----------------------------------------------------------------------------
(* What the database says *)
Status(j) == jobs[j].status
Quarantined(j) == jobs[j].why = "quarantine"
Superseded(j) == Status(j) = "cancelled" \/ Quarantined(j)

(* _open_runtime_job: of kind runtime, the stop of a runtime included *)
InFlight(j) == Status(j) \in {"pending", "running", "unknown"}
Open == {j \in JobId : j[1] \in {"run", "stop"} /\ InFlight(j)}

(* _workflow_states_for *)
Expected(r, states) == IF jobs[Run(r)].op = "reprovision" THEN {"complete"} ELSE states

(* _runtime_projection_is_current; the issue of a token and the check before *)
(* the launch ask the same, of their own states of the workflow.             *)
CurrentIn(r, states) ==
  /\ Status(Run(r)) \in {"running", "unknown"}
  /\ workflow \in Expected(r, states)
  /\ home = "provisioning" /\ current = r
Current(r) == CurrentIn(r, {"runtime_provisioning", "activating"})

(* _revision_is_serving *)
Serving(r) == rev[r] = "active"

Settle(js, j, status, why) == [js EXCEPT ![j].status = status, ![j].why = why]
Create(js, j, job) == IF js[j].status = "none" THEN [js EXCEPT ![j] = job] ELSE js
Enqueue(j) == IF Status(j) = "none" THEN Append(order, j) ELSE order
New(op, ref) == [status |-> "pending", why |-> "none", op |-> op, ref |-> ref]

RetryLater(js, j, why) ==
  IF js[j].status = "running" \/ (js[j].status = "unknown" /\ js[j].why # "quarantine")
  THEN Settle(js, j, "pending", why) ELSE js

(* retire_staged_members: of the household, whatever revision they wait for *)
Retired == [m \in Member |-> IF binding[m] = Staged THEN Unbound ELSE binding[m]]

(* _restore_settled_household: only while the provider was not touched *)
\* Slip: the rollout failed, so the old runtime is what there is.
TouchedNot(r) == FALSE
Touched(r) == row[r].status # "none"
Restore(r) ==
  LET settled == {s \in Rev : rev[s] = "active"}
  IN IF Touched(r) \/ settled = {} \/ home # "provisioning"
     THEN UNCHANGED <<home, current>>
     ELSE /\ home' = "active"
          /\ current' = CHOOSE s \in settled : \A t \in settled : t <= s

(* _mark_step_problem of a rollout *)
MarkFailed(r) ==
  IF Status(Run(r)) \in {"running", "unknown"}
  THEN /\ jobs' = Settle(jobs, Run(r), "failed", "problem")
       /\ binding' = Retired
       /\ IF jobs[Run(r)].op = "reprovision" THEN Restore(r) ELSE UNCHANGED <<home, current>>
  ELSE UNCHANGED <<jobs, binding, home, current>>
MarkUnknown(j) ==
  jobs' = IF Status(j) \in {"running", "unknown", "cancelled"}
          THEN Settle(jobs, j, "unknown", "problem") ELSE jobs

-----------------------------------------------------------------------------
(* Planning a revision *)
Planned == {r \in Rev : rev[r] # "none"}
NextRev == Cardinality(Planned) + 1
MayPlan == NextRev <= plan.revs
Bound == {m \in Member : binding[m] # Unbound}

\* Slip: the projection is read before the new binding is inserted.
IssueBefore(bindings, c) ==
  /\ rev' = [rev EXCEPT ![NextRev] = "planned"]
  /\ names' = [names EXCEPT ![NextRev] = Bound]
  /\ cycle' = [cycle EXCEPT ![NextRev] = c]
  /\ UNCHANGED token
(* DesiredSpecPlanner.issue: the manifest authorises who is bound now. *)
Issue(bindings, c) ==
  /\ rev' = [rev EXCEPT ![NextRev] = "planned"]
  /\ names' = [names EXCEPT ![NextRev] = bindings]
  /\ cycle' = [cycle EXCEPT ![NextRev] = c]
  /\ UNCHANGED token

(* The household moves with the job, before any provider work. *)
Schedule(op) ==
  /\ jobs' = Create(jobs, Run(NextRev), New(op, Nothing))
  /\ order' = Enqueue(Run(NextRev))
  /\ home' = "provisioning" /\ current' = NextRev
  /\ UNCHANGED bound

(* schedule_runtime_rollout refuses while another is in flight. *)
MayRollOut == home \in {"active", "provisioning"} /\ workflow = "complete" /\ Open = {}

AddMember(m) ==
  /\ "add" \in plan.commands /\ MayPlan
  /\ binding[m] = Unbound
  /\ consent # None /\ MayRollOut
  /\ binding' = [binding EXCEPT ![m] = Staged]
  /\ Issue(Bound \cup {m}, consent)
  /\ Schedule("reprovision")
  /\ UNCHANGED <<workflow, consent, cycles, row, cloud, faults, local, rt, plan, activated>>

(* A migration, run at start, retires a binding and plans nothing. *)
Drift(m) ==
  /\ "drift" \in plan.commands
  /\ \A a \in Actor : pc[a] = "idle"
  /\ binding[m] # Unbound
  /\ binding' = [binding EXCEPT ![m] = Unbound]
  /\ UNCHANGED <<house, spec, consent, cycles, queue, row, cloud, faults, local, rt,
                 plan, activated>>

(* find_stale_bindings: against the revision that is active, not the current *)
Stranded == home = "provisioning" /\ Open = {}
Stale == \E r \in Rev : Serving(r) /\ (Bound # names[r] \/ Stranded)

(* reconcile_stale_bindings, applied: a roll forward *)
Sweep ==
  /\ "sweep" \in plan.commands /\ MayPlan
  /\ Stale /\ MayRollOut /\ consent # None
  /\ Issue(Bound, consent)
  /\ Schedule("reprovision")
  /\ UNCHANGED <<workflow, people, row, cloud, faults, local, rt, plan, activated>>

(* _finish_step of the last step, with the consent of a new cycle if the *)
(* last was withdrawn                                                    *)
Onboard ==
  /\ home = "onboarding" /\ workflow = "in_progress" /\ MayPlan
  /\ LET c == IF consent = None THEN cycles + 1 ELSE consent
     IN /\ c \in Rev
        /\ consent' = c /\ cycles' = IF consent = None THEN c ELSE cycles
        /\ Issue(Bound, c)
  /\ workflow' = "runtime_provisioning"
  /\ Schedule("ensure")
  /\ UNCHANGED <<binding, row, cloud, faults, local, rt, plan, activated>>

-----------------------------------------------------------------------------
(* Undoing one *)
Revoked(statuses) ==
  rev' = [r \in Rev |-> IF rev[r] \in statuses THEN "revoked" ELSE rev[r]]
Unspent == {"live", "claimed"}
RevokeTokens ==
  token' = [r \in Rev |-> IF token[r].state \in Unspent
                          THEN [token[r] EXCEPT !.state = "revoked"] ELSE token[r]]

Registrable == {r \in Rev : row[r].status \in {"creating", "ready", "unknown"}}
(* _supersede_unsettled_jobs: a stop is not part of what is superseded. *)
Supersede(js) ==
  [j \in JobId |->
     IF j \notin RunJob THEN js[j]
     ELSE IF js[j].status = "pending" THEN [js[j] EXCEPT !.status = "cancelled", !.why = "problem"]
     ELSE IF js[j].status \in {"running", "unknown"}
     THEN [js[j] EXCEPT !.status = "unknown", !.why = "quarantine"]
     ELSE js[j]]

Razing(S) ==
  order \o [i \in 1..Cardinality(S) |->
             <<"raze", CHOOSE r \in S : Cardinality({s \in S : s > r}) = i - 1>>]

(* _schedule_registered_cleanup, newest first. The bound: no second tear-  *)
(* down of one revision.                                                   *)
Unregistered == \A r \in Registrable : Status(<<"raze", r>>) = "none"
Undo(reset) ==
  /\ Unregistered
  /\ jobs' = Supersede([j \in JobId |->
               IF j[1] = "raze" /\ j[2] \in Registrable
               THEN New("none", row[j[2]].ref) ELSE jobs[j]])
  /\ order' = Razing(Registrable)
  /\ row' = [r \in Rev |-> IF r \in Registrable THEN [row[r] EXCEPT !.status = "deleting"]
                           ELSE row[r]]
  /\ Revoked({"planned", "issued", "claimed"} \cup (IF reset THEN {"active"} ELSE {}))
  /\ RevokeTokens
  /\ bound' = FALSE /\ current' = 0
  /\ UNCHANGED <<names, cycle, people, cloud, faults, local, rt, plan, activated>>

(* Steps that were reset are not reset again before they are done again. *)
Reset ==
  /\ "reset" \in plan.commands
  /\ current # 0 /\ home # "draft"
  /\ Undo(TRUE)
  /\ home' = "onboarding" /\ workflow' = "in_progress"

Cancel ==
  /\ "cancel" \in plan.commands
  /\ workflow \notin {"complete", "cancelled"}
  /\ Undo(FALSE)
  /\ home' = "draft" /\ workflow' = "cancelled"

(* _enqueue_runtime_stop: one stop for a cycle of consent, if there is a    *)
(* runtime to tell.                                                         *)
EnqueueStop(c) ==
  IF bound THEN /\ jobs' = Create(jobs, <<"stop", c>>, New("none", Nothing))
                /\ order' = Enqueue(<<"stop", c>>)
           ELSE UNCHANGED queue

(* ConsentWithdrawalService.withdraw, of the consent that stops a runtime *)
Withdraw ==
  /\ "withdraw" \in plan.commands /\ consent # None
  /\ consent' = None
  /\ Revoked({"planned", "issued", "claimed", "active"})
  /\ EnqueueStop(consent)
  /\ UNCHANGED <<house, names, cycle, token, cycles, binding, row, cloud, faults,
                 local, rt, plan, activated>>

-----------------------------------------------------------------------------
(* The worker, and the operator who reconciles *)
Idle(a) == /\ pc' = [pc EXCEPT ![a] = "idle"]
           /\ at' = [at EXCEPT ![a] = Run(1)]
           /\ got' = [got EXCEPT ![a] = "none"]
           /\ res' = [res EXCEPT ![a] = Nothing]
Go(a, place, answer, ref) ==
  /\ pc' = [pc EXCEPT ![a] = place]
  /\ got' = [got EXCEPT ![a] = answer]
  /\ res' = [res EXCEPT ![a] = ref]
  /\ UNCHANGED at
Mishap == faults < plan.faults /\ faults' = faults + 1
(* A call is answered, or it is not and may have been carried out or not. *)
Answered == UNCHANGED faults
For(a) == at[a][2]
Job(a) == at[a]

(* lease: the oldest that is due. The wait for activation ends with the     *)
(* token; a lease may have ended whenever its worker is back at work.        *)
\* Slip: the wait for the activation has no end.
DueUntold(j) == Status(j) = "pending" /\ jobs[j].why # "awaiting"
Due(j) == Status(j) = "pending" /\ (jobs[j].why = "awaiting" => token[j[2]].expired)
Take(j) ==
  /\ jobs' = [jobs EXCEPT ![j].status = "running"]
  /\ at' = [at EXCEPT ![Worker] = j]
  /\ pc' = [pc EXCEPT ![Worker] = IF j \in RunJob THEN "gate" ELSE "call"]
  /\ got' = [got EXCEPT ![Worker] = IF jobs[j].why = "awaiting" THEN "awaiting"
                                    ELSE IF Status(j) = "running" THEN "reclaimed" ELSE "none"]
  /\ UNCHANGED <<house, spec, people, order, row, cloud, faults, res, rt, plan, activated>>
Lease ==
  /\ pc[Worker] = "idle"
  /\ \E i \in DOMAIN order :
       /\ Due(order[i]) /\ \A k \in 1..(i - 1) : ~Due(order[k])
       /\ Take(order[i])
Reclaim(j) ==
  /\ pc[Worker] = "idle"
  /\ Status(j) = "running"
  /\ Take(j)

Reconcile(j) ==
  /\ pc[Operator] = "idle"
  /\ Status(j) = "unknown"
  /\ at' = [at EXCEPT ![Operator] = j]
  /\ pc' = [pc EXCEPT ![Operator] = IF j \in RunJob THEN "gate" ELSE "call"]
  /\ UNCHANGED <<db, cloud, faults, got, res, rt, plan, activated>>

(* _block_for_missing_content_restriction *)
Block(r) ==
  IF Status(Run(r)) \notin {"running", "unknown"}
  THEN UNCHANGED <<jobs, binding, rev, token, home, workflow>>
  ELSE /\ jobs' = Settle(jobs, Run(r), "failed", "problem")
       /\ binding' = Retired
       /\ IF workflow \in {"runtime_provisioning", "activating"}
          THEN /\ Revoked({"planned", "issued", "claimed"}) /\ RevokeTokens
               /\ home' = "onboarding" /\ workflow' = "in_progress"
          ELSE UNCHANGED <<rev, token, home, workflow>>

(* _settle_activation_deadline *)
Deadline(r) ==
  IF Status(Run(r)) = "succeeded" THEN UNCHANGED <<jobs, binding, home, current>>
  ELSE IF Serving(r) THEN /\ jobs' = Settle(jobs, Run(r), "succeeded", "none")
                          /\ UNCHANGED <<binding, home, current>>
  ELSE MarkFailed(r)

(* Consent first; what exists because a consent went away passes. *)
Refused(j) == consent = None /\ ~Quarantined(j)
Gate(a) ==
  /\ pc[a] = "gate"
  /\ \/ /\ Refused(Job(a))
        /\ Block(For(a)) /\ Idle(a)
        /\ UNCHANGED <<current, bound, names, cycle, consent, cycles, order, row>>
     \/ /\ ~Refused(Job(a)) /\ got[a] = "awaiting"
        /\ Deadline(For(a)) /\ Idle(a)
        /\ UNCHANGED <<workflow, bound, spec, consent, cycles, order, row>>
     \/ /\ ~Refused(Job(a)) /\ got[a] # "awaiting"
        /\ Go(a, IF a = Operator \/ got[a] = "reclaimed" THEN "inspect" ELSE "prepare",
              "none", Nothing)
        /\ UNCHANGED db
  /\ UNCHANGED <<cloud, faults, rt, plan, activated>>

(* FlyRuntimeProvisioner.inspect: what the provider shows of a revision *)
MachineRef == [volume |-> volume.id, machine |-> machine.id]
Shown(r) ==
  IF ~app THEN {"absent"}
  ELSE IF volume.id = None THEN {"failed"}
  ELSE IF machine.id = None THEN {"pending"}
  ELSE IF machine.rev # r THEN {"failed"}
  ELSE {"ready"} \cup (IF plan.slow THEN {"pending"} ELSE {})
Inspect(a) ==
  /\ pc[a] = "inspect"
  /\ \/ \E answer \in Shown(For(a)) :
          Go(a, "judge", answer, IF answer = "ready" THEN MachineRef ELSE Nothing) /\ Answered
     \/ \E answer \in {"lost"} \cup (IF plan.strict THEN {"failed"} ELSE {}) :
          Go(a, "judge", answer, Nothing) /\ Mishap
  /\ UNCHANGED <<db, cloud, rt, plan, activated>>

(* _settle_superseded_runtime_absent *)
SettleAbsent(r) ==
  IF ~Current(r) /\ ~Serving(r) /\ Status(Run(r)) \in {"running", "unknown", "cancelled"}
  THEN /\ jobs' = Settle(jobs, Run(r), "cancelled", "problem")
       /\ row' = [s \in Rev |-> IF row[s].status = "none" THEN row[s]
                                ELSE [row[s] EXCEPT !.status = "deleted"]]
  ELSE UNCHANGED <<jobs, row>>

(* What the worker makes of it, when it is back after a lease. *)
JudgeReclaimed ==
  /\ pc[Worker] = "judge"
  /\ LET r == For(Worker)
         answer == got[Worker]
     IN \/ /\ answer = "ready" /\ Go(Worker, "ready", answer, res[Worker])
           /\ UNCHANGED <<jobs, binding, home, current>>
        \/ /\ answer = "absent" /\ Go(Worker, "prepare", "none", Nothing)
           /\ UNCHANGED <<jobs, binding, home, current>>
        \/ /\ answer = "failed" /\ MarkFailed(r) /\ Idle(Worker)
        \/ /\ answer \in {"pending", "lost"} /\ MarkUnknown(Run(r)) /\ Idle(Worker)
           /\ UNCHANGED <<binding, home, current>>
  /\ UNCHANGED <<workflow, bound, spec, consent, cycles, order, row, cloud, faults, rt,
                 plan, activated>>

(* And the operator: a revision that serves is finished, not an orphan. *)
\* Slip: what is not current is an orphan.
NotAsked(r) == FALSE
Finished(r) == Serving(r) /\ ~Current(r)
JudgeReconciled ==
  /\ pc[Operator] = "judge"
  /\ LET r == For(Operator)
         answer == got[Operator]
         orphan == ~Finished(r) /\ ~Current(r)
     IN \/ /\ answer = "ready" /\ ~orphan /\ Go(Operator, "ready", answer, res[Operator])
           /\ UNCHANGED <<jobs, row, binding, home, current>>
        \/ /\ answer = "ready" /\ orphan /\ Go(Operator, "forget", answer, res[Operator])
           /\ UNCHANGED <<jobs, row, binding, home, current>>
        \/ /\ answer = "absent" /\ orphan /\ SettleAbsent(r) /\ Idle(Operator)
           /\ UNCHANGED <<binding, home, current>>
        \/ /\ answer = "failed" /\ Current(r) /\ MarkFailed(r) /\ Idle(Operator)
           /\ UNCHANGED row
        \/ /\ answer \in {"absent", "pending"} /\ Current(r) /\ ~Quarantined(Run(r))
           /\ Go(Operator, "prepare", "none", Nothing)
           /\ UNCHANGED <<jobs, row, binding, home, current>>
        \/ /\ \/ answer = "lost"
              \/ answer \in {"failed", "pending"} /\ ~Current(r)
              \/ answer = "absent" /\ Finished(r)
              \/ answer \in {"absent", "pending"} /\ Current(r) /\ Quarantined(Run(r))
           /\ Idle(Operator) /\ UNCHANGED <<jobs, row, binding, home, current>>
  /\ UNCHANGED <<workflow, bound, spec, consent, cycles, order, cloud, faults, rt,
                 plan, activated>>

(* A refusal of the provider is final, a lost answer is not. *)
CallFails(a) ==
  \/ /\ plan.strict /\ MarkFailed(For(a)) /\ Idle(a) /\ Mishap
  \/ /\ MarkUnknown(Run(For(a))) /\ Idle(a) /\ Mishap
     /\ UNCHANGED <<binding, home, current>>
NothingMarked == UNCHANGED <<jobs, binding, home, current>>

(* prepare: the app and its volume, and nothing that runs *)
Prepare(a) ==
  /\ pc[a] = "prepare"
  /\ LET fresh == volume.id = None
         made == IF fresh THEN [NoVolume EXCEPT !.id = ids + 1] ELSE volume
         Done == /\ app' = TRUE /\ volume' = made
                 /\ ids' = IF fresh THEN ids + 1 ELSE ids
     IN /\ fresh => ids < IdMax
        /\ \/ /\ Done /\ Answered /\ NothingMarked
              /\ Go(a, "issue", "none", [volume |-> made.id, machine |-> None])
           \/ /\ Done /\ CallFails(a)
           \/ /\ UNCHANGED <<app, volume, ids>> /\ CallFails(a)
  /\ UNCHANGED <<workflow, bound, spec, consent, cycles, order, row, secret, machine, rt,
                 plan, activated>>

(* issue_bootstrap: one live token for a revision. *)
IssueBootstrap(r) ==
  /\ token' = [token EXCEPT ![r] = [n |-> @.n + 1, state |-> "live", expired |-> FALSE]]
  /\ rev' = [rev EXCEPT ![r] = IF @ \in {"planned", "issued", "claimed"} THEN "issued" ELSE @]

(* _finish_runtime, to the token. What the household no longer wants is     *)
(* compensated. The bound: tokens of one revision.                          *)
IssueToken(a) ==
  /\ pc[a] = "issue"
  /\ LET r == For(a)
         wanted == ~Superseded(Run(r)) /\ CurrentIn(r, {"runtime_provisioning", "activating"})
     IN \/ /\ Status(Run(r)) = "succeeded" /\ Idle(a)
           /\ UNCHANGED db
        \/ /\ Status(Run(r)) # "succeeded" /\ ~wanted
           /\ Go(a, "forget", "none", res[a])
           /\ UNCHANGED db
        \/ /\ wanted /\ token[r].n < TokenMax
           /\ IssueBootstrap(r)
           /\ row' = [row EXCEPT ![r] = [status |-> "creating", ref |-> res[a]]]
           /\ bound' = TRUE
           /\ workflow' = IF jobs[Run(r)].op = "ensure" THEN "activating" ELSE workflow
           /\ Go(a, "install", "none", res[a])
           /\ UNCHANGED <<home, current, names, cycle, people, queue>>
  /\ UNCHANGED <<cloud, faults, rt, plan, activated>>

(* FlySecretSink.install: staged, no machine sees it before it is updated *)
Install(a) ==
  /\ pc[a] = "install"
  /\ LET r == For(a)
         staged == <<r, token[r].n>>
     IN \/ /\ secret' = staged /\ Answered /\ UNCHANGED jobs
           /\ Go(a, "recheck", "none", res[a])
        \/ /\ secret' \in {secret, staged} /\ Mishap
           /\ MarkUnknown(Run(r)) /\ Idle(a)
  /\ UNCHANGED <<house, spec, people, order, row, app, volume, machine, ids, rt, plan, activated>>

Recheck(a) ==
  /\ pc[a] = "recheck"
  /\ Go(a, IF CurrentIn(For(a), {"activating"}) /\ bound THEN "launch" ELSE "forget",
        "none", res[a])
  /\ UNCHANGED <<db, cloud, faults, rt, plan, activated>>

(* launch and _ensure_machine: a machine that matches is left alone, one of *)
(* another revision is updated and starts again with what is staged.        *)
Launch(a) ==
  /\ pc[a] = "launch"
  /\ LET r == For(a)
         here == app /\ volume.id # None
         fresh == machine.id = None
         id == IF fresh THEN ids + 1 ELSE machine.id
         Done == /\ here
                 /\ IF machine.rev = r THEN UNCHANGED <<machine, ids, rt>>
                    ELSE /\ fresh => ids < IdMax
                         /\ machine' = [id |-> id, rev |-> r,
                                        token |-> IF secret[1] = r THEN secret[2] ELSE None]
                         /\ ids' = IF fresh THEN id ELSE ids
                         /\ rt' = "boot"
         Same == UNCHANGED <<machine, ids, rt>>
     IN \/ /\ Done /\ Answered /\ NothingMarked
           /\ Go(a, "ready", "none", [volume |-> volume.id, machine |-> id])
        \/ /\ Done /\ MarkUnknown(Run(r)) /\ Idle(a) /\ Mishap
           /\ UNCHANGED <<binding, home, current>>
        \/ /\ Same /\ CallFails(a)
        \/ /\ ~here /\ Same /\ MarkUnknown(Run(r)) /\ Idle(a) /\ Answered
           /\ UNCHANGED <<binding, home, current>>
  /\ UNCHANGED <<workflow, bound, spec, consent, cycles, order, row, app, secret, volume,
                 plan, activated>>

(* _settle_runtime_ready: launched, not finished. A worker that only looked *)
(* has nothing to compensate, and leaves the job as it is.                  *)
SettleReady(a) ==
  /\ pc[a] = "ready"
  /\ LET r == For(a)
         wanted == /\ Status(Run(r)) \in {"running", "unknown"}
                   /\ workflow \in Expected(r, {"activating", "complete"})
                   /\ home \in {"provisioning", "active"} /\ current = r /\ bound
         Recorded == row' = [row EXCEPT ![r] = [status |-> "ready", ref |-> res[a]]]
     IN \/ /\ Status(Run(r)) = "succeeded" /\ Recorded /\ Idle(a)
           /\ UNCHANGED <<jobs, binding, home, current>>
        \/ /\ Status(Run(r)) # "succeeded" /\ ~wanted
           /\ IF a = Worker /\ got[a] = "ready" THEN Idle(a) ELSE Go(a, "forget", "none", res[a])
           /\ UNCHANGED <<jobs, row, binding, home, current>>
        \/ /\ wanted /\ Recorded /\ Idle(a)
           /\ IF token[r].state \in Unspent
              THEN /\ jobs' = RetryLater(jobs, Run(r), "awaiting")
                   /\ UNCHANGED <<binding, home, current>>
              ELSE Deadline(r)
  /\ UNCHANGED <<workflow, bound, spec, consent, cycles, order, cloud, faults, rt,
                 plan, activated>>

-----------------------------------------------------------------------------
(* Compensating, and the jobs that tear down and stop *)
(* secrets unset: the app is deployed without it, and its machine restarts. *)
Unset ==
  /\ secret' = NoSecret
  /\ IF machine.id = None \/ machine.token = None THEN UNCHANGED <<machine, rt>>
     ELSE machine' = [machine EXCEPT !.token = None] /\ rt' = "boot"

(* _cleanup_cancelled_result, to the removal of the secret *)
Forget(a) ==
  /\ pc[a] = "forget"
  /\ LET r == For(a)
         late == <<"latesecret", r>>
     IN /\ row' = [row EXCEPT ![r] = [status |-> "deleting", ref |-> res[a]]]
        /\ \/ /\ IF app THEN Unset ELSE UNCHANGED <<secret, machine, rt>>
              /\ Answered /\ UNCHANGED queue
              /\ Go(a, "raze", "none", res[a])
           \/ /\ UNCHANGED <<secret, machine, rt>> /\ Mishap
              /\ jobs' = Create(jobs, late, New("none", Nothing))
              /\ order' = Enqueue(late)
              /\ Go(a, "raze", "kept", res[a])
  /\ UNCHANGED <<house, spec, people, app, volume, ids, plan, activated>>

(* _deprovision: the machine by its reference or, when none was recorded, by *)
(* its name; then the volume; then, for a rollout undone, the app.           *)
Machines(ref) == ref.machine \in {None, machine.id}
Razed(ref, whole) ==
  LET stopped == machine.id # None /\ Machines(ref)
      clear == machine.id = None \/ stopped
      mine == volume.id = None \/ ref.volume = volume.id
  IN /\ machine' = IF clear THEN NoMachine ELSE machine
     /\ rt' = IF clear THEN "off" ELSE rt
     /\ volume' = IF clear /\ mine THEN NoVolume ELSE volume
     /\ app' = (app /\ ~(whole /\ clear /\ mine))
     /\ secret' = IF app' THEN secret ELSE NoSecret
Answers(ref) ==
  IF ~app THEN "absent"
  ELSE IF (machine.id = None \/ Machines(ref)) /\ (volume.id = None \/ ref.volume = volume.id)
  THEN "absent" ELSE "failed"
Untouched == UNCHANGED <<app, secret, volume, machine, rt>>
Stopped(ref) == /\ machine.id # None /\ Machines(ref)
                /\ machine' = NoMachine /\ rt' = "off"
                /\ UNCHANGED <<app, secret, volume>>

RazeApp(a) ==
  /\ pc[a] = "raze"
  /\ \/ /\ Razed(res[a], TRUE) /\ Answered
        /\ Go(a, "settle", IF got[a] = "kept" /\ Answers(res[a]) = "absent" THEN "kept"
                           ELSE Answers(res[a]), res[a])
     \/ /\ Mishap /\ Go(a, "settle", "lost", res[a])
        /\ Razed(res[a], TRUE) \/ Stopped(res[a]) \/ Untouched
  /\ UNCHANGED <<db, ids, plan, activated>>

(* and what is not known to be gone is left to a job of its own *)
Compensate(a) ==
  /\ pc[a] = "settle" /\ Job(a) \in RunJob
  /\ LET r == For(a)
         late == <<"late", r>>
         gone == got[a] \in {"absent", "kept"}
     IN /\ row' = [row EXCEPT ![r].status = IF gone THEN "deleted" ELSE "unknown"]
        /\ IF gone
           THEN /\ jobs' = IF got[a] = "absent" /\ Status(Run(r)) \in {"running", "unknown", "cancelled"}
                           THEN Settle(jobs, Run(r), "cancelled", "problem") ELSE jobs
                /\ UNCHANGED order
           ELSE /\ jobs' = Create(jobs, late, New("none", res[a]))
                /\ order' = Enqueue(late)
  /\ Idle(a)
  /\ UNCHANGED <<house, spec, people, cloud, faults, rt, plan, activated>>

(* _cleanup: the machine and its volume, by the reference of the time; the  *)
(* app keeps the secrets of the mailbox.                                    *)
CallCleanup(a) ==
  /\ pc[a] = "call" /\ Job(a)[1] \in {"raze", "late"}
  /\ LET ref == jobs[Job(a)].ref
     IN \/ /\ Razed(ref, FALSE) /\ Answered /\ Go(a, "settle", Answers(ref), Nothing)
        \/ /\ Mishap /\ Go(a, "settle", "lost", Nothing)
           /\ Razed(ref, FALSE) \/ Stopped(ref) \/ Untouched
  /\ UNCHANGED <<db, ids, plan, activated>>

(* _cleanup_bootstrap *)
CallUnset(a) ==
  /\ pc[a] = "call" /\ Job(a)[1] \in {"secret", "latesecret"}
  /\ \/ /\ app /\ Unset /\ Answered /\ Go(a, "settle", "absent", Nothing)
     \/ /\ ~app /\ UNCHANGED <<secret, machine, rt>> /\ Answered
        /\ Go(a, "settle", "lost", Nothing)
     \/ /\ UNCHANGED <<secret, machine, rt>> /\ Mishap /\ Go(a, "settle", "lost", Nothing)
  /\ UNCHANGED <<db, app, volume, ids, plan, activated>>

(* _consent_revoke of the runtime: a stop is obeyed by the generation it    *)
(* names, acknowledged by another, and put off while there is no telling.   *)
Verdict(c) ==
  IF volume.manifest = None \/ volume.manifest # machine.rev THEN "undecidable"
  ELSE IF cycle[volume.manifest] = c THEN "match" ELSE "superseded"
CallStop ==
  /\ pc[Worker] = "call" /\ Job(Worker)[1] = "stop"
  /\ LET verdict == Verdict(For(Worker))
         up == machine.id # None
         obeyed == up /\ verdict = "match"
     IN \/ /\ volume' = IF obeyed THEN [volume EXCEPT !.marked = TRUE] ELSE volume
           /\ Answered
           /\ Go(Worker, "settle", IF up /\ verdict # "undecidable" THEN "absent" ELSE "lost",
                 Nothing)
        \/ /\ volume' \in {volume, IF obeyed THEN [volume EXCEPT !.marked = TRUE] ELSE volume}
           /\ Mishap /\ Go(Worker, "settle", "lost", Nothing)
  /\ UNCHANGED <<db, app, secret, machine, ids, rt, plan, activated>>

(* A stop nobody answered stays leased, and is delivered again. *)
SettleCall(a) ==
  /\ pc[a] = "settle" /\ Job(a) \notin RunJob
  /\ LET j == Job(a)
     IN /\ jobs' = IF got[a] = "absent" THEN Settle(jobs, j, "succeeded", "none")
                   ELSE IF j[1] = "stop" THEN jobs
                   ELSE IF got[a] = "failed" /\ Status(j) \in {"running", "unknown"}
                   THEN Settle(jobs, j, "failed", "problem")
                   ELSE Settle(jobs, j, "unknown", "problem")
        /\ row' = IF j[1] \in {"raze", "late"} /\ got[a] = "absent"
                  THEN [row EXCEPT ![j[2]].status = "deleted"] ELSE row
  /\ Idle(a)
  /\ UNCHANGED <<house, spec, people, order, cloud, faults, rt, plan, activated>>

(* A process dies: its job stays leased, or of unknown outcome. *)
Die(a) ==
  /\ pc[a] # "idle"
  /\ Idle(a) /\ Mishap
  /\ UNCHANGED <<db, cloud, rt, plan, activated>>

-----------------------------------------------------------------------------
(* The runtime: run() of its bootstrapper, again and again until it returns *)
Boot == "boot"
Restart == rt' = Boot
Step(place) == rt' = place /\ Answered
Env == machine.rev
Valid(states) ==
  /\ machine.token # None /\ machine.token = token[Env].n
  /\ token[Env].state \in states
Installed == volume.manifest = Env /\ volume.of = Env
Advancing == volume.of = None \/ Env > volume.of
Resuming == Installed /\ volume.state = "activating"
Settled == Installed /\ volume.state = "active"
RuntimeSame == UNCHANGED <<people, queue, row, app, secret, machine, ids, pc, at, got, res, plan>>

(* BootstrapService.claim; a lost answer is asked for again. *)
Claim ==
  /\ rt = Boot /\ Advancing
  /\ Valid(Unspent) /\ ~token[Env].expired
  /\ bound /\ rev[Env] \in {"issued", "claimed"}
  /\ token' = [token EXCEPT ![Env].state = "claimed"]
  /\ rev' = [rev EXCEPT ![Env] = "claimed"]
  /\ Step("claimed") \/ (Restart /\ Mishap)
  /\ UNCHANGED <<house, names, cycle, volume, activated>> /\ RuntimeSame

(* The manifest is written and read again, and only then a state is. *)
WriteManifest ==
  /\ rt = "claimed" /\ Step("installed")
  /\ volume' = [volume EXCEPT !.manifest = Env]
  /\ UNCHANGED <<house, spec, activated>> /\ RuntimeSame
WriteActivating ==
  /\ \/ rt = "installed"
     \/ rt = Boot /\ Resuming /\ machine.token # None
  /\ Step("activating")
  /\ volume' = [volume EXCEPT !.state = "activating", !.of = Env]
  /\ UNCHANGED <<house, spec, activated>> /\ RuntimeSame

(* What must hold when a revision goes live. *)
MayActivate ==
  /\ Valid({"claimed"}) /\ ~token[Env].expired
  /\ consent # None /\ bound /\ rev[Env] = "claimed"

(* BootstrapService.activate: revision, token, household, bindings and job  *)
(* in one transaction. Every staged binding of the household is published.  *)
Supersedes ==
  rev' = [r \in Rev |-> IF r = Env THEN "active"
                        ELSE IF rev[r] = "active" THEN "superseded" ELSE rev[r]]
Activate ==
  /\ rt = "activating" /\ MayActivate
  /\ Supersedes
  /\ token' = [token EXCEPT ![Env].state = "used"]
  /\ home' = "active" /\ current' = Env /\ workflow' = "complete"
  /\ binding' = [m \in Member |-> IF binding[m] = Staged THEN Env ELSE binding[m]]
  /\ jobs' = IF Status(Run(Env)) \in {"pending", "running"}
             THEN Settle(jobs, Run(Env), "succeeded", "none") ELSE jobs
  /\ activated' = [activated EXCEPT ![Env] = @ + 1]
  /\ Step("activated") \/ (Restart /\ Mishap)
  /\ UNCHANGED <<bound, names, cycle, consent, cycles, order, row, cloud, local, plan>>

(* An exact replay of it is a lookup. *)
Replayed == /\ Valid({"used"}) /\ home = "active" /\ current = Env
            /\ rev[Env] = "active" /\ workflow = "complete"
Replay ==
  /\ rt = "activating" /\ Replayed /\ Step("activated")
  /\ UNCHANGED <<db, cloud, local, plan, activated>>

WriteActive ==
  /\ rt = "activated" /\ Step("active")
  /\ volume' = [volume EXCEPT !.state = "active"]
  /\ UNCHANGED <<house, spec, activated>> /\ RuntimeSame

(* The receipt is durable: the secret may go. *)
Acknowledge ==
  /\ rt = "active" \/ (rt = Boot /\ Settled /\ machine.token # None)
  /\ Replayed
  /\ LET cleanup == <<"secret", Env>>
     IN jobs' = Create(jobs, cleanup, New("none", Nothing)) /\ order' = Enqueue(cleanup)
  /\ Step("done") \/ (Restart /\ Mishap)
  /\ UNCHANGED <<house, spec, people, row, cloud, local, plan, activated>>

(* bootstrap_from_environment: without a token, a durable receipt serves. *)
ServeWithout ==
  /\ rt = Boot /\ machine.token = None /\ Settled /\ ~volume.marked
  /\ Step("done")
  /\ UNCHANGED <<db, cloud, local, plan, activated>>

(* A call that is refused, and a machine that restarts, start it again. *)
Refuse ==
  /\ \/ rt = "activating" /\ ~MayActivate /\ ~Replayed
     \/ rt = "active" /\ ~Replayed
  /\ Restart /\ Answered
  /\ UNCHANGED <<db, cloud, local, plan, activated>>
Reboot ==
  /\ rt \notin {"off", Boot}
  /\ Restart /\ Mishap
  /\ UNCHANGED <<db, cloud, local, plan, activated>>

(* The time of a token ends. *)
Expire(r) ==
  /\ token[r].state \in Unspent \cup {"revoked"} /\ ~token[r].expired
  /\ token' = [token EXCEPT ![r].expired = TRUE]
  /\ UNCHANGED <<house, rev, names, cycle, people, queue, row, cloud, faults, local, rt,
                 plan, activated>>

-----------------------------------------------------------------------------
Family ==
  \/ \E m \in Member : AddMember(m) \/ Drift(m)
  \/ Onboard \/ Reset \/ Cancel \/ Withdraw
Work(a) ==
  \/ Gate(a) \/ Inspect(a) \/ Prepare(a) \/ IssueToken(a) \/ Install(a) \/ Recheck(a)
  \/ Launch(a) \/ SettleReady(a) \/ Forget(a) \/ RazeApp(a) \/ Compensate(a)
  \/ CallCleanup(a) \/ CallUnset(a) \/ SettleCall(a)
Working == Lease \/ (\E j \in JobId : Reclaim(j)) \/ Work(Worker) \/ JudgeReclaimed \/ CallStop
Reconciling == (\E j \in JobId : Reconcile(j)) \/ Work(Operator) \/ JudgeReconciled
Running ==
  \/ Claim \/ WriteManifest \/ WriteActivating \/ Activate \/ Replay \/ WriteActive
  \/ Acknowledge \/ ServeWithout \/ Refuse
Next ==
  \/ Family \/ Sweep \/ Working \/ Reconciling \/ Running
  \/ Reboot \/ (\E a \in Actor : Die(a)) \/ (\E r \in Rev : Expire(r))
Spec == Init /\ [][Next]_vars

(* The worker drains what is due before a lease it has lost can end; an     *)
(* operator does not leave an unknown outcome alone; the provider keeps a    *)
(* machine running; and time passes.                                         *)
FairSpec ==
  /\ Spec
  /\ WF_vars(Working) /\ SF_vars(Lease)
  /\ \A j \in RunJob : SF_vars(Reclaim(j)) /\ SF_vars(Reconcile(j))
  /\ WF_vars(Work(Operator) \/ JudgeReconciled) /\ WF_vars(Running)
  /\ \A r \in Rev : WF_vars(Expire(r))

-----------------------------------------------------------------------------
(* A rollout that ended without its revision; and one of them whose machine  *)
(* came up all the same, or is what the provider runs, whatever the database *)
(* says by now.                                                              *)
GivenUp(r) == Status(Run(r)) \in {"failed", "cancelled"}
Afoot == \E r \in Rev : GivenUp(r) /\ Touched(r) /\ (r > current \/ activated[r] > 0)

(* Who the router is told to admit is admitted by the runtime: a member is   *)
(* published by the activation of a revision whose manifest names them, or   *)
(* of one that was given up and came up all the same. And one rollout at     *)
(* most is under way: the command, the sweep and onboarding all refuse to    *)
(* make a second, whatever has failed, unless it was undone.                 *)
Served(m) == /\ activated[binding[m]] > 0
             /\ m \in names[binding[m]] \/ GivenUp(binding[m])
PublishedIsServed ==
  /\ \A m \in Member : binding[m] \in Rev => Served(m)
  /\ Cardinality({r \in Rev : InFlight(Run(r)) /\ rev[r] # "revoked"}) <= 1

(* An active household points at the revision its machine was made for, one  *)
(* that went live exactly once: a rollout that failed half way is not taken  *)
(* back in the database alone.  And it was consented to: a withdrawal takes  *)
(* down the revision of its cycle, no late claim or activation brings one up.*)
Consented == \A r \in Rev : Serving(r) => consent # None /\ cycle[r] = consent
ActiveIsServed ==
  /\ home = "active" /\ Serving(current) /\ ~Afoot =>
       /\ machine.rev = current /\ activated[current] = 1
       /\ rt = "done" => volume.manifest = current
  /\ Consented

(* The machine of the revision that serves an active household is not taken  *)
(* away by a worker, whatever it has missed; and a stop suspends only a      *)
(* runtime whose consent was withdrawn, however late it comes and whoever    *)
(* serves at that address by then.                                           *)
UpAndServing == /\ home = "active" /\ Serving(current)
                /\ machine.id # None /\ machine.rev = current /\ ~Afoot
NeverTornDown ==
  [][/\ UpAndServing => machine'.id # None
     /\ volume'.marked /\ ~volume.marked => cycle[volume.manifest] # consent]_vars

(* A rollout that nobody undid ends: it is served, refused or given up.      *)
RolloutEnds ==
  \A r \in Rev : InFlight(Run(r)) ~> ~InFlight(Run(r)) \/ rev[r] = "revoked"
=============================================================================
