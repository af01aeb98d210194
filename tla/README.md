# Abrolia: a verification project

TLA+ specifications of the Abrolia family assistant, model-checked with TLC, and
theorems about them checked with TLAPS.  Paths below are relative to the
repository.  `PROJECT.json` maps every definition to the lines it stands for and
lists the hazards the properties are about.

1. [The system](#1-the-system): parts, state, operations, what is hard
2. [Layout](#2-how-the-project-is-laid-out)
3. [From the code to the model](#3-from-the-code-to-the-model)
4. [What the runs show](#4-what-the-runs-show): bounds, fairness
5. [What is proved](#5-what-is-proved)
6. [Where the code and its documents disagree](#6-where-the-code-and-its-documents-disagree)
7. [What is not modelled](#7-what-is-not-modelled)

## 1. The system

Abrolia has three programs.

* **The household runtime** (`hermes_cloud/`), one per family, over one SQLite
  database.  Letters and messages come in (`ingest/`, `channels/`), wait in a
  durable queue (`core/events.py`), are turned by a language model into a
  *proposal* (`runner/`), and the proposal is executed only after a person of the
  family presses a button (`core/approvals.py`, `core/effects.py`,
  `runner/pipeline.py`, `execute/`).
* **The control plane** (`control_plane/`): accounts, the onboarding wizard,
  provisioning jobs and their worker, bindings of external identities, rollout of
  runtimes, consent and erasure, backup of its own database.
* **The gateway** (`gateway/`): routes messages of a shared WhatsApp number to
  the runtime that owns the sender, over a write-ahead log.

### Inventory

| Component | State | Operations | What is hard | What makes it correct |
|---|---|---|---|---|
| Confirmation contour: `core/approvals.py`, `core/effects.py`, `runner/pipeline.py`, `runner/bundle.py` | approvals, effect rows with leases, wrong attempts | stage, claim, cancel, toggle, execute, mark, reconcile | several processes, a crash around an outward call, leases, replays | nothing outward without a human yes; at most one attempt; an honest journal |
| Commitments and memory: `core/commitments.py`, `core/memory.py` | status of facts, version chains | propose, confirm, reject, supersede | a no racing a replay of a yes | a fact needs a yes |
| Event queue: `core/events.py`, `ingest/worker.py` | status, attempts, lease of events | append, lease, mark_done, mark_failed, replay, wipe | a lease that ends while its holder works; duplicates; poison events; an erasure meanwhile | nothing accepted is lost; one event at a time per thread; an erasure holds |
| Inbound webhooks: `ingest/nerve_webhook.py`, `forwarding.py`, `rfc822.py` | journal of webhooks, receipts, cached attachments, forwarding state | append, lease, store, ingest, settle, divert; check sent, returned, missed | a crash between any two of five commits; a redelivery; late checks | a letter is one event; a forwarding called stale has failed, one that failed is called stale |
| Reminders: `execute/reminder.py`, `scheduler.py` | status and lease of reminders, digest mark | create, cancel, claim_due, mark_delivered | a crash between the send and the mark; a cancellation during a send; a round longer than its leases | rung in the end, cancelled means silent |
| Mailbox provisioning, and the secret namespace it needs: `control_plane/repositories/jobs.py`, `provisioning/worker.py`, `onboarding/service.py`, `privacy/withdraw.py`, `privacy/delete.py`, `email/repository.py` | jobs, external resources, identities, the step, the namespace | select, retry, check, reset, cancel, withdraw, delete; lease, call, settle, tear down, reconcile, resume | unknown outcome at a provider, a command in the middle of a call, a late answer, tear-downs that wait for one another | no mailbox is lost sight of; what is called deleted or erased is gone; a verified mailbox works |
| Runtime rollout: `provisioning/rollout.py`, `planner.py`, `bootstrap.py`, `fly.py`, `worker.py`; `hermes_cloud/runtime/bootstrap.py`, `service.py` | revisions, tokens, jobs, app, machine, volume, the runtime's manifest and consent marker | plan, lease, prepare, install, launch, claim, activate, expire, compensate, stop, reconcile | two calls per job, a deadline racing an activation, a stop for a runtime that was replaced | what is routed is served; nobody tears down what serves; a rollout ends |
| Channel bindings: `repositories/bindings.py`, `api/bindings.py` | bindings, challenges, published revision | issue, verify, ensure owner, seat, stage, publish, retire | two households and one sender; codes that outlive their owner's state; a rollout that fails half way | one holder per sender; nothing routed that the runtime does not authorize |
| Gateway: `gateway/whatsapp_router.py`, `app.py` | write-ahead log rows with attempts and backoff | webhook, persist, deliver, redeliver pass, expire | the webhook's thread and the redelivery's on one log; a rebinding or an outage meanwhile | never to another household; nothing acknowledged is lost; every row leaves |
| Control-plane backup: `control_plane/backup.py`, `db.py`, `cli.py` | database, its log, pause marker, archives | snapshot, migrate, archive, restore, install a rollback, undo | a crash or a failing file operation between any two moves; a command without the lock | generations never mix unreported; a rollback is whole or reversed |
| Sending of e-mail: `execute/email_send.py`, `email/receipts.py` | send rows, delivery receipts | send, reconcile | a send repeated under one id | not modelled (section 7) |
| Onboarding, privacy texts, accounts, sessions, HTTP, channels, model dialogue | | | | not modelled (section 7) |

How they interact.  Ingress calls `EventStore.append`; the worker leases an event
and calls `Pipeline.handle_event`, which stages an approval and sends a card;
the channel delivers a press to `Pipeline.handle_callback`, which claims and
executes; executors call `ReminderStore`, the calendar, the mail and messenger
adapters; the scheduler delivers reminders; `reconcile` runs at every start and
on every round of `listen`.  All of these share one database, and several
processes (`listen`, `worker`, `tick`, `confirm`, the web service) may run at
once.  The control plane talks to a runtime over HTTP only: the bootstrap
exchange in one direction, the stop of a withdrawn consent in the other.  The
gateway asks the control plane who holds a sender and relays to the runtime.

## 2. How the project is laid out

| Module | Models | Kind |
|---|---|---|
| `HumanYes` | what the family is promised about a proposal | abstract specification |
| `Pipeline` | confirmation contour, facts, reconcile; refines `HumanYes` | detailed specification |
| `PipelineProofs` | theorems about `Pipeline` | proofs |
| `Inbox` | what the ingress promises about a letter | abstract specification |
| `EventQueue` | durable queue, workers, handler, erasure; refines `Inbox` | detailed specification |
| `EventQueueProofs` | theorems about `EventQueue` | proofs |
| `Relay` | the relay inbox: webhook journal, its worker, forwarding health | detailed specification |
| `RelayProofs` | theorems about `Relay` | proofs |
| `Reminders` | reminders, rounds of delivery, the daily digest | detailed specification |
| `RemindersProofs` | theorems about `Reminders` | proofs |
| `Provisioning` | the mailbox of a household: commands, jobs, worker, operator, erasure | detailed specification |
| `ProvisioningInvariant` | the inductive invariant of `Provisioning`, and the effects of its steps | definitions |
| `ProvisioningProofs` | theorems about `Provisioning` | proofs |
| `Rollout` | the runtime of a household: revisions, tokens, worker, provider, the runtime itself | detailed specification |
| `RolloutProofs` | theorems about `Rollout` | proofs |
| `Bindings` | who may speak to a household, and where | detailed specification |
| `Gateway` | routing, write-ahead log, redelivery, the runtime's webhook | detailed specification |
| `GatewayProofs` | theorems about `Gateway` | proofs |
| `Backup` | files of the control-plane database, their archives and moves | detailed specification |
| `ControlPlaneProofs` | theorems about `Bindings` and about `Backup` | proofs |
| `MC...` | the households, letters and operators that TLC looks at | instances |

Each module has its state in `VARIABLES` grouped into what is stored, what is so
in the world, what a process holds in memory and what is only observed; a crash
loses the third group, and no action reads the last.  Properties are at the end.
An operator marked `Slip` in a comment is a plausible mistake in the definition
after it.  No specification uses one: they exist to show that the properties
notice (`mutants` in `PROJECT.json`).

The seams.  `Rollout` has the exchange between control plane and runtime in one
module, since the hazards are in that exchange.  `Bindings` takes a rollout as
four actions (`Touch`, `Activate`, `ActivateLate`, `Fail`), whose inside is `Rollout`; `Rollout`
takes a binding as one (`AddMember`), whose inside is `Bindings`; a failed rollout
that comes up late is in both (`ActivateLate`; `GivenUp`).  `Gateway`
takes the published binding of a sender as `holder`, which `Bindings` shows to be
one (`OneHolder`).  `Relay` ends where `EventQueue` begins, at `append`.
`Provisioning` and `Rollout` share the jobs and the worker but not the rows: the
e-mail step and the runtime step of a household meet only in the namespace of
secrets and in the erasure, which `Provisioning` has.

What is next: the sending of e-mail.

## 3. From the code to the model

Every write of the programs is one SQLite transaction (`Database.write`, BEGIN
IMMEDIATE), so one action is one transaction, one read that is used later, or
one call outside.

### Pipeline

`pc[p]` says what a process is about to do.

| State | Code |
|---|---|
| `status`, `card`, `claimedBy`, `overdue` | `approvals.status`, `.payload`, `.claimed_by`, `.expires_at` in the past |
| `misses` | rows of `approval_attempts` in the window |
| `effect`, `lapsed` | `effects.status`, `.lease_until` in the past; the key is `(run_id, tool_use_id)`: 0 for the approval, i for item i |
| `rows`, `born` | how many rows were written, and `effects.created_at` as the number of a row among them |
| `fact` | `commitments.status`, `memory_statements.status` |
| `reminders` | rows of `reminders` per approval |
| `calls`, `delivered`, `told` | calls of an outward executor, calls that arrived, outcomes the family read |
| `todo` | the result of `EffectJournal.stale` a reconciler walks through: the `StaleLimit` oldest rows (`limit=50`) |

| Actions | Code |
|---|---|
| `Stage`, `PressConfirm`, `PressReject`, `PressToggle` | `ApprovalStore.stage`, `Pipeline.handle_callback` up to its first write |
| `ClaimGone`, `ClaimLate`, `ClaimTaken` | the three ends of `_claim_where`; the claim and the effect row are one transaction |
| `DropFact`, `CancelOld`, `Restage` | the two writes of a reject, the two of a toggle |
| `Find`, `Begin`, `LookUp`, `AlreadyThere`, `CreateReminder`, `ConfirmMemory`, `WriteCalendar`, `Send`, `Settle` | `execute`, `_execute_bundle`, the executors, `_settle` |
| `ReadFact`, `ConfirmFact`, `ConfirmRefused`, `Mark`, `Tell` | the end of `execute`: the fact, the verdict, the message |
| `Scan`, `ReconReplay`, `ReconUnknown` | `reconcile` |
| `TtlPasses`, `LeaseLapses`, `MissForgotten`, `Supersede`, `Crash` | the clock, another letter, a kill |

"send" stands for every kind that cannot be replayed (ics, email, whatsapp,
export).  The text of cards, messages and errors is left out.

### EventQueue

A letter stands for its `external_id`.  `Receive` and `Insert` are the two halves
of `EventStore.append` (the tombstone is read before the transaction); `Lease`,
`MarkDone`, `MarkFailed`, `Replay` are the methods of that name; `Extract`,
`StageCard`, `SendCard` are the writes of `Pipeline.handle_event` in their order;
`Erase` is `wipe_household`.  `gone` marks a worker whose row was erased under
it: with `foreign_keys = ON` nothing that refers to the row can be written.  A
message needs no row: what is staged, or is only information, is sent also of a
letter that was erased meanwhile.  `late` counts those messages, and `caught` has
the workers that were about to send when the erasure came; both are observations.

### Relay

| State | Code |
|---|---|
| `journal` | `nerve_webhook_events`, in the order received: state, attempts, lease, the revision it was accepted under |
| `events`, `receipts`, `cached` | canonical events, `email_ingress_receipts`, stored attachments |
| `fwd` | `gmail_forwarding_state` by revision: state, misses, the last token, when it was sent, what came back, what the owner was shown |
| `inbox`, `acked`, `composed` | what is at the relay, whose webhook got a 2xx, the idempotency keys Nerve has sent a check for |
| `pc`, `row` | the worker of `run_nerve_once`, and the row it holds |

| Actions | Code |
|---|---|
| `Post`, `Lease` | `_nerve_webhook` with `append`; `lease` |
| `ReadThread`, `Attach`, `Ingest`, `Receipt`, `MarkMaterialized`, `Proof` | `NerveAttachmentWorker.run_once` for a letter, one commit each (`LetterSteps`) |
| `Record`, `MarkDiverted` | `_divert_relay_message` for a confirmation or a check (`DivertSteps`) |
| `Failed` | the handler of the loop: back in the queue, or dead after `MaxAttempts` |
| `Tick`, `MarkStale`, `SendCheck`, `RecordCheck` | `ForwardingHealth.tick`: the count, the verdict, the call, its record |
| `Recheck`, `OwnerTurn`, `Deploy` | the tool `forwarding_recheck`, `_forwarding_guide`, a new configuration revision |
| `Write`, `Confirm`, `Switch`, `WindowPasses`, `IntervalPasses`, `Expire`, `Crash` | correspondents, Google, the family's switch, the clock, a kill |

`overdue` is an observation: the checks that missed their window since the last
proof.  A check missed before a proof and not yet counted is counted after it by
the code, so it is kept.

### Reminders

`CancelFormer` and `Create` are the two transactions of `_execute_reminder`;
`Claim`, `Mark` are `claim_due`, `mark_delivered`; `Round` to `Crash` are the
loops of `cmd_tick` and `Scheduler._deliver_reminders`, which differ in what they do
with an unknown outcome and in the clock they use: `moment` is the time a deliverer
passes to `claim_due`, the present for a tick and the beginning of its round for the
scheduler, so a lease (`until`) taken late in a long round may be over already.
`ReadDigest` to `Note` are `_deliver_digest`.  `now` counts moments, and `Day` says in
which day each falls.  `overtaken` is an observation: the reminders that were claimed
from under a deliverer at work.

### Provisioning

A mailbox is named by the number of the attempt that selected it; `upstream` is
what the provider holds, whatever the database says.  The secret namespace is an
app of the host (`fly.py`), one per household: `app`.  A `fresh` household starts
with its profile just saved, and with the job that makes the namespace.

| State | Code |
|---|---|
| `jobs` | `provisioning_jobs`: `status`, `why` (`error_code`: "quarantine" is any code that ends in `_requires_reconciliation`), `op`, `tries` (`attempts`), `of` and `parent` (identity and parent in the request of a clean-up) |
| `row`, `namespace` | `external_resources.status` of what attempt n made, and of the secret namespace |
| `identity`, `bound` | `email_identities.status`, `.secret_binding_ref` |
| `step`, `home`, `consent`, `version` | the e-mail step, household and workflow, current consent receipts |
| `key`, `app`, `enabled` | where the key is that the provider accepts, whether the app of the household exists, the kill switch |
| `pc`, `at`, `got` | the place of the worker and of an operator in `_run_once` or `_reconcile` |
| `eraser` | what `resume` read before its calls |
| `astray` | an observation: see below |

| Actions | Code |
|---|---|
| `Select` to `Delete` | `OnboardingService.select`, `retry`, `check`, `reset_from`, `cancel`; `disconnect_for_withdrawal`; `DeletionService.delete` |
| `Lease`, `Gate` | `JobsRepository.lease`; consent, kill switch and namespace at the start of `_run_once` |
| `Call`, `Answer` | `ensure`, `inspect`, and what follows a waiting, limited, rejected, lost or inconclusive answer |
| `Barrier`, `StageSecret`, `FinishStep` | what follows a result: `_superseded`, `_stage_email_secret`, `_finish_step` |
| `Raze`, `Close` | `_cleanup_cancelled_result`: its calls, and its last transaction |
| `MakeNamespace`, `FinishNamespace` | `ensure_app` in `_run_once` and `_reconcile`; `_finish_secret_namespace` and what follows a refused, limited or lost answer |
| `Unmake`, `CloseNamespace` | `_cleanup_cancelled_namespace`: its call, and its last transaction |
| `Deprovision`, `Sweep`, `CleanSecret`, `CleanNamespace` | `_cleanup`, `_cleanup_bootstrap` |
| `Reconcile` | the beginning of `_reconcile`; the rest is shared with the worker |
| `EraseRead`, `EraseCall`, `EraseEnd` | `_resume_locked`: what it reads, its calls, its transaction |

`Crash` may come at every place of a worker, `EraserCrash` of an erasure.  A
lease ends when the worker is back: no worker runs beyond its own lease.

The code leaves five ways in which a mailbox may stay behind, and the model
takes them all.  `astray` collects the identities they happen to, and the
properties are about the others:

1. a late lost answer overwrites the quarantine of a job (`Overwritten`), or a
   limit puts a job back to pending that has made its mailbox (`PutBack`);
2. a call that the provider refuses half way (`LeftBehind`);
3. a call made while the household is being erased, or after (`Call`);
4. a call made between a tear-down of its mailbox and the note that it is done
   (`Undermined`);
5. an erasure that writes "deleted" over what a call has made since (`WrittenOff`).

Section 6 says what each leads to.  `LeftBehind` is possible in the household
`Refusing` only; the last two take two faults and are met by the proofs only.

The app has ways of its own, and `ObserveApp` puts `None` into `astray` when one
happens: two processes are at one job (no lease keeps the operator from a job the
worker has taken up again, and a job is closed by the status read before the
call), an answer that says nothing was made closes a job whose earlier call had
made the app, or a job is put back while the household is being erased.

### Rollout

One household, its one app at the provider, and its runtime.  `rt` is the place
of the runtime's bootstrap thread.

| State | Code |
|---|---|
| `home`, `workflow`, `current`, `bound` | `households.status`, `.current_config_revision`, `.runtime_ref`; the workflow |
| `rev`, `names`, `cycle` | `config_revisions.status`, the members its manifest authorises, the consent receipts it embeds |
| `token` | `bootstrap_tokens`, the last one of a revision |
| `binding` | `channel_bindings.published_revision` of a member: none, staged, published |
| `jobs`, `order`, `row` | runtime jobs (rollout, tear-down registered or late, removal of a bootstrap secret, stop), their order, `external_resources` |
| `app`, `secret`, `volume`, `machine` | what the provider has; the volume also has the runtime's manifest, its state and its consent marker |
| `pc`, `at`, `got`, `res` | the worker and an operator in `_run_once`, `_reconcile`, `_cleanup` |
| `activated` | observation: how often a revision went live |

| Actions | Code |
|---|---|
| `AddMember`, `Drift`, `Sweep`, `Onboard` | `verify_binding_challenge`, a migration that retires a row, `reconcile_stale_bindings`, the last step of onboarding |
| `Reset`, `Cancel`, `Withdraw` | `reset_from`, `cancel`, `ConsentWithdrawalService.withdraw` |
| `Lease`, `Reclaim`, `Reconcile`, `Gate` | the job taken, taken again, or reconciled; consent, deadline |
| `Inspect`, `JudgeReclaimed`, `JudgeReconciled` | `fly.inspect` and the two judgements on what it shows |
| `Prepare`, `IssueToken`, `Install`, `Recheck`, `Launch`, `SettleReady` | `prepare`, then `_finish_runtime` and its calls, in their order |
| `Forget`, `RazeApp`, `Compensate` | `_cleanup_cancelled_result`: its calls, and its last transaction |
| `CallCleanup`, `CallUnset`, `CallStop`, `SettleCall` | `_cleanup`, `_cleanup_bootstrap`, the stop, and their settling |
| `Claim` to `Refuse`, `Reboot` | the runtime's bootstrap against `BootstrapService.claim` and `activate`; its two writes of the manifest; a start on a volume that has one |
| `Die`, `Expire` | a kill of an actor, the end of a token |

### Bindings

A sender is its canonical identity; `bare` marks a row an older version stored in
another spelling.  One gateway channel stands for all of them, web is the other.

| State | Code |
|---|---|
| `rows` | `channel_bindings`; `pub` is `published_revision` |
| `code` | `channel_binding_challenges`, with the owner's rows it was issued under (an observation) |
| `step`, `home`, `flow`, `job` | the verified primary channel; household and workflow; the open rollout |
| `plan`, `served` | the pairs of the last manifest planned, and of the last activated |
| `late` | the manifests of failed rollouts whose token lives: `Fail` leaves the token of a rollout that reached the provider |
| `ahead` | observation: the pairs a late activation published beyond its manifest |

| Actions | Code |
|---|---|
| `Issue`, `Redeem`, `Expire` | `issue_challenge`; `verify_binding_challenge`: the answer, the row, the revision and the rollout, one transaction |
| `VerifyChannel`, `Roll`, `Reset` | the planner at the end of the channel step (`ensure_owner_binding`, then `ensure_owner_web_seat`), `roll-runtime`, `reset_from` |
| `Touch`, `Activate`, `Fail` | a rollout reaches the provider; publishes; fails, with what `_restore_settled_household` gives back |
| `ActivateLate` | the same transaction of `BootstrapService.activate` for the machine of a rollout that failed: it asks for token and revision, not for the job |

### Gateway

A row of the log is a message, so rows are keyed by message; time is two facts
about a row: its backoff has passed (`due`), its day has passed (`aged`).

| State | Code |
|---|---|
| `wal` | `GatewayStore`: household, attempts, whether the row was authenticated when written (`proven`) |
| `web`, `red` | the WSGI thread; the redelivery pass, with the copy of the rows it read |
| `answers`, `holder`, `keyed`, `enabled`, `up` | the control plane answers; who holds the sender; derived relay keys; the brake; runtimes that answer |
| `inbox` | what each runtime's event store took |
| `acked`, `accepted`, `fate`, `tries` | observations |

| Actions | Code |
|---|---|
| `Arrive`, `Refuse`, `LookupRoutes`, `LookupDenies`, `LookupFails`, `WebCheck`, `WebDelivers`, `WebFails` | `GatewayApp._webhook`, `handle_webhook`, `route`, in the order of their checks |
| `Begin`, `Pick`, `Judge`, `RedDelivers`, `RedFails`, `Stumble` | `run_once`, `_process`: expiry, key, route, signature, brake, delivery; a row that raises |
| `Outage`, `Rebind`, `Brake`, `RootInstalled`, `Runtime`, `Backoff`, `Ages`, `Crash` | the world |

### Backup

A file is what it holds: a revision of the schema and a set of writes; the log
holds the frames since the last checkpoint, and opening a database beside a log
replays it.  Three bundles: canonical, candidate, and the name a rollback moves
the superseded one to.

| State | Code |
|---|---|
| `disk` | database, log (`-wal` with `-shm`) and pause marker of each bundle |
| `kept`, `boots`, `due` | pre-migrate and operator's archives; boot archives, oldest first; the interval has passed |
| `release`, `svc` | the deployed image; where the entrypoint and `serve` are |
| `task`, `stage`, `read`, `moved`, `stuck`, `report` | a restore or rollback: its next file operation, what it read first, its journal of moves, its outcome |
| `acked` | observation: writes committed |

| Actions | Code |
|---|---|
| `Boot`, `TakeSnapshot`, `Migrate`, `ArchiveAtBoot`, `Serve`, `Commit`, `PeriodicArchive`, `Stop` | the entrypoint (`db.main`), `_serve`, the worker loop |
| `Tool`, `OperatorBackup`, `Resume` | commands of `cli.py`; `Tool` takes no lock |
| `RestoreBegin` to `RestoreEnd` | `restore_backup`, one file operation each |
| `InstallBegin`, `MoveAside`, `NothingRemains`, `MoveIn`, `Verify`, `Undo`, `Failsafe`, `UndoEnd` | `install_rollback`, one move each, and its reversal |
| `Crash`, `Deploy`, `FreeTarget` | the Machine; another image; the operator's `rm` of a bundle, some time after an archive of it |

An entry of a directory that was not synced survives a crash or not; losing the
last one is the crash one step earlier, so it has no action of its own.

## 4. What the runs show

| Run | Instance | Shows |
|---|---|---|
| `contour` | 1 approval, any of 7 cards, 2 processes, 3 people, 1 kill, window of 1 wrong attempt | no call without a yes, one attempt, the record before the action, an honest journal, a fact needs a yes; refinement of `HumanYes` |
| `serial` | 2 approvals, a card of two items or a plain reminder, 1 process, 2 kills, a list of 1 stale row, fairness | verdict and journal agree and make one reminder; an accepted approval is settled in the end, unless it is crowded out |
| `queue` | 3 letters (2 in a thread) with handlers within their leases, and 2 letters with slow ones and a replay; 2 workers, 1 receiver, 1 kill, erasure, fairness | order within a thread, done means shown, an erasure leaves only what was on its way, refinement of `Inbox`, every letter settles |
| `relay` | 12 plans: up to 2 letters (one with attachments) or a confirmation, 3 checks in 3 days, 2 faults, 2 flips of the switch, a recheck, a new revision; fairness | a webhook settles only over what it was for and a letter is one event; stale is earned, and an outage is noticed; every row leaves |
| `reminders` | 2 reminders (one replaces the other), 1 tick, 1 scheduler, 2 days of two moments, leases of one moment, 2 faults, fairness | silence after cancellation, one date, rings and digests accounted for, delivery in the end |
| `provisioning` | 10 households (3 of them with a namespace to make), 1 or 2 attempts, up to 4 commands, 1 worker, 1 operator, at most 1 fault, fairness | what is called deleted is gone, an erasure leaves neither mailbox nor app, a verified mailbox works, no mailbox and no app is lost sight of, disconnections end |
| `rollout` | 6 households, up to 3 revisions, 2 members, 1 worker, 1 operator, 1 runtime, at most 1 fault, fairness | who is published is served, who is served is current and consented, nobody tears down what serves, a rollout ends |
| `gateway` | 2 messages (one from a log of an older version), 2 households, 1 crash or rebinding, outages, brake, keys, fairness | to whom it was accepted, what was acknowledged is kept, every row leaves |
| `bindings` | 2 households, 4 senders (one in an old spelling), 2 rooms, 2 codes, 1 reset, failed rollouts that come up late, fairness | one holder per sender, nothing routed that is not authorized (but `ahead`), no stale invitation, a staged member is published or freed |
| `backup` | 6 scripts of restores, rollbacks, releases and lock-free commands, up to 4 faults, 2 writes, fairness | generations mix only as reported, a migration has its snapshot, what loses a write, a rollback is whole or reversed |
| `provisioning_delete`, `rollout_teardown` | the smallest instance of each | a disagreement between the code and its documents (section 6) |

Every property has a mutant: the change of one definition, as a plausible bug
would make it, that the run of the property finds.

### Bounds, and why they are enough

* One approval in `contour`: the processes interfere only over the rows of one
  approval and over its fact (every statement of `approvals.py` and `effects.py`
  selects by approval or run id), except for toggles, which stage a second card:
  `serial` has two.
* Two processes: the races are between a reader and one writer; the third person
  in `contour` is one without the right to send, and one from another chat.
* One kill in `contour`, two in `serial` (`MaxCrashes`): a kill may happen between any
  two actions; the theorems of section 5 hold for any number.
* `StaleLimit` stands for the 50 of `EffectJournal.stale`.  With one in `serial`, one
  row of an item that was cut off fills the list: the approval it crowds out takes a
  second kill.  Without the exception (`Crowded`) TLC finds `ClaimedSettles` violated.
* `LeaseFor = 1` and `LastMoment = 3` in `Reminders`: a lease of one moment is over
  when the clock moves, so every round of the scheduler that goes on after it claims
  with a lease that is over, and the tick may take the same reminder: two rings
  without a fault, three with one, are both reached.
* `FailedMax = 1` closes the window after one wrong attempt, so that the limit
  and its overrun are both reached.
* `MaxAttempts = 2` in queue, relay and gateway: one failure returns a row, the
  second gives it up.
* `MaxReceipts`, `MaxFaults`, `LastDay`, `MaxDay`, `MaxCheck`, `MaxRev`,
  `ResetMax`, `TokenMax`, `IdMax` bound what the environment does; each is in the
  guard of the action it bounds.
* `Plans`, in the larger modules: all commands at once are out of TLC's reach, and
  a constant of several households (or queues, or operators) replaces several
  runs.  A plan is chosen in the initial state and no action changes it.  Each has
  the commands that interfere:
  * `Provisioning`: two attempts, one after the other, undone in each of three
    ways (`Changing`); a domain that is polled and checked (`Waiting`); the kill
    switch in the middle (`Braking`); the synthetic provider, which passes the
    consent gate after a withdrawal (`Synthetic`); refusals half way (`Refusing`);
    an erasure after a cancellation (`Leaving`) and after a withdrawal (`Erasing`);
    a namespace still to be made, by a household that is cancelled or erased
    (`Founding`), that tries again (`Retrying`), or that cancels with a mailbox
    selected (`Quitting`).
  * `Rollout`: three revisions of a household that adds members, with one fault or
    a provider that refuses (`Growing`), which leaves a revision to plan after a
    rollout that was given up; the same with the sweep (`Drifting`); a retired
    binding (`Turned`), a withdrawal (`Withdrawn`), a reset (`Undone`), a
    cancellation (`Cancelled`).  `Undone` has no fault: with one, a tear-down that
    recorded no machine takes the next revision's (section 6), and neither
    `NeverTornDown` nor the service half of `ActiveIsServed` holds.
  * `EventQueue`: handlers within their leases, where order and the refinement
    hold (`Orderly`), and slow ones with a replay.
  * `Relay`: faults around each kind of message; a switch turned off, and on
    again, around up to three checks; a recheck; a revision that comes meanwhile.
  * `Backup`: what the runbook (`docs/control-plane-restore.md`) tells an operator
    to do, with a fault at any file operation, a second where the reversal may fail
    too, and four where a crash leaves a log behind before the rollback that fails.
    With two, weaker properties held, which the proofs refuted: a log found astray
    survives a reversal, and the second name of a log may be the last.
* `TryMax = 2`: one limited answer puts a job back, the second fails it.
* One fault and one operator in `Provisioning`: what takes two faults (`Undermined`,
  `WrittenOff`) or two operators was met in the proofs, which have any number of
  faults, and is in section 6.
* `FaultMax` in `Gateway` bounds crashes and rebindings; the outages, the brake and
  the runtimes that go away are not bounded.
* `Retain = 1` in `Backup`: the second archive rotates the first out.
* The cards of `MCPipeline` are those `items_for`, the tools and the console make:
  mixed, local, outward only, empty, and single proposals of each kind.

`TypeOK` of each module describes its variables; it is proved for `Pipeline`,
`Gateway`, `EventQueue`, `Reminders`, `Rollout` and `Backup` and is not among the
properties of the runs.  `WriteAhead`, `NoSecondHand`, `ItemsAreFresh` and
`StatusMovesForward` of `Pipeline`, `OnlyGenuine` and `AttemptsAreGenuine` of
`Gateway` are proved for every instance and not run.

Deadlock is not checked in runs whose bounds exhaust the environment (a letter
is delivered finitely often, a script of commands ends): the system is then at
rest.  `Reminders` always has a round to begin, and its run checks deadlock.

### Fairness

* `Pipeline`: weak fairness of a process' own steps (a running process runs),
  strong fairness of `Scan` because `listen` reconciles on every round before it
  takes presses (`cli.py`, `cmd_listen`), weak fairness of the clock.
  None of presses, kills or new letters.
* `EventQueue`: workers and receivers run, leases end.  None of replays or kills.
* `Relay`: the worker's loop runs (`run_nerve_once` is called again and again),
  leases end.  None of letters, switches, checks in the mail, or the clock of
  the checks.
* `Reminders`: the clock runs, rounds are begun again and again (`cmd_tick` is
  called by a timer), a running round goes on.  None of faults.  A tick sends and
  marks one reminder within its 120 s (`InTime`); nothing is assumed of how long a
  round of the scheduler takes.
* `Provisioning`: the worker takes jobs and goes on (`drain` in `_serve`), strong
  fairness of a job other than the namespace's, because one that is put back
  waits for its `not_before` while others are taken; the operator goes through
  what is of unknown outcome (`cli.py`, `reconcile`, by hand), except tear-downs
  of an identity already finished, which fail every time, and except jobs that
  make a namespace, which the host may limit on every call; `resume_pending` is
  called again and again.  None of commands, kills or losses.
* `Rollout`: the same worker and operator, job by job; the runtime goes on with
  its bootstrap (the provider keeps a machine running); a token's time passes.
* `Bindings`: a rollout reaches the provider and ends.  None of people, nor of
  machines that come up late.
* `Gateway`: a request and a pass that began go on, the scheduler begins another
  pass after each (`RedeliverScheduler.run_forever`), and time passes for every
  row.  None of outages' ends: a row leaves by its age if by nothing else.
* `Backup`: the service and a running command go on; none is needed by the
  properties, which are all of safety.

## 5. What is proved

`PipelineProofs` proves, for any approvals, processes, people, rights, facts,
cards and limits that satisfy the five named assumptions of `Pipeline`:

| Theorem | Says |
|---|---|
| `TypeCorrect` | `[]TypeOK` |
| `Inductive` | `[]Inv`, `Inv == TypeOK /\ Custody /\ WriteAhead /\ NoSecondHand /\ OwnRowIsOlder` |
| `RecordBeforeAction` | `[]WriteAhead`: a claim and its effect row exist together; no call without its row |
| `YesBeforeCall` | `[]NothingWithoutYes` |
| `BundlesRunOnce` | `[]ItemsAreFresh`: no bundle meets a row of another run of itself |
| `NoBlindRetry` | `[]AtMostOneCall`: an outward executor is called at most once per row |
| `ApprovalsMoveForward` | no cancelled card is claimed, no accepted one cancelled |
| `Refinement` | `Pipeline` implements `HumanYes` |

The argument.  `AtMostOneCall` is not inductive: a state in which two processes
are about to send satisfies it.  Four things together exclude that state.
`Custody` follows the yes: whoever executes, and every row a reconciler lists,
belongs to an approval that was accepted by a person with the right to all of
its parts.  `WriteAhead` ties acceptance to the journal: there is a row exactly
when there was a claim, so a second claim is impossible and a crash always leaves
a row to find.  `OneDriver` says that two processes may drive the same approval
only if its kind may be replayed.  `OwnRowFirst` says why reconcile cannot break
this for bundles: it lists the oldest rows, in order of creation; the approval's own row is
older than its items' (`OwnRowIsOlder`) and its lease ends no later, so a list that has
an item has the own row before it (`ListedOwnRow`) or finds it settled, and by the time
a reconciler comes to the item `execute` stops there.  `Untouched`
adds that what a driver has not come to, nobody has touched, from which
`ItemsAreFresh` and at most one call follow.

`GatewayProofs` proves, for any messages, households, keys, attempts and faults
that satisfy `GatewayAssumption`:

| Theorem | Says |
|---|---|
| `Inductive` | `[]IInv` |
| `TypeCorrect` | `[]TypeOK`; a row's attempts never pass `MaxAttempts` |
| `RoutedToAccepted` | `[]ToWhomItWasAccepted`: a message reaches the household it was accepted for, or none |
| `GenuineOnly` | `[]OnlyGenuine`: a runtime takes only what its own household's key signed |
| `AcceptedIsKept` | `[]AckedIsKept`: what was acknowledged is in the log or settled; what was called delivered was |
| `AttemptsMade` | `[]AttemptsAreGenuine`: a row given up for its attempts had as many |

The argument.  None of these is inductive: the redelivery pass works from a copy
of the rows it read at its start, and a state whose copy names another household
than the row satisfies them all.  `IInv` has a part for each place a message may
be.  `RowOK`: a row in the log names the household it was accepted for, and has
no more attempts than were made.  `CopyOK`: a copy a pass holds names that
household too, and is behind its row by the deferral the webhook still owes at
most, which is why the limit of attempts is never passed.  `WebOK`, `RedOK`: what
each thread is about to send, and to whom, was routed and authenticated on the
way there.  `AnswerOK`: every answer the webhook gave is backed by what the log
and the runtimes hold.  A step touches one message, so each action needs only its own
(`StepInv`, `QuietStepInv`), with one lemma per action.

The second part of `PipelineProofs`, on the journal, builds on `Inductive`, under
the same assumptions:

| Theorem | Says |
|---|---|
| `JournalIsHonest` | `[]HonestJournal`: "failed" did not arrive, "done" did; an outcome is told over a settled row |
| `FactsHaveAYes` | `FactNeedsYes`: a fact is confirmed only by a yes, and only while it is a hypothesis |
| `VerdictAgrees` | `[]VerdictMatchesJournal`, when there is one process |

The argument.  A reconciler may settle a row while its executor is still on the
line, and the executor then writes its own result over it (`_settle` asks
nobody).  `SentOK` says why that does not lie: a result a process holds agrees
with what reached the world, a row called done or failed has been called for, and
`Untouched` forbids a second call, so nothing can change the truth of a result
after it was obtained.  `ToldOK` follows a verdict to the message: `fact`,
`confirm`, `mark` and `tell` come after the own row was settled, also for a
reconciler that gives up an item (`OwnRowFirst`), and no claim takes it back.

`VerdictAgrees` assumes `OneProcess`: `listen` and `worker` run in one process
(`cli.py`, `cmd_listen`) and nobody gives a console command meanwhile.  With a second
process TLC finds it violated: a reconciler settles a row behind the back of the
executor that writes the verdict.  `SerialInductive` is its invariant.  What the
process knows agrees with the rows: what it has listed as stale is still pending
(`Listed`); while it executes, its own row is pending and the items behind it are
done unless one failed (`Driven`); the verdict it is about to write is the row's
(`Concluded`).  A crash keeps all three, since nothing is in hand after it; the
rows alone keep `OwnDone` and `VerdictIsOwn`.  That no row is lost in a toggle
needs `RowsShown`, only parts a card shows have rows.

`EventQueueProofs` proves, for any letters, threads, workers and receivers that
satisfy the assumptions of `EventQueue` (the receivers are finitely many):

| Theorem | Says |
|---|---|
| `TypeCorrect` | `[]TypeOK` |
| `DoneMeansShown` | `[]DoneWasShown` |
| `ErasureStays` | `[]ErasureHolds`: at most one letter per receiver comes back; of an erased letter, who was about to send sends once |
| `ThreadsInOrder` | `InOrder`, when there is one receiver |
| `ImplementsInbox` | `EventQueue` implements `Inbox` |

The argument.  `HandOK`: what a worker has passed is recorded, so that even a
worker whose lease ended, or whose row was erased, marks done only what was shown.
`LeaseOK`: while leases outlast their handlers, a letter at work is leased, and to
one worker; this is what the refinement and the order need.  `ErasedOK` counts:
after an erasure the rows that are there and the receivers that still hold a
letter are together no more than the receivers, because each has read the
tombstone at most once before the wipe.  `LateOK` is the same for the handlers: one
that the erasure found about to send is there still, or has sent its one message, and
no other comes to the sending of a letter whose row is gone, since staging it fails.  `ClockOK` and `ThreadOK`: with one
receiver nothing older is still to be inserted, so what is at work in a thread is
the oldest of it.  With two receivers the order is not kept: one may insert,
after the other, what it received before it.

`RemindersProofs` proves, for any reminders, replacements, processes, days and
faults that satisfy the assumptions of `Reminders`:

| Theorem | Says |
|---|---|
| `TypeCorrect` | `[]TypeOK` |
| `OnlyOneDate` | `[]OneDate` |
| `EveryRingIsAccounted` | `[]RingsAreAccounted`, when there is one scheduler (any number of ticks) |
| `SilentOnceCancelled` | `CancelledIsSilent` |

The argument.  `LeaseOK`: what a deliverer has in hand is leased until its moment's
lease ends, or over.  `PairOK`: a tick ends before its lease does (`InTime`), so a
reminder is in two hands only where one of them is a scheduler whose round has
outlasted the lease, and that reminder is `overtaken`.  `RungOK`: a reminder that is
not over has rung at most once per fault and once for each deliverer who has only its
mark before him; one that is over, once, or twice if it was overtaken, besides its
faults.  `FormerOK`: the former version of a reminder is over
before the newer is written.  `DayOK`, `DigestOK`: a scheduler writes the day down
before it posts; two of them could both read the old mark, so one is assumed.

`ControlPlaneProofs` proves, for any households, senders, rooms, codes, limits and
moves that satisfy `BindingsAssumption`, whatever rows an older version left:

| Theorem | Says |
|---|---|
| `RoutableMeansAuthorized` | `[]RoutableIsAuthorized` |
| `OneHolderStays` | `OneHolder` is kept by every step, so it holds wherever it held at the start |
| `NoInvitationGoesStale` | `NoStaleInvitation`, when the rows an older version left are members (`OnlyMembers`) |

The argument.  A plan only adds rows of its own household, and staged ones
(`PrimaryGrown`, `SeatGrown`, `IssuedGrown`, `AnsweredGrown`), so a published row
stays as the last activation left it (`ServedOK`).  A late activation
serves an older manifest and publishes rows it does not name: those are `ahead` until
the next activation.  `LateOK` says that nothing else is: each manifest that may still
come up late lists every row published now, for no row is published between the
failure of its rollout and the next activation, which takes its machine.  An activation publishes what
the open plan lists, and `PlanOK` says that the plan lists every row of its
household, although rows came and went since it was made: whatever adds a row
plans anew in the same transaction, and the failure that withdraws rows closes
the job.  For `OneHolder` a new row needs an empty `Holders` (`Single`), and the
member it stages is in a household that is being rolled out (`Awaited`), which
leaves that state by publishing or withdrawing it.  `NoStaleInvitation` rests on
`Orderly`.  An owner sits at one web seat under the sender of the primary channel
(`Arranged`); a household with an owner has the owner its step was verified for, so
a redemption plans without moving anyone (`Held`); an open code was issued under
the places that still stand (`UnderOK`).  A plan that moves the owner leaves
exactly the rows of the new owner (`FreshOwners`) and drops the codes of the old;
one that does not may renew the web seat but leaves its place (`IssuedUnmoved`).
The hypothesis is needed: an owner row no step has verified, or one in an old
spelling, makes the next redemption retire the member it has just verified
(section 6).

`RelayProofs` proves, for any letters, confirmations, attempts, revisions, days
and plans that satisfy `RelayAssumption`:

| Theorem | Says |
|---|---|
| `SettledRowsAreKept` | `[]SettledIsKept` |
| `StaleForwardingIsEarned` | `StaleIsEarned` |

The argument.  That a row is settled only over what it was for is lost between two
steps if the worker forgets what it has done, so `HandOK` says of each step what is
behind it: from the receipt on the letter is an event (`IsEvent`), at the diversion
of a confirmation its link is kept.  `EventsOK` says that events are letters, each
once, and that a receipt is of an event, which is what lets `Ingest` skip the
append.  `EntryOK` says what each state of a row rests on; `LetterAfter` and
`DivertAfter` are the order of the steps.  A health row is written over by seven
steps and none loses a link (`LinksKept`).  For `StaleIsEarned` the counter of
misses must be tied to the checks it counted: `Tally` says that it never passes
their number, that the check in hand is one of them and not counted yet whenever
the tick would count it, and that none of them is younger than the last check sent
(`TokenGrows`), so the next is not among them.  `StaleOK` carries that from the
count to `mark_stale`, two steps later; `LateOK` says that only a check is late.

`RolloutProofs` proves, for any number of revisions, tokens, machines, members and
faults that satisfy the three assumptions of `Rollout`, and for every plan: all
commands at once, a provider that refuses, one that shows a machine late:

| Theorem | Says |
|---|---|
| `RolloutInductive` | `[]IInv` |
| `PublishedServed` | `[]PublishedIsServed`: who is admitted was published by a revision that went live and names them, or was given up; one rollout at most is under way |
| `LiveIsConsented` | `[]Consented`: what is live was consented to, in the cycle there is now |
| `TypeCorrect` | `[]TypeOK` |
| `StopsOnlyItsCycle` | a stop suspends only a runtime whose consent was withdrawn (the second half of `NeverTornDown`) |
| `CalmIsServed` | `[]ActiveIsServed`, of a calm household |
| `CalmNotTornDown` | `NeverTornDown`, of a calm household |

A household is `Calm` when nobody starts it over (`Reset`) and its provider shows a
machine it has created.  Both are needed: with a slow provider the run
`rollout_teardown` takes the serving runtime down, and after a reset a late tear-down
may (section 6).  Members, drift, the sweep, a withdrawal, a cancellation, refusals
and any number of faults are in; of the households of the run only `Undone` is not
calm, and for it both properties are model-checked.

The argument.  `PublishedIsServed` looks back from a published row and says
nothing of the rows an activation will publish.  `Waiting` does: whoever is staged
is named by every revision that may still go live, unless that one was given up
(`Over`).  A new member breaks this unless what may go live has been replaced by a
plan that names them, and `schedule_runtime_rollout` plans only when no job is
under way: hence `OneAfloat`, and `Before` and `After`, which tell from a job whether
its revision may still go live.  A run that was given up must stay so: `InHand` says
that nobody can find it unknown again.  While the revision that serves has
a job that is not settled, the machine is not of one that could replace it
(`NoRace`), so what is replaced is settled.  `Gated` and `Own` follow the consent:
a withdrawal or a return to the steps leaves nothing that may go live, and a new
cycle begins from there.  Each action falls under one of five kinds of step (an
actor's step, a job taken, a household undone, a new revision, an activation), and
the invariant is proved once for each kind.

`Stops` is of every household: a stop there is, or one being delivered, names a cycle
that is over, because cycles are counted and a new consent opens the next.  So is
`OnDisk`: the volume is of the machine's revision from the moment the runtime wrote
its manifest until the machine is replaced, which starts the runtime again.

That an active household is served rests on `Course`, the ordinary course of events.
Every job under way is of the newest revision, which is current, and the household
waits for it, or is served by it and has only its job to settle (`Flight`); so no
actor finds its revision unwanted and none ever compensates (`Hands`): nothing that
tears down is made or in hand.  This needs to know what each step may rely on
(`Places`): before the launch, and when the provider answers that a machine is
pending, the machine is not of the revision, and the second is where a slow provider
breaks the argument.  `Touches` says that a machine is of a revision whose row there
is, and of a bound household; `Spends` ties activation to token and job.
Then what serves is the newest revision that went live, on its own machine, unless a
newer one has touched the provider (`Serves`); that one is either in flight, and then
the household is not active at the older, or was given up, which the property
excludes by name (`Afoot`).  `Course` ends for good when a revision that was given
up goes live all the same, when consent is withdrawn from a household that was
served, or when onboarding is cancelled.  So it is asked of a household that is
still `Quiet`, and the proof needs in addition that what is not quiet never is
again (`CourseEnds`).

`ProvisioningProofs` proves, for any number of attempts, tries and faults and for
every plan that satisfies the three assumptions of `Provisioning` (all commands at
once, providers that refuse half way, polled domains), when one operator reconciles:

| Theorem | Says |
|---|---|
| `ProvisioningInductive` | `[](astray = {} => Inv)` |
| `NothingLeft` | `[](astray = {} => NothingIsLeft)`: what is called deleted or erased is gone, mailbox and app |
| `VerifiedServed` | `[](astray = {} => VerifiedIsServed)`: a mailbox the family was shown exists, with the key the runtime has |
| `NoneIsLost` | `[](astray = {} => NeverLost)`: what exists is led to by an open row or an open job |

The argument.  The three properties hold of the database and the provider at rest;
what breaks them is an actor who has read one and is about to write the other.
`Kept` is the centre: what is at the provider has a row that is not deleted, or a
step job that runs or whose outcome is open.  A step job may be closed, put back or
refused only over an open row (`Safe`), so `Claims` says what each actor may
conclude from its answer: a refusal, an absence and a tear-down that came back mean
that nothing is there, a cancelled job in hand that a row is.  `Parents` says it of the
jobs a tear-down closes besides its own.  That such a conclusion is still true when
it is written needs `Hands`, `OneOpen` and `Untouched`: while the house is open there
is one attempt that is not settled, it is in one pair of hands, and the tear-downs of
earlier ones touch neither its mailbox nor its job.  These fail as soon as the
household is being erased (the operator then takes what the worker holds), so `Inv`
asks them of an open house only, and what is called for after that is `astray`.
`Served` needs in addition that whatever is live is wanted (`Wanted`) and that a
secret is deleted only while its mailbox is leaving (`Secrets`).  For the app,
`Makers`: the last of the jobs that make it is the only one that may be open, and
an app that exists is on record or being made.  `Erasing` compares what an erasure
has read with what there is when it ends, and `Gone` is what it leaves: late actors
find no job, write nothing, and what they still make is `astray`.  The actions fall
into few kinds (`Writing`, `Calling`, `Razing`, `Sweeping`, ...; a new attempt,
`Beginning`; a disconnection, `Leaving`), whose effects are proved first; each part
of the invariant is then proved once for each kind.

`OneOperator` is needed: two operators who reconcile one job at once are answered
one after the other, and the second tears down what the first has verified
(section 6).  So is `astray = {}`, which the runs ask only of the mailbox in
question: that a mailbox left behind harms no other is model-checked.

The second half of `ControlPlaneProofs` proves, for any writes, bundles a restore may
be asked to write and retention of archives that satisfy `BackupAssumption`, and for
every plan, with any number of commands and faults in it:

| Theorem | Says |
|---|---|
| `BackupInductive` | `[]BackupInv` |
| `BackupTypeCorrect` | `[]BackupTypeOK`; no more boot archives than `Retain` |
| `MixedHolds` | `MixedIsReported` |
| `MigratesHolds` | `MigratesFromASnapshot` |
| `LossHolds` | `LossNeedsAnOrphanLog` |
| `InstallHolds` | `InstallIsAllOrNothing` |

The argument.  A rollback is up to six moves, each with a fault and a
crash after it, and commands that take no lock may write the canonical bundle
between any two; the properties speak only of its first state and its last.
`BackupInv` says where every file is in between.  `JournalOK` orders the journal by
`Rank`, so that whatever is undone next came last, and says that a second name can
be only its last entry.  `SourceOK` and `AsideOK` follow the members of the
candidate and of the superseded bundle through their moves, and `LogOK` the file
that may do harm, the log beside the canonical database: it belongs to the
generation that is being moved, or is gone.  `LinkOK` says what a second name is a
copy of.  `SupersededOK` says where the superseded generation is: at the canonical
path with all it held (`HeldLive`), until its database was moved, and from then on
aside (`HeldAside`), with its log aside, in the database, or still behind; a command
that opens the empty path meanwhile drops that log, and leaves a database
(`Foreign`) which keeps the reversal from ending whole.  All of these hold of a
reversal while it is not `stuck`; one that is says so in its report.  `HoldersOK`
says that the service is not connected meanwhile, which is why only a lock-free
command can write there, and `ConnectionKeeps` that such a command loses nothing
unless it finds a log without a database.  `SnapshotOK` is of the entrypoint: between
its snapshot and its migration the database may be written to, but then by a command
that migrates it first.

`LossHolds` names four ways in which a committed write leaves the machine.  Three are
of the moves above: a log without its database, the second name of such a log, a
candidate at a crash.  The fourth is the operator's: `FreeTarget` deletes the database
some time after it was archived, and what a command without the lock wrote in between
is in neither (`WrittenSinceArchived`).

With few faults in each plan, the run had agreed with properties that do not hold;
the steps the prover refused were behaviours with three and four faults, and the run
now has plans that reach them.  Generations may lie mixed without a report where a
crash came, or where the rollback had found them so; a log's second name may be its
last; and something may lie aside although nothing was superseded.  Of the snapshot
before a migration more holds than was checked before: it is the database as it was,
also after a command that took no lock.

Only model-checked: liveness (`ClaimedSettles`, `EveryLetterSettles`,
`RingsInTheEnd`, `Disconnects`, `RolloutEnds`, `EveryRowLeaves`, `StagedSettles`,
`EveryWebhookSettles`, `OutageIsNoticed`), which is out of reach of the prover;
`TypeOK` of `Relay`, whose bounds the proofs do not need; the service half of
`ActiveIsServed`, and that the serving machine is not taken away, for a household
that is started over without a fault; `Provisioning` beside a mailbox or an app that
is `astray`, and its `TypeOK`.

## 6. Where the code and its documents disagree

With a run that shows it:

* `provisioning_delete`: an erasure does not count a running job that a rate
  limit put back to pending (`delete.py:301`, `worker.py:477`); the call it is
  leased for again may make a mailbox as the rows are deleted (against
  `docs/privacy/dpia.md:64`).
* `rollout_teardown`: a lost launch, a machine that had not started when the
  operator reconciled, and an activation meanwhile: the job then finds the
  household active, takes it for a cancellation and destroys the runtime that
  serves (`worker.py:3170`, against 2246 and 2290).

Found while modelling; each is a few steps long in the module named.

`Pipeline`:

* A crash during an item of a bundle leaves that item's row pending for ever: the
  replay of the item stops at the settled row of the approval
  (`pipeline.py:641-645, 1047`, against `src/README.md:63`).
* Such a row stays on the list of stale rows for ever, and the list has the 50
  oldest (`effects.py:236-239`): with fifty of them no later effect is reconciled.
  `ClaimedSettles` excepts it by name (`Crowded`).
* A toggle ignores the result of its cancellation (`pipeline.py:938`, against the
  docstring at 917); a second process may have claimed the old card.  No property
  states the docstring: with one process nothing comes between, with two it is false.
* A crash between `outcome_unknown` and the message about it leaves the family
  untold (`pipeline.py:1050-1054`, against `docs/restore.md:55`).
* A crash between `effects.complete` and `approvals.mark` (`pipeline.py:717-719`)
  leaves an approval claimed for ever.
* Two processes reconciling the same stale reminder look it up before either
  creates it: two reminders (`pipeline.py:741-746`, against `reminder.py:143`).
* `PayloadTampered` is raised inside the transaction of the claim, which rolls the
  mark of failure back with it (`approvals.py:234-240`).

`EventQueue`:

* `append` reads the tombstone outside its transaction (`events.py:102, 110`,
  against the comment at 103): what was being inserted during the wipe comes back.
* A handler that outlives its lease of 300 s: two workers in one thread
  (`events.py:149`, against `events.py:11`), and its late `mark_failed` returns a
  letter that is done; neither settling method asks who holds the lease.
* A handler that has staged its card sends it without looking again
  (`pipeline.py:438`): a message about a letter that was erased meanwhile, with buttons
  that find nothing.  `ErasureHolds` allows one from each handler that was about to
  send when the erasure came, and none from any other.
* A worker killed between the card and `mark_done`: a second card
  (`pipeline.py:422`, `worker.py:77`, against `events.py:3`).

`Relay`:

* The number of a check restarts with each configuration revision
  (`forwarding.py:486`), and the token is made of date and number: the first check
  of a revision deployed on a day that had a first check already has a key the
  provider knows, nothing is sent, and the check is missed (against the docstring
  of `check_token`, 347-353).
* An answer lost after `compose`: the token was not recorded, the check that
  returns is not recognised, the retry is a known key again, and a check is missed
  (against `forwarding.py:59`).
* The guide of a confirmation is marked shown before the reply reaches the owner,
  and shown again after a crash between `record_confirmation` and `mark_diverted`
  (against `_forwarding_guide`, "shown to the owner exactly once").
* A multi-part letter rebuilt after a crash between receipt and
  `mark_materialized` has a new MIME boundary, another digest, and its webhook
  ends in the dead letters although the letter is an event.
* A recheck asked for between `compose` and `record_check_sent` is erased by the
  latter.
* A crash between `count_miss` and `mark_stale` costs one more missed check
  (`forwarding.py:455-460`): `OutageIsNoticed` says so.
* A new revision begins at `pending`, which is never declared stale: an outage that
  begins right after a rollout is not noticed.
* Attachments still pending after five attempts, two seconds apart, send a letter
  to the dead letters, from which nothing takes it back.

`Reminders`:

* A deliverer killed between the message and its mark: the reminder rings twice
  (against `reminder.py:5-6`); one crossed out during its send rings, and is
  marked delivered (`reminder.py:117`).
* The scheduler claims all reminders of a round at the time the round began
  (`scheduler.py:62-68`, `reminder.py:113`): after 120 s of a round, each lease is over
  when it is taken, and `cmd_tick` rings the same reminder, with no fault at all
  (against `reminder.py:5-6`, "не теряет и не дублирует").  `RingsAreAccounted` counts
  those reminders (`overtaken`) and says that they meet no other cause.

`Provisioning`:

* A lost answer after a withdrawal overwrites the quarantine of its job
  (`worker.py:2502`, against `onboarding/service.py:1261`); reconcile then refuses
  it for the withdrawn consent, and the identity is finished as deleted with its
  mailbox (`astray`).
* A provider that refuses a call half way through what it makes
  (`nerve_managed.py:133-206`) leaves objects that no row names (against
  `onboarding/service.py:1222`, "A pending job has never crossed the provider
  boundary").
* A tear-down that runs after its identity was finished can no longer delete a
  secret (`worker.py:3556-3566`): it ends `outcome_unknown` every time, and an
  erasure, which counts such jobs, never completes.
* `_cleanup_cancelled_namespace` closes a job by the status it read before its
  call (`worker.py:2723`), and a job whose retry is refused is failed although an
  earlier, lost call may have made the app (`worker.py:500`): the app is then
  found again only by its stable name.
* `resume` writes back the states it read before its calls: a row the worker has
  marked meanwhile is overwritten (`delete.py:349`), also with "deleted" over a
  mailbox that a call has made again since (`WrittenOff`).
* Nothing keeps two operators from reconciling one job: the second finds it
  succeeded, `_finish_step` raises `_ProjectionCancelled` (`worker.py:2787-2791`),
  and the compensation tears down the mailbox the family has just been shown as
  verified.  The proofs assume `OneOperator`.
* A tear-down deletes the mailbox, then writes down that it did
  (`worker.py:3483-3508`); a call for the same mailbox that comes in between
  makes it anew, under a row that is then marked deleted (`Undermined`; it takes
  two faults).
* The key of an identity that was never verified stays in the namespace until
  the next installation or the end of the namespace: only `mark_verified` records
  the binding a tear-down looks for.

`Rollout`:

* A rollout that was given up can come up all the same: marked failed by a refused
  inspection or by its deadline while the machine starts, it leaves its token live.
  Against `worker.py:2536` ("will never activate").  Three things follow once a
  later revision is planned, and the properties of the run leave them out by name:
  * Activation publishes every staged row of the household (`bootstrap.py:452`), the
    member staged for the next revision too (against `bindings.py:620`): the
    `GivenUp` in `Served`.
  * A later rollout refused before it touched the provider puts the household back
    to `active` at the revision that serves, while the machine has the one between:
    `_restore_settled_household` asks `external_resources` for its own revision only
    (against `worker.py:3005-3011`, "falsely `active`"): the `Afoot` in
    `ActiveIsServed`.
  * The late activation moves `current_config_revision` back; the job of the newer
    rollout is then not current, compensates, and takes the runtime that serves
    (against `rollout.py:86-91`): the `Afoot` in `NeverTornDown`.
* A rollout undone before its app has a volume is inspected for ever, and its job
  never closes (`worker.py:2304`, `fly.py:796`, against
  `docs/onboarding-runbook.md:334`).
* A late tear-down that recorded no machine destroys by the stable name, which the
  next revision's machine has by then (against `docs/onboarding-runbook.md:391`).
* A late answer overwrites the quarantine of a rollout, as in `Provisioning`.
* A consent marker stays on a volume that is used again after a new consent.

`Bindings`:

* `ensure_owner_binding` retires all owner rows, so `ensure_owner_web_seat` finds no
  seat and mints the room of the new actor (`bindings.py:591`, `planner.py:168-181`,
  against `bindings.py:482-490` and
  `src/tests/control_plane/test_channel_bindings.py:2874-2889`).
* The late activation of a failed rollout (under `Rollout`) publishes a member who was
  staged for the next revision, while the runtime that serves has a manifest without
  them (`bootstrap.py:469`, which never looks at the job): the `ahead` in
  `RoutableIsAuthorized`.
* `ensure_owner_web_seat` does not look for a foreign holder; an adult's web row
  with the owner's next sender, or a second web invitation of one account, ends in
  an `IntegrityError`; a household at its limit cannot move its primary channel off
  web; an owner row in an old spelling makes `Redeem` retire the member just
  verified; two codes for one tuple, both redeemed, plan a revision that adds nobody.

`Gateway`:

* A route that was denied because the lookup was not answered is settled like one
  that found nobody: the row is dropped (`whatsapp_router.py:684-690`, against
  343-349 and 765-768).  The model takes it (`fate` "undeliverable"), and the
  properties allow it.
* The webhook's thread and the redelivery's may both deliver one row; the
  runtime's event store takes it once.

`Backup`:

* A command without the lock, and a crash before `IncompleteReversal` pauses the
  target: a restored database without its pause (`backup.py:2259-2267`, against
  `docs/control-plane-restore.md`).
* Five commands open the database with `_container(lock=False)` and migrate it,
  without snapshot or lock (`cli.py:439, 448, 482, 500, 514`, against
  `Dockerfile:46`).
* A canonical log without its database: the next open makes a fresh database, and
  the frames are gone (against `backup.py:2184`).
* `_undo` takes a second name away when the move had not removed the first, and does
  not ask whether the first is still there (`backup.py:2385-2386`, against its
  docstring, 2351: "The generation is already back where it started").  For a log
  whose database is aside already it need not be: a command without the lock that
  opens the path in between makes a fresh database and drops the log there, and the
  second name was the last.
* What is written between the runbook's `backup` and its `rm` is lost: the runbook
  (`docs/control-plane-restore.md:258-282`) compares nothing, it stops the service only,
  and the lock-free commands above may write there (against its step 1b, which calls the
  archive "the only copy of every write made since the pre-migrate snapshot").
* A boot archive that was rotated out while a restored candidate still held it: a
  crash that takes the candidate takes the last copy.
* The rotation of boot archives may push out the last good one.

## 7. What is not modelled

Whole components, with their reasons also in `PROJECT.json`:

* *Sending of e-mail* (`execute/email_send.py`, `email/`): a store of its own with
  one call behind it; `Pipeline` has the executor that calls it.  Two concurrent
  `send_notice` of one id would be worth a module.
* *Channels, model dialogue, extraction, tools*: transport and data.  What a
  language model answers is input everywhere; `forwarding_recheck` is in `Relay`.
* *Onboarding's forms, privacy texts, export, accounts, sessions, HTTP*: requests
  over a row.  The commands of onboarding that touch jobs are in `Provisioning` and
  `Rollout`.
* *Runtime readiness monitor*: one read and one update a minute.
* *Retention and local backup* of the runtime: a date filter and file copies.
* *Fakes, landing, brand, web assets, bench, scripts*: no state of the system.

Left out of the modelled components:

* `Pipeline`: the wipe proposal (its effect is `Erase` in `EventQueue`), tampering
  with a stored payload, codes typed by hand (`claim` by code ends in the same
  transaction), `extend_lease` and `expire_stale` (nothing calls them), a row of
  effects that is missing at `execute`, version chains and matching.
* `EventQueue`: what a letter says and how it is parsed; tools called in a
  dialogue (what they stage is `Stage` of `Pipeline`).
* `Relay`: signatures and JSON validation of a webhook, the household's tombstone
  at ingest, timestamps and credential state of the health row, the switch for
  outgoing mail being off, sizes and types of attachments, several workers.  The
  clock of a check moves only between passes of the worker, and for the current
  revision.
* `Reminders`: several chats of one digest (one post), the hour of the digest.
* `Provisioning`: a reset to the profile after a cancellation, which makes the
  namespace anew; jobs of other kinds, a form sent twice (the replay by
  idempotency key), the content of consent receipts (current or not), what a
  provider's reference looks like and its validation, a tear-down the provider
  rejects outright, the owner's accounts and sessions that an erasure ends.
* `Rollout`: a call that the provider limits, which is put back to pending or ends
  failed (`worker.py:462-487`): here it is refused or of unknown outcome; what a
  manifest contains, the operator's rollout command (the sweep's
  schedule with a fresh plan), a sweep's refusal for a retired owner row, web chat.
  A withdrawal and a reset in one household are out of reach of the liveness
  property.
* `Bindings`: the keyed digest of a sender and its backfill, the planner's
  preconditions on consent and profile, the row of preferences.  A machine that comes
  up late may do so until the next activation, also after that of another revision
  has taken its place.
* `Gateway`: the relay adapter, HTTP, the bytes of a payload; the order in which a
  pass takes its rows is left open.
* `Backup`: encryption, the comparison of schemas beyond "has a ledger", refusals
  for space or the length of a name, which change nothing, the row of an archive's
  attempt, more than one superseded bundle.  A lock-free command is one step.
