---------------------- MODULE ProvisioningInvariant ----------------------
(***************************************************************************)
(* The inductive invariant of a household's mailbox, in named parts: what  *)
(* the worker, the operator, the family and the erasure keep true together *)
(* so that nothing at the provider is out of the database's sight. Then    *)
(* the effects of their steps, each said in the words of the invariant.    *)
(***************************************************************************)
EXTENDS Provisioning

-----------------------------------------------------------------------------
(* The words of the invariant *)

\* One operator at a time: two who reconcile the same job at once are answered
\* one after the other, and the second tears down what the first has verified.
OneOperator == \A o, p \in Operators : o = p

CleanJob == Teardown \cup SecretJob
RowOpen(n) == row[n] \in {"creating", "ready", "deleting", "unknown"}
RowKept(i) == \E m \in Attempt : belongs[m] = i /\ RowOpen(m)
Unset(n) == Status(Step(n)) \in Unsettled
Active(n) == Unset(n) /\ ~Quarantined(Step(n))
IsLive(i) == identity[i] \in Live

\* Something of the mailbox i may be at the provider only if a row says so.
Safe(i) == i \in upstream => RowKept(i)

\* What an actor is doing: a mailbox is made or torn down, or the namespace.
Forward(a) == pc[a] \in {"gate", "call", "answer", "finish", "raze"}
Backward(a) == pc[a] \in {"raze", "close"}
Building(a) == pc[a] \in {"make", "made", "unmake", "unmade", "kept"}

MakerOpen(j) == Status(j) \in {"running", "unknown"}
OpenMaker == \E j \in Maker : MakerOpen(j)
Made == Status(LatestMaker) = "succeeded"
Owned == namespace \in {"ready", "deleting", "unknown"}

-----------------------------------------------------------------------------
(* The inductive invariant *)

JobStatus == {"none", "succeeded", "failed", "cancelled"} \cup Unsettled
JobWhy == {"none", "quarantine", "before", "refused", "braked", "limited",
           "rejected", "lost", "late", "inconclusive", "handoff", "waiting",
           "absent", "unready", "teardown", "compensated"}
JobRec ==
  [status : JobStatus, why : JobWhy, op : {"none", "ensure", "inspect", "clean"},
   tries : 0..TryMax, of : {None} \cup Attempt, parent : {None} \cup Attempt]
RowState == {"none", "creating", "ready", "deleting", "unknown", "deleted"}
IdentityState == {"none", "disconnecting", "deleted"} \cup Live

ShapeJobs == jobs \in [JobId -> JobRec]
ShapeRest ==
  /\ row \in [Attempt -> RowState]
  /\ identity \in [Attempt -> IdentityState]
  /\ belongs \in [Attempt -> {None} \cup Attempt]
  /\ namespace \in {"none", "ready", "deleting", "unknown", "deleted"}
  /\ step \in {"available", "verified", "failed", "cancelled"} \cup InProgress
  /\ home \in {"onboarding", "draft", "deleting", "gone"}
  /\ created \in 0..AttemptMax
ShapeWorld ==
  /\ upstream \subseteq Attempt /\ app \in BOOLEAN
  /\ key \in [Attempt -> Actor \cup {"namespace", "lost"}]
ShapeLocal ==
  /\ pc \in [Actor -> {"idle", "gate", "call", "answer", "finish", "raze", "close",
                       "clean", "sweep", "make", "made", "unmake", "unmade", "kept"}]
  /\ at \in [Actor -> JobId]
  /\ got \in [Actor -> {"none", "reclaimed", "inspect", "ready", "waiting", "pending",
                        "limited", "rejected", "lost", "absent", "inconclusive",
                        "clean", "secret", "resource", "both", "open", "shut"}]
  /\ eraser \in [doing : {"idle", "call", "end"}, rows : SUBSET ({None} \cup Attempt),
                 absent : SUBSET ({None} \cup Attempt), open : BOOLEAN]
Shape == ShapeJobs /\ ShapeRest /\ ShapeWorld /\ ShapeLocal

\* Attempts are made one after another; of one still to come nobody knows.
Numbers ==
  /\ \A n \in Attempt : n <= created => belongs[n] \in 1..created
  /\ \A n \in Attempt : n > created =>
       /\ belongs[n] = None /\ row[n] = "none" /\ identity[n] = "none"
       /\ Status(Step(n)) = "none" /\ Status(Making(n)) = "none"
       /\ n \notin upstream
  /\ \A j \in CleanJob : Status(j) # "none" =>
       j[2] \in 1..created /\ jobs[j].parent \in 0..created
  /\ \A a \in Actor : pc[a] # "idle" /\ at[a] \in StepJob \cup CleanJob =>
       Here(a) \in 1..created

\* Each place belongs to a kind of job.
Where ==
  \A a \in Actor :
    /\ Forward(a) \/ Backward(a) => at[a] \in StepJob
    /\ Building(a) => at[a] \in Maker
    /\ pc[a] = "sweep" => at[a] \in Teardown
    /\ pc[a] = "clean" => at[a] \in CleanJob \cup NamespaceCleanup

\* A job in hand is there, and only what is open can be quarantined.
Handed ==
  /\ \A a \in Actor : pc[a] # "idle" => Status(at[a]) # "none"
  /\ \A j \in JobId \ StepJob : Status(j) # "waiting"
  /\ \A j \in StepJob \cup Maker : Quarantined(j) => Status(j) = "unknown"

\* One mailbox at a time: the others are deleted.
OneLeft ==
  \A i, k \in Attempt : identity[i] \notin {"none", "deleted"}
                          /\ identity[k] \notin {"none", "deleted"} => i = k

(* While the house is open: one attempt at a time, in one pair of hands. *)
Hands ==
  /\ \A a \in Actor : Forward(a) =>
       \/ a = Worker /\ Status(at[a]) = "running"
       \/ Status(at[a]) = "unknown" /\ (a = Worker => Quarantined(at[a]))
  /\ \A a, b \in Actor : Forward(a) /\ Forward(b) => a = b
  /\ \A a, b \in Actor : Backward(a) /\ Forward(b) /\ Mailbox(a) = Mailbox(b) => a = b
OneOpen == \A n, m \in Attempt : Unset(n) /\ Unset(m) => n = m
Wanted ==
  /\ \A n \in Attempt : Active(n) =>
       home = "onboarding" /\ step \in InProgress /\ consent /\ Verifiable(belongs[n])
  /\ \A n \in Attempt : Unset(n) /\ ~Active(n) => identity[belongs[n]] = "disconnecting"
Steps ==
  /\ step = "available" => \A i \in Attempt : ~IsLive(i)
  /\ home = "draft" => step \in {"verified", "cancelled"} /\ \A i \in Attempt : ~IsLive(i)
\* A tear-down that settles another job comes when nobody works at that one.
Untouched ==
  /\ \A j \in SecretJob, a \in Actor :
       Status(j) # "none" /\ Forward(a) => Mailbox(a) # belongs[j[2]]
  /\ \A j \in Teardown, a \in Actor :
       Status(j) # "none" /\ jobs[j].parent # None
         /\ Forward(a) /\ Mailbox(a) = belongs[jobs[j].parent] =>
         jobs[j].parent = j[2] /\ a = Worker /\ Status(j) = "pending"
\* A secret is deleted while its mailbox is being disconnected, once.
Secrets ==
  /\ \A j \in SecretJob : Status(j) \in {"pending", "running", "unknown"} =>
       identity[belongs[j[2]]] = "disconnecting"
  /\ \A a \in Actor : pc[a] = "clean" /\ at[a] \in SecretJob =>
       Status(at[a]) = IF a = Worker THEN "running" ELSE "unknown"
  /\ \A a \in Actor : pc[a] \in {"clean", "sweep"} /\ at[a] \in Teardown =>
       Status(at[a]) # "pending"
Ordered == Hands /\ OneOpen /\ Wanted /\ Steps /\ Untouched /\ Secrets

(* Until it is gone: what is at the provider is on record. *)
Parents ==
  /\ \A j \in CleanJob : Status(j) # "none" =>
       /\ ~IsLive(belongs[j[2]])
       /\ jobs[j].parent # None => ~IsLive(belongs[jobs[j].parent])
  /\ \A j \in Teardown : Status(j) # "none" =>
       jobs[j].parent \in {None, j[2]} \/ Safe(belongs[jobs[j].parent])
  /\ \A j \in SecretJob : Status(j) # "none" =>
       jobs[j].parent = j[2] /\ (row[j[2]] = "deleted" => Safe(belongs[j[2]]))
Claims ==
  \A a \in Actor :
    /\ pc[a] = "gate" /\ got[a] # "reclaimed" => Safe(Mailbox(a))
    /\ pc[a] = "answer" /\ got[a] \in {"rejected", "limited", "absent"}
         => Mailbox(a) \notin upstream
    /\ pc[a] = "raze" /\ row[Here(a)] = "deleted" => Safe(Mailbox(a))
    /\ pc[a] = "close" /\ got[a] \in {"clean", "secret"} => Mailbox(a) \notin upstream
    /\ pc[a] = "sweep" => Mailbox(a) \notin upstream
    /\ Forward(a) /\ Status(at[a]) = "cancelled" => Safe(Mailbox(a))
    /\ Backward(a) => ~IsLive(Mailbox(a))
Kept ==
  /\ \A n \in Attempt : Status(Step(n)) \in {"pending", "waiting"} => Safe(belongs[n])
  /\ \A n \in Attempt : Active(n) /\ ~consent => Safe(belongs[n])
  /\ \A i \in upstream :
       RowKept(i) \/ \E n \in Attempt : belongs[n] = i /\ MakerOpen(Step(n))
Consented == ~consent => \A i \in Attempt : ~IsLive(i)
NotDeleted == \A i \in upstream : identity[i] # "deleted"

\* A namespace is made by one job, the last; what it made is on record.
Makers ==
  /\ \E n \in {None} \cup Attempt :
       /\ Status(Making(n)) # "none"
       /\ \A m \in {None} \cup Attempt : Status(Making(m)) # "none" => m <= n
  /\ \A n \in {None} \cup Attempt : Status(Making(n)) \in {"pending", "running", "unknown"} =>
       \A m \in {None} \cup Attempt : Status(Making(m)) # "none" => m <= n
  /\ namespace = "ready" => Made
  /\ home = "onboarding" /\ Made => namespace = "ready"
  /\ upstream # {} => Made
  /\ \A a \in Actor : pc[a] \in {"call", "answer", "finish", "raze", "close"} => Made
  /\ home = "onboarding" /\ step \in {"verified", "waiting_user"} => Made
  /\ home = "onboarding" =>
       /\ \A j \in Maker : MakerOpen(j) => ~Quarantined(j)
       /\ \A j \in NamespaceCleanup : Status(j) = "none"
       /\ \A a \in Actor : pc[a] \notin {"unmake", "unmade", "kept"}
  /\ \A a \in Actor : Building(a) => MakerOpen(at[a])
  /\ app => Owned \/ OpenMaker

\* What an erasure has read is still so when it ends.
Erasing ==
  /\ ByDeletion => (\A j \in Maker : Status(j) # "pending") /\ \A i \in Attempt : ~IsLive(i)
  /\ eraser.doing # "idle" =>
       /\ ByDeletion /\ eraser.rows \subseteq 0..created
       /\ None \in eraser.absent /\ app => OpenMaker
  /\ eraser.doing # "idle" /\ ~eraser.open =>
       /\ ~OpenMaker
       /\ None \notin eraser.rows => ~Owned
       /\ eraser.doing = "call" =>
            \A i \in upstream : \E n \in eraser.rows \ eraser.absent : n # None /\ belongs[n] = i
       /\ eraser.doing = "end" /\ eraser.absent = eraser.rows => upstream = {}
Served ==
  /\ \A i \in Attempt : identity[i] = "verified" =>
       /\ i \in upstream /\ key[i] = "namespace" /\ step = "verified" /\ consent
       /\ home = "onboarding" /\ \A n \in Attempt : ~Unset(n)
  /\ \A a \in Actor :
       /\ pc[a] = "answer" /\ got[a] = "ready" /\ IsLive(Mailbox(a)) =>
            Mailbox(a) \in upstream /\ key[Mailbox(a)] = a
       /\ pc[a] = "finish" /\ IsLive(Mailbox(a)) =>
            Mailbox(a) \in upstream /\ key[Mailbox(a)] = "namespace"

Gone ==
  /\ upstream = {} /\ ~app /\ eraser.doing = "idle"
  /\ \A j \in JobId : Status(j) = "none"
  /\ \A i \in Attempt : identity[i] = "none"

Inv ==
  /\ Shape /\ Numbers /\ Where
  /\ home # "gone" =>
       /\ Handed /\ OneLeft /\ Parents /\ Claims /\ Kept /\ Consented /\ NotDeleted
       /\ Makers /\ Erasing /\ Served
  /\ OpenHouse => Ordered
  /\ home = "gone" => Gone

-----------------------------------------------------------------------------
(* What a step does, as far as the invariant is concerned *)


\* The actors but a are where they were; and each is, or rests.
Others(a) ==
  \A b \in Actor : b # a => pc'[b] = pc[b] /\ at'[b] = at[b] /\ got'[b] = got[b]
Rests ==
  \A b \in Actor : pc'[b] = "idle" \/ (pc'[b] = pc[b] /\ at'[b] = at[b] /\ got'[b] = got[b])
JobsBut(S) == \A k \in JobId : k \notin S => jobs'[k] = jobs[k]
Outside == <<belongs, namespace, home, consent, created, upstream, key, app, eraser>>
Finished(k) ==
  identity[k] = "disconnecting" /\ identity'[k] = "deleted" /\ Closable(jobs', row')

\* The outcome s of attempt n is written down.
Marks(n, s) ==
  /\ Status(Step(n)) \in {"running", "unknown"}
  /\ s = "waiting" => ~(Status(Step(n)) = "unknown" /\ Quarantined(Step(n)))
  /\ jobs'[Step(n)].status = s /\ jobs'[Step(n)].why # "quarantine"
  /\ \A m \in Attempt : m # n => row'[m] = row[m]
  /\ s # "waiting" => row'[n] = row[n]
  /\ s = "waiting" => row'[n] = "creating"
  /\ \A k \in Attempt : k # belongs[n] => identity'[k] = identity[k]
  /\ IsLive(belongs[n]) => identity'[belongs[n]] = MarkOf[s]
  /\ ~IsLive(belongs[n]) =>
       identity'[belongs[n]] = identity[belongs[n]] \/ Finished(belongs[n])
  /\ step' = IF step \in InProgress /\ home = "onboarding" THEN StepOf[s] ELSE step
Revives(n) ==
  /\ Status(Step(n)) = "cancelled"
  /\ jobs'[Step(n)].status = "unknown" /\ jobs'[Step(n)].why # "quarantine"
  /\ UNCHANGED <<row, identity, step>>
ShapeStep == ShapeJobs' /\ row' \in [Attempt -> RowState]
               /\ identity' \in [Attempt -> IdentityState]
               /\ step' \in {"available", "verified", "failed", "cancelled"} \cup InProgress

\* What attempt n still brings is left to a tear-down of its own.
Defers(n) ==
  /\ \/ jobs'[Step(n)].status = Status(Step(n)) /\ Status(Step(n)) # "running"
     \/ jobs'[Step(n)].status = "unknown" /\ Status(Step(n)) = "running"
  /\ jobs'[Step(n)].why = jobs[Step(n)].why
  /\ Status(WaitingCleanup(n)) # "none" =>
       jobs'[WaitingCleanup(n)] = jobs[WaitingCleanup(n)]
  /\ Status(WaitingCleanup(n)) = "none" =>
       jobs'[WaitingCleanup(n)].status = "pending" /\ jobs'[WaitingCleanup(n)].parent = n
  /\ JobsBut({Step(n), WaitingCleanup(n)})
  /\ row'[n] = "deleting" /\ \A m \in Attempt : m # n => row'[m] = row[m]
  /\ UNCHANGED <<identity, step>>
Answers == {"none", "reclaimed", "inspect", "ready", "waiting", "pending", "limited",
            "rejected", "lost", "absent", "inconclusive",
            "clean", "secret", "resource", "both", "open", "shut"}
Places == {"idle", "gate", "call", "answer", "finish", "raze", "close",
           "clean", "sweep", "make", "made", "unmake", "unmade", "kept"}
Resting == UNCHANGED <<jobs, row, identity, step>> /\ UNCHANGED Outside /\ Rests
Marking(a, n, s) ==
  /\ s \in {"failed", "unknown", "waiting"}
  /\ Marks(n, s) /\ JobsBut({Step(n)}) /\ UNCHANGED Outside /\ Rests /\ pc'[a] = "idle"
  /\ OpenHouse => Forward(a) /\ at[a] = Step(n)
  /\ Quarantined(Step(n)) => s = "failed"
  /\ s = "failed" => Safe(belongs[n])
  /\ s = "waiting" => Made
Reviving(n) ==
  /\ Revives(n) /\ JobsBut({Step(n)}) /\ UNCHANGED Outside /\ Rests
  /\ ~OpenHouse /\ Safe(belongs[n])
PuttingBack(a, n) ==
  /\ Status(Step(n)) \in {"running", "unknown"} /\ ~Quarantined(Step(n))
  /\ jobs'[Step(n)].status = "pending" /\ jobs'[Step(n)].why # "quarantine"
  /\ belongs[n] \notin upstream
  /\ OpenHouse => Forward(a) /\ at[a] = Step(n)
  /\ JobsBut({Step(n)}) /\ UNCHANGED <<row, identity, step>>
  /\ UNCHANGED Outside /\ Rests /\ pc'[a] = "idle"
Handing(a, n) ==
  /\ Defers(n) /\ UNCHANGED Outside /\ Rests /\ pc'[a] = "idle"
  /\ \/ Status(Step(n)) = "running" /\ ByDeletion
     \/ Status(Step(n)) = "unknown" /\ (Quarantined(Step(n)) \/ ByDeletion)
  /\ (pc[a] = "answer" /\ at[a] = Step(n)) \/ (pc[a] = "idle" /\ a # Worker)

\* What an actor writes of the email job it has, or had, in hand.
Writing(a) ==
  \/ Resting
  \/ \E n \in 1..created :
       \/ \E s \in {"failed", "unknown", "waiting"} : Marking(a, n, s)
       \/ Reviving(n) \/ PuttingBack(a, n) \/ Handing(a, n)

\* The worker goes on from the gate to the provider.
Entering ==
  /\ pc[Worker] = "gate" /\ pc'[Worker] = "call" /\ at'[Worker] = at[Worker]
  /\ Others(Worker) /\ namespace = "ready"
  /\ UNCHANGED <<jobs, row, identity, step>> /\ UNCHANGED Outside

\* The operator takes something of unknown outcome.
Taking(o, j) ==
  /\ pc[o] = "idle" /\ o \in Operators /\ j \in JobId /\ Status(j) = "unknown"
  /\ at'[o] = j /\ Others(o) /\ got'[o] = got[o]
  /\ \/ /\ j \in StepJob /\ pc'[o] = "call"
        /\ ~Quarantined(j) /\ namespace = "ready"
     \/ j \in Maker /\ pc'[o] = "make"
     \/ j \notin StepJob /\ j \notin Maker /\ pc'[o] = "clean"
  /\ UNCHANGED <<jobs, row, identity, step>> /\ UNCHANGED Outside

\* The key goes into the namespace, over the one that was there.
Installing(a) ==
  /\ pc[a] = "answer" /\ got[a] = "ready" /\ pc'[a] = "finish" /\ at'[a] = at[a] /\ Others(a)
  /\ \A k \in Attempt :
       key'[k] = IF k = Mailbox(a) /\ key[k] = a THEN "namespace"
                 ELSE IF key[k] = "namespace" THEN "lost" ELSE key[k]
  /\ UNCHANGED <<jobs, row, identity, step>>
  /\ UNCHANGED <<belongs, namespace, home, consent, created, upstream, app, eraser>>
Verifying(a, n) ==
  /\ pc[a] = "finish" /\ at[a] = Step(n) /\ Rests /\ pc'[a] = "idle"
  /\ Status(Step(n)) \in {"running", "unknown"} /\ ~Quarantined(Step(n))
  /\ step \in InProgress /\ home = "onboarding" /\ Verifiable(belongs[n])
  /\ jobs'[Step(n)].status = "succeeded" /\ jobs'[Step(n)].why # "quarantine"
  /\ JobsBut({Step(n)})
  /\ row'[n] = "ready" /\ \A m \in Attempt : m # n => row'[m] = row[m]
  /\ identity'[belongs[n]] = "verified"
  /\ \A k \in Attempt : k # belongs[n] => identity'[k] = identity[k]
  /\ step' = "verified" /\ UNCHANGED Outside

\* What was made for nobody is to be torn down.
Undoing(a, n) ==
  /\ pc[a] \in {"answer", "finish"} /\ at[a] = Step(n)
  /\ pc'[a] = "raze" /\ at'[a] = at[a] /\ Others(a)
  /\ row'[n] = "deleting" /\ \A m \in Attempt : m # n => row'[m] = row[m]
  /\ ~IsLive(belongs[n])
  /\ UNCHANGED <<jobs, identity, step>> /\ UNCHANGED Outside
Leasing(j) ==
  /\ pc[Worker] = "idle" /\ j \in JobId /\ Status(j) \in {"pending", "running", "waiting"}
  /\ jobs'[j].status = "running" /\ jobs'[j].why = jobs[j].why
  /\ jobs'[j].parent = jobs[j].parent /\ JobsBut({j})
  /\ at'[Worker] = j /\ Others(Worker)
  /\ got'[Worker] = IF Status(j) = "running" THEN "reclaimed" ELSE "none"
  /\ pc'[Worker] = IF j \in StepJob THEN "gate" ELSE IF j \in Maker THEN "make" ELSE "clean"
  /\ UNCHANGED <<row, identity, step>> /\ UNCHANGED Outside
KeyTaken == \A k \in Attempt : key'[k] = key[k] \/ (key[k] = "namespace" /\ key'[k] = "lost")
Calling(a, n) ==
  /\ pc[a] = "call" /\ at[a] = Step(n) /\ OpenHouse
  /\ pc'[a] \in {"call", "answer"} /\ at'[a] = at[a] /\ Others(a)
  /\ upstream' = upstream \/ upstream' = upstream \cup {belongs[n]}
  /\ \A k \in Attempt : k # belongs[n] => key'[k] = key[k]
  /\ pc'[a] = "answer" /\ got'[a] \in {"rejected", "limited", "absent"}
       => belongs[n] \notin upstream'
  /\ pc'[a] = "answer" /\ got'[a] = "ready" => belongs[n] \in upstream' /\ key'[belongs[n]] = a
  /\ \A b \in Actor : pc[b] = "sweep" => Mailbox(b) # belongs[n]
  /\ UNCHANGED <<jobs, row, identity, step>>
  /\ UNCHANGED <<belongs, namespace, home, consent, created, app, eraser>>
Razing(a, n) ==
  /\ pc[a] = "raze" /\ at[a] = Step(n)
  /\ pc'[a] = "close" /\ at'[a] = at[a] /\ Others(a)
  /\ upstream' = upstream \/ upstream' = upstream \ {belongs[n]}
  /\ got'[a] \in {"clean", "secret"} => belongs[n] \notin upstream'
  /\ JobsBut({SecretCleanup(n)})
  /\ \/ jobs'[SecretCleanup(n)] = jobs[SecretCleanup(n)]
     \/ /\ Status(SecretCleanup(n)) = "none"
        /\ jobs'[SecretCleanup(n)].status = "pending" /\ jobs'[SecretCleanup(n)].parent = n
  /\ KeyTaken /\ UNCHANGED <<row, identity, step>>
  /\ UNCHANGED <<belongs, namespace, home, consent, created, app, eraser>>

\* A parent job is closed, or there was nothing to close.
ClosesParent(n) ==
  \/ jobs'[Step(n)] = jobs[Step(n)]
  \/ /\ Status(Step(n)) \in {"running", "unknown", "cancelled"}
     /\ jobs'[Step(n)].status = "cancelled" /\ jobs'[Step(n)].why # "quarantine"
Closing(a, n) ==
  /\ pc[a] = "close" /\ at[a] = Step(n) /\ Rests /\ pc'[a] = "idle"
  /\ row'[n] = IF got[a] \in {"clean", "secret"} THEN "deleted" ELSE "unknown"
  /\ \A m \in Attempt : m # n => row'[m] = row[m]
  /\ ClosesParent(n) /\ (got[a] # "clean" => jobs'[Step(n)] = jobs[Step(n)])
  /\ \/ jobs'[LateCleanup(n)] = jobs[LateCleanup(n)]
     \/ /\ Status(LateCleanup(n)) = "none"
        /\ jobs'[LateCleanup(n)].status = "pending" /\ jobs'[LateCleanup(n)].parent = n
  /\ JobsBut({Step(n), LateCleanup(n)})
  /\ \A k \in Attempt : identity'[k] = identity[k] \/ Finished(k)
  /\ UNCHANGED step /\ UNCHANGED Outside

\* A tear-down that could not be done, or not quite.
Troubled(j) ==
  /\ JobsBut({j})
  /\ \/ jobs'[j] = jobs[j]
     \/ jobs'[j].status = "unknown" /\ jobs'[j].parent = jobs[j].parent /\ Status(j) # "none"
Depriving(a, j) ==
  /\ pc[a] = "clean" /\ at[a] = j /\ j \in Teardown
  /\ \/ /\ pc'[a] = "sweep" /\ at'[a] = at[a] /\ Others(a)
        /\ upstream' = upstream \ {Mailbox(a)} /\ UNCHANGED jobs
     \/ /\ Rests /\ Troubled(j)
        /\ upstream' = upstream \/ upstream' = upstream \ {Mailbox(a)}
  /\ UNCHANGED <<row, identity, step>>
  /\ UNCHANGED <<belongs, namespace, home, consent, created, key, app, eraser>>
Sweeping(a, j) ==
  /\ pc[a] = "sweep" /\ at[a] = j /\ j \in Teardown /\ Rests
  /\ \/ /\ jobs'[j].status = "succeeded" /\ jobs'[j].parent = jobs[j].parent
        /\ jobs[j].parent # None => ClosesParent(jobs[j].parent)
        /\ \A k \in JobId :
             k # j /\ ~(jobs[j].parent # None /\ k = Step(jobs[j].parent)) => jobs'[k] = jobs[k]
        /\ row'[j[2]] = "deleted" /\ \A m \in Attempt : m # j[2] => row'[m] = row[m]
        /\ \A k \in Attempt : identity'[k] = identity[k] \/ Finished(k)
        /\ KeyTaken /\ (UNCHANGED key \/ \E i \in Attempt : identity[i] = "disconnecting")
     \/ Troubled(j) /\ UNCHANGED <<row, identity, key>>
  /\ UNCHANGED step
  /\ UNCHANGED <<belongs, namespace, home, consent, created, upstream, app, eraser>>
Unstaging(a, j) ==
  /\ pc[a] = "clean" /\ at[a] = j /\ j \in SecretJob /\ Rests /\ pc'[a] = "idle"
  /\ \/ /\ jobs'[j].status = "succeeded" /\ jobs'[j].parent = jobs[j].parent
        /\ \/ row[j[2]] = "deleted" /\ ClosesParent(j[2])
           \/ jobs'[Step(j[2])] = jobs[Step(j[2])]
        /\ JobsBut({j, Step(j[2])})
        /\ \A k \in Attempt : identity'[k] = identity[k] \/ Finished(k)
        /\ KeyTaken
     \/ /\ jobs'[j].status = "unknown" /\ jobs'[j].parent = jobs[j].parent /\ JobsBut({j})
        /\ UNCHANGED <<identity, key>>
  /\ UNCHANGED <<row, step>>
  /\ UNCHANGED <<belongs, namespace, home, consent, created, upstream, app, eraser>>
=============================================================================
