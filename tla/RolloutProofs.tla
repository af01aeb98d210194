---------------------------- MODULE RolloutProofs ----------------------------
(***************************************************************************)
(* Proofs about the rollout of a revision, for any number of revisions,    *)
(* tokens, machines, members and faults, and for every household: whatever *)
(* its people do, a strict provider and a slow one included.  The last two *)
(* theorems are of a calm household only: see Calm.                        *)
(***************************************************************************)
EXTENDS Rollout, FiniteSetTheorems, SequenceTheorems, TLAPS

USE DEF vars, house, spec, people, queue, db, cloud, local

-----------------------------------------------------------------------------
(* The words of the invariant *)

\* A revision that may still go live, and one that may not any more.
Living == {"planned", "issued", "claimed"}
Live(r) == rev[r] \in Living
Gone == {"none", "superseded", "revoked"}

\* What an actor has in hand, and the run of a revision among some jobs.
On(a, r) == pc[a] # "idle" /\ at[a] = Run(r)
St(js, r) == js[Run(r)].status

\* A rollout that ended without its revision, for good: nobody has it in hand
\* who could find its outcome unknown again.
Over(r) ==
  \/ St(jobs, r) = "failed"
  \/ St(jobs, r) = "cancelled" /\ \A a \in Actor : ~On(a, r)

RunRow == [status : {"none", "pending", "running", "unknown", "succeeded", "failed", "cancelled"},
           why : {"none", "awaiting", "quarantine", "problem"},
           op : {"none", "ensure", "reprovision"}, ref : {Nothing}]
Place == {"idle", "gate", "inspect", "judge", "prepare", "issue", "install", "recheck",
          "launch", "ready", "forget", "raze", "settle", "call"}
IsJobs(js) ==
  /\ js = [j \in JobId |-> js[j]]
  /\ \A r \in Rev : js[Run(r)] \in RunRow

-----------------------------------------------------------------------------
(* The inductive invariant *)

Shape ==
  /\ rev \in [Rev -> {"none", "planned", "issued", "claimed", "active", "superseded", "revoked"}]
  /\ names \in [Rev -> SUBSET Member] /\ binding \in [Member -> Unbound..RevMax]
  /\ cycle \in [Rev -> 0..RevMax] /\ consent \in 0..RevMax
  /\ activated \in [Rev -> Nat] /\ plan \in Plans
  /\ pc \in [Actor -> Place] /\ at = [a \in Actor |-> at[a]]
Machinery ==
  /\ machine = [id |-> machine.id, rev |-> machine.rev, token |-> machine.token]
  /\ machine.rev \in 0..RevMax
  /\ machine.token # None => machine.rev \in Rev

\* Revisions are planned one after another, each with its job; of one that is
\* not planned nobody knows.
InOrder == NextRev - 1 \in Nat /\ Planned = 1..(NextRev - 1)
Made == \A r \in Rev : rev[r] # "none" => St(jobs, r) # "none"
Blank ==
  \A r \in Rev : rev[r] = "none" =>
    /\ St(jobs, r) = "none" /\ activated[r] = 0 /\ machine.rev # r
    /\ \A a \in Actor : ~On(a, r)
    /\ \A m \in Member : binding[m] # r

\* Who takes steps of a rollout has its job in hand, and what nobody revoked is
\* in the hands its status says.
AtRun == \A a \in Actor : pc[a] \notin {"idle", "call", "settle"} => at[a] \in RunJob
InHand ==
  \A r \in Rev : rev[r] # "revoked" =>
    /\ On(Worker, r) => St(jobs, r) \in {"running", "succeeded"}
    /\ On(Operator, r) => St(jobs, r) = "unknown"

\* What may still go live has not, and its job has not succeeded; what is live
\* went live once and completed the workflow; what was replaced is settled.
Before == \A r \in Rev : Live(r) => St(jobs, r) # "succeeded" /\ activated[r] = 0
After ==
  \A r \in Rev : /\ Serving(r) => workflow = "complete" /\ activated[r] = 1
                 /\ rev[r] = "superseded" => ~InFlight(Run(r))

\* One rollout at most is under way; and while the one that went live is not
\* settled, the machine is not of one that could replace it.
Afloat(r) == InFlight(Run(r)) /\ rev[r] # "revoked"
OneAfloat == \A r, s \in Rev : Afloat(r) /\ Afloat(s) => r = s
NoRace == \A r \in Rev : Serving(r) /\ InFlight(Run(r)) /\ machine.rev \in Rev =>
                         ~Live(machine.rev)

\* Without consent, and while the owner is back in the steps, no revision is live
\* or may go live; and every such revision is of the consent there is.
Gated == consent = None \/ home = "onboarding" => \A r \in Rev : rev[r] \in Gone
Own == \A r \in Rev : Live(r) \/ Serving(r) => cycle[r] = consent

\* Who waits to be published is named by whatever may go live, unless that was
\* given up; and so is who was published.
Admitted(m, r) == m \in names[r] \/ Over(r)
Waiting == \A m \in Member : binding[m] = Staged => \A r \in Rev : Live(r) => Admitted(m, r)
Public ==
  \A m \in Member, r \in Rev : binding[m] = r => activated[r] > 0 /\ Admitted(m, r)

IInv ==
  /\ Shape /\ IsJobs(jobs) /\ Machinery
  /\ InOrder /\ Made /\ Blank /\ AtRun /\ InHand /\ Before /\ After
  /\ OneAfloat /\ NoRace /\ Gated /\ Own /\ Waiting /\ Public

-----------------------------------------------------------------------------
(* Jobs *)

\* Two runs are of two revisions, and a run is a job.
LEMMA RunIsJob ==
  ASSUME NEW r \in Rev
  PROVE  /\ Run(r) \in JobId /\ Run(r) \in RunJob
         /\ Run(r)[1] = "run" /\ Run(r)[2] = r
         /\ \A s \in Rev : Run(r) = Run(s) => r = s
  BY DEF Run, JobId, Kind, RunJob

\* A job that is settled has the status it was given, and no other has changed.
LEMMA Settles ==
  ASSUME NEW js, IsJobs(js), NEW j,
         NEW s \in {"pending", "running", "unknown", "succeeded", "failed", "cancelled"},
         NEW w \in {"none", "awaiting", "quarantine", "problem"}
  PROVE  /\ IsJobs(Settle(js, j, s, w))
         /\ \A r \in Rev : St(Settle(js, j, s, w), r) = IF j = Run(r) THEN s ELSE St(js, r)
<1>1. \A r \in Rev : Run(r) \in JobId BY RunIsJob
<1>2. js = [k \in JobId |-> js[k]] BY DEF IsJobs
<1> DEFINE new == Settle(js, j, s, w)
<1>3. new = [k \in JobId |-> new[k]]
  BY <1>2 DEF Settle
<1>4. ASSUME NEW r \in Rev
      PROVE  new[Run(r)] \in RunRow /\ new[Run(r)].status = IF j = Run(r) THEN s ELSE js[Run(r)].status
  <2>1. js[Run(r)] \in RunRow BY DEF IsJobs
  <2>2. CASE j = Run(r)
    <3>1. new[Run(r)] = [[js[Run(r)] EXCEPT !.status = s] EXCEPT !.why = w]
      BY <1>1, <1>2, <2>2 DEF Settle
    <3> QED BY <3>1, <2>1, <2>2 DEF RunRow
  <2>3. CASE j # Run(r)
    <3>1. new[Run(r)] = js[Run(r)] BY <1>1, <1>2, <2>3 DEF Settle
    <3> QED BY <3>1, <2>1, <2>3
  <2> QED BY <2>2, <2>3
<1> QED BY <1>3, <1>4 DEF IsJobs, St

\* A job of another kind may be made, and no run has changed.
LEMMA Creates ==
  ASSUME NEW js, IsJobs(js), NEW j, j \notin RunJob, NEW x
  PROVE  /\ IsJobs(Create(js, j, x))
         /\ \A r \in Rev : St(Create(js, j, x), r) = St(js, r)
<1>1. \A r \in Rev : Run(r) \in JobId /\ Run(r) # j BY RunIsJob
<1>2. js = [k \in JobId |-> js[k]] BY DEF IsJobs
<1> DEFINE new == Create(js, j, x)
<1>3. new = [k \in JobId |-> new[k]] BY <1>2 DEF Create
<1>4. \A r \in Rev : new[Run(r)] = js[Run(r)] BY <1>1, <1>2 DEF Create
<1> QED BY <1>3, <1>4 DEF IsJobs, St

-----------------------------------------------------------------------------
(* The first state *)

LEMMA InitIInv == Init => IInv
<1> SUFFICES ASSUME Init PROVE IInv OBVIOUS
<1> USE DEF Init
<1>0. 1 \in Rev /\ RevMax \in Nat /\ RevMax >= 1 BY BoundsAssumption DEF Rev
<1>1. jobs[Run(1)].status = "pending" /\ jobs[Run(1)] \in RunRow
  <2>1. jobs[Run(1)] = [NoJob EXCEPT !.status = "pending", !.op = "ensure"] BY <1>0, RunIsJob
  <2> QED BY <2>1 DEF NoJob, RunRow
<1>2. \A r \in Rev : r # 1 => jobs[Run(r)] = NoJob BY <1>0, RunIsJob
<1>3. IsJobs(jobs) BY <1>1, <1>2 DEF IsJobs, NoJob, RunRow
<1>4. \A r \in Rev : St(jobs, r) = IF r = 1 THEN "pending" ELSE "none"
  <2>1. NoJob.status = "none" BY DEF NoJob
  <2> HIDE DEF Init
  <2> QED BY <1>1, <1>2, <2>1 DEF St
<1>5. /\ rev = [r \in Rev |-> IF r = 1 THEN "planned" ELSE "none"]
      /\ cycle = [r \in Rev |-> IF r = 1 THEN 1 ELSE 0]
      /\ names = [r \in Rev |-> {}] /\ binding = [m \in Member |-> Unbound]
      /\ activated = [r \in Rev |-> 0] /\ plan \in Plans
      /\ pc = [a \in Actor |-> "idle"] /\ at = [a \in Actor |-> Run(1)]
      /\ machine = NoMachine /\ consent = 1 /\ home = "provisioning"
  BY Zenon
<1> HIDE DEF Init
<1>5a. Shape
  <2>1. Unbound \in Unbound..RevMax /\ 0 \in 0..RevMax /\ 1 \in 0..RevMax
    BY <1>0 DEF Unbound
  <2>2. rev \in [Rev -> {"none", "planned", "issued", "claimed", "active", "superseded", "revoked"}]
    BY <1>5
  <2>3. cycle \in [Rev -> 0..RevMax] /\ consent \in 0..RevMax BY <1>5, <2>1
  <2>4. names \in [Rev -> SUBSET Member] /\ binding \in [Member -> Unbound..RevMax]
    BY <1>5, <2>1
  <2>5a. activated \in [Rev -> Nat]
    <3>1. activated = [r \in Rev |-> 0] BY <1>5
    <3> QED BY <3>1
  <2>5. pc \in [Actor -> Place]
    <3>1. pc = [a \in Actor |-> "idle"] BY <1>5
    <3> QED BY <3>1 DEF Place
  <2>6. at = [a \in Actor |-> at[a]]
    <3> DEFINE one == Run(1)
    <3>1. at = [a \in Actor |-> one] BY <1>5
    <3> HIDE DEF one
    <3> QED BY <3>1
  <2> QED BY <1>5, <2>2, <2>3, <2>4, <2>5, <2>5a, <2>6 DEF Shape
<1>5b. Machinery
  <2>1. /\ machine = [id |-> 0, rev |-> 0, token |-> 0]
        /\ machine.id = 0 /\ machine.rev = 0 /\ machine.token = 0
    BY <1>5 DEF NoMachine, None
  <2>2. machine = [id |-> machine.id, rev |-> machine.rev, token |-> machine.token]
    BY <2>1
  <2> QED BY <1>0, <2>1, <2>2 DEF Machinery, None
<1>6. InOrder
  <2>1. Planned = {1} BY <1>0, <1>5 DEF Planned
  <2>2. NextRev = 2 BY <2>1, FS_Singleton DEF NextRev
  <2> QED BY <2>1, <2>2 DEF InOrder
<1>6a. machine.rev = 0 BY <1>5 DEF NoMachine, None
<1>7. Made /\ Blank
  BY <1>0, <1>4, <1>5, <1>6a DEF Made, Blank, On, Unbound, Rev
<1>8. AtRun /\ InHand BY <1>5 DEF AtRun, InHand, On, Actor
<1>8a. Before /\ After
  BY <1>0, <1>4, <1>5 DEF Before, After, Live, Living, Serving
<1>9. OneAfloat /\ NoRace
  <2>1. \A r \in Rev : InFlight(Run(r)) => r = 1 BY <1>4 DEF InFlight, Status, St
  <2>2. \A r \in Rev : ~Serving(r) BY <1>5 DEF Serving
  <2>3. OneAfloat BY <2>1 DEF OneAfloat, Afloat
  <2>4. NoRace BY <2>2 DEF NoRace
  <2> QED BY <2>3, <2>4
<1>10. Gated /\ Own
  BY <1>0, <1>5 DEF Gated, Own, Gone, Live, Living, Serving, None
<1>11. Waiting /\ Public BY <1>5 DEF Waiting, Public, Staged, Unbound, Rev
<1> QED BY <1>3, <1>5a, <1>5b, <1>6, <1>7, <1>8, <1>8a, <1>9, <1>10, <1>11 DEF IInv

-----------------------------------------------------------------------------
(* What the worker and the operator may do to what the invariant is about, *)
(* and with them whoever leaves the jobs in hand alone                     *)

\* How a run may end in the hands of an actor.
Ends(r, s) ==
  \/ St(jobs, r) \in {"running", "unknown"} /\ s \in {"failed", "pending"}
  \/ St(jobs, r) \in {"running", "unknown", "cancelled"} /\ s \in {"unknown", "cancelled"}
  \/ Serving(r) /\ s = "succeeded"

HandsOf(a) ==
  /\ pc' \in [Actor -> Place] /\ at' = [b \in Actor |-> at'[b]]
  /\ \A b \in Actor \ {a} : pc'[b] = pc[b] /\ at'[b] = at[b]
  /\ pc'[a] # "idle" => pc[a] # "idle" /\ at'[a] = at[a]
  /\ pc'[a] \notin {"idle", "call", "settle"} => at[a] \in RunJob
JobsOf(a) ==
  /\ IsJobs(jobs')
  /\ \A r \in Rev : St(jobs', r) # St(jobs, r) =>
       On(a, r) /\ pc'[a] = "idle" /\ Ends(r, St(jobs', r))
PeopleOf ==
  /\ UNCHANGED consent
  /\ binding' \in [Member -> Unbound..RevMax]
  /\ \A m \in Member : binding'[m] \in {binding[m], Unbound}
MachineOf(a) ==
  /\ Machinery'
  /\ machine'.rev \in Rev => machine'.rev = machine.rev \/ On(a, machine'.rev)
HouseOf ==
  /\ rev' \in [Rev -> {"none", "planned", "issued", "claimed", "active", "superseded", "revoked"}]
  /\ \A r \in Rev : rev'[r] # rev[r] => Live(r) /\ rev'[r] \in {"issued", "claimed", "revoked"}
  /\ workflow' # workflow => \A r \in Rev : ~Serving(r)
  /\ home' = "onboarding" => \A r \in Rev : rev'[r] \in Gone
Worked(a) ==
  /\ HandsOf(a) /\ JobsOf(a) /\ PeopleOf /\ MachineOf(a) /\ HouseOf
  /\ UNCHANGED <<names, cycle, activated, plan>>

\* What nobody revoked is in one hand at most.
LEMMA OneHand ==
  ASSUME IInv, NEW r \in Rev, rev[r] # "revoked", NEW a \in Actor, NEW b \in Actor,
         On(a, r), On(b, r)
  PROVE  a = b
  BY DEF IInv, InHand, Actor

\* Nor does its job end but in the status a job in that hand may end in.
LEMMA EndsInHand ==
  ASSUME IInv, NEW a \in Actor, Worked(a), NEW r \in Rev, rev[r] # "revoked",
         St(jobs', r) # St(jobs, r)
  PROVE  /\ On(a, r) /\ \A b \in Actor : ~On(b, r)'
         /\ St(jobs, r) \in {"running", "unknown", "succeeded"}
         /\ St(jobs', r) = "succeeded" => Serving(r)
<1>1. On(a, r) /\ pc'[a] = "idle" /\ Ends(r, St(jobs', r)) BY DEF Worked, JobsOf
<1>2. ASSUME NEW b \in Actor PROVE ~On(b, r)'
  <2>1. CASE b = a BY <2>1, <1>1 DEF On
  <2>2. CASE b # a
    <3>1. ~On(b, r) BY <2>2, <1>1, OneHand
    <3> QED BY <2>2, <3>1 DEF Worked, HandsOf, On
  <2> QED BY <2>1, <2>2
<1>3. St(jobs, r) \in {"running", "unknown", "succeeded"}
  BY <1>1 DEF IInv, InHand, Actor
<1> QED BY <1>1, <1>2, <1>3 DEF Ends

\* What was given up stays so, and nobody takes another job in hand.
LEMMA WorkLeaves ==
  ASSUME IInv, NEW a \in Actor, Worked(a), NEW r \in Rev
  PROVE  /\ \A b \in Actor : On(b, r)' => On(b, r)
         /\ Over(r) => Over(r)'
         /\ rev[r] = "none" <=> rev'[r] = "none"
         /\ rev[r] = "revoked" => rev'[r] = "revoked"
         /\ Live(r)' => Live(r)
         /\ Serving(r)' <=> Serving(r)
         /\ rev'[r] = "superseded" <=> rev[r] = "superseded"
         /\ InFlight(Run(r)) <=> St(jobs, r) \in {"pending", "running", "unknown"}
         /\ InFlight(Run(r))' <=> St(jobs', r) \in {"pending", "running", "unknown"}
<1>1. ASSUME NEW b \in Actor, On(b, r)' PROVE On(b, r)
  <2>1. CASE b = a BY <1>1, <2>1 DEF Worked, HandsOf, On
  <2>2. CASE b # a BY <1>1, <2>2 DEF Worked, HandsOf, On
  <2> QED BY <2>1, <2>2
<1>2. ASSUME Over(r) PROVE Over(r)'
  <2>1. CASE St(jobs', r) = St(jobs, r)
    BY <1>1, <1>2, <2>1 DEF Over, St
  <2>2. CASE St(jobs', r) # St(jobs, r)
    <3>1. On(a, r) /\ Ends(r, St(jobs', r)) BY <2>2 DEF Worked, JobsOf
    <3>2. St(jobs, r) = "failed" BY <3>1, <1>2 DEF Over
    <3>3. rev[r] = "active" BY <3>1, <3>2 DEF Ends, Serving
    <3> QED BY <2>2, <3>2, <3>3, EndsInHand
  <2> QED BY <2>1, <2>2
<1>3. rev'[r] # rev[r] => rev[r] \in Living /\ rev'[r] \in {"issued", "claimed", "revoked"}
  BY DEF Worked, HouseOf, Live
<1>4. /\ rev[r] = "none" <=> rev'[r] = "none"
      /\ rev[r] = "revoked" => rev'[r] = "revoked"
      /\ rev'[r] \in Living => rev[r] \in Living
      /\ rev'[r] = "active" <=> rev[r] = "active"
      /\ rev'[r] = "superseded" <=> rev[r] = "superseded"
  BY <1>3 DEF Living
<1> QED BY <1>1, <1>2, <1>4 DEF Live, Serving, InFlight, Status, St

LEMMA WorkKeepsRows ==
  ASSUME IInv, NEW a \in Actor, Worked(a)
  PROVE  Shape' /\ IsJobs(jobs)' /\ Machinery' /\ InOrder' /\ Made' /\ Blank' /\ AtRun'
<1>1. Shape' BY DEF IInv, Shape, Worked, HandsOf, PeopleOf, HouseOf
<1>2. IsJobs(jobs)' BY DEF Worked, JobsOf, IsJobs
<1>3. Machinery' BY DEF Worked, MachineOf
<1>4. InOrder'
  <2>1. Planned' = Planned BY WorkLeaves DEF Planned
  <2> QED BY <2>1 DEF IInv, InOrder, NextRev
<1>5. Made'
  <2> SUFFICES ASSUME NEW r \in Rev, rev'[r] # "none" PROVE St(jobs', r) # "none"
    BY DEF Made, St
  <2>1. St(jobs, r) # "none" BY WorkLeaves DEF IInv, Made
  <2> QED BY <2>1 DEF Worked, JobsOf, Ends
<1>6. Blank'
  <2> SUFFICES ASSUME NEW r \in Rev, rev'[r] = "none"
               PROVE  /\ St(jobs', r) = "none" /\ activated'[r] = 0 /\ machine'.rev # r
                      /\ \A b \in Actor : ~On(b, r)'
                      /\ \A m \in Member : binding'[m] # r
    BY DEF Blank, St
  <2>1. /\ St(jobs, r) = "none" /\ activated[r] = 0 /\ machine.rev # r
        /\ \A b \in Actor : ~On(b, r)
        /\ \A m \in Member : binding[m] # r
    BY WorkLeaves DEF IInv, Blank
  <2>2. St(jobs', r) = "none" /\ activated'[r] = 0
    BY <2>1 DEF Worked, JobsOf
  <2>3. machine'.rev # r BY <2>1 DEF Worked, MachineOf
  <2>4. \A m \in Member : binding'[m] # r
    BY <2>1 DEF Worked, PeopleOf, Unbound, Rev
  <2> QED BY <2>1, <2>2, <2>3, <2>4, WorkLeaves
<1>7. AtRun'
  <2> SUFFICES ASSUME NEW b \in Actor, pc'[b] \notin {"idle", "call", "settle"}
               PROVE  at'[b] \in RunJob
    BY DEF AtRun
  <2>1. CASE b = a BY <2>1 DEF Worked, HandsOf
  <2>2. CASE b # a BY <2>2 DEF Worked, HandsOf, IInv, AtRun
  <2> QED BY <2>1, <2>2
<1> QED BY <1>1, <1>2, <1>3, <1>4, <1>5, <1>6, <1>7

LEMMA WorkKeepsOne ==
  ASSUME IInv, NEW a \in Actor, Worked(a)
  PROVE  InHand' /\ Before' /\ After' /\ OneAfloat' /\ NoRace'
<1>1. InHand'
  <2> SUFFICES ASSUME NEW r \in Rev, rev'[r] # "revoked"
               PROVE  /\ On(Worker, r)' => St(jobs', r) \in {"running", "succeeded"}
                      /\ On(Operator, r)' => St(jobs', r) = "unknown"
    BY DEF InHand, St
  <2>1. rev[r] # "revoked" BY WorkLeaves
  <2>2. CASE St(jobs', r) = St(jobs, r)
    BY <2>1, <2>2, WorkLeaves DEF IInv, InHand, Actor
  <2>3. CASE St(jobs', r) # St(jobs, r) BY <2>1, <2>3, EndsInHand DEF Actor
  <2> QED BY <2>2, <2>3
<1>2. Before'
  <2> SUFFICES ASSUME NEW r \in Rev, Live(r)'
               PROVE  St(jobs', r) # "succeeded" /\ activated'[r] = 0
    BY DEF Before, St
  <2>1. Live(r) /\ rev[r] # "revoked" /\ ~Serving(r) BY WorkLeaves DEF Live, Living, Serving
  <2>2. St(jobs, r) # "succeeded" /\ activated[r] = 0 BY <2>1 DEF IInv, Before
  <2> QED BY <2>1, <2>2, EndsInHand DEF Worked
<1>3. ASSUME NEW r \in Rev, InFlight(Run(r))', rev[r] # "revoked" PROVE InFlight(Run(r))
  <2>1. CASE St(jobs', r) = St(jobs, r) BY <1>3, <2>1, WorkLeaves
  <2>2. CASE St(jobs', r) # St(jobs, r)
    <3>1. /\ St(jobs, r) \in {"running", "unknown", "succeeded"}
          /\ St(jobs', r) # "succeeded" /\ Ends(r, St(jobs', r))
      BY <1>3, <2>2, EndsInHand, WorkLeaves DEF Worked, JobsOf
    <3>2. St(jobs, r) # "succeeded" BY <3>1 DEF Ends
    <3> QED BY <3>1, <3>2, WorkLeaves
  <2> QED BY <2>1, <2>2
<1>4. After'
  <2> SUFFICES ASSUME NEW r \in Rev
               PROVE  /\ Serving(r)' => workflow' = "complete" /\ activated'[r] = 1
                      /\ rev'[r] = "superseded" => ~InFlight(Run(r))'
    BY DEF After
  <2>1. ASSUME Serving(r)' PROVE workflow' = "complete" /\ activated'[r] = 1
    <3>1. Serving(r) BY <2>1, WorkLeaves
    <3>2. workflow' = workflow BY <3>1 DEF Worked, HouseOf
    <3> QED BY <3>1, <3>2 DEF IInv, After, Worked
  <2>2. ASSUME rev'[r] = "superseded" PROVE ~InFlight(Run(r))'
    BY <2>2, <1>3, WorkLeaves DEF IInv, After
  <2> QED BY <2>1, <2>2
<1>5. ASSUME NEW r \in Rev, Afloat(r)' PROVE Afloat(r)
  BY <1>3, <1>5, WorkLeaves DEF Afloat
<1>6. OneAfloat' BY <1>5 DEF OneAfloat, IInv
<1>7. NoRace'
  <2> SUFFICES ASSUME NEW r \in Rev, Serving(r)', InFlight(Run(r))', machine'.rev \in Rev,
                      Live(machine.rev)'
               PROVE  FALSE
    BY DEF NoRace
  <2> DEFINE s == machine'.rev
  <2>1. Serving(r) /\ rev[r] # "revoked" BY WorkLeaves DEF Serving
  <2>2. InFlight(Run(r)) BY <2>1, <1>3
  <2>3. Live(s) /\ rev[s] # "revoked" BY WorkLeaves DEF Live, Living
  <2>4. s # machine.rev BY <2>1, <2>2, <2>3 DEF IInv, NoRace
  <2>5. On(a, s) BY <2>4 DEF Worked, MachineOf
  <2>6. St(jobs, s) \in {"running", "unknown"}
    BY <2>3, <2>5 DEF IInv, InHand, Before, Actor
  <2>7. Afloat(r) /\ Afloat(s) BY <2>1, <2>2, <2>3, <2>6, WorkLeaves DEF Afloat
  <2>8. r = s BY <2>7 DEF IInv, OneAfloat
  <2> QED BY <2>1, <2>3, <2>8 DEF Serving, Live, Living
<1> QED BY <1>1, <1>2, <1>4, <1>6, <1>7

LEMMA WorkKeeps ==
  ASSUME IInv, NEW a \in Actor, Worked(a)
  PROVE  IInv'
<1>1. Gated'
  <2>1. ASSUME consent' = None, NEW r \in Rev PROVE rev'[r] \in Gone
    <3>1. rev[r] \in Gone BY <2>1 DEF IInv, Gated, Worked, PeopleOf
    <3>2. rev'[r] = rev[r] BY <3>1 DEF Gone, Worked, HouseOf, Live, Living
    <3> QED BY <3>1, <3>2
  <2>2. home' = "onboarding" => \A r \in Rev : rev'[r] \in Gone BY DEF Worked, HouseOf
  <2> QED BY <2>1, <2>2 DEF Gated
<1>2. Own' BY WorkLeaves DEF IInv, Own, Worked, PeopleOf
<1>3. ASSUME NEW m, NEW r \in Rev, Admitted(m, r) PROVE Admitted(m, r)'
  BY <1>3, WorkLeaves DEF Admitted, Worked
<1>4. Waiting'
  <2> SUFFICES ASSUME NEW m \in Member, binding'[m] = Staged, NEW r \in Rev, Live(r)'
               PROVE  Admitted(m, r)'
    BY DEF Waiting
  <2>1. binding[m] = Staged BY DEF Worked, PeopleOf, Staged, Unbound
  <2> QED BY <2>1, <1>3, WorkLeaves DEF IInv, Waiting
<1>5. Public'
  <2> SUFFICES ASSUME NEW m \in Member, NEW r \in Rev, binding'[m] = r
               PROVE  activated'[r] > 0 /\ Admitted(m, r)'
    BY DEF Public
  <2>1. binding[m] = r BY DEF Worked, PeopleOf, Unbound, Rev
  <2>2. activated[r] > 0 /\ Admitted(m, r) BY <2>1 DEF IInv, Public
  <2> QED BY <2>2, <1>3 DEF Worked
<1> QED BY <1>1, <1>2, <1>4, <1>5, WorkKeepsRows, WorkKeepsOne DEF IInv

-----------------------------------------------------------------------------
(* A job is taken in hand *)

\* By the worker, a run that is pending or that it had; by the operator, one of
\* an unknown outcome.
Taken(a, j) ==
  /\ pc[a] = "idle"
  /\ pc' = [pc EXCEPT ![a] = IF j \in RunJob THEN "gate" ELSE "call"]
  /\ at' = [at EXCEPT ![a] = j]
  /\ IF a = Worker
     THEN jobs[j].status \in {"pending", "running"} /\ jobs' = [jobs EXCEPT ![j].status = "running"]
     ELSE jobs[j].status = "unknown" /\ jobs' = jobs
  /\ UNCHANGED <<home, workflow, rev, names, cycle, consent, binding, machine, activated, plan>>

LEMMA TakenRow ==
  ASSUME IInv, NEW a \in Actor, NEW j, Taken(a, j)
  PROVE  /\ IsJobs(jobs')
         /\ \A r \in Rev : St(jobs', r) = IF a = Worker /\ j = Run(r) THEN "running" ELSE St(jobs, r)
<1>1. jobs = [k \in JobId |-> jobs[k]] /\ \A r \in Rev : jobs[Run(r)] \in RunRow
  BY DEF IInv, IsJobs
<1>2. CASE a # Worker BY <1>1, <1>2 DEF Taken, IsJobs, St
<1>3. CASE a = Worker
  <2>1. jobs' = [jobs EXCEPT ![j].status = "running"] BY <1>3 DEF Taken
  <2>2. jobs' = [k \in JobId |-> jobs'[k]] BY <1>1, <2>1
  <2>3. ASSUME NEW r \in Rev
        PROVE  /\ jobs'[Run(r)] \in RunRow
               /\ jobs'[Run(r)].status = IF j = Run(r) THEN "running" ELSE jobs[Run(r)].status
    <3>0. Run(r) \in JobId BY RunIsJob
    <3>1. CASE j = Run(r)
      <4>1. jobs'[Run(r)] = [jobs[Run(r)] EXCEPT !.status = "running"]
        BY <1>1, <2>1, <3>0, <3>1
      <4> QED BY <4>1, <1>1, <3>1 DEF RunRow
    <3>2. CASE j # Run(r)
      <4>1. jobs'[Run(r)] = jobs[Run(r)] BY <1>1, <2>1, <3>0, <3>2
      <4> QED BY <4>1, <1>1, <3>2
    <3> QED BY <3>1, <3>2
  <2> QED BY <1>3, <2>2, <2>3 DEF IsJobs, St
<1> QED BY <1>2, <1>3

LEMMA TakeKeeps ==
  ASSUME IInv, NEW a \in Actor, NEW j, Taken(a, j)
  PROVE  IInv'
<1>0. /\ IsJobs(jobs')
      /\ \A r \in Rev : St(jobs', r) = IF a = Worker /\ j = Run(r) THEN "running" ELSE St(jobs, r)
  BY TakenRow
<1>1. /\ pc'[a] # "idle" /\ at'[a] = j
      /\ pc'[a] = IF j \in RunJob THEN "gate" ELSE "call"
      /\ \A b \in Actor \ {a} : pc'[b] = pc[b] /\ at'[b] = at[b]
  BY DEF Taken, IInv, Shape
<1>2. ASSUME NEW r \in Rev, j = Run(r)
      PROVE  /\ St(jobs, r) \in IF a = Worker THEN {"pending", "running"} ELSE {"unknown"}
             /\ rev[r] # "none"
  <2>1. St(jobs, r) \in IF a = Worker THEN {"pending", "running"} ELSE {"unknown"}
    BY <1>2 DEF Taken, St
  <2> QED BY <2>1 DEF IInv, Blank
<1>3. ASSUME NEW r \in Rev, NEW b \in Actor, On(b, r)' PROVE On(b, r) \/ (b = a /\ j = Run(r))
  BY <1>1, <1>3 DEF On
<1>4. \A r \in Rev : InFlight(Run(r))' <=> InFlight(Run(r))
  BY <1>0, <1>2 DEF InFlight, Status, St
<1>5. Shape' /\ IsJobs(jobs)' /\ Machinery'
  <2>1. pc' \in [Actor -> Place] BY DEF Taken, IInv, Shape, Place
  <2>2. at' = [b \in Actor |-> at'[b]]
    <3>1. at = [b \in Actor |-> at[b]] BY DEF IInv, Shape
    <3>2. at' = [at EXCEPT ![a] = j] BY DEF Taken
    <3> QED BY <3>1, <3>2
  <2>3. Machinery' BY DEF Taken, IInv, Machinery
  <2> QED BY <1>0, <2>1, <2>2, <2>3 DEF Taken, IInv, Shape, IsJobs
<1>6. InOrder' BY DEF Taken, IInv, InOrder, NextRev, Planned
<1>7. Made' BY <1>0 DEF Taken, IInv, Made, St
<1>8. Blank'
  <2> SUFFICES ASSUME NEW r \in Rev, rev[r] = "none"
               PROVE  St(jobs', r) = "none" /\ \A b \in Actor : ~On(b, r)'
    BY DEF Taken, IInv, Blank, St
  <2>1. j # Run(r) BY <1>2
  <2> QED BY <2>1, <1>0, <1>3 DEF IInv, Blank
<1>9. AtRun' BY <1>1 DEF IInv, AtRun
<1>10. InHand'
  <2> SUFFICES ASSUME NEW r \in Rev, rev[r] # "revoked"
               PROVE  /\ On(Worker, r)' => St(jobs', r) \in {"running", "succeeded"}
                      /\ On(Operator, r)' => St(jobs', r) = "unknown"
    BY DEF Taken, InHand, St
  <2>1. /\ On(Worker, r) => St(jobs, r) \in {"running", "succeeded"}
        /\ On(Operator, r) => St(jobs, r) = "unknown"
    BY DEF IInv, InHand
  <2>2. CASE j = Run(r)
    <3>1. a = Worker => ~On(Operator, r) BY <2>1, <2>2, <1>2
    <3>2. a # Worker => a = Operator /\ ~On(Worker, r) BY <2>1, <2>2, <1>2 DEF Actor
    <3> QED BY <3>1, <3>2, <2>2, <1>0, <1>2, <1>3, ActorAssumption DEF Actor
  <2>3. CASE j # Run(r) BY <2>1, <2>3, <1>0, <1>3, ActorAssumption DEF Actor
  <2> QED BY <2>2, <2>3
<1>11. Before' /\ After'
  BY <1>0, <1>4 DEF Taken, IInv, Before, After, Live, Serving, St
<1>12. OneAfloat' /\ NoRace'
  BY <1>4 DEF Taken, IInv, OneAfloat, NoRace, Afloat, Serving, Live
<1>13. Gated' /\ Own' BY DEF Taken, IInv, Gated, Own, Live, Serving
<1>14. ASSUME NEW r \in Rev, Over(r) PROVE Over(r)'
  <2>1. St(jobs, r) \in {"failed", "cancelled"} BY <1>14 DEF Over
  <2>2. j # Run(r) BY <2>1, <1>2
  <2>3. St(jobs', r) = St(jobs, r) BY <2>2, <1>0
  <2>4. \A b \in Actor : On(b, r)' => On(b, r) BY <2>2, <1>3
  <2> QED BY <1>14, <2>3, <2>4 DEF Over, St
<1>15. Waiting' /\ Public'
  BY <1>14 DEF Taken, IInv, Waiting, Public, Admitted, Live
<1> QED BY <1>5, <1>6, <1>7, <1>8, <1>9, <1>10, <1>11, <1>12, <1>13, <1>15 DEF IInv

-----------------------------------------------------------------------------
(* What was planned is undone *)

\* Every revision that is live or may go live is revoked, and their jobs are
\* cancelled or of an outcome nobody knows.
Undone ==
  /\ \A r \in Rev : rev'[r] = IF rev[r] \in Gone THEN rev[r] ELSE "revoked"
  /\ IsJobs(jobs')
  /\ \A r \in Rev : St(jobs', r) # St(jobs, r) =>
       InFlight(Run(r)) /\ St(jobs', r) \in {"unknown", "cancelled"}
  /\ consent' \in {consent, None} /\ rev' = [r \in Rev |-> rev'[r]]
  /\ UNCHANGED <<names, cycle, binding, machine, activated, plan, pc, at>>

LEMMA UndoneKeeps == ASSUME IInv, Undone PROVE IInv'
<1>1. \A r \in Rev : InFlight(Run(r)) <=> St(jobs, r) \in {"pending", "running", "unknown"}
  BY DEF InFlight, Status, St
<1>2. \A r \in Rev : InFlight(Run(r))' <=> St(jobs', r) \in {"pending", "running", "unknown"}
  BY DEF InFlight, Status, St
<1>3. \A r \in Rev : /\ rev'[r] \in Gone /\ ~Live(r)' /\ ~Serving(r)'
                     /\ rev'[r] = "none" <=> rev[r] = "none"
                     /\ rev'[r] # "revoked" => rev'[r] = rev[r]
                     /\ rev[r] = "revoked" => rev'[r] = "revoked"
  BY DEF Undone, Gone, Live, Living, Serving
<1>4. ASSUME NEW r \in Rev, rev'[r] # "revoked" PROVE St(jobs', r) = St(jobs, r)
  <2>1. rev[r] \in {"none", "superseded"} BY <1>3, <1>4 DEF Gone
  <2>2. ~InFlight(Run(r)) BY <2>1, <1>1 DEF IInv, Blank, After
  <2> QED BY <2>2 DEF Undone
<1>5. \A r \in Rev, b \in Actor : On(b, r)' <=> On(b, r) BY DEF Undone, On
<1>6. ASSUME NEW r \in Rev, Over(r) PROVE Over(r)'
  <2>1. St(jobs', r) = St(jobs, r) BY <1>1, <1>6 DEF Undone, Over
  <2> QED BY <2>1, <1>5, <1>6 DEF Over, St
<1>7. Shape' /\ IsJobs(jobs)' /\ Machinery'
  <2>1. rev' \in [Rev -> {"none", "planned", "issued", "claimed", "active", "superseded", "revoked"}]
    BY DEF Undone, IInv, Shape
  <2>2. consent' \in 0..RevMax BY BoundsAssumption DEF Undone, IInv, Shape, None
  <2> QED BY <2>1, <2>2 DEF Undone, IInv, Shape, Machinery, IsJobs
<1>8. InOrder'
  <2>1. Planned' = Planned BY <1>3 DEF Planned
  <2> QED BY <2>1 DEF IInv, InOrder, NextRev
<1>9. Made'
  <2> SUFFICES ASSUME NEW r \in Rev, rev'[r] # "none" PROVE St(jobs', r) # "none"
    BY DEF Made, St
  <2>1. St(jobs, r) # "none" BY <1>3 DEF IInv, Made
  <2> QED BY <2>1 DEF Undone
<1>10. Blank'
  <2> SUFFICES ASSUME NEW r \in Rev, rev'[r] = "none"
               PROVE  /\ St(jobs', r) = "none" /\ activated'[r] = 0 /\ machine'.rev # r
                      /\ \A b \in Actor : ~On(b, r)'
                      /\ \A m \in Member : binding'[m] # r
    BY DEF Blank, St
  <2> QED BY <1>3, <1>4, <1>5 DEF IInv, Blank, Undone
<1>11. AtRun' BY DEF Undone, IInv, AtRun
<1>12. InHand'
  <2> SUFFICES ASSUME NEW r \in Rev, rev'[r] # "revoked"
               PROVE  /\ On(Worker, r)' => St(jobs', r) \in {"running", "succeeded"}
                      /\ On(Operator, r)' => St(jobs', r) = "unknown"
    BY DEF InHand, St
  <2>1. rev[r] # "revoked" /\ St(jobs', r) = St(jobs, r) BY <1>3, <1>4
  <2> QED BY <2>1, <1>5 DEF IInv, InHand, Actor
<1>13. Before' /\ NoRace' /\ Gated' /\ Own' /\ Waiting'
  BY <1>3 DEF Before, NoRace, Gated, Own, Waiting
<1>14. After' BY <1>1, <1>2, <1>3, <1>4 DEF IInv, After
<1>15. OneAfloat' BY <1>1, <1>2, <1>3, <1>4 DEF IInv, OneAfloat, Afloat
<1>16. Public' BY <1>6 DEF IInv, Public, Admitted, Undone
<1> QED BY <1>7, <1>8, <1>9, <1>10, <1>11, <1>12, <1>13, <1>14, <1>15, <1>16 DEF IInv

-----------------------------------------------------------------------------
(* A revision is planned *)

\* Nothing else is under way; the manifest names who is bound now, and the
\* consent is the one there is.
NewRev(S) ==
  /\ NextRev <= RevMax
  /\ rev' = [rev EXCEPT ![NextRev] = "planned"]
  /\ names' = [names EXCEPT ![NextRev] = S]
  /\ cycle' = [cycle EXCEPT ![NextRev] = consent']
  /\ IsJobs(jobs')
  /\ \A r \in Rev : St(jobs', r) = IF r = NextRev THEN "pending" ELSE St(jobs, r)
  /\ \A r \in Rev : ~Afloat(r)
  /\ home' = "provisioning"
  /\ workflow' # workflow => \A r \in Rev : ~Serving(r)
  /\ consent' \in Rev /\ (consent = None \/ consent' = consent)
  /\ binding' \in [Member -> Unbound..RevMax]
  /\ \A m \in Member : /\ binding'[m] # binding[m] => binding'[m] = Staged
                       /\ binding'[m] = Staged => m \in S
  /\ S \subseteq Member
  /\ UNCHANGED <<machine, activated, plan, pc, at>>

LEMMA NextIsNat == ASSUME IInv PROVE NextRev \in Nat \ {0} /\ Planned = 1..(NextRev - 1)
<1> DEFINE n == NextRev - 1
<1>1. n \in Nat /\ Planned = 1..n BY DEF IInv, InOrder
<1> HIDE DEF n
<1>2. IsFiniteSet(Planned) BY <1>1, FS_Interval
<1>3. Cardinality(Planned) \in Nat BY <1>2, FS_CardinalityType
<1> QED BY <1>1, <1>3 DEF NextRev, n

LEMMA NextIsNew ==
  ASSUME IInv, NextRev <= RevMax
  PROVE  NextRev \in Rev /\ rev[NextRev] = "none"
<1>1. NextRev \in Rev BY NextIsNat, BoundsAssumption DEF Rev
<1>2. NextRev \notin Planned BY NextIsNat
<1> QED BY <1>1, <1>2 DEF Planned

LEMMA NewRevKeeps == ASSUME IInv, NEW S, NewRev(S) PROVE IInv'
<1> DEFINE n == NextRev
<1>1. n \in Rev /\ rev[n] = "none" BY NextIsNew DEF NewRev
<1>2. /\ \A r \in Rev : rev'[r] = IF r = n THEN "planned" ELSE rev[r]
      /\ \A r \in Rev : names'[r] = IF r = n THEN S ELSE names[r]
      /\ \A r \in Rev : cycle'[r] = IF r = n THEN consent' ELSE cycle[r]
      /\ \A r \in Rev : St(jobs', r) = IF r = n THEN "pending" ELSE St(jobs, r)
  BY <1>1 DEF NewRev, IInv, Shape
<1>3. /\ St(jobs, n) = "none" /\ activated[n] = 0 /\ machine.rev # n
      /\ \A b \in Actor : ~On(b, n)
      /\ \A m \in Member : binding[m] # n
  BY <1>1 DEF IInv, Blank
<1>4. \A r \in Rev, b \in Actor : On(b, r)' <=> On(b, r) BY DEF NewRev, On
<1>5. \A r \in Rev : InFlight(Run(r)) <=> St(jobs, r) \in {"pending", "running", "unknown"}
  BY DEF InFlight, Status, St
<1>6. \A r \in Rev : InFlight(Run(r))' <=> St(jobs', r) \in {"pending", "running", "unknown"}
  BY DEF InFlight, Status, St
<1>7. \A r \in Rev : /\ Live(r)' <=> Live(r) \/ r = n
                     /\ Serving(r)' <=> Serving(r)
                     /\ r = n => ~Live(r) /\ ~Serving(r)
  BY <1>1, <1>2 DEF Live, Living, Serving
<1>8. /\ \A r \in Rev : r # n => (Over(r)' <=> Over(r))
      /\ ~Over(n)
  <2>1. \A r \in Rev : Over(r)' <=> St(jobs', r) = "failed" \/ (St(jobs', r) = "cancelled" /\ \A a \in Actor : ~On(a, r)')
    BY DEF Over, St
  <2> QED BY <2>1, <1>2, <1>3, <1>4 DEF Over
<1> HIDE DEF n
<1>9. Shape' /\ IsJobs(jobs)' /\ Machinery'
  <2>1. names' \in [Rev -> SUBSET Member] BY DEF NewRev, IInv, Shape
  <2>2. consent' \in 0..RevMax BY DEF NewRev, Rev
  <2>3. cycle' \in [Rev -> 0..RevMax] BY <2>2 DEF NewRev, IInv, Shape
  <2>4. rev' \in [Rev -> {"none", "planned", "issued", "claimed", "active", "superseded", "revoked"}]
    BY DEF NewRev, IInv, Shape
  <2> QED BY <2>1, <2>2, <2>3, <2>4 DEF NewRev, IInv, Shape, Machinery, IsJobs
<1>10. InOrder'
  <2>1. n \in Int /\ n - 1 \in Nat /\ Planned = 1..(n - 1) BY <1>1 DEF IInv, InOrder, n, Rev
  <2>2. Planned' = Planned \cup {n} BY <1>1, <1>2 DEF Planned
  <2>3. Planned' = 1..n BY <2>1, <2>2
  <2>4. Cardinality(Planned') = n BY <2>1, <2>3, FS_Interval
  <2>5. NextRev' = n + 1 BY <2>4 DEF NextRev
  <2> QED BY <2>1, <2>3, <2>5 DEF InOrder
<1>11. Made' BY <1>2 DEF IInv, Made, St
<1>12. Blank'
  <2> SUFFICES ASSUME NEW r \in Rev, rev'[r] = "none"
               PROVE  /\ St(jobs', r) = "none" /\ activated'[r] = 0 /\ machine'.rev # r
                      /\ \A b \in Actor : ~On(b, r)'
                      /\ \A m \in Member : binding'[m] # r
    BY DEF Blank, St
  <2>1. r # n /\ rev[r] = "none" BY <1>2
  <2>2. \A m \in Member : binding'[m] # r BY <2>1 DEF NewRev, IInv, Blank, Staged, Rev
  <2> QED BY <2>1, <2>2, <1>2, <1>4 DEF IInv, Blank, NewRev
<1>13. AtRun' BY DEF NewRev, IInv, AtRun
<1>14. InHand' BY <1>2, <1>3, <1>4 DEF IInv, InHand, St, Actor
<1>15. Before' BY <1>2, <1>3, <1>7 DEF IInv, Before, St, NewRev
<1>16. After' BY <1>2, <1>5, <1>6, <1>7 DEF IInv, After, NewRev
<1>17. \A r \in Rev : Afloat(r)' => r = n BY <1>2, <1>5, <1>6 DEF NewRev, Afloat
<1>18. OneAfloat' BY <1>17 DEF OneAfloat
<1>19. NoRace'
  <2> SUFFICES ASSUME NEW r \in Rev, Serving(r)', InFlight(Run(r))' PROVE FALSE BY DEF NoRace
  <2>1. Afloat(r)' BY DEF Afloat, Serving
  <2>2. r = n BY <2>1, <1>17
  <2> QED BY <2>2, <1>7
<1>20. Gated' BY DEF NewRev, Gated, Rev, None
<1>21. Own'
  <2> SUFFICES ASSUME NEW r \in Rev, Live(r)' \/ Serving(r)' PROVE cycle'[r] = consent'
    BY DEF Own
  <2>1. CASE r = n BY <2>1, <1>2
  <2>2. CASE r # n
    <3>1. Live(r) \/ Serving(r) BY <2>2, <1>7
    <3>2. consent # None BY <3>1 DEF IInv, Gated, Gone, Live, Living, Serving
    <3> QED BY <2>2, <3>1, <3>2, <1>2 DEF IInv, Own, NewRev
  <2> QED BY <2>1, <2>2
<1>22. Waiting'
  <2> SUFFICES ASSUME NEW m \in Member, binding'[m] = Staged, NEW r \in Rev, Live(r)'
               PROVE  m \in names'[r] \/ Over(r)'
    BY DEF Waiting, Admitted
  <2>1. CASE r = n BY <2>1, <1>2 DEF NewRev
  <2>2. CASE r # n
    <3>1. Live(r) /\ ~Afloat(r) BY <2>2, <1>7 DEF NewRev
    <3>2. rev[r] # "revoked" /\ rev[r] # "none" BY <3>1 DEF Live, Living
    <3>3. St(jobs, r) \notin {"none", "succeeded", "pending", "running", "unknown"}
      BY <3>1, <3>2, <1>5 DEF IInv, Made, Before, Afloat
    <3>4. St(jobs, r) \in {"failed", "cancelled"} BY <3>3 DEF IInv, IsJobs, RunRow, St
    <3>5. \A b \in Actor : ~On(b, r) BY <3>2, <3>4 DEF IInv, InHand, Actor
    <3> QED BY <2>2, <3>4, <3>5, <1>8 DEF Over
  <2> QED BY <2>1, <2>2
<1>23. Public'
  <2> SUFFICES ASSUME NEW m \in Member, NEW r \in Rev, binding'[m] = r
               PROVE  activated'[r] > 0 /\ (m \in names'[r] \/ Over(r)')
    BY DEF Public, Admitted
  <2>1. binding[m] = r BY DEF NewRev, Staged, Rev
  <2>2. r # n BY <2>1, <1>3
  <2> QED BY <2>1, <2>2, <1>2, <1>8 DEF IInv, Public, Admitted, NewRev
<1> QED BY <1>9, <1>10, <1>11, <1>12, <1>13, <1>14, <1>15, <1>16, <1>18, <1>19, <1>20,
           <1>21, <1>22, <1>23 DEF IInv

-----------------------------------------------------------------------------
(* A revision goes live *)

LEMMA ActivateKeeps == ASSUME IInv, Activate PROVE IInv'
<1> DEFINE e == machine.rev
<1>0. e \in Rev /\ rev[e] = "claimed" BY DEF Activate, MayActivate, Valid, Env, IInv, Machinery
<1>1. /\ \A r \in Rev : rev'[r] = IF r = e THEN "active"
                                  ELSE IF rev[r] = "active" THEN "superseded" ELSE rev[r]
      /\ rev' = [r \in Rev |-> rev'[r]]
      /\ \A r \in Rev : activated'[r] = IF r = e THEN activated[r] + 1 ELSE activated[r]
      /\ binding' = [m \in Member |-> IF binding[m] = Staged THEN e ELSE binding[m]]
      /\ activated' = [activated EXCEPT ![e] = @ + 1]
      /\ home' = "active" /\ workflow' = "complete" /\ consent # None
  BY <1>0 DEF Activate, MayActivate, Supersedes, Env, IInv, Shape
<1>2. UNCHANGED <<names, cycle, consent, machine, pc, at, plan>> BY DEF Activate
<1>3. /\ IsJobs(jobs')
      /\ \A r \in Rev : St(jobs', r) = IF r = e /\ St(jobs, r) \in {"pending", "running"}
                                       THEN "succeeded" ELSE St(jobs, r)
  <2>0. IsJobs(jobs) BY DEF IInv
  <2>1. CASE St(jobs, e) \in {"pending", "running"}
    <3>1. jobs' = Settle(jobs, Run(e), "succeeded", "none")
      BY <2>1 DEF Activate, Env, Status, St
    <3> QED BY <2>0, <2>1, <3>1, <1>0, Settles, RunIsJob
  <2>2. CASE St(jobs, e) \notin {"pending", "running"}
    <3>1. jobs' = jobs BY <2>2 DEF Activate, Env, Status, St
    <3> QED BY <2>0, <2>2, <3>1 DEF St
  <2> QED BY <2>1, <2>2
<1>4. \A r \in Rev : InFlight(Run(r)) <=> St(jobs, r) \in {"pending", "running", "unknown"}
  BY DEF InFlight, Status, St
<1>5. \A r \in Rev : InFlight(Run(r))' <=> St(jobs', r) \in {"pending", "running", "unknown"}
  BY DEF InFlight, Status, St
<1>6. \A r \in Rev, b \in Actor : On(b, r)' <=> On(b, r) BY <1>2 DEF On
<1>7. ASSUME NEW r \in Rev, Over(r) PROVE Over(r)'
  <2>1. St(jobs', r) = St(jobs, r) BY <1>3, <1>7 DEF Over
  <2> QED BY <2>1, <1>6, <1>7 DEF Over, St
<1>8. Live(e) /\ ~Serving(e) /\ activated[e] = 0
  BY <1>0 DEF IInv, Before, Live, Living, Serving
<1>9. \A r \in Rev : /\ Live(r)' <=> Live(r) /\ r # e
                     /\ Serving(r)' <=> r = e
                     /\ rev'[r] = "superseded" <=> Serving(r) \/ rev[r] = "superseded"
                     /\ rev'[r] = "none" <=> rev[r] = "none"
                     /\ rev'[r] = "revoked" <=> rev[r] = "revoked"
  BY <1>0, <1>1 DEF Live, Living, Serving
<1>10. \A r \in Rev : Serving(r) => ~InFlight(Run(r)) BY <1>0, <1>8 DEF IInv, NoRace
<1> HIDE DEF e
<1>11. Shape' /\ IsJobs(jobs)' /\ Machinery'
  <2>1. rev' \in [Rev -> {"none", "planned", "issued", "claimed", "active", "superseded", "revoked"}]
    BY <1>1 DEF IInv, Shape
  <2>2. binding' \in [Member -> Unbound..RevMax] BY <1>0, <1>1 DEF IInv, Shape, Rev, Unbound
  <2>3. activated' \in [Rev -> Nat] BY <1>0, <1>1 DEF IInv, Shape
  <2> QED BY <1>2, <1>3, <2>1, <2>2, <2>3 DEF IInv, Shape, Machinery, IsJobs
<1>12. InOrder'
  <2>1. Planned' = Planned BY <1>9 DEF Planned
  <2> QED BY <2>1 DEF IInv, InOrder, NextRev
<1>13. Made' BY <1>3, <1>9 DEF IInv, Made, St
<1>14. Blank'
  <2> SUFFICES ASSUME NEW r \in Rev, rev'[r] = "none"
               PROVE  /\ St(jobs', r) = "none" /\ activated'[r] = 0 /\ machine'.rev # r
                      /\ \A b \in Actor : ~On(b, r)'
                      /\ \A m \in Member : binding'[m] # r
    BY DEF Blank, St
  <2>1. rev[r] = "none" /\ r # e BY <1>9, <1>0
  <2>2. /\ St(jobs, r) = "none" /\ activated[r] = 0 /\ machine.rev # r
        /\ \A b \in Actor : ~On(b, r)
        /\ \A m \in Member : binding[m] # r
    BY <2>1 DEF IInv, Blank
  <2>3. \A m \in Member : binding'[m] # r BY <2>1, <2>2, <1>1
  <2> QED BY <2>1, <2>2, <2>3, <1>1, <1>2, <1>3, <1>6
<1>15. AtRun' BY <1>2 DEF IInv, AtRun
<1>16. InHand'
  <2> SUFFICES ASSUME NEW r \in Rev, rev'[r] # "revoked"
               PROVE  /\ On(Worker, r)' => St(jobs', r) \in {"running", "succeeded"}
                      /\ On(Operator, r)' => St(jobs', r) = "unknown"
    BY DEF InHand, St
  <2> QED BY <1>3, <1>6, <1>9 DEF IInv, InHand, Actor
<1>17. Before' BY <1>1, <1>3, <1>9 DEF IInv, Before, St
<1>18. After'
  <2>1. \A r \in Rev : Serving(r)' => workflow' = "complete" /\ activated'[r] = 1
    BY <1>0, <1>1, <1>8, <1>9
  <2>2. \A r \in Rev : rev'[r] = "superseded" => ~InFlight(Run(r))'
    BY <1>3, <1>4, <1>5, <1>9, <1>10 DEF IInv, After
  <2> QED BY <2>1, <2>2 DEF After
<1>19. \A r \in Rev : Afloat(r)' => Afloat(r) BY <1>3, <1>4, <1>5, <1>9 DEF Afloat
<1>20. OneAfloat' BY <1>19 DEF IInv, OneAfloat
<1>21. NoRace'
  <2>1. machine'.rev = e BY <1>2 DEF e
  <2> QED BY <2>1, <1>9 DEF NoRace
<1>22. Gated' BY <1>1, <1>2 DEF Gated
<1>23. Own'
  <2>1. Live(e) BY <1>8
  <2> QED BY <1>0, <1>2, <1>9, <2>1 DEF IInv, Own
<1>24. Waiting' BY <1>0, <1>1 DEF Waiting, Staged, Rev
<1>25. Public'
  <2> SUFFICES ASSUME NEW m \in Member, NEW r \in Rev, binding'[m] = r
               PROVE  activated'[r] > 0 /\ (m \in names[r] \/ Over(r)')
    BY <1>2 DEF Public, Admitted
  <2>1. CASE binding[m] = Staged
    <3>1. r = e BY <2>1, <1>1
    <3> QED BY <2>1, <3>1, <1>0, <1>1, <1>7, <1>8 DEF IInv, Waiting, Admitted
  <2>2. CASE binding[m] # Staged
    <3>1. binding[m] = r BY <2>2, <1>1
    <3>2. activated[r] > 0 /\ (m \in names[r] \/ Over(r)) BY <3>1 DEF IInv, Public, Admitted
    <3>3. activated[r] \in Nat BY DEF IInv, Shape
    <3> QED BY <3>2, <3>3, <1>1, <1>7
  <2> QED BY <2>1, <2>2
<1> QED BY <1>11, <1>12, <1>13, <1>14, <1>15, <1>16, <1>17, <1>18, <1>20, <1>21, <1>22,
           <1>23, <1>24, <1>25, <1>3 DEF IInv

-----------------------------------------------------------------------------
(* What the parts of a step come to *)

LEMMA IdleHands ==
  ASSUME IInv, NEW a \in Actor, Idle(a)
  PROVE  HandsOf(a) /\ pc'[a] = "idle"
<1>1. pc \in [Actor -> Place] /\ at = [b \in Actor |-> at[b]] BY DEF IInv, Shape
<1>2. /\ pc' = [pc EXCEPT ![a] = "idle"]
      /\ at' = [at EXCEPT ![a] = Run(1)]
  BY DEF Idle
<1>3. pc' \in [Actor -> Place] BY <1>1, <1>2 DEF Place
<1>4. at' = [b \in Actor |-> at'[b]] BY <1>1, <1>2
<1>5. \A b \in Actor \ {a} : pc'[b] = pc[b] /\ at'[b] = at[b] BY <1>1, <1>2
<1>6. pc'[a] = "idle" BY <1>1, <1>2
<1> QED BY <1>3, <1>4, <1>5, <1>6 DEF HandsOf

LEMMA GoHands ==
  ASSUME IInv, NEW a \in Actor, NEW place \in Place, NEW answer, NEW ref, Go(a, place, answer, ref),
         pc[a] # "idle", at[a] \in RunJob \/ place \in {"call", "settle"}
  PROVE  HandsOf(a)
<1>1. pc \in [Actor -> Place] /\ at = [b \in Actor |-> at[b]] BY DEF IInv, Shape
<1>2. pc' = [pc EXCEPT ![a] = place] /\ at' = at BY DEF Go
<1>3. pc' \in [Actor -> Place] /\ pc'[a] = place BY <1>1, <1>2
<1>4. \A b \in Actor \ {a} : pc'[b] = pc[b] BY <1>1, <1>2
<1> QED BY <1>1, <1>2, <1>3, <1>4 DEF HandsOf

LEMMA SameHands ==
  ASSUME IInv, NEW a \in Actor, UNCHANGED <<pc, at>>
  PROVE  HandsOf(a)
  BY DEF IInv, Shape, AtRun, HandsOf

\* A run is in hand wherever its steps are taken.
LEMMA TheRun ==
  ASSUME IInv, NEW a \in Actor, pc[a] # "idle",
         pc[a] \notin {"call", "settle"} \/ at[a] \in RunJob
  PROVE  For(a) \in Rev /\ at[a] = Run(For(a)) /\ On(a, For(a)) /\ at[a] \in RunJob
<1>1. at[a] \in RunJob BY DEF IInv, AtRun
<1>2. PICK r \in Rev : at[a] = Run(r) BY <1>1 DEF RunJob
<1>3. For(a) = r BY <1>2 DEF For, Run
<1> QED BY <1>1, <1>2, <1>3 DEF On

LEMMA SameJobs ==
  ASSUME IInv, NEW a \in Actor, UNCHANGED jobs
  PROVE  JobsOf(a)
  BY DEF IInv, JobsOf, St

\* A job of another kind is made or settled.
LEMMA OtherJob ==
  ASSUME IInv, NEW a \in Actor, NEW j, j \notin RunJob, NEW x,
         NEW s \in {"pending", "running", "unknown", "succeeded", "failed", "cancelled"},
         NEW w \in {"none", "awaiting", "quarantine", "problem"},
         jobs' \in {jobs, Create(jobs, j, x), Settle(jobs, j, s, w)}
  PROVE  JobsOf(a)
<1>1. IsJobs(jobs) BY DEF IInv
<1>2. CASE jobs' = jobs BY <1>2, SameJobs
<1>3. CASE jobs' = Create(jobs, j, x) BY <1>1, <1>3, Creates DEF JobsOf
<1>4. CASE jobs' = Settle(jobs, j, s, w)
  <2>1. IsJobs(jobs') /\ \A r \in Rev : St(jobs', r) = IF j = Run(r) THEN s ELSE St(jobs, r)
    BY <1>1, <1>4, Settles
  <2>2. \A r \in Rev : St(jobs', r) = St(jobs, r) BY <2>1, RunIsJob
  <2> QED BY <2>1, <2>2 DEF JobsOf
<1> QED BY <1>2, <1>3, <1>4

\* The run in hand is settled, and let go.
LEMMA RunEnds ==
  ASSUME IInv, NEW a \in Actor, NEW r \in Rev, On(a, r), pc'[a] = "idle",
         NEW s \in {"pending", "running", "unknown", "succeeded", "failed", "cancelled"},
         NEW w \in {"none", "awaiting", "quarantine", "problem"},
         Ends(r, s), jobs' = Settle(jobs, Run(r), s, w)
  PROVE  JobsOf(a)
<1>1. /\ IsJobs(jobs')
      /\ \A q \in Rev : St(jobs', q) = IF Run(r) = Run(q) THEN s ELSE St(jobs, q)
  BY Settles DEF IInv
<1>2. ASSUME NEW q \in Rev, St(jobs', q) # St(jobs, q) PROVE q = r /\ St(jobs', q) = s
  BY <1>1, <1>2, RunIsJob
<1> QED BY <1>1, <1>2 DEF JobsOf

LEMMA SamePeople ==
  ASSUME IInv, UNCHANGED <<consent, binding>>
  PROVE  PeopleOf
  BY DEF IInv, Shape, PeopleOf

LEMMA FewerPeople ==
  ASSUME IInv, UNCHANGED consent, binding' = Retired
  PROVE  PeopleOf
  BY BoundsAssumption DEF IInv, Shape, PeopleOf, Retired, Unbound

LEMMA SameHouse ==
  ASSUME IInv, UNCHANGED <<rev, workflow>>, home' \in {home, "active"}
  PROVE  HouseOf
  BY DEF IInv, Shape, HouseOf, Gated

LEMMA MarksUnknown ==
  ASSUME IInv, NEW a \in Actor, NEW r \in Rev, On(a, r), pc'[a] = "idle", MarkUnknown(Run(r))
  PROVE  JobsOf(a)
<1>1. CASE Status(Run(r)) \in {"running", "unknown", "cancelled"}
  <2>1. Ends(r, "unknown") BY <1>1 DEF Ends, Status, St
  <2>2. jobs' = Settle(jobs, Run(r), "unknown", "problem") BY <1>1 DEF MarkUnknown
  <2> QED BY <2>1, <2>2, RunEnds
<1>2. CASE Status(Run(r)) \notin {"running", "unknown", "cancelled"}
  BY <1>2, SameJobs DEF MarkUnknown
<1> QED BY <1>1, <1>2

LEMMA MarksFailed ==
  ASSUME IInv, NEW a \in Actor, NEW r \in Rev, On(a, r), pc'[a] = "idle", MarkFailed(r),
         UNCHANGED <<rev, workflow, consent>>
  PROVE  JobsOf(a) /\ PeopleOf /\ HouseOf
<1>1. CASE Status(Run(r)) \in {"running", "unknown"}
  <2>1. Ends(r, "failed") BY <1>1 DEF Ends, Status, St
  <2>2. jobs' = Settle(jobs, Run(r), "failed", "problem") /\ binding' = Retired
    BY <1>1 DEF MarkFailed
  <2>3. home' \in {home, "active"} BY <1>1 DEF MarkFailed, Restore
  <2> QED BY <2>1, <2>2, <2>3, RunEnds, FewerPeople, SameHouse
<1>2. CASE Status(Run(r)) \notin {"running", "unknown"}
  <2>1. UNCHANGED <<jobs, binding, home>> BY <1>2 DEF MarkFailed
  <2> QED BY <2>1, SameJobs, SamePeople, SameHouse
<1> QED BY <1>1, <1>2

LEMMA DeadlineEnds ==
  ASSUME IInv, NEW a \in Actor, NEW r \in Rev, On(a, r), pc'[a] = "idle", Deadline(r),
         UNCHANGED <<rev, workflow, consent>>
  PROVE  JobsOf(a) /\ PeopleOf /\ HouseOf
<1>1. CASE Status(Run(r)) = "succeeded"
  BY <1>1, SameJobs, SamePeople, SameHouse DEF Deadline
<1>2. CASE Status(Run(r)) # "succeeded" /\ Serving(r)
  <2>1. Ends(r, "succeeded") BY <1>2 DEF Ends
  <2>2. jobs' = Settle(jobs, Run(r), "succeeded", "none") /\ UNCHANGED <<binding, home>>
    BY <1>2 DEF Deadline
  <2> QED BY <2>1, <2>2, RunEnds, SamePeople, SameHouse
<1>3. CASE Status(Run(r)) # "succeeded" /\ ~Serving(r)
  BY <1>3, MarksFailed DEF Deadline
<1> QED BY <1>1, <1>2, <1>3

\* The machine is left, loses its token, or goes.
LEMMA SameMachine ==
  ASSUME IInv, NEW a \in Actor,
         machine' \in {machine, NoMachine, [machine EXCEPT !.token = None]}
  PROVE  MachineOf(a)
<1>0. /\ machine = [id |-> machine.id, rev |-> machine.rev, token |-> machine.token]
      /\ machine.rev \in 0..RevMax /\ (machine.token # None => machine.rev \in Rev)
  BY DEF IInv, Machinery
<1>1. CASE machine' = machine BY <1>0, <1>1 DEF MachineOf, Machinery
<1>2. CASE machine' = NoMachine
  <2>1. machine' = [id |-> 0, rev |-> 0, token |-> 0] BY <1>2 DEF NoMachine, None
  <2>2. machine'.id = 0 /\ machine'.rev = 0 /\ machine'.token = 0 BY <2>1
  <2>3. machine' = [id |-> machine'.id, rev |-> machine'.rev, token |-> machine'.token]
    BY <2>1, <2>2
  <2>4. Machinery' BY <2>2, <2>3, BoundsAssumption DEF Machinery, None
  <2> QED BY <2>2, <2>4 DEF MachineOf, Rev
<1>3. CASE machine' = [machine EXCEPT !.token = None]
  <2>1. /\ machine'.id = machine.id /\ machine'.rev = machine.rev /\ machine'.token = None
        /\ machine' = [id |-> machine.id, rev |-> machine.rev, token |-> None]
    BY <1>0, <1>3
  <2>2. machine' = [id |-> machine'.id, rev |-> machine'.rev, token |-> machine'.token]
    BY <2>1
  <2>3. Machinery' BY <1>0, <2>1, <2>2 DEF Machinery
  <2> QED BY <2>1, <2>3 DEF MachineOf
<1> QED BY <1>1, <1>2, <1>3

-----------------------------------------------------------------------------
(* The steps of the worker and of the operator *)

LEMMA GateWorks == ASSUME IInv, NEW a \in Actor, Gate(a) PROVE Worked(a)
<1> DEFINE r == For(a)
<1>1. r \in Rev /\ at[a] = Run(r) /\ On(a, r) /\ at[a] \in RunJob BY TheRun DEF Gate
<1>2. UNCHANGED <<machine, activated, plan, consent, names, cycle>> BY DEF Gate
<1>3. MachineOf(a) BY <1>2, SameMachine
<1>4. CASE Block(r) /\ Idle(a)
  <2>1. HandsOf(a) /\ pc'[a] = "idle" BY <1>4, IdleHands
  <2>2. CASE Status(Run(r)) \notin {"running", "unknown"}
    <3>1. UNCHANGED <<jobs, binding, rev, home, workflow>> BY <1>4, <2>2 DEF Block
    <3> QED BY <1>2, <1>3, <2>1, <3>1, SameJobs, SamePeople, SameHouse DEF Worked
  <2>3. CASE Status(Run(r)) \in {"running", "unknown"}
    <3>1. jobs' = Settle(jobs, Run(r), "failed", "problem") /\ binding' = Retired
      BY <1>4, <2>3 DEF Block
    <3>2. Ends(r, "failed") BY <2>3 DEF Ends, Status, St
    <3>3. JobsOf(a) /\ PeopleOf BY <1>1, <1>2, <2>1, <3>1, <3>2, RunEnds, FewerPeople
    <3>4. HouseOf
      <4>1. CASE workflow \in {"runtime_provisioning", "activating"}
        <5>1. rev' = [q \in Rev |-> IF rev[q] \in Living THEN "revoked" ELSE rev[q]]
          BY <1>4, <2>3, <4>1 DEF Block, Revoked, Living
        <5>2. \A q \in Rev : ~Serving(q) BY <4>1 DEF IInv, After
        <5>3. rev' \in [Rev -> {"none", "planned", "issued", "claimed", "active", "superseded", "revoked"}]
          BY <5>1 DEF IInv, Shape
        <5>4. \A q \in Rev : rev'[q] # rev[q] => Live(q) /\ rev'[q] = "revoked"
          BY <5>1 DEF Live
        <5>5. \A q \in Rev : rev'[q] \in Gone
          BY <5>1, <5>2 DEF IInv, Shape, Gone, Living, Serving
        <5> QED BY <5>2, <5>3, <5>4, <5>5 DEF HouseOf
      <4>2. CASE workflow \notin {"runtime_provisioning", "activating"}
        BY <1>4, <2>3, <4>2, SameHouse DEF Block
      <4> QED BY <4>1, <4>2
    <3> QED BY <1>2, <1>3, <2>1, <3>3, <3>4 DEF Worked
  <2> QED BY <2>2, <2>3
<1>5. CASE Deadline(r) /\ Idle(a) /\ UNCHANGED <<rev, workflow>>
  <2>1. HandsOf(a) /\ pc'[a] = "idle" BY <1>5, IdleHands
  <2> QED BY <1>1, <1>2, <1>3, <1>5, <2>1, DeadlineEnds DEF Worked
<1>6. CASE /\ Go(a, IF a = Operator \/ got[a] = "reclaimed" THEN "inspect" ELSE "prepare",
                 "none", Nothing)
           /\ UNCHANGED db
  <2>1. HandsOf(a)
    <3> DEFINE place == IF a = Operator \/ got[a] = "reclaimed" THEN "inspect" ELSE "prepare"
    <3>1. place \in Place BY DEF Place
    <3>2. Go(a, place, "none", Nothing) BY <1>6
    <3> HIDE DEF place
    <3> QED BY <1>1, <3>1, <3>2, GoHands DEF On
  <2> QED BY <1>2, <1>3, <1>6, <2>1, SameJobs, SamePeople, SameHouse DEF Worked
<1> QED BY <1>4, <1>5, <1>6 DEF Gate, r

\* A step that only moves on to another place, with the machine left, without
\* its token, or gone.
Onward(a, place) ==
  /\ pc[a] # "idle" /\ place \in Place
  /\ \E answer, ref : Go(a, place, answer, ref)
  /\ at[a] \in RunJob \/ place \in {"call", "settle"}
  /\ machine' \in {machine, NoMachine, [machine EXCEPT !.token = None]}
  /\ \E r \in Rev : jobs' \in {jobs, Create(jobs, <<"latesecret", r>>, New("none", Nothing))}
  /\ UNCHANGED <<home, workflow, rev, names, cycle, consent, binding, activated, plan>>
LEMMA OnwardWorks == ASSUME IInv, NEW a \in Actor, NEW place, Onward(a, place) PROVE Worked(a)
<1>1. HandsOf(a)
  <2>1. PICK answer, ref : Go(a, place, answer, ref) BY DEF Onward
  <2> QED BY <2>1, GoHands DEF Onward
<1>2. JobsOf(a)
  <2>1. PICK r \in Rev : jobs' \in {jobs, Create(jobs, <<"latesecret", r>>, New("none", Nothing))}
    BY DEF Onward
  <2>2. <<"latesecret", r>> \notin RunJob BY DEF RunJob, Run
  <2> QED BY <2>1, <2>2, OtherJob
<1>3. PeopleOf /\ HouseOf BY SamePeople, SameHouse DEF Onward
<1>4. MachineOf(a) BY SameMachine DEF Onward
<1> QED BY <1>1, <1>2, <1>3, <1>4 DEF Onward, Worked

LEMMA InspectWorks == ASSUME IInv, NEW a \in Actor, Inspect(a) PROVE Worked(a)
<1>1. at[a] \in RunJob /\ For(a) \in Rev BY TheRun DEF Inspect
<1>2. \E answer, ref : Go(a, "judge", answer, ref) BY DEF Inspect
<1>3. Onward(a, "judge") BY <1>1, <1>2 DEF Inspect, Onward, Place
<1> QED BY <1>3, OnwardWorks

LEMMA RecheckWorks == ASSUME IInv, NEW a \in Actor, Recheck(a) PROVE Worked(a)
<1>1. at[a] \in RunJob /\ For(a) \in Rev BY TheRun DEF Recheck
<1>2. Onward(a, "launch") \/ Onward(a, "forget")
  BY <1>1 DEF Recheck, Onward, Place
<1> QED BY <1>2, OnwardWorks

\* A step that lets go, with the job left or of an unknown outcome.
LEMMA LetGo ==
  ASSUME IInv, NEW a \in Actor, Idle(a), MachineOf(a),
         UNCHANGED jobs \/ (\E r \in Rev : On(a, r) /\ MarkUnknown(Run(r))),
         UNCHANGED <<home, workflow, rev, names, cycle, consent, binding, activated, plan>>
  PROVE  Worked(a)
<1>1. HandsOf(a) /\ pc'[a] = "idle" BY IdleHands
<1>2. JobsOf(a) BY <1>1, SameJobs, MarksUnknown
<1>3. PeopleOf /\ HouseOf BY SamePeople, SameHouse
<1> QED BY <1>1, <1>2, <1>3 DEF Worked

\* And one that gives the rollout up.
LEMMA GivesUp ==
  ASSUME IInv, NEW a \in Actor, Idle(a), MachineOf(a), NEW r \in Rev, On(a, r),
         MarkFailed(r) \/ Deadline(r),
         UNCHANGED <<workflow, rev, names, cycle, consent, activated, plan>>
  PROVE  Worked(a)
<1>1. HandsOf(a) /\ pc'[a] = "idle" BY IdleHands
<1>2. JobsOf(a) /\ PeopleOf /\ HouseOf BY <1>1, MarksFailed, DeadlineEnds
<1> QED BY <1>1, <1>2 DEF Worked

LEMMA ReclaimedWorks == ASSUME IInv, JudgeReclaimed PROVE Worked(Worker)
<1>0. Worker \in Actor BY DEF Actor
<1> DEFINE r == For(Worker)
<1>1. r \in Rev /\ On(Worker, r) /\ at[Worker] \in RunJob BY <1>0, TheRun DEF JudgeReclaimed
<1>2. UNCHANGED <<workflow, rev, names, cycle, consent, machine, activated, plan>>
  BY DEF JudgeReclaimed
<1>3. MachineOf(Worker) BY <1>0, <1>2, SameMachine
<1>4. CASE Go(Worker, "ready", got[Worker], res[Worker]) /\ UNCHANGED <<jobs, binding, home>>
  <2>1. Onward(Worker, "ready") BY <1>1, <1>2, <1>4 DEF JudgeReclaimed, Onward, Place
  <2> QED BY <1>0, <2>1, OnwardWorks
<1>5. CASE Go(Worker, "prepare", "none", Nothing) /\ UNCHANGED <<jobs, binding, home>>
  <2>1. Onward(Worker, "prepare") BY <1>1, <1>2, <1>5 DEF JudgeReclaimed, Onward, Place
  <2> QED BY <1>0, <2>1, OnwardWorks
<1>6. CASE MarkFailed(r) /\ Idle(Worker) BY <1>0, <1>1, <1>2, <1>3, <1>6, GivesUp
<1>7. CASE MarkUnknown(Run(r)) /\ Idle(Worker) /\ UNCHANGED <<binding, home>>
  BY <1>0, <1>1, <1>2, <1>3, <1>7, LetGo
<1> QED BY <1>4, <1>5, <1>6, <1>7 DEF JudgeReclaimed, r

LEMMA ReconciledWorks == ASSUME IInv, JudgeReconciled PROVE Worked(Operator)
<1>0. Operator \in Actor BY DEF Actor
<1> DEFINE r == For(Operator)
           a == Operator
<1>1. r \in Rev /\ On(a, r) /\ at[a] \in RunJob BY <1>0, TheRun DEF JudgeReconciled
<1>2. UNCHANGED <<workflow, rev, names, cycle, consent, machine, activated, plan>>
  BY DEF JudgeReconciled
<1>3. MachineOf(a) BY <1>0, <1>2, SameMachine
<1>4. ASSUME NEW place \in {"ready", "forget", "prepare"}, NEW answer, NEW ref,
             Go(a, place, answer, ref), UNCHANGED <<jobs, binding, home>>
      PROVE  Worked(a)
  <2>1. Onward(a, place) BY <1>1, <1>2, <1>4 DEF JudgeReconciled, Onward, Place
  <2> QED BY <1>0, <2>1, OnwardWorks
<1>5. CASE SettleAbsent(r) /\ Idle(a) /\ UNCHANGED <<binding, home>>
  <2>1. HandsOf(a) /\ pc'[a] = "idle" BY <1>0, <1>5, IdleHands
  <2>2. JobsOf(a)
    <3>1. CASE UNCHANGED jobs BY <1>0, <3>1, SameJobs
    <3>2. CASE /\ Status(Run(r)) \in {"running", "unknown", "cancelled"}
               /\ jobs' = Settle(jobs, Run(r), "cancelled", "problem")
      <4>1. Ends(r, "cancelled") BY <3>2 DEF Ends, Status, St
      <4> QED BY <1>0, <1>1, <2>1, <3>2, <4>1, RunEnds
    <3> QED BY <1>5, <3>1, <3>2 DEF SettleAbsent
  <2> QED BY <1>2, <1>3, <1>5, <2>1, <2>2, SamePeople, SameHouse DEF Worked
<1>6. CASE MarkFailed(r) /\ Idle(a) BY <1>0, <1>1, <1>2, <1>3, <1>6, GivesUp
<1>7. CASE Idle(a) /\ UNCHANGED <<jobs, binding, home>> BY <1>0, <1>2, <1>3, <1>7, LetGo
<1> HIDE DEF a
<1>8. \/ \E place \in {"ready", "forget", "prepare"} : \E answer, ref :
           Go(a, place, answer, ref) /\ UNCHANGED <<jobs, binding, home>>
      \/ SettleAbsent(r) /\ Idle(a) /\ UNCHANGED <<binding, home>>
      \/ MarkFailed(r) /\ Idle(a)
      \/ Idle(a) /\ UNCHANGED <<jobs, binding, home>>
  BY DEF JudgeReconciled, a
<1> QED BY <1>4, <1>5, <1>6, <1>7, <1>8 DEF a

LEMMA CallFailsWorks ==
  ASSUME IInv, NEW a \in Actor, pc[a] # "idle", at[a] \in RunJob, CallFails(a), MachineOf(a),
         UNCHANGED <<workflow, rev, names, cycle, consent, activated, plan>>
  PROVE  Worked(a)
<1>1. For(a) \in Rev /\ On(a, For(a)) BY TheRun
<1> QED BY <1>1, GivesUp, LetGo DEF CallFails

LEMMA PrepareWorks == ASSUME IInv, NEW a \in Actor, Prepare(a) PROVE Worked(a)
<1>1. at[a] \in RunJob /\ pc[a] # "idle" /\ For(a) \in Rev BY TheRun DEF Prepare
<1>2. UNCHANGED <<workflow, rev, names, cycle, consent, machine, activated, plan>>
  BY DEF Prepare
<1>3. MachineOf(a) BY <1>2, SameMachine
<1>4. CASE CallFails(a) BY <1>1, <1>2, <1>3, <1>4, CallFailsWorks
<1>5. CASE ~CallFails(a)
  <2>1. NothingMarked /\ \E ref : Go(a, "issue", "none", ref) BY <1>5 DEF Prepare
  <2>2. Onward(a, "issue") BY <1>1, <1>2, <2>1 DEF Onward, Place, NothingMarked
  <2> QED BY <2>2, OnwardWorks
<1> QED BY <1>4, <1>5

LEMMA IssueTokenWorks == ASSUME IInv, NEW a \in Actor, IssueToken(a) PROVE Worked(a)
<1> DEFINE r == For(a)
<1>1. at[a] \in RunJob /\ pc[a] # "idle" /\ r \in Rev BY TheRun DEF IssueToken
<1>2. UNCHANGED <<machine, activated, plan>> BY DEF IssueToken
<1>3. MachineOf(a) BY <1>2, SameMachine
<1>4. CASE Idle(a) /\ UNCHANGED db BY <1>2, <1>3, <1>4, LetGo
<1>5. CASE Go(a, "forget", "none", res[a]) /\ UNCHANGED db
  <2>1. Onward(a, "forget") BY <1>1, <1>2, <1>5 DEF Onward, Place
  <2> QED BY <2>1, OnwardWorks
<1>6. CASE /\ CurrentIn(r, {"runtime_provisioning", "activating"})
           /\ IssueBootstrap(r)
           /\ workflow' = IF jobs[Run(r)].op = "ensure" THEN "activating" ELSE workflow
           /\ Go(a, "install", "none", res[a])
           /\ UNCHANGED <<home, names, cycle, people, queue>>
  <2>1. HandsOf(a) BY <1>1, <1>6, GoHands DEF Place
  <2>2. JobsOf(a) /\ PeopleOf BY <1>6, SameJobs, SamePeople
  <2>3. HouseOf
    <3>1. rev' = [rev EXCEPT ![r] = IF @ \in Living THEN "issued" ELSE @]
      BY <1>6 DEF IssueBootstrap, Living
    <3>2. rev' \in [Rev -> {"none", "planned", "issued", "claimed", "active", "superseded", "revoked"}]
      BY <3>1, <1>1 DEF IInv, Shape
    <3>3. \A q \in Rev : rev'[q] # rev[q] => Live(q) /\ rev'[q] = "issued"
      BY <3>1, <1>1 DEF IInv, Shape, Live
    <3>4. home' = "provisioning" BY <1>6 DEF CurrentIn
    <3>5. ASSUME workflow' # workflow, NEW q \in Rev PROVE ~Serving(q)
      <4>1. jobs[Run(r)].op = "ensure" BY <1>6, <3>5
      <4>2. workflow \in {"runtime_provisioning", "activating"}
        BY <1>6, <4>1 DEF CurrentIn, Expected
      <4> QED BY <4>2 DEF IInv, After
    <3> QED BY <3>2, <3>3, <3>4, <3>5 DEF HouseOf
  <2> QED BY <1>2, <1>3, <1>6, <2>1, <2>2, <2>3 DEF Worked
<1> QED BY <1>4, <1>5, <1>6 DEF IssueToken

LEMMA InstallWorks == ASSUME IInv, NEW a \in Actor, Install(a) PROVE Worked(a)
<1> DEFINE r == For(a)
<1>1. at[a] \in RunJob /\ pc[a] # "idle" /\ r \in Rev /\ On(a, r) BY TheRun DEF Install
<1>2. UNCHANGED <<home, workflow, rev, names, cycle, consent, binding, machine, activated, plan>>
  BY DEF Install
<1>3. MachineOf(a) BY <1>2, SameMachine
<1>4. CASE Go(a, "recheck", "none", res[a]) /\ UNCHANGED jobs
  <2>1. Onward(a, "recheck") BY <1>1, <1>2, <1>4 DEF Onward, Place
  <2> QED BY <2>1, OnwardWorks
<1>5. CASE MarkUnknown(Run(r)) /\ Idle(a) BY <1>1, <1>2, <1>3, <1>5, LetGo
<1> QED BY <1>4, <1>5 DEF Install

LEMMA LaunchWorks == ASSUME IInv, NEW a \in Actor, Launch(a) PROVE Worked(a)
<1> DEFINE r == For(a)
           id == IF machine.id = None THEN ids + 1 ELSE machine.id
<1>1. at[a] \in RunJob /\ pc[a] # "idle" /\ r \in Rev /\ On(a, r) BY TheRun DEF Launch
<1>2. UNCHANGED <<workflow, rev, names, cycle, consent, activated, plan>> BY DEF Launch
<1>3. MachineOf(a)
  <2>1. CASE machine' = machine BY <2>1, SameMachine
  <2>2. CASE machine' = [id |-> id, rev |-> r,
                         token |-> IF secret[1] = r THEN secret[2] ELSE None]
    <3>1. machine'.rev = r BY <2>2
    <3>2. machine' = [id |-> machine'.id, rev |-> machine'.rev, token |-> machine'.token]
      BY <2>2
    <3> QED BY <1>1, <3>1, <3>2 DEF MachineOf, Machinery, Rev
  <2>3. machine' = machine \/ machine' = [id |-> id, rev |-> r,
                                token |-> IF secret[1] = r THEN secret[2] ELSE None]
    BY DEF Launch
  <2> QED BY <2>1, <2>2, <2>3
<1>4. CASE CallFails(a) BY <1>1, <1>2, <1>3, <1>4, CallFailsWorks
<1>5. CASE MarkUnknown(Run(r)) /\ Idle(a) /\ UNCHANGED <<binding, home>>
  BY <1>1, <1>2, <1>3, <1>5, LetGo
<1>6. CASE /\ NothingMarked
           /\ Go(a, "ready", "none", [volume |-> volume.id, machine |-> id])
  <2>1. HandsOf(a) BY <1>1, <1>6, GoHands DEF Place
  <2> QED BY <1>2, <1>3, <1>6, <2>1, SameJobs, SamePeople, SameHouse DEF Worked, NothingMarked
<1> QED BY <1>4, <1>5, <1>6 DEF Launch

LEMMA SettleReadyWorks == ASSUME IInv, NEW a \in Actor, SettleReady(a) PROVE Worked(a)
<1> DEFINE r == For(a)
<1>1. at[a] \in RunJob /\ pc[a] # "idle" /\ r \in Rev /\ On(a, r) BY TheRun DEF SettleReady
<1>2. UNCHANGED <<workflow, rev, names, cycle, consent, machine, activated, plan>>
  BY DEF SettleReady
<1>3. MachineOf(a) BY <1>2, SameMachine
<1>4. CASE Idle(a) /\ UNCHANGED <<jobs, binding, home>> BY <1>2, <1>3, <1>4, LetGo
<1>5. CASE Go(a, "forget", "none", res[a]) /\ UNCHANGED <<jobs, binding, home>>
  <2>1. Onward(a, "forget") BY <1>1, <1>2, <1>5 DEF Onward, Place
  <2> QED BY <2>1, OnwardWorks
<1>6. CASE Idle(a) /\ Deadline(r) BY <1>1, <1>2, <1>3, <1>6, GivesUp
<1>7. CASE /\ Idle(a) /\ jobs' = RetryLater(jobs, Run(r), "awaiting")
           /\ UNCHANGED <<binding, home>>
  <2>1. HandsOf(a) /\ pc'[a] = "idle" BY <1>7, IdleHands
  <2>2. JobsOf(a)
    <3>1. CASE jobs' = jobs BY <3>1, SameJobs
    <3>2. CASE /\ St(jobs, r) \in {"running", "unknown"}
               /\ jobs' = Settle(jobs, Run(r), "pending", "awaiting")
      <4>1. Ends(r, "pending") BY <3>2 DEF Ends
      <4> QED BY <1>1, <2>1, <3>2, <4>1, RunEnds
    <3> QED BY <1>7, <3>1, <3>2 DEF RetryLater, St
  <2> QED BY <1>2, <1>3, <1>7, <2>1, <2>2, SamePeople, SameHouse DEF Worked
<1> QED BY <1>4, <1>5, <1>6, <1>7 DEF SettleReady

LEMMA ForgetWorks == ASSUME IInv, NEW a \in Actor, Forget(a) PROVE Worked(a)
<1>1. at[a] \in RunJob /\ pc[a] # "idle" /\ For(a) \in Rev BY TheRun DEF Forget
<1>2. UNCHANGED <<home, workflow, rev, names, cycle, consent, binding, activated, plan>>
  BY DEF Forget
<1>3. \E answer, ref : Go(a, "raze", answer, ref) BY DEF Forget
<1>4. machine' \in {machine, [machine EXCEPT !.token = None]} BY DEF Forget, Unset
<1>5. jobs' \in {jobs, Create(jobs, <<"latesecret", For(a)>>, New("none", Nothing))}
  BY DEF Forget
<1>6. Onward(a, "raze") BY <1>1, <1>2, <1>3, <1>4, <1>5 DEF Onward, Place
<1> QED BY <1>6, OnwardWorks

\* A call of the provider ends in a step that settles.
LEMMA CallWorks ==
  ASSUME IInv, NEW a \in Actor, pc[a] # "idle", \E answer, ref : Go(a, "settle", answer, ref),
         machine' \in {machine, NoMachine, [machine EXCEPT !.token = None]},
         UNCHANGED <<home, workflow, rev, names, cycle, consent, binding, jobs, activated, plan>>
  PROVE  Worked(a)
<1>1. 1 \in Rev BY BoundsAssumption DEF Rev
<1>2. Onward(a, "settle") BY <1>1 DEF Onward, Place
<1> QED BY <1>2, OnwardWorks

LEMMA RazeAppWorks == ASSUME IInv, NEW a \in Actor, RazeApp(a) PROVE Worked(a)
<1>1. pc[a] # "idle" /\ \E answer, ref : Go(a, "settle", answer, ref) BY DEF RazeApp
<1>2. machine' \in {machine, NoMachine} BY DEF RazeApp, Razed, Stopped, Untouched
<1> QED BY <1>1, <1>2, CallWorks DEF RazeApp

LEMMA CallCleanupWorks == ASSUME IInv, NEW a \in Actor, CallCleanup(a) PROVE Worked(a)
<1>1. pc[a] # "idle" /\ \E answer, ref : Go(a, "settle", answer, ref) BY DEF CallCleanup
<1>2. machine' \in {machine, NoMachine} BY DEF CallCleanup, Razed, Stopped, Untouched
<1> QED BY <1>1, <1>2, CallWorks DEF CallCleanup

LEMMA CallUnsetWorks == ASSUME IInv, NEW a \in Actor, CallUnset(a) PROVE Worked(a)
<1>1. pc[a] # "idle" /\ \E answer, ref : Go(a, "settle", answer, ref) BY DEF CallUnset
<1>2. machine' \in {machine, [machine EXCEPT !.token = None]} BY DEF CallUnset, Unset
<1> QED BY <1>1, <1>2, CallWorks DEF CallUnset

LEMMA CallStopWorks == ASSUME IInv, CallStop PROVE Worked(Worker)
<1>1. pc[Worker] # "idle" /\ \E answer, ref : Go(Worker, "settle", answer, ref) BY DEF CallStop
<1>2. Worker \in Actor /\ machine' \in {machine} BY DEF CallStop, Actor
<1> QED BY <1>1, <1>2, CallWorks DEF CallStop

LEMMA CompensateWorks == ASSUME IInv, NEW a \in Actor, Compensate(a) PROVE Worked(a)
<1> DEFINE r == For(a)
<1>1. pc[a] # "idle" /\ r \in Rev /\ On(a, r) BY TheRun DEF Compensate, Job
<1>2. UNCHANGED <<home, workflow, rev, names, cycle, consent, binding, machine, activated, plan>>
  BY DEF Compensate
<1>3. MachineOf(a) BY <1>2, SameMachine
<1>4. HandsOf(a) /\ pc'[a] = "idle" BY IdleHands DEF Compensate
<1>5. JobsOf(a)
  <2>1. CASE jobs' = jobs BY <2>1, SameJobs
  <2>2. CASE /\ Status(Run(r)) \in {"running", "unknown", "cancelled"}
             /\ jobs' = Settle(jobs, Run(r), "cancelled", "problem")
    <3>1. Ends(r, "cancelled") BY <2>2 DEF Ends, Status, St
    <3> QED BY <1>1, <1>4, <2>2, <3>1, RunEnds
  <2>3. CASE jobs' = Create(jobs, <<"late", r>>, New("none", res[a]))
    <3>1. <<"late", r>> \notin RunJob BY DEF RunJob, Run
    <3> QED BY <2>3, <3>1, OtherJob
  <2> QED BY <2>1, <2>2, <2>3 DEF Compensate
<1> QED BY <1>2, <1>3, <1>4, <1>5, SamePeople, SameHouse DEF Worked

LEMMA SettleCallWorks == ASSUME IInv, NEW a \in Actor, SettleCall(a) PROVE Worked(a)
<1>1. at[a] \notin RunJob BY DEF SettleCall, Job
<1>2. UNCHANGED <<home, workflow, rev, names, cycle, consent, binding, machine, activated, plan>>
  BY DEF SettleCall
<1>3. MachineOf(a) BY <1>2, SameMachine
<1>4. HandsOf(a) /\ pc'[a] = "idle" BY IdleHands DEF SettleCall
<1>5. \/ jobs' = jobs \/ jobs' = Settle(jobs, at[a], "succeeded", "none")
      \/ jobs' = Settle(jobs, at[a], "failed", "problem")
      \/ jobs' = Settle(jobs, at[a], "unknown", "problem")
  BY DEF SettleCall, Job
<1>6. JobsOf(a) BY <1>1, <1>5, OtherJob
<1> QED BY <1>2, <1>3, <1>4, <1>6, SamePeople, SameHouse DEF Worked

LEMMA DieWorks == ASSUME IInv, NEW a \in Actor, Die(a) PROVE Worked(a)
<1>1. MachineOf(a) BY SameMachine DEF Die
<1> QED BY <1>1, LetGo DEF Die

LEMMA WorkIsWorked == ASSUME IInv, NEW a \in Actor, Work(a) PROVE Worked(a)
  BY GateWorks, InspectWorks, PrepareWorks, IssueTokenWorks, InstallWorks, RecheckWorks,
     LaunchWorks, SettleReadyWorks, ForgetWorks, RazeAppWorks, CompensateWorks,
     CallCleanupWorks, CallUnsetWorks, SettleCallWorks DEF Work

-----------------------------------------------------------------------------
(* The steps of the family and of the machine *)

\* A revision is planned within the bounds, and its job is made.
LEMMA Scheduled ==
  ASSUME IInv, MayPlan, NEW op \in {"ensure", "reprovision"}, Schedule(op)
  PROVE  /\ NextRev <= RevMax /\ IsJobs(jobs')
         /\ \A r \in Rev : St(jobs', r) = IF r = NextRev THEN "pending" ELSE St(jobs, r)
<1>1. plan.revs \in 1..RevMax BY PlanAssumption DEF IInv, Shape, Rev
<1>2. NextRev <= RevMax BY <1>1, NextIsNat, BoundsAssumption DEF MayPlan
<1> DEFINE n == NextRev
<1>3. n \in Rev /\ rev[n] = "none" BY <1>2, NextIsNew
<1>4. jobs[Run(n)].status = "none" BY <1>3 DEF IInv, Blank, St
<1>5. jobs' = [jobs EXCEPT ![Run(n)] = New(op, Nothing)] BY <1>4 DEF Schedule, Create
<1>6. jobs = [j \in JobId |-> jobs[j]] /\ \A r \in Rev : jobs[Run(r)] \in RunRow
  BY DEF IInv, IsJobs
<1> HIDE DEF n
<1>7. jobs' = [j \in JobId |-> jobs'[j]] BY <1>5, <1>6
<1>8. jobs'[Run(n)] = New(op, Nothing) BY <1>3, <1>5, <1>6, RunIsJob
<1>9. \A r \in Rev : r # n => jobs'[Run(r)] = jobs[Run(r)] BY <1>3, <1>5, <1>6, RunIsJob
<1>10. New(op, Nothing) \in RunRow /\ New(op, Nothing).status = "pending" BY DEF New, RunRow
<1>11. \A r \in Rev : jobs'[Run(r)] \in RunRow BY <1>6, <1>8, <1>9, <1>10
<1>12. \A r \in Rev : jobs'[Run(r)].status = IF r = n THEN "pending" ELSE jobs[Run(r)].status
  BY <1>8, <1>9, <1>10
<1> QED BY <1>2, <1>7, <1>11, <1>12 DEF IsJobs, St, n

LEMMA NothingAfloat == ASSUME MayRollOut PROVE \A r \in Rev : ~Afloat(r)
<1> SUFFICES ASSUME NEW r \in Rev, InFlight(Run(r)) PROVE FALSE BY DEF Afloat
<1>1. Run(r) \in Open BY RunIsJob DEF Open
<1> QED BY <1>1 DEF MayRollOut

LEMMA AddMemberPlans == ASSUME IInv, NEW m \in Member, AddMember(m) PROVE \E S : NewRev(S)
<1>1. MayPlan /\ Schedule("reprovision") /\ consent # None /\ binding[m] = Unbound /\ MayRollOut
  BY DEF AddMember
<1>2. /\ NextRev <= RevMax /\ IsJobs(jobs')
      /\ \A r \in Rev : St(jobs', r) = IF r = NextRev THEN "pending" ELSE St(jobs, r)
  BY <1>1, Scheduled
<1>3. binding' = [binding EXCEPT ![m] = Staged] BY DEF AddMember
<1>4. /\ binding' \in [Member -> Unbound..RevMax]
      /\ \A k \in Member : /\ binding'[k] # binding[k] => binding'[k] = Staged
                           /\ binding'[k] = Staged => k \in Bound \cup {m}
  BY <1>3, BoundsAssumption DEF IInv, Shape, Staged, Unbound, Bound
<1>5. consent \in Rev BY <1>1 DEF IInv, Shape, Rev, None
<1>6. NewRev(Bound \cup {m})
  BY <1>1, <1>2, <1>4, <1>5, NothingAfloat DEF AddMember, Issue, Schedule, NewRev, Bound
<1> QED BY <1>6

LEMMA SweepPlans == ASSUME IInv, Sweep PROVE \E S : NewRev(S)
<1>1. MayPlan /\ Schedule("reprovision") /\ consent # None /\ MayRollOut BY DEF Sweep
<1>2. /\ NextRev <= RevMax /\ IsJobs(jobs')
      /\ \A r \in Rev : St(jobs', r) = IF r = NextRev THEN "pending" ELSE St(jobs, r)
  BY <1>1, Scheduled
<1>3. binding' \in [Member -> Unbound..RevMax] /\ \A k \in Member : binding'[k] = Staged => k \in Bound
  BY DEF Sweep, IInv, Shape, Staged, Unbound, Bound
<1>4. consent \in Rev BY <1>1 DEF IInv, Shape, Rev, None
<1>5. NewRev(Bound)
  BY <1>1, <1>2, <1>3, <1>4, NothingAfloat DEF Sweep, Issue, Schedule, NewRev, Bound
<1> QED BY <1>5

LEMMA OnboardPlans == ASSUME IInv, Onboard PROVE \E S : NewRev(S)
<1>1. MayPlan /\ Schedule("ensure") /\ home = "onboarding" BY DEF Onboard
<1>2. /\ NextRev <= RevMax /\ IsJobs(jobs')
      /\ \A r \in Rev : St(jobs', r) = IF r = NextRev THEN "pending" ELSE St(jobs, r)
  BY <1>1, Scheduled
<1>3. binding' \in [Member -> Unbound..RevMax] /\ \A k \in Member : binding'[k] = Staged => k \in Bound
  BY DEF Onboard, IInv, Shape, Staged, Unbound, Bound
<1>4. consent' \in Rev /\ (consent = None \/ consent' = consent) BY DEF Onboard
<1>5. ASSUME NEW r \in Rev PROVE ~Afloat(r) /\ ~Serving(r)
  <2>1. rev[r] \in Gone BY <1>1 DEF IInv, Gated
  <2>2. CASE rev[r] = "none"
    BY <2>2 DEF IInv, Blank, Afloat, InFlight, Status, St, Serving
  <2>3. CASE rev[r] # "none" BY <2>1, <2>3 DEF IInv, After, Afloat, Gone, Serving
  <2> QED BY <2>2, <2>3
<1>6. Issue(Bound, consent')
  <2>1. consent' = IF consent = None THEN cycles + 1 ELSE consent BY DEF Onboard
  <2> QED BY <2>1 DEF Onboard
<1>7. NewRev(Bound)
  BY <1>1, <1>2, <1>3, <1>4, <1>5, <1>6 DEF Onboard, Issue, Schedule, NewRev, Bound
<1> QED BY <1>7

LEMMA SupersedeRow ==
  ASSUME NEW js, IsJobs(js)
  PROVE  /\ IsJobs(Supersede(js))
         /\ \A r \in Rev : St(Supersede(js), r) # St(js, r) =>
              /\ St(js, r) \in {"pending", "running", "unknown"}
              /\ St(Supersede(js), r) \in {"unknown", "cancelled"}
<1> DEFINE new == Supersede(js)
<1>1. new = [j \in JobId |-> new[j]] BY DEF Supersede
<1>2. ASSUME NEW r \in Rev
      PROVE  /\ new[Run(r)] \in RunRow
             /\ new[Run(r)].status # js[Run(r)].status =>
                  /\ js[Run(r)].status \in {"pending", "running", "unknown"}
                  /\ new[Run(r)].status \in {"unknown", "cancelled"}
  <2>1. js[Run(r)] \in RunRow BY DEF IsJobs
  <2>2. new[Run(r)] = IF js[Run(r)].status = "pending"
                      THEN [js[Run(r)] EXCEPT !.status = "cancelled", !.why = "problem"]
                      ELSE IF js[Run(r)].status \in {"running", "unknown"}
                      THEN [js[Run(r)] EXCEPT !.status = "unknown", !.why = "quarantine"]
                      ELSE js[Run(r)]
    BY RunIsJob DEF Supersede
  <2> DEFINE its == js[Run(r)]
  <2> HIDE DEF its, new
  <2>3. its \in RunRow BY <2>1 DEF its
  <2>4. new[Run(r)] = IF its.status = "pending"
                      THEN [its EXCEPT !.status = "cancelled", !.why = "problem"]
                      ELSE IF its.status \in {"running", "unknown"}
                      THEN [its EXCEPT !.status = "unknown", !.why = "quarantine"]
                      ELSE its
    BY <2>2 DEF its
  <2>5. /\ new[Run(r)] \in RunRow
        /\ new[Run(r)].status # its.status => /\ its.status \in {"pending", "running", "unknown"}
                                              /\ new[Run(r)].status \in {"unknown", "cancelled"}
    BY <2>3, <2>4 DEF RunRow
  <2> QED BY <2>5 DEF its
<1> QED BY <1>1, <1>2 DEF IsJobs, St

LEMMA UndoUndoes ==
  ASSUME IInv, NEW reset \in BOOLEAN, Undo(reset), reset \/ workflow # "complete"
  PROVE  Undone
<1> DEFINE js == [j \in JobId |-> IF j[1] = "raze" /\ j[2] \in Registrable
                                  THEN New("none", row[j[2]].ref) ELSE jobs[j]]
<1>1. jobs' = Supersede(js) BY DEF Undo
<1>2. \A r \in Rev : js[Run(r)] = jobs[Run(r)] BY RunIsJob
<1>3. IsJobs(js) /\ \A r \in Rev : St(js, r) = St(jobs, r)
  <2>1. js = [j \in JobId |-> js[j]] OBVIOUS
  <2> HIDE DEF js
  <2> QED BY <1>2, <2>1 DEF IsJobs, St, IInv
<1> HIDE DEF js
<1>4. /\ IsJobs(jobs')
      /\ \A r \in Rev : St(jobs', r) # St(jobs, r) =>
           InFlight(Run(r)) /\ St(jobs', r) \in {"unknown", "cancelled"}
  BY <1>1, <1>3, SupersedeRow DEF InFlight, Status, St
<1>5. rev' = [r \in Rev |-> IF rev[r] \in Living \cup (IF reset THEN {"active"} ELSE {})
                            THEN "revoked" ELSE rev[r]]
  BY DEF Undo, Revoked, Living
<1>6. ~reset => \A r \in Rev : rev[r] # "active" BY DEF IInv, After, Serving
<1>7. /\ rev' = [r \in Rev |-> rev'[r]]
      /\ \A r \in Rev : rev'[r] = IF rev[r] \in Gone THEN rev[r] ELSE "revoked"
  BY <1>5, <1>6 DEF IInv, Shape, Gone, Living
<1> QED BY <1>4, <1>7 DEF Undo, Undone

LEMMA WithdrawUndoes == ASSUME IInv, Withdraw PROVE Undone
<1>1. rev' = [r \in Rev |-> IF rev[r] \in Living \cup {"active"} THEN "revoked" ELSE rev[r]]
  BY DEF Withdraw, Revoked, Living
<1>2. /\ rev' = [r \in Rev |-> rev'[r]]
      /\ \A r \in Rev : rev'[r] = IF rev[r] \in Gone THEN rev[r] ELSE "revoked"
  BY <1>1 DEF IInv, Shape, Gone, Living
<1>3. IsJobs(jobs') /\ \A r \in Rev : St(jobs', r) = St(jobs, r)
  <2>1. IsJobs(jobs) /\ <<"stop", consent>> \notin RunJob BY DEF IInv, RunJob, Run
  <2>2. jobs' = jobs \/ jobs' = Create(jobs, <<"stop", consent>>, New("none", Nothing))
    BY DEF Withdraw, EnqueueStop
  <2> QED BY <2>1, <2>2, Creates
<1> QED BY <1>2, <1>3 DEF Withdraw, Undone

LEMMA DriftWorks == ASSUME IInv, NEW m \in Member, Drift(m) PROVE Worked(Worker)
<1>1. Worker \in Actor BY DEF Actor
<1>2. binding' = [binding EXCEPT ![m] = Unbound] BY DEF Drift
<1>3. PeopleOf
  BY <1>2, BoundsAssumption DEF Drift, IInv, Shape, PeopleOf, Unbound
<1>4. MachineOf(Worker) BY <1>1, SameMachine DEF Drift
<1> QED BY <1>1, <1>3, <1>4, SameHands, SameJobs, SameHouse DEF Drift, Worked

\* The machine, and time, change what the invariant is about in two ways only.
Around ==
  /\ \E r \in Rev : jobs' \in {jobs, Create(jobs, <<"secret", r>>, New("none", Nothing))}
  /\ UNCHANGED <<home, workflow, names, cycle, consent, binding, machine, pc, at, activated, plan>>

LEMMA AroundWorks ==
  ASSUME IInv, Around, rev' = rev \/ HouseOf
  PROVE  Worked(Worker)
<1>1. Worker \in Actor BY DEF Actor
<1>2. JobsOf(Worker)
  <2>1. PICK r \in Rev : jobs' \in {jobs, Create(jobs, <<"secret", r>>, New("none", Nothing))}
    BY DEF Around
  <2>2. <<"secret", r>> \notin RunJob BY DEF RunJob, Run
  <2> QED BY <1>1, <2>1, <2>2, OtherJob
<1>3. MachineOf(Worker) BY <1>1, SameMachine DEF Around
<1> QED BY <1>1, <1>2, <1>3, SameHands, SamePeople, SameHouse DEF Around, Worked

LEMMA ClaimWorks == ASSUME IInv, Claim PROVE Worked(Worker)
<1> DEFINE e == machine.rev
<1>1. e \in Rev /\ rev[e] \in {"issued", "claimed"} BY DEF Claim, Valid, Env, IInv, Machinery
<1>2. Around BY <1>1 DEF Claim, RuntimeSame, Around
<1>3. rev' = [rev EXCEPT ![e] = "claimed"] BY DEF Claim, Env
<1>4. HouseOf
  <2>1. /\ rev' \in [Rev -> {"none", "planned", "issued", "claimed", "active", "superseded", "revoked"}]
        /\ \A r \in Rev : rev'[r] # rev[r] => Live(r) /\ rev'[r] = "claimed"
    BY <1>1, <1>3 DEF IInv, Shape, Live, Living
  <2>2. home' # "onboarding" BY <1>1, <1>2 DEF IInv, Gated, Gone, Around
  <2> QED BY <1>2, <2>1, <2>2 DEF HouseOf, Around
<1> QED BY <1>2, <1>4, AroundWorks

LEMMA RunningWorks ==
  ASSUME IInv, Running \/ Reboot \/ (\E r \in Rev : Expire(r)), ~Activate
  PROVE  Worked(Worker)
<1>1. 1 \in Rev BY BoundsAssumption DEF Rev
<1>2. CASE Claim BY <1>2, ClaimWorks
<1>3. CASE WriteManifest \/ WriteActivating \/ WriteActive
  <2>1. Around /\ rev' = rev
    BY <1>1, <1>3 DEF WriteManifest, WriteActivating, WriteActive, RuntimeSame, Around
  <2> QED BY <2>1, AroundWorks
<1>4. CASE Replay \/ ServeWithout \/ Refuse \/ Reboot
  <2>1. Around /\ rev' = rev
    BY <1>1, <1>4 DEF Replay, ServeWithout, Refuse, Reboot, Around
  <2> QED BY <2>1, AroundWorks
<1>5. CASE Acknowledge
  <2>1. Env \in Rev BY <1>5 DEF Acknowledge, Replayed, Valid, Env, IInv, Machinery
  <2>2. Around /\ rev' = rev BY <1>5, <2>1 DEF Acknowledge, Around
  <2> QED BY <2>2, AroundWorks
<1>6. CASE \E r \in Rev : Expire(r)
  <2>1. Around /\ rev' = rev BY <1>1, <1>6 DEF Expire, Around
  <2> QED BY <2>1, AroundWorks
<1> QED BY <1>2, <1>3, <1>4, <1>5, <1>6 DEF Running

LEMMA TakesTake ==
  ASSUME IInv, Lease \/ (\E j \in JobId : Reclaim(j) \/ Reconcile(j))
  PROVE  \E a \in Actor : \E j : Taken(a, j)
<1>1. Worker \in Actor /\ Operator \in Actor BY DEF Actor
<1>2. CASE Lease
  <2>1. PICK i \in DOMAIN order : Due(order[i]) /\ Take(order[i]) BY <1>2 DEF Lease
  <2>2. Taken(Worker, order[i])
    BY <1>2, <2>1 DEF Lease, Due, Status, Take, Taken
  <2> QED BY <1>1, <2>2
<1>3. ASSUME NEW j \in JobId, Reclaim(j) PROVE \E a \in Actor : \E k : Taken(a, k)
  <2>1. Taken(Worker, j) BY <1>3 DEF Reclaim, Status, Take, Taken
  <2> QED BY <1>1, <2>1
<1>4. ASSUME NEW j \in JobId, Reconcile(j) PROVE \E a \in Actor : \E k : Taken(a, k)
  <2>1. Taken(Operator, j) BY <1>4, ActorAssumption DEF Reconcile, Status, Taken
  <2> QED BY <1>1, <2>1
<1> QED BY <1>2, <1>3, <1>4

-----------------------------------------------------------------------------
(* Every step, and what follows from it *)

\* Every step is one of these.
StepOf ==
  \/ \E a \in Actor : Worked(a) \/ \E j : Taken(a, j)
  \/ Undone \/ (\E S : NewRev(S)) \/ Activate

\* Whatever happens is a step of one of the kinds.
LEMMA NextIsStep == ASSUME IInv, [Next]_vars PROVE StepOf
<1>0. Worker \in Actor /\ Operator \in Actor BY DEF Actor
<1> USE DEF StepOf
<1>1. CASE Family
  <2>1. ASSUME NEW m \in Member, AddMember(m) PROVE StepOf BY <2>1, AddMemberPlans
  <2>2. ASSUME NEW m \in Member, Drift(m) PROVE StepOf BY <1>0, <2>2, DriftWorks
  <2>3. CASE Onboard BY <2>3, OnboardPlans
  <2>4. CASE Reset
    <3>1. Undo(TRUE) BY <2>4 DEF Reset
    <3> QED BY <3>1, UndoUndoes
  <2>5. CASE Cancel
    <3>1. Undo(FALSE) /\ workflow # "complete" BY <2>5 DEF Cancel
    <3> QED BY <3>1, UndoUndoes
  <2>6. CASE Withdraw BY <2>6, WithdrawUndoes
  <2> QED BY <1>1, <2>1, <2>2, <2>3, <2>4, <2>5, <2>6 DEF Family
<1>2. CASE Sweep BY <1>2, SweepPlans
<1>3. CASE Working
  <2>1. CASE Lease \/ (\E j \in JobId : Reclaim(j)) BY <2>1, TakesTake
  <2>2. CASE Work(Worker) BY <1>0, <2>2, WorkIsWorked
  <2>3. CASE JudgeReclaimed BY <1>0, <2>3, ReclaimedWorks
  <2>4. CASE CallStop BY <1>0, <2>4, CallStopWorks
  <2> QED BY <1>3, <2>1, <2>2, <2>3, <2>4 DEF Working
<1>4. CASE Reconciling
  <2>1. CASE \E j \in JobId : Reconcile(j) BY <2>1, TakesTake
  <2>2. CASE Work(Operator) BY <1>0, <2>2, WorkIsWorked
  <2>3. CASE JudgeReconciled BY <1>0, <2>3, ReconciledWorks
  <2> QED BY <1>4, <2>1, <2>2, <2>3 DEF Reconciling
<1>5. CASE Running \/ Reboot \/ (\E r \in Rev : Expire(r)) BY <1>0, <1>5, RunningWorks
<1>6. CASE \E a \in Actor : Die(a) BY <1>6, DieWorks
<1>7. CASE UNCHANGED vars
  <2>1. 1 \in Rev BY BoundsAssumption DEF Rev
  <2>2. Around /\ rev' = rev BY <1>7, <2>1 DEF Around
  <2> QED BY <1>0, <2>2, AroundWorks
<1> HIDE DEF StepOf
<1> QED BY <1>1, <1>2, <1>3, <1>4, <1>5, <1>6, <1>7 DEF Next

\* The invariant is kept by every step.
LEMMA NextKeeps == ASSUME IInv, [Next]_vars PROVE IInv'
<1>1. StepOf BY NextIsStep
<1> QED BY <1>1, WorkKeeps, TakeKeeps, UndoneKeeps, NewRevKeeps, ActivateKeeps DEF StepOf

(* The invariant holds of every behaviour. *)
THEOREM RolloutInductive == Spec => []IInv
<1>1. Init => IInv BY InitIInv
<1>2. IInv /\ [Next]_vars => IInv' BY NextKeeps
<1> QED BY <1>1, <1>2, PTL DEF Spec

(* Whoever the router is told to admit was published by a revision that went *)
(* live and names them, or that was given up; and one rollout at most that   *)
(* nobody revoked is under way (schedule_runtime_rollout, activate).         *)
THEOREM PublishedServed == Spec => []PublishedIsServed
<1>1. IInv => PublishedIsServed
  <2> SUFFICES ASSUME IInv PROVE PublishedIsServed OBVIOUS
  <2>1. ASSUME NEW m \in Member, binding[m] \in Rev PROVE Served(m)
    <3> DEFINE r == binding[m]
    <3>1. r \in Rev /\ activated[r] > 0 /\ Admitted(m, r) BY <2>1 DEF IInv, Public
    <3>2. Over(r) => GivenUp(r) BY DEF Over, GivenUp, Status, St
    <3> QED BY <3>1, <3>2 DEF Served, Admitted
  <2> DEFINE S == {r \in Rev : InFlight(Run(r)) /\ rev[r] # "revoked"}
  <2>2. \A r, s \in S : r = s BY DEF IInv, OneAfloat, Afloat
  <2>3. Cardinality(S) <= 1
    <3>1. CASE S = {} BY <3>1, FS_EmptySet
    <3>2. CASE S # {}
      <4>1. PICK r \in S : TRUE BY <3>2
      <4>2. S = {r} BY <2>2, <4>1
      <4>3. Cardinality({r}) = 1 BY FS_Singleton
      <4> HIDE DEF S
      <4> QED BY <4>2, <4>3
    <3> QED BY <3>1, <3>2
  <2> QED BY <2>1, <2>3 DEF PublishedIsServed
<1> QED BY <1>1, RolloutInductive, PTL

(* A revision that is live was consented to, in the cycle of consent there   *)
(* is now: no claim or activation that comes late outlives a withdrawal      *)
(* (ConsentWithdrawalService.withdraw, BootstrapService.activate).           *)
THEOREM LiveIsConsented == Spec => []Consented
<1>1. IInv => Consented
  BY DEF IInv, Gated, Own, Consented, Gone, Serving
<1> QED BY <1>1, RolloutInductive, PTL

-----------------------------------------------------------------------------
(* Types *)

JobStatus == {"none", "pending", "running", "unknown", "succeeded", "failed", "cancelled"}
Why == {"none", "awaiting", "quarantine", "problem"}
JobRow == [status : JobStatus, why : Why, op : {"none", "ensure", "reprovision"}, ref : Ref]
RowStatus == {"none", "creating", "ready", "deleting", "unknown", "deleted"}
Answer == {"none", "reclaimed", "awaiting", "ready", "pending", "absent", "failed", "lost", "kept"}
VolumeType == [id : 0..IdMax, manifest : 0..RevMax, of : 0..RevMax, marked : BOOLEAN,
               state : {"none", "activating", "active"}]
MachineType == [id : 0..IdMax, rev : 0..RevMax, token : 0..TokenMax]
TokenType == [n : 0..TokenMax, expired : BOOLEAN,
              state : {"none", "live", "claimed", "used", "revoked"}]

\* TypeOK, less what the invariant says of types; and one revision is live at most.
HouseOK ==
  /\ home \in {"onboarding", "provisioning", "active", "draft"}
  /\ workflow \in {"in_progress", "runtime_provisioning", "activating", "complete", "cancelled"}
  /\ current \in 0..RevMax /\ bound \in BOOLEAN
TokenOK == token \in [Rev -> TokenType]
QueueOK == jobs \in [JobId -> JobRow] /\ order \in Seq(JobId)
RowOK == row \in [Rev -> [status : RowStatus, ref : Ref]]
CloudOK ==
  /\ app \in BOOLEAN /\ secret \in (0..RevMax) \X (0..TokenMax)
  /\ volume \in VolumeType /\ machine \in MachineType /\ ids \in 0..IdMax
  /\ machine.id = None => machine.rev = None
HandOK == at \in [Actor -> JobId] /\ got \in [Actor -> Answer] /\ res \in [Actor -> Ref]
RestOK ==
  /\ cycles \in 0..RevMax /\ faults \in 0..FaultMax
  /\ rt \in {"off", "boot", "claimed", "installed", "activating", "activated", "active", "done"}
  /\ activated \in [Rev -> 0..TokenMax]
OneLive == \A r, s \in Rev : Serving(r) /\ Serving(s) => r = s
TypesOK == HouseOK /\ TokenOK /\ QueueOK /\ RowOK /\ CloudOK /\ HandOK /\ RestOK
Typed == TypesOK /\ OneLive

LEMMA TypedIsTypeOK == ASSUME IInv, Typed PROVE TypeOK
  BY DEF IInv, Shape, Typed, TypesOK, HouseOK, TokenOK, QueueOK, RowOK, CloudOK, HandOK, RestOK,
         TypeOK, Place, JobStatus, Why, JobRow, RowStatus, Answer, VolumeType, MachineType,
         TokenType

LEMMA Numbers ==
  /\ RevMax \in Nat /\ TokenMax \in Nat /\ IdMax \in Nat /\ FaultMax \in Nat
  /\ 0 \in 0..RevMax /\ 0 \in 0..TokenMax /\ 0 \in 0..IdMax /\ 1 \in Rev /\ 1 \in 0..TokenMax
  /\ \A r \in Rev : r \in 0..RevMax /\ r \in Nat /\ r # 0
  /\ Nothing \in Ref /\ Worker \in Actor /\ Operator \in Actor /\ Worker # Operator
  /\ \A k \in Kind, r \in Rev : <<k, r>> \in JobId
  /\ Run(1) \in JobId
<1>1. /\ RevMax \in Nat /\ RevMax >= 1 /\ TokenMax \in Nat /\ TokenMax >= 1
      /\ IdMax \in Nat /\ FaultMax \in Nat
  BY BoundsAssumption
<1>2. 1 \in Rev /\ 0 \in 0..IdMax BY <1>1 DEF Rev
<1>3. Nothing \in Ref BY <1>2 DEF Nothing, Ref, None
<1>4. \A k \in Kind, r \in Rev : <<k, r>> \in JobId BY DEF JobId
<1>5. Run(1) \in JobId BY <1>2, RunIsJob
<1> QED BY <1>1, <1>2, <1>3, <1>4, <1>5, ActorAssumption DEF Rev, Actor

LEMMA InitTyped == Init => Typed
<1> SUFFICES ASSUME Init PROVE Typed OBVIOUS
<1> USE DEF Init
<1>1. HouseOK BY Numbers DEF HouseOK, Rev
<1>2. TokenOK BY Numbers DEF TokenOK, TokenType, NoToken, None
<1>3. QueueOK
  <2>1. NoJob \in JobRow BY Numbers DEF NoJob, JobRow, JobStatus, Why
  <2>2. [NoJob EXCEPT !.status = "pending", !.op = "ensure"] \in JobRow
    BY Numbers DEF NoJob, JobRow, JobStatus, Why
  <2>3. jobs \in [JobId -> JobRow] BY <2>1, <2>2
  <2>4. order \in Seq(JobId) BY Numbers
  <2> QED BY <2>3, <2>4 DEF QueueOK
<1>4. RowOK BY Numbers DEF RowOK, RowStatus
<1>5. CloudOK
  BY Numbers DEF CloudOK, NoSecret, NoVolume, NoMachine, None, VolumeType, MachineType
<1>6. HandOK BY Numbers DEF HandOK, Answer
<1>7. RestOK
  <2>1. activated \in [Rev -> 0..TokenMax] BY Numbers
  <2> QED BY <2>1, Numbers DEF RestOK, Rev
<1>8. OneLive
  <2>1. \A r \in Rev : rev[r] # "active" OBVIOUS
  <2> QED BY <2>1 DEF OneLive, Serving
<1> QED BY <1>1, <1>2, <1>3, <1>4, <1>5, <1>6, <1>7, <1>8 DEF Typed, TypesOK
-----------------------------------------------------------------------------
(* The parts of a step, and types *)

JobsOK(js) == js \in [JobId -> JobRow]

LEMMA SettleType ==
  ASSUME NEW js, JobsOK(js), NEW j, NEW s \in JobStatus, NEW w \in Why
  PROVE  JobsOK(Settle(js, j, s, w))
<1>1. CASE j \in JobId
  <2>1. Settle(js, j, s, w) = [js EXCEPT ![j] = [[@ EXCEPT !.status = s] EXCEPT !.why = w]]
    BY <1>1 DEF Settle, JobsOK
  <2>2. js[j] \in JobRow BY <1>1 DEF JobsOK
  <2> DEFINE new == [[js[j] EXCEPT !.status = s] EXCEPT !.why = w]
  <2>3. new \in JobRow BY <2>2 DEF JobRow
  <2>4. Settle(js, j, s, w) = [js EXCEPT ![j] = new] BY <2>1
  <2> HIDE DEF new
  <2> QED BY <2>3, <2>4 DEF JobsOK
<1>2. CASE j \notin JobId
  BY <1>2 DEF Settle, JobsOK
<1> QED BY <1>1, <1>2

LEMMA CreateType ==
  ASSUME NEW js, JobsOK(js), NEW j, NEW job \in JobRow
  PROVE  JobsOK(Create(js, j, job))
  BY DEF Create, JobsOK

LEMMA NewType ==
  ASSUME NEW op \in {"none", "ensure", "reprovision"}, NEW ref \in Ref
  PROVE  New(op, ref) \in JobRow
  BY DEF New, JobRow, JobStatus, Why

LEMMA EnqueueType == ASSUME Typed, NEW j \in JobId PROVE Enqueue(j) \in Seq(JobId)
  BY AppendProperties DEF Enqueue, Typed, TypesOK, QueueOK

LEMMA IdleType == ASSUME Typed, NEW a \in Actor, Idle(a) PROVE HandOK'
  BY Numbers DEF Typed, TypesOK, HandOK, Idle, Answer

LEMMA GoType ==
  ASSUME Typed, NEW a \in Actor, NEW place, NEW answer \in Answer, NEW ref \in Ref,
         Go(a, place, answer, ref)
  PROVE  HandOK'
  BY DEF Typed, TypesOK, HandOK, Go

LEMMA HeldRef == ASSUME Typed, NEW a \in Actor PROVE res[a] \in Ref /\ got[a] \in Answer
  BY DEF Typed, TypesOK, HandOK

LEMMA RestoreType ==
  ASSUME Typed, NEW r, Restore(r), UNCHANGED <<workflow, bound>>
  PROVE  HouseOK'
<1> DEFINE settled == {s \in Rev : rev[s] = "active"}
           latest == CHOOSE s \in settled : \A t \in settled : t <= s
<1>1. CASE UNCHANGED <<home, current>> BY <1>1 DEF Typed, TypesOK, HouseOK
<1>2. CASE settled # {} /\ home' = "active" /\ current' = latest
  <2>1. PICK s \in settled : TRUE BY <1>2
  <2>2. s \in Rev /\ \A t \in settled : t = s BY <2>1 DEF Typed, TypesOK, OneLive, Serving
  <2>3. \A t \in settled : t <= s BY <2>2, Numbers
  <2>4. latest \in settled BY <2>1, <2>3
  <2>5. current' \in 0..RevMax BY <1>2, <2>4, Numbers
  <2> QED BY <1>2, <2>5 DEF Typed, TypesOK, HouseOK
<1> QED BY <1>1, <1>2 DEF Restore

LEMMA MarkFailedType ==
  ASSUME Typed, NEW r, MarkFailed(r), UNCHANGED <<workflow, bound, order>>
  PROVE  HouseOK' /\ QueueOK'
<1>1. CASE UNCHANGED <<jobs, home, current>> BY <1>1 DEF Typed, TypesOK, HouseOK, QueueOK
<1>2. CASE /\ jobs' = Settle(jobs, Run(r), "failed", "problem")
           /\ Restore(r) \/ UNCHANGED <<home, current>>
  <2>1. QueueOK' BY <1>2, SettleType DEF Typed, TypesOK, QueueOK, JobsOK, JobStatus, Why
  <2>2. HouseOK' BY <1>2, RestoreType DEF Typed, TypesOK, HouseOK
  <2> QED BY <2>1, <2>2
<1> QED BY <1>1, <1>2 DEF MarkFailed

LEMMA MarkUnknownType == ASSUME Typed, NEW j, MarkUnknown(j), UNCHANGED order PROVE QueueOK'
  BY SettleType DEF MarkUnknown, Typed, TypesOK, QueueOK, JobsOK, JobStatus, Why

LEMMA DeadlineType ==
  ASSUME Typed, NEW r, Deadline(r), UNCHANGED <<workflow, bound, order>>
  PROVE  HouseOK' /\ QueueOK'
<1>1. CASE UNCHANGED <<jobs, home, current>> BY <1>1 DEF Typed, TypesOK, HouseOK, QueueOK
<1>2. CASE jobs' = Settle(jobs, Run(r), "succeeded", "none") /\ UNCHANGED <<home, current>>
  BY <1>2, SettleType DEF Typed, TypesOK, HouseOK, QueueOK, JobsOK, JobStatus, Why
<1>3. CASE MarkFailed(r) BY <1>3, MarkFailedType
<1> QED BY <1>1, <1>2, <1>3 DEF Deadline

LEMMA RevokeType == ASSUME Typed, RevokeTokens PROVE TokenOK'
<1> SUFFICES ASSUME NEW r \in Rev
             PROVE (IF token[r].state \in Unspent THEN [token[r] EXCEPT !.state = "revoked"]
                    ELSE token[r]) \in TokenType
  BY DEF RevokeTokens, TokenOK
<1>1. token[r] \in TokenType BY DEF Typed, TypesOK, TokenOK
<1> QED BY <1>1 DEF TokenType

LEMMA PlanFaults == ASSUME IInv PROVE plan.faults \in 0..FaultMax /\ plan.revs \in Rev
  BY PlanAssumption DEF IInv, Shape
LEMMA MishapType == ASSUME IInv, Typed, Mishap \/ Answered PROVE faults' \in 0..FaultMax
  BY PlanFaults, Numbers DEF Mishap, Answered, Typed, TypesOK, RestOK

LEMMA UnsetType == ASSUME Typed, Unset, UNCHANGED <<app, volume, ids>>
                   PROVE CloudOK' /\ rt' \in {rt, "boot"}
<1>1. machine \in MachineType BY DEF Typed, TypesOK, CloudOK
<1>2. /\ machine' \in MachineType
      /\ machine'.id = machine.id /\ machine'.rev = machine.rev
  BY <1>1, Numbers DEF Unset, MachineType, None
<1>3. secret' \in (0..RevMax) \X (0..TokenMax) BY Numbers DEF Unset, NoSecret, None
<1> QED BY <1>2, <1>3 DEF Typed, TypesOK, CloudOK, Unset

LEMMA RazedType ==
  ASSUME Typed, NEW ref, NEW whole \in BOOLEAN, UNCHANGED ids,
         Razed(ref, whole) \/ Stopped(ref) \/ Untouched
  PROVE  CloudOK' /\ rt' \in {rt, "off"}
<1>1. /\ NoMachine \in MachineType /\ NoMachine.rev = None /\ NoVolume \in VolumeType
      /\ NoSecret \in (0..RevMax) \X (0..TokenMax)
  BY Numbers DEF NoMachine, NoVolume, NoSecret, MachineType, VolumeType, None
<1>2. CASE Untouched BY <1>2 DEF Untouched, Typed, TypesOK, CloudOK
<1>3. CASE Stopped(ref) BY <1>1, <1>3 DEF Stopped, Typed, TypesOK, CloudOK
<1>4. CASE Razed(ref, whole)
  <2>1. machine' \in {machine, NoMachine} /\ volume' \in {volume, NoVolume}
        /\ app' \in {app, FALSE} /\ secret' \in {secret, NoSecret} /\ rt' \in {rt, "off"}
    BY <1>4 DEF Razed, Typed, TypesOK, CloudOK
  <2> QED BY <1>1, <2>1 DEF Typed, TypesOK, CloudOK
<1> QED BY <1>2, <1>3, <1>4
-----------------------------------------------------------------------------
(* Every step keeps the types *)

LEMMA HandTypes ==
  ASSUME IInv, Typed, NEW a \in Actor,
         Gate(a) \/ Inspect(a) \/ Install(a) \/ Recheck(a)
  PROVE  TypesOK'
<1>1. CASE Gate(a)
  <2>1. CASE Block(For(a)) /\ Idle(a) /\ UNCHANGED <<current, bound, cycles, order, row>>
    <3>1. HandOK' BY <2>1, IdleType
    <3>2. QueueOK'
      BY <2>1, SettleType DEF Block, Typed, TypesOK, QueueOK, JobsOK, JobStatus, Why
    <3>3. HouseOK' BY <2>1 DEF Block, Typed, TypesOK, HouseOK
    <3>4. TokenOK' BY <2>1, RevokeType DEF Block, Typed, TypesOK, TokenOK
    <3> QED BY <1>1, <2>1, <3>1, <3>2, <3>3, <3>4 DEF Gate, Typed, TypesOK, RowOK, CloudOK, RestOK
  <2>2. CASE Deadline(For(a)) /\ Idle(a) /\ UNCHANGED <<workflow, bound, token, cycles, order, row>>
    <3>1. HandOK' BY <2>2, IdleType
    <3>2. QueueOK' /\ HouseOK' BY <2>2, DeadlineType
    <3> QED BY <1>1, <2>2, <3>1, <3>2 DEF Gate, Typed, TypesOK, TokenOK, RowOK, CloudOK, RestOK
  <2>3. CASE UNCHANGED db /\ \E place : Go(a, place, "none", Nothing)
    <3>1. HandOK' BY <2>3, GoType, Numbers DEF Answer
    <3> QED BY <1>1, <2>3, <3>1
        DEF Gate, Typed, TypesOK, HouseOK, TokenOK, QueueOK, RowOK, CloudOK, RestOK
  <2> QED BY <1>1, <2>1, <2>2, <2>3 DEF Gate
<1>2. CASE Inspect(a)
  <2>1. MachineRef \in Ref
    BY DEF MachineRef, Ref, Typed, TypesOK, CloudOK, VolumeType, MachineType
  <2>2. \E answer \in Answer, ref \in Ref : Go(a, "judge", answer, ref)
    BY <1>2, <2>1, Numbers DEF Inspect, Shown, Answer
  <2>3. HandOK' BY <2>2, GoType
  <2>4. faults' \in 0..FaultMax BY <1>2, MishapType DEF Inspect
  <2> QED BY <1>2, <2>3, <2>4
      DEF Inspect, Typed, TypesOK, HouseOK, TokenOK, QueueOK, RowOK, CloudOK, RestOK
<1>3. CASE Install(a)
  <2>1. For(a) \in Rev BY <1>3, TheRun DEF Install
  <2>2. token[For(a)].n \in 0..TokenMax BY <2>1 DEF Typed, TypesOK, TokenOK, TokenType
  <2>3. secret' \in (0..RevMax) \X (0..TokenMax)
    BY <1>3, <2>1, <2>2, Numbers DEF Install, Typed, TypesOK, CloudOK
  <2>4. HandOK' BY <1>3, GoType, IdleType, HeldRef DEF Install, Answer
  <2>5. QueueOK' BY <1>3, MarkUnknownType DEF Install, Typed, TypesOK, QueueOK
  <2>6. faults' \in 0..FaultMax BY <1>3, MishapType DEF Install
  <2> QED BY <1>3, <2>3, <2>4, <2>5, <2>6
      DEF Install, Typed, TypesOK, HouseOK, TokenOK, RowOK, CloudOK, RestOK
<1>4. CASE Recheck(a)
  <2>1. HandOK' BY <1>4, GoType, HeldRef DEF Recheck, Answer
  <2> QED BY <1>4, <2>1
      DEF Recheck, Typed, TypesOK, HouseOK, TokenOK, QueueOK, RowOK, CloudOK, RestOK
<1> QED BY <1>1, <1>2, <1>3, <1>4

LEMMA SettleAbsentType ==
  ASSUME Typed, NEW r, SettleAbsent(r), UNCHANGED order
  PROVE  QueueOK' /\ RowOK'
<1>1. CASE UNCHANGED <<jobs, row>> BY <1>1 DEF Typed, TypesOK, QueueOK, RowOK
<1>2. CASE /\ jobs' = Settle(jobs, Run(r), "cancelled", "problem")
           /\ row' = [s \in Rev |-> IF row[s].status = "none" THEN row[s]
                                    ELSE [row[s] EXCEPT !.status = "deleted"]]
  <2>1. QueueOK' BY <1>2, SettleType DEF Typed, TypesOK, QueueOK, JobsOK, JobStatus, Why
  <2>2. ASSUME NEW s \in Rev
        PROVE  /\ row[s] \in [status : RowStatus, ref : Ref]
               /\ [row[s] EXCEPT !.status = "deleted"] \in [status : RowStatus, ref : Ref]
    BY DEF Typed, TypesOK, RowOK, RowStatus
  <2>3. RowOK' BY <1>2, <2>2 DEF RowOK
  <2> QED BY <2>1, <2>3
<1> QED BY <1>1, <1>2 DEF SettleAbsent

LEMMA JudgeTypes ==
  ASSUME IInv, Typed, JudgeReclaimed \/ JudgeReconciled
  PROVE  TypesOK'
<1>1. CASE JudgeReclaimed
  <2>1. HandOK' BY <1>1, GoType, IdleType, HeldRef, Numbers DEF JudgeReclaimed, Answer
  <2>2. HouseOK' /\ QueueOK'
    BY <1>1, MarkFailedType, MarkUnknownType DEF JudgeReclaimed, Typed, TypesOK, HouseOK, QueueOK
  <2> QED BY <1>1, <2>1, <2>2 DEF JudgeReclaimed, Typed, TypesOK, TokenOK, RowOK, CloudOK, RestOK
<1>2. CASE JudgeReconciled
  <2>1. HandOK' BY <1>2, GoType, IdleType, HeldRef, Numbers DEF JudgeReconciled, Answer
  <2>2. HouseOK' /\ QueueOK' /\ RowOK'
    BY <1>2, MarkFailedType, SettleAbsentType
    DEF JudgeReconciled, Typed, TypesOK, HouseOK, QueueOK, RowOK
  <2> QED BY <1>2, <2>1, <2>2 DEF JudgeReconciled, Typed, TypesOK, TokenOK, CloudOK, RestOK
<1> QED BY <1>1, <1>2

LEMMA CallFailsType ==
  ASSUME IInv, Typed, NEW a \in Actor, CallFails(a), UNCHANGED <<workflow, bound, order>>
  PROVE  HouseOK' /\ QueueOK' /\ HandOK' /\ faults' \in 0..FaultMax
<1>1. HandOK' /\ faults' \in 0..FaultMax BY IdleType, MishapType DEF CallFails
<1>2. HouseOK' /\ QueueOK'
  BY MarkFailedType, MarkUnknownType DEF CallFails, Typed, TypesOK, HouseOK
<1> QED BY <1>1, <1>2

LEMMA PrepareTypes == ASSUME IInv, Typed, NEW a \in Actor, Prepare(a) PROVE TypesOK'
<1> DEFINE fresh == volume.id = None
           made == IF fresh THEN [NoVolume EXCEPT !.id = ids + 1] ELSE volume
<1>0. volume \in VolumeType /\ ids \in 0..IdMax BY DEF Typed, TypesOK, CloudOK
<1>1. fresh => ids + 1 \in 0..IdMax BY <1>0, Numbers DEF Prepare
<1>2. made \in VolumeType BY <1>0, <1>1, Numbers DEF NoVolume, VolumeType, None
<1>3. \/ app' = TRUE /\ volume' = made /\ ids' = IF fresh THEN ids + 1 ELSE ids
      \/ UNCHANGED <<app, volume, ids>>
  BY DEF Prepare
<1>4. CloudOK' BY <1>1, <1>2, <1>3 DEF Prepare, Typed, TypesOK, CloudOK
<1>5. UNCHANGED <<workflow, bound, token, cycles, order, row, rt, activated>> BY DEF Prepare
<1>6. HouseOK' /\ QueueOK' /\ HandOK' /\ faults' \in 0..FaultMax
  <2>1. CASE CallFails(a) BY <1>5, <2>1, CallFailsType
  <2>2. CASE ~CallFails(a)
    <3>1. Answered /\ NothingMarked /\ Go(a, "issue", "none", [volume |-> made.id, machine |-> None])
      BY <2>2 DEF Prepare
    <3>2. [volume |-> made.id, machine |-> None] \in Ref
      BY <1>2, Numbers DEF Ref, VolumeType, None
    <3>3. HandOK' BY <3>1, <3>2, GoType DEF Answer
    <3>4. HouseOK' /\ QueueOK'
      BY <1>5, <3>1 DEF NothingMarked, Typed, TypesOK, HouseOK, QueueOK
    <3> QED BY <3>1, <3>3, <3>4, MishapType
  <2> QED BY <2>1, <2>2
<1> QED BY <1>4, <1>5, <1>6 DEF Typed, TypesOK, TokenOK, RowOK, RestOK

LEMMA IssueTokenTypes == ASSUME IInv, Typed, NEW a \in Actor, IssueToken(a) PROVE TypesOK'
<1> DEFINE r == For(a)
<1>1. r \in Rev BY TheRun DEF IssueToken
<1>2. HandOK' BY GoType, IdleType, HeldRef DEF IssueToken, Answer
<1>3. HouseOK' BY DEF IssueToken, Typed, TypesOK, HouseOK
<1>4. QueueOK' BY DEF IssueToken, Typed, TypesOK, QueueOK
<1>5. RowOK'
  <2>1. [status |-> "creating", ref |-> res[a]] \in [status : RowStatus, ref : Ref]
    BY HeldRef DEF RowStatus
  <2> QED BY <2>1 DEF IssueToken, Typed, TypesOK, RowOK
<1>6. TokenOK'
  <2>1. CASE UNCHANGED token BY <2>1 DEF Typed, TypesOK, TokenOK
  <2>2. CASE IssueBootstrap(r) /\ token[r].n < TokenMax
    <3>1. token[r].n \in 0..TokenMax BY <1>1 DEF Typed, TypesOK, TokenOK, TokenType
    <3>2. [n |-> token[r].n + 1, state |-> "live", expired |-> FALSE] \in TokenType
      BY <2>2, <3>1, Numbers DEF TokenType
    <3> QED BY <2>2, <3>2 DEF IssueBootstrap, Typed, TypesOK, TokenOK
  <2> QED BY <2>1, <2>2 DEF IssueToken
<1> QED BY <1>2, <1>3, <1>4, <1>5, <1>6 DEF IssueToken, Typed, TypesOK, CloudOK, RestOK

LEMMA LaunchTypes == ASSUME IInv, Typed, NEW a \in Actor, Launch(a) PROVE TypesOK'
<1> DEFINE r == For(a)
           fresh == machine.id = None
           id == IF fresh THEN ids + 1 ELSE machine.id
           new == [id |-> id, rev |-> r, token |-> IF secret[1] = r THEN secret[2] ELSE None]
<1>0. /\ machine \in MachineType /\ ids \in 0..IdMax /\ volume \in VolumeType
      /\ secret \in (0..RevMax) \X (0..TokenMax) /\ r \in Rev
  BY TheRun DEF Launch, Typed, TypesOK, CloudOK
<1>1. \/ UNCHANGED <<machine, ids, rt>>
      \/ /\ fresh => ids < IdMax
         /\ machine' = new /\ rt' = "boot" /\ ids' = IF fresh THEN id ELSE ids
  BY DEF Launch
<1>2. (fresh => ids < IdMax) => id \in 0..IdMax /\ id # None /\ new \in MachineType /\ new.id = id
  BY <1>0, Numbers DEF MachineType, None
<1>3. CloudOK' BY <1>0, <1>1, <1>2 DEF Launch, Typed, TypesOK, CloudOK
<1>4. UNCHANGED <<workflow, bound, token, cycles, order, row, activated>> BY DEF Launch
<1>5. HouseOK' /\ QueueOK' /\ HandOK' /\ faults' \in 0..FaultMax
  <2>1. CASE CallFails(a) BY <1>4, <2>1, CallFailsType
  <2>2. CASE MarkUnknown(Run(r)) /\ Idle(a) /\ UNCHANGED <<home, current>> /\ (Mishap \/ Answered)
    BY <1>4, <2>2, MarkUnknownType, IdleType, MishapType DEF Typed, TypesOK, HouseOK
  <2>3. CASE /\ Answered /\ NothingMarked
             /\ (fresh => ids < IdMax) \/ machine.rev = r
             /\ Go(a, "ready", "none", [volume |-> volume.id, machine |-> id])
    <3>1. id \in 0..IdMax
      <4>1. CASE fresh => ids < IdMax BY <1>2, <4>1
      <4>2. CASE machine.rev = r /\ fresh
        <5>1. machine.rev = None BY <4>2 DEF Typed, TypesOK, CloudOK
        <5> QED BY <1>0, <4>2, <5>1, Numbers DEF None
      <4> QED BY <2>3, <4>1, <4>2
    <3>2. [volume |-> volume.id, machine |-> id] \in Ref BY <1>0, <3>1 DEF Ref, VolumeType
    <3>3. HandOK' BY <2>3, <3>2, GoType DEF Answer
    <3>4. HouseOK' /\ QueueOK'
      BY <1>4, <2>3 DEF NothingMarked, Typed, TypesOK, HouseOK, QueueOK
    <3> QED BY <2>3, <3>3, <3>4, MishapType
  <2> QED BY <2>1, <2>2, <2>3 DEF Launch
<1>6. rt' \in {rt, "boot"} BY <1>1
<1> QED BY <1>3, <1>4, <1>5, <1>6 DEF Typed, TypesOK, TokenOK, RowOK, RestOK

LEMMA SettleReadyTypes == ASSUME IInv, Typed, NEW a \in Actor, SettleReady(a) PROVE TypesOK'
<1> DEFINE r == For(a)
<1>1. r \in Rev BY TheRun DEF SettleReady
<1>2. HandOK' BY GoType, IdleType, HeldRef DEF SettleReady, Answer
<1>3. UNCHANGED <<workflow, bound, order>> BY DEF SettleReady
<1>4. HouseOK' /\ QueueOK'
  <2>1. CASE UNCHANGED <<jobs, home, current>> BY <1>3, <2>1 DEF Typed, TypesOK, HouseOK, QueueOK
  <2>2. CASE jobs' = RetryLater(jobs, Run(r), "awaiting") /\ UNCHANGED <<home, current>>
    BY <1>3, <2>2, SettleType
    DEF RetryLater, Typed, TypesOK, HouseOK, QueueOK, JobsOK, JobStatus, Why
  <2>3. CASE Deadline(r) BY <1>3, <2>3, DeadlineType
  <2> QED BY <2>1, <2>2, <2>3 DEF SettleReady
<1>5. RowOK'
  <2>1. [status |-> "ready", ref |-> res[a]] \in [status : RowStatus, ref : Ref]
    BY HeldRef DEF RowStatus
  <2> QED BY <2>1 DEF SettleReady, Typed, TypesOK, RowOK
<1> QED BY <1>2, <1>4, <1>5 DEF SettleReady, Typed, TypesOK, TokenOK, CloudOK, RestOK

LEMMA UndoingTypes ==
  ASSUME IInv, Typed, NEW a \in Actor, Forget(a) \/ RazeApp(a) \/ Compensate(a)
  PROVE  TypesOK'
<1> DEFINE r == For(a)
<1>1. CASE Forget(a)
  <2>1. r \in Rev BY <1>1, TheRun DEF Forget
  <2>2. HandOK' BY <1>1, GoType, HeldRef DEF Forget, Answer
  <2>3. QueueOK'
    <3>1. <<"latesecret", r>> \in JobId BY <2>1, Numbers DEF Kind
    <3>2. \/ UNCHANGED queue
          \/ /\ jobs' = Create(jobs, <<"latesecret", r>>, New("none", Nothing))
             /\ order' = Enqueue(<<"latesecret", r>>)
      BY <1>1 DEF Forget
    <3> QED BY <3>1, <3>2, NewType, CreateType, EnqueueType, Numbers
        DEF Typed, TypesOK, QueueOK, JobsOK
  <2>4. RowOK'
    <3>1. [status |-> "deleting", ref |-> res[a]] \in [status : RowStatus, ref : Ref]
      BY HeldRef DEF RowStatus
    <3> QED BY <1>1, <3>1 DEF Forget, Typed, TypesOK, RowOK
  <2>5. CloudOK' /\ rt' \in {rt, "boot"}
    <3>1. CASE Unset BY <1>1, <3>1, UnsetType DEF Forget
    <3>2. CASE UNCHANGED <<secret, machine, rt>>
      BY <1>1, <3>2 DEF Forget, Typed, TypesOK, CloudOK
    <3> QED BY <1>1, <3>1, <3>2 DEF Forget
  <2>6. faults' \in 0..FaultMax BY <1>1, MishapType DEF Forget
  <2> QED BY <1>1, <2>2, <2>3, <2>4, <2>5, <2>6 DEF Forget, Typed, TypesOK, HouseOK, TokenOK, RestOK
<1>2. CASE RazeApp(a)
  <2>1. \E answer \in Answer : Go(a, "settle", answer, res[a])
    BY <1>2 DEF RazeApp, Answers, Answer
  <2>2. HandOK' BY <2>1, GoType, HeldRef
  <2>3. CloudOK' /\ rt' \in {rt, "off"} BY <1>2, RazedType DEF RazeApp
  <2>4. faults' \in 0..FaultMax BY <1>2, MishapType DEF RazeApp
  <2> QED BY <1>2, <2>2, <2>3, <2>4
      DEF RazeApp, Typed, TypesOK, HouseOK, TokenOK, QueueOK, RowOK, RestOK
<1>3. CASE Compensate(a)
  <2>1. r \in Rev BY <1>3, TheRun DEF Compensate, Job
  <2>2. HandOK' BY <1>3, IdleType DEF Compensate
  <2>3. <<"late", r>> \in JobId BY <2>1, Numbers DEF Kind
  <2>4. \/ UNCHANGED queue
        \/ jobs' = Settle(jobs, Run(r), "cancelled", "problem") /\ UNCHANGED order
        \/ /\ jobs' = Create(jobs, <<"late", r>>, New("none", res[a]))
           /\ order' = Enqueue(<<"late", r>>)
    BY <1>3 DEF Compensate
  <2>5. QueueOK'
    <3>1. JobsOK(jobs) /\ order \in Seq(JobId) BY DEF Typed, TypesOK, QueueOK, JobsOK
    <3>2. JobsOK(Create(jobs, <<"late", r>>, New("none", res[a])))
      BY <3>1, NewType, CreateType, HeldRef
    <3>3. JobsOK(Settle(jobs, Run(r), "cancelled", "problem"))
      BY <3>1, SettleType DEF JobStatus, Why
    <3>4. Enqueue(<<"late", r>>) \in Seq(JobId) BY <2>3, EnqueueType
    <3> QED BY <2>4, <3>1, <3>2, <3>3, <3>4 DEF QueueOK, JobsOK
  <2>6. RowOK' BY <1>3, <2>1 DEF Compensate, Typed, TypesOK, RowOK, RowStatus
  <2> QED BY <1>3, <2>2, <2>5, <2>6
      DEF Compensate, Typed, TypesOK, HouseOK, TokenOK, CloudOK, RestOK
<1> QED BY <1>1, <1>2, <1>3

LEMMA CallTypes ==
  ASSUME IInv, Typed, NEW a \in Actor, CallCleanup(a) \/ CallUnset(a) \/ SettleCall(a) \/ CallStop
  PROVE  TypesOK'
<1>1. CASE CallCleanup(a)
  <2>1. \E answer \in Answer : Go(a, "settle", answer, Nothing)
    BY <1>1 DEF CallCleanup, Answers, Answer
  <2>2. HandOK' BY <2>1, GoType, Numbers
  <2>3. CloudOK' /\ rt' \in {rt, "off"} BY <1>1, RazedType DEF CallCleanup
  <2>4. faults' \in 0..FaultMax BY <1>1, MishapType DEF CallCleanup
  <2> QED BY <1>1, <2>2, <2>3, <2>4
      DEF CallCleanup, Typed, TypesOK, HouseOK, TokenOK, QueueOK, RowOK, RestOK
<1>2. CASE CallUnset(a)
  <2>1. HandOK' BY <1>2, GoType, Numbers DEF CallUnset, Answer
  <2>2. CloudOK' /\ rt' \in {rt, "boot"}
    <3>1. CASE Unset BY <1>2, <3>1, UnsetType DEF CallUnset
    <3>2. CASE UNCHANGED <<secret, machine, rt>>
      BY <1>2, <3>2 DEF CallUnset, Typed, TypesOK, CloudOK
    <3> QED BY <1>2, <3>1, <3>2 DEF CallUnset
  <2>3. faults' \in 0..FaultMax BY <1>2, MishapType DEF CallUnset
  <2> QED BY <1>2, <2>1, <2>2, <2>3
      DEF CallUnset, Typed, TypesOK, HouseOK, TokenOK, QueueOK, RowOK, RestOK
<1>3. CASE SettleCall(a)
  <2>1. HandOK' BY <1>3, IdleType DEF SettleCall
  <2>2. at[a] \in JobId BY DEF Typed, TypesOK, HandOK
  <2>3. QueueOK'
    BY <1>3, SettleType DEF SettleCall, Typed, TypesOK, QueueOK, JobsOK, JobStatus, Why
  <2>4. RowOK' BY <1>3 DEF SettleCall, Typed, TypesOK, RowOK, RowStatus
  <2> QED BY <1>3, <2>1, <2>3, <2>4
      DEF SettleCall, Typed, TypesOK, HouseOK, TokenOK, CloudOK, RestOK
<1>4. CASE CallStop
  <2>1. HandOK' BY <1>4, GoType, Numbers DEF CallStop, Answer
  <2>2. volume' \in {volume, [volume EXCEPT !.marked = TRUE]} BY <1>4 DEF CallStop
  <2>3. CloudOK' BY <1>4, <2>2 DEF CallStop, Typed, TypesOK, CloudOK, VolumeType
  <2>4. faults' \in 0..FaultMax BY <1>4, MishapType DEF CallStop
  <2> QED BY <1>4, <2>1, <2>3, <2>4
      DEF CallStop, Typed, TypesOK, HouseOK, TokenOK, QueueOK, RowOK, RestOK
<1> QED BY <1>1, <1>2, <1>3, <1>4

LEMMA TakeTypes ==
  ASSUME IInv, Typed, Lease \/ (\E j \in JobId : Reclaim(j) \/ Reconcile(j))
  PROVE  TypesOK'
<1>1. ASSUME NEW j \in JobId, Take(j) PROVE TypesOK'
  <2>1. jobs' \in [JobId -> JobRow]
    BY <1>1 DEF Take, Typed, TypesOK, QueueOK, JobRow, JobStatus
  <2>2. HandOK' BY <1>1, Numbers DEF Take, Typed, TypesOK, HandOK, Answer
  <2> QED BY <1>1, <2>1, <2>2
      DEF Take, Typed, TypesOK, HouseOK, TokenOK, QueueOK, RowOK, CloudOK, RestOK
<1>2. ASSUME NEW j \in JobId, Reconcile(j) PROVE TypesOK'
  <2>1. HandOK' BY <1>2, Numbers DEF Reconcile, Typed, TypesOK, HandOK
  <2> QED BY <1>2, <2>1
      DEF Reconcile, Typed, TypesOK, HouseOK, TokenOK, QueueOK, RowOK, CloudOK, RestOK
<1>3. CASE Lease
  <2>1. PICK i \in DOMAIN order : Take(order[i]) BY <1>3 DEF Lease
  <2>2. order[i] \in JobId BY ElementOfSeq DEF Typed, TypesOK, QueueOK
  <2> QED BY <1>1, <2>1, <2>2
<1> QED BY <1>1, <1>2, <1>3 DEF Reclaim

LEMMA DieTypes == ASSUME IInv, Typed, NEW a \in Actor, Die(a) PROVE TypesOK'
<1>1. HandOK' /\ faults' \in 0..FaultMax BY IdleType, MishapType DEF Die
<1> QED BY <1>1 DEF Die, Typed, TypesOK, HouseOK, TokenOK, QueueOK, RowOK, CloudOK, RestOK
-----------------------------------------------------------------------------
(* The family, the machine and time *)

LEMMA ScheduleTypes ==
  ASSUME IInv, Typed, MayPlan, NEW op \in {"ensure", "reprovision"}, Schedule(op),
         workflow' \in {workflow, "runtime_provisioning"}
  PROVE  HouseOK' /\ QueueOK'
<1>1. NextRev \in Rev BY PlanFaults, NextIsNat, NextIsNew, BoundsAssumption DEF MayPlan, Rev
<1>2. Run(NextRev) \in JobId BY <1>1, RunIsJob
<1>3. JobsOK(jobs') /\ order' \in Seq(JobId)
  BY <1>2, NewType, CreateType, EnqueueType, Numbers
  DEF Schedule, JobsOK, Typed, TypesOK, QueueOK
<1>4. HouseOK' BY <1>1, Numbers DEF Schedule, Typed, TypesOK, HouseOK
<1> QED BY <1>3, <1>4 DEF QueueOK, JobsOK

LEMMA PlanTypes ==
  ASSUME IInv, Typed, Sweep \/ Onboard \/ (\E m \in Member : AddMember(m) \/ Drift(m))
  PROVE  TypesOK'
<1>1. CASE \E m \in Member : Drift(m)
  BY <1>1 DEF Drift, Typed, TypesOK, HouseOK, TokenOK, QueueOK, RowOK, CloudOK, HandOK, RestOK
<1>2. CASE Sweep
  <2>1. HouseOK' /\ QueueOK' BY <1>2, ScheduleTypes DEF Sweep
  <2> QED BY <1>2, <2>1 DEF Sweep, Issue, Typed, TypesOK, TokenOK, RowOK, CloudOK, HandOK, RestOK
<1>3. CASE \E m \in Member : AddMember(m)
  <2>1. HouseOK' /\ QueueOK' BY <1>3, ScheduleTypes DEF AddMember
  <2> QED BY <1>3, <2>1
      DEF AddMember, Issue, Typed, TypesOK, TokenOK, RowOK, CloudOK, HandOK, RestOK
<1>4. CASE Onboard
  <2>1. HouseOK' /\ QueueOK' BY <1>4, ScheduleTypes DEF Onboard
  <2>2. cycles' \in 0..RevMax /\ UNCHANGED token
    BY <1>4, Numbers DEF Onboard, Issue, Typed, TypesOK, RestOK
  <2> QED BY <1>4, <2>1, <2>2
      DEF Onboard, Typed, TypesOK, TokenOK, RowOK, CloudOK, HandOK, RestOK
<1> QED BY <1>1, <1>2, <1>3, <1>4

\* Of a finite set of revisions each place from the newest is taken by one.
LEMMA RazingType ==
  ASSUME Typed, NEW S \in SUBSET Rev
  PROVE  Razing(S) \in Seq(JobId)
<1> DEFINE Above(r) == {s \in S : s > r}
           n == Cardinality(S)
           f == [r \in S |-> Cardinality(Above(r)) + 1]
<1>1. IsFiniteSet(S) /\ n \in Nat
  <2>1. IsFiniteSet(Rev) BY FS_Interval, BoundsAssumption DEF Rev
  <2> QED BY <2>1, FS_Subset, FS_CardinalityType
<1>2. ASSUME NEW r \in S
      PROVE  IsFiniteSet(Above(r)) /\ Cardinality(Above(r)) \in Nat /\ Cardinality(Above(r)) < n
  <2>1. Above(r) \in SUBSET S /\ r \notin Above(r) BY Numbers
  <2>2. IsFiniteSet(Above(r)) /\ Cardinality(Above(r)) <= n
        /\ (Cardinality(Above(r)) = n => S = Above(r))
    BY <1>1, <2>1, FS_Subset
  <2>3. Cardinality(Above(r)) \in Nat BY <2>2, FS_CardinalityType
  <2> QED BY <1>1, <2>1, <2>2, <2>3
<1>3. ASSUME NEW r \in S, NEW s \in S, r < s PROVE Cardinality(Above(s)) < Cardinality(Above(r))
  <2>1. Above(s) \in SUBSET Above(r) /\ s \in Above(r) /\ s \notin Above(s) BY <1>3, Numbers
  <2>2. Cardinality(Above(s)) <= Cardinality(Above(r))
        /\ (Cardinality(Above(s)) = Cardinality(Above(r)) => Above(r) = Above(s))
    BY <1>2, <2>1, FS_Subset
  <2> QED BY <1>2, <2>1, <2>2
<1>4. f \in Injection(S, 1..n)
  <2>1. f \in [S -> 1..n] BY <1>1, <1>2
  <2>2. ASSUME NEW r \in S, NEW s \in S, f[r] = f[s] PROVE r = s
    <3>1. Cardinality(Above(r)) = Cardinality(Above(s)) BY <1>2, <2>2
    <3> HIDE DEF Above
    <3> QED BY <1>2, <1>3, <3>1, Numbers
  <2> HIDE DEF f
  <2> QED BY <2>1, <2>2 DEF Injection, IsInjective
<1>5. f \in Surjection(S, 1..n)
  <2>1. IsFiniteSet(1..n) /\ Cardinality(1..n) = n BY <1>1, FS_Interval
  <2> HIDE DEF f, n
  <2> QED BY <1>4, <2>1, FS_Injection DEF n
<1>6. ASSUME NEW i \in 1..n
      PROVE  <<"raze", CHOOSE r \in S : Cardinality(Above(r)) = i - 1>> \in JobId
  <2>1. PICK r \in S : f[r] = i BY <1>5 DEF Surjection
  <2>2. f[r] = Cardinality(Above(r)) + 1 OBVIOUS
  <2>3. Cardinality(Above(r)) \in Nat BY <1>2
  <2> HIDE DEF f, Above
  <2>4. Cardinality(Above(r)) = i - 1 BY <2>1, <2>2, <2>3
  <2>5. (CHOOSE q \in S : Cardinality(Above(q)) = i - 1) \in S BY <2>4
  <2> QED BY <2>5, Numbers DEF Kind
<1> DEFINE new == [i \in 1..n |-> <<"raze", CHOOSE r \in S : Cardinality(Above(r)) = i - 1>>]
<1>7. new \in Seq(JobId)
  <2>1. new \in [1..n -> JobId] BY <1>6
  <2> HIDE DEF new
  <2> QED BY <1>1, <2>1, SeqDef
<1>8. order \in Seq(JobId) BY DEF Typed, TypesOK, QueueOK
<1>9. Razing(S) = order \o new BY DEF Razing
<1> HIDE DEF new
<1> QED BY <1>7, <1>8, <1>9, ConcatProperties

LEMMA UndoTypes ==
  ASSUME IInv, Typed, NEW reset \in BOOLEAN, Undo(reset),
         home' \in {"onboarding", "draft"}, workflow' \in {"in_progress", "cancelled"}
  PROVE  TypesOK'
<1> DEFINE js == [j \in JobId |-> IF j[1] = "raze" /\ j[2] \in Registrable
                                  THEN New("none", row[j[2]].ref) ELSE jobs[j]]
<1>1. JobsOK(js)
  <2> SUFFICES ASSUME NEW j \in JobId
               PROVE  (IF j[1] = "raze" /\ j[2] \in Registrable
                       THEN New("none", row[j[2]].ref) ELSE jobs[j]) \in JobRow
    BY DEF JobsOK
  <2>1. jobs[j] \in JobRow BY DEF Typed, TypesOK, QueueOK
  <2>2. ASSUME j[2] \in Registrable PROVE row[j[2]].ref \in Ref
    BY <2>2 DEF Registrable, Typed, TypesOK, RowOK
  <2> QED BY <2>1, <2>2, NewType
<1>2. JobsOK(Supersede(js))
  <2> HIDE DEF js
  <2> SUFFICES ASSUME NEW j \in JobId
               PROVE  /\ [js[j] EXCEPT !.status = "cancelled", !.why = "problem"] \in JobRow
                      /\ [js[j] EXCEPT !.status = "unknown", !.why = "quarantine"] \in JobRow
                      /\ js[j] \in JobRow
    BY DEF JobsOK, Supersede
  <2>1. js[j] \in JobRow BY <1>1 DEF JobsOK
  <2> QED BY <2>1 DEF JobRow, JobStatus, Why
<1>3. jobs' = Supersede(js) BY DEF Undo
<1>4. Registrable \in SUBSET Rev BY DEF Registrable
<1>5. order' \in Seq(JobId) BY <1>4, RazingType DEF Undo
<1>6. QueueOK' BY <1>2, <1>3, <1>5 DEF QueueOK, JobsOK
<1>7. RowOK'
  <2>1. \A r \in Rev : /\ row[r] \in [status : RowStatus, ref : Ref]
                        /\ [row[r] EXCEPT !.status = "deleting"] \in [status : RowStatus, ref : Ref]
    BY DEF Typed, TypesOK, RowOK, RowStatus
  <2> QED BY <2>1 DEF Undo, RowOK
<1>8. TokenOK' BY RevokeType DEF Undo
<1>9. HouseOK' BY Numbers DEF Undo, HouseOK
<1> QED BY <1>6, <1>7, <1>8, <1>9 DEF Undo, Typed, TypesOK, CloudOK, HandOK, RestOK

LEMMA WithdrawTypes == ASSUME IInv, Typed, Withdraw PROVE TypesOK'
<1>1. consent \in Rev BY DEF Withdraw, IInv, Shape, Rev, None
<1>2. <<"stop", consent>> \in JobId BY <1>1, Numbers DEF Kind
<1>3. QueueOK'
  <2>1. JobsOK(jobs) /\ order \in Seq(JobId) BY DEF Typed, TypesOK, QueueOK, JobsOK
  <2>2. JobsOK(Create(jobs, <<"stop", consent>>, New("none", Nothing)))
    BY <2>1, NewType, CreateType, Numbers
  <2>3. Enqueue(<<"stop", consent>>) \in Seq(JobId) BY <1>2, EnqueueType
  <2> QED BY <2>1, <2>2, <2>3 DEF Withdraw, EnqueueStop, QueueOK, JobsOK
<1> QED BY <1>3 DEF Withdraw, Typed, TypesOK, HouseOK, TokenOK, RowOK, CloudOK, HandOK, RestOK

LEMMA EnvIsRev ==
  ASSUME IInv, machine.token # None
  PROVE  Env \in Rev
  BY DEF IInv, Machinery, Env

LEMMA StepTypes ==
  ASSUME IInv, Typed, NEW place, Step(place) \/ (Restart /\ Mishap),
         place \in {"claimed", "installed", "activating", "activated", "active", "done"}
  PROVE  /\ faults' \in 0..FaultMax
         /\ rt' \in {"off", "boot", "claimed", "installed", "activating", "activated", "active", "done"}
  BY MishapType DEF Step, Restart, Boot

LEMMA ClaimTypes == ASSUME IInv, Typed, Claim PROVE TypesOK'
<1>1. Env \in Rev BY EnvIsRev DEF Claim, Valid
<1>2. TokenOK'
  <2>1. [token[Env] EXCEPT !.state = "claimed"] \in TokenType
    BY <1>1 DEF Typed, TypesOK, TokenOK, TokenType
  <2> QED BY <2>1 DEF Claim, Typed, TypesOK, TokenOK
<1>3. /\ faults' \in 0..FaultMax
      /\ rt' \in {"off", "boot", "claimed", "installed", "activating", "activated", "active", "done"}
  BY StepTypes DEF Claim
<1> QED BY <1>2, <1>3
    DEF Claim, RuntimeSame, Typed, TypesOK, HouseOK, QueueOK, RowOK, CloudOK, HandOK, RestOK

LEMMA ActivateTypes == ASSUME IInv, Typed, Activate PROVE TypesOK'
<1>1. Env \in Rev /\ activated[Env] = 0
  BY EnvIsRev DEF Activate, MayActivate, Valid, IInv, Before, Live, Living
<1>2. TokenOK'
  <2>1. [token[Env] EXCEPT !.state = "used"] \in TokenType
    BY <1>1 DEF Typed, TypesOK, TokenOK, TokenType
  <2> QED BY <2>1 DEF Activate, Typed, TypesOK, TokenOK
<1>3. /\ faults' \in 0..FaultMax
      /\ rt' \in {"off", "boot", "claimed", "installed", "activating", "activated", "active", "done"}
  BY StepTypes DEF Activate
<1>4. activated' \in [Rev -> 0..TokenMax]
  BY <1>1, Numbers DEF Activate, Typed, TypesOK, RestOK
<1>5. HouseOK' BY <1>1, Numbers DEF Activate, Typed, TypesOK, HouseOK
<1>6. QueueOK'
  BY SettleType DEF Activate, Typed, TypesOK, QueueOK, JobsOK, JobStatus, Why
<1> QED BY <1>2, <1>3, <1>4, <1>5, <1>6 DEF Activate, Typed, TypesOK, RowOK, CloudOK, HandOK, RestOK

LEMMA RunningTypes ==
  ASSUME IInv, Typed, Running \/ Reboot \/ (\E r \in Rev : Expire(r))
  PROVE  TypesOK'
<1>1. CASE Claim BY <1>1, ClaimTypes
<1>2. CASE Activate BY <1>2, ActivateTypes
<1>3. CASE WriteManifest \/ WriteActivating \/ WriteActive
  <2>1. Env \in 0..RevMax BY DEF Env, IInv, Machinery
  <2>2. volume' \in VolumeType
    BY <1>3, <2>1 DEF WriteManifest, WriteActivating, WriteActive, Typed, TypesOK, CloudOK,
                      VolumeType
  <2>3. /\ faults' \in 0..FaultMax
        /\ rt' \in {"off", "boot", "claimed", "installed", "activating", "activated", "active", "done"}
    BY <1>3, StepTypes DEF WriteManifest, WriteActivating, WriteActive
  <2> QED BY <1>3, <2>2, <2>3
      DEF WriteManifest, WriteActivating, WriteActive, RuntimeSame, Typed, TypesOK, HouseOK,
          TokenOK, QueueOK, RowOK, CloudOK, HandOK, RestOK
<1>4. CASE Replay \/ ServeWithout \/ Refuse \/ Reboot
  <2>1. /\ faults' \in 0..FaultMax
        /\ rt' \in {"off", "boot", "claimed", "installed", "activating", "activated", "active", "done"}
    BY <1>4, MishapType DEF Replay, ServeWithout, Refuse, Reboot, Step, Restart, Boot
  <2> QED BY <1>4, <2>1
      DEF Replay, ServeWithout, Refuse, Reboot, Typed, TypesOK, HouseOK, TokenOK, QueueOK,
          RowOK, CloudOK, HandOK, RestOK
<1>5. CASE Acknowledge
  <2>1. /\ faults' \in 0..FaultMax
        /\ rt' \in {"off", "boot", "claimed", "installed", "activating", "activated", "active", "done"}
    BY <1>5, StepTypes DEF Acknowledge
  <2>2. Env \in Rev BY <1>5, EnvIsRev DEF Acknowledge, Replayed, Valid
  <2>3. <<"secret", Env>> \in JobId BY <2>2, Numbers DEF Kind
  <2>4. QueueOK'
    <3>1. JobsOK(jobs) BY DEF Typed, TypesOK, QueueOK, JobsOK
    <3> QED BY <1>5, <2>3, <3>1, NewType, CreateType, EnqueueType, Numbers
        DEF Acknowledge, QueueOK, JobsOK
  <2> QED BY <1>5, <2>1, <2>4
      DEF Acknowledge, Typed, TypesOK, HouseOK, TokenOK, RowOK, CloudOK, HandOK, RestOK
<1>6. ASSUME NEW r \in Rev, Expire(r) PROVE TypesOK'
  <2>1. TokenOK' BY <1>6 DEF Expire, Typed, TypesOK, TokenOK, TokenType
  <2> QED BY <1>6, <2>1
      DEF Expire, Typed, TypesOK, HouseOK, QueueOK, RowOK, CloudOK, HandOK, RestOK
<1> QED BY <1>1, <1>2, <1>3, <1>4, <1>5, <1>6 DEF Running

LEMMA OneLiveKeeps == ASSUME IInv, OneLive, StepOf PROVE OneLive'
<1>1. ASSUME NEW a \in Actor, Worked(a) PROVE OneLive' BY <1>1, WorkLeaves DEF OneLive
<1>2. ASSUME NEW a \in Actor, NEW j, Taken(a, j) PROVE OneLive'
  BY <1>2 DEF Taken, OneLive, Serving
<1>3. CASE Undone BY <1>3 DEF Undone, OneLive, Serving, Gone
<1>4. ASSUME NEW S, NewRev(S) PROVE OneLive'
  <2>1. \A r \in Rev : Serving(r)' => Serving(r)
    BY <1>4, NextIsNew DEF NewRev, IInv, Shape, Serving
  <2> QED BY <2>1 DEF OneLive
<1>5. CASE Activate
  <2>1. \A r \in Rev : Serving(r)' => r = Env
    BY <1>5 DEF Activate, Supersedes, Serving
  <2> QED BY <2>1 DEF OneLive
<1> QED BY <1>1, <1>2, <1>3, <1>4, <1>5 DEF StepOf

LEMMA WorkTypes == ASSUME IInv, Typed, NEW a \in Actor, Work(a) PROVE TypesOK'
  BY HandTypes, PrepareTypes, IssueTokenTypes, LaunchTypes, SettleReadyTypes, UndoingTypes,
     CallTypes DEF Work

\* And so are the types.
LEMMA NextTypes == ASSUME IInv, Typed, [Next]_vars PROVE Typed'
<1>1. OneLive' BY NextIsStep, OneLiveKeeps DEF Typed
<1>2. TypesOK'
  <2>1. CASE Family
    <3>1. CASE Reset BY <3>1, UndoTypes DEF Reset
    <3>2. CASE Cancel BY <3>2, UndoTypes DEF Cancel
    <3> QED BY <2>1, <3>1, <3>2, PlanTypes, WithdrawTypes DEF Family
  <2>2. CASE Sweep BY <2>2, PlanTypes
  <2>3. CASE Working \/ Reconciling
    BY <2>3, WorkTypes, TakeTypes, JudgeTypes, CallTypes, Numbers DEF Working, Reconciling
  <2>4. CASE Running \/ Reboot \/ (\E r \in Rev : Expire(r)) BY <2>4, RunningTypes
  <2>5. CASE \E a \in Actor : Die(a) BY <2>5, DieTypes
  <2>6. CASE UNCHANGED vars
    BY <2>6 DEF Typed, TypesOK, HouseOK, TokenOK, QueueOK, RowOK, CloudOK, HandOK, RestOK
  <2> QED BY <2>1, <2>2, <2>3, <2>4, <2>5, <2>6 DEF Next
<1> QED BY <1>1, <1>2 DEF Typed

(* Every variable stays within its type, whatever the people, the worker,    *)
(* the operator, the machine and the provider do.                            *)
THEOREM TypeCorrect == Spec => []TypeOK
<1>1. Init => IInv /\ Typed BY InitIInv, InitTyped
<1>2. IInv /\ Typed /\ [Next]_vars => IInv' /\ Typed' BY NextKeeps, NextTypes
<1>3. IInv /\ Typed => TypeOK BY TypedIsTypeOK
<1> QED BY <1>1, <1>2, <1>3, PTL DEF Spec

-----------------------------------------------------------------------------
(* A calm household *)

\* Nobody starts it over, and the provider shows a machine it has created.
Calm == ~plan.slow /\ "reset" \notin plan.commands

\* What ends the ordinary course of events for good: onboarding was cancelled, a
\* revision that was given up went live all the same, consent was withdrawn from
\* a household that was served.
Belated == \E r \in Rev : Over(r) /\ Touched(r) /\ activated[r] > 0
Parted == workflow = "complete" /\ consent = None
Quiet == home # "draft" /\ ~Belated /\ ~Parted

Drafted == home = "draft" => workflow = "cancelled" /\ \A r \in Rev : rev[r] \in Gone

\* The runtime has written the manifest of its machine's revision before it is
\* where it says so; and it has a volume to write on.
OnDisk ==
  /\ rt \in {"installed", "activating", "activated", "active", "done"} =>
       volume.manifest = machine.rev
  /\ rt # "off" \/ machine.id # None => volume.id # None

\* Every stop there is, and every stop that is being delivered, is of a cycle of
\* consent that is over.
Stopping(c) ==
  \/ Status(<<"stop", c>>) # "none"
  \/ \E a \in Actor : pc[a] # "idle" /\ at[a] = <<"stop", c>>
Stops ==
  /\ consent \in {None, cycles}
  /\ \A c \in Rev : Stopping(c) => c <= cycles /\ c # consent

\* In the ordinary course of events: who has what in hand,
Last == NextRev - 1
Hands ==
  /\ \A r \in Rev : /\ On(Worker, r) => St(jobs, r) \in {"running", "succeeded"}
                    /\ On(Operator, r) => St(jobs, r) = "unknown"
                    /\ jobs[Run(r)].why # "quarantine"
                    /\ Status(<<"raze", r>>) = "none" /\ Status(<<"late", r>>) = "none"
  /\ \A a \in Actor : /\ pc[a] \notin {"forget", "raze"}
                      /\ at[a][1] \notin {"raze", "late"}
                      /\ pc[a] = "settle" => at[a] \notin RunJob

\* what is under way is the newest revision, and the household waits for it,
Flying(r) ==
  /\ r = Last /\ current = r /\ jobs[Run(r)].op # "none"
  /\ \/ home = "active" /\ workflow = "complete" /\ Serving(r)
     \/ /\ home = "provisioning" /\ activated[r] = 0
        /\ workflow \in Expected(r, {"runtime_provisioning", "activating"})
        /\ Touched(r) => workflow # "runtime_provisioning"
Flight == app /\ \A r \in Rev : InFlight(Run(r)) => Flying(r)

\* what each step of a rollout may rely on,
Early == {"prepare", "issue", "install", "recheck", "launch"}
Later == {"install", "recheck", "launch", "ready"}
Stands(a, r) ==
  /\ pc[a] \in Early => machine.rev # r /\ activated[r] = 0
  /\ pc[a] \in Later => Touched(r)
  /\ pc[a] = "judge" => /\ got[a] # "absent"
                        /\ got[a] = "pending" => machine.rev # r
                        /\ got[a] = "ready" => Touched(r)
  /\ a = Worker /\ pc[a] = "gate" /\ got[a] \notin {"awaiting", "reclaimed"} => ~Touched(r)
Places == \A a \in Actor, r \in Rev : On(a, r) => Stands(a, r)

\* what the provider was touched for,
Touching(r) ==
  /\ Touched(r) => bound /\ rev[r] # "none"
  /\ machine.rev = r \/ activated[r] > 0 => Touched(r)
  /\ St(jobs, r) = "pending" /\ jobs[Run(r)].why # "awaiting" => ~Touched(r)
Touches == \A r \in Rev : Touching(r)

\* what the token of a revision tells,
Spending(r) ==
  /\ activated[r] > 0 => token[r].state = "used"
  /\ St(jobs, r) = "succeeded" => activated[r] > 0
  /\ St(jobs, r) \in {"pending", "running"} => activated[r] = 0
Spends == \A r \in Rev : Spending(r)

\* and what serves is the newest that went live, on its machine, unless a newer
\* one has touched the provider.
Serves ==
  \A s \in Rev : Serving(s) =>
    /\ \A r \in Rev : activated[r] > 0 => r <= s
    /\ machine.rev = s \/ \E r \in Rev : r > s /\ Touched(r)

Course == Hands /\ Flight /\ Places /\ Touches /\ Spends /\ Serves

-----------------------------------------------------------------------------
(* Jobs, one by one *)

\* A job that is settled, and the others, which are not.
LEMMA SettlesOne ==
  ASSUME NEW js, JobsOK(js), NEW j \in JobId, NEW s \in JobStatus, NEW w \in Why
  PROVE  /\ \A k \in JobId : k # j => Settle(js, j, s, w)[k] = js[k]
         /\ Settle(js, j, s, w)[j].status = s /\ Settle(js, j, s, w)[j].why = w
         /\ Settle(js, j, s, w)[j].op = js[j].op
<1>1. js = [k \in JobId |-> js[k]] /\ js[j] \in JobRow BY DEF JobsOK
<1>2. PICK its : its = [[js[j] EXCEPT !.status = s] EXCEPT !.why = w] OBVIOUS
<1>3. its.status = s /\ its.why = w /\ its.op = js[j].op BY <1>1, <1>2 DEF JobRow
<1>4. PICK new : new = Settle(js, j, s, w) OBVIOUS
<1>5. new = [js EXCEPT ![j] = its] BY <1>1, <1>2, <1>4 DEF Settle
<1>6. new[j] = its /\ \A k \in JobId : k # j => new[k] = js[k] BY <1>5 DEF JobsOK
<1> QED BY <1>3, <1>4, <1>6

LEMMA CreatesOne ==
  ASSUME NEW js, JobsOK(js), NEW j \in JobId, NEW x
  PROVE  \A k \in JobId : Create(js, j, x)[k] = IF k = j /\ js[j].status = "none" THEN x ELSE js[k]
  BY DEF Create, JobsOK

LEMMA Kinds ==
  /\ \A r \in Rev, s \in Rev, k \in Kind : k # "run" => <<k, r>> # Run(s) /\ <<k, r>> \notin RunJob
  /\ \A r \in Rev, s \in Rev, k \in Kind, l \in Kind : <<k, r>> = <<l, s>> => k = l /\ r = s
  /\ \A k \in {"raze", "late", "secret", "latesecret", "stop"} : k \in Kind
  /\ \A r \in Rev : Run(r) \in JobId /\ Run(r) \in RunJob /\ Run(r)[1] = "run"
  /\ \A j \in JobId : j \notin RunJob => j[1] # "run"
  /\ \A j \in JobId : j = <<j[1], j[2]>> /\ j[1] \in Kind /\ j[2] \in Rev
  /\ JobsOK(jobs) <=> jobs \in [JobId -> JobRow]
  BY RunIsJob DEF Kind, Run, RunJob, JobId, JobsOK

-----------------------------------------------------------------------------
(* A step aside *)

\* It changes nothing the course of events depends on; whoever takes it lets go of
\* what it has in hand, or settles what is no rollout.
Aside ==
  /\ UNCHANGED <<home, workflow, current, bound, activated, app, plan>>
  /\ machine'.rev = machine.rev
  /\ \A r \in Rev : /\ Serving(r)' <=> Serving(r)
                    /\ rev'[r] = "none" <=> rev[r] = "none"
                    /\ jobs'[Run(r)] = jobs[Run(r)]
                    /\ Touched(r)' <=> Touched(r)
                    /\ token[r].state = "used" => token'[r].state = "used"
                    /\ Status(<<"raze", r>>)' = Status(<<"raze", r>>)
                    /\ Status(<<"late", r>>)' = Status(<<"late", r>>)
  /\ \A a \in Actor : \/ pc'[a] = "idle" /\ at'[a] = Run(1)
                      \/ pc'[a] = pc[a] /\ at'[a] = at[a] /\ got'[a] = got[a]
                      \/ pc'[a] = "settle" /\ at'[a] = at[a] /\ at[a] \notin RunJob

\* A step aside keeps the course of events.
LEMMA AsideKeeps == ASSUME Course, Aside PROVE Course'
<1>1. Planned' = Planned BY DEF Aside, Planned
<1>2. Last' = Last BY <1>1 DEF Last, NextRev
<1>3. \A r \in Rev : /\ St(jobs', r) = St(jobs, r) /\ (InFlight(Run(r))' <=> InFlight(Run(r)))
                     /\ Run(r) \in RunJob /\ Run(r)[1] = "run"
  BY RunIsJob DEF Aside, St, InFlight, Status
<1>4. ASSUME NEW a \in Actor, NEW r \in Rev, On(a, r)'
      PROVE  On(a, r) /\ pc'[a] = pc[a] /\ at'[a] = at[a] /\ got'[a] = got[a]
  BY <1>3, <1>4 DEF Aside, On
<1>5. Hands'
  <2>1. ASSUME NEW r \in Rev
        PROVE  /\ On(Worker, r)' => St(jobs', r) \in {"running", "succeeded"}
               /\ On(Operator, r)' => St(jobs', r) = "unknown"
               /\ jobs'[Run(r)].why # "quarantine"
               /\ Status(<<"raze", r>>)' = "none" /\ Status(<<"late", r>>)' = "none"
    BY <1>3, <1>4, Numbers DEF Course, Hands, Aside
  <2>2. ASSUME NEW a \in Actor
        PROVE  /\ pc'[a] \notin {"forget", "raze"} /\ at'[a][1] \notin {"raze", "late"}
               /\ pc'[a] = "settle" => at'[a] \notin RunJob
    BY <1>3, Numbers DEF Course, Hands, Aside
  <2> QED BY <2>1, <2>2 DEF Hands, St
<1>6. Flight'
  <2> SUFFICES ASSUME NEW r \in Rev, InFlight(Run(r))' PROVE Flying(r)'
    BY DEF Course, Flight, Aside
  <2>1. Flying(r) BY <1>3 DEF Course, Flight
  <2> QED BY <1>2, <2>1 DEF Flying, Aside, Expected
<1>7. Places'
  <2> SUFFICES ASSUME NEW a \in Actor, NEW r \in Rev, On(a, r)' PROVE Stands(a, r)'
    BY DEF Places
  <2>1. Stands(a, r) BY <1>4 DEF Course, Places
  <2> QED BY <1>4, <2>1 DEF Stands, Aside
<1>8. ASSUME NEW r \in Rev PROVE Touching(r)' /\ Spending(r)'
  <2>1. Touching(r) /\ Spending(r) BY DEF Course, Touches, Spends
  <2> QED BY <1>3, <2>1 DEF Touching, Spending, Aside, St
<1>9. Serves' BY DEF Course, Serves, Aside
<1> QED BY <1>5, <1>6, <1>7, <1>8, <1>9 DEF Course, Touches, Spends

-----------------------------------------------------------------------------
(* A step of a rollout in hand *)

Handled(a, r) ==
  /\ UNCHANGED <<activated, plan>> /\ app' /\ (bound => bound')
  /\ \A q \in Rev : /\ Serving(q)' <=> Serving(q)
                    /\ rev'[q] = "none" <=> rev[q] = "none"
                    /\ Status(<<"raze", q>>)' = Status(<<"raze", q>>)
                    /\ Status(<<"late", q>>)' = Status(<<"late", q>>)
                    /\ q # r => /\ jobs'[Run(q)] = jobs[Run(q)]
                                /\ Touched(q)' <=> Touched(q)
                                /\ token[q].state = "used" => token'[q].state = "used"
  /\ Touched(r) => Touched(r)'
  /\ machine'.rev = machine.rev \/ (machine'.rev = r /\ Touched(r) /\ InFlight(Run(r)))
  /\ UNCHANGED <<home, workflow, current>> \/ InFlight(Run(r))
  /\ \A b \in Actor : b # a => pc'[b] = pc[b] /\ at'[b] = at[b] /\ got'[b] = got[b]
  /\ \/ pc'[a] = "idle" /\ at'[a] = Run(1)
     \/ /\ pc'[a] \notin {"idle", "forget", "raze", "settle"} /\ at'[a] = at[a]
        /\ Stands(a, r)' /\ St(jobs', r) = St(jobs, r)
  /\ jobs'[Run(r)].why # "quarantine"
  /\ InFlight(Run(r))' => Flying(r)'
  /\ Touching(r)' /\ Spending(r)'

\* And so does a step of the rollout that is in hand.
LEMMA HandledKeeps ==
  ASSUME IInv, Course, NEW a \in Actor, NEW r \in Rev, On(a, r), Handled(a, r)
  PROVE  Course'
<1>1. Planned' = Planned BY DEF Handled, Planned
<1>2. Last' = Last BY <1>1 DEF Last, NextRev
<1>3. ASSUME NEW q \in Rev
      PROVE  /\ q # r => /\ St(jobs', q) = St(jobs, q)
                         /\ (InFlight(Run(q))' <=> InFlight(Run(q)))
             /\ Run(q) \in RunJob /\ Run(q)[1] = "run"
             /\ at[a] = Run(q) <=> q = r
  <2>1. Run(q) \in RunJob /\ Run(q)[1] = "run" /\ (Run(r) = Run(q) <=> q = r) BY RunIsJob
  <2>2. q # r => jobs'[Run(q)] = jobs[Run(q)] BY DEF Handled
  <2> QED BY <2>1, <2>2 DEF St, InFlight, Status, On
<1>4. ASSUME NEW b \in Actor, NEW q \in Rev, On(b, q)', b # a
      PROVE  On(b, q) /\ q # r /\ pc'[b] = pc[b] /\ at'[b] = at[b] /\ got'[b] = got[b]
  <2>1. On(b, q) /\ pc'[b] = pc[b] /\ at'[b] = at[b] /\ got'[b] = got[b]
    BY <1>4 DEF Handled, On
  <2>2. /\ a = Worker /\ b = Operator => St(jobs, r) # "unknown" /\ St(jobs, q) = "unknown"
        /\ a = Operator /\ b = Worker => St(jobs, r) = "unknown" /\ St(jobs, q) # "unknown"
    BY <2>1 DEF Course, Hands
  <2>3. q # r BY <1>4, <2>2 DEF Actor
  <2> QED BY <2>1, <2>3
<1>5. ASSUME NEW q \in Rev, On(a, q)'
      PROVE  q = r /\ Stands(a, r)' /\ St(jobs', r) = St(jobs, r)
  BY <1>3, <1>5 DEF Handled, On
<1>6. Hands'
  <2>1. ASSUME NEW q \in Rev
        PROVE  /\ On(Worker, q)' => St(jobs', q) \in {"running", "succeeded"}
               /\ On(Operator, q)' => St(jobs', q) = "unknown"
    <3>1. ASSUME NEW b \in Actor, On(b, q)' PROVE St(jobs', q) = St(jobs, q) /\ On(b, q)
      <4>1. CASE b = a BY <1>5, <3>1, <4>1
      <4>2. CASE b # a BY <1>3, <1>4, <3>1, <4>2
      <4> QED BY <4>1, <4>2
    <3> QED BY <3>1, Numbers DEF Course, Hands
  <2>2. ASSUME NEW q \in Rev
        PROVE  /\ jobs'[Run(q)].why # "quarantine"
               /\ Status(<<"raze", q>>)' = "none" /\ Status(<<"late", q>>)' = "none"
    BY DEF Course, Hands, Handled
  <2>3. ASSUME NEW b \in Actor
        PROVE  /\ pc'[b] \notin {"forget", "raze"} /\ at'[b][1] \notin {"raze", "late"}
               /\ pc'[b] = "settle" => at'[b] \notin RunJob
    BY <1>3, Numbers DEF Course, Hands, Handled
  <2> QED BY <2>1, <2>2, <2>3 DEF Hands, St
<1>7. Flight'
  <2> SUFFICES ASSUME NEW q \in Rev, InFlight(Run(q))' PROVE Flying(q)'
    BY DEF Course, Flight, Handled
  <2>1. CASE q = r BY <2>1 DEF Handled
  <2>2. CASE q # r
    <3>1. Flying(q) BY <1>3, <2>2 DEF Course, Flight
    <3>2. ~InFlight(Run(r)) BY <2>2, <3>1 DEF Course, Flight, Flying
    <3>3. UNCHANGED <<home, workflow, current>> BY <3>2 DEF Handled
    <3>4. jobs'[Run(q)] = jobs[Run(q)] /\ (Touched(q)' <=> Touched(q)) BY <2>2 DEF Handled
    <3> QED BY <1>2, <3>1, <3>3, <3>4 DEF Flying, Handled, Expected
  <2> QED BY <2>1, <2>2
<1>8. Places'
  <2> SUFFICES ASSUME NEW b \in Actor, NEW q \in Rev, On(b, q)' PROVE Stands(b, q)'
    BY DEF Places
  <2>1. CASE b = a BY <1>5, <2>1
  <2>2. CASE b # a
    <3>1. On(b, q) /\ q # r /\ pc'[b] = pc[b] /\ got'[b] = got[b] BY <1>4, <2>2
    <3>2. Stands(b, q) BY <3>1 DEF Course, Places
    <3>3. /\ machine.rev # q => machine'.rev # q
          /\ Touched(q)' <=> Touched(q)
      BY <3>1 DEF Handled
    <3> QED BY <3>1, <3>2, <3>3 DEF Stands, Handled
  <2> QED BY <2>1, <2>2
<1>9. ASSUME NEW q \in Rev PROVE Touching(q)' /\ Spending(q)'
  <2>1. CASE q = r BY <2>1 DEF Handled
  <2>2. CASE q # r
    <3>1. /\ machine'.rev = q => machine.rev = q
          /\ Touched(q)' <=> Touched(q)
          /\ jobs'[Run(q)] = jobs[Run(q)]
      BY <2>2 DEF Handled
    <3>2. Touching(q) /\ Spending(q) BY DEF Course, Touches, Spends
    <3> QED BY <2>2, <3>1, <3>2 DEF Handled, Touching, Spending, St
  <2> QED BY <2>1, <2>2
<1>10. Serves'
  <2> SUFFICES ASSUME NEW s \in Rev, Serving(s)'
               PROVE  /\ \A q \in Rev : activated'[q] > 0 => q <= s
                      /\ machine'.rev = s \/ \E q \in Rev : q > s /\ Touched(q)'
    BY DEF Serves
  <2>1. Serving(s) BY DEF Handled
  <2>2. /\ \A q \in Rev : activated[q] > 0 => q <= s
        /\ machine.rev = s \/ \E q \in Rev : q > s /\ Touched(q)
    BY <2>1 DEF Course, Serves
  <2>3. \A q \in Rev : Touched(q) => Touched(q)' BY DEF Handled
  <2>4. CASE machine'.rev = machine.rev BY <2>2, <2>3, <2>4 DEF Handled
  <2>5. CASE machine'.rev = r /\ Touched(r) /\ InFlight(Run(r))
    <3>1. r = Last BY <2>5 DEF Course, Flight, Flying
    <3>2. s \in Planned BY <2>1 DEF Serving, Planned
    <3>3. s <= r BY <3>1, <3>2, NextIsNat DEF Last
    <3>4. s = r \/ r > s BY <3>3, Numbers
    <3> QED BY <2>2, <2>3, <2>5, <3>4 DEF Handled
  <2> QED BY <2>4, <2>5 DEF Handled
<1> QED BY <1>6, <1>7, <1>8, <1>9, <1>10 DEF Course, Touches, Spends

-----------------------------------------------------------------------------
(* What does not come back *)

\* A revision the provider was touched for stays one.
LEMMA TouchedLasts == ASSUME Typed, [Next]_vars, NEW r \in Rev, Touched(r) PROVE Touched(r)'
<1>1. row \in [Rev -> [status : RowStatus, ref : Ref]] /\ row[r].status # "none"
  BY DEF Typed, TypesOK, RowOK, Touched
<1> SUFFICES row'[r].status # "none" BY DEF Touched
<1>2. CASE UNCHANGED row BY <1>1, <1>2
<1>3. ASSUME NEW q, NEW its, its.status # "none", row' = [row EXCEPT ![q] = its]
      PROVE  row'[r].status # "none"
  BY <1>1, <1>3
<1>4. ASSUME NEW a \in Actor, Work(a), ~UNCHANGED row PROVE row'[r].status # "none"
  <2> DEFINE created == [status |-> "creating", ref |-> res[a]]
             ready == [status |-> "ready", ref |-> res[a]]
             deleting == [status |-> "deleting", ref |-> res[a]]
  <2>1. CASE IssueToken(a)
    <3>1. row' = [row EXCEPT ![For(a)] = created] BY <1>4, <2>1 DEF IssueToken
    <3>2. created.status # "none" OBVIOUS
    <3> HIDE DEF created
    <3> QED BY <1>3, <3>1, <3>2
  <2>2. CASE SettleReady(a)
    <3>1. row' = [row EXCEPT ![For(a)] = ready] BY <1>4, <2>2 DEF SettleReady
    <3>2. ready.status # "none" OBVIOUS
    <3> HIDE DEF ready
    <3> QED BY <1>3, <3>1, <3>2
  <2>3. CASE Forget(a)
    <3>1. row' = [row EXCEPT ![For(a)] = deleting] BY <1>4, <2>3 DEF Forget
    <3>2. deleting.status # "none" OBVIOUS
    <3> HIDE DEF deleting
    <3> QED BY <1>3, <3>1, <3>2
  <2>4. CASE Compensate(a) BY <1>1, <2>4 DEF Compensate
  <2>5. CASE SettleCall(a) BY <1>1, <2>5 DEF SettleCall
  <2> QED BY <1>4, <2>1, <2>2, <2>3, <2>4, <2>5
      DEF Work, Gate, Inspect, Prepare, Install, Recheck, Launch, RazeApp, CallCleanup, CallUnset
<1>5. CASE JudgeReconciled BY <1>1, <1>5 DEF JudgeReconciled, SettleAbsent
<1>6. ASSUME NEW reset, Undo(reset) PROVE row'[r].status # "none"
  BY <1>1, <1>6 DEF Undo, Registrable
<1>7. CASE Family
  BY <1>2, <1>6, <1>7 DEF Family, AddMember, Drift, Onboard, Reset, Cancel, Withdraw
<1>8. CASE Sweep BY <1>2, <1>8 DEF Sweep
<1>9. CASE Working \/ Reconciling
  <2>1. CASE Lease \/ (\E j \in JobId : Reclaim(j) \/ Reconcile(j))
    BY <1>2, <2>1 DEF Lease, Reclaim, Reconcile, Take
  <2>2. CASE JudgeReclaimed \/ CallStop BY <1>2, <2>2 DEF JudgeReclaimed, CallStop
  <2> QED BY <1>2, <1>4, <1>5, <1>9, <2>1, <2>2, Numbers DEF Working, Reconciling
<1>10. CASE Running \/ Reboot \/ (\E a \in Actor : Die(a)) \/ (\E q \in Rev : Expire(q)) \/ UNCHANGED vars
  BY <1>2, <1>10
  DEF Running, Claim, WriteManifest, WriteActivating, Activate, Replay, WriteActive, Acknowledge,
      ServeWithout, Refuse, Reboot, Die, Expire, RuntimeSame
<1> QED BY <1>7, <1>8, <1>9, <1>10 DEF Next

\* A rollout that was given up stays so.
LEMMA OverLasts == ASSUME IInv, StepOf, NEW r \in Rev, Over(r) PROVE Over(r)'
<1>0. St(jobs, r) \in {"failed", "cancelled"} BY DEF Over
<1>1. ASSUME NEW a \in Actor, Worked(a) PROVE Over(r)' BY <1>1, WorkLeaves
<1>2. ASSUME NEW a \in Actor, NEW j, Taken(a, j) PROVE Over(r)'
  <2>1. j # Run(r) BY <1>0, <1>2 DEF Taken, St
  <2>2. St(jobs', r) = St(jobs, r) BY <1>2, <2>1, TakenRow
  <2>3. \A b \in Actor : On(b, r)' => On(b, r) BY <1>2, <2>1 DEF Taken, On, IInv, Shape
  <2> QED BY <2>2, <2>3 DEF Over, St
<1>3. CASE Undone
  <2>1. St(jobs', r) = St(jobs, r) BY <1>0, <1>3 DEF Undone, InFlight, Status, St
  <2> QED BY <1>3, <2>1 DEF Over, St, Undone, On
<1>4. ASSUME NEW S, NewRev(S) PROVE Over(r)'
  <2>1. r # NextRev BY <1>0, <1>4, NextIsNew DEF IInv, Blank, NewRev
  <2>2. St(jobs', r) = St(jobs, r) BY <1>4, <2>1 DEF NewRev
  <2> QED BY <1>4, <2>2 DEF Over, St, NewRev, On
<1>5. CASE Activate
  <2>1. St(jobs', r) = St(jobs, r)
    <3>1. IsJobs(jobs) BY DEF IInv
    <3>2. CASE Status(Run(Env)) \in {"pending", "running"}
      <4>1. Env # r BY <1>0, <3>2 DEF Status, St
      <4>2. Env \in Rev BY <1>5, EnvIsRev DEF Activate, MayActivate, Valid
      <4>3. jobs' = Settle(jobs, Run(Env), "succeeded", "none") BY <1>5, <3>2 DEF Activate
      <4> QED BY <3>1, <4>1, <4>2, <4>3, Settles, RunIsJob
    <3>3. CASE Status(Run(Env)) \notin {"pending", "running"} BY <1>5, <3>3 DEF Activate
    <3> QED BY <3>2, <3>3
  <2> QED BY <1>5, <2>1 DEF Over, St, Activate, On
<1> QED BY <1>1, <1>2, <1>3, <1>4, <1>5 DEF StepOf

\* Nor is a revision less often live than it was.
LEMMA LiveLasts == ASSUME IInv, [Next]_vars, NEW r \in Rev, activated[r] > 0 PROVE activated'[r] > 0
<1>1. ASSUME NEW a \in Actor, Worked(a) PROVE activated'[r] > 0 BY <1>1 DEF Worked
<1>2. CASE Activate
  <2>1. activated \in [Rev -> Nat] BY DEF IInv, Shape
  <2>2. activated' = [activated EXCEPT ![Env] = activated[Env] + 1] BY <1>2 DEF Activate
  <2> QED BY <2>1, <2>2
<1> QED BY <1>1, <1>2, NextIsStep DEF StepOf, Taken, Undone, NewRev

\* How the household and its workflow move, when it is calm.
HouseMoves ==
  \/ UNCHANGED <<home, workflow>> /\ consent' \in {consent, None}
  \/ home' = "active" /\ (\E r \in Rev : Serving(r)) /\ UNCHANGED <<workflow, consent>>
  \/ /\ home \in {"active", "provisioning"} /\ home' = "provisioning"
     /\ UNCHANGED <<workflow, consent>>
  \/ home = "onboarding" /\ workflow = "in_progress" /\ home' = "provisioning"
  \/ /\ workflow \in {"runtime_provisioning", "activating"} /\ home' \in {home, "onboarding"}
     /\ workflow' \in {"in_progress", "activating"} /\ UNCHANGED consent
  \/ Cancel
  \/ /\ home' = "active" /\ workflow' = "complete" /\ (\E r \in Rev : Live(r))
     /\ consent # None /\ UNCHANGED consent

LEMMA MarkFailedMoves ==
  ASSUME NEW r, MarkFailed(r) \/ Deadline(r), UNCHANGED <<workflow, consent>> PROVE HouseMoves
<1>1. MarkFailed(r) \/ UNCHANGED home BY DEF Deadline
<1>2. UNCHANGED home \/ (home' = "active" /\ \E s \in Rev : rev[s] = "active")
  BY <1>1 DEF MarkFailed, Restore
<1> QED BY <1>2 DEF HouseMoves, Serving

LEMMA WorkMoves == ASSUME IInv, NEW a \in Actor, Work(a) PROVE HouseMoves
<1>1. CASE Gate(a)
  <2>1. UNCHANGED consent BY <1>1 DEF Gate
  <2>2. CASE Block(For(a)) BY <2>1, <2>2 DEF Block, HouseMoves
  <2>3. CASE Deadline(For(a)) /\ UNCHANGED workflow BY <2>1, <2>3, MarkFailedMoves
  <2>4. CASE UNCHANGED db BY <2>4 DEF HouseMoves
  <2> QED BY <1>1, <2>2, <2>3, <2>4 DEF Gate
<1>2. CASE Prepare(a) \/ Launch(a)
  <2>1. UNCHANGED <<workflow, consent>> BY <1>2 DEF Prepare, Launch
  <2>2. UNCHANGED home \/ MarkFailed(For(a))
    BY <1>2 DEF Prepare, Launch, CallFails, NothingMarked
  <2> QED BY <2>1, <2>2, MarkFailedMoves DEF HouseMoves
<1>3. CASE IssueToken(a)
  <2> DEFINE r == For(a)
  <2>1. UNCHANGED <<home, consent>> BY <1>3 DEF IssueToken
  <2>2. \/ UNCHANGED workflow
        \/ /\ CurrentIn(r, {"runtime_provisioning", "activating"})
           /\ jobs[Run(r)].op = "ensure" /\ workflow' = "activating"
    BY <1>3 DEF IssueToken
  <2>3. UNCHANGED workflow \/ (workflow \in {"runtime_provisioning", "activating"} /\ workflow' = "activating")
    BY <2>2 DEF CurrentIn, Expected
  <2> QED BY <2>1, <2>3 DEF HouseMoves
<1>4. CASE SettleReady(a)
  <2>1. UNCHANGED <<workflow, consent>> BY <1>4 DEF SettleReady
  <2>2. UNCHANGED home \/ Deadline(For(a)) BY <1>4 DEF SettleReady
  <2> QED BY <2>1, <2>2, MarkFailedMoves DEF HouseMoves
<1>5. CASE Inspect(a) \/ Install(a) \/ Recheck(a) \/ Forget(a) \/ RazeApp(a) \/ Compensate(a)
           \/ CallCleanup(a) \/ CallUnset(a) \/ SettleCall(a)
  <2>1. UNCHANGED <<home, workflow, consent>>
    BY <1>5 DEF Inspect, Install, Recheck, Forget, RazeApp, Compensate, CallCleanup, CallUnset,
                SettleCall
  <2> QED BY <2>1 DEF HouseMoves
<1> QED BY <1>1, <1>2, <1>3, <1>4, <1>5 DEF Work

\* So moves every calm household.
LEMMA NextMoves == ASSUME IInv, Calm, [Next]_vars PROVE HouseMoves
<1>1. CASE Family \/ Sweep
  <2>1. CASE \E m \in Member : AddMember(m)
    BY <2>1 DEF AddMember, MayRollOut, Schedule, HouseMoves
  <2>2. CASE Sweep BY <2>2 DEF Sweep, MayRollOut, Schedule, HouseMoves
  <2>3. CASE \E m \in Member : Drift(m) BY <2>3 DEF Drift, HouseMoves
  <2>4. CASE Onboard BY <2>4 DEF Onboard, Schedule, HouseMoves
  <2>5. CASE Reset BY <2>5 DEF Reset, Calm
  <2>6. CASE Cancel BY <2>6 DEF HouseMoves
  <2>7. CASE Withdraw BY <2>7 DEF Withdraw, HouseMoves
  <2> QED BY <1>1, <2>1, <2>2, <2>3, <2>4, <2>5, <2>6, <2>7 DEF Family
<1>2. CASE Lease \/ (\E j \in JobId : Reclaim(j) \/ Reconcile(j))
  BY <1>2 DEF Lease, Reclaim, Reconcile, Take, HouseMoves
<1>3. CASE JudgeReclaimed \/ JudgeReconciled
  <2>1. UNCHANGED <<workflow, consent>> BY <1>3 DEF JudgeReclaimed, JudgeReconciled
  <2>2. UNCHANGED home \/ MarkFailed(For(Worker)) \/ MarkFailed(For(Operator))
    BY <1>3 DEF JudgeReclaimed, JudgeReconciled
  <2> QED BY <2>1, <2>2, MarkFailedMoves DEF HouseMoves
<1>4. CASE Activate
  <2>1. Env \in Rev BY <1>4, EnvIsRev DEF Activate, MayActivate, Valid
  <2>2. Live(Env) BY <1>4 DEF Activate, MayActivate, Live, Living
  <2> QED BY <1>4, <2>1, <2>2 DEF Activate, MayActivate, HouseMoves
<1>5. CASE CallStop \/ (Running /\ ~Activate) \/ Reboot \/ (\E a \in Actor : Die(a))
           \/ (\E r \in Rev : Expire(r)) \/ UNCHANGED vars
  <2>1. UNCHANGED <<home, workflow, consent>>
    BY <1>5 DEF CallStop, Running, Claim, WriteManifest, WriteActivating, Replay, WriteActive,
                Acknowledge, ServeWithout, Refuse, Reboot, Die, Expire, RuntimeSame
  <2> QED BY <2>1 DEF HouseMoves
<1> QED BY <1>1, <1>2, <1>3, <1>4, <1>5, WorkMoves, Numbers DEF Next, Working, Reconciling

\* A household whose onboarding was cancelled has nothing that is live or may be.
LEMMA DraftLasts ==
  ASSUME IInv, Calm, Drafted, [Next]_vars
  PROVE  Drafted' /\ (home = "draft" => home' = "draft")
<1>0. HouseMoves BY NextMoves
<1>1. home = "draft" => \A r \in Rev : ~Serving(r) /\ ~Live(r)
  BY DEF Drafted, Gone, Serving, Live, Living
<1>2. home = "draft" => home' = "draft" /\ workflow' = "cancelled"
  BY <1>0, <1>1 DEF HouseMoves, Drafted, Cancel
<1>3. home # "draft" /\ home' = "draft" => Cancel
  BY <1>0 DEF HouseMoves
<1>4. ASSUME home' = "draft", NEW r \in Rev PROVE rev'[r] \in Gone
  <2>1. CASE Cancel
    <3>1. Undone BY <2>1, UndoUndoes DEF Cancel
    <3> QED BY <3>1 DEF Undone, Gone
  <2>2. CASE ~Cancel
    <3>1. rev[r] \in Gone BY <1>3, <1>4, <2>2 DEF Drafted
    <3>2. ASSUME NEW a \in Actor, Worked(a) PROVE rev'[r] \in Gone
      BY <3>1, <3>2 DEF Worked, HouseOf, Live, Living, Gone
    <3>3. ASSUME NEW S, NewRev(S) PROVE FALSE BY <1>4, <3>3 DEF NewRev
    <3>4. ~Activate BY <1>4 DEF Activate
    <3>5. CASE Undone BY <3>1, <3>5 DEF Undone, Gone
    <3>6. ASSUME NEW a \in Actor, NEW j, Taken(a, j) PROVE rev'[r] \in Gone
      BY <3>1, <3>6 DEF Taken
    <3> QED BY <3>2, <3>3, <3>4, <3>5, <3>6, NextIsStep DEF StepOf
  <2> QED BY <2>1, <2>2
<1>5. home' = "draft" => workflow' = "cancelled" BY <1>2, <1>3 DEF Cancel
<1> QED BY <1>2, <1>4, <1>5 DEF Drafted

\* And once the ordinary course has ended, it has ended.
LEMMA CourseEnds ==
  ASSUME IInv, Typed, Calm, Drafted, [Next]_vars, Quiet'
  PROVE  Quiet
<1>1. home # "draft" BY DraftLasts DEF Quiet
<1>2. ~Belated
  <2> SUFFICES ASSUME NEW r \in Rev, Over(r), Touched(r), activated[r] > 0 PROVE Belated'
    BY DEF Belated, Quiet
  <2>1. Over(r)' /\ Touched(r)' /\ activated'[r] > 0
    BY OverLasts, TouchedLasts, LiveLasts, NextIsStep
  <2> QED BY <2>1 DEF Belated
<1>3. ~Parted
  <2>1. HouseMoves BY NextMoves
  <2> SUFFICES ASSUME workflow = "complete", consent = None
               PROVE  workflow' = "complete" /\ consent' = None
    BY DEF Parted, Quiet
  <2> QED BY <2>1 DEF HouseMoves, Cancel
<1> QED BY <1>1, <1>2, <1>3 DEF Quiet

-----------------------------------------------------------------------------
(* The steps aside *)

LEMMA IdleMoves ==
  ASSUME IInv, Typed, NEW a \in Actor, Idle(a)
  PROVE  /\ pc'[a] = "idle" /\ at'[a] = Run(1)
         /\ \A b \in Actor : b # a => pc'[b] = pc[b] /\ at'[b] = at[b] /\ got'[b] = got[b]
  BY DEF IInv, Shape, Typed, TypesOK, HandOK, Idle

LEMMA GoMoves ==
  ASSUME IInv, Typed, NEW a \in Actor, NEW place, NEW answer, NEW ref, Go(a, place, answer, ref)
  PROVE  /\ pc'[a] = place /\ at'[a] = at[a] /\ got'[a] = answer
         /\ \A b \in Actor : b # a => pc'[b] = pc[b] /\ at'[b] = at[b] /\ got'[b] = got[b]
  BY DEF IInv, Shape, Typed, TypesOK, HandOK, Go

\* A job of another kind is made or settled.
LEMMA JobsAside ==
  ASSUME Typed, NEW j \in JobId, j[1] \notin {"run", "raze", "late"}, NEW x,
         NEW s \in JobStatus, NEW w \in Why,
         jobs' \in {jobs, Create(jobs, j, x), Settle(jobs, j, s, w)}
  PROVE  \A r \in Rev : /\ jobs'[Run(r)] = jobs[Run(r)]
                        /\ Status(<<"raze", r>>)' = Status(<<"raze", r>>)
                        /\ Status(<<"late", r>>)' = Status(<<"late", r>>)
<1>1. JobsOK(jobs) BY DEF Typed, TypesOK, QueueOK, JobsOK
<1>2. \A k \in JobId : k # j => jobs'[k] = jobs[k] BY <1>1, SettlesOne, CreatesOne
<1>3. ASSUME NEW r \in Rev
      PROVE  /\ Run(r) \in JobId /\ Run(r) # j
             /\ <<"raze", r>> \in JobId /\ <<"raze", r>> # j
             /\ <<"late", r>> \in JobId /\ <<"late", r>> # j
  BY Kinds, Numbers
<1> QED BY <1>2, <1>3 DEF Status

LEMMA RunningAside ==
  ASSUME IInv, Typed,
         \/ Running /\ ~Activate
         \/ Reboot \/ (\E r \in Rev : Expire(r)) \/ (\E m \in Member : Drift(m)) \/ UNCHANGED vars
  PROVE  Aside
<1>1. UNCHANGED <<home, workflow, current, bound, activated, app, plan, machine, row, pc, at, got>>
  BY DEF Running, Claim, WriteManifest, WriteActivating, Replay, WriteActive, Acknowledge,
         ServeWithout, Refuse, Reboot, Expire, Drift, RuntimeSame
<1>2. ASSUME UNCHANGED <<rev, token, jobs>> PROVE Aside
  BY <1>1, <1>2 DEF Aside, Serving, Touched, Status
<1>3. CASE Claim
  <2>1. Env \in Rev BY <1>3, EnvIsRev DEF Claim, Valid
  <2>2. UNCHANGED jobs BY <1>3 DEF Claim, RuntimeSame
  <2>3. \A r \in Rev : /\ Serving(r)' <=> Serving(r)
                       /\ rev'[r] = "none" <=> rev[r] = "none"
    BY <1>3, <2>1 DEF Claim, IInv, Shape, Serving
  <2>4. \A r \in Rev : token[r].state = "used" => token'[r].state = "used"
    <3>1. token[Env].state # "used" BY <1>3 DEF Claim, Valid, Unspent
    <3>2. token' = [token EXCEPT ![Env].state = "claimed"] BY <1>3 DEF Claim
    <3> QED BY <3>1, <3>2 DEF Typed, TypesOK, TokenOK
  <2> QED BY <1>1, <2>2, <2>3, <2>4 DEF Aside, Touched, Status
<1>4. CASE Acknowledge
  <2>1. Env \in Rev BY <1>4, EnvIsRev DEF Acknowledge, Replayed, Valid
  <2>2. <<"secret", Env>> \in JobId /\ <<"secret", Env>>[1] = "secret" BY <2>1, Kinds, Numbers
  <2>3. jobs' = Create(jobs, <<"secret", Env>>, New("none", Nothing)) BY <1>4 DEF Acknowledge
  <2>4. \A r \in Rev : /\ jobs'[Run(r)] = jobs[Run(r)]
                       /\ Status(<<"raze", r>>)' = Status(<<"raze", r>>)
                       /\ Status(<<"late", r>>)' = Status(<<"late", r>>)
    BY <2>2, <2>3, JobsAside DEF JobStatus, Why
  <2>5. UNCHANGED <<rev, token>> BY <1>4 DEF Acknowledge
  <2> QED BY <1>1, <2>4, <2>5 DEF Aside, Serving, Touched
<1>5. ASSUME NEW r \in Rev, Expire(r) PROVE Aside
  <2>1. UNCHANGED <<rev, jobs>> BY <1>5 DEF Expire
  <2>2. \A q \in Rev : token'[q].state = token[q].state
    <3>1. token' = [token EXCEPT ![r].expired = TRUE] BY <1>5 DEF Expire
    <3> QED BY <3>1 DEF Typed, TypesOK, TokenOK, TokenType
  <2> QED BY <1>1, <2>1, <2>2 DEF Aside, Serving, Touched, Status
<1>6. CASE WriteManifest \/ WriteActivating \/ WriteActive \/ Replay \/ ServeWithout \/ Refuse
           \/ Reboot \/ (\E m \in Member : Drift(m)) \/ UNCHANGED vars
  <2>1. UNCHANGED <<rev, token, jobs>>
    BY <1>6 DEF WriteManifest, WriteActivating, Replay, WriteActive, ServeWithout, Refuse, Reboot,
                Drift, RuntimeSame
  <2> QED BY <1>2, <2>1
<1> QED BY <1>3, <1>4, <1>5, <1>6 DEF Running

LEMMA CallsAside ==
  ASSUME IInv, Typed, Course, NEW a \in Actor,
         \/ CallUnset(a) \/ (a = Worker /\ CallStop) \/ SettleCall(a) \/ Die(a)
  PROVE  Aside
<1>1. UNCHANGED <<home, workflow, current, bound, activated, app, plan, rev, token>>
  BY DEF CallUnset, CallStop, SettleCall, Die
<1>2. at[a] \in JobId /\ at[a] = <<at[a][1], at[a][2]>> /\ (at[a][1] # "run" => at[a] \notin RunJob)
  BY Kinds DEF Typed, TypesOK, HandOK, RunJob
<1>3. machine'.rev = machine.rev
  <2>1. machine \in MachineType BY DEF Typed, TypesOK, CloudOK
  <2>2. machine' \in {machine, [machine EXCEPT !.token = None]}
    BY DEF CallUnset, Unset, CallStop, SettleCall, Die
  <2> QED BY <2>1, <2>2 DEF MachineType
<1>4. CASE CallUnset(a) \/ (a = Worker /\ CallStop)
  <2>1. UNCHANGED <<jobs, row>> BY <1>4 DEF CallUnset, CallStop
  <2>2. at[a] \notin RunJob BY <1>2, <1>4 DEF CallUnset, CallStop, Job
  <2>3. PICK answer, ref : Go(a, "settle", answer, ref) BY <1>4 DEF CallUnset, CallStop
  <2>4. /\ pc'[a] = "settle" /\ at'[a] = at[a]
        /\ \A b \in Actor : b # a => pc'[b] = pc[b] /\ at'[b] = at[b] /\ got'[b] = got[b]
    BY <2>3, GoMoves
  <2> QED BY <1>1, <1>3, <2>1, <2>2, <2>4 DEF Aside, Serving, Touched, Status
<1>5. CASE SettleCall(a)
  <2>1. at[a][1] \notin {"run", "raze", "late"}
    BY <1>2, <1>5, Kinds DEF SettleCall, Job, Course, Hands, RunJob, Run, JobId
  <2>2. UNCHANGED row BY <1>5, <2>1 DEF SettleCall, Job
  <2>3. \/ jobs' = jobs
        \/ jobs' = Settle(jobs, at[a], "succeeded", "none")
        \/ jobs' = Settle(jobs, at[a], "failed", "problem")
        \/ jobs' = Settle(jobs, at[a], "unknown", "problem")
    BY <1>5 DEF SettleCall, Job
  <2>4. \A r \in Rev : /\ jobs'[Run(r)] = jobs[Run(r)]
                       /\ Status(<<"raze", r>>)' = Status(<<"raze", r>>)
                       /\ Status(<<"late", r>>)' = Status(<<"late", r>>)
    BY <1>2, <2>1, <2>3, JobsAside DEF JobStatus, Why
  <2>5. /\ pc'[a] = "idle" /\ at'[a] = Run(1)
        /\ \A b \in Actor : b # a => pc'[b] = pc[b] /\ at'[b] = at[b] /\ got'[b] = got[b]
    BY <1>5, IdleMoves DEF SettleCall
  <2> QED BY <1>1, <1>3, <2>2, <2>4, <2>5 DEF Aside, Serving, Touched
<1>6. CASE Die(a)
  <2>1. UNCHANGED <<jobs, row>> BY <1>6 DEF Die
  <2>5. /\ pc'[a] = "idle" /\ at'[a] = Run(1)
        /\ \A b \in Actor : b # a => pc'[b] = pc[b] /\ at'[b] = at[b] /\ got'[b] = got[b]
    BY <1>6, IdleMoves DEF Die
  <2> QED BY <1>1, <1>3, <2>1, <2>5 DEF Aside, Serving, Touched, Status
<1> QED BY <1>4, <1>5, <1>6

\* Consent may go while nothing is served yet.
LEMMA WithdrawAside == ASSUME IInv, Typed, Withdraw, Quiet' PROVE Aside
<1>1. UNCHANGED <<home, workflow, current, bound, activated, app, plan, machine, row, token, pc, at, got>>
  BY DEF Withdraw
<1>2. consent \in Rev BY DEF Withdraw, IInv, Shape, Rev, None
<1>3. \A r \in Rev : ~Serving(r) BY <1>1 DEF Withdraw, Quiet, Parted, IInv, After
<1>4. \A r \in Rev : /\ Serving(r)' <=> Serving(r)
                     /\ rev'[r] = "none" <=> rev[r] = "none"
  BY <1>3 DEF Withdraw, Revoked, Serving
<1>5. <<"stop", consent>> \in JobId /\ <<"stop", consent>>[1] = "stop" BY <1>2, Kinds, Numbers
<1>6. jobs' = jobs \/ jobs' = Create(jobs, <<"stop", consent>>, New("none", Nothing))
  BY DEF Withdraw, EnqueueStop
<1>7. \A r \in Rev : /\ jobs'[Run(r)] = jobs[Run(r)]
                     /\ Status(<<"raze", r>>)' = Status(<<"raze", r>>)
                     /\ Status(<<"late", r>>)' = Status(<<"late", r>>)
  BY <1>5, <1>6, JobsAside DEF JobStatus, Why
<1> QED BY <1>1, <1>4, <1>7 DEF Aside, Touched

-----------------------------------------------------------------------------
(* The steps of a rollout *)

\* What is in hand is planned, and in flight unless it succeeded.
LEMMA InHandIs ==
  ASSUME IInv, Typed, Course, NEW a \in Actor, NEW r \in Rev, On(a, r)
  PROVE  /\ rev[r] # "none" /\ St(jobs, r) \in {"running", "unknown", "succeeded"}
         /\ St(jobs, r) # "succeeded" => InFlight(Run(r)) /\ Flying(r)
         /\ activated[r] = 0 => St(jobs, r) # "succeeded"
         /\ Touching(r) /\ Spending(r) /\ Stands(a, r)
<1>1. rev[r] # "none" BY DEF IInv, Blank
<1>2. St(jobs, r) \in {"running", "unknown", "succeeded"} BY DEF Course, Hands, Actor
<1>3. St(jobs, r) # "succeeded" => InFlight(Run(r)) BY <1>2 DEF St, InFlight, Status
<1>4. InFlight(Run(r)) => Flying(r) BY DEF Course, Flight
<1>5. Touching(r) /\ Spending(r) /\ Stands(a, r) BY DEF Course, Touches, Spends, Places
<1>6. activated[r] = 0 => St(jobs, r) # "succeeded" BY <1>5 DEF Spending
<1> QED BY <1>1, <1>2, <1>3, <1>4, <1>5, <1>6

LEMMA RunMoves ==
  ASSUME Typed, NEW r \in Rev, NEW s \in JobStatus, NEW w \in Why,
         jobs' \in {jobs, Settle(jobs, Run(r), s, w)}
  PROVE  /\ \A q \in Rev : /\ q # r => jobs'[Run(q)] = jobs[Run(q)]
                           /\ Status(<<"raze", q>>)' = Status(<<"raze", q>>)
                           /\ Status(<<"late", q>>)' = Status(<<"late", q>>)
         /\ jobs'[Run(r)].op = jobs[Run(r)].op
         /\ jobs' # jobs \/ jobs' = Settle(jobs, Run(r), s, w) =>
              St(jobs', r) = s /\ jobs'[Run(r)].why = w
<1>1. JobsOK(jobs) BY DEF Typed, TypesOK, QueueOK, JobsOK
<1>2. Run(r) \in JobId BY Kinds
<1>3. /\ \A k \in JobId : k # Run(r) => jobs'[k] = jobs[k]
      /\ jobs'[Run(r)].op = jobs[Run(r)].op
      /\ jobs' # jobs \/ jobs' = Settle(jobs, Run(r), s, w) =>
           St(jobs', r) = s /\ jobs'[Run(r)].why = w
  BY <1>1, <1>2, SettlesOne DEF St
<1>4. ASSUME NEW q \in Rev
      PROVE  /\ Run(q) \in JobId /\ (q # r => Run(q) # Run(r))
             /\ <<"raze", q>> \in JobId /\ <<"raze", q>> # Run(r)
             /\ <<"late", q>> \in JobId /\ <<"late", q>> # Run(r)
  BY Kinds, Numbers, RunIsJob
<1> QED BY <1>3, <1>4 DEF Status

\* It goes on to another place.
LEMMA OnHandles ==
  ASSUME IInv, Typed, Course, NEW a \in Actor, NEW r \in Rev, On(a, r), Worked(a),
         NEW place \in Place \ {"idle", "forget", "raze", "settle"}, NEW answer, NEW ref,
         Go(a, place, answer, ref), Stands(a, r)',
         UNCHANGED <<home, workflow, current, bound, token, jobs, row>>, app',
         machine'.rev = machine.rev \/ (machine'.rev = r /\ Touched(r) /\ InFlight(Run(r)))
  PROVE  Handled(a, r)
<1>1. UNCHANGED <<activated, plan>> BY DEF Worked
<1>2. \A q \in Rev : /\ Serving(q)' <=> Serving(q)
                     /\ rev'[q] = "none" <=> rev[q] = "none"
  BY WorkLeaves
<1>3. /\ pc'[a] = place /\ at'[a] = at[a]
      /\ \A b \in Actor : b # a => pc'[b] = pc[b] /\ at'[b] = at[b] /\ got'[b] = got[b]
  BY GoMoves
<1>4. rev[r] # "none" /\ Touching(r) /\ Spending(r) BY InHandIs
<1>5. jobs'[Run(r)].why # "quarantine" BY DEF Course, Hands
<1>6. InFlight(Run(r))' => Flying(r)'
  <2>1. InFlight(Run(r))' => Flying(r) BY DEF InFlight, Status, Course, Flight
  <2>2. Planned' = Planned BY <1>2 DEF Planned
  <2> QED BY <1>1, <1>2, <2>1, <2>2 DEF Flying, Last, NextRev, Expected, Touched
<1>7. Touching(r)' /\ Spending(r)' BY <1>1, <1>2, <1>4 DEF Touching, Spending, Touched, St
<1> QED BY <1>1, <1>2, <1>3, <1>5, <1>6, <1>7 DEF Handled, Touched, Status, St

\* Or it is let go, with the job left, settled, or put off.
LEMMA EndHandles ==
  ASSUME IInv, Typed, Course, NEW a \in Actor, NEW r \in Rev, On(a, r), Worked(a), Idle(a),
         NEW s \in {"failed", "succeeded", "unknown", "pending"},
         NEW w \in {"none", "problem", "awaiting"},
         jobs' \in {jobs, Settle(jobs, Run(r), s, w)},
         s = "succeeded" => Serving(r),
         s \in {"unknown", "pending"} /\ jobs' # jobs => InFlight(Run(r)),
         s = "pending" => w = "awaiting" /\ activated[r] = 0,
         \/ UNCHANGED <<home, workflow, current>>
         \/ s = "failed" /\ jobs' = Settle(jobs, Run(r), s, w) /\ InFlight(Run(r)),
         UNCHANGED bound, app',
         \A q \in Rev : /\ token[q].state = "used" => token'[q].state = "used"
                        /\ Touched(q)' <=> Touched(q),
         machine'.rev = machine.rev \/ (machine'.rev = r /\ Touched(r) /\ InFlight(Run(r)))
  PROVE  Handled(a, r)
<1>1. UNCHANGED <<activated, plan>> BY DEF Worked
<1>2. \A q \in Rev : /\ Serving(q)' <=> Serving(q)
                     /\ rev'[q] = "none" <=> rev[q] = "none"
  BY WorkLeaves
<1>3. /\ pc'[a] = "idle" /\ at'[a] = Run(1)
      /\ \A b \in Actor : b # a => pc'[b] = pc[b] /\ at'[b] = at[b] /\ got'[b] = got[b]
  BY IdleMoves
<1>4. rev[r] # "none" /\ Touching(r) /\ Spending(r) BY InHandIs
<1>5. /\ \A q \in Rev : /\ q # r => jobs'[Run(q)] = jobs[Run(q)]
                        /\ Status(<<"raze", q>>)' = Status(<<"raze", q>>)
                        /\ Status(<<"late", q>>)' = Status(<<"late", q>>)
      /\ jobs'[Run(r)].op = jobs[Run(r)].op
      /\ jobs' # jobs \/ jobs' = Settle(jobs, Run(r), s, w) =>
           St(jobs', r) = s /\ jobs'[Run(r)].why = w
  BY RunMoves DEF JobStatus, Why
<1>6. jobs'[Run(r)].why # "quarantine" BY <1>5 DEF Course, Hands
<1>7. InFlight(Run(r))' => Flying(r)'
  <2> SUFFICES ASSUME InFlight(Run(r))' PROVE Flying(r)' OBVIOUS
  <2>1. InFlight(Run(r)) /\ UNCHANGED <<home, workflow, current>>
    BY <1>5 DEF InFlight, Status, St
  <2>2. Flying(r) BY <2>1 DEF Course, Flight
  <2>3. Planned' = Planned BY <1>2 DEF Planned
  <2> QED BY <1>1, <1>2, <1>5, <2>1, <2>2, <2>3 DEF Flying, Last, NextRev, Expected
<1>8. Touching(r)'
  <2>1. Touched(r)' => bound' /\ rev'[r] # "none" BY <1>2, <1>4 DEF Touching
  <2>2. machine'.rev = r \/ activated'[r] > 0 => Touched(r)' BY <1>1, <1>4 DEF Touching
  <2>3. St(jobs', r) = "pending" /\ jobs'[Run(r)].why # "awaiting" => ~Touched(r)'
    BY <1>4, <1>5 DEF Touching
  <2> QED BY <2>1, <2>2, <2>3 DEF Touching, St
<1>9. Spending(r)'
  <2>1. Serving(r) => activated[r] > 0 BY DEF IInv, After
  <2> QED BY <1>1, <1>4, <1>5, <2>1 DEF Spending, St
<1> QED BY <1>1, <1>2, <1>3, <1>5, <1>6, <1>7, <1>8, <1>9 DEF Handled

\* Two ways to let go that the steps share.
LEMMA UnknownHandles ==
  ASSUME IInv, Typed, Course, NEW a \in Actor, NEW r \in Rev, On(a, r), Worked(a), Idle(a),
         MarkUnknown(Run(r)), UNCHANGED <<home, workflow, current, bound, token, row>>, app',
         machine'.rev = machine.rev \/ (machine'.rev = r /\ Touched(r) /\ InFlight(Run(r)))
  PROVE  Handled(a, r)
<1>1. jobs' # jobs => St(jobs, r) \in {"running", "unknown", "cancelled"}
                      /\ jobs' = Settle(jobs, Run(r), "unknown", "problem")
  BY DEF MarkUnknown, Status, St
<1>2. jobs' # jobs => InFlight(Run(r)) BY <1>1, InHandIs
<1> QED BY <1>1, <1>2, EndHandles DEF Touched

LEMMA FailedHandles ==
  ASSUME IInv, Typed, Course, NEW a \in Actor, NEW r \in Rev, On(a, r), Worked(a), Idle(a),
         MarkFailed(r) \/ Deadline(r), UNCHANGED <<workflow, bound, token>>, app',
         machine'.rev = machine.rev, \A q \in Rev : Touched(q)' <=> Touched(q)
  PROVE  Handled(a, r)
<1>1. CASE jobs' = jobs /\ UNCHANGED <<home, current>> BY <1>1, EndHandles
<1>2. CASE jobs' = Settle(jobs, Run(r), "failed", "problem") /\ InFlight(Run(r))
  BY <1>2, EndHandles
<1>3. CASE /\ jobs' = Settle(jobs, Run(r), "succeeded", "none") /\ Serving(r)
           /\ UNCHANGED <<home, current>>
  BY <1>3, EndHandles
<1> QED BY <1>1, <1>2, <1>3 DEF MarkFailed, Deadline, InFlight, Status

LEMMA PlaceIs ==
  \A p \in {"gate", "inspect", "judge", "prepare", "issue", "install", "recheck", "launch", "ready"} :
    p \in Place \ {"idle", "forget", "raze", "settle"}
  BY DEF Place

Handling(a) == \E r \in Rev : On(a, r) /\ Handled(a, r)

LEMMA GateHandles ==
  ASSUME IInv, Typed, Course, NEW a \in Actor, Gate(a) PROVE Handling(a)
<1>1. PICK r \in Rev : r = For(a) /\ at[a] = Run(r) /\ On(a, r)
  BY TheRun DEF Gate
<1> SUFFICES Handled(a, r) BY <1>1 DEF Handling
<1>2. Worked(a) BY GateWorks
<1>3. UNCHANGED <<bound, row, app, machine>> /\ app' BY DEF Gate, Course, Flight
<1>4. CASE Block(r) /\ Idle(a) /\ UNCHANGED current
  <2>1. \A q \in Rev : token[q].state = "used" => token'[q].state = "used"
    <3>1. token' = token \/ RevokeTokens BY <1>4 DEF Block
    <3> QED BY <3>1 DEF RevokeTokens, Unspent
  <2>2. CASE UNCHANGED <<jobs, home, workflow>>
    BY <1>1, <1>2, <1>3, <1>4, <2>1, <2>2, EndHandles DEF Touched
  <2>3. CASE jobs' = Settle(jobs, Run(r), "failed", "problem") /\ InFlight(Run(r))
    BY <1>1, <1>2, <1>3, <1>4, <2>1, <2>3, EndHandles DEF Touched
  <2> QED BY <1>1, <1>4, <2>2, <2>3 DEF Block, InFlight, Status
<1>5. CASE Deadline(r) /\ Idle(a) /\ UNCHANGED <<workflow, token>>
  BY <1>1, <1>2, <1>3, <1>5, FailedHandles DEF Touched
<1>6. CASE /\ got[a] # "awaiting" /\ UNCHANGED db
           /\ Go(a, IF a = Operator \/ got[a] = "reclaimed" THEN "inspect" ELSE "prepare",
                 "none", Nothing)
  <2> DEFINE place == IF a = Operator \/ got[a] = "reclaimed" THEN "inspect" ELSE "prepare"
  <2>1. place \in {"inspect", "prepare"} OBVIOUS
  <2>2. Go(a, place, "none", Nothing) BY <1>6
  <2>3. place = "prepare" => a = Worker /\ got[a] \notin {"awaiting", "reclaimed"}
    BY <1>6 DEF Actor
  <2> HIDE DEF place
  <2>4. pc'[a] = place BY <2>2, GoMoves
  <2>5. Touching(r) /\ Stands(a, r) BY <1>1, InHandIs
  <2>6. place = "prepare" => machine.rev # r /\ activated[r] = 0
    <3>1. pc[a] = "gate" BY DEF Gate
    <3>2. place = "prepare" => ~Touched(r) BY <2>3, <2>5, <3>1 DEF Stands
    <3>3. activated[r] \in Nat BY <1>1 DEF IInv, Shape
    <3> QED BY <2>5, <3>2, <3>3 DEF Touching
  <2>7. Stands(a, r)'
    BY <1>2, <1>3, <2>1, <2>4, <2>6 DEF Stands, Early, Later, Worked
  <2> QED BY <1>1, <1>2, <1>3, <1>6, <2>1, <2>2, <2>7, OnHandles, PlaceIs
<1> QED BY <1>1, <1>4, <1>5, <1>6 DEF Gate, Job

LEMMA InspectHandles ==
  ASSUME IInv, Typed, Calm, Course, NEW a \in Actor, Inspect(a)
  PROVE  Handling(a)
<1>1. PICK r \in Rev : r = For(a) /\ at[a] = Run(r) /\ On(a, r)
  BY TheRun DEF Inspect
<1> SUFFICES Handled(a, r) BY <1>1 DEF Handling
<1>2. Worked(a) BY InspectWorks
<1>3. UNCHANGED <<machine, row, activated>> /\ app /\ app' BY DEF Inspect, Course, Flight
<1>4. Touching(r) BY <1>1, InHandIs
<1>5. PICK answer, ref : /\ answer \in Shown(r) \/ answer \in {"lost", "failed"}
                         /\ Go(a, "judge", answer, ref)
  <2>1. CASE \E answer \in Shown(r) : Go(a, "judge", answer, IF answer = "ready" THEN MachineRef ELSE Nothing)
    <3>1. PICK answer \in Shown(r) : Go(a, "judge", answer, IF answer = "ready" THEN MachineRef ELSE Nothing)
      BY <2>1
    <3> QED BY <3>1
  <2>2. CASE \E answer \in {"lost", "failed"} : Go(a, "judge", answer, Nothing) BY <2>2
  <2> QED BY <1>1, <2>1, <2>2 DEF Inspect
<1>6. pc'[a] = "judge" /\ got'[a] = answer BY <1>5, GoMoves
<1>7. /\ answer # "absent"
      /\ answer = "pending" => machine.rev # r
      /\ answer = "ready" => Touched(r)
  <2>1. answer = "pending" => machine.id = None BY <1>3, <1>5 DEF Shown, Calm
  <2>2. machine.id = None => machine.rev = None BY DEF Typed, TypesOK, CloudOK
  <2>3. answer = "ready" => machine.rev = r BY <1>3, <1>5 DEF Shown
  <2>4. answer # "absent" BY <1>3, <1>5 DEF Shown
  <2> QED BY <1>1, <1>4, <2>1, <2>2, <2>3, <2>4, Numbers DEF Touching, None
<1>8. Stands(a, r)' BY <1>3, <1>6, <1>7 DEF Stands, Early, Later, Touched
<1> QED BY <1>1, <1>2, <1>3, <1>5, <1>8, OnHandles, PlaceIs DEF Inspect

LEMMA ReclaimedHandles ==
  ASSUME IInv, Typed, Course, JudgeReclaimed
  PROVE  Handling(Worker)
<1>0. Worker \in Actor BY Numbers
<1>1. PICK r \in Rev : r = For(Worker) /\ at[Worker] = Run(r) /\ On(Worker, r)
  BY <1>0, TheRun DEF JudgeReclaimed
<1> SUFFICES Handled(Worker, r) BY <1>1 DEF Handling
<1>2. Worked(Worker) BY ReclaimedWorks
<1>3. UNCHANGED <<workflow, bound, token, row, app, machine, activated>> /\ app'
  BY DEF JudgeReclaimed, Course, Flight
<1>4. Stands(Worker, r) BY <1>0, <1>1, InHandIs
<1>5. CASE Go(Worker, "ready", got[Worker], res[Worker]) /\ got[Worker] = "ready"
           /\ UNCHANGED <<jobs, home, current>>
  <2>1. pc'[Worker] = "ready" BY <1>0, <1>5, GoMoves
  <2>2. Stands(Worker, r)'
    BY <1>3, <1>4, <1>5, <2>1 DEF Stands, Early, Later, Touched, JudgeReclaimed
  <2> QED BY <1>0, <1>1, <1>2, <1>3, <1>5, <2>2, OnHandles, PlaceIs
<1>6. CASE MarkFailed(r) /\ Idle(Worker)
  BY <1>0, <1>1, <1>2, <1>3, <1>6, FailedHandles DEF Touched
<1>7. CASE MarkUnknown(Run(r)) /\ Idle(Worker) /\ UNCHANGED <<home, current>>
  BY <1>0, <1>1, <1>2, <1>3, <1>7, UnknownHandles
<1> QED BY <1>1, <1>4, <1>5, <1>6, <1>7 DEF JudgeReclaimed, Stands

LEMMA ReconciledHandles ==
  ASSUME IInv, Typed, Course, JudgeReconciled
  PROVE  Handling(Operator)
<1> DEFINE a == Operator
<1>0. a \in Actor /\ a # Worker BY Numbers
<1>1. PICK r \in Rev : r = For(a) /\ at[a] = Run(r) /\ On(a, r)
  BY <1>0, TheRun DEF JudgeReconciled
<1> SUFFICES Handled(a, r) BY <1>1 DEF Handling
<1>2. Worked(a) BY ReconciledWorks
<1>3. UNCHANGED <<workflow, bound, token, app, machine, activated>> /\ app'
  BY DEF JudgeReconciled, Course, Flight
<1>4. Stands(a, r) /\ pc[a] = "judge" /\ got[a] # "absent"
  BY <1>0, <1>1, InHandIs DEF JudgeReconciled, Stands
<1>5. St(jobs, r) = "unknown" /\ Flying(r)
  <2>1. St(jobs, r) = "unknown" BY <1>1 DEF Course, Hands
  <2> QED BY <1>0, <1>1, <2>1, InHandIs
<1>6. /\ home = "active" => Finished(r) /\ ~Current(r)
      /\ home # "active" => Current(r) /\ activated[r] = 0
  BY <1>5 DEF Flying, Finished, Current, CurrentIn, Status, St
<1>7. CASE Go(a, "ready", got[a], res[a]) /\ got[a] = "ready" /\ UNCHANGED <<jobs, row, home, current>>
  <2>1. pc'[a] = "ready" BY <1>0, <1>7, GoMoves
  <2>2. Stands(a, r)' BY <1>3, <1>4, <1>7, <2>1 DEF Stands, Early, Later, Touched
  <2> QED BY <1>0, <1>1, <1>2, <1>3, <1>7, <2>2, OnHandles, PlaceIs
<1>8. CASE MarkFailed(r) /\ Idle(a) /\ UNCHANGED row
  BY <1>0, <1>1, <1>2, <1>3, <1>8, FailedHandles DEF Touched
<1>9. CASE /\ Go(a, "prepare", "none", Nothing) /\ got[a] = "pending" /\ Current(r)
           /\ UNCHANGED <<jobs, row, home, current>>
  <2>1. pc'[a] = "prepare" BY <1>0, <1>9, GoMoves
  <2>2. Stands(a, r)'
    BY <1>0, <1>3, <1>4, <1>6, <1>9, <2>1 DEF Stands, Early, Later
  <2> QED BY <1>0, <1>1, <1>2, <1>3, <1>9, <2>2, OnHandles, PlaceIs
<1>10. CASE Idle(a) /\ UNCHANGED <<jobs, row, home, current>>
  BY <1>0, <1>1, <1>2, <1>3, <1>10, EndHandles DEF Touched
<1> QED BY <1>1, <1>4, <1>6, <1>7, <1>8, <1>9, <1>10 DEF JudgeReconciled

LEMMA CallFailsHandles ==
  ASSUME IInv, Typed, Course, NEW a \in Actor, NEW r \in Rev, On(a, r), r = For(a), Worked(a),
         CallFails(a), UNCHANGED <<workflow, bound, token, row, machine>>, app'
  PROVE  Handled(a, r)
<1>1. CASE MarkFailed(r) /\ Idle(a) BY <1>1, FailedHandles DEF Touched
<1>2. CASE MarkUnknown(Run(r)) /\ Idle(a) /\ UNCHANGED <<home, current>> BY <1>2, UnknownHandles
<1> QED BY <1>1, <1>2 DEF CallFails

LEMMA PrepareHandles ==
  ASSUME IInv, Typed, Course, NEW a \in Actor, Prepare(a)
  PROVE  Handling(a)
<1>1. PICK r \in Rev : r = For(a) /\ at[a] = Run(r) /\ On(a, r)
  BY TheRun DEF Prepare
<1> SUFFICES Handled(a, r) BY <1>1 DEF Handling
<1>2. Worked(a) BY PrepareWorks
<1>3. UNCHANGED <<workflow, bound, token, row, machine, activated>> /\ app'
  BY DEF Prepare, Course, Flight
<1>4. CASE CallFails(a) BY <1>1, <1>2, <1>3, <1>4, CallFailsHandles
<1>5. CASE ~CallFails(a)
  <2>1. UNCHANGED <<jobs, home, current>> BY <1>5 DEF Prepare, NothingMarked
  <2>2. PICK ref : Go(a, "issue", "none", ref) BY <1>5 DEF Prepare
  <2>3. pc'[a] = "issue" BY <2>2, GoMoves
  <2>4. machine.rev # r /\ activated[r] = 0 BY <1>1, InHandIs DEF Prepare, Stands, Early
  <2>5. Stands(a, r)' BY <1>3, <2>3, <2>4 DEF Stands, Early, Later
  <2> QED BY <1>1, <1>2, <1>3, <2>1, <2>2, <2>5, OnHandles, PlaceIs
<1> QED BY <1>4, <1>5

\* What nobody has made live is wanted as long as it is in hand.
LEMMA InHandIsWanted ==
  ASSUME IInv, Typed, Course, NEW a \in Actor, NEW r \in Rev, On(a, r), activated[r] = 0
  PROVE  /\ St(jobs, r) \in {"running", "unknown"} /\ InFlight(Run(r)) /\ Flying(r)
         /\ CurrentIn(r, {"runtime_provisioning", "activating"})
         /\ Touched(r) => CurrentIn(r, {"activating"})
<1>1. /\ St(jobs, r) \in {"running", "unknown"} /\ InFlight(Run(r)) /\ Flying(r)
  BY InHandIs
<1>2. ~Serving(r) BY DEF IInv, After
<1> QED BY <1>1, <1>2 DEF Flying, CurrentIn, Expected, Status, St

LEMMA IssueTokenHandles ==
  ASSUME IInv, Typed, Course, NEW a \in Actor, IssueToken(a) PROVE Handling(a)
<1>1. PICK r \in Rev : r = For(a) /\ at[a] = Run(r) /\ On(a, r)
  BY TheRun DEF IssueToken
<1> SUFFICES Handled(a, r) BY <1>1 DEF Handling
<1>2. Worked(a) BY IssueTokenWorks
<1>3. /\ Touching(r) /\ Spending(r) /\ machine.rev # r /\ activated[r] = 0 /\ rev[r] # "none"
  BY <1>1, InHandIs DEF IssueToken, Stands, Early
<1>4. /\ St(jobs, r) \in {"running", "unknown"} /\ InFlight(Run(r)) /\ Flying(r)
      /\ CurrentIn(r, {"runtime_provisioning", "activating"})
  BY <1>1, <1>3, InHandIsWanted
<1>5. ~Superseded(Run(r)) /\ Status(Run(r)) # "succeeded"
  BY <1>4 DEF Superseded, Quarantined, Status, St, Course, Hands
<1> DEFINE made == [status |-> "creating", ref |-> res[a]]
<1>6. /\ IssueBootstrap(r) /\ row' = [row EXCEPT ![r] = made] /\ bound' = TRUE
      /\ workflow' = IF jobs[Run(r)].op = "ensure" THEN "activating" ELSE workflow
      /\ Go(a, "install", "none", res[a])
      /\ UNCHANGED <<home, current, jobs, app, machine, activated, plan>>
  BY <1>1, <1>4, <1>5 DEF IssueToken
<1>7. made.status # "none" OBVIOUS
<1> HIDE DEF made
<1>8. Touched(r)' /\ \A q \in Rev : q # r => (Touched(q)' <=> Touched(q))
  BY <1>6, <1>7 DEF Touched, Typed, TypesOK, RowOK
<1>9. \A q \in Rev : q # r /\ token[q].state = "used" => token'[q].state = "used"
  BY <1>6 DEF IssueBootstrap, Typed, TypesOK, TokenOK
<1>10. \A q \in Rev : /\ Serving(q)' <=> Serving(q)
                      /\ rev'[q] = "none" <=> rev[q] = "none"
  BY <1>2, WorkLeaves
<1>11. /\ pc'[a] = "install" /\ at'[a] = at[a]
       /\ \A b \in Actor : b # a => pc'[b] = pc[b] /\ at'[b] = at[b] /\ got'[b] = got[b]
  BY <1>6, GoMoves
<1>12. Stands(a, r)' BY <1>3, <1>6, <1>8, <1>11 DEF Stands, Early, Later
<1>13. Flying(r)'
  <2>1. Planned' = Planned BY <1>10 DEF Planned
  <2>2. ~Serving(r) BY <1>3 DEF IInv, After
  <2>3. workflow \in Expected(r, {"runtime_provisioning", "activating"}) /\ home = "provisioning"
    BY <1>4, <2>2 DEF Flying
  <2>4. workflow' \in Expected(r, {"runtime_provisioning", "activating"})' /\ workflow' # "runtime_provisioning"
    <3>1. CASE jobs[Run(r)].op = "ensure" BY <1>6, <3>1 DEF Expected
    <3>2. CASE jobs[Run(r)].op = "reprovision" BY <1>6, <2>3, <3>2 DEF Expected
    <3>3. jobs[Run(r)].op # "none" BY <1>4 DEF Flying
    <3>4. jobs[Run(r)].op \in {"none", "ensure", "reprovision"}
      BY RunIsJob DEF Typed, TypesOK, QueueOK, JobRow
    <3> QED BY <3>1, <3>2, <3>3, <3>4
  <2> QED BY <1>3, <1>4, <1>6, <2>1, <2>3, <2>4 DEF Flying, Last, NextRev
<1>14. Touching(r)'
  BY <1>3, <1>4, <1>6, <1>8, <1>10 DEF Touching, St
<1>15. Spending(r)' BY <1>3, <1>4, <1>6 DEF Spending, St
<1> QED BY <1>1, <1>3, <1>4, <1>6, <1>8, <1>9, <1>10, <1>11, <1>12, <1>13, <1>14, <1>15
    DEF Handled, Status, St, Course, Flight, Hands

LEMMA InstallHandles ==
  ASSUME IInv, Typed, Course, NEW a \in Actor, Install(a) PROVE Handling(a)
<1>1. PICK r \in Rev : r = For(a) /\ at[a] = Run(r) /\ On(a, r)
  BY TheRun DEF Install
<1> SUFFICES Handled(a, r) BY <1>1 DEF Handling
<1>2. Worked(a) BY InstallWorks
<1>3. UNCHANGED <<home, workflow, current, bound, token, row, machine, activated>> /\ app'
  BY DEF Install, Course, Flight
<1>4. machine.rev # r /\ activated[r] = 0 /\ Touched(r)
  BY <1>1, InHandIs DEF Install, Stands, Early, Later
<1>5. CASE Go(a, "recheck", "none", res[a]) /\ UNCHANGED jobs
  <2>1. pc'[a] = "recheck" BY <1>5, GoMoves
  <2>2. Stands(a, r)' BY <1>3, <1>4, <2>1 DEF Stands, Early, Later, Touched
  <2> QED BY <1>1, <1>2, <1>3, <1>5, <2>2, OnHandles, PlaceIs
<1>6. CASE MarkUnknown(Run(r)) /\ Idle(a) BY <1>1, <1>2, <1>3, <1>6, UnknownHandles
<1> QED BY <1>1, <1>5, <1>6 DEF Install

LEMMA RecheckHandles ==
  ASSUME IInv, Typed, Course, NEW a \in Actor, Recheck(a) PROVE Handling(a)
<1>1. PICK r \in Rev : r = For(a) /\ at[a] = Run(r) /\ On(a, r)
  BY TheRun DEF Recheck
<1> SUFFICES Handled(a, r) BY <1>1 DEF Handling
<1>2. Worked(a) BY RecheckWorks
<1>3. UNCHANGED <<home, workflow, current, bound, token, jobs, row, machine, activated>> /\ app'
  BY DEF Recheck, Course, Flight
<1>4. machine.rev # r /\ activated[r] = 0 /\ Touched(r) /\ Touching(r)
  BY <1>1, InHandIs DEF Recheck, Stands, Early, Later
<1>5. CurrentIn(r, {"activating"}) /\ bound BY <1>1, <1>4, InHandIsWanted DEF Touching
<1>6. Go(a, "launch", "none", res[a]) BY <1>1, <1>5 DEF Recheck
<1>7. pc'[a] = "launch" BY <1>6, GoMoves
<1>8. Stands(a, r)' BY <1>3, <1>4, <1>7 DEF Stands, Early, Later, Touched
<1> QED BY <1>1, <1>2, <1>3, <1>6, <1>8, OnHandles, PlaceIs

LEMMA LaunchHandles ==
  ASSUME IInv, Typed, Course, NEW a \in Actor, Launch(a) PROVE Handling(a)
<1>1. PICK r \in Rev : r = For(a) /\ at[a] = Run(r) /\ On(a, r)
  BY TheRun DEF Launch
<1> SUFFICES Handled(a, r) BY <1>1 DEF Handling
<1>2. Worked(a) BY LaunchWorks
<1>3. UNCHANGED <<workflow, bound, token, row, activated>> /\ app'
  BY DEF Launch, Course, Flight
<1>4. machine.rev # r /\ activated[r] = 0 /\ Touched(r) /\ InFlight(Run(r))
  <2>1. machine.rev # r /\ activated[r] = 0 /\ Touched(r)
    BY <1>1, InHandIs DEF Launch, Stands, Early, Later
  <2> QED BY <1>1, <2>1, InHandIsWanted
<1>5. machine' = machine \/ machine'.rev = r
  <2>1. machine' = machine
        \/ \E id, secrets : machine' = [id |-> id, rev |-> r, token |-> secrets]
    BY <1>1 DEF Launch
  <2> QED BY <2>1
<1>6. CASE CallFails(a) /\ machine' = machine
  BY <1>1, <1>2, <1>3, <1>6, CallFailsHandles
<1>7. CASE MarkUnknown(Run(r)) /\ Idle(a) /\ UNCHANGED <<home, current>>
  BY <1>1, <1>2, <1>3, <1>4, <1>5, <1>7, UnknownHandles
<1>8. CASE NothingMarked /\ \E ref : Go(a, "ready", "none", ref)
  <2>1. PICK ref : Go(a, "ready", "none", ref) BY <1>8
  <2>2. pc'[a] = "ready" BY <2>1, GoMoves
  <2>3. Stands(a, r)' BY <1>3, <1>4, <2>2 DEF Stands, Early, Later, Touched
  <2> QED BY <1>1, <1>2, <1>3, <1>4, <1>5, <1>8, <2>1, <2>3, OnHandles, PlaceIs DEF NothingMarked
<1> QED BY <1>1, <1>6, <1>7, <1>8 DEF Launch

LEMMA SettleReadyHandles ==
  ASSUME IInv, Typed, Course, NEW a \in Actor, SettleReady(a) PROVE Handling(a)
<1>1. PICK r \in Rev : r = For(a) /\ at[a] = Run(r) /\ On(a, r)
  BY TheRun DEF SettleReady
<1> SUFFICES Handled(a, r) BY <1>1 DEF Handling
<1>2. Worked(a) BY SettleReadyWorks
<1>3. UNCHANGED <<workflow, bound, token, machine, activated>> /\ app'
  BY DEF SettleReady, Course, Flight
<1>4. Touched(r) /\ bound /\ Spending(r)
  BY <1>1, InHandIs DEF SettleReady, Stands, Later, Touching
<1> DEFINE made == [status |-> "ready", ref |-> res[a]]
<1>5. Status(Run(r)) # "succeeded" =>
        /\ Status(Run(r)) \in {"running", "unknown"}
        /\ workflow \in Expected(r, {"activating", "complete"})
        /\ home \in {"provisioning", "active"} /\ current = r
  <2> SUFFICES ASSUME St(jobs, r) # "succeeded"
               PROVE  /\ St(jobs, r) \in {"running", "unknown"}
                      /\ workflow \in Expected(r, {"activating", "complete"})
                      /\ home \in {"provisioning", "active"} /\ current = r
    BY DEF Status, St
  <2>1. St(jobs, r) \in {"running", "unknown"} /\ Flying(r) BY <1>1, InHandIs
  <2> QED BY <1>4, <2>1 DEF Flying, Expected
<1>6. /\ row' = [row EXCEPT ![r] = made] /\ Idle(a)
      /\ \/ UNCHANGED <<jobs, home, current>>
         \/ /\ Status(Run(r)) # "succeeded" /\ token[r].state \in Unspent
            /\ jobs' = RetryLater(jobs, Run(r), "awaiting") /\ UNCHANGED <<home, current>>
         \/ Deadline(r)
  BY <1>1, <1>4, <1>5 DEF SettleReady
<1>7. made.status # "none" OBVIOUS
<1> HIDE DEF made
<1>8. \A q \in Rev : Touched(q)' <=> Touched(q)
  BY <1>4, <1>6, <1>7 DEF Touched, Typed, TypesOK, RowOK
<1>9. CASE UNCHANGED <<jobs, home, current>> BY <1>1, <1>2, <1>3, <1>6, <1>8, <1>9, EndHandles
<1>10. CASE Deadline(r) BY <1>1, <1>2, <1>3, <1>6, <1>8, <1>10, FailedHandles
<1>11. CASE /\ Status(Run(r)) # "succeeded" /\ token[r].state \in Unspent
            /\ jobs' = RetryLater(jobs, Run(r), "awaiting") /\ UNCHANGED <<home, current>>
  <2>1. jobs' \in {jobs, Settle(jobs, Run(r), "pending", "awaiting")}
    BY <1>11 DEF RetryLater
  <2>2. InFlight(Run(r)) BY <1>1, <1>11, InHandIs DEF Status, St
  <2>3. activated[r] = 0
    <3>1. activated[r] \in Nat BY DEF IInv, Shape
    <3> QED BY <1>4, <1>11, <3>1 DEF Spending, Unspent
  <2> QED BY <1>1, <1>2, <1>3, <1>6, <1>8, <1>11, <2>1, <2>2, <2>3, EndHandles
<1> QED BY <1>6, <1>9, <1>10, <1>11

LEMMA WorkCourse ==
  ASSUME IInv, Typed, Calm, Course, NEW a \in Actor, Work(a) PROVE Course'
<1>1. Handling(a) => Course' BY HandledKeeps DEF Handling
<1>2. ~Forget(a) /\ ~RazeApp(a) /\ ~Compensate(a) /\ ~CallCleanup(a)
  BY DEF Course, Hands, Forget, RazeApp, Compensate, CallCleanup, Job
<1> QED BY <1>1, <1>2, GateHandles, InspectHandles, PrepareHandles, IssueTokenHandles,
        InstallHandles, RecheckHandles, LaunchHandles, SettleReadyHandles, CallsAside, AsideKeeps
    DEF Work

-----------------------------------------------------------------------------
(* A job is taken, a revision planned, a revision goes live *)

LEMMA TakenCourse ==
  ASSUME IInv, Typed, Course, NEW a \in Actor, NEW j \in JobId, Taken(a, j),
         UNCHANGED <<current, bound, token, row, app>>,
         a = Worker => got'[a] = IF jobs[j].why = "awaiting" THEN "awaiting"
                                 ELSE IF Status(j) = "running" THEN "reclaimed" ELSE "none",
         \A b \in Actor : b # a => got'[b] = got[b]
  PROVE  Course'
<1>1. /\ pc'[a] = IF j \in RunJob THEN "gate" ELSE "call"
      /\ at'[a] = j /\ pc[a] = "idle"
      /\ \A b \in Actor : b # a => pc'[b] = pc[b] /\ at'[b] = at[b]
  BY DEF Taken, IInv, Shape
<1>2. /\ a = Worker => Status(j) \in {"pending", "running"}
      /\ a # Worker => Status(j) = "unknown"
  BY DEF Taken, Status
<1>3. /\ \A k \in JobId : k # j => jobs'[k] = jobs[k]
      /\ jobs'[j].why = jobs[j].why /\ jobs'[j].op = jobs[j].op
      /\ Status(j)' = IF a = Worker THEN "running" ELSE Status(j)
  <2>1. jobs \in [JobId -> JobRow] BY DEF Typed, TypesOK, QueueOK
  <2> QED BY <2>1 DEF Taken, JobRow, Status
<1>4. j[1] \notin {"raze", "late"} /\ (j \in RunJob => j = Run(j[2]) /\ j[2] \in Rev)
  <2>1. j = <<j[1], j[2]>> /\ j[2] \in Rev BY Kinds
  <2>2. j[1] \in {"raze", "late"} => Status(j) = "none" BY <2>1 DEF Course, Hands
  <2>3. j \in RunJob => j = Run(j[2]) BY DEF RunJob, Run
  <2> QED BY <1>2, <2>1, <2>2, <2>3
<1>5. ASSUME NEW r \in Rev
      PROVE  /\ jobs'[Run(r)].why = jobs[Run(r)].why /\ jobs'[Run(r)].op = jobs[Run(r)].op
             /\ St(jobs', r) = IF a = Worker /\ j = Run(r) THEN "running" ELSE St(jobs, r)
             /\ InFlight(Run(r))' <=> InFlight(Run(r))
             /\ Status(<<"raze", r>>)' = "none" /\ Status(<<"late", r>>)' = "none"
             /\ Run(r) \in RunJob
  <2>1. /\ Run(r) \in JobId /\ Run(r) \in RunJob
        /\ <<"raze", r>> \in JobId /\ <<"late", r>> \in JobId
    BY Kinds, Numbers
  <2>2. <<"raze", r>> # j /\ <<"late", r>> # j BY <1>4
  <2>3. Status(<<"raze", r>>) = "none" /\ Status(<<"late", r>>) = "none" BY DEF Course, Hands
  <2> QED BY <1>2, <1>3, <2>1, <2>2, <2>3 DEF Status, St, InFlight
<1>6. ASSUME NEW b \in Actor, NEW r \in Rev, On(b, r)'
      PROVE  \/ b = a /\ j = Run(r) /\ pc'[a] = "gate"
             \/ b # a /\ On(b, r) /\ pc'[b] = pc[b] /\ at'[b] = at[b] /\ got'[b] = got[b]
  BY <1>1, <1>5, <1>6 DEF On
<1>7. UNCHANGED <<home, workflow, rev, machine, activated, plan>> BY DEF Taken
<1>8. Hands'
  <2>1. ASSUME NEW r \in Rev
        PROVE  /\ On(Worker, r)' => St(jobs', r) \in {"running", "succeeded"}
               /\ On(Operator, r)' => St(jobs', r) = "unknown"
    <3>1. /\ On(Worker, r) => St(jobs, r) \in {"running", "succeeded"}
          /\ On(Operator, r) => St(jobs, r) = "unknown"
      BY DEF Course, Hands
    <3>2. /\ a = Worker /\ j = Run(r) => St(jobs, r) \in {"pending", "running"}
          /\ a # Worker /\ j = Run(r) => St(jobs, r) = "unknown"
      BY <1>2 DEF Status, St
    <3> QED BY <1>5, <1>6, <3>1, <3>2, Numbers
  <2>2. ASSUME NEW b \in Actor
        PROVE  /\ pc'[b] \notin {"forget", "raze"} /\ at'[b][1] \notin {"raze", "late"}
               /\ pc'[b] = "settle" => at'[b] \notin RunJob
    BY <1>1, <1>4 DEF Course, Hands
  <2> QED BY <1>5, <2>1, <2>2 DEF Hands, St, Course
<1>9. Flight'
  <2> SUFFICES ASSUME NEW r \in Rev, InFlight(Run(r))' PROVE Flying(r)'
    BY DEF Course, Flight
  <2>1. Flying(r) BY <1>5 DEF Course, Flight
  <2>2. Planned' = Planned BY <1>7 DEF Planned
  <2> QED BY <1>5, <1>7, <2>1, <2>2 DEF Flying, Last, NextRev, Expected, Serving, Touched
<1>10. Places'
  <2> SUFFICES ASSUME NEW b \in Actor, NEW r \in Rev, On(b, r)' PROVE Stands(b, r)'
    BY DEF Places
  <2>1. CASE b # a /\ On(b, r) /\ pc'[b] = pc[b] /\ at'[b] = at[b] /\ got'[b] = got[b]
    <3>1. Stands(b, r) BY <2>1 DEF Course, Places
    <3> QED BY <1>7, <2>1, <3>1 DEF Stands, Touched
  <2>2. CASE b = a /\ j = Run(r) /\ pc'[a] = "gate"
    <3>1. a = Worker /\ got'[a] \notin {"awaiting", "reclaimed"} => ~Touched(r)
      <4>1. Touching(r) BY DEF Course, Touches
      <4> QED BY <1>2, <2>2, <4>1 DEF Touching, Status, St
    <3> QED BY <2>2, <3>1 DEF Stands, Early, Later, Touched
  <2> QED BY <1>6, <2>1, <2>2
<1>11. ASSUME NEW r \in Rev PROVE Touching(r)' /\ Spending(r)'
  <2>1. Touching(r) /\ Spending(r) BY DEF Course, Touches, Spends
  <2>2. a = Worker /\ j = Run(r) => St(jobs, r) \in {"pending", "running"}
    BY <1>2 DEF Status, St
  <2> QED BY <1>5, <1>7, <2>1, <2>2 DEF Touching, Spending, Touched, St
<1>12. Serves' BY <1>7 DEF Course, Serves, Serving, Touched
<1> QED BY <1>8, <1>9, <1>10, <1>11, <1>12 DEF Course, Touches, Spends

LEMMA TakesCourse ==
  ASSUME IInv, Typed, Course, Lease \/ (\E j \in JobId : Reclaim(j) \/ Reconcile(j))
  PROVE  Course'
<1>0. Worker \in Actor /\ Operator \in Actor /\ Worker # Operator BY Numbers
<1>1. ASSUME NEW j \in JobId, pc[Worker] = "idle", Status(j) \in {"pending", "running"}, Take(j)
      PROVE  Course'
  <2>1. Taken(Worker, j) BY <1>1 DEF Take, Taken, Status
  <2>2. /\ got'[Worker] = IF jobs[j].why = "awaiting" THEN "awaiting"
                          ELSE IF Status(j) = "running" THEN "reclaimed" ELSE "none"
        /\ \A b \in Actor : b # Worker => got'[b] = got[b]
    BY <1>0, <1>1 DEF Take, Typed, TypesOK, HandOK
  <2> QED BY <1>0, <1>1, <2>1, <2>2, TakenCourse DEF Take
<1>2. CASE Lease
  <2>1. PICK i \in DOMAIN order : Due(order[i]) /\ Take(order[i]) BY <1>2 DEF Lease
  <2>2. order[i] \in JobId BY <2>1 DEF Typed, TypesOK, QueueOK
  <2> QED BY <1>1, <1>2, <2>1, <2>2 DEF Lease, Due
<1>3. ASSUME NEW j \in JobId, Reclaim(j) PROVE Course' BY <1>1, <1>3 DEF Reclaim
<1>4. ASSUME NEW j \in JobId, Reconcile(j) PROVE Course'
  <2>1. Taken(Operator, j) BY <1>0, <1>4 DEF Reconcile, Status, Taken
  <2>2. UNCHANGED <<current, bound, token, row, app, got>> BY <1>4 DEF Reconcile
  <2> QED BY <1>0, <2>1, <2>2, TakenCourse
<1> QED BY <1>2, <1>3, <1>4

\* A revision may be planned only when nothing is under way.
LEMMA PlansCourse ==
  ASSUME IInv, Typed, Course, NEW S, NewRev(S), NEW op \in {"ensure", "reprovision"}, Schedule(op),
         \A r \in Rev : ~InFlight(Run(r)), UNCHANGED <<row, token, app, got>>,
         workflow' = IF op = "reprovision" THEN "complete" ELSE "runtime_provisioning"
  PROVE  Course'
<1>1. PICK n : n = NextRev OBVIOUS
<1>2. n \in Rev /\ rev[n] = "none" BY <1>1, NextIsNew DEF NewRev
<1>3. /\ rev' = [rev EXCEPT ![n] = "planned"]
      /\ home' = "provisioning" /\ current' = n /\ bound' = bound
      /\ jobs' = Create(jobs, Run(n), New(op, Nothing))
      /\ UNCHANGED <<machine, activated, plan, pc, at>>
  BY <1>1 DEF NewRev, Schedule
<1>4. Last' = n
  <2>1. IInv' BY NewRevKeeps
  <2>2. NextRev' - 1 \in Nat /\ Planned' = 1..(NextRev' - 1) BY <2>1 DEF IInv, InOrder
  <2>3. n \in Nat \ {0} /\ Planned = 1..(n - 1) BY <1>1, NextIsNat
  <2>4. Planned' = Planned \cup {n} BY <1>2, <1>3 DEF Planned, IInv, Shape
  <2>5. Planned' = 1..n BY <2>3, <2>4
  <2> DEFINE m == NextRev' - 1
  <2>6. m \in Nat /\ 1..m = 1..n BY <2>2, <2>5
  <2> HIDE DEF m
  <2>7. m = n
    <3>1. n \in 1..m BY <2>3, <2>6
    <3>2. m \in 1..n BY <2>6, <3>1
    <3> QED BY <2>3, <2>6, <3>1, <3>2
  <2> QED BY <2>7 DEF Last, m
<1>5. /\ St(jobs, n) = "none" /\ activated[n] = 0 /\ machine.rev # n /\ ~Touched(n)
      /\ \A a \in Actor : ~On(a, n)
  <2>1. Touching(n) BY <1>2 DEF Course, Touches
  <2> QED BY <1>2, <2>1 DEF IInv, Blank, Touching
<1>6. /\ \A r \in Rev : r # n => jobs'[Run(r)] = jobs[Run(r)]
      /\ jobs'[Run(n)] = New(op, Nothing)
      /\ \A r \in Rev : /\ Status(<<"raze", r>>)' = Status(<<"raze", r>>)
                        /\ Status(<<"late", r>>)' = Status(<<"late", r>>)
  <2>1. JobsOK(jobs) BY DEF Typed, TypesOK, QueueOK, JobsOK
  <2>2. \A k \in JobId : jobs'[k] = IF k = Run(n) /\ jobs[Run(n)].status = "none"
                                    THEN New(op, Nothing) ELSE jobs[k]
    BY <1>2, <1>3, <2>1, CreatesOne, Kinds
  <2>3. ASSUME NEW r \in Rev
        PROVE  /\ Run(r) \in JobId /\ (r # n => Run(r) # Run(n))
               /\ <<"raze", r>> \in JobId /\ <<"raze", r>> # Run(n)
               /\ <<"late", r>> \in JobId /\ <<"late", r>> # Run(n)
    BY <1>2, Kinds, Numbers, RunIsJob
  <2> QED BY <1>2, <1>5, <2>2, <2>3 DEF Status, St
<1>7. /\ jobs'[Run(n)].status = "pending" /\ jobs'[Run(n)].why = "none"
      /\ jobs'[Run(n)].op = op
  BY <1>6 DEF New
<1>8. \A r \in Rev : /\ rev'[r] = IF r = n THEN "planned" ELSE rev[r]
                     /\ Serving(r)' <=> Serving(r)
                     /\ Touched(r)' <=> Touched(r)
                     /\ \A a \in Actor : On(a, r)' <=> On(a, r)
  BY <1>2, <1>3 DEF IInv, Shape, Serving, Touched, On
<1>9. Hands'
  <2>1. ASSUME NEW r \in Rev
        PROVE  /\ On(Worker, r)' => St(jobs', r) \in {"running", "succeeded"}
               /\ On(Operator, r)' => St(jobs', r) = "unknown"
               /\ jobs'[Run(r)].why # "quarantine"
               /\ Status(<<"raze", r>>)' = "none" /\ Status(<<"late", r>>)' = "none"
    BY <1>5, <1>6, <1>7, <1>8, Numbers DEF Course, Hands, St
  <2> QED BY <1>3, <2>1 DEF Hands, St, Course
<1>10. Flight'
  <2> SUFFICES ASSUME NEW r \in Rev, InFlight(Run(r))' PROVE Flying(r)'
    BY DEF Course, Flight
  <2>1. r = n BY <1>6 DEF InFlight, Status
  <2>2. workflow' \in Expected(n, {"runtime_provisioning", "activating"})'
    BY <1>7 DEF Expected
  <2> QED BY <1>3, <1>4, <1>5, <1>7, <1>8, <2>1, <2>2 DEF Flying
<1>11. Places'
  <2> SUFFICES ASSUME NEW a \in Actor, NEW r \in Rev, On(a, r)' PROVE Stands(a, r)'
    BY DEF Places
  <2>1. Stands(a, r) BY <1>8 DEF Course, Places
  <2> QED BY <1>3, <1>8, <2>1 DEF Stands
<1>12. ASSUME NEW r \in Rev PROVE Touching(r)' /\ Spending(r)'
  <2>1. CASE r = n BY <1>3, <1>5, <1>7, <1>8, <2>1 DEF Touching, Spending, St
  <2>2. CASE r # n
    <3>1. Touching(r) /\ Spending(r) BY DEF Course, Touches, Spends
    <3> QED BY <1>3, <1>6, <1>8, <2>2, <3>1 DEF Touching, Spending, St
  <2> QED BY <2>1, <2>2
<1>13. Serves' BY <1>3, <1>8 DEF Course, Serves
<1> QED BY <1>9, <1>10, <1>11, <1>12, <1>13 DEF Course, Touches, Spends

LEMMA FamilyCourse ==
  ASSUME IInv, Typed, Course, (\E m \in Member : AddMember(m)) \/ Sweep \/ Onboard
  PROVE  Course'
<1>1. CASE (\E m \in Member : AddMember(m)) \/ Sweep
  <2>1. MayRollOut /\ Schedule("reprovision") /\ UNCHANGED <<row, token, app, got, workflow>>
    BY <1>1 DEF AddMember, Sweep, Issue
  <2>2. \A r \in Rev : ~InFlight(Run(r)) BY <2>1, RunIsJob DEF MayRollOut, Open
  <2>3. \E S : NewRev(S) BY <1>1, AddMemberPlans, SweepPlans
  <2> QED BY <2>1, <2>2, <2>3, PlansCourse DEF MayRollOut
<1>2. CASE Onboard
  <2>1. Schedule("ensure") /\ UNCHANGED <<row, token, app, got>> /\ workflow' = "runtime_provisioning"
    BY <1>2 DEF Onboard, Issue
  <2>2. \A r \in Rev : ~InFlight(Run(r)) BY <1>2 DEF Onboard, Course, Flight, Flying
  <2> QED BY <1>2, <2>1, <2>2, OnboardPlans, PlansCourse
<1> QED BY <1>1, <1>2

\* The revision that goes live is the one under way, and replaces an older one.
LEMMA ActivateCourse == ASSUME IInv, Typed, Course, Activate, Quiet' PROVE Course'
<1>1. PICK e \in Rev : e = Env
  BY EnvIsRev DEF Activate, MayActivate, Valid
<1>2. rev[e] = "claimed" /\ machine.rev = e /\ Live(e)
  BY <1>1 DEF Activate, MayActivate, Env, Live, Living
<1>3. activated[e] = 0 /\ St(jobs, e) \notin {"none", "succeeded"} /\ ~Serving(e)
  BY <1>2 DEF IInv, Before, Made, Serving
<1>4. /\ Supersedes /\ home' = "active" /\ current' = e /\ workflow' = "complete"
      /\ token' = [token EXCEPT ![e].state = "used"]
      /\ jobs' = IF Status(Run(e)) \in {"pending", "running"}
                 THEN Settle(jobs, Run(e), "succeeded", "none") ELSE jobs
      /\ activated' = [activated EXCEPT ![e] = activated[e] + 1]
      /\ UNCHANGED <<bound, row, app, machine, pc, at, got, plan>>
  BY <1>1 DEF Activate
<1>5. Touched(e)
  <2>1. Touching(e) BY DEF Course, Touches
  <2> QED BY <1>2, <2>1 DEF Touching
<1>6. /\ activated'[e] = 1 /\ \A r \in Rev : r # e => activated'[r] = activated[r]
      /\ token'[e].state = "used" /\ \A r \in Rev : r # e => token'[r] = token[r]
      /\ \A r \in Rev : rev'[r] = IF r = e THEN "active"
                                  ELSE IF rev[r] = "active" THEN "superseded" ELSE rev[r]
  <2>1. activated \in [Rev -> Nat] BY DEF IInv, Shape
  <2>2. token \in [Rev -> TokenType] BY DEF Typed, TypesOK, TokenOK
  <2>3. token'[e].state = "used" BY <1>4, <2>2 DEF TokenType
  <2> QED BY <1>1, <1>3, <1>4, <2>1, <2>2, <2>3 DEF Supersedes
<1>7. St(jobs, e) \notin {"failed", "cancelled"}
  <2> SUFFICES ASSUME St(jobs, e) \in {"failed", "cancelled"} PROVE FALSE OBVIOUS
  <2>1. \A a \in Actor : ~On(a, e) BY DEF Course, Hands, Actor
  <2>2. UNCHANGED jobs BY <1>4 DEF Status, St
  <2>3. Over(e)' BY <1>4, <2>1, <2>2 DEF Over, On, St
  <2>4. Touched(e)' /\ activated'[e] > 0 BY <1>4, <1>5, <1>6 DEF Touched
  <2> QED BY <2>3, <2>4 DEF Quiet, Belated
<1>8. St(jobs, e) \in {"pending", "running", "unknown"} /\ Flying(e)
  <2>1. jobs[Run(e)].status \in JobStatus BY RunIsJob DEF Typed, TypesOK, QueueOK, JobRow
  <2>2. St(jobs, e) \in {"pending", "running", "unknown"}
    BY <1>3, <1>7, <2>1 DEF JobStatus, St
  <2> QED BY <2>2 DEF Course, Flight, InFlight, Status, St
<1>9. e = Last /\ current = e BY <1>8 DEF Flying
<1>10. /\ \A q \in Rev : /\ q # e => jobs'[Run(q)] = jobs[Run(q)]
                         /\ Status(<<"raze", q>>)' = Status(<<"raze", q>>)
                         /\ Status(<<"late", q>>)' = Status(<<"late", q>>)
       /\ jobs'[Run(e)].op = jobs[Run(e)].op
       /\ St(jobs', e) = IF St(jobs, e) = "unknown" THEN "unknown" ELSE "succeeded"
       /\ jobs'[Run(e)].why # "quarantine"
  <2>1. jobs' \in {jobs, Settle(jobs, Run(e), "succeeded", "none")} BY <1>4
  <2>2. /\ \A q \in Rev : /\ q # e => jobs'[Run(q)] = jobs[Run(q)]
                          /\ Status(<<"raze", q>>)' = Status(<<"raze", q>>)
                          /\ Status(<<"late", q>>)' = Status(<<"late", q>>)
        /\ jobs'[Run(e)].op = jobs[Run(e)].op
        /\ jobs' # jobs \/ jobs' = Settle(jobs, Run(e), "succeeded", "none") =>
             St(jobs', e) = "succeeded" /\ jobs'[Run(e)].why = "none"
    BY <2>1, RunMoves DEF JobStatus, Why
  <2>3. jobs[Run(e)].why # "quarantine" BY DEF Course, Hands
  <2>4. CASE St(jobs, e) = "unknown"
    <3>1. jobs' = jobs BY <1>4, <2>4 DEF Status, St
    <3> QED BY <2>2, <2>3, <2>4, <3>1
  <2>5. CASE St(jobs, e) # "unknown"
    <3>1. jobs' = Settle(jobs, Run(e), "succeeded", "none") BY <1>4, <1>8, <2>5 DEF Status, St
    <3> QED BY <2>2, <2>5, <3>1
  <2> QED BY <2>4, <2>5
<1>11. Last' = Last
  <2>1. Planned' = Planned BY <1>2, <1>6 DEF Planned
  <2> QED BY <2>1 DEF Last, NextRev
<1>12. ASSUME NEW a \in Actor, NEW r \in Rev PROVE On(a, r)' <=> On(a, r) BY <1>4 DEF On
<1>13. Hands'
  <2>1. ASSUME NEW r \in Rev
        PROVE  /\ On(Worker, r)' => St(jobs', r) \in {"running", "succeeded"}
               /\ On(Operator, r)' => St(jobs', r) = "unknown"
               /\ jobs'[Run(r)].why # "quarantine"
               /\ Status(<<"raze", r>>)' = "none" /\ Status(<<"late", r>>)' = "none"
    <3>1. /\ On(Worker, r) => St(jobs, r) \in {"running", "succeeded"}
          /\ On(Operator, r) => St(jobs, r) = "unknown"
          /\ jobs[Run(r)].why # "quarantine"
          /\ Status(<<"raze", r>>) = "none" /\ Status(<<"late", r>>) = "none"
      BY DEF Course, Hands
    <3>2. CASE r = e BY <1>10, <1>12, <3>1, <3>2, Numbers
    <3>3. CASE r # e BY <1>10, <1>12, <3>1, <3>3, Numbers DEF St
    <3> QED BY <3>2, <3>3
  <2> QED BY <1>4, <2>1 DEF Hands, St, Course
<1>14. Flight'
  <2> SUFFICES ASSUME NEW r \in Rev, InFlight(Run(r))' PROVE Flying(r)'
    BY <1>4 DEF Course, Flight
  <2>1. InFlight(Run(r))
    <3>1. CASE r = e BY <1>8, <3>1 DEF InFlight, Status, St
    <3>2. CASE r # e BY <1>10, <3>2 DEF InFlight, Status
    <3> QED BY <3>1, <3>2
  <2>2. r = e BY <1>9, <2>1 DEF Course, Flight, Flying
  <2>3. jobs'[Run(e)].op # "none" BY <1>8, <1>10 DEF Flying
  <2> QED BY <1>4, <1>6, <1>9, <1>11, <2>2, <2>3 DEF Flying, Serving
<1>15. Places'
  <2> SUFFICES ASSUME NEW a \in Actor, NEW r \in Rev, On(a, r)' PROVE Stands(a, r)'
    BY DEF Places
  <2>1. Stands(a, r) BY <1>12 DEF Course, Places
  <2>2. pc[a] \in Early => r # e BY <1>2, <2>1 DEF Stands
  <2> QED BY <1>4, <1>6, <2>1, <2>2 DEF Stands, Touched
<1>16. ASSUME NEW r \in Rev PROVE Touching(r)' /\ Spending(r)'
  <2>0. Touching(r) /\ Spending(r) BY DEF Course, Touches, Spends
  <2>1. CASE r = e
    <3>1. bound' /\ rev'[e] # "none" BY <1>4, <1>5, <1>6, <2>0, <2>1 DEF Touching
    <3>2. Touched(e)' BY <1>4, <1>5 DEF Touched
    <3>3. St(jobs', e) \notin {"pending", "running"} BY <1>10
    <3> QED BY <1>6, <2>1, <3>1, <3>2, <3>3 DEF Touching, Spending, St
  <2>2. CASE r # e
    <3>1. rev[r] # "none" => rev'[r] # "none" BY <1>6, <2>2
    <3> QED BY <1>4, <1>6, <1>10, <2>0, <2>2, <3>1 DEF Touching, Spending, Touched, St
  <2> QED BY <2>1, <2>2
<1>17. Serves'
  <2> SUFFICES ASSUME NEW s \in Rev, Serving(s)'
               PROVE  /\ \A r \in Rev : activated'[r] > 0 => r <= s
                      /\ machine'.rev = s
    BY DEF Serves
  <2>1. s = e BY <1>6 DEF Serving
  <2>2. ASSUME NEW r \in Rev, activated'[r] > 0 PROVE r <= e
    <3>1. CASE r = e BY <3>1, Numbers
    <3>2. CASE r # e
      <4>1. activated[r] > 0 BY <1>6, <2>2, <3>2
      <4>2. rev[r] # "none" BY <4>1 DEF IInv, Blank
      <4>3. r \in Planned BY <4>2 DEF Planned
      <4> QED BY <1>9, <4>3, NextIsNat DEF Last
    <3> QED BY <3>1, <3>2
  <2> QED BY <1>2, <1>4, <2>1, <2>2
<1> QED BY <1>13, <1>14, <1>15, <1>16, <1>17 DEF Course, Touches, Spends

\* Every step keeps the course of events of a calm household, until it ends for good.
LEMMA NextCourse ==
  ASSUME IInv, Typed, Calm, Drafted, Quiet => Course, [Next]_vars, Quiet'
  PROVE  Course'
<1>1. Course BY CourseEnds
<1>2. CASE Family \/ Sweep
  <2>1. CASE \E m \in Member : Drift(m) BY <1>1, <2>1, RunningAside, AsideKeeps
  <2>2. ~Reset BY DEF Reset, Calm
  <2>3. ~Cancel BY DEF Cancel, Quiet
  <2>4. CASE Withdraw BY <1>1, <2>4, WithdrawAside, AsideKeeps
  <2> QED BY <1>1, <1>2, <2>1, <2>2, <2>3, <2>4, FamilyCourse DEF Family
<1>3. CASE Working \/ Reconciling
  <2>1. CASE Lease \/ (\E j \in JobId : Reclaim(j) \/ Reconcile(j))
    BY <1>1, <2>1, TakesCourse
  <2>2. CASE Work(Worker) \/ Work(Operator) BY <1>1, <2>2, WorkCourse, Numbers
  <2>3. CASE JudgeReclaimed \/ JudgeReconciled
    BY <1>1, <2>3, ReclaimedHandles, ReconciledHandles, HandledKeeps, Numbers DEF Handling
  <2>4. CASE CallStop BY <1>1, <2>4, CallsAside, AsideKeeps, Numbers
  <2> QED BY <1>3, <2>1, <2>2, <2>3, <2>4 DEF Working, Reconciling
<1>4. CASE Activate BY <1>1, <1>4, ActivateCourse
<1>5. CASE (Running /\ ~Activate) \/ Reboot \/ (\E r \in Rev : Expire(r)) \/ UNCHANGED vars
  BY <1>1, <1>5, RunningAside, AsideKeeps
<1>6. CASE \E a \in Actor : Die(a) BY <1>1, <1>6, CallsAside, AsideKeeps
<1> QED BY <1>2, <1>3, <1>4, <1>5, <1>6 DEF Next

LEMMA InitCourse == Init => Drafted /\ Course
<1> SUFFICES ASSUME Init PROVE Drafted /\ Course OBVIOUS
<1>1. /\ home = "provisioning" /\ workflow = "runtime_provisioning" /\ current = 1 /\ app
      /\ rev = [r \in Rev |-> IF r = 1 THEN "planned" ELSE "none"]
      /\ activated = [r \in Rev |-> 0] /\ machine = NoMachine
      /\ pc = [a \in Actor |-> "idle"] /\ at = [a \in Actor |-> Run(1)]
  BY Zenon DEF Init
<1>2. \A r \in Rev : row[r].status = "none"
  <2>1. row = [r \in Rev |-> [status |-> "none", ref |-> Nothing]] BY Zenon DEF Init
  <2> QED BY <2>1
<1>3. jobs = [j \in JobId |-> IF j = Run(1)
                              THEN [NoJob EXCEPT !.status = "pending", !.op = "ensure"] ELSE NoJob]
  BY Zenon DEF Init
<1> DEFINE first == [NoJob EXCEPT !.status = "pending", !.op = "ensure"]
<1>4. first.status = "pending" /\ first.op = "ensure" /\ first.why = "none"
      /\ NoJob.status = "none" /\ NoJob.why = "none"
  BY DEF NoJob
<1>5. \A j \in JobId : jobs[j] = IF j = Run(1) THEN first ELSE NoJob BY <1>3
<1> HIDE DEF first
<1>6. 1 \in Rev /\ Run(1) \in JobId /\ jobs[Run(1)] = first BY <1>5, Numbers
<1>7. ASSUME NEW r \in Rev
      PROVE  /\ St(jobs, r) = IF r = 1 THEN "pending" ELSE "none"
             /\ jobs[Run(r)].why = "none"
             /\ Status(<<"raze", r>>) = "none" /\ Status(<<"late", r>>) = "none"
             /\ ~Touched(r) /\ machine.rev # r /\ activated[r] = 0 /\ ~Serving(r)
  <2>1. Run(r) \in JobId /\ (Run(r) = Run(1) <=> r = 1)
        /\ <<"raze", r>> \in JobId /\ <<"raze", r>> # Run(1)
        /\ <<"late", r>> \in JobId /\ <<"late", r>> # Run(1)
    BY <1>6, Kinds, Numbers, RunIsJob
  <2>2. machine.rev = 0 BY <1>1 DEF NoMachine, None
  <2> QED BY <1>1, <1>2, <1>4, <1>5, <1>6, <2>1, <2>2, Numbers DEF St, Status, Touched, Serving
<1>8. Last = 1
  <2>1. Planned = {1} BY <1>1, <1>6 DEF Planned
  <2>2. Cardinality({1}) = 1 BY FS_Singleton
  <2> QED BY <2>1, <2>2 DEF Last, NextRev
<1>9. \A a \in Actor : pc[a] = "idle" /\ at[a] = Run(1) /\ at[a][1] = "run"
  BY <1>1, <1>6, Kinds
<1>10. Hands
  <2>1. \A a \in Actor, r \in Rev : ~On(a, r) BY <1>9 DEF On
  <2> QED BY <1>7, <1>9, <2>1, Numbers DEF Hands
<1>11. Flight
  <2> SUFFICES ASSUME NEW r \in Rev, InFlight(Run(r)) PROVE Flying(r) BY <1>1 DEF Flight
  <2>1. r = 1 BY <1>7 DEF InFlight, Status, St
  <2>2. jobs[Run(1)].op = "ensure" BY <1>4, <1>6
  <2> QED BY <1>1, <1>6, <1>7, <1>8, <2>1, <2>2 DEF Flying, Expected
<1>12. Places BY <1>9 DEF Places, On
<1>13. ASSUME NEW r \in Rev PROVE Touching(r) /\ Spending(r)
  <2>1. Touching(r)
    <3>1. ~Touched(r) /\ machine.rev # r /\ activated[r] = 0 BY <1>7
    <3> QED BY <3>1 DEF Touching
  <2>2. Spending(r)
    <3>1. activated[r] = 0 /\ St(jobs, r) # "succeeded" BY <1>7
    <3> QED BY <3>1 DEF Spending
  <2> QED BY <2>1, <2>2
<1>14. Serves BY <1>7 DEF Serves
<1> QED BY <1>1, <1>10, <1>11, <1>12, <1>13, <1>14 DEF Course, Touches, Spends, Drafted

-----------------------------------------------------------------------------
(* What holds of every household: its disk, its stops, where it points *)

\* What the runtime has written is of the revision of its machine.
LEMMA OnDiskLasts == ASSUME Typed, OnDisk, [Next]_vars PROVE OnDisk'
<1>0. /\ volume \in VolumeType /\ machine \in MachineType
  BY DEF Typed, TypesOK, CloudOK
<1>1. ASSUME UNCHANGED <<rt, volume, machine>> PROVE OnDisk' BY <1>1 DEF OnDisk
<1>2. ASSUME rt' = "boot", machine'.id = machine.id, volume'.id = volume.id,
             rt # "off" \/ machine.id # None
      PROVE  OnDisk'
  BY <1>2 DEF OnDisk
<1>3. ASSUME NEW ref, NEW whole, Razed(ref, whole) PROVE OnDisk'
  <2>1. CASE machine' = NoMachine /\ rt' = "off" BY <2>1 DEF OnDisk, NoMachine, None
  <2>2. CASE UNCHANGED <<rt, volume, machine>> BY <1>1, <2>2
  <2> QED BY <1>3, <2>1, <2>2 DEF Razed
<1>4. ASSUME NEW ref, Stopped(ref) PROVE OnDisk'
  BY <1>4 DEF Stopped, OnDisk, NoMachine, None
<1>5. ASSUME Unset, UNCHANGED volume PROVE OnDisk'
  <2>1. CASE UNCHANGED <<machine, rt>> BY <1>1, <1>5, <2>1
  <2>2. CASE machine.id # None /\ machine' = [machine EXCEPT !.token = None] /\ rt' = "boot"
    <3>1. machine'.id = machine.id BY <1>0, <2>2 DEF MachineType
    <3> QED BY <1>2, <1>5, <2>2, <3>1
  <2> QED BY <1>5, <2>1, <2>2 DEF Unset
<1>6. ASSUME NEW a \in Actor, Work(a) PROVE OnDisk'
  <2>1. CASE Prepare(a)
    <3>1. UNCHANGED <<machine, rt>> BY <2>1 DEF Prepare
    <3>2. UNCHANGED volume \/ volume.id = None BY <2>1 DEF Prepare
    <3>3. CASE volume.id = None
      <4>1. rt = "off" /\ machine.id = None BY <3>3 DEF OnDisk
      <4> QED BY <3>1, <4>1 DEF OnDisk
    <3> QED BY <1>1, <3>1, <3>2, <3>3
  <2>2. CASE Launch(a)
    <3>1. UNCHANGED volume BY <2>2 DEF Launch
    <3>2. UNCHANGED <<machine, rt>> \/ (volume.id # None /\ rt' = "boot")
      BY <2>2 DEF Launch
    <3> QED BY <1>1, <3>1, <3>2 DEF OnDisk
  <2>3. CASE Forget(a) BY <1>1, <1>5, <2>3 DEF Forget
  <2>4. CASE CallUnset(a) BY <1>1, <1>5, <2>4 DEF CallUnset
  <2>5. CASE RazeApp(a) BY <1>1, <1>3, <1>4, <2>5 DEF RazeApp, Untouched
  <2>6. CASE CallCleanup(a) BY <1>1, <1>3, <1>4, <2>6 DEF CallCleanup, Untouched
  <2>7. CASE Gate(a) \/ Inspect(a) \/ IssueToken(a) \/ Install(a) \/ Recheck(a) \/ SettleReady(a)
             \/ Compensate(a) \/ SettleCall(a)
    BY <1>1, <2>7 DEF Gate, Inspect, IssueToken, Install, Recheck, SettleReady, Compensate, SettleCall
  <2> QED BY <1>6, <2>1, <2>2, <2>3, <2>4, <2>5, <2>6, <2>7 DEF Work
<1>7. CASE Family \/ Sweep
  BY <1>1, <1>7 DEF Family, AddMember, Drift, Onboard, Reset, Cancel, Undo, Withdraw, Sweep
<1>8. CASE Lease \/ (\E j \in JobId : Reclaim(j) \/ Reconcile(j)) \/ JudgeReclaimed \/ JudgeReconciled
  BY <1>1, <1>8 DEF Lease, Reclaim, Reconcile, Take, JudgeReclaimed, JudgeReconciled
<1>9. CASE CallStop
  <2>1. UNCHANGED <<rt, machine>> BY <1>9 DEF CallStop
  <2>2. volume' \in {volume, [volume EXCEPT !.marked = TRUE]} BY <1>9 DEF CallStop
  <2>3. volume'.id = volume.id /\ volume'.manifest = volume.manifest
    BY <1>0, <2>2 DEF VolumeType
  <2> QED BY <2>1, <2>3 DEF OnDisk
<1>10. CASE Running
  <2>1. UNCHANGED machine
    BY <1>10 DEF Running, Claim, WriteManifest, WriteActivating, Activate, Replay, WriteActive,
                 Acknowledge, ServeWithout, Refuse, RuntimeSame
  <2>2. rt # "off"
    BY <1>10 DEF Running, Claim, WriteManifest, WriteActivating, Activate, Replay, WriteActive,
                 Acknowledge, ServeWithout, Refuse, Boot
  <2>3. volume.id # None BY <2>2 DEF OnDisk
  <2>4. CASE Claim
    BY <2>1, <2>3, <2>4 DEF Claim, Step, Restart, Boot, OnDisk
  <2>5. CASE WriteManifest
    <3>1. volume' = [volume EXCEPT !.manifest = Env] BY <2>5 DEF WriteManifest
    <3>2. volume'.id = volume.id /\ volume'.manifest = machine.rev BY <1>0, <3>1 DEF VolumeType, Env
    <3> QED BY <2>1, <2>3, <3>2 DEF OnDisk
  <2>6. CASE WriteActivating \/ WriteActive
    <3>1. volume'.id = volume.id /\ volume'.manifest = volume.manifest
      BY <1>0, <2>6 DEF WriteActivating, WriteActive, VolumeType
    <3>2. volume.manifest = machine.rev
      BY <2>6 DEF WriteActivating, WriteActive, Resuming, Installed, Env, OnDisk
    <3> QED BY <2>1, <2>3, <3>1, <3>2 DEF OnDisk
  <2>7. CASE Activate \/ Replay \/ Acknowledge \/ ServeWithout \/ Refuse
    <3>1. UNCHANGED volume
      BY <2>7 DEF Activate, Replay, Acknowledge, ServeWithout, Refuse
    <3>2. rt' = "boot" \/ volume.manifest = machine.rev
      BY <2>7 DEF Activate, Replay, Acknowledge, ServeWithout, Refuse, Restart, Boot, Settled,
                  Installed, Env, OnDisk
    <3> QED BY <2>1, <2>3, <3>1, <3>2 DEF OnDisk
  <2> QED BY <1>10, <2>4, <2>5, <2>6, <2>7 DEF Running
<1>11. CASE Reboot
  <2>1. UNCHANGED <<volume, machine>> /\ rt' = "boot" /\ rt # "off"
    BY <1>11 DEF Reboot, Restart, Boot
  <2> QED BY <1>2, <2>1
<1>12. CASE (\E a \in Actor : Die(a)) \/ (\E r \in Rev : Expire(r)) \/ UNCHANGED vars
  BY <1>1, <1>12 DEF Die, Expire
<1> QED BY <1>6, <1>7, <1>8, <1>9, <1>10, <1>11, <1>12, Numbers DEF Next, Working, Reconciling

\* No job but a stop there is, or one that is being delivered, is touched as one.
LEMMA NoStop ==
  ASSUME Typed, NEW j \in JobId, NEW x, NEW s \in JobStatus, NEW w \in Why,
         jobs' \in {jobs, Create(jobs, j, x), Settle(jobs, j, s, w)},
         j[1] # "stop" \/ (\E a \in Actor : pc[a] # "idle" /\ at[a] = j)
  PROVE  \A c \in Rev : Status(<<"stop", c>>)' # "none" => Stopping(c)
<1>1. JobsOK(jobs) BY DEF Typed, TypesOK, QueueOK, JobsOK
<1>2. \A k \in JobId : k # j => jobs'[k] = jobs[k] BY <1>1, SettlesOne, CreatesOne
<1> SUFFICES ASSUME NEW c \in Rev, Status(<<"stop", c>>)' # "none" PROVE Stopping(c) OBVIOUS
<1>3. <<"stop", c>> \in JobId BY Kinds, Numbers
<1>4. CASE j # <<"stop", c>> BY <1>2, <1>3, <1>4 DEF Status, Stopping
<1>5. CASE j = <<"stop", c>> BY <1>5 DEF Stopping
<1> QED BY <1>4, <1>5

LEMMA RunNoStop ==
  ASSUME Typed, NEW r \in Rev, NEW s \in JobStatus, NEW w \in Why,
         jobs' \in {jobs, Settle(jobs, Run(r), s, w)}
  PROVE  \A c \in Rev : Status(<<"stop", c>>)' # "none" => Stopping(c)
<1>1. Run(r) \in JobId /\ Run(r)[1] # "stop" BY Kinds
<1> QED BY <1>1, NoStop

LEMMA MarksNoStop ==
  ASSUME Typed, NEW r \in Rev, MarkFailed(r) \/ Deadline(r) \/ MarkUnknown(Run(r)) \/ Block(r)
                              \/ SettleAbsent(r) \/ jobs' = RetryLater(jobs, Run(r), "awaiting")
  PROVE  \A c \in Rev : Status(<<"stop", c>>)' # "none" => Stopping(c)
<1>1. \/ UNCHANGED jobs
      \/ jobs' = Settle(jobs, Run(r), "failed", "problem")
      \/ jobs' = Settle(jobs, Run(r), "succeeded", "none")
      \/ jobs' = Settle(jobs, Run(r), "unknown", "problem")
      \/ jobs' = Settle(jobs, Run(r), "cancelled", "problem")
      \/ jobs' = Settle(jobs, Run(r), "pending", "awaiting")
  BY DEF MarkFailed, Deadline, MarkUnknown, Block, SettleAbsent, RetryLater
<1>2. ASSUME UNCHANGED jobs
      PROVE  \A c \in Rev : Status(<<"stop", c>>)' # "none" => Stopping(c)
  BY <1>2 DEF Status, Stopping
<1> QED BY <1>1, <1>2, RunNoStop DEF JobStatus, Why

\* An actor that works, or dies, makes no stop and takes none in hand.
LEMMA WorkNoStop ==
  ASSUME IInv, Typed, NEW a \in Actor,
         \/ Work(a) \/ (a = Worker /\ JudgeReclaimed) \/ (a = Operator /\ JudgeReconciled)
         \/ (a = Worker /\ CallStop) \/ Die(a)
  PROVE  \A c \in Rev : Stopping(c)' => Stopping(c)
<1>1. Worked(a)
  BY WorkIsWorked, ReclaimedWorks, ReconciledWorks, CallStopWorks, DieWorks
<1>2. \A b \in Actor : pc'[b] # "idle" => pc[b] # "idle" /\ at'[b] = at[b]
  BY <1>1 DEF Worked, HandsOf
<1> SUFFICES \A c \in Rev : Status(<<"stop", c>>)' # "none" => Stopping(c)
  BY <1>2 DEF Stopping
<1>3. ASSUME UNCHANGED jobs
      PROVE  \A c \in Rev : Status(<<"stop", c>>)' # "none" => Stopping(c)
  BY <1>3 DEF Status, Stopping
<1>4. CASE \/ Gate(a) \/ Prepare(a) \/ Install(a) \/ Launch(a) \/ SettleReady(a)
           \/ (a = Worker /\ JudgeReclaimed) \/ (a = Operator /\ JudgeReconciled)
  <2>1. PICK r \in Rev : r = For(a) /\ at[a] = Run(r)
    BY <1>4, TheRun DEF Gate, Prepare, Install, Launch, SettleReady, JudgeReclaimed, JudgeReconciled
  <2>2. \/ MarkFailed(r) \/ Deadline(r) \/ MarkUnknown(Run(r)) \/ Block(r)
        \/ SettleAbsent(r) \/ jobs' = RetryLater(jobs, Run(r), "awaiting") \/ UNCHANGED jobs
    BY <1>4, <2>1 DEF Gate, Prepare, Install, Launch, SettleReady, JudgeReclaimed, JudgeReconciled,
                      CallFails, NothingMarked
  <2> QED BY <1>3, <2>2, MarksNoStop
<1>5. CASE Forget(a) \/ (Compensate(a) /\ jobs' # jobs)
  <2>1. PICK r \in Rev : r = For(a) /\ at[a] = Run(r)
    BY <1>5, TheRun DEF Forget, Compensate, Job
  <2>2. CASE jobs' = jobs BY <1>3, <2>2
  <2>3. CASE \E k \in {"latesecret", "late"} : \E x : jobs' = Create(jobs, <<k, r>>, x)
    <3>1. PICK k \in {"latesecret", "late"} : \E x : jobs' = Create(jobs, <<k, r>>, x) BY <2>3
    <3>2. PICK x : jobs' = Create(jobs, <<k, r>>, x) BY <3>1
    <3>3. <<k, r>> \in JobId /\ <<k, r>>[1] # "stop" BY Kinds, Numbers
    <3> QED BY <3>2, <3>3, NoStop DEF JobStatus, Why
  <2>4. CASE jobs' = Settle(jobs, Run(r), "cancelled", "problem")
    BY <2>4, RunNoStop DEF JobStatus, Why
  <2> QED BY <1>5, <2>1, <2>2, <2>3, <2>4 DEF Forget, Compensate
<1>6. CASE SettleCall(a)
  <2>1. at[a] \in JobId /\ pc[a] # "idle" BY <1>6 DEF SettleCall, Typed, TypesOK, HandOK
  <2>2. \/ jobs' = jobs
        \/ jobs' = Settle(jobs, at[a], "succeeded", "none")
        \/ jobs' = Settle(jobs, at[a], "failed", "problem")
        \/ jobs' = Settle(jobs, at[a], "unknown", "problem")
    BY <1>6 DEF SettleCall, Job
  <2> QED BY <2>1, <2>2, NoStop DEF JobStatus, Why
<1>7. CASE \/ Inspect(a) \/ IssueToken(a) \/ Recheck(a) \/ RazeApp(a) \/ CallCleanup(a)
           \/ CallUnset(a) \/ (a = Worker /\ CallStop) \/ Die(a)
  BY <1>3, <1>7 DEF Inspect, IssueToken, Recheck, RazeApp, CallCleanup, CallUnset, CallStop, Die
<1> QED BY <1>3, <1>4, <1>5, <1>6, <1>7 DEF Work

\* Planning a revision makes no stop.
LEMMA PlansNoStop ==
  ASSUME IInv, Typed, MayPlan, NEW op \in {"ensure", "reprovision"}, Schedule(op),
         UNCHANGED <<pc, at>>
  PROVE  /\ NextRev \in Rev /\ current' \in Rev
         /\ \A c \in Rev : Stopping(c)' => Stopping(c)
<1>1. NextRev \in Rev BY Scheduled, NextIsNew
<1>2. Run(NextRev) \in JobId /\ Run(NextRev)[1] # "stop" BY <1>1, Kinds
<1>3. jobs' = Create(jobs, Run(NextRev), New(op, Nothing)) /\ current' = NextRev BY DEF Schedule
<1>4. \A c \in Rev : Status(<<"stop", c>>)' # "none" => Stopping(c)
  <2>1. "none" \in JobStatus /\ "none" \in Why BY DEF JobStatus, Why
  <2> QED BY <1>2, <1>3, <2>1, NoStop
<1> QED BY <1>1, <1>3, <1>4 DEF Stopping

\* Taking a job in hand delivers no stop that was not made.
LEMMA TakesNoStop ==
  ASSUME IInv, Typed, Lease \/ (\E j \in JobId : Reclaim(j) \/ Reconcile(j))
  PROVE  \A c \in Rev : Stopping(c)' => Stopping(c)
<1>0. jobs \in [JobId -> JobRow] /\ at \in [Actor -> JobId] /\ pc \in [Actor -> Place]
  BY DEF Typed, TypesOK, QueueOK, HandOK, IInv, Shape
<1>1. ASSUME NEW j, Take(j), Status(j) # "none" PROVE \A c \in Rev : Stopping(c)' => Stopping(c)
  <2> SUFFICES ASSUME NEW c \in Rev, Stopping(c)' PROVE Stopping(c) OBVIOUS
  <2>1. <<"stop", c>> \in JobId BY Kinds, Numbers
  <2>2. j = <<"stop", c>> => Stopping(c) BY <1>1 DEF Stopping
  <2>3. j # <<"stop", c>> => Status(<<"stop", c>>)' = Status(<<"stop", c>>)
    BY <1>0, <1>1, <2>1 DEF Take, Status
  <2>4. \A a \in Actor : at'[a] = <<"stop", c>> => j = <<"stop", c>> \/ (at'[a] = at[a] /\ pc'[a] = pc[a])
    BY <1>0, <1>1 DEF Take
  <2> QED BY <2>2, <2>3, <2>4 DEF Stopping
<1>2. CASE Lease
  <2>1. PICK i \in DOMAIN order : Due(order[i]) /\ Take(order[i]) BY <1>2 DEF Lease
  <2>2. Status(order[i]) # "none" BY <2>1 DEF Due
  <2> QED BY <1>1, <2>1, <2>2
<1>3. CASE \E j \in JobId : Reclaim(j) BY <1>1, <1>3 DEF Reclaim
<1>4. ASSUME NEW j \in JobId, Reconcile(j) PROVE \A c \in Rev : Stopping(c)' => Stopping(c)
  <2>1. UNCHANGED jobs /\ Status(j) # "none" BY <1>4 DEF Reconcile
  <2>2. \A a \in Actor : at'[a] = j \/ (at'[a] = at[a] /\ pc'[a] = pc[a])
    BY <1>0, <1>4 DEF Reconcile
  <2> QED BY <2>1, <2>2 DEF Stopping, Status
<1> QED BY <1>2, <1>3, <1>4

LEMMA UndoesNoStop ==
  ASSUME Typed, NEW reset \in BOOLEAN, Undo(reset)
  PROVE  \A c \in Rev : Stopping(c)' => Stopping(c)
<1>1. UNCHANGED <<pc, at>> BY DEF Undo
<1> DEFINE made == [j \in JobId |-> IF j[1] = "raze" /\ j[2] \in Registrable
                                    THEN New("none", row[j[2]].ref) ELSE jobs[j]]
<1>2. jobs' = Supersede(made) BY DEF Undo
<1>3. ASSUME NEW c \in Rev PROVE jobs'[<<"stop", c>>] = jobs[<<"stop", c>>]
  <2>1. <<"stop", c>> \in JobId /\ <<"stop", c>> \notin RunJob /\ <<"stop", c>>[1] # "raze"
    BY Kinds, Numbers
  <2>2. made[<<"stop", c>>] = jobs[<<"stop", c>>] BY <2>1
  <2> HIDE DEF made
  <2> QED BY <1>2, <2>1, <2>2 DEF Supersede
<1> QED BY <1>1, <1>3 DEF Stopping, Status

\* The stop a withdrawal makes is of the cycle it ends.
LEMMA WithdrawStops == ASSUME IInv, Typed, Stops, Withdraw PROVE Stops'
<1>1. /\ consent \in Rev /\ consent' = None /\ cycles' = cycles /\ cycles = consent
      /\ UNCHANGED <<pc, at>>
  BY DEF Withdraw, Stops, IInv, Shape, None, Rev
<1>2. ASSUME NEW c \in Rev, c # consent, Stopping(c)' PROVE Stopping(c)
  <2>1. <<"stop", c>> \in JobId /\ <<"stop", consent>> \in JobId /\ <<"stop", c>> # <<"stop", consent>>
    BY <1>1, <1>2, Kinds, Numbers
  <2>2. JobsOK(jobs) BY DEF Typed, TypesOK, QueueOK, JobsOK
  <2>3. jobs'[<<"stop", c>>] = jobs[<<"stop", c>>]
    BY <2>1, <2>2, CreatesOne DEF Withdraw, EnqueueStop
  <2> QED BY <1>1, <1>2, <2>3 DEF Stopping, Status
<1> QED BY <1>1, <1>2, Numbers DEF Stops, None, Rev

\* A stop is of a cycle that is over, whatever happens.
LEMMA StopsLasts == ASSUME IInv, Typed, Stops, [Next]_vars PROVE Stops'
<1>1. ASSUME UNCHANGED <<consent, cycles>>, \A c \in Rev : Stopping(c)' => Stopping(c)
      PROVE  Stops'
  BY <1>1 DEF Stops
<1>2. ASSUME UNCHANGED <<consent, cycles, jobs, pc, at>> PROVE Stops'
  BY <1>1, <1>2 DEF Stopping, Status
<1>3. CASE Family \/ Sweep
  <2>1. CASE (\E m \in Member : AddMember(m)) \/ Sweep
    <3>1. MayPlan /\ Schedule("reprovision") /\ UNCHANGED <<consent, cycles, pc, at>>
      BY <2>1 DEF AddMember, Sweep
    <3> QED BY <1>1, <3>1, PlansNoStop
  <2>2. CASE Onboard
    <3>1. MayPlan /\ Schedule("ensure") /\ UNCHANGED <<pc, at>> BY <2>2 DEF Onboard
    <3>2. \A c \in Rev : Stopping(c)' => Stopping(c) BY <3>1, PlansNoStop
    <3>3. \/ UNCHANGED <<consent, cycles>>
          \/ consent' = cycles + 1 /\ cycles' = cycles + 1
      BY <2>2 DEF Onboard
    <3>4. cycles \in Nat BY DEF Typed, TypesOK, RestOK
    <3> QED BY <1>1, <3>2, <3>3, <3>4, Numbers DEF Stops, Rev
  <2>3. CASE \E m \in Member : Drift(m) BY <1>2, <2>3 DEF Drift
  <2>4. CASE Reset \/ Cancel
    <3>1. UNCHANGED <<consent, cycles>> BY <2>4 DEF Reset, Cancel, Undo
    <3> QED BY <1>1, <2>4, <3>1, UndoesNoStop DEF Reset, Cancel
  <2>5. CASE Withdraw BY <2>5, WithdrawStops
  <2> QED BY <1>3, <2>1, <2>2, <2>3, <2>4, <2>5 DEF Family
<1>4. ASSUME NEW a \in Actor,
             \/ Work(a) \/ (a = Worker /\ JudgeReclaimed) \/ (a = Operator /\ JudgeReconciled)
             \/ (a = Worker /\ CallStop) \/ Die(a)
      PROVE  Stops'
  <2>1. UNCHANGED <<consent, cycles>>
    BY <1>4 DEF Work, JudgeReclaimed, JudgeReconciled, CallStop, Die, Gate, Inspect, Prepare,
                IssueToken, Install, Recheck, Launch, SettleReady, Forget, RazeApp, Compensate,
                CallCleanup, CallUnset, SettleCall
  <2> QED BY <1>1, <1>4, <2>1, WorkNoStop
<1>5. CASE Lease \/ (\E j \in JobId : Reclaim(j) \/ Reconcile(j))
  <2>1. UNCHANGED <<consent, cycles>> BY <1>5 DEF Lease, Reclaim, Take, Reconcile
  <2> QED BY <1>1, <1>5, <2>1, TakesNoStop
<1>6. CASE Activate
  <2>1. Env \in Rev /\ UNCHANGED <<consent, cycles, pc, at>>
    BY <1>6, EnvIsRev DEF Activate, MayActivate, Valid
  <2>2. jobs' \in {jobs, Settle(jobs, Run(Env), "succeeded", "none")} BY <1>6 DEF Activate
  <2>3. "succeeded" \in JobStatus /\ "none" \in Why BY DEF JobStatus, Why
  <2>4. \A c \in Rev : Stopping(c)' => Stopping(c) BY <2>1, <2>2, <2>3, RunNoStop DEF Stopping
  <2> QED BY <1>1, <2>1, <2>4
<1>7. CASE Acknowledge
  <2>1. machine.rev \in Rev
    BY <1>7, EnvIsRev DEF Acknowledge, Replayed, Valid, Env
  <2>2. UNCHANGED <<consent, cycles, pc, at>> BY <1>7 DEF Acknowledge
  <2>3. PICK j : j = <<"secret", machine.rev>> OBVIOUS
  <2>4. j \in JobId /\ j[1] # "stop" BY <2>1, <2>3, Kinds, Numbers
  <2>5. jobs' = Create(jobs, j, New("none", Nothing)) BY <1>7, <2>3 DEF Acknowledge, Env
  <2>6. "none" \in JobStatus /\ "none" \in Why BY DEF JobStatus, Why
  <2>7. \A c \in Rev : Stopping(c)' => Stopping(c)
    BY <2>2, <2>4, <2>5, <2>6, NoStop DEF Stopping
  <2> QED BY <1>1, <2>2, <2>7
<1>8. CASE (Running /\ ~Activate /\ ~Acknowledge) \/ Reboot \/ (\E r \in Rev : Expire(r))
           \/ UNCHANGED vars
  BY <1>2, <1>8 DEF Running, Claim, WriteManifest, WriteActivating, Replay, WriteActive,
                    ServeWithout, Refuse, Reboot, Expire, RuntimeSame
<1> QED BY <1>3, <1>4, <1>5, <1>6, <1>7, <1>8, Numbers DEF Next, Working, Reconciling

\* A household that is served, or waits to be, points at a revision.
Pointed == home \in {"active", "provisioning"} => current \in Rev

LEMMA FailedPoints ==
  ASSUME Typed, Pointed, NEW r, MarkFailed(r) \/ Deadline(r) PROVE Pointed'
<1>1. MarkFailed(r) \/ UNCHANGED <<home, current>> BY DEF Deadline
<1>2. Restore(r) \/ UNCHANGED <<home, current>> BY <1>1 DEF MarkFailed
<1> DEFINE settled == {s \in Rev : rev[s] = "active"}
           latest == CHOOSE s \in settled : \A t \in settled : t <= s
<1>3. CASE settled # {} /\ current' = latest
  <2>1. PICK s \in settled : TRUE BY <1>3
  <2>2. s \in Rev /\ \A t \in settled : t = s BY <2>1 DEF Typed, OneLive, Serving
  <2>3. \A t \in settled : t <= s BY <2>2, Numbers
  <2>4. latest \in settled BY <2>1, <2>3
  <2> QED BY <1>3, <2>4 DEF Pointed
<1>4. CASE UNCHANGED <<home, current>> BY <1>4 DEF Pointed
<1> QED BY <1>2, <1>3, <1>4 DEF Restore

LEMMA WorkPoints == ASSUME Typed, Pointed, NEW a \in Actor, Work(a) PROVE Pointed'
<1>1. CASE Gate(a)
  <2>1. CASE Block(For(a)) /\ UNCHANGED current
    <3>1. UNCHANGED home \/ home' = "onboarding" BY <2>1 DEF Block
    <3> QED BY <2>1, <3>1 DEF Pointed
  <2>2. CASE Deadline(For(a)) BY <2>2, FailedPoints
  <2>3. CASE UNCHANGED <<home, current>> BY <2>3 DEF Pointed
  <2> QED BY <1>1, <2>1, <2>2, <2>3 DEF Gate
<1>2. CASE Prepare(a) \/ Launch(a) \/ SettleReady(a)
  <2>1. MarkFailed(For(a)) \/ Deadline(For(a)) \/ UNCHANGED <<home, current>>
    BY <1>2 DEF Prepare, Launch, SettleReady, CallFails, NothingMarked
  <2> QED BY <2>1, FailedPoints DEF Pointed
<1>3. CASE Inspect(a) \/ IssueToken(a) \/ Install(a) \/ Recheck(a) \/ Forget(a) \/ RazeApp(a)
           \/ Compensate(a) \/ CallCleanup(a) \/ CallUnset(a) \/ SettleCall(a)
  <2>1. UNCHANGED <<home, current>>
    BY <1>3 DEF Inspect, IssueToken, Install, Recheck, Forget, RazeApp, Compensate, CallCleanup,
                CallUnset, SettleCall
  <2> QED BY <2>1 DEF Pointed
<1> QED BY <1>1, <1>2, <1>3 DEF Work

\* The household goes on pointing at a revision.
LEMMA PointedLasts == ASSUME IInv, Typed, Pointed, [Next]_vars PROVE Pointed'
<1>1. CASE UNCHANGED <<home, current>> BY <1>1 DEF Pointed
<1>2. CASE Family \/ Sweep
  <2>1. CASE (\E m \in Member : AddMember(m)) \/ Sweep \/ Onboard
    <3>1. PICK op \in {"ensure", "reprovision"} : MayPlan /\ Schedule(op) /\ UNCHANGED <<pc, at>>
      BY <2>1 DEF AddMember, Sweep, Onboard
    <3> QED BY <3>1, PlansNoStop DEF Pointed
  <2>2. CASE Reset \/ Cancel BY <2>2 DEF Reset, Cancel, Pointed
  <2>3. CASE (\E m \in Member : Drift(m)) \/ Withdraw BY <1>1, <2>3 DEF Drift, Withdraw
  <2> QED BY <1>2, <2>1, <2>2, <2>3 DEF Family
<1>3. CASE JudgeReclaimed \/ JudgeReconciled
  <2>1. MarkFailed(For(Worker)) \/ MarkFailed(For(Operator)) \/ UNCHANGED <<home, current>>
    BY <1>3 DEF JudgeReclaimed, JudgeReconciled
  <2> QED BY <1>1, <2>1, FailedPoints
<1>4. CASE Activate
  <2>1. Env \in Rev BY <1>4, EnvIsRev DEF Activate, MayActivate, Valid
  <2> QED BY <1>4, <2>1 DEF Activate, Pointed
<1>5. CASE Lease \/ (\E j \in JobId : Reclaim(j) \/ Reconcile(j)) \/ CallStop
           \/ (Running /\ ~Activate) \/ Reboot \/ (\E a \in Actor : Die(a))
           \/ (\E r \in Rev : Expire(r)) \/ UNCHANGED vars
  BY <1>1, <1>5 DEF Lease, Reclaim, Reconcile, Take, CallStop, Running, Claim, WriteManifest,
                    WriteActivating, Replay, WriteActive, Acknowledge, ServeWithout, Refuse,
                    Reboot, Die, Expire, RuntimeSame
<1> QED BY <1>2, <1>3, <1>4, <1>5, WorkPoints, Numbers DEF Next, Working, Reconciling

-----------------------------------------------------------------------------
(* What is proved of the runtime that serves *)

\* All of it, of every household; and of a calm one.
Ordinary == IInv /\ Typed /\ OnDisk /\ Stops /\ Pointed
CalmIInv == Ordinary /\ Calm /\ Drafted /\ (Quiet => Course)

LEMMA PlanStays == ASSUME IInv, [Next]_vars PROVE plan' = plan
<1>1. StepOf BY NextIsStep
<1> QED BY <1>1 DEF StepOf, Worked, Taken, Undone, NewRev, Activate

LEMMA InitOrdinary == Init => Ordinary
<1> SUFFICES ASSUME Init PROVE OnDisk /\ Stops /\ Pointed BY InitIInv, InitTyped DEF Ordinary
<1>1. current = 1 /\ consent = 1 /\ cycles = 1 /\ rt = "off" BY Zenon DEF Init
<1>2. machine = NoMachine /\ volume = NoVolume BY Zenon DEF Init
<1>3. pc = [a \in Actor |-> "idle"] BY Zenon DEF Init
<1>4. jobs = [j \in JobId |-> IF j = Run(1)
                              THEN [NoJob EXCEPT !.status = "pending", !.op = "ensure"] ELSE NoJob]
  BY Zenon DEF Init
<1>5. ASSUME NEW c \in Rev PROVE ~Stopping(c)
  <2>1. <<"stop", c>> \in JobId /\ <<"stop", c>> # Run(1) BY Kinds, Numbers
  <2>2. jobs[<<"stop", c>>] = NoJob BY <1>4, <2>1
  <2> QED BY <1>3, <2>2 DEF Stopping, Status, NoJob
<1>6. OnDisk BY <1>1, <1>2 DEF OnDisk, NoMachine, None
<1> QED BY <1>1, <1>5, <1>6, Numbers DEF Stops, Pointed

LEMMA NextOrdinary == ASSUME Ordinary, [Next]_vars PROVE Ordinary'
  BY NextKeeps, NextTypes, OnDiskLasts, StopsLasts, PointedLasts DEF Ordinary

LEMMA NextCalm == ASSUME CalmIInv, [Next]_vars PROVE CalmIInv'
<1>1. Ordinary' BY NextOrdinary DEF CalmIInv
<1>2. Calm' BY PlanStays DEF CalmIInv, Ordinary, Calm
<1>3. Drafted' BY DraftLasts DEF CalmIInv, Ordinary
<1>4. Quiet' => Course' BY NextCourse DEF CalmIInv, Ordinary
<1> QED BY <1>1, <1>2, <1>3, <1>4 DEF CalmIInv

\* The invariant of a calm household holds of its behaviours.
LEMMA CalmOfBehaviours == Spec /\ Calm => []CalmIInv
<1>1. Init /\ Calm => CalmIInv BY InitOrdinary, InitCourse DEF CalmIInv
<1>2. CalmIInv /\ [Next]_vars => CalmIInv' BY NextCalm
<1> QED BY <1>1, <1>2, PTL DEF Spec

\* Who is served, and left nothing behind, is in the ordinary course of events; and
\* served by the machine of the revision that is current.
LEMMA ServedIsQuiet ==
  ASSUME CalmIInv, home = "active", Serving(current), ~Afoot
  PROVE  Course /\ machine.rev = current /\ activated[current] = 1
<1>1. current \in Rev BY DEF CalmIInv, Ordinary, Pointed
<1>2. ASSUME NEW r \in Rev, Over(r), Touched(r), activated[r] > 0 PROVE FALSE
  <2>1. GivenUp(r) BY <1>2 DEF Over, GivenUp, Status, St
  <2> QED BY <1>2, <2>1 DEF Afoot
<1>3. ~Parted BY <1>1 DEF Parted, CalmIInv, Ordinary, IInv, Gated, Gone, Serving
<1>4. Course BY <1>2, <1>3 DEF CalmIInv, Quiet, Belated
<1>5. activated[current] = 1 BY <1>1 DEF CalmIInv, Ordinary, IInv, After
<1>6. ASSUME NEW r \in Rev, r > current, Touched(r) PROVE FALSE
  <2>1. rev[r] # "none" BY <1>4, <1>6 DEF Course, Touches, Touching
  <2>2. St(jobs, r) # "none" BY <2>1 DEF CalmIInv, Ordinary, IInv, Made
  <2>3. ~InFlight(Run(r))
    BY <1>1, <1>4, <1>6, Numbers DEF Course, Flight, Flying
  <2>4. St(jobs, r) # "succeeded"
    <3>1. activated[r] > 0 => r <= current BY <1>1, <1>4 DEF Course, Serves
    <3> QED BY <1>1, <1>4, <1>6, <3>1, Numbers DEF Course, Spends, Spending
  <2>5. jobs[Run(r)] \in RunRow BY DEF CalmIInv, Ordinary, IInv, IsJobs
  <2>6. GivenUp(r)
    BY <2>2, <2>3, <2>4, <2>5 DEF GivenUp, InFlight, Status, St, RunRow
  <2> QED BY <1>6, <2>6 DEF Afoot
<1> QED BY <1>1, <1>4, <1>5, <1>6 DEF Course, Serves

\* What a calm household has in hand takes no machine away.
LEMMA MachineStays ==
  ASSUME CalmIInv, Course, machine.id # None, [Next]_vars
  PROVE  machine'.id # None
<1>0. machine \in MachineType BY DEF CalmIInv, Ordinary, Typed, TypesOK, CloudOK
<1>1. ASSUME Unset PROVE machine'.id # None
  <2>1. machine' \in {machine, [machine EXCEPT !.token = None]} BY <1>1 DEF Unset
  <2> QED BY <1>0, <2>1 DEF MachineType
<1>2. ASSUME NEW a \in Actor, Work(a) PROVE machine'.id # None
  <2>1. ~RazeApp(a) /\ ~CallCleanup(a)
    BY DEF RazeApp, CallCleanup, Job, Course, Hands
  <2>2. CASE Launch(a) BY <2>2 DEF Launch
  <2>3. CASE Forget(a) \/ CallUnset(a) BY <1>1, <2>3 DEF Forget, CallUnset
  <2>4. CASE Gate(a) \/ Inspect(a) \/ Prepare(a) \/ IssueToken(a) \/ Install(a) \/ Recheck(a)
             \/ SettleReady(a) \/ Compensate(a) \/ SettleCall(a)
    BY <2>4 DEF Gate, Inspect, Prepare, IssueToken, Install, Recheck, SettleReady, Compensate,
                SettleCall
  <2> QED BY <1>2, <2>1, <2>2, <2>3, <2>4 DEF Work
<1>3. CASE Family \/ Sweep
  BY <1>3 DEF Family, AddMember, Drift, Onboard, Reset, Cancel, Undo, Withdraw, Sweep
<1>4. CASE Lease \/ (\E j \in JobId : Reclaim(j) \/ Reconcile(j)) \/ JudgeReclaimed
           \/ JudgeReconciled \/ CallStop
  BY <1>4 DEF Lease, Reclaim, Reconcile, Take, JudgeReclaimed, JudgeReconciled, CallStop
<1>5. CASE Running \/ Reboot \/ (\E a \in Actor : Die(a)) \/ (\E r \in Rev : Expire(r))
           \/ UNCHANGED vars
  BY <1>5 DEF Running, Claim, WriteManifest, WriteActivating, Activate, Replay, WriteActive,
              Acknowledge, ServeWithout, Refuse, Reboot, Die, Expire, RuntimeSame
<1> QED BY <1>2, <1>3, <1>4, <1>5, Numbers DEF Next, Working, Reconciling

\* A stop is obeyed by a runtime of the cycle it names, which is over.
StopIsItsOwn == volume'.marked /\ ~volume.marked => cycle[volume.manifest] # consent
LEMMA StopObeyed == ASSUME Ordinary, [Next]_vars PROVE StopIsItsOwn
<1>0. volume \in VolumeType BY DEF Ordinary, Typed, TypesOK, CloudOK
<1>1. CASE volume'.marked = volume.marked BY <1>1 DEF StopIsItsOwn
<1>2. CASE UNCHANGED volume BY <1>1, <1>2
<1>3. CASE volume' = NoVolume BY <1>3 DEF NoVolume, StopIsItsOwn
<1>4. ASSUME NEW a \in Actor, Work(a) PROVE StopIsItsOwn
  <2>1. CASE Prepare(a)
    <3>1. volume' \in {volume, [NoVolume EXCEPT !.id = ids + 1]} BY <2>1 DEF Prepare
    <3>2. ~[NoVolume EXCEPT !.id = ids + 1].marked BY DEF NoVolume
    <3> QED BY <1>2, <3>1, <3>2 DEF StopIsItsOwn
  <2>2. CASE RazeApp(a) \/ CallCleanup(a)
    <3>1. volume' \in {volume, NoVolume}
      BY <2>2 DEF RazeApp, CallCleanup, Razed, Stopped, Untouched
    <3> QED BY <1>2, <1>3, <3>1
  <2>3. CASE Launch(a) \/ Forget(a) \/ CallUnset(a) \/ Gate(a) \/ Inspect(a) \/ IssueToken(a)
             \/ Install(a) \/ Recheck(a) \/ SettleReady(a) \/ Compensate(a) \/ SettleCall(a)
    BY <1>2, <2>3 DEF Launch, Forget, CallUnset, Gate, Inspect, IssueToken, Install, Recheck,
                      SettleReady, Compensate, SettleCall
  <2> QED BY <1>4, <2>1, <2>2, <2>3 DEF Work
<1>5. CASE Family \/ Sweep
  BY <1>2, <1>5 DEF Family, AddMember, Drift, Onboard, Reset, Cancel, Undo, Withdraw, Sweep
<1>6. CASE Lease \/ (\E j \in JobId : Reclaim(j) \/ Reconcile(j)) \/ JudgeReclaimed
           \/ JudgeReconciled
  BY <1>2, <1>6 DEF Lease, Reclaim, Reconcile, Take, JudgeReclaimed, JudgeReconciled
<1>7. CASE CallStop
  <2>1. PICK c : c = For(Worker) OBVIOUS
  <2>2. pc[Worker] = "call" /\ at[Worker][1] = "stop" BY <1>7 DEF CallStop, Job
  <2>3. UNCHANGED volume \/ Verdict(c) = "match" BY <1>7, <2>1 DEF CallStop
  <2>4. at[Worker] \in JobId BY Numbers DEF Ordinary, Typed, TypesOK, HandOK
  <2>5. c \in Rev /\ at[Worker] = <<"stop", c>> BY <2>1, <2>2, <2>4, Kinds DEF For
  <2>6. c # consent BY <2>2, <2>5, Numbers DEF Ordinary, Stops, Stopping
  <2>7. Verdict(c) = "match" => cycle[volume.manifest] = c BY DEF Verdict
  <2> QED BY <1>2, <2>3, <2>6, <2>7 DEF StopIsItsOwn
<1>8. CASE Running \/ Reboot \/ (\E a \in Actor : Die(a)) \/ (\E r \in Rev : Expire(r))
           \/ UNCHANGED vars
  <2>1. CASE WriteManifest \/ WriteActivating \/ WriteActive
    <3>1. volume'.marked = volume.marked
      BY <1>0, <2>1 DEF WriteManifest, WriteActivating, WriteActive, VolumeType
    <3> QED BY <1>1, <3>1
  <2>2. CASE ~(WriteManifest \/ WriteActivating \/ WriteActive)
    BY <1>2, <1>8, <2>2 DEF Running, Claim, Activate, Replay, Acknowledge, ServeWithout, Refuse,
                            Reboot, Die, Expire, RuntimeSame
  <2> QED BY <2>1, <2>2
<1> QED BY <1>4, <1>5, <1>6, <1>7, <1>8, Numbers DEF Next, Working, Reconciling

(* A stop suspends only a runtime whose consent was withdrawn, in whatever   *)
(* household, however late it is delivered and whoever serves at that        *)
(* address by then: it names a cycle of consent, and the runtime compares it *)
(* with its manifest's (_enqueue_runtime_stop, _consent_revoke).             *)
THEOREM StopsOnlyItsCycle == Spec => [][StopIsItsOwn]_vars
<1>1. Init => Ordinary BY InitOrdinary
<1>2. Ordinary /\ [Next]_vars => Ordinary' BY NextOrdinary
<1>3. Ordinary /\ [Next]_vars => [StopIsItsOwn]_vars BY StopObeyed
<1> QED BY <1>1, <1>2, <1>3, PTL DEF Spec

(* An active household of which nobody started over, and whose provider      *)
(* shows the machine it has created, points at the revision its machine was  *)
(* made for, one that went live exactly once: a rollout that failed half way *)
(* is not taken back in the database alone (_restore_settled_household).     *)
THEOREM CalmIsServed == Spec /\ Calm => []ActiveIsServed
<1>1. CalmIInv => ActiveIsServed
  <2> SUFFICES ASSUME CalmIInv PROVE ActiveIsServed OBVIOUS
  <2>1. Consented
    BY DEF CalmIInv, Ordinary, IInv, Gated, Own, Consented, Gone, Serving
  <2>2. rt = "done" => volume.manifest = machine.rev BY DEF CalmIInv, Ordinary, OnDisk
  <2> QED BY <2>1, <2>2, ServedIsQuiet DEF ActiveIsServed
<1> QED BY <1>1, CalmOfBehaviours, PTL

(* The machine of the revision that serves such a household is not taken     *)
(* away by a worker, whatever it has missed; and a stop suspends only a      *)
(* runtime whose consent was withdrawn (_settle_runtime_ready, reconcile).   *)
THEOREM CalmNotTornDown == Spec /\ Calm => NeverTornDown
<1> DEFINE Kept == /\ UpAndServing => machine'.id # None
                   /\ volume'.marked /\ ~volume.marked => cycle[volume.manifest] # consent
<1>1. CalmIInv /\ [Next]_vars => [Kept]_vars
  <2> SUFFICES ASSUME CalmIInv, [Next]_vars PROVE Kept OBVIOUS
  <2>1. UpAndServing => machine'.id # None
    BY ServedIsQuiet, MachineStays DEF UpAndServing
  <2>2. StopIsItsOwn BY StopObeyed DEF CalmIInv
  <2> QED BY <2>1, <2>2 DEF StopIsItsOwn
<1> QED BY <1>1, CalmOfBehaviours, PTL DEF Spec, NeverTornDown
=============================================================================
