------------------------- MODULE ControlPlaneProofs -------------------------
(***************************************************************************)
(* Proofs about two parts of the control plane that share one database     *)
(* file: the rows of its channel bindings, and the file itself under       *)
(* migrate-on-start, backup, restore and rollback.  No theorem mixes them. *)
(*                                                                         *)
(* The first half is for any households, senders, rooms, accounts, codes   *)
(* and limits, and whatever rows an older version left.  The second is for *)
(* any writes, archive retention and plans of the operator, with any       *)
(* number of faults in each; its invariant is BackupInv.                   *)
(***************************************************************************)
EXTENDS Bindings, Backup, SequenceTheorems, TLAPS

USE DEF house, runtime, vars

-----------------------------------------------------------------------------
(* The inductive invariant *)

Code == [state : {"unissued", "open", "consumed", "dropped"}, for : Invite \cup {None},
         by : Id \cup {None}, under : SUBSET (Channel \X Id \X Chat)]

Types ==
  /\ rows \subseteq Row
  /\ code \in [Challenge -> Code]
  /\ home \in [Household -> {"onboarding", "provisioning", "active"}]
  /\ flow \in [Household -> {"setup", "complete"}]
  /\ step \in [Household -> Owner \cup {None}]
  /\ job \in [Household -> {"none", "queued", "touched"}]
  /\ plan \in [Household -> SUBSET (Channel \X Id \X Chat)]
  /\ late \in [Household -> SUBSET SUBSET (Channel \X Id \X Chat)]
  /\ served \in [Household -> SUBSET (Channel \X Id \X Chat)]
  /\ ahead \in [Household -> SUBSET (Channel \X Id \X Chat)]

\* An open code names its invitation.
CodeOK == \A c \in Challenge : code[c].state = "open" => code[c].for \in Invite

\* A household that has been set up, is being rolled out or may come up late has an
\* owner state, and it is its own.
StepOK(h) ==
  /\ step[h] # None => step[h] \in Owner /\ step[h].h = h
  /\ flow[h] = "complete" \/ job[h] # "none" \/ late[h] # {}
     => step[h] \in Owner /\ step[h].h = h

\* A revision that is being rolled out authorizes all rows of its household.
PlanOK(h) == job[h] # "none" => \A r \in Of(rows, h) : Pair(r) \in plan[h]

\* A revision that may come up late authorizes the published rows, for it was
\* planned after the last activation.
LateOK(h) == \A m \in late[h] : \A r \in Of(rows, h) : r.pub => Pair(r) \in m

ServedOK == \A r \in rows : r.pub => Pair(r) \in served[r.h] \cup ahead[r.h]

IInv ==
  /\ Types
  /\ CodeOK
  /\ \A h \in Household : StepOK(h) /\ PlanOK(h) /\ LateOK(h)
  /\ ServedOK

\* A sender of the gateway is on one row.
Single(R) ==
  \A r, s \in R : r.chan = "gateway" /\ s.chan = "gateway" /\ r.id = s.id => r = s
\* A member who is not published is waiting for a rollout.
Awaited(R, at) == \A r \in R : r.role = "adult" /\ ~r.pub => at[r.h] # "active"

-----------------------------------------------------------------------------
(* What a plan makes of the table *)

\* Every row of S was in R or is a staged row of the owner of h.
Grown(R, S, h) ==
  /\ S \subseteq Row
  /\ \A r \in S : r \in R \/ (r.h = h /\ ~r.pub /\ r.role = "owner")

LEMMA OwnerRowType ==
  ASSUME NEW o \in Owner, NEW chan \in Channel, NEW chat \in Chat,
         NEW acct \in Account \cup {None}
  PROVE  /\ OwnerRow(o, chan, chat, acct) \in Row
         /\ OwnerRow(o, chan, chat, acct).h = o.h
         /\ OwnerRow(o, chan, chat, acct).chan = chan
         /\ OwnerRow(o, chan, chat, acct).id = o.id
         /\ OwnerRow(o, chan, chat, acct).role = "owner"
         /\ ~OwnerRow(o, chan, chat, acct).pub
BY DEF OwnerRow, Owner, Row

LEMMA InsertedRow ==
  ASSUME NEW R, NEW r, NEW S \in Inserted(R, r)
  PROVE  S = R \cup {r}
BY DEF Inserted

\* ensure_owner_binding adds one row of the owner, and no second holder.
LEMMA PrimaryGrown ==
  ASSUME NEW o \in Owner, NEW R \in SUBSET Row, NEW S \in PrimaryEnsured(R, o)
  PROVE  Grown(R, S, o.h) /\ (Single(R) => Single(S))
<1> DEFINE row == OwnerRow(o, o.chan, o.chat, PrimaryAccount(o))
<1>1. CASE S = R
  BY <1>1 DEF Grown
<1>2. CASE S # R
  <2>1. /\ ~Foreign(R, o.h, o.chan, o.id)
        /\ \A r \in Holders(R, o.chan, o.id) : r.h = o.h => r.role = "owner"
        /\ S \in Inserted(Retired(R, o.h), row)
    BY <1>2 DEF PrimaryEnsured
  <2>2. S = Retired(R, o.h) \cup {row}
    BY <2>1, InsertedRow
  <2>3. o.chan \in Channel /\ o.chat \in Chat /\ PrimaryAccount(o) \in Account \cup {None}
    BY DEF Owner, PrimaryAccount
  <2>4. row \in Row /\ row.h = o.h /\ row.chan = o.chan /\ row.id = o.id
        /\ row.role = "owner" /\ ~row.pub
    BY <2>3, OwnerRowType
  <2>5. Retired(R, o.h) \subseteq R \ Owned(R, o.h)
    BY DEF Retired
  <2>6. Grown(R, S, o.h)
    BY <2>2, <2>4, <2>5 DEF Grown
  <2>7. ASSUME NEW r \in Retired(R, o.h), r.chan = o.chan, r.id = o.id PROVE FALSE
    BY <2>1, <2>5, <2>7 DEF Foreign, Holders, Owned
  <2>8. ASSUME Single(R) PROVE Single(S)
    BY <2>2, <2>4, <2>5, <2>7, <2>8 DEF Single
  <2>9. QED
    BY <2>6, <2>8
<1>3. QED
  BY <1>1, <1>2

\* ensure_owner_web_seat touches web rows alone.
LEMMA SeatGrown ==
  ASSUME NEW o \in Owner, NEW R \in SUBSET Row, NEW S \in SeatEnsured(R, o)
  PROVE  Grown(R, S, o.h) /\ (Single(R) => Single(S))
<1> DEFINE seats == {r \in Owned(R, o.h) : r.chan = "web"}
           room == IF seats = {} THEN Seat(o.id) ELSE (CHOOSE r \in seats : TRUE).chat
           row == OwnerRow(o, "web", room, o.acct)
<1>1. CASE S = R
  BY <1>1 DEF Grown
<1>2. CASE S # R
  <2>1. S \in Inserted(R \ seats, row)
    BY <1>2 DEF SeatEnsured
  <2>2. S = (R \ seats) \cup {row}
    BY <2>1, InsertedRow
  <2>3. room \in Chat
    <3>1. CASE seats = {}
      BY <3>1 DEF Owner, Chat
    <3>2. CASE seats # {}
      <4>1. (CHOOSE r \in seats : TRUE) \in seats
        BY <3>2
      <4>2. QED
        BY <3>2, <4>1 DEF Owned, Row
    <3>3. QED
      BY <3>1, <3>2
  <2>4. "web" \in Channel /\ o.acct \in Account \cup {None}
    BY DEF Owner, Channel
  <2>5. row \in Row /\ row.h = o.h /\ row.chan = "web" /\ row.role = "owner" /\ ~row.pub
    BY <2>3, <2>4, OwnerRowType
  <2>6. Grown(R, S, o.h)
    BY <2>2, <2>5 DEF Grown
  <2>7. ASSUME Single(R) PROVE Single(S)
    BY <2>2, <2>5, <2>7 DEF Single
  <2>8. QED
    BY <2>6, <2>7
<1>3. QED
  BY <1>1, <1>2

LEMMA IssuedGrown ==
  ASSUME NEW o \in Owner, NEW R \in SUBSET Row, NEW S \in Issued(R, o)
  PROVE  Grown(R, S, o.h) /\ (Single(R) => Single(S))
<1>1. PICK P \in PrimaryEnsured(R, o) : S = P \/ S \in SeatEnsured(P, o)
  BY DEF Issued
<1>2. P \in SUBSET Row /\ Grown(R, P, o.h) /\ (Single(R) => Single(P))
  BY PrimaryGrown DEF Grown
<1>3. CASE S = P
  BY <1>2, <1>3
<1>4. CASE S \in SeatEnsured(P, o)
  <2>1. Grown(P, S, o.h) /\ (Single(P) => Single(S))
    BY <1>2, <1>4, SeatGrown
  <2>2. QED
    BY <1>2, <2>1 DEF Grown
<1>5. QED
  BY <1>1, <1>3, <1>4

\* verify_challenge adds the member, staged, where nobody holds the sender.
LEMMA AnsweredGrown ==
  ASSUME NEW i \in Invite, rows \subseteq Row, NEW R \in Answered(i)
  PROVE  /\ R \subseteq Row
         /\ \A r \in R : r \in rows \/ (r.h = i.h /\ ~r.pub)
         /\ Single(rows) => Single(R)
<1> DEFINE row == [h |-> i.h, chan |-> i.chan, id |-> i.id, bare |-> FALSE, chat |-> i.chat,
                   role |-> "adult", acct |-> i.acct, pub |-> FALSE]
<1>1. CASE R = rows
  BY <1>1
<1>2. CASE R # rows
  <2>1. Holders(rows, i.chan, i.id) = {} /\ R \in Inserted(rows, row)
    BY <1>2 DEF Answered
  <2>2. R = rows \cup {row}
    BY <2>1, InsertedRow
  <2>3. row \in Row
    BY DEF Invite, Row
  <2>4. \A r \in rows : ~(r.chan = row.chan /\ r.id = row.id)
    BY <2>1 DEF Holders
  <2>5. Single(rows) => Single(R)
    BY <2>2, <2>4 DEF Single
  <2>6. row.h = i.h /\ ~row.pub
    OBVIOUS
  <2>7. R \subseteq Row
    BY <2>2, <2>3
  <2>8. \A r \in R : r \in rows \/ (r.h = i.h /\ ~r.pub)
    BY <2>2, <2>6
  <2>9. QED
    BY <2>5, <2>7, <2>8
<1>3. QED
  BY <1>1, <1>2

-----------------------------------------------------------------------------
(* The steps *)

LEMMA DroppedType ==
  ASSUME NEW cs \in [Challenge -> Code], NEW R, NEW o,
         \A c \in Challenge : cs[c].state = "open" => cs[c].for \in Invite
  PROVE  /\ Dropped(cs, R, o) \in [Challenge -> Code]
         /\ \A c \in Challenge : Dropped(cs, R, o)[c].state = "open"
                                 => Dropped(cs, R, o)[c].for \in Invite
BY DEF Dropped, Code

\* A planned revision keeps the invariant, whatever table it starts from that
\* holds the published rows and new ones of its household alone.
LEMMA PlannedKeeps ==
  ASSUME IInv, NEW h \in Household, NEW o \in Owner, o.h = h,
         NEW R \in SUBSET Row, NEW cs \in [Challenge -> Code],
         \A c \in Challenge : cs[c].state = "open" => cs[c].for \in Invite,
         \A r \in R : r \in rows \/ (r.h = h /\ ~r.pub),
         Planned(h, o, R, cs),
         \/ step[h] = o /\ UNCHANGED <<flow, step>>
         \/ step' = [step EXCEPT ![h] = o] /\ UNCHANGED flow
  PROVE  IInv'
<1> USE DEF IInv
<1>1. Grown(R, rows', h)
  BY IssuedGrown DEF Planned
<1>2. \A r \in rows' : r \in rows \/ (r.h = h /\ ~r.pub)
  BY <1>1 DEF Grown
<1>3. rows' \subseteq Row
  BY <1>1 DEF Grown
<1>4. /\ code' = Dropped(cs, R, o)
      /\ plan' = [plan EXCEPT ![h] = Pairs(rows', h)]
      /\ job' = [job EXCEPT ![h] = "queued"]
      /\ home' = [home EXCEPT ![h] = "provisioning"]
      /\ late' = late /\ served' = served /\ ahead' = ahead
  BY DEF Planned
<1>5. Pairs(rows', h) \in SUBSET (Channel \X Id \X Chat)
  BY <1>3 DEF Pairs, Of, Pair, Row
<1>6. code' \in [Challenge -> Code] /\ CodeOK'
  BY <1>4, DroppedType DEF CodeOK
<1>7. step' \in [Household -> Owner \cup {None}]
  BY DEF Types
<1>8. Types'
  <2>1. plan' \in [Household -> SUBSET (Channel \X Id \X Chat)]
    BY <1>4, <1>5 DEF Types
  <2>2. job' \in [Household -> {"none", "queued", "touched"}]
    BY <1>4 DEF Types
  <2>3. home' \in [Household -> {"onboarding", "provisioning", "active"}]
    BY <1>4 DEF Types
  <2>4. flow' = flow
    OBVIOUS
  <2>5. QED
    BY <1>3, <1>4, <1>6, <1>7, <2>1, <2>2, <2>3, <2>4 DEF Types
<1>9. ASSUME NEW g \in Household PROVE StepOK(g)'
  <2>1. CASE g = h
    <3>1. step'[g] = o
      BY <2>1 DEF Types
    <3>2. QED
      BY <2>1, <3>1 DEF StepOK
  <2>2. CASE g # h
    <3>1. step'[g] = step[g] /\ flow'[g] = flow[g] /\ job'[g] = job[g] /\ late'[g] = late[g]
      BY <1>4, <2>2 DEF Types
    <3>2. QED
      BY <3>1 DEF StepOK
  <2>3. QED
    BY <2>1, <2>2
<1>10. ASSUME NEW g \in Household PROVE PlanOK(g)'
  <2>1. CASE g = h
    <3>1. plan'[g] = Pairs(rows', g)
      BY <1>4, <2>1 DEF Types
    <3>2. QED
      BY <3>1 DEF PlanOK, Pairs
  <2>2. CASE g # h
    <3>1. plan'[g] = plan[g] /\ job'[g] = job[g]
      BY <1>4, <2>2 DEF Types
    <3>2. Of(rows', g) \subseteq Of(rows, g)
      BY <1>2, <2>2 DEF Of
    <3>3. QED
      BY <3>1, <3>2 DEF PlanOK
  <2>3. QED
    BY <2>1, <2>2
<1>11. ServedOK'
  BY <1>2, <1>4 DEF ServedOK
<1>12. ASSUME NEW g \in Household PROVE LateOK(g)'
  BY <1>2, <1>4 DEF LateOK, Of, Pair
<1>13. QED
  BY <1>6, <1>8, <1>9, <1>10, <1>11, <1>12

\* A step of a code that plans nothing.
LEMMA CodeStepKeeps ==
  ASSUME IInv, code' \in [Challenge -> Code], CodeOK',
         UNCHANGED <<rows, house, step, runtime, resets>>
  PROVE  IInv'
BY DEF IInv, Types, StepOK, PlanOK, LateOK, ServedOK, Of, Pair

LEMMA IssueKeeps ==
  ASSUME IInv, NEW c \in Challenge, NEW i \in Invites, Issue(c, i)
  PROVE  IInv'
<1>1. i \in Invite
  BY BindingsAssumption
<1>2. OwnerActor(i.h) \in Id
  <2>1. (CHOOSE r \in Owned(rows, i.h) : TRUE) \in Owned(rows, i.h)
    BY DEF Issue
  <2>2. QED
    BY <2>1 DEF OwnerActor, Owned, IInv, Types, Row
<1>3. {Pair(r) : r \in Owned(rows, i.h)} \in SUBSET (Channel \X Id \X Chat)
  BY DEF Owned, Pair, IInv, Types, Row
<1> DEFINE new == [state |-> "open", for |-> i, by |-> OwnerActor(i.h),
                   under |-> {Pair(r) : r \in Owned(rows, i.h)}]
<1>4. new \in Code
  BY <1>1, <1>2, <1>3 DEF Code
<1>5. new.for = i
  OBVIOUS
<1>6. code' = [code EXCEPT ![c] = new] /\ UNCHANGED <<rows, house, step, runtime, resets>>
  BY DEF Issue
<1> HIDE DEF new
<1>7. code' \in [Challenge -> Code]
  BY <1>4, <1>6 DEF IInv, Types
<1>8. CodeOK'
  BY <1>1, <1>5, <1>6 DEF CodeOK, IInv, Types
<1>9. QED
  BY <1>6, <1>7, <1>8, CodeStepKeeps

LEMMA ExpireKeeps ==
  ASSUME IInv, NEW c \in Challenge, Expire(c)
  PROVE  IInv'
<1>1. code[c] \in Code /\ code \in [Challenge -> Code]
  BY DEF IInv, Types
<1>2. code' = [code EXCEPT ![c] = [code[c] EXCEPT !.state = "dropped"]]
  BY DEF Expire
<1>3. [code[c] EXCEPT !.state = "dropped"] \in Code
  BY <1>1 DEF Code
<1>4. [code[c] EXCEPT !.state = "dropped"].state = "dropped"
  BY <1>1 DEF Code
<1>5. code' \in [Challenge -> Code] /\ CodeOK'
  BY <1>1, <1>2, <1>3, <1>4 DEF CodeOK, IInv
<1>6. QED
  BY <1>5, CodeStepKeeps DEF Expire

LEMMA RedeemKeeps ==
  ASSUME IInv, NEW c \in Challenge, Redeem(c)
  PROVE  IInv'
<1> DEFINE i == code[c].for
           cs == [code EXCEPT ![c].state = "consumed"]
<1>1. code[c] \in Code /\ code \in [Challenge -> Code]
  BY DEF IInv, Types
<1>2. i \in Invite
  BY DEF Redeem, IInv, CodeOK
<1>3. i.h \in Household /\ step[i.h] \in Owner /\ step[i.h].h = i.h
  <2>1. flow[i.h] = "complete"
    BY DEF Redeem, Settled
  <2>2. i.h \in Household
    BY <1>2 DEF Invite
  <2>3. QED
    BY <2>1, <2>2 DEF IInv, StepOK
<1>4. PICK R \in Answered(i) : Planned(i.h, step[i.h], R, cs)
  BY DEF Redeem
<1>5. rows \subseteq Row
  BY DEF IInv, Types
<1>6. R \in SUBSET Row /\ \A r \in R : r \in rows \/ (r.h = i.h /\ ~r.pub)
  BY <1>2, <1>5, AnsweredGrown
<1>7. cs = [code EXCEPT ![c] = [code[c] EXCEPT !.state = "consumed"]]
  OBVIOUS
<1>8. [code[c] EXCEPT !.state = "consumed"] \in Code
      /\ [code[c] EXCEPT !.state = "consumed"].state = "consumed"
  BY <1>1 DEF Code
<1> HIDE DEF cs
<1>9. cs \in [Challenge -> Code]
      /\ \A d \in Challenge : cs[d].state = "open" => cs[d].for \in Invite
  BY <1>1, <1>7, <1>8 DEF IInv, CodeOK
<1>10. UNCHANGED <<flow, step>>
  BY DEF Redeem
<1> HIDE DEF i
<1>11. QED
  BY <1>3, <1>4, <1>6, <1>9, <1>10, PlannedKeeps

LEMMA RollKeeps ==
  ASSUME IInv, NEW h \in Household, Roll(h)
  PROVE  IInv'
<1>1. step[h] \in Owner /\ step[h].h = h
  BY DEF Roll, Settled, IInv, StepOK
<1>2. rows \in SUBSET Row /\ code \in [Challenge -> Code]
  BY DEF IInv, Types
<1>3. \A c \in Challenge : code[c].state = "open" => code[c].for \in Invite
  BY DEF IInv, CodeOK
<1>4. Planned(h, step[h], rows, code) /\ UNCHANGED <<flow, step>>
  BY DEF Roll
<1>5. QED
  BY <1>1, <1>2, <1>3, <1>4, PlannedKeeps

LEMMA VerifyKeeps ==
  ASSUME IInv, NEW o \in Moves, VerifyChannel(o)
  PROVE  IInv'
<1>1. o \in Owner /\ o.h \in Household
  BY BindingsAssumption DEF Owner
<1>2. rows \in SUBSET Row /\ code \in [Challenge -> Code]
  BY DEF IInv, Types
<1>3. \A c \in Challenge : code[c].state = "open" => code[c].for \in Invite
  BY DEF IInv, CodeOK
<1>4. Planned(o.h, o, rows, code) /\ step' = [step EXCEPT ![o.h] = o] /\ UNCHANGED flow
  BY DEF VerifyChannel
<1>5. QED
  BY <1>1, <1>2, <1>3, <1>4, PlannedKeeps

LEMMA ResetKeeps ==
  ASSUME IInv, NEW h \in Household, Reset(h)
  PROVE  IInv'
<1> USE DEF IInv, Reset
<1>1. Types' /\ CodeOK'
  BY DEF Types, CodeOK
<1>2. ASSUME NEW g \in Household PROVE StepOK(g)' /\ PlanOK(g)' /\ LateOK(g)'
  <2>1. /\ step'[g] = step[g] /\ plan'[g] = plan[g]
        /\ flow'[g] = "complete" => flow[g] = "complete"
        /\ job'[g] # "none" => job[g] # "none"
        /\ late'[g] \subseteq late[g]
    BY DEF Types
  <2>2. QED
    BY <2>1 DEF StepOK, PlanOK, LateOK, Of, Pair
<1>3. ServedOK'
  BY DEF ServedOK, Pair
<1>4. QED
  BY <1>1, <1>2, <1>3

LEMMA TouchKeeps ==
  ASSUME IInv, NEW h \in Household, Touch(h)
  PROVE  IInv'
<1> USE DEF IInv, Touch
<1>1. Types' /\ CodeOK'
  BY DEF Types, CodeOK
<1>2. ASSUME NEW g \in Household PROVE StepOK(g)' /\ PlanOK(g)' /\ LateOK(g)'
  <2>1. job'[g] # "none" => job[g] # "none"
    BY DEF Types
  <2>2. QED
    BY <2>1 DEF StepOK, PlanOK, LateOK, Of, Pair
<1>3. ServedOK'
  BY DEF ServedOK, Pair
<1>4. QED
  BY <1>1, <1>2, <1>3

LEMMA PublishedRow ==
  ASSUME NEW r \in Row
  PROVE  /\ [r EXCEPT !.pub = TRUE] \in Row
         /\ [r EXCEPT !.pub = TRUE].h = r.h
         /\ Pair([r EXCEPT !.pub = TRUE]) = Pair(r)
BY DEF Row, Pair

\* Every row after an activation is a row from before it, published or not.
LEMMA ActivatedRows ==
  ASSUME NEW h, NEW m, rows \subseteq Row, GoesLive(h, m), NEW t \in rows'
  PROVE  \E r \in rows : /\ t.h = r.h /\ t.chan = r.chan /\ t.id = r.id
                         /\ t.role = r.role /\ Pair(t) = Pair(r)
                         /\ t \in Row
                         /\ (r.h # h => t = r)
                         /\ (r.h = h => t = [r EXCEPT !.pub = TRUE] /\ t.pub)
<1>1. PICK r \in rows : t = IF Publishes(r, h) THEN [r EXCEPT !.pub = TRUE] ELSE r
  BY DEF GoesLive
<1>2. r \in Row
  OBVIOUS
<1>3. CASE r.h = h
  <2>1. t = [r EXCEPT !.pub = TRUE]
    BY <1>1, <1>3 DEF Publishes
  <2>2. t \in Row /\ t.h = r.h /\ Pair(t) = Pair(r)
    BY <1>2, <2>1, PublishedRow
  <2>3. t.chan = r.chan /\ t.id = r.id /\ t.role = r.role /\ t.pub
    BY <1>2, <2>1 DEF Row
  <2>4. QED
    BY <1>3, <2>1, <2>2, <2>3
<1>4. CASE r.h # h
  BY <1>1, <1>2, <1>4 DEF Publishes
<1>5. QED
  BY <1>3, <1>4

\* An activation keeps the invariant when its manifest, with what it is known to
\* publish beyond it, covers the rows of the household.
LEMMA LiveKeeps ==
  ASSUME IInv, NEW h \in Household, NEW m \in SUBSET (Channel \X Id \X Chat),
         NEW x \in SUBSET (Channel \X Id \X Chat), NEW j \in {"none", job[h]},
         GoesLive(h, m), ahead' = [ahead EXCEPT ![h] = x], job' = [job EXCEPT ![h] = j],
         step[h] \in Owner /\ step[h].h = h,
         \A r \in Of(rows, h) : Pair(r) \in m \cup x
  PROVE  IInv'
<1> USE DEF IInv
<1>0. rows \subseteq Row
  BY DEF Types
<1>1. rows' \subseteq Row
  BY <1>0, ActivatedRows
<1>2. /\ served' = [served EXCEPT ![h] = m]
      /\ home' = [home EXCEPT ![h] = "active"]
      /\ flow' = [flow EXCEPT ![h] = "complete"]
      /\ late' = [late EXCEPT ![h] = {}]
      /\ UNCHANGED <<code, step, plan, resets>>
  BY DEF GoesLive
<1>3. Types' /\ CodeOK'
  <2>1. late' \in [Household -> SUBSET SUBSET (Channel \X Id \X Chat)]
    BY <1>2 DEF Types
  <2>2. served' \in [Household -> SUBSET (Channel \X Id \X Chat)]
    BY <1>2 DEF Types
  <2>3. ahead' \in [Household -> SUBSET (Channel \X Id \X Chat)]
    BY DEF Types
  <2>4. /\ home' \in [Household -> {"onboarding", "provisioning", "active"}]
        /\ flow' \in [Household -> {"setup", "complete"}]
        /\ job' \in [Household -> {"none", "queued", "touched"}]
    BY <1>2 DEF Types
  <2>5. QED
    BY <1>1, <1>2, <2>1, <2>2, <2>3, <2>4 DEF Types, CodeOK
<1>4. ASSUME NEW g \in Household PROVE StepOK(g)'
  <2>1. CASE g = h
    BY <1>2, <2>1 DEF StepOK
  <2>2. CASE g # h
    <3>1. /\ step'[g] = step[g] /\ flow'[g] = flow[g] /\ job'[g] = job[g]
          /\ late'[g] = late[g]
      BY <1>2, <2>2 DEF Types
    <3>2. QED
      BY <3>1 DEF StepOK
  <2>3. QED
    BY <2>1, <2>2
<1>5. ASSUME NEW g \in Household PROVE PlanOK(g)'
  <2>1. CASE g = h
    <3>1. plan'[g] = plan[h] /\ job'[g] = j /\ PlanOK(h)
      BY <1>2, <2>1 DEF Types
    <3>2. ASSUME NEW t \in Of(rows', g) PROVE \E r \in Of(rows, h) : Pair(t) = Pair(r)
      BY <1>0, <2>1, ActivatedRows DEF Of
    <3>3. ASSUME j # "none" PROVE \A t \in Of(rows', g) : Pair(t) \in plan[h]
      BY <3>1, <3>2, <3>3 DEF PlanOK
    <3>4. QED
      BY <3>1, <3>3 DEF PlanOK
  <2>2. CASE g # h
    <3>1. job'[g] = job[g] /\ plan'[g] = plan[g]
      BY <1>2, <2>2 DEF Types
    <3>2. Of(rows', g) \subseteq Of(rows, g)
      BY <1>0, <2>2, ActivatedRows DEF Of
    <3>3. QED
      BY <3>1, <3>2 DEF PlanOK
  <2>3. QED
    BY <2>1, <2>2
<1>6. ASSUME NEW g \in Household PROVE LateOK(g)'
  <2>1. CASE g = h
    BY <1>2, <2>1 DEF LateOK, Types
  <2>2. CASE g # h
    <3>1. late'[g] = late[g]
      BY <1>2, <2>2 DEF Types
    <3>2. Of(rows', g) \subseteq Of(rows, g)
      BY <1>0, <2>2, ActivatedRows DEF Of
    <3>3. QED
      BY <3>1, <3>2 DEF LateOK, Pair
  <2>3. QED
    BY <2>1, <2>2
<1>7. ASSUME NEW t \in rows', t.pub PROVE Pair(t) \in served'[t.h] \cup ahead'[t.h]
  <2>1. PICK r \in rows : /\ t.h = r.h /\ Pair(t) = Pair(r) /\ (r.h # h => t = r)
    BY <1>0, ActivatedRows
  <2>2. CASE r.h = h
    <3>1. served'[t.h] = m /\ ahead'[t.h] = x
      BY <1>2, <2>1, <2>2 DEF Types
    <3>2. r \in Of(rows, h)
      BY <2>2 DEF Of
    <3>3. QED
      BY <2>1, <3>1, <3>2
  <2>3. CASE r.h # h
    <3>1. r.h \in Household
      BY <1>0 DEF Row
    <3>2. served'[t.h] = served[r.h] /\ ahead'[t.h] = ahead[r.h]
      BY <1>2, <2>1, <2>3, <3>1 DEF Types
    <3>3. QED
      BY <1>7, <2>1, <2>3, <3>2 DEF ServedOK
  <2>4. QED
    BY <2>2, <2>3
<1>8. ServedOK'
  BY <1>7 DEF ServedOK, Pair
<1>9. QED
  BY <1>3, <1>4, <1>5, <1>6, <1>8

LEMMA ActivateKeeps ==
  ASSUME IInv, NEW h \in Household, Activate(h)
  PROVE  IInv'
<1>1. PICK m, x, j : m = plan[h] /\ x = {} /\ j = "none"
  OBVIOUS
<1>2. m \in SUBSET (Channel \X Id \X Chat)
  BY <1>1 DEF IInv, Types
<1>3. /\ GoesLive(h, m) /\ ahead' = [ahead EXCEPT ![h] = x]
      /\ job' = [job EXCEPT ![h] = j] /\ job[h] = "touched"
  BY <1>1 DEF Activate
<1>4. step[h] \in Owner /\ step[h].h = h
  BY <1>3 DEF IInv, StepOK
<1>5. \A r \in Of(rows, h) : Pair(r) \in m \cup x
  BY <1>1, <1>3 DEF IInv, PlanOK
<1>6. QED
  BY <1>1, <1>2, <1>3, <1>4, <1>5, LiveKeeps

\* The published rows are in the manifest of the one that comes up late; those that
\* were staged are in it, or known to be beyond it.
LEMMA LateKeeps ==
  ASSUME IInv, NEW h \in Household, ActivateLate(h)
  PROVE  IInv'
<1>1. PICK m \in late[h] :
        /\ GoesLive(h, m)
        /\ ahead' = [ahead EXCEPT ![h] = {Pair(r) : r \in {s \in Of(rows, h) : ~s.pub}} \ m]
  BY DEF ActivateLate
<1>2. PICK x, j : x = {Pair(r) : r \in {s \in Of(rows, h) : ~s.pub}} \ m /\ j = job[h]
  OBVIOUS
<1>3. m \in SUBSET (Channel \X Id \X Chat)
  BY DEF IInv, Types
<1>4. x \in SUBSET (Channel \X Id \X Chat)
  BY <1>2 DEF IInv, Types, Of, Pair, Row
<1>5. job' = [job EXCEPT ![h] = j]
  BY <1>2 DEF ActivateLate, IInv, Types
<1>6. step[h] \in Owner /\ step[h].h = h
  BY <1>1 DEF IInv, StepOK
<1>7. ASSUME NEW r \in Of(rows, h) PROVE Pair(r) \in m \cup x
  <2>1. CASE r.pub
    BY <2>1 DEF IInv, LateOK
  <2>2. CASE ~r.pub
    BY <1>2, <2>2
  <2>3. QED
    BY <2>1, <2>2
<1>8. GoesLive(h, m) /\ ahead' = [ahead EXCEPT ![h] = x] /\ j \in {"none", job[h]}
  BY <1>1, <1>2
<1>9. QED
  BY <1>3, <1>4, <1>5, <1>6, <1>7, <1>8, LiveKeeps

LEMMA FailKeeps ==
  ASSUME IInv, NEW h \in Household, Fail(h)
  PROVE  IInv'
<1> USE DEF IInv
<1>1. /\ rows' \subseteq rows /\ job[h] # "none"
      /\ job' = [job EXCEPT ![h] = "none"]
      /\ late' = [late EXCEPT ![h] = IF job[h] = "touched" THEN @ \cup {plan[h]} ELSE @]
      /\ UNCHANGED <<code, flow, step, plan, served, ahead, resets>>
  BY DEF Fail
<1>2. Types' /\ CodeOK'
  <2>1. home' \in [Household -> {"onboarding", "provisioning", "active"}]
    BY DEF Fail, Types
  <2>2. late' \in [Household -> SUBSET SUBSET (Channel \X Id \X Chat)]
    BY <1>1 DEF Types
  <2>3. QED
    BY <1>1, <2>1, <2>2 DEF Types, CodeOK
<1>3. ASSUME NEW g \in Household PROVE StepOK(g)' /\ PlanOK(g)' /\ LateOK(g)'
  <2>1. /\ step'[g] = step[g] /\ plan'[g] = plan[g] /\ flow'[g] = flow[g]
        /\ job'[g] # "none" => job[g] # "none"
        /\ late'[g] = late[g] \/ (late'[g] = late[g] \cup {plan[g]} /\ job[g] # "none")
    BY <1>1 DEF Types
  <2>2. Of(rows', g) \subseteq Of(rows, g)
    BY <1>1 DEF Of
  <2>3. StepOK(g)'
    BY <2>1 DEF StepOK
  <2>4. PlanOK(g)'
    BY <2>1, <2>2 DEF PlanOK
  <2>5. ASSUME NEW m \in late'[g], NEW r \in Of(rows', g), r.pub PROVE Pair(r) \in m
    <3>1. r \in Of(rows, g) /\ PlanOK(g) /\ LateOK(g)
      BY <2>2
    <3>2. CASE m \in late[g]
      BY <2>5, <3>1, <3>2 DEF LateOK
    <3>3. CASE m \notin late[g]
      <4>1. m = plan[g] /\ job[g] # "none"
        BY <2>1, <3>3
      <4>2. QED
        BY <3>1, <4>1 DEF PlanOK
    <3>4. QED
      BY <3>2, <3>3
  <2>6. \A m \in late'[g] : \A r \in Of(rows', g) : r.pub => Pair(r) \in m
    BY <2>5
  <2>a. LateOK(g)'
    BY <2>6 DEF LateOK, Of, Pair
  <2>7. QED
    BY <2>3, <2>4, <2>a
<1>4. ServedOK'
  BY <1>1 DEF ServedOK, Pair
<1>5. QED
  BY <1>2, <1>3, <1>4

-----------------------------------------------------------------------------
(* What every behaviour keeps *)

LEMMA InitInv == Init => IInv
<1> SUFFICES ASSUME Init PROVE IInv
  OBVIOUS
<1> DEFINE founded == {Founder[h] : h \in {g \in Household : Founder[g] # None}}
           shown(o) == {[r EXCEPT !.pub = TRUE] : r \in UNION Issued({}, o)}
<1>1. rows = Legacy \cup UNION {shown(o) : o \in founded}
  BY DEF Init
<1>2. /\ Legacy \subseteq Row /\ Moves \subseteq Owner
      /\ Founder \in [Household -> Moves \cup {None}]
      /\ \A h \in Household : Founder[h] # None => Founder[h].h = h
  BY BindingsAssumption
<1>3. founded \subseteq Owner
  BY <1>2
<1>4. ASSUME NEW o \in founded PROVE shown(o) \subseteq Row
  <2>1. ASSUME NEW r \in UNION Issued({}, o) PROVE r \in Row
    <3>1. PICK S \in Issued({}, o) : r \in S
      BY <2>1
    <3>2. {} \in SUBSET Row /\ o \in Owner
      BY <1>3, <1>4
    <3>3. Grown({}, S, o.h)
      BY <3>1, <3>2, IssuedGrown
    <3>4. QED
      BY <3>1, <3>3 DEF Grown
  <2>2. QED
    BY <2>1, PublishedRow
<1> HIDE DEF founded, shown
<1>5. rows \subseteq Row
  BY <1>1, <1>2, <1>4
<1>6. /\ code = [c \in Challenge |-> Unissued]
      /\ home = [h \in Household |-> IF Founder[h] = None THEN "onboarding" ELSE "active"]
      /\ flow = [h \in Household |-> IF Founder[h] = None THEN "setup" ELSE "complete"]
      /\ step = Founder
      /\ job = [h \in Household |-> "none"]
      /\ plan = [h \in Household |-> Pairs(rows, h)]
      /\ late = [h \in Household |-> {}]
      /\ served = plan /\ ahead = late
  BY DEF Init
<1>7. \A h \in Household : Pairs(rows, h) \in SUBSET (Channel \X Id \X Chat)
  BY <1>5 DEF Pairs, Of, Pair, Row
<1>8. plan \in [Household -> SUBSET (Channel \X Id \X Chat)]
  BY <1>6, <1>7
<1>9. code \in [Challenge -> Code] /\ CodeOK
  BY <1>6 DEF Code, Unissued, CodeOK
<1>10. step \in [Household -> Owner \cup {None}]
  BY <1>2, <1>6
<1>11. Types
  BY <1>5, <1>6, <1>8, <1>9, <1>10 DEF Types
<1>12. ASSUME NEW h \in Household PROVE StepOK(h) /\ PlanOK(h) /\ LateOK(h)
  <2>1. StepOK(h)
    BY <1>2, <1>6 DEF StepOK
  <2>2. PlanOK(h) /\ LateOK(h)
    BY <1>6 DEF PlanOK, LateOK
  <2>3. QED
    BY <2>1, <2>2
<1>13. ServedOK
  <2>1. ASSUME NEW r \in rows PROVE Pair(r) \in served[r.h]
    <3>1. r.h \in Household
      BY <1>5 DEF Row
    <3>2. served[r.h] = Pairs(rows, r.h)
      BY <1>6, <3>1
    <3>3. QED
      BY <3>2 DEF Pairs, Of
  <2>2. QED
    BY <2>1 DEF ServedOK
<1>14. QED
  BY <1>9, <1>11, <1>12, <1>13 DEF IInv

LEMMA StepInv == IInv /\ [Next]_vars => IInv'
<1> SUFFICES ASSUME IInv, [Next]_vars PROVE IInv'
  OBVIOUS
<1>1. ASSUME NEW c \in Challenge, Expire(c) PROVE IInv'
  BY <1>1, ExpireKeeps
<1>2. ASSUME NEW c \in Challenge, Redeem(c) PROVE IInv'
  BY <1>2, RedeemKeeps
<1>3. ASSUME NEW c \in Challenge, NEW i \in Invites, Issue(c, i) PROVE IInv'
  BY <1>3, IssueKeeps
<1>4. ASSUME NEW h \in Household, Touch(h) PROVE IInv'
  BY <1>4, TouchKeeps
<1>5. ASSUME NEW h \in Household, Activate(h) PROVE IInv'
  BY <1>5, ActivateKeeps
<1>6. ASSUME NEW h \in Household, Fail(h) PROVE IInv'
  BY <1>6, FailKeeps
<1>12. ASSUME NEW h \in Household, ActivateLate(h) PROVE IInv'
  BY <1>12, LateKeeps
<1>7. ASSUME NEW h \in Household, Reset(h) PROVE IInv'
  BY <1>7, ResetKeeps
<1>8. ASSUME NEW h \in Household, Roll(h) PROVE IInv'
  BY <1>8, RollKeeps
<1>9. ASSUME NEW o \in Moves, VerifyChannel(o) PROVE IInv'
  BY <1>9, VerifyKeeps
<1>10. CASE UNCHANGED vars
  BY <1>10, CodeStepKeeps DEF IInv, Types, CodeOK
<1>11. QED
  BY <1>1, <1>2, <1>3, <1>4, <1>5, <1>6, <1>7, <1>8, <1>9, <1>10, <1>12
  DEF Next, Codes, Rollouts, People

LEMMA Invariance == Spec => []IInv
BY InitInv, StepInv, PTL DEF Spec

\* The gateway and the web chat route only what the manifest that was last
\* activated authorizes (resolve_sender, routable_web_seat; BootstrapService.activate):
\* whatever rows an older version left, and whatever is planned, reset or failed
\* between two activations, but for what was staged when a rollout that had failed
\* came up; and that is authorized by the next activation of its own rollout.
THEOREM RoutableMeansAuthorized == Spec => []RoutableIsAuthorized
<1>1. IInv => RoutableIsAuthorized
  BY DEF IInv, ServedOK, RoutableIsAuthorized, Routable
<1>2. QED
  BY <1>1, Invariance, PTL

-----------------------------------------------------------------------------
(* One holder *)

LEMMA OneHolderParts == OneHolder <=> Single(rows) /\ Awaited(rows, home)
BY DEF OneHolder, Single, Awaited

\* A plan keeps the senders apart; the members it adds wait in a household that
\* is not active.
LEMMA PlannedHolder ==
  ASSUME IInv, NEW h \in Household, NEW o \in Owner, o.h = h,
         NEW R \in SUBSET Row, NEW cs, Planned(h, o, R, cs),
         \A r \in R : r \in rows \/ (r.h = h /\ ~r.pub),
         Single(rows) => Single(R), OneHolder
  PROVE  OneHolder'
<1>1. Grown(R, rows', h) /\ (Single(R) => Single(rows'))
  BY IssuedGrown DEF Planned
<1>2. Single(rows')
  BY <1>1, OneHolderParts
<1>3. \A r \in rows' : r \in Row /\ (r \in rows \/ r.h = h)
  BY <1>1 DEF Grown
<1>4. home' = [home EXCEPT ![h] = "provisioning"] /\ DOMAIN home = Household
  BY DEF Planned, IInv, Types
<1>5. ASSUME NEW r \in rows', r.role = "adult", ~r.pub PROVE home'[r.h] # "active"
  <2>1. r.h \in Household
    BY <1>3 DEF Row
  <2>2. CASE r.h = h
    BY <1>4, <2>2
  <2>3. CASE r.h # h
    <3>1. r \in rows /\ home'[r.h] = home[r.h]
      BY <1>3, <1>4, <2>1, <2>3
    <3>2. QED
      BY <1>5, <3>1, OneHolderParts DEF Awaited
  <2>4. QED
    BY <2>2, <2>3
<1>6. QED
  BY <1>2, <1>5 DEF OneHolder, Single

\* An activation publishes rows where they are.
LEMMA LiveHolder ==
  ASSUME IInv, OneHolder, NEW h \in Household, NEW m, GoesLive(h, m)
  PROVE  OneHolder'
<1>a. rows \in SUBSET Row /\ home \in [Household -> {"onboarding", "provisioning", "active"}]
  BY DEF IInv, Types
<1>1. ASSUME NEW t \in rows'
      PROVE  \E r \in rows : /\ t.h = r.h /\ t.chan = r.chan /\ t.id = r.id
                             /\ t.role = r.role
                             /\ (r.h # h => t = r)
                             /\ (r.h = h => t = [r EXCEPT !.pub = TRUE] /\ t.pub)
  BY <1>a, ActivatedRows
<1>2. Single(rows')
  <2>1. SUFFICES ASSUME NEW t \in rows', NEW u \in rows',
                        t.chan = "gateway", u.chan = "gateway", t.id = u.id
                 PROVE  t = u
    BY DEF Single
  <2>2. PICK r \in rows : /\ t.chan = r.chan /\ t.id = r.id
                         /\ (r.h # h => t = r)
                         /\ (r.h = h => t = [r EXCEPT !.pub = TRUE])
    BY <1>1
  <2>3. PICK q \in rows : /\ u.chan = q.chan /\ u.id = q.id
                         /\ (q.h # h => u = q)
                         /\ (q.h = h => u = [q EXCEPT !.pub = TRUE])
    BY <1>1
  <2>4. Single(rows)
    BY OneHolderParts
  <2>5. r = q
    BY <2>1, <2>2, <2>3, <2>4 DEF Single
  <2>6. QED
    BY <2>2, <2>3, <2>5
<1>3. ASSUME NEW t \in rows', t.role = "adult", ~t.pub PROVE home'[t.h] # "active"
  <2>1. t \in rows /\ t.h # h
    BY <1>1, <1>3
  <2>2. home'[t.h] = home[t.h]
    BY <1>a, <2>1 DEF GoesLive, Row
  <2>3. QED
    BY <1>3, <2>1, <2>2, OneHolderParts DEF Awaited
<1>4. QED
  BY <1>2, <1>3 DEF OneHolder, Single

LEMMA StepHolder == IInv /\ OneHolder /\ [Next]_vars => OneHolder'
<1> SUFFICES ASSUME IInv, OneHolder, [Next]_vars PROVE OneHolder'
  OBVIOUS
<1>0. /\ rows \in SUBSET Row /\ home \in [Household -> {"onboarding", "provisioning", "active"}]
      /\ \A h \in Household : StepOK(h)
  BY DEF IInv, Types
<1>a. ASSUME UNCHANGED <<rows, home>> PROVE OneHolder'
  BY <1>a DEF OneHolder
<1>1. ASSUME NEW c \in Challenge, Expire(c) PROVE OneHolder'
  BY <1>1, <1>a DEF Expire, house
<1>2. ASSUME NEW c \in Challenge, Redeem(c) PROVE OneHolder'
  <2> DEFINE i == code[c].for
             cs == [code EXCEPT ![c].state = "consumed"]
  <2>1. i \in Invite
    BY <1>2 DEF Redeem, IInv, CodeOK
  <2>2. i.h \in Household /\ step[i.h] \in Owner /\ step[i.h].h = i.h
    BY <1>0, <1>2, <2>1 DEF Redeem, Settled, StepOK, Invite
  <2>3. PICK R \in Answered(i) : Planned(i.h, step[i.h], R, cs)
    BY <1>2 DEF Redeem
  <2>4. /\ R \in SUBSET Row
        /\ \A r \in R : r \in rows \/ (r.h = i.h /\ ~r.pub)
        /\ Single(rows) => Single(R)
    BY <1>0, <2>1, AnsweredGrown
  <2> HIDE DEF i, cs
  <2>5. QED
    BY <2>2, <2>3, <2>4, PlannedHolder
<1>3. ASSUME NEW c \in Challenge, NEW i \in Invites, Issue(c, i) PROVE OneHolder'
  BY <1>3, <1>a DEF Issue, house
<1>4. ASSUME NEW h \in Household, Touch(h) PROVE OneHolder'
  BY <1>4, <1>a DEF Touch
<1>5. ASSUME NEW h \in Household, Activate(h) PROVE OneHolder'
  BY <1>5, LiveHolder DEF Activate
<1>12. ASSUME NEW h \in Household, ActivateLate(h) PROVE OneHolder'
  BY <1>12, LiveHolder DEF ActivateLate
<1>6. ASSUME NEW h \in Household, Fail(h) PROVE OneHolder'
  <2>1. rows' = rows \ StagedMembers(h)
    BY <1>6 DEF Fail
  <2>2. Single(rows')
    BY <2>1, OneHolderParts DEF Single
  <2>3. ASSUME NEW r \in rows', r.role = "adult", ~r.pub PROVE home'[r.h] # "active"
    <3>1. r \in rows /\ r.h # h /\ r.h \in Household
      BY <1>0, <2>1, <2>3 DEF StagedMembers, Row
    <3>2. home'[r.h] = home[r.h]
      BY <1>0, <1>6, <3>1 DEF Fail
    <3>3. QED
      BY <2>3, <3>1, <3>2, OneHolderParts DEF Awaited
  <2>4. QED
    BY <2>2, <2>3 DEF OneHolder, Single
<1>7. ASSUME NEW h \in Household, Reset(h) PROVE OneHolder'
  <2>1. rows' = rows /\ home' = [home EXCEPT ![h] = "onboarding"]
    BY <1>7 DEF Reset
  <2>2. QED
    BY <1>0, <2>1 DEF OneHolder, Row
<1>8. ASSUME NEW h \in Household, Roll(h) PROVE OneHolder'
  <2>1. step[h] \in Owner /\ step[h].h = h /\ Planned(h, step[h], rows, code)
    BY <1>0, <1>8 DEF Roll, Settled, StepOK
  <2>2. QED
    BY <1>0, <2>1, PlannedHolder
<1>9. ASSUME NEW o \in Moves, VerifyChannel(o) PROVE OneHolder'
  <2>1. o \in Owner /\ o.h \in Household /\ Planned(o.h, o, rows, code)
    BY <1>9, BindingsAssumption DEF VerifyChannel, Owner
  <2>2. QED
    BY <1>0, <2>1, PlannedHolder
<1>10. CASE UNCHANGED vars
  BY <1>10, <1>a
<1>11. QED
  BY <1>1, <1>2, <1>3, <1>4, <1>5, <1>6, <1>7, <1>8, <1>9, <1>10, <1>12
  DEF Next, Codes, Rollouts, People

\* A table whose senders are on one row each stays one: no answer, move, rollout,
\* failure or reset makes a second holder (_holders, _reject_foreign_holder,
\* _insert), and no member is left staged in a household nothing rolls out
\* (retire_staged_members).  Of a table an older version left otherwise, nothing
\* is said.
THEOREM OneHolderStays == Spec /\ OneHolder => []OneHolder
<1>1. IInv /\ OneHolder /\ [Next]_vars => OneHolder'
  BY StepHolder
<1>2. QED
  BY <1>1, Invariance, PTL DEF Spec

-----------------------------------------------------------------------------
(* Owners and the codes they issue *)

Spots(R, h) == {Pair(r) : r \in Owned(R, h)}

\* An owner sits at one web seat, under the sender of the primary channel.
Arranged(R, h) ==
  /\ \A r, s \in Owned(R, h) : r.chan = "web" /\ s.chan = "web" => r = s
  /\ \A r \in Owned(R, h) : r.chan = "gateway" =>
       \E s \in Owned(R, h) : s.chan = "web" /\ s.id = r.id

\* A household with an owner has the owner its step was verified for.
Held(h) == Owned(rows, h) # {} => step[h] \in Owner /\ step[h].h = h /\ Unmoved(rows, step[h])

\* An open code was issued under the arrangement that still stands.
UnderOK(c) == code[c].state = "open" => code[c].under = Spots(rows, code[c].for.h)

Orderly ==
  /\ \A h \in Household : Arranged(rows, h) /\ Held(h)
  /\ \A c \in Challenge : UnderOK(c)

LEMMA UnmovedOwned ==
  ASSUME NEW R, NEW o
  PROVE  Unmoved(R, o) <=>
           \E r \in Owned(R, o.h) : r.chan = o.chan /\ SameOwner(r, o, PrimaryAccount(o))
BY DEF Unmoved, Holders, Owned, SameOwner

LEMMA SameOwners ==
  ASSUME NEW R, NEW S, NEW h, Owned(S, h) = Owned(R, h)
  PROVE  /\ Arranged(S, h) <=> Arranged(R, h)
         /\ Spots(S, h) = Spots(R, h)
         /\ \A o \in Owner : o.h = h => (Unmoved(S, o) <=> Unmoved(R, o))
BY UnmovedOwned DEF Arranged, Spots

LEMMA OwnerRowFields ==
  ASSUME NEW o, NEW chan, NEW chat, NEW acct
  PROVE  /\ OwnerRow(o, chan, chat, acct).h = o.h
         /\ OwnerRow(o, chan, chat, acct).chan = chan
         /\ OwnerRow(o, chan, chat, acct).id = o.id
         /\ ~OwnerRow(o, chan, chat, acct).bare
         /\ OwnerRow(o, chan, chat, acct).chat = chat
         /\ OwnerRow(o, chan, chat, acct).role = "owner"
         /\ OwnerRow(o, chan, chat, acct).acct = acct
BY DEF OwnerRow

\* The table after the owner's state has moved.
Primary(o) == OwnerRow(o, o.chan, o.chat, PrimaryAccount(o))
WebSeat(o) == OwnerRow(o, "web", Seat(o.id), o.acct)
Seats(o) == IF o.chan = "web" THEN {} ELSE {WebSeat(o)}
Fresh(R, o) == Retired(R, o.h) \cup {Primary(o)} \cup Seats(o)

LEMMA RetiredRows ==
  ASSUME NEW R, NEW h
  PROVE  /\ Retired(R, h) \subseteq R
         /\ Owned(Retired(R, h), h) = {}
         /\ \A r \in R : r.h # h => r \in Retired(R, h)
         /\ \A r \in Retired(R, h), s \in Owned(R, h) :
              r.h = h => ~(r.chan = s.chan /\ r.chat = s.chat)
BY DEF Retired, Owned

LEMMA IssuedMoved ==
  ASSUME NEW o \in Owner, NEW R, NEW S \in Issued(R, o), ~Unmoved(R, o)
  PROVE  S = Fresh(R, o)
<1>1. PICK P \in PrimaryEnsured(R, o) :
        S \in IF o.chan = "web" THEN {P} ELSE SeatEnsured(P, o)
  BY DEF Issued
<1>2. P \in Inserted(Retired(R, o.h), Primary(o))
  BY DEF PrimaryEnsured, Primary
<1>3. P = Retired(R, o.h) \cup {Primary(o)}
  BY <1>2, InsertedRow
<1>4. CASE o.chan = "web"
  BY <1>1, <1>3, <1>4 DEF Fresh, Seats
<1>5. CASE o.chan # "web"
  <2>1. Primary(o).chan # "web"
    BY <1>5, OwnerRowFields DEF Primary
  <2>2. {r \in Owned(P, o.h) : r.chan = "web"} = {}
    BY <1>3, <2>1, RetiredRows DEF Owned
  <2>3. S \in Inserted(P, WebSeat(o))
    <3>1. S \in SeatEnsured(P, o)
      BY <1>1, <1>5
    <3>2. P \ {} = P
      OBVIOUS
    <3>3. QED
      BY <2>2, <3>1, <3>2 DEF SeatEnsured, WebSeat
  <2>4. S = P \cup {WebSeat(o)}
    BY <2>3, InsertedRow
  <2>5. QED
    BY <1>3, <1>5, <2>4 DEF Fresh, Seats
<1>6. QED
  BY <1>4, <1>5

LEMMA FreshOwners ==
  ASSUME NEW o \in Owner, NEW R
  PROVE  /\ Owned(Fresh(R, o), o.h) = {Primary(o)} \cup Seats(o)
         /\ Arranged(Fresh(R, o), o.h) /\ Unmoved(Fresh(R, o), o)
         /\ \A r \in Owned(R, o.h), s \in Of(Fresh(R, o), o.h) :
              s.chan = r.chan /\ s.chat = r.chat => s.role = "owner"
         /\ \A g \in Household : g # o.h => Of(Fresh(R, o), g) = Of(R, g)
<1>1. /\ Primary(o).h = o.h /\ Primary(o).role = "owner" /\ Primary(o).chan = o.chan
      /\ Primary(o).id = o.id /\ SameOwner(Primary(o), o, PrimaryAccount(o))
  BY OwnerRowFields DEF Primary, SameOwner
<1>2. /\ WebSeat(o).h = o.h /\ WebSeat(o).role = "owner" /\ WebSeat(o).chan = "web"
      /\ WebSeat(o).id = o.id
  BY OwnerRowFields DEF WebSeat
<1>3. o.chan \in {"gateway", "web"}
  BY DEF Owner, Channel
<1>4. \A s \in Seats(o) : s = WebSeat(o)
  BY DEF Seats
<1>5. Owned(Fresh(R, o), o.h) = {Primary(o)} \cup Seats(o)
  BY <1>1, <1>2, <1>4, RetiredRows DEF Fresh, Owned
<1>6. Arranged(Fresh(R, o), o.h)
  <2>1. CASE o.chan = "web"
    BY <1>1, <1>5, <2>1 DEF Arranged, Seats
  <2>2. CASE o.chan = "gateway"
    BY <1>1, <1>2, <1>5, <2>2 DEF Arranged, Seats
  <2>3. QED
    BY <1>3, <2>1, <2>2
<1>7. Unmoved(Fresh(R, o), o)
  BY <1>1, <1>5, UnmovedOwned
<1>8. ASSUME NEW r \in Owned(R, o.h), NEW s \in Of(Fresh(R, o), o.h),
             s.chan = r.chan, s.chat = r.chat
      PROVE  s.role = "owner"
  <2>1. s \in Retired(R, o.h) \/ s \in {Primary(o)} \cup Seats(o)
    BY DEF Of, Fresh
  <2>2. s \notin Retired(R, o.h)
    BY <1>8, RetiredRows DEF Of
  <2>3. QED
    BY <1>1, <1>2, <1>4, <2>1, <2>2
<1>9. ASSUME NEW g \in Household, g # o.h PROVE Of(Fresh(R, o), g) = Of(R, g)
  BY <1>1, <1>2, <1>4, <1>9, RetiredRows DEF Fresh, Of
<1>10. QED
  BY <1>5, <1>6, <1>7, <1>8, <1>9

\* A plan for the owner state the table already has leaves the owner's places.
LEMMA IssuedUnmoved ==
  ASSUME NEW o \in Owner, NEW R, NEW S \in Issued(R, o), Unmoved(R, o), Arranged(R, o.h)
  PROVE  /\ Arranged(S, o.h) /\ Unmoved(S, o)
         /\ Spots(S, o.h) = Spots(R, o.h) /\ Pairs(R, o.h) \subseteq Pairs(S, o.h)
         /\ \A g \in Household : g # o.h => Of(S, g) = Of(R, g)
<1>1. S \in IF o.chan = "web" THEN {R} ELSE SeatEnsured(R, o)
  BY DEF Issued, PrimaryEnsured
<1>2. CASE S = R
  BY <1>2
<1>3. CASE S # R
  <2> DEFINE seats == {r \in Owned(R, o.h) : r.chan = "web"}
             room == IF seats = {} THEN Seat(o.id) ELSE (CHOOSE r \in seats : TRUE).chat
  <2>1. o.chan = "gateway" /\ S \in SeatEnsured(R, o)
    BY <1>1, <1>3 DEF Owner, Channel
  <2>2. PICK p \in Owned(R, o.h) : p.chan = "gateway" /\ SameOwner(p, o, PrimaryAccount(o))
    BY <2>1, UnmovedOwned
  <2>3. PICK w \in Owned(R, o.h) : w.chan = "web" /\ w.id = o.id
    BY <2>2 DEF Arranged, SameOwner
  <2>4. seats = {w}
    BY <2>3 DEF Arranged
  <2>5. room = w.chat
    BY <2>4
  <2>6. S \in Inserted(R \ seats, OwnerRow(o, "web", room, o.acct))
    BY <1>3, <2>1 DEF SeatEnsured
  <2> HIDE DEF seats, room
  <2>7. PICK v : v = OwnerRow(o, "web", w.chat, o.acct)
    OBVIOUS
  <2>8. S = (R \ {w}) \cup {v}
    BY <2>4, <2>5, <2>6, <2>7, InsertedRow
  <2>9. v.h = o.h /\ v.role = "owner" /\ v.chan = "web" /\ v.id = o.id /\ v.chat = w.chat
    BY <2>7, OwnerRowFields
  <2>10. Pair(v) = Pair(w) /\ w.h = o.h /\ w \in R
    BY <2>3, <2>9 DEF Pair, Owned
  <2>11. Owned(S, o.h) = (Owned(R, o.h) \ {w}) \cup {v}
    BY <2>8, <2>9 DEF Owned
  <2>12. Of(S, o.h) = (Of(R, o.h) \ {w}) \cup {v} /\ w \in Of(R, o.h)
    BY <2>8, <2>9, <2>10 DEF Of
  <2>13. Arranged(S, o.h)
    <3>1. \A r \in Owned(R, o.h) \ {w} : r.chan # "web"
      BY <2>3 DEF Arranged
    <3>2. \A r \in Owned(R, o.h) : r.chan = "gateway" => r.id = o.id
      BY <2>3 DEF Arranged
    <3>3. QED
      BY <2>9, <2>11, <3>1, <3>2 DEF Arranged
  <2>14. Unmoved(S, o)
    BY <2>1, <2>2, <2>3, <2>11, UnmovedOwned
  <2>15. Spots(S, o.h) = Spots(R, o.h)
    BY <2>3, <2>10, <2>11 DEF Spots
  <2>16. Pairs(R, o.h) \subseteq Pairs(S, o.h)
    BY <2>10, <2>12 DEF Pairs
  <2>17. \A g \in Household : g # o.h => Of(S, g) = Of(R, g)
    BY <2>8, <2>9, <2>10 DEF Of
  <2>18. QED
    BY <2>13, <2>14, <2>15, <2>16, <2>17
<1>4. QED
  BY <1>2, <1>3

LEMMA OwnedOf == \A R, S, g : Of(S, g) = Of(R, g) => Owned(S, g) = Owned(R, g)
BY DEF Of, Owned

\* Publishing rows leaves everything the owners are looked up by.
Published(S, h) == {IF r.h = h THEN [r EXCEPT !.pub = TRUE] ELSE r : r \in S}

LEMMA PublishedOwners ==
  ASSUME NEW S \in SUBSET Row, NEW h, NEW g
  PROVE  /\ Arranged(S, g) => Arranged(Published(S, h), g)
         /\ Spots(Published(S, h), g) = Spots(S, g)
         /\ \A o : o.h = g /\ Unmoved(S, o) => Unmoved(Published(S, h), o)
         /\ Owned(S, g) = {} => Owned(Published(S, h), g) = {}
<1> DEFINE Shown(r) == IF r.h = h THEN [r EXCEPT !.pub = TRUE] ELSE r
<1>1. ASSUME NEW r \in S
      PROVE  /\ Shown(r).h = r.h /\ Shown(r).chan = r.chan /\ Shown(r).id = r.id
             /\ Shown(r).bare = r.bare /\ Shown(r).chat = r.chat /\ Shown(r).role = r.role
             /\ Shown(r).acct = r.acct
  <2>1. r \in Row
    OBVIOUS
  <2>2. QED
    BY <2>1 DEF Row
<1>2. Published(S, h) = {Shown(r) : r \in S}
  BY DEF Published
<1> HIDE DEF Shown
<1>3. Owned(Published(S, h), g) = {Shown(r) : r \in Owned(S, g)}
  BY <1>1, <1>2 DEF Owned
<1>4. \A r \in Owned(S, g) : r \in S
  BY DEF Owned
<1>5. ASSUME Arranged(S, g) PROVE Arranged(Published(S, h), g)
  BY <1>1, <1>3, <1>4, <1>5 DEF Arranged
<1>6. Spots(Published(S, h), g) = Spots(S, g)
  BY <1>1, <1>3, <1>4 DEF Spots, Pair
<1>7. ASSUME NEW o, o.h = g, Unmoved(S, o) PROVE Unmoved(Published(S, h), o)
  <2>1. PICK r \in Owned(S, g) : r.chan = o.chan /\ SameOwner(r, o, PrimaryAccount(o))
    BY <1>7, UnmovedOwned
  <2>2. Shown(r) \in Owned(Published(S, h), g) /\ Shown(r).chan = o.chan
        /\ SameOwner(Shown(r), o, PrimaryAccount(o))
    BY <1>1, <1>3, <1>4, <2>1 DEF SameOwner
  <2>3. QED
    BY <1>7, <2>2, UnmovedOwned
<1>8. QED
  BY <1>3, <1>5, <1>6, <1>7

-----------------------------------------------------------------------------
(* The steps keep the owners' arrangement *)

\* verify_challenge adds no owner, and answers with the invited pair.
LEMMA AnsweredOwners ==
  ASSUME NEW i \in Invite, NEW R \in Answered(i)
  PROVE  /\ \A g \in Household : Owned(R, g) = Owned(rows, g)
         /\ \A g \in Household : g # i.h => Of(R, g) = Of(rows, g)
         /\ Pair(i) \in Pairs(R, i.h)
<1> DEFINE row == [h |-> i.h, chan |-> i.chan, id |-> i.id, bare |-> FALSE, chat |-> i.chat,
                   role |-> "adult", acct |-> i.acct, pub |-> FALSE]
<1>1. CASE Holders(rows, i.chan, i.id) # {}
  <2>1. /\ R = rows /\ ~Foreign(rows, i.h, i.chan, i.id)
        /\ \E r \in Holders(rows, i.chan, i.id) : r.chat = i.chat
    BY <1>1 DEF Answered
  <2>2. PICK r \in rows : r.h = i.h /\ r.chan = i.chan /\ r.id = i.id /\ r.chat = i.chat
    BY <2>1 DEF Foreign, Holders
  <2>3. QED
    BY <2>1, <2>2 DEF Pairs, Of, Pair
<1>2. CASE Holders(rows, i.chan, i.id) = {}
  <2>1. R \in Inserted(rows, row)
    BY <1>2 DEF Answered
  <2>2. R = rows \cup {row}
    BY <2>1, InsertedRow
  <2>3. row.role = "adult" /\ row.h = i.h /\ Pair(row) = Pair(i)
    BY DEF Pair
  <2> HIDE DEF row
  <2>4. QED
    BY <2>2, <2>3 DEF Owned, Of, Pairs
<1>3. QED
  BY <1>1, <1>2

\* The codes a plan leaves open were open before it.
LEMMA PlannedOrderly ==
  ASSUME IInv, Orderly, NEW h \in Household, NEW o \in Owner, o.h = h, NEW R, NEW cs,
         \A g \in Household : Owned(R, g) = Owned(rows, g),
         \A c \in Challenge : cs[c].state = "open" => cs[c] = code[c],
         Planned(h, o, R, cs), step' = [step EXCEPT ![h] = o]
  PROVE  Orderly'
<1>0. /\ step \in [Household -> Owner \cup {None}]
      /\ \A c \in Challenge : code[c].state = "open" => code[c].for.h \in Household
  BY DEF IInv, Types, CodeOK, Invite
<1>1. PICK S \in Issued(R, o) : rows' = S
  BY DEF Planned
<1>2. Arranged(R, h) /\ (\A g \in Household : Arranged(rows, g) /\ Held(g))
  BY SameOwners DEF Orderly
<1>3. /\ Arranged(S, h) /\ Unmoved(S, o)
      /\ Unmoved(R, o) => Spots(S, h) = Spots(R, h)
      /\ \A g \in Household : g # h => Of(S, g) = Of(R, g)
  <2>1. CASE Unmoved(R, o)
    BY <1>2, <2>1, IssuedUnmoved
  <2>2. CASE ~Unmoved(R, o)
    BY <2>2, IssuedMoved, FreshOwners
  <2>3. QED
    BY <2>1, <2>2
<1>4. ASSUME NEW g \in Household, g # h PROVE Owned(S, g) = Owned(rows, g)
  BY <1>3, <1>4, OwnedOf
<1>5. ASSUME NEW g \in Household PROVE Arranged(rows, g)' /\ Held(g)'
  <2>1. CASE g = h
    <3>1. step'[g] = o
      BY <1>0, <2>1
    <3>2. Arranged(rows', g) /\ Unmoved(rows', o)
      BY <1>1, <1>3, <2>1
    <3>3. Arranged(rows, g)' /\ Held(g)'
      BY <2>1, <3>1, <3>2 DEF Held, Arranged, Owned, Unmoved, Holders, SameOwner,
                              PrimaryAccount
    <3>4. QED
      BY <3>3
  <2>2. CASE g # h
    <3>1. step'[g] = step[g]
      BY <1>0, <2>2
    <3>2. Owned(S, g) = Owned(rows, g)
      BY <1>4, <2>2
    <3>3. Arranged(S, g) /\ (\A q \in Owner : q.h = g => (Unmoved(S, q) <=> Unmoved(rows, q)))
      BY <1>2, <3>2, SameOwners
    <3>4. Arranged(rows', g) /\ (Owned(rows', g) # {} =>
                                   /\ step'[g] \in Owner /\ step'[g].h = g
                                   /\ Unmoved(rows', step'[g]))
      BY <1>1, <1>2, <3>1, <3>2, <3>3 DEF Held
    <3>5. QED
      BY <3>4 DEF Held, Arranged, Owned, Unmoved, Holders, SameOwner, PrimaryAccount
  <2>3. QED
    BY <2>1, <2>2
<1>6. ASSUME NEW c \in Challenge, code'[c].state = "open"
      PROVE  code'[c].under = Spots(rows', code'[c].for.h)
  <2>1. code' = Dropped(cs, R, o)
    BY DEF Planned
  <2>2. code'[c] = cs[c] /\ (Unmoved(R, o) \/ cs[c].for.h # h)
    <3>1. CASE Unmoved(R, o)
      BY <2>1, <3>1 DEF Dropped
    <3>2. CASE ~Unmoved(R, o) /\ cs[c].state = "open" /\ cs[c].for.h = h
      <4>1. code'[c] = [cs[c] EXCEPT !.state = "dropped"]
        BY <2>1, <3>2 DEF Dropped
      <4>2. cs[c] \in Code
        BY <3>2 DEF IInv, Types
      <4>3. code'[c].state = "dropped"
        BY <4>1, <4>2 DEF Code
      <4>4. QED
        BY <1>6, <4>3
    <3>3. CASE ~Unmoved(R, o) /\ ~(cs[c].state = "open" /\ cs[c].for.h = h)
      <4>1. code'[c] = cs[c]
        BY <2>1, <3>3 DEF Dropped
      <4>2. QED
        BY <1>6, <3>3, <4>1
    <3>4. QED
      BY <3>1, <3>2, <3>3
  <2>3. code'[c] = code[c] /\ code[c].state = "open"
    BY <1>6, <2>2
  <2>4. PICK g \in Household : g = code[c].for.h
    BY <1>0, <2>3
  <2>5. code[c].under = Spots(rows, g)
    BY <2>3, <2>4 DEF Orderly, UnderOK
  <2>6. Spots(S, g) = Spots(rows, g)
    <3>1. CASE g = h
      <4>1. Unmoved(R, o) /\ Spots(R, h) = Spots(rows, h)
        BY <2>2, <2>3, <2>4, <3>1, SameOwners
      <4>2. QED
        BY <1>3, <3>1, <4>1
    <3>2. CASE g # h
      BY <1>4, <3>2, SameOwners
    <3>3. QED
      BY <3>1, <3>2
  <2>7. QED
    BY <1>1, <2>3, <2>4, <2>5, <2>6
<1>7. ASSUME NEW c \in Challenge PROVE UnderOK(c)'
  BY <1>6 DEF UnderOK, Spots, Owned, Pair
<1>8. QED
  BY <1>5, <1>7 DEF Orderly

\* A step that leaves the owners where they are, and the open codes with them.
LEMMA SettledOrderly ==
  ASSUME IInv, Orderly, NEW S, rows' = S, step' = step,
         \A g \in Household :
           /\ Arranged(rows, g) => Arranged(S, g)
           /\ Spots(S, g) = Spots(rows, g)
           /\ \A o \in Owner : o.h = g /\ Unmoved(rows, o) => Unmoved(S, o)
           /\ Owned(rows, g) = {} => Owned(S, g) = {},
         \A c \in Challenge : code'[c].state = "open" =>
           /\ code'[c].for.h \in Household
           /\ code'[c].under = Spots(rows, code'[c].for.h)
  PROVE  Orderly'
<1>1. ASSUME NEW g \in Household PROVE Arranged(rows, g)' /\ Held(g)'
  <2>1. Arranged(rows, g) /\ Held(g)
    BY DEF Orderly
  <2>2. Arranged(S, g)
    BY <2>1
  <2>3. Owned(S, g) # {} => step[g] \in Owner /\ step[g].h = g /\ Unmoved(S, step[g])
    BY <2>1 DEF Held
  <2>4. Arranged(rows', g) /\ (Owned(rows', g) # {} =>
                                 step'[g] \in Owner /\ step'[g].h = g /\ Unmoved(rows', step'[g]))
    BY <2>2, <2>3
  <2>5. QED
    BY <2>4 DEF Held, Arranged, Owned, Unmoved, Holders, SameOwner, PrimaryAccount
<1>2. ASSUME NEW c \in Challenge, code'[c].state = "open"
      PROVE  code'[c].under = Spots(rows', code'[c].for.h)
  <2>1. PICK g \in Household : g = code'[c].for.h
    BY <1>2
  <2>2. code'[c].under = Spots(rows, g)
    BY <1>2, <2>1
  <2>3. QED
    BY <2>1, <2>2
<1>3. ASSUME NEW c \in Challenge PROVE UnderOK(c)'
  BY <1>2 DEF UnderOK, Spots, Owned, Pair
<1>4. QED
  BY <1>1, <1>3 DEF Orderly

LEMMA OpenCodes ==
  ASSUME IInv, Orderly, NEW c \in Challenge, code[c].state = "open"
  PROVE  code[c].for.h \in Household /\ code[c].under = Spots(rows, code[c].for.h)
BY DEF IInv, CodeOK, Invite, Orderly, UnderOK

LEMMA StillOrderly ==
  ASSUME IInv, Orderly, step' = step,
         \A g \in Household : Owned(rows', g) = Owned(rows, g),
         \A c \in Challenge : code'[c].state = "open" =>
           /\ code'[c].for.h \in Household
           /\ code'[c].under = Spots(rows, code'[c].for.h)
  PROVE  Orderly'
<1>1. PICK S : S = rows'
  OBVIOUS
<1>2. ASSUME NEW g \in Household
      PROVE  /\ Arranged(rows, g) => Arranged(S, g)
             /\ Spots(S, g) = Spots(rows, g)
             /\ \A o \in Owner : o.h = g /\ Unmoved(rows, o) => Unmoved(S, o)
             /\ Owned(rows, g) = {} => Owned(S, g) = {}
  <2>1. Owned(S, g) = Owned(rows, g)
    BY <1>1
  <2>2. QED
    BY <2>1, SameOwners
<1>3. QED
  BY <1>1, <1>2, SettledOrderly

LEMMA LiveOrderly ==
  ASSUME IInv, Orderly, NEW h \in Household, NEW m, GoesLive(h, m)
  PROVE  Orderly'
<1>1. rows' = Published(rows, h) /\ step' = step /\ code' = code
  BY DEF GoesLive, Published, Publishes
<1>2. PICK S : S = Published(rows, h)
  OBVIOUS
<1>3. ASSUME NEW g \in Household
      PROVE  /\ Arranged(rows, g) => Arranged(S, g)
             /\ Spots(S, g) = Spots(rows, g)
             /\ \A o \in Owner : o.h = g /\ Unmoved(rows, o) => Unmoved(S, o)
             /\ Owned(rows, g) = {} => Owned(S, g) = {}
  BY <1>2, PublishedOwners DEF IInv, Types
<1>4. QED
  BY <1>1, <1>2, <1>3, OpenCodes, SettledOrderly

LEMMA IssueOrderly ==
  ASSUME IInv, Orderly, NEW c \in Challenge, NEW i \in Invites, Issue(c, i)
  PROVE  Orderly'
<1>1. i.h \in Household
  BY BindingsAssumption DEF Invite
<1> DEFINE new == [state |-> "open", for |-> i, by |-> OwnerActor(i.h),
                   under |-> {Pair(r) : r \in Owned(rows, i.h)}]
<1>2. new.for = i /\ new.under = Spots(rows, i.h)
  BY DEF Spots
<1>3. code' = [code EXCEPT ![c] = new] /\ rows' = rows /\ step' = step
  BY DEF Issue
<1> HIDE DEF new
<1>4. ASSUME NEW d \in Challenge, code'[d].state = "open"
      PROVE  code'[d].for.h \in Household /\ code'[d].under = Spots(rows, code'[d].for.h)
  <2>1. CASE d = c
    <3>1. code'[d] = new
      BY <1>3, <2>1 DEF IInv, Types
    <3>2. QED
      BY <1>1, <1>2, <3>1
  <2>2. CASE d # c
    <3>1. code'[d] = code[d]
      BY <1>3, <2>2 DEF IInv, Types
    <3>2. QED
      BY <1>4, <3>1, OpenCodes
  <2>3. QED
    BY <2>1, <2>2
<1>5. QED
  BY <1>3, <1>4, StillOrderly

LEMMA ExpireOrderly ==
  ASSUME IInv, Orderly, NEW c \in Challenge, Expire(c)
  PROVE  Orderly'
<1>1. code[c] \in Code /\ code \in [Challenge -> Code]
  BY DEF IInv, Types
<1>2. PICK new : new = [code[c] EXCEPT !.state = "dropped"]
  OBVIOUS
<1>3. new.state = "dropped"
  BY <1>1, <1>2 DEF Code
<1>4. code' = [code EXCEPT ![c] = new] /\ rows' = rows /\ step' = step
  BY <1>2 DEF Expire
<1>5. ASSUME NEW d \in Challenge, code'[d].state = "open"
      PROVE  code'[d].for.h \in Household /\ code'[d].under = Spots(rows, code'[d].for.h)
  <2>1. code'[d] = code[d]
    BY <1>1, <1>3, <1>4, <1>5
  <2>2. QED
    BY <1>5, <2>1, OpenCodes
<1>6. QED
  BY <1>4, <1>5, StillOrderly

LEMMA FailOrderly ==
  ASSUME IInv, Orderly, NEW h \in Household, Fail(h)
  PROVE  Orderly'
<1>1. rows' = rows \ StagedMembers(h) /\ step' = step /\ code' = code
  BY DEF Fail
<1>2. \A g \in Household : Owned(rows', g) = Owned(rows, g)
  BY <1>1 DEF Owned, StagedMembers
<1>3. QED
  BY <1>1, <1>2, OpenCodes, StillOrderly

\* A redemption spends its code and leaves the others.
LEMMA RedeemPlans ==
  ASSUME IInv, NEW c \in Challenge, Redeem(c)
  PROVE  \E h \in Household, o \in Owner, R \in Answered(code[c].for), cs \in [Challenge -> Code] :
           /\ code[c].for \in Invite /\ h = code[c].for.h /\ o = step[h] /\ o.h = h
           /\ code[c].state = "open" /\ Owned(rows, h) # {}
           /\ cs[c].state = "consumed" /\ (\A d \in Challenge : d # c => cs[d] = code[d])
           /\ Planned(h, o, R, cs) /\ step' = [step EXCEPT ![h] = o]
<1>1. code[c] \in Code /\ code \in [Challenge -> Code]
  BY DEF IInv, Types
<1>2. PICK i \in Invite : i = code[c].for
  BY DEF Redeem, IInv, CodeOK
<1>3. i.h \in Household /\ step[i.h] \in Owner /\ step[i.h].h = i.h
  <2>1. flow[i.h] = "complete"
    BY <1>2 DEF Redeem, Settled
  <2>2. i.h \in Household
    BY DEF Invite
  <2>3. QED
    BY <2>1, <2>2 DEF IInv, StepOK
<1>4. PICK new : new = [code[c] EXCEPT !.state = "consumed"]
  OBVIOUS
<1>5. new \in Code /\ new.state = "consumed"
  BY <1>1, <1>4 DEF Code
<1>6. PICK cs : cs = [code EXCEPT ![c] = new]
  OBVIOUS
<1>7. cs \in [Challenge -> Code] /\ cs[c].state = "consumed"
      /\ \A d \in Challenge : d # c => cs[d] = code[d]
  BY <1>1, <1>5, <1>6
<1>8. PICK R \in Answered(i) : Planned(i.h, step[i.h], R, cs)
  BY <1>2, <1>4, <1>6 DEF Redeem
<1>9. code[c].state = "open" /\ Owned(rows, i.h) # {} /\ step' = step
  BY <1>2 DEF Redeem
<1>10. step = [step EXCEPT ![i.h] = step[i.h]]
  BY DEF IInv, Types
<1>11. QED
  BY <1>2, <1>3, <1>7, <1>8, <1>9, <1>10

LEMMA RedeemOrderly ==
  ASSUME IInv, Orderly, NEW c \in Challenge, Redeem(c)
  PROVE  Orderly'
<1>1. PICK h \in Household, o \in Owner, R \in Answered(code[c].for), cs \in [Challenge -> Code] :
        /\ code[c].for \in Invite /\ h = code[c].for.h /\ o = step[h] /\ o.h = h
        /\ code[c].state = "open" /\ Owned(rows, h) # {}
        /\ cs[c].state = "consumed" /\ (\A d \in Challenge : d # c => cs[d] = code[d])
        /\ Planned(h, o, R, cs) /\ step' = [step EXCEPT ![h] = o]
  BY RedeemPlans
<1>2. \A g \in Household : Owned(R, g) = Owned(rows, g)
  BY <1>1, AnsweredOwners
<1>3. \A d \in Challenge : cs[d].state = "open" => cs[d] = code[d]
  BY <1>1
<1>4. Planned(h, o, R, cs) /\ o.h = h /\ step' = [step EXCEPT ![h] = o]
  BY <1>1
<1>5. QED
  BY <1>2, <1>3, <1>4, PlannedOrderly

LEMMA RollPlans ==
  ASSUME IInv, NEW h \in Household, Roll(h)
  PROVE  /\ step[h] \in Owner /\ step[h].h = h /\ Planned(h, step[h], rows, code)
         /\ step' = [step EXCEPT ![h] = step[h]]
BY DEF Roll, Settled, IInv, StepOK, Types

LEMMA StepOrderly == IInv /\ Orderly /\ [Next]_vars => Orderly'
<1> SUFFICES ASSUME IInv, Orderly, [Next]_vars PROVE Orderly'
  OBVIOUS
<1>0. ASSUME UNCHANGED <<rows, code, step>> PROVE Orderly'
  BY <1>0, OpenCodes, StillOrderly
<1>1. ASSUME NEW c \in Challenge, Expire(c) PROVE Orderly'
  BY <1>1, ExpireOrderly
<1>2. ASSUME NEW c \in Challenge, Redeem(c) PROVE Orderly'
  BY <1>2, RedeemOrderly
<1>3. ASSUME NEW c \in Challenge, NEW i \in Invites, Issue(c, i) PROVE Orderly'
  BY <1>3, IssueOrderly
<1>4. ASSUME NEW h \in Household, Touch(h) PROVE Orderly'
  BY <1>0, <1>4 DEF Touch
<1>5. ASSUME NEW h \in Household, Activate(h) PROVE Orderly'
  BY <1>5, LiveOrderly DEF Activate
<1>12. ASSUME NEW h \in Household, ActivateLate(h) PROVE Orderly'
  BY <1>12, LiveOrderly DEF ActivateLate
<1>6. ASSUME NEW h \in Household, Fail(h) PROVE Orderly'
  BY <1>6, FailOrderly
<1>7. ASSUME NEW h \in Household, Reset(h) PROVE Orderly'
  BY <1>0, <1>7 DEF Reset
<1>8. ASSUME NEW h \in Household, Roll(h) PROVE Orderly'
  BY <1>8, RollPlans, PlannedOrderly
<1>9. ASSUME NEW o \in Moves, VerifyChannel(o) PROVE Orderly'
  <2>1. o \in Owner /\ o.h \in Household
    BY BindingsAssumption DEF Owner
  <2>2. QED
    BY <1>9, <2>1, PlannedOrderly DEF VerifyChannel
<1>10. CASE UNCHANGED vars
  BY <1>0, <1>10
<1>11. QED
  BY <1>1, <1>2, <1>3, <1>4, <1>5, <1>6, <1>7, <1>8, <1>9, <1>10, <1>12
  DEF Next, Codes, Rollouts, People

-----------------------------------------------------------------------------
(* What an owner's move leaves behind *)

\* What an older version left holds members alone: its owners have been planned.
OnlyMembers == \A r \in Legacy : r.role = "adult"

\* A founder's rows: none, or those of the owner's state.
LEMMA FoundedRows ==
  ASSUME NEW o \in Owner, NEW U, U = UNION Issued({}, o), U # {}
  PROVE  /\ Arranged(U, o.h) /\ Unmoved(U, o)
         /\ \A r \in U : r.h = o.h
<1>1. ~Unmoved({}, o)
  BY DEF Unmoved, Holders
<1>2. \A S \in Issued({}, o) : S = Fresh({}, o)
  BY <1>1, IssuedMoved
<1>3. U = Fresh({}, o)
  BY <1>2
<1>4. Retired({}, o.h) = {}
  BY DEF Retired
<1>5. \A r \in Fresh({}, o) : r.h = o.h
  BY <1>4, OwnerRowFields DEF Fresh, Primary, Seats, WebSeat
<1>6. Arranged(Fresh({}, o), o.h) /\ Unmoved(Fresh({}, o), o)
  BY FreshOwners
<1>7. QED
  BY <1>3, <1>5, <1>6

LEMMA InitOrderly == OnlyMembers /\ Init => Orderly
<1> SUFFICES ASSUME OnlyMembers, Init PROVE Orderly
  OBVIOUS
<1> DEFINE founded == {Founder[h] : h \in {g \in Household : Founder[g] # None}}
           U(o) == UNION Issued({}, o)
           shown(o) == {[r EXCEPT !.pub = TRUE] : r \in U(o)}
<1>1. rows = Legacy \cup UNION {shown(o) : o \in founded} /\ step = Founder
  BY DEF Init
<1>2. /\ Founder \in [Household -> Owner \cup {None}]
      /\ \A h \in Household : Founder[h] # None => Founder[h].h = h
  BY BindingsAssumption
<1>3. \A o \in founded : o \in Owner /\ o.h \in Household /\ o = Founder[o.h] /\ o # None
  BY <1>2
<1>4. ASSUME NEW o \in founded
      PROVE  /\ shown(o) = Published(U(o), o.h) /\ U(o) \in SUBSET Row
             /\ \A t \in shown(o) : t.h = o.h
             /\ shown(o) # {} => Arranged(shown(o), o.h) /\ Unmoved(shown(o), o)
  <2>1. o \in Owner
    BY <1>3
  <2>2. U(o) \subseteq Row
    <3>1. ASSUME NEW S \in Issued({}, o) PROVE S \subseteq Row
      <4>1. {} \in SUBSET Row
        OBVIOUS
      <4>2. QED
        BY <2>1, <4>1, IssuedGrown DEF Grown
    <3>2. QED
      BY <3>1
  <2>3. PICK V : V = U(o)
    OBVIOUS
  <2>4. V # {} => Arranged(V, o.h) /\ Unmoved(V, o) /\ \A r \in V : r.h = o.h
    BY <2>1, <2>3, FoundedRows
  <2> HIDE DEF U
  <2>5. shown(o) = Published(V, o.h)
    BY <2>3, <2>4 DEF Published
  <2>6. \A t \in Published(V, o.h) : t.h = o.h
    <3>1. \A r \in V : r.h = o.h /\ r \in Row
      BY <2>2, <2>3, <2>4
    <3>2. QED
      BY <3>1, PublishedRow DEF Published
  <2>7. Published(V, o.h) # {} => V # {}
    BY DEF Published
  <2>8. V \in SUBSET Row
    BY <2>2, <2>3
  <2>9. V # {} => Arranged(Published(V, o.h), o.h) /\ Unmoved(Published(V, o.h), o)
    BY <2>4, <2>8, PublishedOwners
  <2> HIDE DEF shown
  <2>10. QED
    BY <2>3, <2>5, <2>6, <2>7, <2>8, <2>9
<1> HIDE DEF founded, shown, U
<1>5. ASSUME NEW h \in Household, NEW r \in Owned(rows, h)
      PROVE  Founder[h] \in founded /\ r \in shown(Founder[h])
  <2>1. r \in rows /\ r \notin Legacy /\ r.h = h
    BY DEF Owned, OnlyMembers
  <2>2. PICK o \in founded : r \in shown(o)
    BY <1>1, <2>1
  <2>3. o = Founder[h]
    BY <1>3, <1>4, <2>1, <2>2
  <2>4. QED
    BY <2>2, <2>3
<1>6. ASSUME NEW h \in Household, Owned(rows, h) # {}
      PROVE  /\ Founder[h] \in Owner /\ Founder[h].h = h
             /\ Owned(rows, h) = Owned(shown(Founder[h]), h)
             /\ Arranged(shown(Founder[h]), h) /\ Unmoved(shown(Founder[h]), Founder[h])
  <2>1. PICK o : o = Founder[h]
    OBVIOUS
  <2>2. o \in founded /\ shown(o) # {}
    BY <1>5, <1>6, <2>1
  <2>3. o \in Owner /\ o.h = h
    BY <1>2, <1>3, <2>1, <2>2
  <2>4. shown(o) \subseteq rows
    BY <1>1, <2>2
  <2>5. Owned(rows, h) = Owned(shown(o), h)
    BY <1>5, <2>1, <2>4 DEF Owned
  <2>6. QED
    BY <1>4, <2>1, <2>2, <2>3, <2>5
<1>7. ASSUME NEW h \in Household PROVE Arranged(rows, h) /\ Held(h)
  <2>1. CASE Owned(rows, h) = {}
    BY <2>1 DEF Arranged, Held
  <2>2. CASE Owned(rows, h) # {}
    <3>1. PICK o, S : o = Founder[h] /\ S = shown(Founder[h])
      OBVIOUS
    <3>2. o \in Owner /\ o.h = h /\ Owned(rows, h) = Owned(S, h) /\ Arranged(S, h) /\ Unmoved(S, o)
      BY <1>6, <2>2, <3>1
    <3>3. Arranged(rows, h) /\ Unmoved(rows, o)
      BY <3>2, SameOwners
    <3>4. QED
      BY <1>1, <3>1, <3>2, <3>3 DEF Held
  <2>3. QED
    BY <2>1, <2>2
<1>8. ASSUME NEW c \in Challenge PROVE UnderOK(c)
  BY DEF Init, Unissued, UnderOK
<1>9. QED
  BY <1>7, <1>8 DEF Orderly

\* A code is spent under the owner it was issued by, and reaches the revision.
Spent(c) ==
  code[c].state = "open" /\ code'[c].state = "consumed"
  => /\ code[c].under = Spots(rows, code[c].for.h)
     /\ Pair(code[c].for) \in plan'[code[c].for.h]

\* Nobody stays in a place the owner has left.
Cleared(h) ==
  \A r \in Owned(rows, h) :
    ~(\E s \in Owned(rows', h) : s.chan = r.chan /\ s.chat = r.chat)
    => ~\E s \in Of(rows', h) : s.chan = r.chan /\ s.chat = r.chat

LEMMA StayedCleared ==
  ASSUME NEW h, Spots(rows, h) \subseteq Spots(rows', h)
  PROVE  Cleared(h)
<1>1. ASSUME NEW r \in Owned(rows, h)
      PROVE  \E s \in Owned(rows', h) : s.chan = r.chan /\ s.chat = r.chat
  <2>1. Pair(r) \in Spots(rows', h)
    BY DEF Spots
  <2>2. PICK s \in Owned(rows', h) : Pair(s) = Pair(r)
    BY <2>1 DEF Spots
  <2>3. QED
    BY <2>2 DEF Pair
<1>2. QED
  BY <1>1 DEF Cleared

LEMMA PlannedCleared ==
  ASSUME IInv, Orderly, NEW h \in Household, NEW o \in Owner, o.h = h, NEW R, NEW cs,
         \A g \in Household : Owned(R, g) = Owned(rows, g),
         \A g \in Household : g # h => Of(R, g) = Of(rows, g),
         Planned(h, o, R, cs), NEW g \in Household
  PROVE  Cleared(g)
<1>1. PICK S \in Issued(R, o) : rows' = S
  BY DEF Planned
<1>2. Arranged(R, h)
  BY SameOwners DEF Orderly
<1>3. CASE g # h
  <2>1. Of(S, g) = Of(R, g)
    <3>1. CASE Unmoved(R, o)
      BY <1>2, <1>3, <3>1, IssuedUnmoved
    <3>2. CASE ~Unmoved(R, o)
      BY <1>3, <3>2, IssuedMoved, FreshOwners
    <3>3. QED
      BY <3>1, <3>2
  <2>2. Owned(S, g) = Owned(rows, g)
    BY <1>3, <2>1, OwnedOf
  <2>3. QED
    BY <1>1, <2>2, SameOwners, StayedCleared
<1>4. CASE g = h /\ Unmoved(R, o)
  <2>1. Spots(S, h) = Spots(R, h) /\ Spots(R, h) = Spots(rows, h)
    BY <1>2, <1>4, IssuedUnmoved, SameOwners
  <2>2. QED
    BY <1>1, <1>4, <2>1, StayedCleared
<1>5. CASE g = h /\ ~Unmoved(R, o)
  <2>1. S = Fresh(R, o)
    BY <1>5, IssuedMoved
  <2>2. ASSUME NEW r \in Owned(rows, h), NEW s \in Of(S, h), s.chan = r.chan, s.chat = r.chat
        PROVE  s \in Owned(S, h)
    <3>1. r \in Owned(R, h)
      OBVIOUS
    <3>2. s.role = "owner"
      BY <2>1, <2>2, <3>1, FreshOwners
    <3>3. QED
      BY <3>2 DEF Of, Owned
  <2>3. QED
    BY <1>1, <1>5, <2>2 DEF Cleared
<1>6. QED
  BY <1>3, <1>4, <1>5

\* A plan spends no code.
LEMMA DroppedSpends ==
  ASSUME NEW cs \in [Challenge -> Code], NEW R, NEW o, NEW c \in Challenge,
         Dropped(cs, R, o)[c].state = "consumed"
  PROVE  cs[c].state = "consumed"
<1>1. CASE Unmoved(R, o)
  BY <1>1 DEF Dropped
<1>2. CASE ~Unmoved(R, o) /\ cs[c].state = "open" /\ cs[c].for.h = o.h
  <2>1. PICK d : d = [cs[c] EXCEPT !.state = "dropped"]
    OBVIOUS
  <2>2. d.state = "dropped"
    BY <2>1 DEF Code
  <2>3. Dropped(cs, R, o)[c] = d
    BY <1>2, <2>1 DEF Dropped
  <2>4. QED
    BY <2>2, <2>3
<1>3. CASE ~Unmoved(R, o) /\ ~(cs[c].state = "open" /\ cs[c].for.h = o.h)
  BY <1>3 DEF Dropped
<1>4. QED
  BY <1>1, <1>2, <1>3

LEMMA PlannedSpent ==
  ASSUME IInv, NEW h, NEW o, NEW R, NEW cs \in [Challenge -> Code],
         Planned(h, o, R, cs), NEW d \in Challenge, cs[d] = code[d]
  PROVE  Spent(d)
BY DroppedSpends DEF Planned, Spent

LEMMA RedeemSpent ==
  ASSUME IInv, Orderly, NEW c \in Challenge, Redeem(c), NEW d \in Challenge
  PROVE  Spent(d)
<1>1. PICK h \in Household, o \in Owner, R \in Answered(code[c].for), cs \in [Challenge -> Code] :
        /\ code[c].for \in Invite /\ h = code[c].for.h /\ o = step[h] /\ o.h = h
        /\ code[c].state = "open" /\ Owned(rows, h) # {}
        /\ cs[c].state = "consumed" /\ (\A e \in Challenge : e # c => cs[e] = code[e])
        /\ Planned(h, o, R, cs) /\ step' = [step EXCEPT ![h] = o]
  BY RedeemPlans
<1>2. CASE d # c
  BY <1>1, <1>2, PlannedSpent
<1>3. CASE d = c
  <2>1. code[c].under = Spots(rows, h)
    BY <1>1, OpenCodes
  <2>2. PICK i \in Invite : i = code[c].for
    BY <1>1
  <2>3. Pair(i) \in Pairs(R, h) /\ Owned(R, h) = Owned(rows, h)
    BY <1>1, <2>2, AnsweredOwners
  <2>4. Arranged(rows, h) /\ Unmoved(rows, o)
    BY <1>1 DEF Orderly, Held
  <2>5. Arranged(R, h) /\ Unmoved(R, o)
    BY <1>1, <2>3, <2>4, SameOwners
  <2>6. rows' \in Issued(R, o) /\ plan' = [plan EXCEPT ![h] = Pairs(rows', h)]
    BY <1>1 DEF Planned
  <2>7. PICK S \in Issued(R, o) : S = rows'
    BY <2>6
  <2>8. Pairs(R, h) \subseteq Pairs(S, h)
    BY <1>1, <2>5, IssuedUnmoved
  <2>9. plan'[h] = Pairs(rows', h)
    BY <2>6 DEF IInv, Types
  <2>10. Pair(i) \in plan'[h]
    BY <2>3, <2>7, <2>8, <2>9
  <2>11. QED
    BY <1>1, <1>3, <2>1, <2>2, <2>10 DEF Spent
<1>4. QED
  BY <1>2, <1>3

LEMMA StepInvited ==
  IInv /\ Orderly /\ [Next]_vars =>
    (\A c \in Challenge : Spent(c)) /\ (\A h \in Household : Cleared(h))
<1> SUFFICES ASSUME IInv, Orderly, [Next]_vars
             PROVE  (\A c \in Challenge : Spent(c)) /\ (\A h \in Household : Cleared(h))
  OBVIOUS
<1> DEFINE Goal == (\A c \in Challenge : Spent(c)) /\ (\A h \in Household : Cleared(h))
<1>a. ASSUME \A h \in Household : Owned(rows', h) = Owned(rows, h) PROVE \A h \in Household : Cleared(h)
  BY <1>a, StayedCleared DEF Spots
<1>b. ASSUME code' = code PROVE \A c \in Challenge : Spent(c)
  BY <1>b DEF Spent
<1>c. ASSUME rows' = rows PROVE \A h \in Household : Cleared(h)
  BY <1>a, <1>c
<1>d. code \in [Challenge -> Code]
  BY DEF IInv, Types
<1> SUFFICES Goal
  OBVIOUS
<1>1. ASSUME NEW c \in Challenge, Expire(c) PROVE Goal
  <2>1. PICK e : e = [code[c] EXCEPT !.state = "dropped"]
    OBVIOUS
  <2>2. e.state = "dropped" /\ code' = [code EXCEPT ![c] = e] /\ rows' = rows
    BY <1>1, <1>d, <2>1 DEF Expire, Code
  <2>3. ASSUME NEW d \in Challenge PROVE Spent(d)
    BY <1>d, <2>2 DEF Spent
  <2>4. QED
    BY <1>c, <2>2, <2>3
<1>2. ASSUME NEW c \in Challenge, Redeem(c) PROVE Goal
  <2>1. \A d \in Challenge : Spent(d)
    BY <1>2, RedeemSpent
  <2>2. PICK h \in Household, o \in Owner, R \in Answered(code[c].for), cs \in [Challenge -> Code] :
          /\ code[c].for \in Invite /\ h = code[c].for.h /\ o.h = h /\ Planned(h, o, R, cs)
    BY <1>2, RedeemPlans
  <2>3. /\ \A g \in Household : Owned(R, g) = Owned(rows, g)
        /\ \A g \in Household : g # h => Of(R, g) = Of(rows, g)
    BY <2>2, AnsweredOwners
  <2>4. o.h = h /\ Planned(h, o, R, cs)
    BY <2>2
  <2>5. \A g \in Household : Cleared(g)
    BY <2>3, <2>4, PlannedCleared
  <2>6. QED
    BY <2>1, <2>5
<1>3. ASSUME NEW c \in Challenge, NEW i \in Invites, Issue(c, i) PROVE Goal
  <2> DEFINE new == [state |-> "open", for |-> i, by |-> OwnerActor(i.h),
                     under |-> {Pair(r) : r \in Owned(rows, i.h)}]
  <2>1. new.state = "open"
    OBVIOUS
  <2>2. code' = [code EXCEPT ![c] = new] /\ rows' = rows
    BY <1>3 DEF Issue
  <2> HIDE DEF new
  <2>3. ASSUME NEW d \in Challenge PROVE Spent(d)
    BY <1>d, <2>1, <2>2 DEF Spent
  <2>4. QED
    BY <1>c, <2>2, <2>3
<1>4. ASSUME NEW h \in Household, Touch(h) PROVE Goal
  BY <1>4, <1>b, <1>c DEF Touch
<1>e. ASSUME NEW h \in Household, NEW m, GoesLive(h, m) PROVE Goal
  <2>1. rows' = Published(rows, h) /\ code' = code
    BY <1>e DEF GoesLive, Published, Publishes
  <2>2. rows \in SUBSET Row
    BY DEF IInv, Types
  <2>3. \A g : Spots(Published(rows, h), g) = Spots(rows, g)
    BY <2>2, PublishedOwners
  <2>4. \A g \in Household : Cleared(g)
    BY <2>1, <2>3, StayedCleared
  <2>5. QED
    BY <1>b, <2>1, <2>4
<1>5. ASSUME NEW h \in Household, Activate(h) PROVE Goal
  BY <1>5, <1>e DEF Activate
<1>12. ASSUME NEW h \in Household, ActivateLate(h) PROVE Goal
  BY <1>12, <1>e DEF ActivateLate
<1>6. ASSUME NEW h \in Household, Fail(h) PROVE Goal
  <2>1. rows' = rows \ StagedMembers(h) /\ code' = code
    BY <1>6 DEF Fail
  <2>2. \A g \in Household : Owned(rows', g) = Owned(rows, g)
    BY <2>1 DEF Owned, StagedMembers
  <2>3. QED
    BY <1>a, <1>b, <2>1, <2>2
<1>7. ASSUME NEW h \in Household, Reset(h) PROVE Goal
  BY <1>7, <1>b, <1>c DEF Reset
<1>8. ASSUME NEW h \in Household, Roll(h) PROVE Goal
  BY <1>8, <1>d, RollPlans, PlannedSpent, PlannedCleared
<1>9. ASSUME NEW o \in Moves, VerifyChannel(o) PROVE Goal
  <2>1. o \in Owner /\ o.h \in Household
    BY BindingsAssumption DEF Owner
  <2>2. Planned(o.h, o, rows, code)
    BY <1>9 DEF VerifyChannel
  <2>3. QED
    BY <1>d, <2>1, <2>2, PlannedSpent, PlannedCleared
<1>10. CASE UNCHANGED vars
  BY <1>10, <1>b, <1>c
<1>11. QED
  BY <1>1, <1>2, <1>3, <1>4, <1>5, <1>6, <1>7, <1>8, <1>9, <1>10, <1>12
  DEF Next, Codes, Rollouts, People

\* The owner's move takes its codes and its rooms along: verify_challenge redeems
\* a code into the arrangement issue_challenge saw, and into the revision it plans;
\* _retire_superseded leaves nobody authorized where the owner was.  Of tables in
\* which an older version left an owner no step has verified, nothing is said.
THEOREM NoInvitationGoesStale == OnlyMembers /\ Spec => NoStaleInvitation
<1> DEFINE A == /\ \A c \in Challenge :
                     code[c].state = "open" /\ code'[c].state = "consumed"
                     => /\ code[c].under = {Pair(r) : r \in Owned(rows, code[c].for.h)}
                        /\ Pair(code[c].for) \in plan'[code[c].for.h]
                /\ \A h \in Household : \A r \in Owned(rows, h) :
                     ~(\E s \in Owned(rows', h) : s.chan = r.chan /\ s.chat = r.chat)
                     => ~\E s \in Of(rows', h) : s.chan = r.chan /\ s.chat = r.chat
<1>1. OnlyMembers /\ Init => Orderly
  BY InitOrderly
<1>2. IInv /\ Orderly /\ [Next]_vars => Orderly'
  BY StepOrderly
<1>3. IInv /\ Orderly /\ [Next]_vars => [A]_vars
  BY StepInvited DEF Spent, Cleared, Spots
<1>4. QED
  BY <1>1, <1>2, <1>3, Invariance, PTL DEF Spec, NoStaleInvitation


-----------------------------------------------------------------------------
(* The files of the database: the invariant of backup and rollback. *)

\* Which files a name may hold; what a restore staged is a restored one.
FileKind(m) ==
  IF m = "mark" THEN {NoFile, Mark}
  ELSE {NoFile} \cup [of : Lineage, rev : Revision, writes : SUBSET AnyWrite]
Whole(b) == b \in Bundle /\ \A m \in Member : b[m] \in FileKind(m)
Staged(b) == b["db"].of # "own" /\ b["wal"].of # "own"
FilesOK == (\A p \in Path : Whole(disk[p])) /\ Staged(disk["cand"])

\* Who holds the canonical path, and what is there meanwhile.
Rolling == task \in {"install", "undo"}
HoldersOK ==
  /\ Rolling => ~Connected
  /\ task = "restore" /\ read.path = "live" => ~Connected
  /\ svc \in {"migrate", "archive", "serving"} => Present(disk["live"].db)

RestoreOK ==
  task = "restore" =>
    /\ read.path \in {"live", "cand"}
    /\ stage = 2 => disk[read.path].wal = NoFile
    /\ stage >= 3 => Present(disk[read.path].db)

\* The journal of a rollback is in the order of its moves.
Rank(x) ==
  IF x.to = "aside" THEN (IF x.member = "db" THEN 1 ELSE IF x.member = "wal" THEN 2 ELSE 3)
                    ELSE (IF x.member = "mark" THEN 5 ELSE IF x.member = "wal" THEN 6 ELSE 7)
Entry(x) ==
  /\ \/ x.to = "aside" /\ x.from = "live"
     \/ x.to = "live" /\ x.from = "cand"
  /\ x.file \in FileKind(x.member) /\ Present(x.file)
JournalOK ==
  /\ ~Rolling => moved = <<>> /\ ~stuck
  /\ task = "install" => ~stuck
  /\ \A i \in DOMAIN moved : Entry(moved[i])
  /\ \A i, j \in DOMAIN moved : i < j => Rank(moved[i]) < Rank(moved[j])
  /\ task = "install" => \A i \in DOMAIN moved : Rank(moved[i]) < stage /\ moved[i].removed
  /\ \A i \in DOMAIN moved : ~moved[i].removed => i = Len(moved) /\ ~stuck

Has(to, m) == \E i \in DOMAIN moved : moved[i].to = to /\ moved[i].member = m
Taken(m) == \E i \in DOMAIN moved : moved[i].to = "live" /\ moved[i].member = m /\ moved[i].removed

\* What was read is what is being moved.
ReadOK ==
  Rolling =>
    /\ Whole(read.cand) /\ Staged(read.cand)
    /\ Present(read.cand.db) /\ Present(read.cand.mark)
    /\ Whole(read.live) /\ (Present(read.live.db) \/ read.live = NoBundle)

\* A member of the candidate is where it was read, or on its way.
SourceOK ==
  Rolling =>
    /\ \A m \in Member : IF Taken(m) THEN disk["cand"][m] = NoFile
                                     ELSE disk["cand"][m] = read.cand[m] \/ stuck
    /\ \A i \in DOMAIN moved :
         moved[i].to = "live" => moved[i].file = read.cand[moved[i].member]

AsideOK ==
  Rolling =>
    /\ \A i \in DOMAIN moved :
         moved[i].to = "aside" => disk["aside"][moved[i].member] = moved[i].file
    /\ disk["aside"].wal \in {NoFile, read.live.wal}

\* The log beside the canonical database is of the generation being moved.
LogOK ==
  Rolling /\ ~stuck =>
    IF Has("live", "wal")
      THEN disk["live"].wal \in {NoFile, read.cand.wal}
      ELSE /\ disk["live"].wal \in {NoFile, read.live.wal}
           /\ task = "install" /\ stage >= 5 => disk["live"].wal = NoFile

\* A second name, not yet the only one.
LinkOK ==
  \A i \in DOMAIN moved : ~moved[i].removed =>
    /\ moved[i].to = "live" =>
         disk["cand"][moved[i].member] = read.cand[moved[i].member]
    /\ moved[i].to = "aside" /\ moved[i].member = "db" =>
         Present(disk["live"].db) /\ moved[i].file.writes \subseteq disk["live"].db.writes
    /\ moved[i].to = "aside" /\ moved[i].member = "wal" =>
         \/ disk["live"].wal = moved[i].file
         \/ Present(disk["live"].db) /\ ~Present(disk["live"].wal)

\* Where the superseded generation is.
FirstIsDatabase == moved[1].to = "aside" /\ moved[1].member = "db"
Gone == moved # <<>> /\ FirstIsDatabase /\ moved[1].removed
ForeignDatabase == Present(disk["live"].db) /\ ~Has("live", "db")
HeldLive ==
  /\ Present(disk["live"].db) /\ disk["live"].db.of = read.live.db.of
  /\ read.live.db.writes \subseteq disk["live"].db.writes
  /\ read.live.wal.writes \subseteq disk["live"].db.writes \cup disk["live"].wal.writes
HeldAside ==
  LET f == moved[1].file IN
  /\ f.of = read.live.db.of
  /\ read.live.db.writes \subseteq f.writes
  /\ \/ Has("aside", "wal")
     \/ read.live.wal.writes \subseteq f.writes
     \/ disk["live"].wal = read.live.wal /\ \A i \in DOMAIN moved : moved[i].to = "aside"
     \/ ForeignDatabase
SupersededOK ==
  Rolling /\ Present(read.live.db) =>
    /\ moved # <<>> => FirstIsDatabase
    /\ task = "install" /\ stage >= 2 => moved # <<>>
    /\ ~stuck => IF Gone THEN HeldAside ELSE HeldLive

\* A revision the entrypoint left, and the snapshot it took before.
SnapshotOK ==
  /\ svc = "migrate" /\ Pending(Opened("live")) =>
       \E s \in kept : s.kind = "pre" /\ s.image = Opened("live")
  /\ svc = "archive" => ~Pending(Opened("live"))
  /\ svc = "ready" =>
       /\ disk["live"].db.of = "own" => disk["live"].db.rev >= release
       /\ \A i \in DOMAIN moved : moved[i].to = "aside" /\ moved[i].member = "db" /\ moved[i].file.of = "own"
            => moved[i].file.rev >= release

BackupInv ==
  /\ BackupTypeOK /\ FilesOK /\ HoldersOK /\ RestoreOK
  /\ JournalOK /\ ReadOK /\ SourceOK /\ AsideOK /\ LogOK /\ LinkOK
  /\ SupersededOK /\ SnapshotOK

-----------------------------------------------------------------------------
(* What opening, closing and writing a database leave behind. *)

LEMMA LargerRevision ==
  ASSUME NEW a \in Revision, NEW b \in Revision
  PROVE  Larger(a, b) \in Revision /\ Larger(a, b) >= a /\ Larger(a, b) >= b
BY DEF Larger, Revision

LEMMA OpenedBundleType ==
  ASSUME NEW b \in Bundle
  PROVE  /\ OpenedBundle(b) \in Image
         /\ ~Present(b.db) => OpenedBundle(b) = Empty
         /\ Present(b.db) =>
              /\ OpenedBundle(b).rev = Larger(b.db.rev, b.wal.rev)
              /\ OpenedBundle(b).writes = b.db.writes \cup b.wal.writes
<1>1. b.db \in File /\ b.wal \in File
  BY DEF Bundle, Member
<1>2. Larger(b.db.rev, b.wal.rev) \in Revision
  BY <1>1, LargerRevision DEF File
<1>3. Empty \in Image
  BY DEF Empty, Image, Revision
<1>4. b.db.writes \cup b.wal.writes \in SUBSET AnyWrite
  BY <1>1 DEF File
<1> QED
  BY <1>2, <1>3, <1>4 DEF OpenedBundle, Image

LEMMA OpenedType ==
  ASSUME BackupTypeOK, NEW p \in Path
  PROVE  Opened(p) \in Image
BY OpenedBundleType DEF Opened, BackupTypeOK

LEMMA MigratedType ==
  ASSUME BackupTypeOK, NEW image \in Image
  PROVE  /\ Migrated(image) \in Image
         /\ Migrated(image).writes = image.writes
         /\ Migrated(image).rev >= release
         /\ ~Pending(image) => Migrated(image) = image
<1>1. release \in Revision /\ image.rev \in Revision
  BY DEF BackupTypeOK, Revision, Image
<1>2. Larger(image.rev, release) \in Revision
  BY <1>1, LargerRevision
<1>3. Larger(image.rev, release) >= release
  BY <1>1, LargerRevision
<1>4. ~Pending(image) => Larger(image.rev, release) = image.rev
  BY <1>1 DEF Pending, Larger, Revision
<1>5. Migrated(image) = [image EXCEPT !.rev = Larger(image.rev, release)]
  BY DEF Migrated
<1> QED
  BY <1>2, <1>3, <1>4, <1>5 DEF Image

LEMMA FileOfType ==
  ASSUME NEW l \in Lineage, NEW image \in Image
  PROVE  /\ FileOf(l, image) \in File /\ Present(FileOf(l, image))
         /\ FileOf(l, image).of = l /\ FileOf(l, image).rev = image.rev
         /\ FileOf(l, image).writes = image.writes
         /\ \A m \in {"db", "wal"} : FileOf(l, image) \in FileKind(m)
BY DEF FileOf, File, Lineage, Image, Present, FileKind

LEMMA LineageType ==
  ASSUME FilesOK, NEW p \in Path
  PROVE  LineageOf(p) \in Lineage
<1>1. disk[p].db \in FileKind("db")
  BY DEF FilesOK, Whole, Member
<1>2. Present(disk[p].db) => disk[p].db.of \in Lineage
  BY <1>1 DEF FileKind, Present, NoFile
<1> QED
  BY <1>2 DEF LineageOf, Lineage

LEMMA Kinds ==
  /\ NoFile \in File /\ Mark \in File /\ ~Present(NoFile) /\ Present(Mark)
  /\ \A m \in Member : NoFile \in FileKind(m)
  /\ Mark \in FileKind("mark")
  /\ \A m \in Member : \A f \in FileKind(m) :
       /\ f \in File
       /\ ~Present(f) <=> f = NoFile
       /\ f.writes \subseteq AnyWrite
       /\ m = "mark" => f.writes = {}
  /\ NoFile.writes = {} /\ Mark.writes = {} /\ NoFile.of = "none" /\ NoFile.rev = 0
<1>1. NoFile \in File /\ Mark \in File
  BY DEF NoFile, Mark, File, Revision
<1>2. ~Present(NoFile) /\ Present(Mark)
  BY DEF Present, NoFile, Mark
<1>3. \A m \in Member : NoFile \in FileKind(m)
  BY DEF FileKind
<1>4. Mark \in FileKind("mark")
  BY DEF FileKind
<1>5. ASSUME NEW m \in Member, NEW f \in FileKind(m)
      PROVE  /\ f \in File
             /\ ~Present(f) <=> f = NoFile
             /\ f.writes \subseteq AnyWrite
             /\ m = "mark" => f.writes = {}
  <2>1. CASE m = "mark"
    BY <1>1, <1>2, <1>5, <2>1 DEF FileKind, NoFile, Mark
  <2>2. CASE m # "mark" /\ f = NoFile
    BY <1>1, <1>2, <2>2 DEF NoFile
  <2>3. CASE m # "mark" /\ f # NoFile
    <3>1. f \in [of : Lineage, rev : Revision, writes : SUBSET AnyWrite]
      BY <1>5, <2>3 DEF FileKind
    <3>2. f.of \in Lineage /\ f \in File
      BY <3>1 DEF File
    <3> QED
      BY <3>1, <3>2, <2>3 DEF Present, Lineage
  <2> QED
    BY <2>1, <2>2, <2>3
<1> QED
  BY <1>1, <1>2, <1>3, <1>4, <1>5 DEF NoFile, Mark

\* The canonical path after a connection that was the last, and after another.
LEMMA ClosedShape ==
  ASSUME BackupTypeOK, FilesOK, NEW p \in Path, NEW image \in Image
  PROVE  LET d == Closed(p, image) IN
         /\ d \in [Path -> Bundle]
         /\ \A q \in Path : q # p => d[q] = disk[q]
         /\ d[p].db = FileOf(LineageOf(p), image) /\ d[p].wal = NoFile
         /\ d[p].mark = disk[p].mark
         /\ Whole(d[p])
<1> DEFINE f == FileOf(LineageOf(p), image)
           d == Closed(p, image)
<1>1. f \in File /\ f \in FileKind("db")
  BY LineageType, FileOfType
<1>2. NoFile \in File /\ NoFile \in FileKind("wal")
  BY Kinds DEF Member
<1>3. disk \in [Path -> Bundle] /\ disk[p] \in [Member -> File] /\ disk[p].mark \in FileKind("mark")
  BY DEF BackupTypeOK, Bundle, FilesOK, Whole, Member
<1>4. d = [disk EXCEPT ![p].db = f, ![p].wal = NoFile]
  BY DEF Closed
<1> HIDE DEF f, d
<1>5. /\ d \in [Path -> Bundle]
      /\ \A q \in Path : q # p => d[q] = disk[q]
      /\ d[p].db = f /\ d[p].wal = NoFile /\ d[p].mark = disk[p].mark
  BY <1>1, <1>2, <1>3, <1>4 DEF Bundle, Member
<1>6. Whole(d[p])
  BY <1>1, <1>2, <1>3, <1>5 DEF Whole, Member, Bundle
<1> QED
  BY <1>5, <1>6 DEF f, d

LEMMA FramedShape ==
  ASSUME BackupTypeOK, FilesOK, NEW p \in Path, NEW image \in Image
  PROVE  LET d == Framed(p, image) IN
         /\ d \in [Path -> Bundle]
         /\ \A q \in Path : q # p => d[q] = disk[q]
         /\ Present(d[p].db) /\ d[p].db.of = LineageOf(p)
         /\ Present(disk[p].db) => d[p].db.writes = disk[p].db.writes /\ d[p].db.rev = disk[p].db.rev
         /\ ~Present(disk[p].db) => d[p].db.writes = {} /\ d[p].db.rev = 0
         /\ d[p].wal = FileOf(LineageOf(p), image)
         /\ d[p].mark = disk[p].mark
         /\ Whole(d[p])
<1> DEFINE base == IF Present(disk[p].db) THEN disk[p].db ELSE Empty
           f == FileOf(LineageOf(p), base)
           g == FileOf(LineageOf(p), image)
           d == Framed(p, image)
<1>1. g \in File /\ g \in FileKind("wal")
  BY LineageType, FileOfType
<1>2. disk \in [Path -> Bundle] /\ disk[p] \in [Member -> File] /\ disk[p].mark \in FileKind("mark")
      /\ disk[p].db \in File
  BY DEF BackupTypeOK, Bundle, FilesOK, Whole, Member
<1>3. base.rev \in Revision /\ base.writes \in SUBSET AnyWrite
  BY <1>2 DEF File, Empty, Revision
<1>4. /\ f \in File /\ f \in FileKind("db") /\ Present(f)
      /\ f.of = LineageOf(p) /\ f.rev = base.rev /\ f.writes = base.writes
  BY <1>3, LineageType DEF FileOf, File, Lineage, Present, FileKind
<1>5. d = [disk EXCEPT ![p].db = f, ![p].wal = g]
  BY DEF Framed
<1>6. /\ Present(disk[p].db) => base.writes = disk[p].db.writes /\ base.rev = disk[p].db.rev
      /\ ~Present(disk[p].db) => base.writes = {} /\ base.rev = 0
  BY DEF Empty
<1> HIDE DEF f, g, d, base
<1>7. /\ d \in [Path -> Bundle]
      /\ \A q \in Path : q # p => d[q] = disk[q]
      /\ d[p].db = f /\ d[p].wal = g /\ d[p].mark = disk[p].mark
  BY <1>1, <1>2, <1>4, <1>5 DEF Bundle, Member
<1>8. Whole(d[p])
  BY <1>1, <1>2, <1>4, <1>7 DEF Whole, Member, Bundle
<1> QED
  BY <1>4, <1>6, <1>7, <1>8 DEF g, d

\* One member of one bundle changes.
AllWhole(d) == d \in [Path -> Bundle] /\ \A q \in Path : Whole(d[q])
Differs(d, base, p, m, f) == d = [base EXCEPT ![p][m] = f]
Replaced(d, base, p, b) == d = [base EXCEPT ![p] = b]
LEMMA OneShape ==
  ASSUME NEW base, AllWhole(base), NEW p \in Path, NEW m \in Member, NEW f \in FileKind(m),
         NEW d, Differs(d, base, p, m, f)
  PROVE  /\ AllWhole(d)
         /\ d[p][m] = f
         /\ \A q \in Path, k \in Member : q # p \/ k # m => d[q][k] = base[q][k]
         /\ \A q \in Path : q # p => d[q] = base[q]
<1>1. f \in File
  BY Kinds
<1>2. base \in [Path -> Bundle] /\ base[p] \in [Member -> File]
  BY DEF AllWhole, Bundle
<1>3. /\ d \in [Path -> Bundle] /\ d[p][m] = f
      /\ \A q \in Path, k \in Member : q # p \/ k # m => d[q][k] = base[q][k]
      /\ \A q \in Path : q # p => d[q] = base[q]
  BY <1>1, <1>2 DEF Bundle, Differs
<1>4. \A q \in Path, k \in Member : base[q][k] \in FileKind(k)
  BY DEF AllWhole, Whole
<1>5. ASSUME NEW q \in Path PROVE Whole(d[q])
  <2>1. d[q] \in Bundle
    BY <1>3
  <2>2. ASSUME NEW k \in Member PROVE d[q][k] \in FileKind(k)
    BY <1>3, <1>4
  <2> QED
    BY <2>1, <2>2 DEF Whole
<1> QED
  BY <1>3, <1>5 DEF AllWhole

LEMMA DiskWhole ==
  ASSUME BackupTypeOK, FilesOK
  PROVE  AllWhole(disk) /\ Staged(disk["cand"])
         /\ \A p \in Path, m \in Member : disk[p][m] \in FileKind(m)
BY DEF AllWhole, BackupTypeOK, FilesOK, Whole

\* A member goes from one bundle to another.
LEMMA ClaimedShape ==
  ASSUME BackupTypeOK, FilesOK, NEW from \in Path, NEW to \in Path, NEW m \in Member,
         from # to
  PROVE  LET d == Claimed(from, to, m) IN
         /\ d \in [Path -> Bundle]
         /\ d[to][m] = disk[from][m] /\ d[from][m] = NoFile
         /\ \A q \in Path, k \in Member : (q # to /\ q # from) \/ k # m => d[q][k] = disk[q][k]
         /\ \A q \in Path : Whole(d[q]) /\ (q # to /\ q # from => d[q] = disk[q])
<1> DEFINE d == Claimed(from, to, m)
<1>1. NoFile \in File /\ NoFile \in FileKind(m)
  BY Kinds
<1>2. disk \in [Path -> Bundle] /\ disk[from] \in [Member -> File] /\ disk[to] \in [Member -> File]
  BY DEF BackupTypeOK, Bundle
<1>3. d = [disk EXCEPT ![to][m] = disk[from][m], ![from][m] = NoFile]
  BY DEF Claimed
<1> HIDE DEF d
<1>4. /\ d \in [Path -> Bundle] /\ d[to][m] = disk[from][m] /\ d[from][m] = NoFile
      /\ \A q \in Path, k \in Member : (q # to /\ q # from) \/ k # m => d[q][k] = disk[q][k]
      /\ \A q \in Path : q # to /\ q # from => d[q] = disk[q]
  BY <1>1, <1>2, <1>3 DEF Bundle
<1>5. \A q \in Path, k \in Member : disk[q][k] \in FileKind(k)
  BY DEF FilesOK, Whole
<1>6. ASSUME NEW q \in Path PROVE Whole(d[q])
  <2>1. d[q] \in Bundle
    BY <1>4
  <2>2. ASSUME NEW k \in Member PROVE d[q][k] \in FileKind(k)
    BY <1>1, <1>4, <1>5
  <2> QED
    BY <2>1, <2>2 DEF Whole
<1> QED
  BY <1>4, <1>6 DEF d

\* The journal grows and shrinks at its end.
LEMMA Pushed ==
  ASSUME NEW S, NEW s \in Seq(S), NEW x \in S
  PROVE  LET t == Append(s, x) IN
         /\ t \in Seq(S) /\ t # <<>> /\ Len(t) = Len(s) + 1
         /\ Len(s) \in Nat
         /\ DOMAIN s = 1 .. Len(s) /\ DOMAIN t = 1 .. Len(s) + 1
         /\ \A i \in DOMAIN s : i \in DOMAIN t /\ t[i] = s[i]
         /\ t[Len(s) + 1] = x
         /\ \A i \in DOMAIN t : i \in DOMAIN s \/ i = Len(s) + 1
BY AppendProperties, LenProperties

LEMMA Popped ==
  ASSUME NEW S, NEW s \in Seq(S), s # <<>>
  PROVE  LET t == SubSeq(s, 1, Len(s) - 1) IN
         /\ t \in Seq(S) /\ Len(t) = Len(s) - 1
         /\ Len(s) \in Nat /\ Len(s) >= 1
         /\ DOMAIN s = 1 .. Len(s) /\ DOMAIN t = 1 .. Len(s) - 1
         /\ Len(s) \in DOMAIN s /\ s[Len(s)] \in S
         /\ \A i \in DOMAIN t : i \in DOMAIN s /\ t[i] = s[i]
         /\ \A i \in DOMAIN s : i \in DOMAIN t \/ i = Len(s)
<1> DEFINE t == SubSeq(s, 1, Len(s) - 1)
<1>1. /\ Len(s) \in Nat /\ DOMAIN s = 1 .. Len(s)
      /\ \A i \in 1 .. Len(s) : s[i] \in S
  BY LenProperties
<1>2. Len(s) >= 1
  BY <1>1, EmptySeq
<1>3. /\ t \in Seq(S) /\ Len(t) = Len(s) - 1
      /\ \A i \in 1 .. Len(s) - 1 : t[i] = s[i]
  BY <1>1, <1>2, SubSeqProperties
<1>4. DOMAIN t = 1 .. Len(s) - 1
  BY <1>3, LenProperties
<1> HIDE DEF t
<1>5. /\ \A i \in DOMAIN t : i \in DOMAIN s /\ t[i] = s[i]
      /\ \A i \in DOMAIN s : i \in DOMAIN t \/ i = Len(s)
      /\ Len(s) \in DOMAIN s /\ s[Len(s)] \in S
  BY <1>1, <1>2, <1>3, <1>4
<1> QED
  BY <1>1, <1>2, <1>3, <1>4, <1>5 DEF t

LEMMA NothingMoved ==
  ASSUME moved = <<>>
  PROVE  DOMAIN moved = {} /\ Len(moved) = 0
BY EmptySeq, LenProperties

-----------------------------------------------------------------------------
(* The files stay files, and what is staged stays restored. *)

\* A connection at a path leaves the other two alone, and does not mix lineages.
Kept(p) == \A q \in Path : q # p => disk'[q] = disk[q]
GrownImage(p) ==
  {image \in Image : Opened(p).writes \subseteq image.writes /\ Opened(p).rev <= image.rev}
Connection(p) ==
  \/ disk' = disk
  \/ \E image \in GrownImage(p) : disk' = Closed(p, image) \/ disk' = Framed(p, image)

LEMMA ConnectionFiles ==
  ASSUME BackupTypeOK, FilesOK, NEW p \in Path, Connection(p),
         p = "cand" => Present(disk["cand"].db)
  PROVE  /\ disk' \in [Path -> Bundle] /\ FilesOK' /\ Kept(p)
         /\ disk'[p].mark = disk[p].mark
         /\ MixedBundle(disk'[p]) => MixedBundle(disk[p])
<1>1. CASE disk' = disk
  BY <1>1 DEF BackupTypeOK, FilesOK, Kept
<1> SUFFICES ASSUME NEW image \in Image, disk' = Closed(p, image) \/ disk' = Framed(p, image)
             PROVE  /\ disk' \in [Path -> Bundle] /\ FilesOK' /\ Kept(p)
                    /\ disk'[p].mark = disk[p].mark
                    /\ MixedBundle(disk'[p]) => MixedBundle(disk[p])
  BY <1>1 DEF Connection, GrownImage
<1>3. \A q \in Path : Whole(disk[q])
  BY DEF FilesOK
<1>4. /\ Staged(disk["cand"])
      /\ p = "cand" => LineageOf(p) # "own"
  <2>1. Staged(disk["cand"])
    BY DEF FilesOK
  <2> QED
    BY <2>1 DEF Staged, LineageOf
<1>5. CASE disk' = Closed(p, image)
  <2>1. /\ disk' \in [Path -> Bundle] /\ Kept(p)
        /\ disk'[p].db = FileOf(LineageOf(p), image) /\ disk'[p].wal = NoFile
        /\ disk'[p].mark = disk[p].mark /\ Whole(disk'[p])
    BY <1>5, ClosedShape DEF Kept
  <2>2. \A q \in Path : Whole(disk'[q])
    BY <1>3, <2>1 DEF Kept
  <2>3. Staged(disk'["cand"])
    <3>1. CASE p = "cand"
      BY <1>4, <2>1, <3>1, Kinds, FileOfType, LineageType DEF Staged
    <3>2. CASE p # "cand"
      BY <1>4, <2>1, <3>2 DEF Kept, Path
    <3> QED
      BY <3>1, <3>2
  <2>4. ~MixedBundle(disk'[p])
    BY <2>1, Kinds DEF MixedBundle
  <2> QED
    BY <2>1, <2>2, <2>3, <2>4 DEF FilesOK
<1>6. CASE disk' = Framed(p, image)
  <2>1. /\ disk' \in [Path -> Bundle] /\ Kept(p)
        /\ disk'[p].db.of = LineageOf(p) /\ disk'[p].wal = FileOf(LineageOf(p), image)
        /\ disk'[p].mark = disk[p].mark /\ Whole(disk'[p])
    BY <1>6, FramedShape DEF Kept
  <2>2. \A q \in Path : Whole(disk'[q])
    BY <1>3, <2>1 DEF Kept
  <2>3. disk'[p].wal.of = LineageOf(p)
    BY <2>1, FileOfType, LineageType
  <2>4. Staged(disk'["cand"])
    <3>1. CASE p = "cand"
      BY <1>4, <2>1, <2>3, <3>1 DEF Staged
    <3>2. CASE p # "cand"
      BY <1>4, <2>1, <3>2 DEF Kept, Path
    <3> QED
      BY <3>1, <3>2
  <2> QED
    BY <2>1, <2>2, <2>3, <2>4 DEF FilesOK, MixedBundle
<1> QED
  BY <1>5, <1>6

LEMMA Singles ==
  "live" \in Path /\ "cand" \in Path /\ "aside" \in Path
  /\ "db" \in Member /\ "wal" \in Member /\ "mark" \in Member
BY DEF Path, Member

LEMMA ImageType ==
  /\ Empty \in Image
  /\ \A image \in Image, w \in SUBSET AnyWrite :
       [image EXCEPT !.writes = @ \cup w] \in Image
  /\ \A image \in Image, w \in AnyWrite :
       /\ [image EXCEPT !.writes = @ \cup {w}] \in Image
       /\ [image EXCEPT !.writes = @ \cup {w}].writes = image.writes \cup {w}
       /\ [image EXCEPT !.writes = @ \cup {w}].rev = image.rev
BY DEF Empty, Image, Revision

\* What a connection writes at a path is on top of what it saw there.
LEMMA GrownImages ==
  ASSUME BackupTypeOK, NEW p \in Path
  PROVE  /\ Opened(p) \in GrownImage(p) /\ Migrated(Opened(p)) \in GrownImage(p)
         /\ ~Present(disk[p].db) => Empty \in GrownImage(p)
         /\ \A w \in AnyWrite :
              /\ [Opened(p) EXCEPT !.writes = @ \cup {w}] \in GrownImage(p)
              /\ [Migrated(Opened(p)) EXCEPT !.writes = @ \cup {w}] \in GrownImage(p)
              /\ [Migrated(Opened(p)) EXCEPT !.writes = @ \cup {w}].rev >= release
<1>1. Opened(p) \in Image /\ Migrated(Opened(p)) \in Image
  BY OpenedType, MigratedType
<1>2. disk[p] \in Bundle
  BY DEF BackupTypeOK
<1>3. ~Present(disk[p].db) => Opened(p) = Empty
  BY <1>2, OpenedBundleType DEF Opened
<1>4. Opened(p).rev \in Revision /\ release \in Revision
  BY <1>1 DEF Image, BackupTypeOK, Revision
<1>5. Opened(p).rev <= Opened(p).rev
  BY <1>4 DEF Revision
<1>6. /\ Opened(p).rev <= Migrated(Opened(p)).rev /\ Opened(p).writes \subseteq Migrated(Opened(p)).writes
      /\ Migrated(Opened(p)).rev >= release
  <2>1. Migrated(Opened(p)) = [Opened(p) EXCEPT !.rev = Larger(Opened(p).rev, release)]
    BY DEF Migrated
  <2>2. Migrated(Opened(p)).rev = Larger(Opened(p).rev, release)
    BY <1>1, <2>1 DEF Image
  <2>3. Larger(Opened(p).rev, release) >= Opened(p).rev
    BY <1>4, LargerRevision
  <2> QED
    BY <1>1, <1>4, <2>2, <2>3, MigratedType DEF Revision
<1>7. ASSUME NEW w \in AnyWrite, NEW image \in GrownImage(p)
      PROVE  /\ [image EXCEPT !.writes = @ \cup {w}] \in GrownImage(p)
             /\ [image EXCEPT !.writes = @ \cup {w}].rev = image.rev
  BY ImageType DEF GrownImage
<1>8. Opened(p) \in GrownImage(p) /\ Migrated(Opened(p)) \in GrownImage(p)
  BY <1>1, <1>5, <1>6 DEF GrownImage
<1> QED
  BY <1>3, <1>6, <1>7, <1>8

\* The entrypoint, serve and the commands beside it work on the canonical path.
Outside ==
  \/ Boot \/ TakeSnapshot \/ Migrate \/ ArchiveAtBoot \/ Serve
  \/ (\E w \in Write : Commit(w)) \/ PeriodicArchive \/ IntervalPasses \/ Stop \/ Deploy
  \/ (\E t \in ToolWrite : Tool(t)) \/ OperatorBackup

LEMMA OutsideSteps ==
  ASSUME BackupTypeOK, Outside
  PROVE  Connection("live")
<1>1. /\ Opened("live") \in GrownImage("live") /\ Migrated(Opened("live")) \in GrownImage("live")
      /\ ~Present(disk["live"].db) => Empty \in GrownImage("live")
      /\ \A w \in AnyWrite :
           /\ [Opened("live") EXCEPT !.writes = @ \cup {w}] \in GrownImage("live")
           /\ [Migrated(Opened("live")) EXCEPT !.writes = @ \cup {w}] \in GrownImage("live")
  BY GrownImages, Singles
<1>2. CASE TakeSnapshot
  BY <1>1, <1>2 DEF TakeSnapshot, Connection
<1>3. CASE Migrate
  BY <1>1, <1>3 DEF Migrate, Connection
<1>4. CASE ArchiveAtBoot
  BY <1>1, <1>4 DEF ArchiveAtBoot, Connection
<1>5. CASE Serve
  BY <1>1, <1>5 DEF Serve, Connection
<1>6. CASE \E w \in Write : Commit(w)
  <2>1. PICK w \in Write : Commit(w)
    BY <1>6
  <2>2. [Opened("live") EXCEPT !.writes = @ \cup {w}] \in GrownImage("live")
    BY <1>1 DEF AnyWrite
  <2> QED
    BY <2>1, <2>2 DEF Commit, Connection
<1>7. CASE Stop
  BY <1>1, <1>7 DEF Stop, Connection
<1>8. CASE \E t \in ToolWrite : Tool(t)
  <2>1. PICK t \in ToolWrite : Tool(t)
    BY <1>8
  <2>2. [Migrated(Opened("live")) EXCEPT !.writes = @ \cup {t}] \in GrownImage("live")
    BY <1>1 DEF AnyWrite
  <2> QED
    BY <2>1, <2>2 DEF Tool, Stored, Connection
<1>9. CASE OperatorBackup
  BY <1>1, <1>9 DEF OperatorBackup, Connection
<1>10. CASE Boot \/ PeriodicArchive \/ IntervalPasses \/ Deploy
  BY <1>1, <1>10 DEF Boot, PeriodicArchive, IntervalPasses, Deploy, Connection
<1> QED
  BY <1>2, <1>3, <1>4, <1>5, <1>6, <1>7, <1>8, <1>9, <1>10 DEF Outside

LEMMA MarkShape ==
  ASSUME NEW base, AllWhole(base), NEW p \in Path, NEW f \in {Mark, NoFile},
         NEW d, Differs(d, base, p, "mark", f)
  PROVE  /\ AllWhole(d) /\ d[p].mark = f
         /\ d[p].db = base[p].db /\ d[p].wal = base[p].wal
         /\ \A q \in Path : q # p => d[q] = base[q]
<1>1. f \in FileKind("mark")
  BY DEF FileKind
<1>2. /\ AllWhole(d) /\ d[p]["mark"] = f
      /\ \A q \in Path, k \in Member : q # p \/ k # "mark" => d[q][k] = base[q][k]
      /\ \A q \in Path : q # p => d[q] = base[q]
  BY <1>1, OneShape, Singles
<1> QED
  BY <1>2, Singles

LEMMA BlankShape ==
  ASSUME NEW base, AllWhole(base), NEW p \in Path, NEW b, Whole(b),
         NEW d, Replaced(d, base, p, b)
  PROVE  AllWhole(d) /\ d[p] = b /\ \A q \in Path : q # p => d[q] = base[q]
BY DEF AllWhole, Whole, Replaced

LEMMA NoBundleWhole ==
  /\ Whole(NoBundle) /\ Staged(NoBundle)
  /\ NoBundle.db = NoFile /\ NoBundle.wal = NoFile /\ NoBundle.mark = NoFile
BY Kinds DEF NoBundle, Whole, Bundle, Member, Staged

LEMMA CommandsOnFiles ==
  ASSUME BackupTypeOK, FilesOK, Resume \/ FreeTarget \/ Crash
  PROVE  AllWhole(disk') /\ Staged(disk'["cand"])
<1>1. AllWhole(disk) /\ Staged(disk["cand"])
  BY DiskWhole
<1>2. CASE Resume
  <2> DEFINE f == FileOf("own", Migrated(Opened("live")))
             b == [NoBundle EXCEPT !.db = f]
  <2>1. f \in File /\ f \in FileKind("db")
    BY OpenedType, MigratedType, FileOfType, Singles DEF Lineage
  <2>2. Whole(b)
    BY <2>1, NoBundleWhole DEF Whole, Bundle, Member
  <2>3. Replaced(disk', disk, "live", b)
    BY <1>2 DEF Resume, Replaced
  <2> HIDE DEF b
  <2> QED
    BY <1>1, <2>2, <2>3, BlankShape DEF Path
<1>3. CASE FreeTarget
  <2>1. Replaced(disk', disk, "live", NoBundle)
    BY <1>3 DEF FreeTarget, Replaced
  <2> QED
    BY <1>1, <2>1, BlankShape, NoBundleWhole DEF Path
<1>4. CASE Crash
  <2>1. disk' = disk \/ Replaced(disk', disk, "cand", NoBundle)
    BY <1>4 DEF Crash, Replaced
  <2> QED
    BY <1>1, <2>1, BlankShape, NoBundleWhole DEF Path
<1> QED
  BY <1>2, <1>3, <1>4

\* A restore writes at one path: the marker, a restored database, its log.
Restoring == RestoreMarker \/ RestoreDatabase \/ RestoreMigrate \/ RestoreEnd

LEMMA RestoreSteps ==
  ASSUME BackupTypeOK, FilesOK, RestoreOK, Restoring
  PROVE  /\ AllWhole(disk') /\ Staged(disk'["cand"])
         /\ Kept(read.path)
         /\ read.path = "live" \/ read.path = "cand"
         /\ MixedBundle(disk'[read.path]) => MixedBundle(disk[read.path])
<1> DEFINE p == read.path
<1>1. /\ AllWhole(disk) /\ Staged(disk["cand"])
      /\ p \in Path /\ (p = "live" \/ p = "cand") /\ task = "restore"
      /\ read.image \in Image
  BY DiskWhole, Singles DEF Restoring, RestoreMarker, RestoreDatabase, RestoreMigrate, RestoreEnd,
     RestoreOK, BackupTypeOK
<1> HIDE DEF p
<1>2. CASE RestoreMarker
  <2>1. disk' = disk \/ Differs(disk', disk, p, "mark", Mark)
    BY <1>2 DEF RestoreMarker, p, Differs
  <2>2. CASE disk' = disk
    BY <1>1, <2>2 DEF p, Kept
  <2>3. CASE Differs(disk', disk, p, "mark", Mark)
    <3>1. /\ AllWhole(disk') /\ Kept(p)
          /\ disk'[p].db = disk[p].db /\ disk'[p].wal = disk[p].wal
      BY <1>1, <2>3, MarkShape DEF Kept
    <3> QED
      BY <1>1, <3>1, Singles DEF p, Kept, MixedBundle, Staged
  <2> QED
    BY <2>1, <2>2, <2>3
<1>3. CASE RestoreDatabase
  <2> DEFINE f == FileOf("restored", read.image)
  <2>1. \/ disk' = disk
        \/ Differs(disk', disk, p, "mark", NoFile)
        \/ Differs(disk', disk, p, "db", f) /\ ~Present(disk[p].db)
    BY <1>3 DEF RestoreDatabase, PauseWithdrawn, p, Differs
  <2>2. CASE disk' = disk
    BY <1>1, <2>2 DEF p, Kept
  <2>3. CASE Differs(disk', disk, p, "mark", NoFile)
    <3>1. /\ AllWhole(disk') /\ Kept(p)
          /\ disk'[p].db = disk[p].db /\ disk'[p].wal = disk[p].wal
      BY <1>1, <2>3, MarkShape DEF Kept
    <3> QED
      BY <1>1, <3>1, Singles DEF p, Kept, MixedBundle, Staged
  <2>4. CASE Differs(disk', disk, p, "db", f) /\ ~Present(disk[p].db)
    <3>1. f \in FileKind("db") /\ f.of = "restored"
      BY <1>1, FileOfType DEF Lineage
    <3> HIDE DEF f
    <3>3. /\ AllWhole(disk') /\ Kept(p) /\ disk'[p].db = f /\ disk'[p].wal = disk[p].wal
      BY <1>1, <2>4, <3>1, OneShape, Singles DEF Kept
    <3>4. stage = 2
      BY <1>3 DEF RestoreDatabase
    <3>5. disk[p].wal = NoFile
      BY <1>1, <3>4 DEF RestoreOK, p
    <3>6. Staged(disk'["cand"])
      BY <1>1, <3>1, <3>3, <3>5, Kinds DEF Staged, Kept, Path
    <3> QED
      BY <1>1, <3>3, <3>5, <3>6, Kinds DEF p, MixedBundle
  <2> QED
    BY <2>1, <2>2, <2>3, <2>4
<1>4. CASE RestoreMigrate
  <2>1. stage = 3 /\ Present(disk[p].db)
    BY <1>1, <1>4 DEF RestoreMigrate, RestoreOK, p
  <2>2. Migrated(Opened(p)) \in GrownImage(p)
    BY <1>1, GrownImages
  <2>3. Connection(p)
    BY <1>4, <2>2 DEF RestoreMigrate, Connection, p
  <2> QED
    BY <1>1, <2>1, <2>3, ConnectionFiles DEF FilesOK, AllWhole, p
<1>5. CASE RestoreEnd
  <2> DEFINE closed == IF read.migrate THEN Closed(p, Opened(p)) ELSE disk
  <2>1. stage = 4 /\ Present(disk[p].db)
    BY <1>1, <1>5 DEF RestoreEnd, RestoreOK, p
  <2>2. Opened(p) \in Image
    BY <1>1, OpenedType
  <2>3. /\ AllWhole(closed) /\ Staged(closed["cand"])
        /\ \A q \in Path : q # p => closed[q] = disk[q]
        /\ MixedBundle(closed[p]) => MixedBundle(disk[p])
    <3>1. CASE ~read.migrate
      BY <1>1, <3>1
    <3>2. CASE read.migrate
      <4>1. closed = Closed(p, Opened(p))
        BY <3>2
      <4>2. /\ closed \in [Path -> Bundle] /\ Whole(closed[p])
            /\ \A q \in Path : q # p => closed[q] = disk[q]
            /\ closed[p].db = FileOf(LineageOf(p), Opened(p)) /\ closed[p].wal = NoFile
        BY <1>1, <2>2, <4>1, ClosedShape
      <4>3. p = "cand" => LineageOf(p) # "own"
        BY <1>1, <2>1 DEF LineageOf, Staged
      <4>4. closed[p].db.of = LineageOf(p) /\ ~Present(closed[p].wal) /\ closed[p].wal.of = "none"
        BY <1>1, <2>2, <4>2, LineageType, FileOfType, Kinds
      <4>5. AllWhole(closed)
        BY <1>1, <4>2 DEF AllWhole
      <4>6. Staged(closed["cand"])
        BY <1>1, <4>2, <4>3, <4>4, Singles DEF Staged
      <4> QED
        BY <4>2, <4>4, <4>5, <4>6 DEF MixedBundle
    <3> QED
      BY <3>1, <3>2
  <2>4. Differs(disk', closed, p, "mark", Mark)
    BY <1>5 DEF RestoreEnd, p, Differs
  <2> HIDE DEF closed
  <2>5. /\ AllWhole(disk') /\ disk'[p].db = closed[p].db /\ disk'[p].wal = closed[p].wal
        /\ \A q \in Path : q # p => disk'[q] = closed[q]
    BY <1>1, <2>3, <2>4, MarkShape
  <2>6. Staged(disk'["cand"])
    BY <2>3, <2>5, Singles DEF Staged
  <2> QED
    BY <1>1, <2>3, <2>5, <2>6 DEF p, Kept, MixedBundle
<1> QED
  BY <1>2, <1>3, <1>4, <1>5 DEF Restoring

-----------------------------------------------------------------------------
(* The moves of a rollback. *)

\* The member that is moved at a stage, and from where to where.
Route(from, to, m) ==
  \/ /\ from = "live" /\ to = "aside"
     /\ \/ stage = 1 /\ m = "db"
        \/ stage = 2 /\ m = "wal"
        \/ stage = 3 /\ m = "mark"
  \/ /\ from = "cand" /\ to = "live"
     /\ \/ stage = 5 /\ m = "mark"
        \/ stage = 6 /\ m = "wal"
        \/ stage = 7 /\ m = "db"

Recorded(from, to, m, removed) ==
  [from |-> from, to |-> to, member |-> m, file |-> disk[from][m], removed |-> removed]

Onward == task' = "install" /\ stage' = stage + 1
TurnsBack == task' = "undo" /\ stage' = stage

Relocates(from, to, m) ==
  /\ disk' = Claimed(from, to, m)
  /\ moved' = Append(moved, Recorded(from, to, m, TRUE))
  /\ Onward \/ TurnsBack
Links(from, to, m) ==
  /\ Differs(disk', disk, to, m, disk[from][m])
  /\ moved' = Append(moved, Recorded(from, to, m, FALSE))
  /\ TurnsBack
MovesFile ==
  \E from \in Path, to \in Path, m \in Member :
    /\ Route(from, to, m) /\ Present(disk[from][m]) /\ ~Present(disk[to][m])
    /\ Relocates(from, to, m) \/ Links(from, to, m)

\* A stage with nothing to move, and one that gives the rollback up.
Skips ==
  /\ UNCHANGED <<disk, moved>> /\ Onward
  /\ stage = 4 => disk["live"] = NoBundle
  /\ stage = 1 => ~Present(disk["live"].db)
  /\ stage = 2 => ~Present(disk["live"].wal)
GivesUp == UNCHANGED <<disk, moved>> /\ TurnsBack

Forward == MoveAside \/ NothingRemains \/ MoveIn

LEMMA ClaimCases ==
  ASSUME task = "install", NEW from \in Path, NEW to \in Path, NEW m \in Member,
         Claim(from, to, m), Route(from, to, m), Present(disk[from][m])
  PROVE  UNCHANGED <<read, stuck>> /\ (MovesFile \/ GivesUp)
<1>1. CASE /\ ~Present(disk[to][m])
           /\ disk' = Claimed(from, to, m)
           /\ moved' = Append(moved, Recorded(from, to, m, TRUE))
           /\ \/ stage' = stage + 1 /\ UNCHANGED <<task, read, stuck>> /\ NoFault
              \/ to = "live" /\ Undoing /\ Fault
  <2>1. Relocates(from, to, m) /\ UNCHANGED <<read, stuck>>
    BY <1>1 DEF Relocates, Onward, TurnsBack, Undoing
  <2> QED
    BY <1>1, <2>1 DEF MovesFile
<1>2. CASE /\ ~Present(disk[to][m])
           /\ disk' = [disk EXCEPT ![to][m] = disk[from][m]]
           /\ moved' = Append(moved, Recorded(from, to, m, FALSE))
           /\ Undoing /\ Fault
  <2>1. Links(from, to, m) /\ UNCHANGED <<read, stuck>>
    BY <1>2 DEF Links, TurnsBack, Undoing, Differs
  <2> QED
    BY <1>2, <2>1 DEF MovesFile
<1>3. CASE Undoing /\ UNCHANGED <<disk, moved>>
  BY <1>3 DEF GivesUp, TurnsBack, Undoing
<1> QED
  BY <1>1, <1>2, <1>3 DEF Claim, Recorded

LEMMA ForwardCases ==
  ASSUME BackupTypeOK, Forward
  PROVE  /\ task = "install" /\ stage <= 7 /\ UNCHANGED <<read, stuck, svc, kept, boots, release, tools, acked>>
         /\ MovesFile \/ Skips \/ GivesUp
<1>1. stage \in 1 .. 8
  BY DEF BackupTypeOK
<1>2. AsideOrder = <<"db", "wal", "mark">> /\ InOrder = <<"mark", "wal", "db">> /\ Len(InOrder) = 3
  BY DEF AsideOrder, InOrder
<1>3. CASE MoveAside
  <2> DEFINE m == AsideOrder[stage]
  <2>1. /\ task = "install" /\ stage \in 1 .. 3 /\ UNCHANGED <<svc, kept, boots, release, tools, acked>>
        /\ IF Present(disk["live"][m]) THEN Claim("live", "aside", m)
                                       ELSE NextStep /\ UNCHANGED disk /\ NoFault
    BY <1>3 DEF MoveAside, archives, written
  <2>2. \/ stage = 1 /\ m = "db"
        \/ stage = 2 /\ m = "wal"
        \/ stage = 3 /\ m = "mark"
    BY <1>2, <2>1
  <2>3. m \in Member /\ Route("live", "aside", m)
    BY <2>2, Singles DEF Route
  <2> HIDE DEF m
  <2>4. CASE Present(disk["live"][m])
    BY <2>1, <2>3, <2>4, ClaimCases, Singles
  <2>5. CASE ~Present(disk["live"][m])
    BY <2>1, <2>2, <2>5 DEF NextStep, Skips, Onward
  <2> QED
    BY <2>1, <2>4, <2>5
<1>4. CASE NothingRemains
  BY <1>4 DEF NothingRemains, FreeBundle, NextStep, Undoing, Skips, GivesUp, Onward, TurnsBack,
     archives, written
<1>5. CASE MoveIn
  <2> DEFINE m == InOrder[stage - 4]
  <2>1. /\ task = "install" /\ stage \in 5 .. 7 /\ UNCHANGED <<svc, kept, boots, release, tools, acked>>
        /\ IF Present(disk["cand"][m]) THEN Claim("cand", "live", m)
                                       ELSE NextStep /\ UNCHANGED disk /\ NoFault
    BY <1>2, <1>5 DEF MoveIn, archives, written
  <2>2. \/ stage = 5 /\ m = "mark"
        \/ stage = 6 /\ m = "wal"
        \/ stage = 7 /\ m = "db"
    BY <1>2, <2>1
  <2>3. m \in Member /\ Route("cand", "live", m)
    BY <2>2, Singles DEF Route
  <2> HIDE DEF m
  <2>4. CASE Present(disk["cand"][m])
    BY <2>1, <2>3, <2>4, ClaimCases, Singles
  <2>5. CASE ~Present(disk["cand"][m])
    BY <2>1, <2>2, <2>5 DEF NextStep, Skips, Onward
  <2> QED
    BY <2>1, <2>4, <2>5
<1> QED
  BY <1>3, <1>4, <1>5 DEF Forward

\* What an entry of the journal says, and how it is undone.
LEMMA NewEntry ==
  ASSUME BackupTypeOK, FilesOK, NEW from \in Path, NEW to \in Path, NEW m \in Member,
         NEW removed \in BOOLEAN
  PROVE  /\ Recorded(from, to, m, removed) \in Move
         /\ Recorded(from, to, m, removed).from = from /\ Recorded(from, to, m, removed).to = to
         /\ Recorded(from, to, m, removed).member = m
         /\ Recorded(from, to, m, removed).file = disk[from][m]
         /\ Recorded(from, to, m, removed).removed = removed
<1>1. disk[from][m] \in File
  BY DiskWhole, Kinds
<1> QED
  BY <1>1 DEF Recorded, Move

Pops == moved # <<>> /\ moved' = SubSeq(moved, 1, Len(moved) - 1)
PutsBack(x) ==
  /\ disk[x.to][x.member] = x.file
  /\ x.removed => ~Present(disk[x.from][x.member]) /\ disk' = Claimed(x.to, x.from, x.member)
  /\ ~x.removed => Differs(disk', disk, x.to, x.member, NoFile)

LEMMA UndoCases ==
  ASSUME BackupTypeOK, JournalOK, Undo
  PROVE  /\ task = "undo" /\ UNCHANGED <<svc, task, stage, read, kept, boots, release, tools, acked>>
         /\ Pops /\ Entry(UndoNext) /\ UndoNext \in Move
         /\ \/ disk' = disk /\ stuck' = TRUE
            \/ /\ disk' = disk /\ stuck' = stuck /\ ~Present(disk[UndoNext.to][UndoNext.member])
               /\ UndoNext.removed => Present(disk[UndoNext.from][UndoNext.member])
            \/ stuck' \in {stuck, TRUE} /\ PutsBack(UndoNext)
<1> DEFINE m == UndoNext
           at == disk[m.to][m.member]
           back == disk[m.from][m.member]
<1>1. /\ task = "undo" /\ UNCHANGED <<svc, task, stage, read, kept, boots, release, tools, acked>>
      /\ Pops
  BY DEF Undo, Pops, archives, written
<1>2. moved \in Seq(Move) /\ stuck \in BOOLEAN
  BY DEF BackupTypeOK
<1>3. Len(moved) \in DOMAIN moved /\ m \in Move
  BY <1>1, <1>2, Popped DEF Pops, UndoNext
<1>4. Entry(m)
  BY <1>3 DEF JournalOK, UndoNext
<1>5. \/ /\ ~Present(at)
         /\ stuck' = (stuck \/ (m.removed /\ ~Present(back)))
         /\ UNCHANGED disk
      \/ stuck' = TRUE /\ UNCHANGED disk
      \/ /\ at = m.file /\ (m.removed => ~Present(back))
         /\ disk' = PutBack(m)
         /\ stuck' \in {stuck, TRUE}
  BY DEF Undo
<1>6. m.removed \in BOOLEAN
  BY <1>3 DEF Move
<1> HIDE DEF m
<1>7. CASE /\ ~Present(at)
           /\ stuck' = (stuck \/ (m.removed /\ ~Present(back)))
           /\ UNCHANGED disk
  <2>1. ASSUME m.removed, ~Present(back) PROVE stuck' = TRUE
    BY <1>7, <2>1, Zenon
  <2>2. ASSUME ~(m.removed /\ ~Present(back)) PROVE stuck' = stuck
    <3>1. (stuck \/ (m.removed /\ ~Present(back))) = stuck
      BY <1>2, <2>2, Zenon
    <3> QED
      BY <1>7, <3>1
  <2>3. stuck' = TRUE \/ (stuck' = stuck /\ (m.removed => Present(back)))
    BY <2>1, <2>2
  <2> QED
    BY <1>1, <1>3, <1>4, <1>7, <2>3 DEF m
<1>8. CASE /\ at = m.file /\ (m.removed => ~Present(back))
           /\ disk' = PutBack(m)
           /\ stuck' \in {stuck, TRUE}
  <2>1. PutsBack(m)
    BY <1>6, <1>8 DEF PutBack, PutsBack, Differs
  <2> QED
    BY <1>1, <1>3, <1>4, <1>8, <2>1 DEF m
<1> QED
  BY <1>1, <1>3, <1>4, <1>5, <1>7, <1>8 DEF m

-----------------------------------------------------------------------------
(* What every step leaves of its type. *)

LEMMA NewestType ==
  ASSUME BackupTypeOK, NEW x \in Image
  PROVE  Newest(Append(boots, x)) \in Seq(Image) /\ Len(Newest(Append(boots, x))) <= Retain
<1> DEFINE t == Append(boots, x)
<1>1. boots \in Seq(Image) /\ Len(boots) <= Retain /\ Retain \in Nat \ {0}
  BY BackupAssumption DEF BackupTypeOK
<1>2. t \in Seq(Image) /\ Len(t) = Len(boots) + 1 /\ Len(boots) \in Nat
  BY <1>1, Pushed
<1> HIDE DEF t
<1>3. CASE Len(t) > Retain
  <2>1. Len(t) - Retain + 1 \in 1 .. Len(t) + 1
    BY <1>1, <1>2, <1>3
  <2>2. \A i \in Len(t) - Retain + 1 .. Len(t) : t[i] \in Image
    BY <1>1, <1>2, <1>3, LenProperties, ElementOfSeq
  <2>3. Len(t) - Retain + 1 \in Int /\ Len(t) \in Int
    BY <1>1, <1>2
  <2>4. /\ SubSeq(t, Len(t) - Retain + 1, Len(t)) \in Seq(Image)
        /\ Len(SubSeq(t, Len(t) - Retain + 1, Len(t))) =
             IF Len(t) - Retain + 1 <= Len(t) THEN Len(t) - (Len(t) - Retain + 1) + 1 ELSE 0
    BY <2>2, <2>3, SubSeqProperties
  <2>5. Len(SubSeq(t, Len(t) - Retain + 1, Len(t))) = Retain
    BY <1>1, <1>2, <2>4
  <2> QED
    BY <1>1, <1>3, <2>4, <2>5 DEF Newest, t
<1>4. CASE ~(Len(t) > Retain)
  BY <1>1, <1>2, <1>4 DEF Newest, t
<1> QED
  BY <1>3, <1>4

LEMMA ArchivesType ==
  ASSUME BackupTypeOK, BackupNext
  PROVE  /\ kept' \subseteq Snapshot /\ kept \subseteq kept'
         /\ boots' \in Seq(Image) /\ Len(boots') <= Retain /\ due' \in BOOLEAN
<1>1. /\ kept \subseteq Snapshot /\ boots \in Seq(Image) /\ Len(boots) <= Retain /\ due \in BOOLEAN
      /\ Opened("live") \in Image
  BY OpenedType, Singles DEF BackupTypeOK
<1>2. UNCHANGED archives => UNCHANGED <<kept, boots, due>>
  BY DEF archives
<1>3. ASSUME BootArchive
      PROVE  /\ kept' = kept /\ boots' \in Seq(Image) /\ Len(boots') <= Retain /\ due' \in BOOLEAN
  BY <1>1, <1>2, <1>3, NewestType DEF BootArchive
<1>4. CASE ArchiveAtBoot \/ PeriodicArchive
  BY <1>1, <1>3, <1>4 DEF ArchiveAtBoot, PeriodicArchive
<1>5. CASE TakeSnapshot
  <2>1. Archived("pre", Opened("live")) \subseteq Snapshot
    BY <1>1 DEF Archived, Snapshot
  <2> QED
    BY <1>1, <1>5, <2>1 DEF TakeSnapshot
<1>6. CASE OperatorBackup
  <2>1. [kind |-> "operator", n |-> 0, image |-> Opened("live")] \in Snapshot
    BY <1>1 DEF Snapshot
  <2> QED
    BY <1>1, <1>6, <2>1 DEF OperatorBackup
<1>7. CASE IntervalPasses
  BY <1>1, <1>7 DEF IntervalPasses
<1>8. CASE Boot \/ Migrate \/ Serve \/ Stop \/ Deploy \/ Crash \/ Resume \/ FreeTarget \/ InstallBegin
  BY <1>1, <1>2, <1>8 DEF Boot, Migrate, Serve, Stop, Deploy, Crash, Resume, FreeTarget, InstallBegin
<1>9. CASE Command
  BY <1>1, <1>2, <1>9 DEF Command, RestoreMarker, RestoreDatabase, RestoreMigrate, RestoreEnd,
     MoveAside, NothingRemains, MoveIn, Verify, Undo, UndoEnd
<1>10. CASE (\E w \in Write : Commit(w)) \/ (\E t \in ToolWrite : Tool(t))
  BY <1>1, <1>2, <1>10 DEF Commit, Tool
<1>11. CASE \E p \in Targets, image \in Images, migrate \in BOOLEAN : RestoreBegin(p, image, migrate)
  BY <1>1, <1>2, <1>11 DEF RestoreBegin
<1> QED
  BY <1>4, <1>5, <1>6, <1>7, <1>8, <1>9, <1>10, <1>11 DEF BackupNext, Service

LEMMA PlainTypes ==
  ASSUME BackupTypeOK, BackupNext
  PROVE  /\ release' \in 1 .. 2 /\ faults' \in Nat
         /\ svc' \in {"down", "snapshot", "migrate", "archive", "ready", "serving"}
         /\ acked' \subseteq AnyWrite /\ tools' \subseteq ToolWrite
<1>1. /\ release \in 1 .. 2 /\ faults \in Nat
      /\ svc \in {"down", "snapshot", "migrate", "archive", "ready", "serving"}
      /\ acked \subseteq AnyWrite /\ tools \subseteq ToolWrite
  BY DEF BackupTypeOK
<1>2. /\ Fault \/ NoFault \/ UNCHANGED faults => faults' \in Nat
      /\ UNCHANGED written => UNCHANGED <<tools, acked>>
  BY <1>1 DEF Fault, NoFault, written
<1>3. BootArchive => NoFault \/ Fault
  BY DEF BootArchive
<1>4. CASE Boot \/ TakeSnapshot \/ Migrate \/ ArchiveAtBoot \/ Serve \/ PeriodicArchive \/ IntervalPasses \/ Stop
  BY <1>1, <1>2, <1>3, <1>4 DEF Boot, TakeSnapshot, Migrate, ArchiveAtBoot, Serve, PeriodicArchive,
     IntervalPasses, Stop
<1>5. CASE Deploy \/ Crash \/ OperatorBackup \/ Resume \/ FreeTarget \/ InstallBegin
  BY <1>1, <1>2, <1>5 DEF Deploy, Crash, OperatorBackup, Resume, FreeTarget, InstallBegin
<1>6. CASE (\E w \in Write : Commit(w)) \/ (\E t \in ToolWrite : Tool(t))
  BY <1>1, <1>2, <1>6 DEF Commit, Tool, AnyWrite
<1>7. CASE \E p \in Targets, image \in Images, migrate \in BOOLEAN : RestoreBegin(p, image, migrate)
  BY <1>1, <1>2, <1>7 DEF RestoreBegin
<1>8. CASE RestoreMarker \/ RestoreDatabase \/ RestoreMigrate \/ RestoreEnd
  BY <1>1, <1>2, <1>8 DEF RestoreMarker, RestoreDatabase, RestoreMigrate, RestoreEnd
<1>9. CASE NothingRemains \/ Verify \/ Undo \/ UndoEnd
  BY <1>1, <1>2, <1>9 DEF NothingRemains, Verify, Undo, UndoEnd
<1>10. CASE MoveAside \/ MoveIn
  <2>1. ASSUME NEW from, NEW to, NEW m, Claim(from, to, m)
        PROVE  Fault \/ NoFault
    BY <2>1 DEF Claim
  <2> QED
    BY <1>1, <1>2, <1>10, <2>1 DEF MoveAside, MoveIn
<1> QED
  BY <1>4, <1>5, <1>6, <1>7, <1>8, <1>9, <1>10 DEF BackupNext, Service, Command

\* What a command remembers between its steps.
CommandOK ==
  /\ stuck \in BOOLEAN /\ stage \in 1 .. 8
  /\ task \in {"idle", "restore", "install", "undo"}
  /\ read \in [path : Path, image : Image, migrate : BOOLEAN, cand : Bundle, live : Bundle]
  /\ moved \in Seq(Move)
  /\ report \in {"none", "installed", "reversed", "incomplete", "unpaused"}

LEMMA NoReadType ==
  /\ NoRead \in [path : Path, image : Image, migrate : BOOLEAN, cand : Bundle, live : Bundle]
  /\ <<>> \in Seq(Move)
<1>1. NoBundle \in Bundle /\ Empty \in Image
  BY NoBundleWhole, ImageType DEF Whole
<1> QED
  BY <1>1, EmptySeq, Singles DEF NoRead

LEMMA IdleCommand ==
  ASSUME task' = "idle", stage' = 1, read' = NoRead, moved' = <<>>, stuck' = FALSE,
         report' \in {"none", "installed", "reversed", "incomplete", "unpaused"}
  PROVE  CommandOK'
<1>1. read' \in [path : Path, image : Image, migrate : BOOLEAN, cand : Bundle, live : Bundle]
  BY NoReadType
<1>2. moved' \in Seq(Move)
  BY NoReadType
<1>3. stage' \in 1 .. 8
  OBVIOUS
<1>4. stuck' \in BOOLEAN
  BY Zenon
<1> QED
  BY <1>1, <1>2, <1>3, <1>4 DEF CommandOK

\* A restore begins, goes on and ends with a known path.
LEMMA RestoringCommand ==
  ASSUME BackupTypeOK, Restoring
  PROVE  /\ task = "restore" /\ UNCHANGED <<moved, stuck, report, svc, release>>
         /\ \/ task' = "idle" /\ stage' = 1 /\ read' = NoRead
            \/ task' = "restore" /\ read' = read /\ stage' = stage + 1 /\ stage \in 1 .. 3
<1>1. stage \in 1 .. 8
  BY DEF BackupTypeOK
<1> QED
  BY <1>1 DEF Restoring, RestoreMarker, RestoreDatabase, RestoreMigrate, RestoreEnd, EndRestore

LEMMA BeginsCommand ==
  ASSUME BackupTypeOK,
         \E p \in Targets, image \in Images, migrate \in BOOLEAN : RestoreBegin(p, image, migrate)
  PROVE  /\ task = "idle" /\ task' = "restore" /\ stage' = 1
         /\ read'.path \in {"live", "cand"} /\ Free(read'.path) /\ FreeBundle(read'.path)
         /\ CommandOK'
         /\ UNCHANGED <<disk, moved, stuck, svc, release>>
<1>1. PICK p \in Targets, image \in Images, migrate \in BOOLEAN : RestoreBegin(p, image, migrate)
  OBVIOUS
<1>2. p \in {"live", "cand"} /\ p \in Path
  BY BackupAssumption, Singles
<1>3. image \in Image
  <2>1. \A s \in kept : s.image \in Image
    BY DEF BackupTypeOK, Snapshot
  <2>2. \A i \in DOMAIN boots : boots[i] \in Image
    BY ElementOfSeq, LenProperties DEF BackupTypeOK
  <2> QED
    BY <2>1, <2>2 DEF Images
<1>4. /\ task = "idle" /\ task' = "restore" /\ stage' = 1 /\ Free(p) /\ FreeBundle(p)
      /\ read' = [NoRead EXCEPT !.path = p, !.image = image, !.migrate = migrate]
      /\ UNCHANGED <<disk, moved, stuck, report, svc, release>>
  BY <1>1 DEF RestoreBegin, Asked
<1>5. /\ read' \in [path : Path, image : Image, migrate : BOOLEAN, cand : Bundle, live : Bundle]
      /\ read'.path = p
  BY <1>2, <1>3, <1>4, NoReadType
<1>6. CommandOK'
  BY <1>4, <1>5 DEF CommandOK, BackupTypeOK
<1> QED
  BY <1>2, <1>4, <1>5, <1>6

LEMMA BeginsInstall ==
  ASSUME BackupTypeOK, InstallBegin
  PROVE  /\ task = "idle" /\ task' = "install" /\ stage' = 1
         /\ read'.cand = disk["cand"] /\ read'.live = disk["live"]
         /\ CommandOK'
         /\ Free("live") /\ Present(disk["cand"].db) /\ Present(disk["cand"].mark)
         /\ Present(disk["live"].db) \/ disk["live"] = NoBundle
         /\ disk["aside"] = NoBundle
         /\ UNCHANGED <<disk, moved, stuck, svc, release>>
<1>1. /\ task = "idle" /\ task' = "install" /\ stage' = 1
      /\ read' = [NoRead EXCEPT !.cand = disk["cand"], !.live = disk["live"]]
      /\ Free("live") /\ Present(disk["cand"].db) /\ Present(disk["cand"].mark)
      /\ Present(disk["live"].db) \/ disk["live"] = NoBundle
      /\ disk["aside"] = NoBundle
      /\ UNCHANGED <<disk, moved, stuck, svc, report, release>>
  BY DEF InstallBegin, Asked, FreeBundle
<1>2. disk["cand"] \in Bundle /\ disk["live"] \in Bundle
  BY Singles DEF BackupTypeOK
<1>3. /\ read' \in [path : Path, image : Image, migrate : BOOLEAN, cand : Bundle, live : Bundle]
      /\ read'.cand = disk["cand"] /\ read'.live = disk["live"]
  BY <1>1, <1>2, NoReadType
<1>4. CommandOK'
  BY <1>1, <1>3 DEF CommandOK, BackupTypeOK
<1> QED
  BY <1>1, <1>3, <1>4

\* A rollback that ends, and one that is turned back after its last move.
LEMMA EndsInstall ==
  ASSUME BackupTypeOK, Verify \/ UndoEnd \/ Crash
  PROVE  /\ CommandOK'
         /\ \/ task' = "idle" /\ moved' = <<>> /\ stuck' = FALSE
            \/ GivesUp /\ UNCHANGED <<read, stuck, svc, release>> /\ task = "install" /\ stage = 8
<1>1. /\ stuck \in BOOLEAN /\ stage \in 1 .. 8 /\ task \in {"idle", "restore", "install", "undo"}
      /\ read \in [path : Path, image : Image, migrate : BOOLEAN, cand : Bundle, live : Bundle]
      /\ moved \in Seq(Move) /\ report \in {"none", "installed", "reversed", "incomplete", "unpaused"}
  BY DEF BackupTypeOK
<1>2. ASSUME NEW how \in {"installed", "reversed", "incomplete", "unpaused"}, EndInstall(how)
      PROVE  CommandOK' /\ task' = "idle" /\ moved' = <<>> /\ stuck' = FALSE
  BY <1>2, IdleCommand DEF EndInstall
<1>3. CASE Verify
  <2>1. EndInstall("installed") \/ (Undoing /\ UNCHANGED <<moved, report>>)
    BY <1>3 DEF Verify
  <2>2. Len(InOrder) = 3
    BY DEF InOrder
  <2>3. /\ UNCHANGED <<disk, svc, release>> /\ task = "install" /\ stage = 8
    BY <1>3, <2>2 DEF Verify
  <2>4. ASSUME Undoing, UNCHANGED <<moved, report>>
        PROVE  CommandOK' /\ GivesUp /\ UNCHANGED <<read, stuck>>
    BY <1>1, <2>3, <2>4 DEF Undoing, CommandOK, GivesUp, TurnsBack
  <2> QED
    BY <1>2, <2>1, <2>3, <2>4
<1>4. CASE UndoEnd
  BY <1>2, <1>4 DEF UndoEnd
<1>5. CASE Crash
  BY <1>1, <1>5, IdleCommand DEF Crash
<1> QED
  BY <1>3, <1>4, <1>5

-----------------------------------------------------------------------------
(* Outside of a rollback. *)

RollbackOK ==
  JournalOK /\ ReadOK /\ SourceOK /\ AsideOK /\ LogOK /\ LinkOK /\ SupersededOK

LEMMA QuietRollback ==
  ASSUME task' \notin {"install", "undo"}, moved' = <<>>, stuck' = FALSE
  PROVE  RollbackOK'
<1>1. ~Rolling'
  BY DEF Rolling
<1>2. DOMAIN moved' = {}
  BY EmptySeq, LenProperties
<1>3. JournalOK'
  BY <1>1, <1>2 DEF JournalOK, Rolling
<1>4. ReadOK' /\ SourceOK' /\ AsideOK' /\ LogOK' /\ SupersededOK'
  BY <1>1 DEF ReadOK, SourceOK, AsideOK, LogOK, SupersededOK
<1>5. LinkOK'
  BY <1>2 DEF LinkOK
<1> QED
  BY <1>3, <1>4, <1>5 DEF RollbackOK

\* A connection leaves a database where there was one, no older and of the same
\* lineage, with all it saw; and one that is the last leaves no log.
LEMMA ConnectionKeeps ==
  ASSUME BackupTypeOK, FilesOK, NEW p \in Path, Connection(p)
  PROVE  /\ Present(disk[p].db) =>
              /\ Present(disk'[p].db) /\ disk'[p].db.of = disk[p].db.of
              /\ disk'[p].db.rev >= disk[p].db.rev
              /\ disk[p].db.writes \subseteq disk'[p].db.writes
         /\ Present(disk[p].db) \/ ~Present(disk[p].wal) =>
              disk[p].db.writes \cup disk[p].wal.writes
                \subseteq disk'[p].db.writes \cup disk'[p].wal.writes
<1>1. disk[p].db \in FileKind("db") /\ disk[p].wal \in FileKind("wal") /\ disk[p] \in Bundle
  BY DiskWhole, Singles DEF BackupTypeOK
<1>2. disk[p].db \in File /\ disk[p].wal \in File
  BY <1>1, Kinds, Singles
<1>3. disk[p].db.rev \in Revision /\ disk[p].wal.rev \in Revision
  BY <1>2 DEF File
<1>4. CASE disk' = disk
  BY <1>3, <1>4 DEF Revision
<1>5. ASSUME NEW image \in GrownImage(p), disk' = Closed(p, image) \/ disk' = Framed(p, image)
      PROVE  /\ Present(disk[p].db) =>
                  /\ Present(disk'[p].db) /\ disk'[p].db.of = disk[p].db.of
                  /\ disk'[p].db.rev >= disk[p].db.rev
                  /\ disk[p].db.writes \subseteq disk'[p].db.writes
             /\ Present(disk[p].db) \/ ~Present(disk[p].wal) =>
                  disk[p].db.writes \cup disk[p].wal.writes
                    \subseteq disk'[p].db.writes \cup disk'[p].wal.writes
  <2>1. image \in Image /\ Opened(p).writes \subseteq image.writes /\ Opened(p).rev <= image.rev
    BY DEF GrownImage
  <2>2. /\ Present(disk[p].db) =>
             /\ LineageOf(p) = disk[p].db.of
             /\ disk[p].db.writes \subseteq image.writes /\ disk[p].wal.writes \subseteq image.writes
             /\ disk[p].db.rev <= image.rev
        /\ ~Present(disk[p].db) => disk[p].db.writes = {}
        /\ ~Present(disk[p].wal) => disk[p].wal.writes = {}
    <3>1. Present(disk[p].db) =>
            /\ Opened(p).rev = Larger(disk[p].db.rev, disk[p].wal.rev)
            /\ Opened(p).writes = disk[p].db.writes \cup disk[p].wal.writes
      BY <1>1, OpenedBundleType DEF Opened
    <3>2. Larger(disk[p].db.rev, disk[p].wal.rev) >= disk[p].db.rev
      BY <1>3, LargerRevision
    <3>3. Larger(disk[p].db.rev, disk[p].wal.rev) \in Revision /\ image.rev \in Revision
      BY <1>3, <2>1, LargerRevision DEF Image
    <3>4. Present(disk[p].db) => disk[p].db.rev <= image.rev
      BY <1>3, <2>1, <3>1, <3>2, <3>3 DEF Revision
    <3>5. Present(disk[p].db) => LineageOf(p) = disk[p].db.of
      BY DEF LineageOf
    <3> QED
      BY <1>1, <2>1, <3>1, <3>4, <3>5, Kinds, Singles
  <2>3. LineageOf(p) \in Lineage /\ image.rev \in Revision
    BY <2>1, LineageType DEF Image
  <2>4. CASE disk' = Closed(p, image)
    <3>1. disk'[p].db = FileOf(LineageOf(p), image)
      BY <2>1, <2>4, ClosedShape
    <3>2. /\ Present(disk'[p].db) /\ disk'[p].db.of = LineageOf(p) /\ disk'[p].db.rev = image.rev
          /\ disk'[p].db.writes = image.writes
      BY <2>1, <2>3, <3>1, FileOfType
    <3> QED
      BY <1>3, <2>2, <2>3, <3>2 DEF Revision
  <2>5. CASE disk' = Framed(p, image)
    <3>1. /\ Present(disk'[p].db) /\ disk'[p].db.of = LineageOf(p)
          /\ Present(disk[p].db) =>
               disk'[p].db.writes = disk[p].db.writes /\ disk'[p].db.rev = disk[p].db.rev
          /\ disk'[p].wal = FileOf(LineageOf(p), image)
      BY <2>1, <2>5, FramedShape
    <3>2. disk'[p].wal.writes = image.writes
      BY <2>1, <2>3, <3>1, FileOfType
    <3> QED
      BY <1>3, <2>2, <2>3, <3>1, <3>2 DEF Revision
  <2> QED
    BY <1>5, <2>4, <2>5
<1> QED
  BY <1>4, <1>5 DEF Connection

LEMMA OutsideCommand ==
  ASSUME Outside
  PROVE  UNCHANGED <<task, stage, read, moved, stuck, report>>
<1>1. UNCHANGED command => UNCHANGED <<task, stage, read, moved, stuck, report>>
  BY DEF command
<1>2. UNCHANGED command
  BY Zenon DEF Outside, Boot, TakeSnapshot, Migrate, ArchiveAtBoot, Serve, Commit, PeriodicArchive,
     IntervalPasses, Stop, Deploy, Tool, OperatorBackup
<1> QED
  BY <1>1, <1>2

\* Under somebody else's lock there are only the commands that take none.
LEMMA UnderTheLock ==
  ASSUME Outside, ~Connected, ~Free("live")
  PROVE  /\ disk' = disk \/ \E t \in ToolWrite : Tool(t)
         /\ ~Connected' /\ (svc' = svc \/ svc' = "down")
<1>1. CASE Boot \/ OperatorBackup
  BY <1>1 DEF Boot, OperatorBackup
<1>2. CASE TakeSnapshot \/ Migrate \/ ArchiveAtBoot \/ Stop \/ PeriodicArchive \/ (\E w \in Write : Commit(w))
  BY <1>2 DEF TakeSnapshot, Migrate, ArchiveAtBoot, Stop, PeriodicArchive, Commit, Connected
<1>3. CASE Serve \/ IntervalPasses \/ Deploy
  BY <1>3 DEF Serve, IntervalPasses, Deploy, Connected
<1>4. CASE \E t \in ToolWrite : Tool(t)
  BY <1>4 DEF Tool, Connected
<1> QED
  BY <1>1, <1>2, <1>3, <1>4 DEF Outside

LEMMA ToolLeaves ==
  ASSUME BackupTypeOK, FilesOK, NEW t \in ToolWrite, Tool(t)
  PROVE  /\ Present(disk'["live"].db) /\ Opened("live")'.rev >= release
         /\ UNCHANGED <<svc, release, kept>>
         /\ ~(Connected \/ Migrating) =>
              disk'["live"].db.rev >= release /\ disk'["live"].wal = NoFile
         /\ ~Present(disk["live"].db) /\ ~(Connected \/ Migrating) => disk'["live"].db.of = "own"
<1> DEFINE image == [Migrated(Opened("live")) EXCEPT !.writes = @ \cup {t}]
<1>1. image \in GrownImage("live") /\ image.rev >= release
  BY GrownImages, Singles DEF AnyWrite
<1>2. /\ disk' = Stored("live", image) /\ UNCHANGED <<svc, release, kept>>
  BY DEF Tool, archives
<1> HIDE DEF image
<1>3. image \in Image /\ LineageOf("live") \in Lineage /\ image.rev \in Revision
      /\ release \in Revision
  BY <1>1, LineageType, Singles DEF GrownImage, Image, BackupTypeOK, Revision
<1>4. CASE Connected \/ Migrating
  <2>1. disk' = Framed("live", image)
    BY <1>2, <1>4 DEF Stored
  <2>2. /\ Present(disk'["live"].db) /\ disk'["live"].wal = FileOf(LineageOf("live"), image)
        /\ disk' \in [Path -> Bundle]
    BY <1>3, <2>1, FramedShape, Singles
  <2>3. disk'["live"].wal.rev = image.rev /\ disk'["live"] \in Bundle
    BY <1>3, <2>2, FileOfType, Singles
  <2>4. Opened("live")'.rev = Larger(disk'["live"].db.rev, disk'["live"].wal.rev)
    BY <2>2, <2>3, OpenedBundleType DEF Opened
  <2>5. disk'["live"].db.rev \in Revision
    BY <2>3, Singles DEF Bundle, File
  <2>6. Opened("live")'.rev >= image.rev /\ Opened("live")'.rev \in Revision
    BY <1>3, <2>3, <2>4, <2>5, LargerRevision
  <2> QED
    BY <1>1, <1>2, <1>3, <1>4, <2>2, <2>6 DEF Revision
<1>5. CASE ~(Connected \/ Migrating)
  <2>1. disk' = Closed("live", image)
    BY <1>2, <1>5 DEF Stored
  <2>2. /\ disk'["live"].db = FileOf(LineageOf("live"), image) /\ disk'["live"].wal = NoFile
        /\ disk' \in [Path -> Bundle]
    BY <1>3, <2>1, ClosedShape, Singles
  <2>3. /\ Present(disk'["live"].db) /\ disk'["live"].db.rev = image.rev
        /\ disk'["live"].db.of = LineageOf("live") /\ disk'["live"] \in Bundle
    BY <1>3, <2>2, FileOfType, Singles
  <2>4. Opened("live")'.rev = Larger(disk'["live"].db.rev, disk'["live"].wal.rev)
    BY <2>3, OpenedBundleType DEF Opened
  <2>5. disk'["live"].wal.rev \in Revision
    BY <2>2, Kinds DEF Revision
  <2>6. Opened("live")'.rev >= image.rev /\ Opened("live")'.rev \in Revision
    BY <1>3, <2>3, <2>4, <2>5, LargerRevision
  <2> QED
    BY <1>1, <1>2, <1>3, <2>2, <2>3, <2>6 DEF Revision, LineageOf
<1> QED
  BY <1>4, <1>5

LEMMA OutsideFiles ==
  ASSUME BackupTypeOK, FilesOK, Outside
  PROVE  /\ disk' \in [Path -> Bundle] /\ FilesOK' /\ Kept("live")
         /\ Connection("live")
BY OutsideSteps, ConnectionFiles, Singles

LEMMA OutsideHolders ==
  ASSUME BackupTypeOK, FilesOK, HoldersOK, Outside
  PROVE  HoldersOK'
<1>1. UNCHANGED <<task, read>>
  BY OutsideCommand
<1>2. CASE Rolling \/ (task = "restore" /\ read.path = "live")
  <2>1. ~Connected /\ ~Free("live")
    BY <1>2 DEF HoldersOK, Free, Holds, Rolling
  <2>2. ~Connected' /\ (svc' = svc \/ svc' = "down")
    BY <2>1, UnderTheLock
  <2> QED
    BY <1>1, <2>1, <2>2 DEF HoldersOK, Rolling, Connected
<1>3. CASE ~(Rolling \/ (task = "restore" /\ read.path = "live"))
  <2>1. Connection("live")
    BY OutsideSteps
  <2>2. Present(disk["live"].db) => Present(disk'["live"].db)
    BY <2>1, ConnectionKeeps, Singles
  <2>3. ASSUME NEW image \in Image, disk' = Closed("live", image) \/ disk' = Framed("live", image)
        PROVE  Present(disk'["live"].db)
    <3>1. CASE disk' = Closed("live", image)
      <4>1. disk'["live"].db = FileOf(LineageOf("live"), image)
        BY <3>1, ClosedShape, Singles
      <4> QED
        BY <4>1, FileOfType, LineageType, Singles
    <3>2. CASE disk' = Framed("live", image)
      BY <3>2, FramedShape, Singles
    <3> QED
      BY <2>3, <3>1, <3>2
  <2>4. Opened("live") \in Image /\ Migrated(Opened("live")) \in Image /\ Empty \in Image
    BY OpenedType, MigratedType, ImageType, Singles
  <2>5. ASSUME svc' \in {"migrate", "archive", "serving"} PROVE Present(disk'["live"].db)
    <3>1. CASE svc' = svc
      BY <2>2, <2>5, <3>1 DEF HoldersOK
    <3>2. CASE TakeSnapshot
      BY <2>3, <2>4, <2>5, <3>2 DEF TakeSnapshot
    <3>3. CASE Migrate
      BY <2>2, <2>5, <3>3 DEF Migrate, HoldersOK
    <3>4. CASE Serve
      BY <2>3, <2>4, <2>5, <3>4 DEF Serve
    <3>5. CASE Boot \/ ArchiveAtBoot \/ Stop
      BY <2>5, <3>5 DEF Boot, ArchiveAtBoot, Stop
    <3>6. CASE PeriodicArchive \/ IntervalPasses \/ Deploy \/ OperatorBackup
               \/ (\E w \in Write : Commit(w)) \/ (\E t \in ToolWrite : Tool(t))
      <4>1. svc' = svc
        BY <3>6 DEF PeriodicArchive, IntervalPasses, Deploy, OperatorBackup, Commit, Tool
      <4> QED
        BY <3>1, <4>1
    <3> QED
      BY <3>2, <3>3, <3>4, <3>5, <3>6 DEF Outside
  <2> QED
    BY <1>1, <1>3, <2>5 DEF HoldersOK, Rolling
<1> QED
  BY <1>2, <1>3

LEMMA OutsideRestore ==
  ASSUME BackupTypeOK, FilesOK, HoldersOK, RestoreOK, Outside
  PROVE  RestoreOK'
<1>1. UNCHANGED <<task, read, stage>> /\ Kept("live") /\ Connection("live")
  BY OutsideCommand, OutsideFiles
<1> SUFFICES ASSUME task = "restore"
             PROVE  RestoreOK'
  BY <1>1 DEF RestoreOK
<1>2. /\ read.path = "live" \/ read.path = "cand"
      /\ stage = 2 => disk[read.path].wal = NoFile
      /\ stage >= 3 => Present(disk[read.path].db)
  BY DEF RestoreOK
<1>3. CASE read.path = "cand"
  <2>1. disk'["cand"] = disk["cand"]
    BY <1>1 DEF Kept, Path
  <2> QED
    BY <1>1, <1>2, <1>3, <2>1 DEF RestoreOK
<1>4. CASE read.path = "live"
  <2>1. ~Connected /\ ~Free("live")
    BY <1>4 DEF HoldersOK, Free, Holds
  <2>2. disk' = disk \/ \E t \in ToolWrite : Tool(t)
    BY <2>1, UnderTheLock
  <2>3. Present(disk["live"].db) => Present(disk'["live"].db)
    BY <1>1, ConnectionKeeps, Singles
  <2>4. stage = 2 => disk'["live"].wal = NoFile
    <3>1. CASE disk' = disk
      BY <1>2, <1>4, <3>1
    <3>2. CASE \E t \in ToolWrite : Tool(t)
      <4>1. stage = 2 => ~(Connected \/ Migrating)
        BY <2>1 DEF Migrating
      <4> QED
        BY <3>2, <4>1, ToolLeaves
    <3> QED
      BY <2>2, <3>1, <3>2
  <2> QED
    BY <1>1, <1>2, <1>4, <2>3, <2>4 DEF RestoreOK
<1> QED
  BY <1>2, <1>3, <1>4

\* The revision on which a started container stands.
LEMMA OutsideSnapshot ==
  ASSUME BackupTypeOK, FilesOK, HoldersOK, RestoreOK, JournalOK, SnapshotOK, Outside
  PROVE  SnapshotOK'
<1> DEFINE Past(f) == f.of = "own" => f.rev >= release
           Journal == \A i \in DOMAIN moved :
             moved[i].to = "aside" /\ moved[i].member = "db" => Past(moved[i].file)
<1>1. /\ UNCHANGED <<task, read, stage, moved>> /\ Connection("live") /\ Kept("live")
      /\ disk' \in [Path -> Bundle] /\ FilesOK'
  BY OutsideCommand, OutsideFiles
<1>2. /\ disk["live"] \in Bundle /\ Opened("live") \in Image /\ release \in Revision
      /\ disk["live"].db.rev \in Revision /\ disk'["live"].db.rev \in Revision
      /\ Opened("live").rev \in Revision
  <2>1. disk["live"].db \in File /\ disk'["live"].db \in File /\ disk["live"] \in Bundle
    BY <1>1, Singles DEF BackupTypeOK, Bundle
  <2>2. Opened("live") \in Image
    BY OpenedType, Singles
  <2> QED
    BY <2>1, <2>2 DEF File, Image, BackupTypeOK, Revision
<1>3. CASE disk' = disk /\ UNCHANGED <<svc, release, kept>>
  <2>1. Opened("live")' = Opened("live") /\ Pending(Opened("live"))' = Pending(Opened("live"))
    BY <1>3 DEF Opened, Pending
  <2> QED
    BY <1>1, <1>3, <2>1 DEF SnapshotOK
<1>4. CASE svc' \in {"down", "snapshot", "serving"}
  BY <1>4 DEF SnapshotOK
<1>5. CASE \E t \in ToolWrite : Tool(t)
  <2>1. PICK t \in ToolWrite : Tool(t)
    BY <1>5
  <2>2. /\ Present(disk'["live"].db) /\ Opened("live")'.rev >= release
        /\ UNCHANGED <<svc, release, kept>>
        /\ ~(Connected \/ Migrating) => disk'["live"].db.rev >= release
    BY <2>1, ToolLeaves
  <2>3. ~Pending(Opened("live"))'
    <3>1. Opened("live")' \in Image
      BY <1>1, OpenedBundleType, Singles DEF Opened
    <3> QED
      BY <1>2, <2>2, <3>1 DEF Pending, Image, Revision
  <2>4. ASSUME svc = "ready"
        PROVE  disk'["live"].db.of = "own" => disk'["live"].db.rev >= release
    <3>1. CASE Present(disk["live"].db)
      <4>1. disk'["live"].db.of = disk["live"].db.of /\ disk'["live"].db.rev >= disk["live"].db.rev
        BY <1>1, <3>1, ConnectionKeeps, Singles
      <4>2. disk["live"].db.of = "own" => disk["live"].db.rev >= release
        BY <2>4 DEF SnapshotOK
      <4> QED
        BY <1>2, <4>1, <4>2 DEF Revision
    <3>2. CASE ~Present(disk["live"].db)
      <4>1. ~Connected /\ ~Migrating
        BY <2>4, <3>2 DEF Connected, Migrating, RestoreOK
      <4> QED
        BY <2>2, <4>1
    <3> QED
      BY <3>1, <3>2
  <2> QED
    BY <1>1, <2>2, <2>3, <2>4 DEF SnapshotOK
<1>6. CASE TakeSnapshot /\ svc' = "migrate"
  <2>1. /\ svc = "snapshot" /\ release' = release
        /\ disk' = IF Present(disk["live"].db) THEN disk ELSE Closed("live", Empty)
        /\ kept' = IF Pending(Opened("live")) /\ ~Reusable(Opened("live"))
                     THEN kept \cup Archived("pre", Opened("live"))
                     ELSE kept
    BY <1>6 DEF TakeSnapshot
  <2>2. Pending(Opened("live")) => \E s \in kept' : s.kind = "pre" /\ s.image = Opened("live")
    <3>1. CASE Reusable(Opened("live"))
      BY <2>1, <3>1 DEF Reusable
    <3>2. CASE Pending(Opened("live")) /\ ~Reusable(Opened("live"))
      <4>1. \E s \in Archived("pre", Opened("live")) : s.kind = "pre" /\ s.image = Opened("live")
        BY DEF Archived
      <4> QED
        BY <2>1, <3>2, <4>1
    <3> QED
      BY <3>1, <3>2
  <2>3. Opened("live")' = Opened("live")
    <3>1. CASE Present(disk["live"].db)
      BY <2>1, <3>1 DEF Opened
    <3>2. CASE ~Present(disk["live"].db)
      <4>1. disk' = Closed("live", Empty) /\ LineageOf("live") = "own"
        BY <2>1, <3>2 DEF LineageOf
      <4>2. disk'["live"].db = FileOf("own", Empty) /\ disk'["live"].wal = NoFile
        BY <4>1, ClosedShape, ImageType, Singles
      <4>3. OpenedBundle(disk'["live"]) = Empty
        BY <4>2 DEF OpenedBundle, FileOf, Present, Empty, NoFile, Larger
      <4>4. OpenedBundle(disk["live"]) = Empty
        BY <1>2, <3>2, OpenedBundleType
      <4> QED
        BY <4>3, <4>4 DEF Opened
    <3> QED
      BY <3>1, <3>2
  <2> QED
    BY <1>6, <2>1, <2>2, <2>3 DEF SnapshotOK, Pending
<1>7. CASE Migrate /\ svc' = "archive"
  <2>1. /\ release' = release
        /\ disk' = IF Pending(Opened("live")) THEN Framed("live", Migrated(Opened("live"))) ELSE disk
    BY <1>7 DEF Migrate
  <2>2. Opened("live")' \in Image
    BY <1>1, OpenedBundleType, Singles DEF Opened
  <2>3. CASE ~Pending(Opened("live"))
    BY <1>7, <2>1, <2>3 DEF SnapshotOK, Opened, Pending
  <2>4. CASE Pending(Opened("live"))
    <3>1. Migrated(Opened("live")) \in Image /\ Migrated(Opened("live")).rev >= release
      BY <1>2, MigratedType
    <3>2. /\ Present(disk'["live"].db)
          /\ disk'["live"].wal = FileOf(LineageOf("live"), Migrated(Opened("live")))
      BY <2>1, <2>4, <3>1, FramedShape, Singles
    <3>3. disk'["live"].wal.rev = Migrated(Opened("live")).rev /\ disk'["live"] \in Bundle
      BY <1>1, <3>1, <3>2, FileOfType, LineageType, Singles
    <3>4. Opened("live")'.rev = Larger(disk'["live"].db.rev, disk'["live"].wal.rev)
      BY <3>2, <3>3, OpenedBundleType DEF Opened
    <3>5. Migrated(Opened("live")).rev \in Revision
      BY <3>1 DEF Image
    <3>6. Opened("live")'.rev >= Migrated(Opened("live")).rev
      BY <1>2, <3>3, <3>4, <3>5, LargerRevision
    <3>7. ~Pending(Opened("live"))'
      BY <1>2, <2>1, <2>2, <3>1, <3>5, <3>6 DEF Pending, Image, Revision
    <3> QED
      BY <1>7, <3>7 DEF SnapshotOK
  <2> QED
    BY <2>3, <2>4
<1>8. CASE ArchiveAtBoot
  <2>1. /\ svc = "archive" /\ svc' = "ready" /\ release' = release
        /\ disk' = Closed("live", Opened("live"))
    BY <1>8 DEF ArchiveAtBoot
  <2>2. moved = <<>>
    BY <2>1 DEF HoldersOK, Connected, JournalOK
  <2>3. DOMAIN moved' = {}
    BY <1>1, <2>2, NothingMoved
  <2>4. disk'["live"].db.rev = Opened("live").rev
    <3>1. disk'["live"].db = FileOf(LineageOf("live"), Opened("live"))
      BY <1>2, <2>1, ClosedShape, Singles
    <3> QED
      BY <1>2, <3>1, FileOfType, LineageType, Singles
  <2>5. Opened("live").rev >= release
    BY <1>2, <2>1 DEF SnapshotOK, Pending, Revision
  <2> QED
    BY <2>1, <2>3, <2>4, <2>5 DEF SnapshotOK
<1>9. CASE OperatorBackup
  <2>1. ~Connected /\ UNCHANGED <<svc, release>> /\ Present(disk["live"].db)
    BY <1>9 DEF OperatorBackup, Free, Holds, Ledgered
  <2>2. disk'["live"].db.of = disk["live"].db.of /\ disk'["live"].db.rev >= disk["live"].db.rev
    BY <1>1, <2>1, ConnectionKeeps, Singles
  <2> QED
    BY <1>1, <1>2, <2>1, <2>2 DEF SnapshotOK, Connected, Revision
<1>10. CASE IntervalPasses \/ PeriodicArchive
  <2>1. disk' = disk /\ UNCHANGED <<svc, release>> /\ kept' = kept
    BY <1>10 DEF IntervalPasses, PeriodicArchive, BootArchive, archives
  <2> QED
    BY <1>3, <2>1
<1>11. CASE Boot \/ Serve \/ Stop \/ Deploy \/ (\E w \in Write : Commit(w))
  BY <1>4, <1>11 DEF Boot, Serve, Stop, Deploy, Commit
<1>12. CASE (TakeSnapshot /\ svc' # "migrate") \/ (Migrate /\ svc' # "archive")
  BY <1>4, <1>12 DEF TakeSnapshot, Migrate
<1> QED
  BY <1>5, <1>6, <1>7, <1>8, <1>9, <1>10, <1>11, <1>12 DEF Outside

-----------------------------------------------------------------------------
(* A lock-free command under a rollback: it merges the log beside it. *)

LEMMA OutsideRollback ==
  ASSUME BackupTypeOK, FilesOK, HoldersOK, RollbackOK, Outside
  PROVE  RollbackOK'
<1>1. UNCHANGED <<task, stage, read, moved, stuck>>
  BY OutsideCommand
<1>2. CASE ~Rolling
  <2>1. moved = <<>> /\ stuck = FALSE
    BY <1>2 DEF RollbackOK, JournalOK, BackupTypeOK
  <2> QED
    BY <1>1, <1>2, <2>1, QuietRollback DEF Rolling
<1>3. CASE Rolling
  <2>1. ~Connected /\ ~Free("live") /\ ~Migrating
    BY <1>3 DEF HoldersOK, Free, Holds, Rolling, Migrating
  <2>2. disk' = disk \/ \E t \in ToolWrite : Tool(t)
    BY <2>1, UnderTheLock
  <2>3. Kept("live") /\ Connection("live") /\ disk' \in [Path -> Bundle]
    BY OutsideFiles
  <2>4. disk'["cand"] = disk["cand"] /\ disk'["aside"] = disk["aside"]
    BY <2>3 DEF Kept, Path
  <2>5. /\ Present(disk["live"].db) =>
             /\ Present(disk'["live"].db) /\ disk'["live"].db.of = disk["live"].db.of
             /\ disk["live"].db.writes \subseteq disk'["live"].db.writes
        /\ Present(disk["live"].db) \/ ~Present(disk["live"].wal) =>
             disk["live"].db.writes \cup disk["live"].wal.writes
               \subseteq disk'["live"].db.writes \cup disk'["live"].wal.writes
    BY <2>3, ConnectionKeeps, Singles
  <2>6. disk' = disk \/ (Present(disk'["live"].db) /\ disk'["live"].wal = NoFile)
    BY <2>1, <2>2, ToolLeaves
  <2>7. ASSUME NEW to, NEW m PROVE (Has(to, m)' <=> Has(to, m)) /\ (Taken(m)' <=> Taken(m))
    BY <1>1 DEF Has, Taken
  <2>8. JournalOK' /\ ReadOK' /\ Rolling'
    BY <1>1, <1>3 DEF RollbackOK, JournalOK, ReadOK, Rolling, Entry, Rank
  <2>9. SourceOK' /\ AsideOK'
    BY <1>1, <1>3, <2>4, <2>7 DEF RollbackOK, SourceOK, AsideOK
  <2>10. LogOK'
    BY <1>1, <1>3, <2>6, <2>7 DEF RollbackOK, LogOK
  <2>11. LinkOK'
    <3> SUFFICES ASSUME NEW i \in DOMAIN moved, ~moved[i].removed
                 PROVE  /\ moved[i].to = "live" =>
                             disk'["cand"][moved[i].member] = read.cand[moved[i].member]
                        /\ moved[i].to = "aside" /\ moved[i].member = "db" =>
                             /\ Present(disk'["live"].db)
                             /\ moved[i].file.writes \subseteq disk'["live"].db.writes
                        /\ moved[i].to = "aside" /\ moved[i].member = "wal" =>
                             \/ disk'["live"].wal = moved[i].file
                             \/ Present(disk'["live"].db) /\ ~Present(disk'["live"].wal)
      BY <1>1 DEF LinkOK
    <3>1. /\ moved[i].to = "live" =>
               disk["cand"][moved[i].member] = read.cand[moved[i].member]
          /\ moved[i].to = "aside" /\ moved[i].member = "db" =>
               /\ Present(disk["live"].db)
               /\ moved[i].file.writes \subseteq disk["live"].db.writes
          /\ moved[i].to = "aside" /\ moved[i].member = "wal" =>
               \/ disk["live"].wal = moved[i].file
               \/ Present(disk["live"].db) /\ ~Present(disk["live"].wal)
      BY DEF RollbackOK, LinkOK
    <3> QED
      BY <2>4, <2>5, <2>6, <3>1, Kinds
  <2>12. SupersededOK'
    <3> SUFFICES ASSUME Present(read.live.db)
                 PROVE  SupersededOK'
      BY <1>1 DEF SupersededOK
    <3>1. /\ moved # <<>> => FirstIsDatabase
          /\ task = "install" /\ stage >= 2 => moved # <<>>
          /\ ~stuck => IF Gone THEN HeldAside ELSE HeldLive
      BY <1>3 DEF RollbackOK, SupersededOK
    <3>2. (FirstIsDatabase' <=> FirstIsDatabase) /\ (Gone' <=> Gone)
      BY <1>1 DEF FirstIsDatabase, Gone
    <3>3. HeldLive => HeldLive'
      <4> SUFFICES ASSUME HeldLive PROVE HeldLive'
        OBVIOUS
      <4>1. /\ Present(disk["live"].db) /\ disk["live"].db.of = read.live.db.of
            /\ read.live.db.writes \subseteq disk["live"].db.writes
            /\ read.live.wal.writes \subseteq disk["live"].db.writes \cup disk["live"].wal.writes
        BY DEF HeldLive
      <4>2. read.live.wal.writes \subseteq disk'["live"].db.writes \cup disk'["live"].wal.writes
        BY <2>5, <4>1
      <4> QED
        BY <1>1, <2>5, <4>1, <4>2 DEF HeldLive
    <3>4. ForeignDatabase => ForeignDatabase'
      BY <2>5, <2>7 DEF ForeignDatabase
    <3>5. (\A i \in DOMAIN moved : moved[i].to = "aside") => ~Has("live", "db")
      BY DEF Has
    <3>6. HeldAside => HeldAside'
      <4> SUFFICES ASSUME HeldAside PROVE HeldAside'
        OBVIOUS
      <4>1. /\ moved[1].file.of = read.live.db.of
            /\ read.live.db.writes \subseteq moved[1].file.writes
            /\ \/ Has("aside", "wal")
               \/ read.live.wal.writes \subseteq moved[1].file.writes
               \/ disk["live"].wal = read.live.wal /\ \A i \in DOMAIN moved : moved[i].to = "aside"
               \/ ForeignDatabase
        BY DEF HeldAside
      <4>2. CASE disk' = disk
        BY <1>1, <2>7, <3>4, <4>1, <4>2 DEF HeldAside
      <4>3. CASE disk["live"].wal = read.live.wal /\ (\A i \in DOMAIN moved : moved[i].to = "aside")
                 /\ Present(disk'["live"].db)
        <5>1. ForeignDatabase'
          BY <2>7, <3>5, <4>3 DEF ForeignDatabase
        <5> QED
          BY <1>1, <4>1, <5>1 DEF HeldAside
      <4>4. CASE Has("aside", "wal") \/ read.live.wal.writes \subseteq moved[1].file.writes \/ ForeignDatabase
        BY <1>1, <2>7, <3>4, <4>1, <4>4 DEF HeldAside
      <4> QED
        BY <2>6, <4>1, <4>2, <4>3, <4>4
    <3> QED
      BY <1>1, <3>1, <3>2, <3>3, <3>6 DEF SupersededOK
  <2> QED
    BY <2>8, <2>9, <2>10, <2>11, <2>12 DEF RollbackOK
<1> QED
  BY <1>2, <1>3

-----------------------------------------------------------------------------
(* A restore, and the commands between two others. *)

LEMMA RestoringInv ==
  ASSUME BackupTypeOK, FilesOK, HoldersOK, RestoreOK, JournalOK, SnapshotOK, Restoring
  PROVE  HoldersOK' /\ RestoreOK' /\ RollbackOK' /\ SnapshotOK'
<1> DEFINE p == read.path
<1>1. /\ task = "restore" /\ UNCHANGED <<moved, stuck, report, svc, release>>
      /\ \/ task' = "idle"
         \/ task' = "restore" /\ read' = read /\ stage' = stage + 1 /\ stage \in 1 .. 3
  BY RestoringCommand
<1>2. /\ AllWhole(disk) /\ AllWhole(disk') /\ Kept(p) /\ (p = "live" \/ p = "cand") /\ p \in Path
      /\ UNCHANGED kept
  <2>1. UNCHANGED kept
    BY DEF Restoring, RestoreMarker, RestoreDatabase, RestoreMigrate, RestoreEnd, archives
  <2> QED
    BY <2>1, DiskWhole, RestoreSteps, Singles
<1>3. RollbackOK'
  <2>1. moved = <<>> /\ stuck = FALSE
    BY <1>1 DEF JournalOK, Rolling, BackupTypeOK
  <2> QED
    BY <1>1, <2>1, QuietRollback
<1> HIDE DEF p
<1>4. /\ Present(disk[p].db) => Present(disk'[p].db)
      /\ disk'[p].db.of = "own" =>
           Present(disk[p].db) /\ disk[p].db.of = "own" /\ disk'[p].db.rev >= disk[p].db.rev
      /\ task' = "restore" => (stage' = 2 => disk'[p].wal = NoFile)
                              /\ (stage' >= 3 => Present(disk'[p].db))
  <2>1. \A q \in Path : disk[q].db \in File
    BY <1>2, Singles DEF AllWhole, Bundle
  <2>2. disk[p].db.rev >= disk[p].db.rev /\ (disk[p].db.of = "own" => Present(disk[p].db))
    BY <1>2, <2>1 DEF File, Revision, Present
  <2>3. CASE RestoreMarker
    <3>1. /\ stage = 1 /\ (task' = "restore" => FreeBundle(p))
          /\ disk' = disk \/ Differs(disk', disk, p, "mark", Mark)
      BY <2>3 DEF RestoreMarker, EndRestore, p, Differs
    <3>2. disk'[p].db = disk[p].db /\ disk'[p].wal = disk[p].wal
      BY <1>2, <3>1, MarkShape
    <3>3. FreeBundle(p) => disk[p].wal = NoFile
      BY NoBundleWhole DEF FreeBundle
    <3> QED
      BY <1>1, <2>2, <3>1, <3>2, <3>3
  <2>4. CASE RestoreDatabase
    <3> DEFINE f == FileOf("restored", read.image)
    <3>1. /\ stage = 2
          /\ \/ disk' = disk /\ task' = "idle"
             \/ Differs(disk', disk, p, "mark", NoFile) /\ task' = "idle"
             \/ Differs(disk', disk, p, "db", f) /\ ~Present(disk[p].db)
      BY <2>4 DEF RestoreDatabase, EndRestore, PauseWithdrawn, p, Differs
    <3>2. f \in FileKind("db") /\ f.of = "restored" /\ Present(f)
      BY FileOfType DEF Lineage, BackupTypeOK
    <3> HIDE DEF f
    <3>3. CASE disk' = disk /\ task' = "idle"
      BY <2>2, <3>3
    <3>4. CASE Differs(disk', disk, p, "mark", NoFile) /\ task' = "idle"
      <4>1. disk'[p].db = disk[p].db
        BY <1>2, <3>4, MarkShape
      <4> QED
        BY <2>2, <3>4, <4>1
    <3>5. CASE Differs(disk', disk, p, "db", f) /\ ~Present(disk[p].db)
      <4>1. disk'[p].db = f
        BY <1>2, <3>2, <3>5, OneShape, Singles
      <4> QED
        BY <1>1, <3>1, <3>2, <3>5, <4>1
    <3> QED
      BY <3>1, <3>3, <3>4, <3>5
  <2>5. CASE RestoreMigrate
    <3>1. stage = 3 /\ Present(disk[p].db)
      BY <1>1, <2>5 DEF RestoreMigrate, RestoreOK, p
    <3>2. Connection(p)
      BY <1>2, <2>5, GrownImages DEF RestoreMigrate, Connection, p
    <3> QED
      BY <1>1, <1>2, <3>1, <3>2, ConnectionKeeps
  <2>6. CASE RestoreEnd
    <3> DEFINE closed == IF read.migrate THEN Closed(p, Opened(p)) ELSE disk
    <3>1. /\ stage = 4 /\ Present(disk[p].db) /\ task' = "idle"
          /\ Differs(disk', closed, p, "mark", Mark)
      BY <1>1, <2>6 DEF RestoreEnd, EndRestore, RestoreOK, p, Differs
    <3>2. /\ AllWhole(closed) /\ Present(closed[p].db) /\ closed[p].db.of = disk[p].db.of
          /\ closed[p].db.rev >= disk[p].db.rev
      <4>1. CASE ~read.migrate
        BY <1>2, <2>2, <3>1, <4>1
      <4>2. CASE read.migrate
        <5>1. Opened(p) \in Image /\ Opened(p) \in GrownImage(p)
          BY <1>2, GrownImages, OpenedType
        <5>2. closed = Closed(p, Opened(p))
          BY <4>2
        <5>3. /\ closed \in [Path -> Bundle] /\ \A q \in Path : q # p => closed[q] = disk[q]
              /\ closed[p].db = FileOf(LineageOf(p), Opened(p)) /\ Whole(closed[p])
          BY <1>2, <5>1, <5>2, ClosedShape
        <5>4. LineageOf(p) \in Lineage /\ LineageOf(p) = disk[p].db.of
          BY <1>2, <3>1, LineageType DEF LineageOf
        <5>5. /\ Present(closed[p].db) /\ closed[p].db.of = disk[p].db.of
              /\ closed[p].db.rev = Opened(p).rev
          BY <5>1, <5>3, <5>4, FileOfType
        <5>6. Opened(p).rev >= disk[p].db.rev
          <6>1. disk[p] \in Bundle /\ disk[p].db \in File /\ disk[p].wal \in File
            BY <1>2, Singles DEF AllWhole, Bundle
          <6>2. Opened(p).rev = Larger(disk[p].db.rev, disk[p].wal.rev)
            BY <3>1, <6>1, OpenedBundleType DEF Opened
          <6> QED
            BY <6>1, <6>2, LargerRevision DEF File
        <5>7. AllWhole(closed)
          BY <1>2, <5>3 DEF AllWhole
        <5> QED
          BY <5>5, <5>6, <5>7
      <4> QED
        BY <4>1, <4>2
    <3> HIDE DEF closed
    <3>3. disk'[p].db = closed[p].db
      BY <1>2, <3>1, <3>2, MarkShape
    <3> QED
      BY <3>1, <3>2, <3>3
  <2> QED
    BY <2>3, <2>4, <2>5, <2>6 DEF Restoring
<1>5. RestoreOK'
  BY <1>1, <1>2, <1>4 DEF RestoreOK, p
<1>6. HoldersOK'
  <2>1. Connected' <=> Connected
    BY <1>1 DEF Connected
  <2>2. Present(disk["live"].db) => Present(disk'["live"].db)
    BY <1>2, <1>4, Singles DEF Kept
  <2>3. ~Rolling'
    BY <1>1 DEF Rolling
  <2> QED
    BY <1>1, <2>1, <2>2, <2>3 DEF HoldersOK
<1>7. SnapshotOK'
  <2>1. CASE p = "cand"
    <3>1. disk'["live"] = disk["live"]
      BY <1>2, <2>1, Singles DEF Kept
    <3> QED
      BY <1>1, <1>2, <3>1 DEF SnapshotOK, Opened, Pending
  <2>2. CASE p = "live"
    <3>1. ~Connected
      BY <1>1, <2>2 DEF HoldersOK, p
    <3>2. DOMAIN moved' = {}
      BY <1>1, NothingMoved DEF JournalOK, Rolling
    <3>3. /\ disk["live"].db.rev \in Revision /\ disk'["live"].db.rev \in Revision
          /\ release \in Revision
      <4>1. disk["live"].db \in File /\ disk'["live"].db \in File
        BY <1>2, Singles DEF AllWhole, Bundle
      <4> QED
        BY <4>1 DEF File, BackupTypeOK, Revision
    <3>4. svc = "ready" => (disk'["live"].db.of = "own" => disk'["live"].db.rev >= release)
      BY <1>4, <2>2, <3>3 DEF SnapshotOK, Revision
    <3> QED
      BY <1>1, <3>1, <3>2, <3>4 DEF SnapshotOK, Connected
  <2> QED
    BY <1>2, <2>1, <2>2
<1> QED
  BY <1>3, <1>5, <1>6, <1>7

LEMMA NoneMoved ==
  ASSUME BackupTypeOK, JournalOK, ~Rolling
  PROVE  moved = <<>> /\ stuck = FALSE /\ DOMAIN moved = {}
BY NothingMoved DEF BackupTypeOK, JournalOK

LEMMA RestoreBeginInv ==
  ASSUME BackupInv,
         \E p \in Targets, image \in Images, migrate \in BOOLEAN : RestoreBegin(p, image, migrate)
  PROVE  FilesOK' /\ HoldersOK' /\ RestoreOK' /\ RollbackOK' /\ SnapshotOK'
<1>1. /\ task = "idle" /\ task' = "restore" /\ stage' = 1
      /\ read'.path \in {"live", "cand"} /\ Free(read'.path)
      /\ UNCHANGED <<disk, moved, stuck, svc, release>>
  BY BeginsCommand DEF BackupInv
<1>2. UNCHANGED kept
  BY DEF RestoreBegin, archives
<1>3. moved = <<>> /\ stuck = FALSE
  BY <1>1, NoneMoved DEF BackupInv, Rolling
<1>4. RollbackOK'
  BY <1>1, <1>3, QuietRollback
<1>5. HoldersOK'
  BY <1>1 DEF BackupInv, HoldersOK, Rolling, Free, Holds, Connected
<1>6. RestoreOK'
  BY <1>1 DEF RestoreOK
<1>7. SnapshotOK'
  BY <1>1, <1>2 DEF BackupInv, SnapshotOK, Opened, Pending
<1> QED
  BY <1>1, <1>4, <1>5, <1>6, <1>7 DEF BackupInv, FilesOK

LEMMA InstallBeginInv ==
  ASSUME BackupInv, InstallBegin
  PROVE  FilesOK' /\ HoldersOK' /\ RestoreOK' /\ RollbackOK' /\ SnapshotOK'
<1>1. /\ task = "idle" /\ task' = "install" /\ stage' = 1
      /\ read'.cand = disk["cand"] /\ read'.live = disk["live"]
      /\ Free("live") /\ Present(disk["cand"].db) /\ Present(disk["cand"].mark)
      /\ Present(disk["live"].db) \/ disk["live"] = NoBundle
      /\ disk["aside"] = NoBundle
      /\ UNCHANGED <<disk, moved, stuck, svc, release>>
  BY BeginsInstall DEF BackupInv
<1>2. UNCHANGED kept
  BY DEF InstallBegin, archives
<1>3. moved = <<>> /\ stuck = FALSE /\ DOMAIN moved = {}
  BY <1>1, NoneMoved DEF BackupInv, Rolling
<1>4. \A m \in Member : ~Taken(m)' /\ ~Has("live", m)'
  BY <1>1, <1>3 DEF Taken, Has
<1>5. HoldersOK'
  BY <1>1 DEF BackupInv, HoldersOK, Free, Holds, Connected
<1>6. SnapshotOK'
  BY <1>1, <1>2 DEF BackupInv, SnapshotOK, Opened, Pending
<1>7. RestoreOK'
  BY <1>1 DEF RestoreOK
<1>8. JournalOK' /\ LinkOK'
  BY <1>1, <1>3 DEF JournalOK, LinkOK
<1>9. ReadOK'
  BY <1>1, Singles DEF ReadOK, BackupInv, FilesOK
<1>10. SourceOK'
  BY <1>1, <1>3, <1>4 DEF SourceOK
<1>11. AsideOK'
  BY <1>1, <1>3, NoBundleWhole DEF AsideOK
<1>12. LogOK'
  BY <1>1, <1>4, Singles DEF LogOK
<1>13. SupersededOK'
  <2>1. ~Gone'
    BY <1>1, <1>3 DEF Gone
  <2>2. Present(disk["live"].db) => HeldLive'
    BY <1>1 DEF HeldLive
  <2> QED
    BY <1>1, <1>3, <2>1, <2>2 DEF SupersededOK
<1> QED
  BY <1>1, <1>5, <1>6, <1>7, <1>8, <1>9, <1>10, <1>11, <1>12, <1>13 DEF BackupInv, FilesOK, RollbackOK

LEMMA QuietCommandInv ==
  ASSUME BackupInv, Resume \/ FreeTarget
  PROVE  /\ UNCHANGED <<task, stage, read, moved, stuck, report>>
         /\ HoldersOK' /\ RestoreOK' /\ RollbackOK' /\ SnapshotOK'
<1>1. /\ task = "idle" /\ UNCHANGED <<task, stage, read, moved, stuck, report, svc, release, kept>>
      /\ ~Connected
  BY DEF Resume, FreeTarget, Asked, command, archives, Free, Holds, Connected
<1>2. moved = <<>> /\ stuck = FALSE /\ DOMAIN moved = {}
  BY <1>1, NoneMoved DEF BackupInv, Rolling
<1>3. RollbackOK'
  BY <1>1, <1>2, QuietRollback
<1>4. HoldersOK' /\ RestoreOK'
  BY <1>1 DEF HoldersOK, RestoreOK, Rolling, Connected
<1>5. svc = "ready" => disk'["live"].db.rev >= release
  <2> SUFFICES ASSUME svc = "ready" PROVE disk'["live"].db.rev >= release
    OBVIOUS
  <2>1. Resume
    BY DEF FreeTarget
  <2> DEFINE f == FileOf("own", Migrated(Opened("live")))
  <2>2. disk' = [disk EXCEPT !["live"] = [NoBundle EXCEPT !.db = f]]
    BY <2>1 DEF Resume
  <2>3. f.rev >= release
    <3>1. Migrated(Opened("live")) \in Image /\ Migrated(Opened("live")).rev >= release
      BY OpenedType, MigratedType, Singles DEF BackupInv
    <3> QED
      BY <3>1, FileOfType DEF Lineage
  <2> HIDE DEF f
  <2>4. "live" \in DOMAIN disk /\ "db" \in DOMAIN NoBundle
    BY Singles, NoBundleWhole DEF BackupInv, BackupTypeOK, Whole, Bundle
  <2>5. disk'["live"].db = f
    BY <2>2, <2>4
  <2> QED
    BY <2>3, <2>5
<1>6. SnapshotOK'
  BY <1>1, <1>2, <1>5 DEF SnapshotOK, Connected
<1> QED
  BY <1>1, <1>3, <1>4, <1>6

\* A rollback is given up: nothing moves, and it goes back from here.
LEMMA GivesUpInv ==
  ASSUME BackupInv, GivesUp, UNCHANGED <<read, stuck, svc, release, kept>>, task = "install"
  PROVE  FilesOK' /\ HoldersOK' /\ RestoreOK' /\ RollbackOK' /\ SnapshotOK'
<1>1. /\ UNCHANGED <<disk, moved>> /\ task' = "undo" /\ stage' = stage /\ ~stuck
  BY DEF GivesUp, TurnsBack, BackupInv, JournalOK
<1>2. Rolling
  BY DEF Rolling
<1>3. ASSUME NEW to, NEW m PROVE (Has(to, m)' <=> Has(to, m)) /\ (Taken(m)' <=> Taken(m))
  BY <1>1 DEF Has, Taken
<1>4. FilesOK' /\ HoldersOK' /\ RestoreOK'
  BY <1>1, <1>2 DEF BackupInv, FilesOK, HoldersOK, RestoreOK, Rolling, Connected
<1>5. SnapshotOK'
  BY <1>1 DEF BackupInv, SnapshotOK, Opened, Pending
<1>6. JournalOK'
  BY <1>1, <1>2 DEF BackupInv, JournalOK, Rolling, Entry, Rank
<1>7. ReadOK' /\ LinkOK'
  BY <1>1, <1>2 DEF BackupInv, ReadOK, LinkOK, Rolling
<1>8. SourceOK' /\ AsideOK'
  BY <1>1, <1>2, <1>3 DEF BackupInv, SourceOK, AsideOK, Rolling
<1>9. LogOK'
  BY <1>1, <1>2, <1>3 DEF BackupInv, LogOK, Rolling
<1>10. SupersededOK'
  <2>1. (FirstIsDatabase' <=> FirstIsDatabase) /\ (Gone' <=> Gone) /\ (HeldLive' <=> HeldLive)
    BY <1>1 DEF FirstIsDatabase, Gone, HeldLive
  <2>2. HeldAside' <=> HeldAside
    BY <1>1, <1>3 DEF HeldAside, ForeignDatabase
  <2> QED
    BY <1>1, <1>2, <2>1, <2>2 DEF BackupInv, SupersededOK
<1> QED
  BY <1>4, <1>5, <1>6, <1>7, <1>8, <1>9, <1>10 DEF RollbackOK

LEMMA EndingFiles ==
  ASSUME BackupInv, Verify \/ UndoEnd
  PROVE  /\ AllWhole(disk') /\ Staged(disk'["cand"]) /\ Rolling
         /\ disk'["live"].db = disk["live"].db /\ disk'["live"].wal = disk["live"].wal
         /\ disk'["cand"] = disk["cand"] /\ disk'["aside"] = disk["aside"]
         /\ UNCHANGED <<svc, release, kept>>
<1>1. AllWhole(disk) /\ Staged(disk["cand"])
  BY DiskWhole DEF BackupInv
<1>2. Rolling /\ UNCHANGED <<svc, release, kept>>
  BY DEF Verify, UndoEnd, Rolling, archives
<1>3. disk' = disk \/ Differs(disk', disk, "live", "mark", Mark)
  BY DEF Verify, UndoEnd, Failsafe, Differs
<1>4. CASE disk' = disk
  BY <1>1, <1>2, <1>4
<1>5. CASE Differs(disk', disk, "live", "mark", Mark)
  <2>1. /\ AllWhole(disk') /\ disk'["live"].db = disk["live"].db /\ disk'["live"].wal = disk["live"].wal
        /\ \A q \in Path : q # "live" => disk'[q] = disk[q]
    BY <1>1, <1>5, MarkShape, Singles
  <2> QED
    BY <1>1, <1>2, <2>1, Singles
<1> QED
  BY <1>3, <1>4, <1>5

LEMMA EndsInv ==
  ASSUME BackupInv, Verify \/ UndoEnd \/ Crash
  PROVE  FilesOK' /\ HoldersOK' /\ RestoreOK' /\ RollbackOK' /\ SnapshotOK'
<1>1. \/ task' = "idle" /\ moved' = <<>> /\ stuck' = FALSE
      \/ GivesUp /\ UNCHANGED <<read, stuck, svc, release>> /\ task = "install"
  BY EndsInstall DEF BackupInv
<1>2. UNCHANGED kept
  BY DEF Verify, UndoEnd, Crash, archives
<1>3. CASE GivesUp /\ UNCHANGED <<read, stuck, svc, release>> /\ task = "install"
  BY <1>2, <1>3, GivesUpInv
<1>4. CASE task' = "idle" /\ moved' = <<>> /\ stuck' = FALSE
  <2>1. RollbackOK' /\ RestoreOK' /\ ~Rolling'
    BY <1>4, QuietRollback DEF RestoreOK, Rolling
  <2>2. DOMAIN moved' = {}
    BY <1>4, EmptySeq, LenProperties
  <2>3. CASE Crash
    <3>1. FilesOK'
      BY <2>3, CommandsOnFiles DEF BackupInv, FilesOK, AllWhole
    <3>2. svc' = "down"
      BY <2>3 DEF Crash
    <3> QED
      BY <1>4, <2>1, <3>1, <3>2 DEF HoldersOK, SnapshotOK, Rolling
  <2>4. CASE Verify \/ UndoEnd
    <3>1. /\ AllWhole(disk') /\ Staged(disk'["cand"]) /\ Rolling
          /\ disk'["live"].db = disk["live"].db
          /\ UNCHANGED <<svc, release, kept>>
      BY <2>4, EndingFiles
    <3>2. ~Connected
      BY <3>1 DEF BackupInv, HoldersOK
    <3>3. SnapshotOK'
      BY <2>2, <3>1, <3>2 DEF BackupInv, SnapshotOK, Connected
    <3>4. HoldersOK'
      BY <1>4, <2>1, <3>1, <3>2 DEF HoldersOK, Connected
    <3> QED
      BY <2>1, <3>1, <3>3, <3>4 DEF FilesOK, AllWhole
  <2> QED
    BY <2>3, <2>4
<1> QED
  BY <1>1, <1>3, <1>4

-----------------------------------------------------------------------------
(* A rollback going forward. *)

LEMMA SkipsInv ==
  ASSUME BackupInv, Skips, UNCHANGED <<read, stuck, svc, release, kept>>, task = "install", stage <= 7
  PROVE  FilesOK' /\ HoldersOK' /\ RestoreOK' /\ RollbackOK' /\ SnapshotOK'
<1>1. /\ UNCHANGED <<disk, moved>> /\ task' = "install" /\ stage' = stage + 1 /\ ~stuck
      /\ stage \in 1 .. 8
      /\ stage = 4 => disk["live"] = NoBundle
      /\ stage = 1 => ~Present(disk["live"].db)
  BY DEF Skips, Onward, BackupInv, BackupTypeOK, JournalOK
<1>2. Rolling /\ Rolling'
  BY <1>1 DEF Rolling
<1>3. ASSUME NEW to, NEW m PROVE (Has(to, m)' <=> Has(to, m)) /\ (Taken(m)' <=> Taken(m))
  BY <1>1 DEF Has, Taken
<1>4. FilesOK' /\ HoldersOK' /\ RestoreOK'
  BY <1>1, <1>2 DEF BackupInv, FilesOK, HoldersOK, RestoreOK, Rolling, Connected
<1>5. SnapshotOK'
  BY <1>1 DEF BackupInv, SnapshotOK, Opened, Pending
<1>6. JournalOK'
  <2>1. \A i \in DOMAIN moved : Rank(moved[i]) < stage /\ moved[i].removed /\ Rank(moved[i]) \in Nat
    BY DEF BackupInv, JournalOK, Rank
  <2> QED
    BY <1>1, <1>2, <2>1 DEF BackupInv, JournalOK, Entry, Rank
<1>7. ReadOK' /\ LinkOK'
  BY <1>1, <1>2 DEF BackupInv, ReadOK, LinkOK
<1>8. SourceOK' /\ AsideOK'
  BY <1>1, <1>2, <1>3 DEF BackupInv, SourceOK, AsideOK
<1>9. LogOK'
  <2>1. stage' >= 5 => stage = 4 \/ stage >= 5
    BY <1>1
  <2> QED
    BY <1>1, <1>2, <1>3, <2>1, NoBundleWhole DEF BackupInv, LogOK
<1>10. SupersededOK'
  <2>1. (FirstIsDatabase' <=> FirstIsDatabase) /\ (Gone' <=> Gone) /\ (HeldLive' <=> HeldLive)
    BY <1>1 DEF FirstIsDatabase, Gone, HeldLive
  <2>2. HeldAside' <=> HeldAside
    BY <1>1, <1>3 DEF HeldAside, ForeignDatabase
  <2>3. stage >= 2 \/ stage = 1
    BY <1>1
  <2>4. Present(read.live.db) /\ stage = 1 => moved # <<>>
    BY <1>1, <1>2 DEF BackupInv, SupersededOK, Gone, HeldLive
  <2> QED
    BY <1>1, <1>2, <2>1, <2>2, <2>3, <2>4 DEF BackupInv, SupersededOK
<1> QED
  BY <1>4, <1>5, <1>6, <1>7, <1>8, <1>9, <1>10 DEF RollbackOK

\* One member moves, or gets its second name only.
Moving(from, to, m, removed) ==
  /\ Route(from, to, m) /\ Present(disk[from][m]) /\ ~Present(disk[to][m])
  /\ moved' = Append(moved, Recorded(from, to, m, removed))
  /\ removed => disk' = Claimed(from, to, m)
  /\ ~removed => Differs(disk', disk, to, m, disk[from][m])
  /\ task = "install" /\ UNCHANGED <<read, stuck, svc, release, kept>>
  /\ (removed /\ Onward) \/ TurnsBack

LEMMA MovesOne ==
  ASSUME MovesFile, task = "install", UNCHANGED <<read, stuck, svc, release, kept>>
  PROVE  \E from \in Path, to \in Path, m \in Member, removed \in BOOLEAN :
           Moving(from, to, m, removed)
<1>1. PICK from \in Path, to \in Path, m \in Member :
        /\ Route(from, to, m) /\ Present(disk[from][m]) /\ ~Present(disk[to][m])
        /\ Relocates(from, to, m) \/ Links(from, to, m)
  BY DEF MovesFile
<1>2. CASE Relocates(from, to, m)
  <2>1. Moving(from, to, m, TRUE)
    BY <1>1, <1>2 DEF Relocates, Moving
  <2> QED
    BY <2>1
<1>3. CASE Links(from, to, m)
  <2>1. Moving(from, to, m, FALSE)
    BY <1>1, <1>3 DEF Links, Moving
  <2> QED
    BY <2>1
<1> QED
  BY <1>1, <1>2, <1>3

LEMMA Routes ==
  ASSUME NEW from \in Path, NEW to \in Path, NEW m \in Member, Route(from, to, m)
  PROVE  /\ \/ from = "live" /\ to = "aside" /\ stage \in 1 .. 3
            \/ from = "cand" /\ to = "live" /\ stage \in 5 .. 7
         /\ from # to
         /\ to = "aside" => (m = "db" <=> stage = 1) /\ (m = "wal" <=> stage = 2)
         /\ to = "live" => (m = "wal" <=> stage = 6) /\ (m = "db" <=> stage = 7)
         /\ \A x : x.to = to /\ x.member = m => Rank(x) = stage
<1>1. /\ \/ from = "live" /\ to = "aside" /\ stage \in 1 .. 3
         \/ from = "cand" /\ to = "live" /\ stage \in 5 .. 7
      /\ from # to
      /\ to = "aside" => (m = "db" <=> stage = 1) /\ (m = "wal" <=> stage = 2)
      /\ to = "live" => (m = "wal" <=> stage = 6) /\ (m = "db" <=> stage = 7)
  BY DEF Route
<1>2. ASSUME NEW x, x.to = to, x.member = m PROVE Rank(x) = stage
  BY <1>2 DEF Rank, Route
<1> QED
  BY <1>1, <1>2

LEMMA MovingFiles ==
  ASSUME BackupTypeOK, FilesOK,
         NEW from \in Path, NEW to \in Path, NEW m \in Member, NEW removed \in BOOLEAN,
         Moving(from, to, m, removed)
  PROVE  /\ AllWhole(disk') /\ Staged(disk'["cand"])
         /\ disk'[to][m] = disk[from][m]
         /\ removed => disk'[from][m] = NoFile
         /\ ~removed => disk'[from][m] = disk[from][m]
         /\ \A q \in Path, k \in Member : (q # to /\ q # from) \/ k # m => disk'[q][k] = disk[q][k]
<1>1. /\ AllWhole(disk) /\ Staged(disk["cand"]) /\ disk[from][m] \in FileKind(m)
  BY DiskWhole
<1>2. from # to /\ to # "cand"
  BY Routes DEF Moving
<1>3. /\ AllWhole(disk')
      /\ disk'[to][m] = disk[from][m]
      /\ removed => disk'[from][m] = NoFile
      /\ ~removed => disk'[from][m] = disk[from][m]
      /\ \A q \in Path, k \in Member : (q # to /\ q # from) \/ k # m => disk'[q][k] = disk[q][k]
  <2>1. CASE removed
    <3>1. disk' = Claimed(from, to, m)
      BY <2>1 DEF Moving
    <3> QED
      BY <1>2, <2>1, <3>1, ClaimedShape DEF AllWhole
  <2>2. CASE ~removed
    <3>1. Differs(disk', disk, to, m, disk[from][m])
      BY <2>2 DEF Moving
    <3>2. /\ AllWhole(disk') /\ disk'[to][m] = disk[from][m]
          /\ \A q \in Path, k \in Member : q # to \/ k # m => disk'[q][k] = disk[q][k]
      BY <1>1, <3>1, OneShape
    <3> QED
      BY <1>2, <2>2, <3>2
  <2> QED
    BY <2>1, <2>2
<1>4. \A k \in Member : disk'["cand"][k] = disk["cand"][k] \/ disk'["cand"][k] = NoFile
  <2>1. CASE from = "cand"
    BY <1>2, <1>3, <2>1, Singles
  <2>2. CASE from # "cand"
    BY <1>2, <1>3, <2>2, Singles
  <2> QED
    BY <2>1, <2>2
<1>5. Staged(disk'["cand"])
  <2>1. NoFile.of # "own"
    BY DEF NoFile
  <2>2. /\ disk'["cand"]["db"] = disk["cand"]["db"] \/ disk'["cand"]["db"] = NoFile
        /\ disk'["cand"]["wal"] = disk["cand"]["wal"] \/ disk'["cand"]["wal"] = NoFile
    BY <1>4, Singles
  <2> QED
    BY <1>1, <2>1, <2>2 DEF Staged
<1> QED
  BY <1>3, <1>5

LEMMA MovingJournal ==
  ASSUME BackupTypeOK, FilesOK, JournalOK,
         NEW from \in Path, NEW to \in Path, NEW m \in Member, NEW removed \in BOOLEAN,
         Moving(from, to, m, removed)
  PROVE  LET x == Recorded(from, to, m, removed) IN
         /\ moved' \in Seq(Move) /\ moved' # <<>> /\ Len(moved') = Len(moved) + 1
         /\ Len(moved) \in Nat /\ DOMAIN moved = 1 .. Len(moved) /\ DOMAIN moved' = 1 .. Len(moved) + 1
         /\ \A i \in DOMAIN moved : i \in DOMAIN moved' /\ moved'[i] = moved[i]
         /\ moved'[Len(moved) + 1] = x
         /\ \A i \in DOMAIN moved' : i \in DOMAIN moved \/ i = Len(moved) + 1
         /\ Rank(x) = stage
         /\ \A i \in DOMAIN moved : Rank(moved[i]) < stage /\ moved[i].removed /\ Rank(moved[i]) \in 1 .. 7
         /\ x.to = to /\ x.from = from /\ x.member = m /\ x.file = disk[from][m] /\ x.removed = removed
         /\ Entry(x)
<1> DEFINE x == Recorded(from, to, m, removed)
<1>1. /\ x \in Move /\ x.to = to /\ x.from = from /\ x.member = m /\ x.file = disk[from][m]
      /\ x.removed = removed
  BY NewEntry
<1>2. moved \in Seq(Move)
  BY DEF BackupTypeOK
<1>3. moved' = Append(moved, x)
  BY DEF Moving
<1> HIDE DEF x
<1>4. /\ moved' \in Seq(Move) /\ moved' # <<>> /\ Len(moved') = Len(moved) + 1
      /\ Len(moved) \in Nat /\ DOMAIN moved = 1 .. Len(moved) /\ DOMAIN moved' = 1 .. Len(moved) + 1
      /\ \A i \in DOMAIN moved : i \in DOMAIN moved' /\ moved'[i] = moved[i]
      /\ moved'[Len(moved) + 1] = x
      /\ \A i \in DOMAIN moved' : i \in DOMAIN moved \/ i = Len(moved) + 1
  BY <1>1, <1>2, <1>3, Pushed
<1>5. Rank(x) = stage
  BY <1>1, Routes DEF Moving
<1>6. \A i \in DOMAIN moved : Rank(moved[i]) < stage /\ moved[i].removed /\ Rank(moved[i]) \in 1 .. 7
  BY DEF Moving, JournalOK, Rank
<1>7. Entry(x)
  <2>1. disk[from][m] \in FileKind(m) /\ Present(disk[from][m])
    BY DiskWhole DEF Moving
  <2> QED
    BY <1>1, <2>1, Routes DEF Entry, Moving
<1> QED
  BY <1>1, <1>4, <1>5, <1>6, <1>7 DEF x

LEMMA MovingHas ==
  ASSUME BackupTypeOK, FilesOK, JournalOK,
         NEW from \in Path, NEW to \in Path, NEW m \in Member, NEW removed \in BOOLEAN,
         Moving(from, to, m, removed)
  PROVE  /\ \A t, k : Has(t, k)' <=> Has(t, k) \/ (t = to /\ k = m)
         /\ \A k : Taken(k)' <=> Taken(k) \/ (to = "live" /\ k = m /\ removed)
         /\ ~Has(to, m) /\ ~Taken(m)
         /\ to = "aside" => \A i \in DOMAIN moved : moved[i].to = "aside"
         /\ to = "aside" => \A k : ~Has("live", k)
         /\ stage = 1 => moved = <<>>
<1> DEFINE x == Recorded(from, to, m, removed)
<1>1. /\ \A i \in DOMAIN moved : i \in DOMAIN moved' /\ moved'[i] = moved[i]
      /\ moved'[Len(moved) + 1] = x /\ Len(moved) + 1 \in DOMAIN moved'
      /\ \A i \in DOMAIN moved' : i \in DOMAIN moved \/ i = Len(moved) + 1
      /\ \A i \in DOMAIN moved : Rank(moved[i]) < stage /\ moved[i].removed /\ Rank(moved[i]) \in 1 .. 7
      /\ x.to = to /\ x.member = m /\ x.removed = removed
      /\ Len(moved) \in Nat
  BY MovingJournal
<1> HIDE DEF x
<1>2. \/ from = "live" /\ to = "aside" /\ stage \in 1 .. 3
      \/ from = "cand" /\ to = "live" /\ stage \in 5 .. 7
  BY Routes DEF Moving
<1>3. stage \in 1 .. 8
  BY DEF BackupTypeOK
<1>4. ASSUME NEW t, NEW k PROVE Has(t, k)' <=> Has(t, k) \/ (t = to /\ k = m)
  <2>1. Has(t, k)' => Has(t, k) \/ (t = to /\ k = m)
    BY <1>1 DEF Has
  <2>2. Has(t, k) => Has(t, k)'
    BY <1>1 DEF Has
  <2>3. t = to /\ k = m => Has(t, k)'
    BY <1>1 DEF Has
  <2> QED
    BY <2>1, <2>2, <2>3
<1>5. ASSUME NEW k PROVE Taken(k)' <=> Taken(k) \/ (to = "live" /\ k = m /\ removed)
  <2>1. Taken(k)' => Taken(k) \/ (to = "live" /\ k = m /\ removed)
    BY <1>1 DEF Taken
  <2>2. Taken(k) => Taken(k)'
    BY <1>1 DEF Taken
  <2>3. to = "live" /\ k = m /\ removed => Taken(k)'
    BY <1>1 DEF Taken
  <2> QED
    BY <2>1, <2>2, <2>3
<1>6. ~Has(to, m)
  <2> SUFFICES ASSUME NEW i \in DOMAIN moved, moved[i].to = to, moved[i].member = m PROVE FALSE
    BY DEF Has
  <2>1. Rank(moved[i]) = stage
    BY Routes DEF Moving
  <2> QED
    BY <1>1, <1>3, <2>1
<1>7. ~Taken(m)
  <2> SUFFICES ASSUME NEW i \in DOMAIN moved, moved[i].to = "live", moved[i].member = m PROVE FALSE
    BY DEF Taken
  <2>1. CASE to = "live"
    BY <1>6, <2>1 DEF Has
  <2>2. CASE to # "live"
    <3>1. Rank(moved[i]) < stage /\ Rank(moved[i]) >= 5 /\ Rank(moved[i]) \in 1 .. 7
      BY <1>1 DEF Rank
    <3> QED
      BY <1>2, <2>2, <3>1
  <2> QED
    BY <2>1, <2>2
<1>8. to = "aside" => \A i \in DOMAIN moved : moved[i].to = "aside"
  <2> SUFFICES ASSUME to = "aside", NEW i \in DOMAIN moved, moved[i].to # "aside" PROVE FALSE
    OBVIOUS
  <2>1. Rank(moved[i]) < stage /\ Rank(moved[i]) >= 5 /\ Rank(moved[i]) \in 1 .. 7
    BY <1>1 DEF Rank
  <2> QED
    BY <1>2, <2>1
<1>9. to = "aside" => \A k : ~Has("live", k)
  BY <1>8 DEF Has
<1>10. stage = 1 => moved = <<>>
  <2> SUFFICES ASSUME stage = 1, moved # <<>> PROVE FALSE
    OBVIOUS
  <2>1. Len(moved) \in DOMAIN moved
    BY Popped DEF BackupTypeOK
  <2> QED
    BY <1>1, <2>1
<1> QED
  BY <1>4, <1>5, <1>6, <1>7, <1>8, <1>9, <1>10

\* What is settled by one move, by the parts of the invariant.
LEMMA MovingRegime ==
  ASSUME BackupInv, NEW from \in Path, NEW to \in Path, NEW m \in Member, NEW removed \in BOOLEAN,
         Moving(from, to, m, removed)
  PROVE  /\ Rolling /\ Rolling' /\ ~stuck /\ ~stuck' /\ task = "install" /\ stage \in 1 .. 7
         /\ UNCHANGED <<read, svc, release, kept>>
         /\ \/ removed /\ task' = "install" /\ stage' = stage + 1
            \/ task' = "undo" /\ stage' = stage
         /\ \/ from = "live" /\ to = "aside" /\ stage \in 1 .. 3
            \/ from = "cand" /\ to = "live" /\ stage \in 5 .. 7
         /\ Present(disk[from][m]) /\ ~Present(disk[to][m])
<1>1. /\ task = "install" /\ UNCHANGED <<read, stuck, svc, release, kept>>
      /\ \/ removed /\ task' = "install" /\ stage' = stage + 1
         \/ task' = "undo" /\ stage' = stage
      /\ Present(disk[from][m]) /\ ~Present(disk[to][m])
  BY DEF Moving, Onward, TurnsBack
<1>2. \/ from = "live" /\ to = "aside" /\ stage \in 1 .. 3
      \/ from = "cand" /\ to = "live" /\ stage \in 5 .. 7
  BY Routes DEF Moving
<1>3. ~stuck
  BY <1>1 DEF BackupInv, JournalOK
<1> QED
  BY <1>1, <1>2, <1>3 DEF Rolling

LEMMA MovingOrder ==
  ASSUME BackupInv, NEW from \in Path, NEW to \in Path, NEW m \in Member, NEW removed \in BOOLEAN,
         Moving(from, to, m, removed)
  PROVE  JournalOK'
<1> DEFINE x == Recorded(from, to, m, removed)
           n == Len(moved)
<1>1. /\ Len(moved') = n + 1 /\ n \in Nat /\ DOMAIN moved = 1 .. n /\ DOMAIN moved' = 1 .. n + 1
      /\ \A i \in DOMAIN moved : i \in DOMAIN moved' /\ moved'[i] = moved[i]
      /\ moved'[n + 1] = x
      /\ \A i \in DOMAIN moved' : i \in DOMAIN moved \/ i = n + 1
      /\ Rank(x) = stage
      /\ \A i \in DOMAIN moved : Rank(moved[i]) < stage /\ moved[i].removed /\ Rank(moved[i]) \in 1 .. 7
      /\ x.removed = removed /\ Entry(x)
  BY MovingJournal DEF BackupInv
<1>2. /\ Rolling' /\ ~stuck' /\ stage \in 1 .. 7
      /\ \/ removed /\ task' = "install" /\ stage' = stage + 1
         \/ task' = "undo" /\ stage' = stage
  BY MovingRegime
<1> HIDE DEF x, n
<1>3. \A i \in DOMAIN moved : Entry(moved[i])
  BY DEF BackupInv, JournalOK
<1>4. \A i, j \in DOMAIN moved : i < j => Rank(moved[i]) < Rank(moved[j])
  BY DEF BackupInv, JournalOK
<1>5. \A i \in DOMAIN moved' : Entry(moved'[i])
  BY <1>1, <1>3
<1>6. ASSUME NEW i \in DOMAIN moved', NEW j \in DOMAIN moved', i < j
      PROVE  Rank(moved'[i]) < Rank(moved'[j])
  <2>1. i \in DOMAIN moved /\ moved'[i] = moved[i]
    BY <1>1, <1>6
  <2>2. CASE j \in DOMAIN moved
    <3>1. Rank(moved[i]) < Rank(moved[j]) /\ moved'[j] = moved[j]
      BY <1>1, <1>4, <1>6, <2>1, <2>2
    <3> QED
      BY <2>1, <3>1
  <2>3. CASE j = n + 1
    <3>1. Rank(moved[i]) < stage /\ moved'[j] = x
      BY <1>1, <2>1, <2>3
    <3> QED
      BY <1>1, <2>1, <3>1
  <2> QED
    BY <1>1, <2>2, <2>3
<1>7. task' = "install" => \A i \in DOMAIN moved' : Rank(moved'[i]) < stage' /\ moved'[i].removed
  <2> SUFFICES ASSUME task' = "install", NEW i \in DOMAIN moved'
               PROVE  Rank(moved'[i]) < stage' /\ moved'[i].removed
    OBVIOUS
  <2>1. removed /\ stage' = stage + 1
    BY <1>2
  <2>2. CASE i \in DOMAIN moved
    <3>1. /\ moved'[i] = moved[i] /\ Rank(moved[i]) < stage /\ moved[i].removed
          /\ Rank(moved[i]) \in 1 .. 7
      BY <1>1, <2>2
    <3> QED
      BY <1>2, <2>1, <3>1
  <2>3. CASE i = n + 1
    <3>1. moved'[i] = x /\ Rank(x) = stage
      BY <1>1, <2>3
    <3>2. x.removed
      BY <1>1, <2>1, Zenon
    <3>3. Rank(x) < stage'
      BY <1>2, <2>1, <3>1
    <3> QED
      BY <3>1, <3>2, <3>3, Zenon
  <2> QED
    BY <1>1, <2>2, <2>3
<1>8. \A i \in DOMAIN moved' : ~moved'[i].removed => i = Len(moved')
  BY <1>1
<1> QED
  BY <1>2, <1>5, <1>6, <1>7, <1>8 DEF JournalOK, Entry, Rank

LEMMA MovingSource ==
  ASSUME BackupInv, NEW from \in Path, NEW to \in Path, NEW m \in Member, NEW removed \in BOOLEAN,
         Moving(from, to, m, removed)
  PROVE  /\ SourceOK' /\ LinkOK'
         /\ to = "live" => disk[from][m] = read.cand[m]
<1> DEFINE x == Recorded(from, to, m, removed)
           n == Len(moved)
<1>1. /\ \A i \in DOMAIN moved : i \in DOMAIN moved' /\ moved'[i] = moved[i]
      /\ moved'[n + 1] = x
      /\ \A i \in DOMAIN moved' : i \in DOMAIN moved \/ i = n + 1
      /\ \A i \in DOMAIN moved : moved[i].removed
      /\ x.to = to /\ x.member = m /\ x.file = disk[from][m] /\ x.removed = removed
  BY MovingJournal DEF BackupInv
<1>2. /\ Rolling /\ Rolling' /\ ~stuck /\ ~stuck' /\ UNCHANGED read
      /\ \/ from = "live" /\ to = "aside"
         \/ from = "cand" /\ to = "live"
      /\ Present(disk[from][m])
  BY MovingRegime
<1>3. /\ \A k : Taken(k)' <=> Taken(k) \/ (to = "live" /\ k = m /\ removed)
      /\ ~Taken(m)
  BY MovingHas DEF BackupInv
<1>4. /\ disk'[to][m] = disk[from][m]
      /\ removed => disk'[from][m] = NoFile
      /\ ~removed => disk'[from][m] = disk[from][m]
      /\ \A q \in Path, k \in Member : (q # to /\ q # from) \/ k # m => disk'[q][k] = disk[q][k]
  BY MovingFiles DEF BackupInv
<1> HIDE DEF x, n
<1>5. /\ \A k \in Member : IF Taken(k) THEN disk["cand"][k] = NoFile
                                       ELSE disk["cand"][k] = read.cand[k]
      /\ \A i \in DOMAIN moved :
           moved[i].to = "live" => moved[i].file = read.cand[moved[i].member]
  BY <1>2 DEF BackupInv, SourceOK
<1>6. to = "live" => disk[from][m] = read.cand[m]
  BY <1>2, <1>3, <1>5
<1>7. SourceOK'
  <2>1. ASSUME NEW k \in Member
        PROVE  IF Taken(k)' THEN disk'["cand"][k] = NoFile ELSE disk'["cand"][k] = read.cand[k]
    <3>1. CASE to = "live" /\ k = m
      BY <1>2, <1>3, <1>4, <1>5, <3>1
    <3>2. CASE ~(to = "live" /\ k = m)
      <4>1. disk'["cand"][k] = disk["cand"][k]
        BY <1>2, <1>4, <3>2, Singles
      <4> QED
        BY <1>3, <1>5, <3>2, <4>1
    <3> QED
      BY <3>1, <3>2
  <2>2. ASSUME NEW i \in DOMAIN moved', moved'[i].to = "live"
        PROVE  moved'[i].file = read.cand[moved'[i].member]
    BY <1>1, <1>5, <1>6, <2>2
  <2> QED
    BY <1>2, <2>1, <2>2 DEF SourceOK
<1>8. LinkOK'
  <2> SUFFICES ASSUME NEW i \in DOMAIN moved', ~moved'[i].removed
               PROVE  /\ moved'[i].to = "live" =>
                           disk'["cand"][moved'[i].member] = read.cand[moved'[i].member]
                      /\ moved'[i].to = "aside" /\ moved'[i].member = "db" =>
                           /\ Present(disk'["live"].db)
                           /\ moved'[i].file.writes \subseteq disk'["live"].db.writes
                      /\ moved'[i].to = "aside" /\ moved'[i].member = "wal" =>
                           \/ disk'["live"].wal = moved'[i].file
                           \/ Present(disk'["live"].db) /\ ~Present(disk'["live"].wal)
    BY <1>2 DEF LinkOK
  <2>1. moved'[i] = x /\ ~removed
    BY <1>1
  <2>2. disk'[from][m] = disk[from][m]
    BY <1>4, <2>1
  <2> QED
    BY <1>1, <1>2, <1>6, <2>1, <2>2
<1> QED
  BY <1>6, <1>7, <1>8

LEMMA MovingAside ==
  ASSUME BackupInv, NEW from \in Path, NEW to \in Path, NEW m \in Member, NEW removed \in BOOLEAN,
         Moving(from, to, m, removed)
  PROVE  AsideOK' /\ LogOK'
<1> DEFINE x == Recorded(from, to, m, removed)
           n == Len(moved)
<1>1. /\ \A i \in DOMAIN moved : i \in DOMAIN moved' /\ moved'[i] = moved[i]
      /\ moved'[n + 1] = x
      /\ \A i \in DOMAIN moved' : i \in DOMAIN moved \/ i = n + 1
      /\ x.to = to /\ x.member = m /\ x.file = disk[from][m] /\ x.removed = removed
      /\ \A i \in DOMAIN moved : Entry(moved[i])
  BY MovingJournal DEF BackupInv, JournalOK
<1>2. /\ Rolling /\ Rolling' /\ ~stuck /\ ~stuck' /\ UNCHANGED read /\ task = "install"
      /\ stage \in 1 .. 7
      /\ \/ removed /\ task' = "install" /\ stage' = stage + 1
         \/ task' = "undo" /\ stage' = stage
      /\ \/ from = "live" /\ to = "aside" /\ stage \in 1 .. 3
         \/ from = "cand" /\ to = "live" /\ stage \in 5 .. 7
      /\ Present(disk[from][m])
  BY MovingRegime
<1>3. /\ \A t, k : Has(t, k)' <=> Has(t, k) \/ (t = to /\ k = m)
      /\ ~Has(to, m)
      /\ to = "aside" => \A k : ~Has("live", k)
  BY MovingHas DEF BackupInv
<1>4. /\ disk'[to][m] = disk[from][m]
      /\ removed => disk'[from][m] = NoFile
      /\ ~removed => disk'[from][m] = disk[from][m]
      /\ \A q \in Path, k \in Member : (q # to /\ q # from) \/ k # m => disk'[q][k] = disk[q][k]
  BY MovingFiles DEF BackupInv
<1> HIDE DEF x, n
<1>5. /\ \A i \in DOMAIN moved :
           moved[i].to = "aside" => disk["aside"][moved[i].member] = moved[i].file
      /\ disk["aside"].wal \in {NoFile, read.live.wal}
  BY <1>2 DEF BackupInv, AsideOK
<1>6. IF Has("live", "wal")
        THEN disk["live"].wal \in {NoFile, read.cand.wal}
        ELSE /\ disk["live"].wal \in {NoFile, read.live.wal}
             /\ stage >= 5 => disk["live"].wal = NoFile
  BY <1>2 DEF BackupInv, LogOK
<1>7. to = "live" => disk[from][m] = read.cand[m]
  BY MovingSource
<1>8. AsideOK'
  <2>1. ASSUME NEW i \in DOMAIN moved', moved'[i].to = "aside"
        PROVE  disk'["aside"][moved'[i].member] = moved'[i].file
    <3>1. CASE i = n + 1
      BY <1>1, <1>4, <2>1, <3>1
    <3>2. CASE i \in DOMAIN moved
      <4>1. /\ moved'[i] = moved[i] /\ moved[i].to = "aside"
            /\ disk["aside"][moved[i].member] = moved[i].file
        BY <1>1, <1>5, <2>1, <3>2
      <4>2. moved[i].member \in Member
        <5>1. moved \in Seq(Move)
          BY DEF BackupInv, BackupTypeOK
        <5>2. moved[i] \in Move
          BY <3>2, <5>1, ElementOfSeq, LenProperties
        <5> QED
          BY <5>2 DEF Move
      <4>3. to = "aside" => moved[i].member # m
        BY <1>3, <3>2, <4>1 DEF Has
      <4>4. disk'["aside"][moved[i].member] = disk["aside"][moved[i].member]
        BY <1>2, <1>4, <4>2, <4>3, Singles
      <4> QED
        BY <4>1, <4>4
    <3> QED
      BY <1>1, <3>1, <3>2
  <2>2. disk'["aside"]["wal"] \in {NoFile, read.live.wal}
    <3>1. CASE to = "aside" /\ m = "wal"
      BY <1>2, <1>3, <1>4, <1>6, <3>1
    <3>2. CASE ~(to = "aside" /\ m = "wal")
      <4>1. disk'["aside"]["wal"] = disk["aside"]["wal"]
        BY <1>2, <1>4, <3>2, Singles
      <4> QED
        BY <1>5, <4>1
    <3> QED
      BY <3>1, <3>2
  <2> QED
    BY <1>2, <2>1, <2>2 DEF AsideOK
<1>9. LogOK'
  <2>1. CASE m # "wal"
    <3>1. disk'["live"]["wal"] = disk["live"]["wal"]
      BY <1>4, <2>1, Singles
    <3>2. Has("live", "wal")' <=> Has("live", "wal")
      BY <1>3, <2>1
    <3>3. task' = "install" /\ stage' >= 5 => stage >= 5
      BY <1>2
    <3> QED
      BY <1>2, <1>6, <3>1, <3>2, <3>3 DEF LogOK
  <2>2. CASE m = "wal" /\ to = "live"
    <3>1. Has("live", "wal")' /\ disk'["live"]["wal"] = read.cand["wal"]
      BY <1>3, <1>4, <1>7, <2>2
    <3> QED
      BY <1>2, <3>1 DEF LogOK
  <2>3. CASE m = "wal" /\ to = "aside"
    <3>1. ~Has("live", "wal")'
      BY <1>3, <2>3
    <3>2. disk'["live"]["wal"] = NoFile \/ disk'["live"]["wal"] = disk["live"]["wal"]
      BY <1>2, <1>4, <2>3
    <3>3. ~(task' = "install" /\ stage' >= 5)
      BY <1>2, <2>3
    <3> QED
      BY <1>2, <1>3, <1>6, <2>3, <3>1, <3>2, <3>3 DEF LogOK
  <2> QED
    BY <1>2, <2>1, <2>2, <2>3
<1> QED
  BY <1>8, <1>9

LEMMA MovingSuperseded ==
  ASSUME BackupInv, NEW from \in Path, NEW to \in Path, NEW m \in Member, NEW removed \in BOOLEAN,
         Moving(from, to, m, removed)
  PROVE  SupersededOK'
<1> DEFINE x == Recorded(from, to, m, removed)
           n == Len(moved)
<1>1. /\ moved' # <<>> /\ n \in Nat /\ DOMAIN moved = 1 .. n
      /\ \A i \in DOMAIN moved : i \in DOMAIN moved' /\ moved'[i] = moved[i]
      /\ moved'[n + 1] = x
      /\ \A i \in DOMAIN moved' : i \in DOMAIN moved \/ i = n + 1
      /\ \A i \in DOMAIN moved : moved[i].removed
      /\ x.to = to /\ x.member = m /\ x.file = disk[from][m] /\ x.removed = removed
  BY MovingJournal DEF BackupInv
<1>2. /\ Rolling /\ Rolling' /\ ~stuck /\ ~stuck' /\ UNCHANGED read /\ task = "install"
      /\ stage \in 1 .. 7
      /\ \/ removed /\ task' = "install" /\ stage' = stage + 1
         \/ task' = "undo" /\ stage' = stage
      /\ \/ from = "live" /\ to = "aside" /\ stage \in 1 .. 3
         \/ from = "cand" /\ to = "live" /\ stage \in 5 .. 7
      /\ Present(disk[from][m]) /\ ~Present(disk[to][m])
  BY MovingRegime
<1>3. /\ \A t, k : Has(t, k)' <=> Has(t, k) \/ (t = to /\ k = m)
      /\ ~Has(to, m)
      /\ to = "aside" => \A i \in DOMAIN moved : moved[i].to = "aside"
      /\ to = "aside" => \A k : ~Has("live", k)
      /\ stage = 1 => moved = <<>>
  BY MovingHas DEF BackupInv
<1>4. /\ disk'[to][m] = disk[from][m]
      /\ removed => disk'[from][m] = NoFile
      /\ ~removed => disk'[from][m] = disk[from][m]
      /\ \A q \in Path, k \in Member : (q # to /\ q # from) \/ k # m => disk'[q][k] = disk[q][k]
  BY MovingFiles DEF BackupInv
<1>5. /\ to = "aside" => (m = "db" <=> stage = 1) /\ (m = "wal" <=> stage = 2)
      /\ to = "live" => (m = "wal" <=> stage = 6) /\ (m = "db" <=> stage = 7)
  BY Routes DEF Moving
<1> HIDE DEF x, n
<1>6. IF Has("live", "wal")
        THEN disk["live"].wal \in {NoFile, read.cand.wal}
        ELSE /\ disk["live"].wal \in {NoFile, read.live.wal}
             /\ stage >= 5 => disk["live"].wal = NoFile
  BY <1>2 DEF BackupInv, LogOK
<1> SUFFICES ASSUME Present(read.live.db)
             PROVE  SupersededOK'
  BY <1>2 DEF SupersededOK
<1>7. /\ moved # <<>> => FirstIsDatabase
      /\ stage >= 2 => moved # <<>>
      /\ IF Gone THEN HeldAside ELSE HeldLive
  BY <1>2 DEF BackupInv, SupersededOK
<1>8. moved # <<>> => 1 \in DOMAIN moved /\ moved'[1] = moved[1]
  <2>1. moved # <<>> => Len(moved) >= 1
    BY Popped DEF BackupInv, BackupTypeOK
  <2> QED
    BY <1>1, <2>1 DEF n
<1>9. CASE stage = 1
  <2>1. /\ from = "live" /\ to = "aside" /\ m = "db" /\ moved = <<>> /\ n = 0
        /\ moved'[1] = x
    BY <1>1, <1>2, <1>3, <1>5, <1>9, NothingMoved DEF n
  <2>2. FirstIsDatabase' /\ (Gone' <=> removed)
    BY <1>1, <2>1 DEF FirstIsDatabase, Gone
  <2>3. HeldLive
    BY <1>7, <2>1 DEF Gone
  <2>4. disk'["live"]["wal"] = disk["live"]["wal"]
    BY <1>4, <2>1, Singles
  <2>5. CASE ~removed
    <3>1. disk'["live"]["db"] = disk["live"]["db"]
      BY <1>4, <2>1, <2>5
    <3>2. HeldLive'
      BY <1>2, <2>3, <2>4, <3>1 DEF HeldLive
    <3> QED
      BY <1>1, <1>2, <2>2, <2>5, <3>2 DEF SupersededOK
  <2>6. CASE removed
    <3>1. x.file = disk["live"]["db"]
      BY <1>1, <2>1
    <3>2. \A i \in DOMAIN moved' : moved'[i].to = "aside"
      BY <1>1, <1>3, <2>1
    <3>3. /\ x.file.of = read.live.db.of /\ read.live.db.writes \subseteq x.file.writes
          /\ read.live.wal.writes \subseteq x.file.writes \cup disk["live"].wal.writes
      BY <2>3, <3>1 DEF HeldLive
    <3>4. \/ read.live.wal.writes \subseteq x.file.writes
          \/ disk["live"].wal = read.live.wal
      <4>1. disk["live"].wal \in {NoFile, read.live.wal}
        BY <1>3, <1>6, <2>1
      <4> QED
        BY <3>3, <4>1, Kinds
    <3>5. HeldAside'
      BY <1>2, <2>1, <2>4, <3>2, <3>3, <3>4 DEF HeldAside
    <3> QED
      BY <1>1, <1>2, <2>2, <2>6, <3>5 DEF SupersededOK
  <2> QED
    BY <2>5, <2>6
<1>10. CASE stage # 1
  <2>1. moved # <<>> /\ FirstIsDatabase /\ Gone /\ HeldAside
    BY <1>1, <1>2, <1>7, <1>8, <1>10 DEF Gone
  <2>2. moved'[1] = moved[1]
    BY <1>8, <2>1
  <2>3. FirstIsDatabase' /\ Gone'
    BY <1>1, <2>1, <2>2 DEF FirstIsDatabase, Gone
  <2>4. /\ moved[1].file.of = read.live.db.of
        /\ read.live.db.writes \subseteq moved[1].file.writes
        /\ \/ Has("aside", "wal")
           \/ read.live.wal.writes \subseteq moved[1].file.writes
           \/ disk["live"].wal = read.live.wal /\ \A i \in DOMAIN moved : moved[i].to = "aside"
           \/ ForeignDatabase
    BY <2>1 DEF HeldAside
  <2>5. m # "db" => (ForeignDatabase => ForeignDatabase')
    <3>1. m # "db" => disk'["live"]["db"] = disk["live"]["db"]
      BY <1>4, Singles
    <3> QED
      BY <1>3, <3>1 DEF ForeignDatabase
  <2>6. m = "db" => ~ForeignDatabase
    BY <1>2, <1>5, <1>10 DEF ForeignDatabase
  <2>7. Has("aside", "wal") => Has("aside", "wal")'
    BY <1>3
  <2>8. CASE to = "live"
    <3>1. disk["live"].wal = read.live.wal /\ (\A i \in DOMAIN moved : moved[i].to = "aside")
            => read.live.wal.writes \subseteq moved[1].file.writes
      <4>1. (\A i \in DOMAIN moved : moved[i].to = "aside") => ~Has("live", "wal")
        BY DEF Has
      <4>2. stage >= 5
        BY <1>2, <2>8
      <4> QED
        BY <1>6, <4>1, <4>2, Kinds
    <3>2. HeldAside'
      BY <1>2, <2>2, <2>4, <2>5, <2>6, <2>7, <3>1 DEF HeldAside
    <3> QED
      BY <1>1, <1>2, <2>3, <3>2 DEF SupersededOK
  <2>9. CASE to = "aside" /\ m = "wal"
    <3>1. Has("aside", "wal")'
      BY <1>3, <2>9
    <3>2. HeldAside'
      BY <1>2, <2>2, <2>4, <3>1 DEF HeldAside
    <3> QED
      BY <1>1, <1>2, <2>3, <3>2 DEF SupersededOK
  <2>10. CASE to = "aside" /\ m # "wal"
    <3>1. disk'["live"]["wal"] = disk["live"]["wal"]
      BY <1>4, <2>10, Singles
    <3>2. \A i \in DOMAIN moved' : moved'[i].to = "aside"
      BY <1>1, <1>3, <2>10
    <3>3. HeldAside'
      BY <1>2, <2>2, <2>4, <2>5, <2>6, <2>7, <3>1, <3>2 DEF HeldAside
    <3> QED
      BY <1>1, <1>2, <2>3, <3>3 DEF SupersededOK
  <2> QED
    BY <1>2, <2>8, <2>9, <2>10
<1> QED
  BY <1>9, <1>10

LEMMA MovingRest ==
  ASSUME BackupInv, NEW from \in Path, NEW to \in Path, NEW m \in Member, NEW removed \in BOOLEAN,
         Moving(from, to, m, removed)
  PROVE  FilesOK' /\ HoldersOK' /\ RestoreOK' /\ ReadOK' /\ SnapshotOK'
<1>1. /\ Rolling /\ Rolling' /\ UNCHANGED <<read, svc, release, kept>>
      /\ task' \in {"install", "undo"}
      /\ \/ from = "live" /\ to = "aside"
         \/ from = "cand" /\ to = "live"
  BY MovingRegime
<1>2. /\ AllWhole(disk') /\ Staged(disk'["cand"])
      /\ disk'[to][m] = disk[from][m]
      /\ disk'[from][m] = NoFile \/ disk'[from][m] = disk[from][m]
      /\ \A q \in Path, k \in Member : (q # to /\ q # from) \/ k # m => disk'[q][k] = disk[q][k]
  BY MovingFiles DEF BackupInv
<1>3. ~Connected /\ ~Connected'
  BY <1>1 DEF BackupInv, HoldersOK, Connected
<1>4. FilesOK'
  BY <1>2 DEF FilesOK, AllWhole
<1>5. HoldersOK' /\ RestoreOK' /\ ReadOK'
  BY <1>1, <1>3 DEF BackupInv, HoldersOK, RestoreOK, ReadOK, Connected
<1>6. SnapshotOK'
  <2> DEFINE x == Recorded(from, to, m, removed)
             n == Len(moved)
  <2>1. /\ \A i \in DOMAIN moved : moved'[i] = moved[i]
        /\ moved'[n + 1] = x
        /\ \A i \in DOMAIN moved' : i \in DOMAIN moved \/ i = n + 1
        /\ x.to = to /\ x.member = m /\ x.file = disk[from][m]
    BY MovingJournal DEF BackupInv
  <2> HIDE DEF x, n
  <2> SUFFICES ASSUME svc = "ready"
               PROVE  /\ disk'["live"].db.of = "own" => disk'["live"].db.rev >= release
                      /\ \A i \in DOMAIN moved' :
                           moved'[i].to = "aside" /\ moved'[i].member = "db" /\ moved'[i].file.of = "own"
                             => moved'[i].file.rev >= release
    BY <1>1, <1>3 DEF SnapshotOK, Connected
  <2>2. /\ disk["live"].db.of = "own" => disk["live"].db.rev >= release
        /\ \A i \in DOMAIN moved :
             moved[i].to = "aside" /\ moved[i].member = "db" /\ moved[i].file.of = "own"
               => moved[i].file.rev >= release
    BY DEF BackupInv, SnapshotOK
  <2>3. disk["cand"].db.of # "own" /\ NoFile.of # "own"
    BY DiskWhole DEF BackupInv, Staged, NoFile
  <2>4. disk'["live"]["db"] \in {disk["live"]["db"], NoFile, disk["cand"]["db"]}
    BY <1>1, <1>2, Singles
  <2>5. \A i \in DOMAIN moved' :
          moved'[i].to = "aside" /\ moved'[i].member = "db" /\ moved'[i].file.of = "own"
            => moved'[i].file.rev >= release
    BY <1>1, <2>1, <2>2, Singles
  <2> QED
    BY <2>2, <2>3, <2>4, <2>5
<1> QED
  BY <1>4, <1>5, <1>6

LEMMA ForwardInv ==
  ASSUME BackupInv, Forward
  PROVE  FilesOK' /\ HoldersOK' /\ RestoreOK' /\ RollbackOK' /\ SnapshotOK'
<1>1. /\ task = "install" /\ stage <= 7 /\ UNCHANGED <<read, stuck, svc, kept, boots, release, tools, acked>>
      /\ MovesFile \/ Skips \/ GivesUp
  BY ForwardCases DEF BackupInv
<1>2. CASE GivesUp
  BY <1>1, <1>2, GivesUpInv
<1>3. CASE Skips
  BY <1>1, <1>3, SkipsInv
<1>4. CASE MovesFile
  <2>1. PICK from \in Path, to \in Path, m \in Member, removed \in BOOLEAN :
          Moving(from, to, m, removed)
    BY <1>1, <1>4, MovesOne
  <2> QED
    BY <2>1, MovingOrder, MovingSource, MovingAside, MovingSuperseded, MovingRest DEF RollbackOK
<1> QED
  BY <1>1, <1>2, <1>3, <1>4

-----------------------------------------------------------------------------
(* A rollback going back. *)

LEMMA UndoJournal ==
  ASSUME BackupInv, Undo
  PROVE  LET n == Len(moved)
             x == moved[n]
         IN
         /\ n \in Nat /\ n >= 1 /\ DOMAIN moved = 1 .. n /\ n \in DOMAIN moved /\ moved # <<>>
         /\ x = UndoNext /\ Entry(x) /\ x \in Move
         /\ moved' \in Seq(Move) /\ DOMAIN moved' = 1 .. n - 1
         /\ \A i \in DOMAIN moved' : /\ i \in DOMAIN moved /\ i < n /\ moved'[i] = moved[i]
                                     /\ moved[i].removed /\ Rank(moved[i]) < Rank(x)
         /\ \A i \in DOMAIN moved : i \in DOMAIN moved' \/ i = n
         /\ \A i \in DOMAIN moved : Rank(moved[i]) \in 1 .. 7
         /\ Rolling /\ Rolling' /\ task' = "undo" /\ UNCHANGED <<read, svc, stage, kept, release>>
         /\ JournalOK' /\ LinkOK'
<1> DEFINE n == Len(moved)
           x == moved[n]
<1>1. /\ task = "undo" /\ UNCHANGED <<svc, task, stage, read, kept, boots, release>>
      /\ Pops /\ Entry(UndoNext) /\ UndoNext \in Move
      /\ stuck' = TRUE \/ stuck' = stuck
  BY UndoCases DEF BackupInv
<1>2. /\ n \in Nat /\ n >= 1 /\ DOMAIN moved = 1 .. n /\ n \in DOMAIN moved
      /\ moved' \in Seq(Move) /\ DOMAIN moved' = 1 .. n - 1 /\ Len(moved') = n - 1
      /\ \A i \in DOMAIN moved' : i \in DOMAIN moved /\ moved'[i] = moved[i]
      /\ \A i \in DOMAIN moved : i \in DOMAIN moved' \/ i = n
  BY <1>1, Popped DEF BackupInv, BackupTypeOK, Pops
<1>3. x = UndoNext
  BY DEF UndoNext
<1> HIDE DEF x, n
<1>4. /\ \A i \in DOMAIN moved : Entry(moved[i])
      /\ \A i, j \in DOMAIN moved : i < j => Rank(moved[i]) < Rank(moved[j])
      /\ \A i \in DOMAIN moved : ~moved[i].removed => i = n /\ ~stuck
  BY DEF BackupInv, JournalOK, n
<1>5. ASSUME NEW i \in DOMAIN moved'
      PROVE  /\ i \in DOMAIN moved /\ i < n /\ moved'[i] = moved[i]
             /\ moved[i].removed /\ Rank(moved[i]) < Rank(x)
  <2>1. i \in DOMAIN moved /\ i < n /\ moved'[i] = moved[i]
    BY <1>2
  <2>2. moved[i].removed
    BY <1>2, <1>4, <2>1
  <2>3. Rank(moved[i]) < Rank(x)
    BY <1>2, <1>4, <2>1 DEF x
  <2> QED
    BY <2>1, <2>2, <2>3
<1>6. Rolling /\ Rolling'
  BY <1>1 DEF Rolling
<1>7. JournalOK'
  <2>1. \A i \in DOMAIN moved' : Entry(moved'[i])
    BY <1>4, <1>5
  <2>2. \A i, j \in DOMAIN moved' : i < j => Rank(moved'[i]) < Rank(moved'[j])
    BY <1>4, <1>5
  <2>3. \A i \in DOMAIN moved' : moved'[i].removed
    BY <1>5
  <2> QED
    BY <1>1, <1>6, <2>1, <2>2, <2>3 DEF JournalOK, Entry, Rank
<1>8. LinkOK'
  BY <1>5 DEF LinkOK
<1>9. \A i \in DOMAIN moved : Rank(moved[i]) \in 1 .. 7
  BY DEF Rank
<1> QED
  BY <1>1, <1>2, <1>3, <1>5, <1>6, <1>7, <1>8, <1>9 DEF x, n, Pops

LEMMA UndoHas ==
  ASSUME BackupInv, Undo
  PROVE  LET n == Len(moved)
             x == moved[n]
         IN
         /\ \A t, k : Has(t, k) <=> Has(t, k)' \/ (t = x.to /\ k = x.member)
         /\ \A k : Taken(k) <=> Taken(k)' \/ (x.to = "live" /\ k = x.member /\ x.removed)
         /\ \A t, k : t = x.to /\ k = x.member => ~Has(t, k)' /\ (t = "live" => ~Taken(k)')
         /\ x.to = "aside" =>
              (\A i \in DOMAIN moved : moved[i].to = "aside") /\ \A k : ~Has("live", k)
         /\ x.to = "aside" /\ x.member # "mark" => ~Has("aside", "mark")
<1> DEFINE n == Len(moved)
           x == moved[n]
<1>1. /\ n \in Nat /\ n >= 1 /\ n \in DOMAIN moved /\ Entry(x)
      /\ \A i \in DOMAIN moved' : /\ i \in DOMAIN moved /\ i < n /\ moved'[i] = moved[i]
                                  /\ moved[i].removed /\ Rank(moved[i]) < Rank(x)
      /\ \A i \in DOMAIN moved : i \in DOMAIN moved' \/ i = n
      /\ \A i \in DOMAIN moved : Rank(moved[i]) \in 1 .. 7
  BY UndoJournal
<1>2. moved[n] = x
  OBVIOUS
<1> HIDE DEF x, n
<1>3. ASSUME NEW t, NEW k PROVE Has(t, k) <=> Has(t, k)' \/ (t = x.to /\ k = x.member)
  <2>1. Has(t, k) => Has(t, k)' \/ (t = x.to /\ k = x.member)
    BY <1>1, <1>2 DEF Has
  <2>2. Has(t, k)' => Has(t, k)
    BY <1>1 DEF Has
  <2>3. t = x.to /\ k = x.member => Has(t, k)
    BY <1>1, <1>2 DEF Has
  <2> QED
    BY <2>1, <2>2, <2>3
<1>4. ASSUME NEW k PROVE Taken(k) <=> Taken(k)' \/ (x.to = "live" /\ k = x.member /\ x.removed)
  <2>1. Taken(k) => Taken(k)' \/ (x.to = "live" /\ k = x.member /\ x.removed)
    BY <1>1, <1>2 DEF Taken
  <2>2. Taken(k)' => Taken(k)
    BY <1>1 DEF Taken
  <2>3. x.to = "live" /\ k = x.member /\ x.removed => Taken(k)
    BY <1>1, <1>2 DEF Taken
  <2> QED
    BY <2>1, <2>2, <2>3
<1>5. ASSUME NEW i \in DOMAIN moved', moved'[i].to = x.to, moved'[i].member = x.member PROVE FALSE
  <2>1. moved[i].to = x.to /\ moved[i].member = x.member /\ Rank(moved[i]) < Rank(x)
        /\ Rank(moved[i]) \in 1 .. 7
    BY <1>1, <1>5
  <2>2. Rank(moved[i]) = Rank(x)
    BY <2>1 DEF Rank
  <2> QED
    BY <2>1, <2>2
<1>6. ASSUME NEW t, NEW k, t = x.to, k = x.member
      PROVE  ~Has(t, k)' /\ (t = "live" => ~Taken(k)')
  BY <1>5, <1>6 DEF Has, Taken
<1>7. ASSUME x.to = "aside", NEW i \in DOMAIN moved, moved[i].to # "aside" PROVE FALSE
  <2>1. Rank(moved[i]) >= 5 /\ Rank(x) <= 3 /\ Rank(moved[i]) \in 1 .. 7 /\ Rank(x) \in 1 .. 7
    BY <1>7 DEF Rank
  <2>2. i # n
    BY <1>2, <1>7
  <2>3. Rank(moved[i]) < Rank(x)
    BY <1>1, <2>2
  <2> QED
    BY <2>1, <2>3
<1>8. x.to = "aside" =>
        (\A i \in DOMAIN moved : moved[i].to = "aside") /\ \A k : ~Has("live", k)
  BY <1>7 DEF Has
<1>9. ASSUME x.to = "aside", x.member # "mark", NEW i \in DOMAIN moved,
             moved[i].to = "aside", moved[i].member = "mark"
      PROVE  FALSE
  <2>1. Rank(moved[i]) = 3 /\ Rank(x) <= 3 /\ Rank(x) \in 1 .. 7
    BY <1>9 DEF Rank
  <2>2. i # n
    BY <1>2, <1>9
  <2>3. Rank(moved[i]) < Rank(x)
    BY <1>1, <2>2
  <2> QED
    BY <2>1, <2>3
<1> QED
  BY <1>3, <1>4, <1>6, <1>8, <1>9 DEF x, n, Has

\* The files after one step back.
Untouched(x) ==
  /\ disk' = disk
  /\ stuck' # TRUE =>
       ~Present(disk[x.to][x.member]) /\ (x.removed => Present(disk[x.from][x.member]))
Returned(x) ==
  /\ disk[x.to][x.member] = x.file /\ disk'[x.to][x.member] = NoFile
  /\ x.removed => ~Present(disk[x.from][x.member]) /\ disk'[x.from][x.member] = x.file
  /\ ~x.removed => disk'[x.from][x.member] = disk[x.from][x.member]
  /\ \A q \in Path, k \in Member :
       (q # x.to /\ q # x.from) \/ k # x.member => disk'[q][k] = disk[q][k]

LEMMA UndoFiles ==
  ASSUME BackupInv, Undo
  PROVE  LET x == moved[Len(moved)] IN
         /\ AllWhole(disk') /\ Staged(disk'["cand"])
         /\ stuck' = TRUE \/ stuck' = stuck
         /\ Untouched(x) \/ Returned(x)
         /\ x.to # x.from /\ x.to \in Path /\ x.from \in Path /\ x.member \in Member
         /\ \/ x.to = "aside" /\ x.from = "live"
            \/ x.to = "live" /\ x.from = "cand"
         /\ Present(x.file) /\ x.file \in FileKind(x.member)
<1> DEFINE x == moved[Len(moved)]
<1>1. /\ \/ disk' = disk /\ stuck' = TRUE
         \/ /\ disk' = disk /\ stuck' = stuck /\ ~Present(disk[x.to][x.member])
            /\ x.removed => Present(disk[x.from][x.member])
         \/ stuck' \in {stuck, TRUE} /\ PutsBack(x)
      /\ Entry(x) /\ x \in Move
  BY UndoCases DEF BackupInv, UndoNext
<1>2. /\ \A i \in DOMAIN moved :
           moved[i].to = "live" => moved[i].file = read.cand[moved[i].member]
      /\ Rolling /\ Len(moved) \in DOMAIN moved
      /\ Staged(read.cand)
  BY UndoJournal DEF BackupInv, SourceOK, ReadOK
<1>3. x.to = "live" => x.file = read.cand[x.member]
  BY <1>2
<1> HIDE DEF x
<1>4. /\ x.to # x.from /\ x.to \in Path /\ x.from \in Path /\ x.member \in Member
      /\ \/ x.to = "aside" /\ x.from = "live"
         \/ x.to = "live" /\ x.from = "cand"
      /\ Present(x.file) /\ x.file \in FileKind(x.member)
  BY <1>1 DEF Entry, Move
<1>5. AllWhole(disk) /\ Staged(disk["cand"])
  BY DiskWhole DEF BackupInv
<1>6. CASE /\ disk' = disk
           /\ stuck' = TRUE \/ stuck' = stuck
           /\ stuck' # TRUE =>
                ~Present(disk[x.to][x.member]) /\ (x.removed => Present(disk[x.from][x.member]))
  BY <1>4, <1>5, <1>6 DEF Untouched, x
<1>7. CASE stuck' \in {stuck, TRUE} /\ PutsBack(x)
  <2>1. Returned(x) /\ AllWhole(disk')
    <3>1. CASE x.removed
      <4>1. /\ disk[x.to][x.member] = x.file /\ ~Present(disk[x.from][x.member])
            /\ disk' = Claimed(x.to, x.from, x.member)
        BY <1>7, <3>1 DEF PutsBack
      <4>2. /\ disk' \in [Path -> Bundle] /\ \A q \in Path : Whole(disk'[q])
            /\ disk'[x.from][x.member] = disk[x.to][x.member] /\ disk'[x.to][x.member] = NoFile
            /\ \A q \in Path, k \in Member :
                 (q # x.from /\ q # x.to) \/ k # x.member => disk'[q][k] = disk[q][k]
        BY <1>4, <4>1, ClaimedShape DEF BackupInv
      <4> QED
        BY <3>1, <4>1, <4>2 DEF Returned, AllWhole
    <3>2. CASE ~x.removed
      <4>1. disk[x.to][x.member] = x.file /\ Differs(disk', disk, x.to, x.member, NoFile)
        BY <1>7, <3>2 DEF PutsBack
      <4>2. /\ AllWhole(disk') /\ disk'[x.to][x.member] = NoFile
            /\ \A q \in Path, k \in Member : q # x.to \/ k # x.member => disk'[q][k] = disk[q][k]
        BY <1>4, <1>5, <4>1, OneShape, Kinds
      <4> QED
        BY <1>4, <3>2, <4>1, <4>2 DEF Returned
    <3> QED
      BY <3>1, <3>2
  <2>2. \A k \in Member : disk'["cand"][k] \in {disk["cand"][k], read.cand[k]}
    <3>1. ASSUME NEW k \in Member, disk'["cand"][k] # disk["cand"][k]
          PROVE  disk'["cand"][k] = read.cand[k]
      BY <1>3, <1>4, <2>1, <3>1, Singles DEF Returned
    <3> QED
      BY <3>1
  <2>3. Staged(disk'["cand"])
    <3>1. /\ disk'["cand"]["db"] \in {disk["cand"]["db"], read.cand["db"]}
          /\ disk'["cand"]["wal"] \in {disk["cand"]["wal"], read.cand["wal"]}
      BY <2>2, Singles
    <3> QED
      BY <1>2, <1>5, <3>1 DEF Staged
  <2> QED
    BY <1>4, <1>7, <2>1, <2>3 DEF x
<1> QED
  BY <1>1, <1>6, <1>7

LEMMA UndoSource ==
  ASSUME BackupInv, Undo
  PROVE  SourceOK' /\ AsideOK' /\ LogOK'
<1> DEFINE n == Len(moved)
           x == moved[n]
<1>1. /\ n \in DOMAIN moved
      /\ \A i \in DOMAIN moved' : /\ i \in DOMAIN moved /\ moved'[i] = moved[i]
                                  /\ Rank(moved[i]) < Rank(x)
      /\ Rolling /\ Rolling' /\ task' = "undo" /\ UNCHANGED read
  BY UndoJournal
<1>2. /\ \A t, k : Has(t, k) <=> Has(t, k)' \/ (t = x.to /\ k = x.member)
      /\ \A k : Taken(k) <=> Taken(k)' \/ (x.to = "live" /\ k = x.member /\ x.removed)
      /\ \A t, k : t = x.to /\ k = x.member => ~Has(t, k)' /\ (t = "live" => ~Taken(k)')
      /\ x.to = "aside" => \A k : ~Has("live", k)
  BY UndoHas
<1>3. /\ stuck' = TRUE \/ stuck' = stuck
      /\ Untouched(x) \/ Returned(x)
      /\ x.to \in Path /\ x.from \in Path /\ x.member \in Member
      /\ \/ x.to = "aside" /\ x.from = "live"
         \/ x.to = "live" /\ x.from = "cand"
      /\ Present(x.file) /\ x.file \in FileKind(x.member)
  BY UndoFiles
<1>4. /\ \A k \in Member : IF Taken(k) THEN disk["cand"][k] = NoFile
                                       ELSE disk["cand"][k] = read.cand[k] \/ stuck
      /\ \A i \in DOMAIN moved :
           moved[i].to = "live" => moved[i].file = read.cand[moved[i].member]
      /\ \A i \in DOMAIN moved :
           moved[i].to = "aside" => disk["aside"][moved[i].member] = moved[i].file
      /\ disk["aside"].wal \in {NoFile, read.live.wal}
  BY <1>1 DEF BackupInv, SourceOK, AsideOK
<1>5. /\ x.to = "live" => x.file = read.cand[x.member]
      /\ x.to = "aside" => disk["aside"][x.member] = x.file
  BY <1>1, <1>4
<1>6. ASSUME NEW i \in DOMAIN moved' PROVE moved'[i].member \in Member
  <2>1. moved' \in Seq(Move)
    BY UndoJournal
  <2>2. moved'[i] \in Move
    BY <2>1, ElementOfSeq, LenProperties
  <2> QED
    BY <2>2 DEF Move
<1> HIDE DEF x, n
<1>7. \A i \in DOMAIN moved' : moved'[i].to = x.to => moved'[i].member # x.member
  BY <1>2 DEF Has
<1>8. SourceOK'
  <2>1. ASSUME NEW k \in Member
        PROVE  IF Taken(k)' THEN disk'["cand"][k] = NoFile
                            ELSE disk'["cand"][k] = read.cand[k] \/ stuck'
    <3>1. CASE x.to = "live" /\ k = x.member /\ x.removed
      <4>1. ~Taken(k)' /\ Taken(k) /\ disk["cand"][k] = NoFile
        BY <1>2, <1>4, <3>1
      <4>2. CASE Untouched(x)
        BY <1>3, <3>1, <4>1, <4>2, Kinds DEF Untouched
      <4>3. CASE Returned(x)
        BY <1>3, <1>5, <3>1, <4>1, <4>3 DEF Returned
      <4> QED
        BY <1>3, <4>2, <4>3
    <3>2. CASE ~(x.to = "live" /\ k = x.member /\ x.removed)
      <4>1. Taken(k)' <=> Taken(k)
        BY <1>2, <3>2
      <4>2. disk'["cand"][k] = disk["cand"][k]
        BY <1>3, <3>2, Singles DEF Untouched, Returned
      <4>3. stuck => stuck'
        BY <1>3, Zenon
      <4> QED
        BY <1>4, <4>1, <4>2, <4>3
    <3> QED
      BY <3>1, <3>2
  <2>2. ASSUME NEW i \in DOMAIN moved', moved'[i].to = "live"
        PROVE  moved'[i].file = read.cand[moved'[i].member]
    BY <1>1, <1>4, <2>2
  <2> QED
    BY <1>1, <2>1, <2>2 DEF SourceOK
<1>9. AsideOK'
  <2>1. ASSUME NEW i \in DOMAIN moved', moved'[i].to = "aside"
        PROVE  disk'["aside"][moved'[i].member] = moved'[i].file
    <3>1. disk["aside"][moved'[i].member] = moved'[i].file
      BY <1>1, <1>4, <2>1
    <3>2. x.to = "aside" => moved'[i].member # x.member
      BY <1>7, <2>1
    <3>3. disk'["aside"][moved'[i].member] = disk["aside"][moved'[i].member]
      BY <1>3, <1>6, <3>2, Singles DEF Untouched, Returned
    <3> QED
      BY <3>1, <3>3
  <2>2. disk'["aside"]["wal"] \in {disk["aside"]["wal"], NoFile}
    BY <1>3, Singles DEF Untouched, Returned
  <2> QED
    BY <1>1, <1>4, <2>1, <2>2 DEF AsideOK
<1>10. LogOK'
  <2> SUFFICES ASSUME ~stuck'
               PROVE  IF Has("live", "wal")' THEN disk'["live"]["wal"] \in {NoFile, read.cand.wal}
                                             ELSE disk'["live"]["wal"] \in {NoFile, read.live.wal}
    BY <1>1 DEF LogOK
  <2>1. ~stuck /\ stuck' # TRUE
    <3>1. ~stuck
      BY <1>3, Zenon
    <3>2. stuck' # TRUE
      BY Zenon
    <3> QED
      BY <3>1, <3>2
  <2>2. IF Has("live", "wal") THEN disk["live"]["wal"] \in {NoFile, read.cand.wal}
                              ELSE disk["live"]["wal"] \in {NoFile, read.live.wal}
    BY <1>1, <2>1 DEF BackupInv, LogOK
  <2>3. CASE x.to = "live" /\ x.member = "wal"
    <3>1. disk'["live"]["wal"] = NoFile
      <4>1. CASE Untouched(x)
        <5>1. ~Present(disk["live"]["wal"]) /\ disk["live"]["wal"] \in FileKind("wal")
          BY <2>1, <2>3, <4>1, DiskWhole, Singles DEF Untouched, BackupInv
        <5> QED
          BY <4>1, <5>1, Kinds, Singles DEF Untouched
      <4>2. CASE Returned(x)
        BY <2>3, <4>2 DEF Returned
      <4> QED
        BY <1>3, <4>1, <4>2
    <3> QED
      BY <3>1
  <2>4. CASE x.to = "aside" /\ x.member = "wal"
    <3>1. ~Has("live", "wal") /\ ~Has("live", "wal")'
      BY <1>2, <2>4
    <3>2. disk'["live"]["wal"] \in {disk["live"]["wal"], x.file}
      BY <1>3, <2>4, Singles DEF Untouched, Returned
    <3>3. x.file \in {NoFile, read.live.wal}
      BY <1>4, <1>5, <2>4
    <3> QED
      BY <2>2, <3>1, <3>2, <3>3
  <2>5. CASE x.member # "wal"
    <3>1. Has("live", "wal")' <=> Has("live", "wal")
      BY <1>2, <2>5
    <3>2. disk'["live"]["wal"] = disk["live"]["wal"]
      BY <1>3, <2>5, Singles DEF Untouched, Returned
    <3> QED
      BY <2>2, <3>1, <3>2
  <2> QED
    BY <1>3, <2>3, <2>4, <2>5
<1> QED
  BY <1>8, <1>9, <1>10

LEMMA UndoSuperseded ==
  ASSUME BackupInv, Undo
  PROVE  SupersededOK'
<1> DEFINE n == Len(moved)
           x == moved[n]
<1>1. /\ n \in Nat /\ n >= 1 /\ DOMAIN moved = 1 .. n /\ moved # <<>> /\ DOMAIN moved' = 1 .. n - 1
      /\ moved' \in Seq(Move)
      /\ \A i \in DOMAIN moved' : /\ i \in DOMAIN moved /\ i < n /\ moved'[i] = moved[i]
                                  /\ moved[i].removed
      /\ Rolling /\ Rolling' /\ task' = "undo" /\ UNCHANGED read
  BY UndoJournal
<1>2. /\ \A t, k : Has(t, k) <=> Has(t, k)' \/ (t = x.to /\ k = x.member)
      /\ x.to = "aside" => \A i \in DOMAIN moved : moved[i].to = "aside"
      /\ x.to = "aside" => \A k : ~Has("live", k)
  BY UndoHas
<1>3. /\ stuck' = TRUE \/ stuck' = stuck
      /\ Untouched(x) \/ Returned(x)
      /\ x.member \in Member
      /\ \/ x.to = "aside" /\ x.from = "live"
         \/ x.to = "live" /\ x.from = "cand"
      /\ Present(x.file)
  BY UndoFiles
<1>4. /\ x.to = "aside" => disk["aside"][x.member] = x.file
      /\ disk["aside"].wal \in {NoFile, read.live.wal}
  BY <1>1 DEF BackupInv, AsideOK
<1>5. ~x.removed =>
        /\ x.to = "aside" /\ x.member = "wal" =>
             \/ disk["live"].wal = x.file
             \/ Present(disk["live"].db) /\ ~Present(disk["live"].wal)
  BY <1>1 DEF BackupInv, LinkOK
<1> SUFFICES ASSUME Present(read.live.db)
             PROVE  /\ moved' # <<>> => FirstIsDatabase'
                    /\ ~stuck' => IF Gone' THEN HeldAside' ELSE HeldLive'
  BY <1>1 DEF SupersededOK
<1>6. FirstIsDatabase /\ (~stuck => IF Gone THEN HeldAside ELSE HeldLive)
  BY <1>1 DEF BackupInv, SupersededOK
<1>7. n > 1 => 1 \in DOMAIN moved' /\ moved'[1] = moved[1] /\ moved[1].removed /\ moved' # <<>>
  <2>1. n > 1 => 1 \in DOMAIN moved'
    BY <1>1
  <2> QED
    BY <1>1, <2>1, EmptySeq
<1>8. n = 1 => moved' = <<>> /\ x = moved[1]
  <2>1. n = 1 => Len(moved') = 0
    BY <1>1, LenProperties
  <2>2. n = 1 => moved' = <<>>
    BY <1>1, <2>1, EmptySeq
  <2> QED
    BY <2>2
<1>9. moved' # <<>> => FirstIsDatabase'
  <2>1. moved' # <<>> => n > 1
    BY <1>1, <1>8
  <2> QED
    BY <1>6, <1>7, <2>1 DEF FirstIsDatabase
<1> HIDE DEF x
<1> SUFFICES ASSUME ~stuck'
             PROVE  IF Gone' THEN HeldAside' ELSE HeldLive'
  BY <1>9
<1>10. ~stuck /\ stuck' # TRUE /\ (Untouched(x) => disk' = disk /\ ~Present(disk[x.to][x.member]))
  <2>1. ~stuck
    BY <1>3, Zenon
  <2>2. stuck' # TRUE
    BY Zenon
  <2> QED
    BY <2>1, <2>2 DEF Untouched
<1>11. IF Gone THEN HeldAside ELSE HeldLive
  BY <1>6, <1>10
<1>12. x.to = "aside" => Returned(x)
  BY <1>3, <1>4, <1>10
<1>13. CASE n = 1
  <2>1. ~Gone' /\ x.to = "aside" /\ x.member = "db" /\ x = moved[1]
    BY <1>6, <1>8, <1>13 DEF Gone, FirstIsDatabase
  <2>2. disk'["live"]["wal"] = disk["live"]["wal"] /\ x.from = "live"
    BY <1>3, <1>12, <2>1, Singles DEF Returned
  <2>3. CASE ~x.removed
    <3>1. HeldLive
      BY <1>11, <2>1, <2>3 DEF Gone
    <3>2. disk'["live"]["db"] = disk["live"]["db"]
      BY <1>12, <2>1, <2>2, <2>3 DEF Returned
    <3>3. HeldLive'
      BY <1>1, <2>2, <3>1, <3>2 DEF HeldLive
    <3> QED
      BY <2>1, <3>3
  <2>4. CASE x.removed
    <3>1. HeldAside
      BY <1>1, <1>6, <1>11, <2>1, <2>4 DEF Gone
    <3>2. disk'["live"]["db"] = x.file /\ ~Present(disk["live"]["db"])
      BY <1>12, <2>1, <2>2, <2>4 DEF Returned
    <3>3. ~ForeignDatabase /\ ~Has("aside", "wal")
      <4>1. \A i \in DOMAIN moved : i = 1
        BY <1>1, <1>13
      <4> QED
        BY <2>1, <3>2, <4>1 DEF ForeignDatabase, Has
    <3>4. /\ x.file.of = read.live.db.of /\ read.live.db.writes \subseteq x.file.writes
          /\ read.live.wal.writes \subseteq x.file.writes \/ disk["live"].wal = read.live.wal
      BY <2>1, <3>1, <3>3 DEF HeldAside
    <3>5. HeldLive'
      BY <1>1, <1>3, <2>2, <3>2, <3>4 DEF HeldLive
    <3> QED
      BY <2>1, <3>5
  <2> QED
    BY <2>3, <2>4
<1>14. CASE n > 1
  <2>1. Gone /\ HeldAside /\ moved'[1] = moved[1]
    BY <1>1, <1>6, <1>7, <1>11, <1>14 DEF Gone
  <2>2. Gone'
    BY <1>7, <1>9, <1>14 DEF Gone
  <2>3. /\ moved[1].file.of = read.live.db.of
        /\ read.live.db.writes \subseteq moved[1].file.writes
        /\ \/ Has("aside", "wal")
           \/ read.live.wal.writes \subseteq moved[1].file.writes
           \/ disk["live"].wal = read.live.wal /\ \A i \in DOMAIN moved : moved[i].to = "aside"
           \/ ForeignDatabase
    BY <2>1 DEF HeldAside
  <2>4. HeldAside'
    <3>1. CASE x.to = "aside" /\ x.member = "wal"
      <4>1. x.file = read.live.wal
        BY <1>3, <1>4, <3>1, Kinds
      <4>2. \A i \in DOMAIN moved' : moved'[i].to = "aside"
        BY <1>1, <1>2, <3>1
      <4>3. CASE x.removed
        <5>1. disk'["live"]["wal"] = x.file
          BY <1>3, <1>12, <3>1, <4>3 DEF Returned
        <5> QED
          BY <1>1, <2>1, <2>3, <4>1, <4>2, <5>1 DEF HeldAside
      <4>4. CASE ~x.removed
        <5>1. disk'["live"]["wal"] = disk["live"]["wal"] /\ disk'["live"]["db"] = disk["live"]["db"]
          BY <1>3, <1>12, <3>1, <4>4, Singles DEF Returned
        <5>2. CASE disk["live"].wal = x.file
          BY <1>1, <2>1, <2>3, <4>1, <4>2, <5>1, <5>2 DEF HeldAside
        <5>3. CASE Present(disk["live"].db)
          <6>1. ~Has("live", "db")'
            BY <1>2, <3>1
          <6>2. ForeignDatabase'
            BY <5>1, <5>3, <6>1 DEF ForeignDatabase
          <6> QED
            BY <1>1, <2>1, <2>3, <6>2 DEF HeldAside
        <5> QED
          BY <1>5, <3>1, <4>4, <5>2, <5>3
      <4> QED
        BY <4>3, <4>4
    <3>2. CASE x.to = "aside" /\ x.member # "wal"
      <4>1. x.member = "mark"
        <5>1. CASE x.member = "db"
          <6>1. Rank(moved[1]) < Rank(x)
            BY <1>7, <1>14, UndoJournal DEF x
          <6>2. Rank(moved[1]) = 1 /\ Rank(x) = 1
            BY <1>6, <3>2, <5>1 DEF FirstIsDatabase, Rank
          <6> QED
            BY <6>1, <6>2
        <5> QED
          BY <1>3, <3>2, <5>1 DEF Member
      <4>2. disk'["live"]["wal"] = disk["live"]["wal"] /\ disk'["live"]["db"] = disk["live"]["db"]
        BY <1>12, <3>2, <4>1, Singles DEF Returned
      <4>3. Has("aside", "wal")' <=> Has("aside", "wal")
        BY <1>2, <3>2
      <4>4. (Has("live", "db")' <=> Has("live", "db"))
        BY <1>2, <3>2
      <4>5. \A i \in DOMAIN moved' : moved'[i].to = "aside"
        BY <1>1, <1>2, <3>2
      <4> QED
        BY <1>1, <2>1, <2>3, <4>2, <4>3, <4>4, <4>5 DEF HeldAside, ForeignDatabase
    <3>3. CASE x.to = "live"
      <4>1. Has("aside", "wal")' <=> Has("aside", "wal")
        BY <1>2, <3>3
      <4>2. ~ \A i \in DOMAIN moved : moved[i].to = "aside"
        BY <1>1, <3>3 DEF x
      <4>3. ForeignDatabase => ForeignDatabase'
        <5>1. x.member = "db" => ~ForeignDatabase
          BY <1>2, <3>3 DEF ForeignDatabase
        <5>2. x.member # "db" =>
                disk'["live"]["db"] = disk["live"]["db"] /\ (Has("live", "db")' <=> Has("live", "db"))
          BY <1>2, <1>3, <3>3, Singles DEF Returned, Untouched
        <5> QED
          BY <5>1, <5>2 DEF ForeignDatabase
      <4> QED
        BY <1>1, <2>1, <2>3, <4>1, <4>2, <4>3 DEF HeldAside
    <3> QED
      BY <1>3, <3>1, <3>2, <3>3
  <2> QED
    BY <2>2, <2>4
<1> QED
  BY <1>1, <1>13, <1>14

LEMMA UndoInv ==
  ASSUME BackupInv, Undo
  PROVE  FilesOK' /\ HoldersOK' /\ RestoreOK' /\ RollbackOK' /\ SnapshotOK'
<1> DEFINE n == Len(moved)
           x == moved[n]
<1>1. /\ n \in DOMAIN moved
      /\ \A i \in DOMAIN moved' : i \in DOMAIN moved /\ moved'[i] = moved[i]
      /\ Rolling /\ Rolling' /\ task' = "undo" /\ UNCHANGED <<read, svc, stage, kept, release>>
      /\ JournalOK' /\ LinkOK'
  BY UndoJournal
<1>2. /\ AllWhole(disk') /\ Staged(disk'["cand"])
      /\ Untouched(x) \/ Returned(x)
      /\ x.member \in Member
      /\ \/ x.to = "aside" /\ x.from = "live"
         \/ x.to = "live" /\ x.from = "cand"
  BY UndoFiles
<1>3. ~Connected /\ ~Connected'
  BY <1>1 DEF BackupInv, HoldersOK, Connected
<1>4. FilesOK'
  BY <1>2 DEF FilesOK, AllWhole
<1>5. HoldersOK' /\ RestoreOK' /\ ReadOK'
  BY <1>1, <1>3 DEF BackupInv, HoldersOK, RestoreOK, ReadOK, Connected
<1>6. SnapshotOK'
  <2> SUFFICES ASSUME svc = "ready"
               PROVE  disk'["live"].db.of = "own" => disk'["live"].db.rev >= release
    BY <1>1, <1>3 DEF BackupInv, SnapshotOK, Connected
  <2>1. /\ disk["live"].db.of = "own" => disk["live"].db.rev >= release
        /\ x.to = "aside" /\ x.member = "db" /\ x.file.of = "own" => x.file.rev >= release
    BY <1>1 DEF BackupInv, SnapshotOK
  <2>2. NoFile.of # "own"
    BY DEF NoFile
  <2> HIDE DEF x
  <2>3. \/ disk'["live"]["db"] \in {disk["live"]["db"], NoFile}
        \/ disk'["live"]["db"] = x.file /\ x.to = "aside" /\ x.member = "db"
    BY <1>2, Singles DEF Untouched, Returned
  <2> QED
    BY <2>1, <2>2, <2>3
<1> QED
  BY <1>1, <1>4, <1>5, <1>6, UndoSource, UndoSuperseded DEF RollbackOK

-----------------------------------------------------------------------------
(* The invariant. *)

RestoreBegins ==
  \E p \in Targets, image \in Images, migrate \in BOOLEAN : RestoreBegin(p, image, migrate)

LEMMA StepKinds ==
  ASSUME BackupNext
  PROVE  \/ Outside \/ Restoring \/ RestoreBegins \/ Resume \/ FreeTarget
         \/ InstallBegin \/ Forward \/ Undo \/ Verify \/ UndoEnd \/ Crash
BY DEF BackupNext, Service, Command, Outside, Restoring, RestoreBegins, Forward

LEMMA ForwardTypes ==
  ASSUME BackupInv, Forward
  PROVE  disk' \in [Path -> Bundle] /\ CommandOK'
<1>1. /\ task = "install" /\ stage <= 7 /\ UNCHANGED <<read, stuck, report>>
      /\ MovesFile \/ Skips \/ GivesUp
  BY ForwardCases DEF BackupInv, Forward, MoveAside, NothingRemains, MoveIn
<1>2. UNCHANGED <<svc, kept, release>>
  BY ForwardCases DEF BackupInv
<1>3. CommandOK /\ disk \in [Path -> Bundle]
  BY DEF BackupInv, BackupTypeOK, CommandOK
<1>4. ASSUME disk' = disk, moved' = moved, Onward \/ TurnsBack
      PROVE  disk' \in [Path -> Bundle] /\ CommandOK'
  BY <1>1, <1>3, <1>4 DEF CommandOK, Onward, TurnsBack
<1>5. CASE Skips \/ GivesUp
  BY <1>4, <1>5 DEF Skips, GivesUp
<1>6. CASE MovesFile
  <2>1. PICK from \in Path, to \in Path, m \in Member, removed \in BOOLEAN :
          Moving(from, to, m, removed)
    BY <1>1, <1>2, <1>6, MovesOne
  <2>2. moved' \in Seq(Move) /\ AllWhole(disk')
    BY <2>1, MovingJournal, MovingFiles DEF BackupInv
  <2>3. task' \in {"install", "undo"} /\ (stage' = stage + 1 \/ stage' = stage)
    BY <2>1 DEF Moving, Onward, TurnsBack
  <2> QED
    BY <1>1, <1>3, <2>2, <2>3 DEF CommandOK, AllWhole
<1> QED
  BY <1>1, <1>5, <1>6

LEMMA StepTypes ==
  ASSUME BackupInv, BackupNext
  PROVE  BackupTypeOK'
<1>1. CommandOK /\ disk \in [Path -> Bundle] /\ BackupTypeOK /\ FilesOK
  BY DEF BackupInv, BackupTypeOK, CommandOK
<1>2. disk' \in [Path -> Bundle] /\ CommandOK'
  <2>1. CASE Outside
    BY <1>1, <2>1, OutsideFiles, OutsideCommand DEF CommandOK
  <2>2. CASE Restoring
    <3>1. /\ UNCHANGED <<moved, stuck, report>>
          /\ \/ task' = "idle" /\ stage' = 1 /\ read' = NoRead
             \/ task' = "restore" /\ read' = read /\ stage' = stage + 1 /\ stage \in 1 .. 3
      BY <1>1, <2>2, RestoringCommand
    <3>2. disk' \in [Path -> Bundle]
      BY <1>1, <2>2, RestoreSteps DEF BackupInv, AllWhole
    <3>3. read' \in [path : Path, image : Image, migrate : BOOLEAN, cand : Bundle, live : Bundle]
      BY <1>1, <3>1, NoReadType DEF CommandOK
    <3> QED
      BY <1>1, <3>1, <3>2, <3>3 DEF CommandOK
  <2>3. CASE RestoreBegins
    BY <1>1, <2>3, BeginsCommand DEF RestoreBegins
  <2>4. CASE Resume \/ FreeTarget
    BY <1>1, <2>4, QuietCommandInv, CommandsOnFiles DEF CommandOK, AllWhole
  <2>5. CASE InstallBegin
    BY <1>1, <2>5, BeginsInstall
  <2>6. CASE Forward
    BY <2>6, ForwardTypes
  <2>7. CASE Undo
    <3>1. moved' \in Seq(Move) /\ task' = "undo" /\ UNCHANGED <<read, stage>>
      BY <2>7, UndoJournal
    <3>2. AllWhole(disk') /\ (stuck' = TRUE \/ stuck' = stuck)
      BY <2>7, UndoFiles
    <3>3. stuck' \in BOOLEAN
      BY <1>1, <3>2, Zenon DEF CommandOK
    <3>4. UNCHANGED report
      BY <2>7 DEF Undo
    <3> QED
      BY <1>1, <3>1, <3>2, <3>3, <3>4 DEF CommandOK, AllWhole
  <2>8. CASE Verify \/ UndoEnd
    BY <1>1, <2>8, EndsInstall, EndingFiles DEF AllWhole
  <2>9. CASE Crash
    BY <1>1, <2>9, EndsInstall, CommandsOnFiles DEF AllWhole
  <2> QED
    BY <2>1, <2>2, <2>3, <2>4, <2>5, <2>6, <2>7, <2>8, <2>9, StepKinds
<1> QED
  BY <1>1, <1>2, ArchivesType, PlainTypes DEF BackupTypeOK, CommandOK

LEMMA BackupStepInv ==
  ASSUME BackupInv, BackupNext
  PROVE  BackupInv'
<1>1. BackupTypeOK'
  BY StepTypes
<1>2. /\ BackupTypeOK /\ FilesOK /\ HoldersOK /\ RestoreOK /\ JournalOK /\ SnapshotOK /\ RollbackOK
  BY DEF BackupInv, RollbackOK
<1>3. FilesOK' /\ HoldersOK' /\ RestoreOK' /\ RollbackOK' /\ SnapshotOK'
  <2>1. CASE Outside
    BY <1>2, <2>1, OutsideFiles, OutsideHolders, OutsideRestore, OutsideSnapshot, OutsideRollback
  <2>2. CASE Restoring
    <3>1. FilesOK'
      BY <1>2, <2>2, RestoreSteps DEF FilesOK, AllWhole
    <3> QED
      BY <1>2, <2>2, <3>1, RestoringInv
  <2>3. CASE RestoreBegins
    BY <2>3, RestoreBeginInv DEF RestoreBegins
  <2>4. CASE Resume \/ FreeTarget
    BY <1>2, <2>4, QuietCommandInv, CommandsOnFiles DEF FilesOK, AllWhole
  <2>5. CASE InstallBegin
    BY <2>5, InstallBeginInv
  <2>6. CASE Forward
    BY <2>6, ForwardInv
  <2>7. CASE Undo
    BY <2>7, UndoInv
  <2>8. CASE Verify \/ UndoEnd \/ Crash
    BY <2>8, EndsInv
  <2> QED
    BY <2>1, <2>2, <2>3, <2>4, <2>5, <2>6, <2>7, <2>8, StepKinds
<1> QED
  BY <1>1, <1>3 DEF BackupInv, RollbackOK

LEMMA StutterInv ==
  ASSUME BackupInv, UNCHANGED backupVars
  PROVE  BackupInv'
<1>1. UNCHANGED <<disk, kept, boots, due, release, svc, task, stage, read, moved, stuck,
                  report, acked, tools, faults>>
  BY DEF backupVars
<1>2. ASSUME NEW to, NEW m PROVE (Has(to, m)' <=> Has(to, m)) /\ (Taken(m)' <=> Taken(m))
  BY <1>1 DEF Has, Taken
<1>3. BackupTypeOK' /\ FilesOK' /\ HoldersOK' /\ RestoreOK' /\ SnapshotOK'
  BY <1>1 DEF BackupInv, BackupTypeOK, FilesOK, HoldersOK, RestoreOK, SnapshotOK, Rolling, Connected,
     Opened, Pending
<1>4. JournalOK' /\ ReadOK' /\ LinkOK'
  BY <1>1 DEF BackupInv, JournalOK, ReadOK, LinkOK, Rolling
<1>5. SourceOK' /\ AsideOK' /\ LogOK'
  BY <1>1, <1>2 DEF BackupInv, SourceOK, AsideOK, LogOK, Rolling
<1>6. SupersededOK'
  <2>1. (FirstIsDatabase' <=> FirstIsDatabase) /\ (Gone' <=> Gone) /\ (HeldLive' <=> HeldLive)
    BY <1>1 DEF FirstIsDatabase, Gone, HeldLive
  <2>2. HeldAside' <=> HeldAside
    BY <1>1, <1>2 DEF HeldAside, ForeignDatabase
  <2> QED
    BY <1>1, <2>1, <2>2 DEF BackupInv, SupersededOK, Rolling
<1> QED
  BY <1>3, <1>4, <1>5, <1>6 DEF BackupInv

LEMMA BackupInitInv ==
  ASSUME BackupInit
  PROVE  BackupInv
<1> DEFINE f == FileOf("own", [rev |-> 1, writes |-> {}])
           base == [p \in Path |-> NoBundle]
<1>1. [rev |-> 1, writes |-> {}] \in Image
  BY DEF Image, Revision
<1>2. f \in FileKind("db") /\ Present(f)
  BY <1>1, FileOfType DEF Lineage
<1>3. AllWhole(base)
  BY NoBundleWhole DEF AllWhole, Whole
<1>4. Differs(disk, base, "live", "db", f)
  BY DEF BackupInit, Differs
<1> HIDE DEF f
<1>5. AllWhole(disk) /\ disk["live"]["db"] = f /\ \A q \in Path : q # "live" => disk[q] = base[q]
  <2> HIDE DEF base
  <2> QED
    BY <1>2, <1>3, <1>4, OneShape, Singles
<1>6. Staged(disk["cand"])
  <2>1. disk["cand"] = NoBundle
    BY <1>5, Singles
  <2> QED
    BY <2>1, NoBundleWhole
<1>7. /\ kept = {} /\ boots = <<>> /\ due = TRUE /\ svc = "down" /\ task = "idle" /\ stage = 1
      /\ read = NoRead /\ moved = <<>> /\ stuck = FALSE /\ report = "none" /\ acked = {}
      /\ \E p \in Plans : tools = p.tools /\ faults = p.faults /\ release = p.release
  BY DEF BackupInit
<1>8. tools \subseteq ToolWrite /\ faults \in Nat /\ release \in 1 .. 2 /\ Retain \in Nat \ {0}
  BY <1>7, BackupAssumption
<1>9. /\ read \in [path : Path, image : Image, migrate : BOOLEAN, cand : Bundle, live : Bundle]
      /\ moved \in Seq(Move) /\ boots \in Seq(Image) /\ Len(boots) <= Retain
  <2>1. boots \in Seq(Image) /\ Len(boots) = 0
    BY <1>7, EmptySeq
  <2> QED
    BY <1>7, <1>8, <2>1, NoReadType
<1>10. due \in BOOLEAN /\ stuck \in BOOLEAN
  BY <1>7, Zenon
<1>11. BackupTypeOK
  BY <1>5, <1>7, <1>8, <1>9, <1>10 DEF BackupTypeOK, AllWhole
<1>12. FilesOK /\ HoldersOK /\ RestoreOK /\ SnapshotOK
  BY <1>5, <1>6, <1>7 DEF FilesOK, AllWhole, HoldersOK, RestoreOK, SnapshotOK, Rolling, Connected
<1>13. ~Rolling /\ DOMAIN moved = {} /\ ~stuck
  BY <1>7, NothingMoved DEF Rolling
<1>14. JournalOK /\ ReadOK /\ SourceOK /\ AsideOK /\ LogOK /\ LinkOK /\ SupersededOK
  BY <1>7, <1>13 DEF JournalOK, ReadOK, SourceOK, AsideOK, LogOK, LinkOK, SupersededOK, Rolling
<1> QED
  BY <1>11, <1>12, <1>14 DEF BackupInv

\* BackupInv is what the proofs rest on: who holds the canonical path, that the
\* journal of a rollback is in the order of its moves, and where each file of the
\* two generations is at every one of them (control_plane/backup.py).
THEOREM BackupInductive == BackupSpec => []BackupInv
<1>1. BackupInit => BackupInv
  BY BackupInitInv
<1>2. BackupInv /\ [BackupNext]_backupVars => BackupInv'
  BY BackupStepInv, StutterInv
<1> QED
  BY <1>1, <1>2, PTL DEF BackupSpec

\* Every variable keeps its type: the three bundles, the archives within
\* BOOT_ARCHIVE_RETAIN, the journal and what a command read.
THEOREM BackupTypeCorrect == BackupSpec => []BackupTypeOK
<1>1. BackupInv => BackupTypeOK
  BY DEF BackupInv
<1> QED
  BY <1>1, BackupInductive, PTL

-----------------------------------------------------------------------------
(* How a rollback ends. *)

LEMMA RollbackEndsBy ==
  ASSUME BackupInv, BackupNext, Rolling, task' = "idle"
  PROVE  Verify \/ UndoEnd \/ Crash
<1>1. BackupTypeOK /\ JournalOK /\ task \in {"install", "undo"}
  BY DEF BackupInv, Rolling
<1>2. ~Outside
  BY <1>1, OutsideCommand
<1>3. ~Restoring
  BY <1>1, RestoringCommand
<1>4. ~RestoreBegins
  BY <1>1 DEF RestoreBegins, RestoreBegin, Asked
<1>5. ~Resume /\ ~FreeTarget /\ ~InstallBegin
  BY <1>1 DEF Resume, FreeTarget, InstallBegin, Asked
<1>6. ~Forward
  <2> SUFFICES ASSUME Forward
               PROVE  FALSE
    OBVIOUS
  <2>1. MovesFile \/ Skips \/ GivesUp
    BY <1>1, ForwardCases
  <2>2. task' \in {"install", "undo"}
    BY <2>1 DEF MovesFile, Skips, GivesUp, Relocates, Links, Onward, TurnsBack
  <2> QED
    BY <2>2
<1>7. ~Undo
  BY <1>1, UndoCases
<1> QED
  BY <1>2, <1>3, <1>4, <1>5, <1>6, <1>7, StepKinds

\* A rollback that is verified left the candidate's bundle at the canonical
\* path, and the superseded one aside.
LEMMA VerifiedBundles ==
  ASSUME BackupInv, Verify, task' = "idle"
  PROVE  /\ disk' = disk /\ report' = "installed"
         /\ disk["live"].db = read.cand.db /\ disk["live"].wal = read.cand.wal
         /\ disk["live"].mark = read.cand.mark
         /\ Present(read.live.db) =>
              disk["aside"].db = read.live.db /\ disk["aside"].wal = read.live.wal
<1>1. /\ task = "install" /\ stage = 5 + Len(InOrder) /\ disk' = disk
      /\ \A i \in DOMAIN InOrder :
           Present(read.cand[InOrder[i]]) => disk["live"][InOrder[i]] = read.cand[InOrder[i]]
      /\ \A m \in Member : Present(read.live[m]) => disk["aside"][m] = read.live[m]
      /\ report' = "installed"
  BY DEF Verify, Undoing, EndInstall
<1>2. InOrder = <<"mark", "wal", "db">> /\ Len(InOrder) = 3 /\ DOMAIN InOrder = 1 .. 3
  BY DEF InOrder
<1>3. \A m \in Member : Present(read.cand[m]) => disk["live"][m] = read.cand[m]
  <2>1. InOrder[1] = "mark" /\ InOrder[2] = "wal" /\ InOrder[3] = "db"
    BY <1>2
  <2>2. 1 \in DOMAIN InOrder /\ 2 \in DOMAIN InOrder /\ 3 \in DOMAIN InOrder
    BY <1>2
  <2> QED
    BY <1>1, <2>1, <2>2 DEF Member
<1>4. Rolling /\ stage >= 5
  BY <1>1, <1>2 DEF Rolling
<1>5. ~stuck
  BY <1>1, Zenon DEF BackupInv, JournalOK
<1>6. /\ Whole(read.cand) /\ Present(read.cand.db) /\ Present(read.cand.mark)
      /\ Whole(read.live)
  BY <1>4 DEF BackupInv, ReadOK
<1>7. /\ read.cand.wal \in FileKind("wal") /\ read.live.wal \in FileKind("wal")
  BY <1>6, Singles DEF Whole
<1>8. /\ ~Present(read.cand.wal) => read.cand.wal = NoFile
      /\ ~Present(read.live.wal) => read.live.wal = NoFile
  BY <1>7, Kinds, Singles
<1>9. disk["live"].wal \in {NoFile, read.cand.wal}
  <2>1. CASE Has("live", "wal")
    BY <1>4, <1>5, <2>1 DEF BackupInv, LogOK
  <2>2. CASE ~Has("live", "wal")
    BY <1>1, <1>4, <1>5, <2>2 DEF BackupInv, LogOK
  <2> QED
    BY <2>1, <2>2
<1>10. disk["aside"].wal \in {NoFile, read.live.wal}
  BY <1>4 DEF BackupInv, AsideOK
<1>11. disk["live"].wal = read.cand.wal /\ disk["aside"].wal = read.live.wal
  BY <1>1, <1>3, <1>8, <1>9, <1>10, Singles
<1> QED
  BY <1>1, <1>3, <1>6, <1>11, Singles

\* A reversal that is not stuck left the candidate as it was read, and the
\* superseded bundle with all its writes.
LEMMA ReversedBundles ==
  ASSUME BackupInv, UndoEnd, ~stuck
  PROVE  /\ disk' = disk /\ report' = "reversed"
         /\ disk["cand"] = read.cand
         /\ Present(read.live.db) => HeldLive
         /\ ~Present(read.live.db) => read.live = NoBundle
         /\ disk["live"].wal \in {NoFile, read.live.wal}
<1>1. task = "undo" /\ moved = <<>> /\ disk' = disk /\ report' = "reversed"
  BY DEF UndoEnd, EndInstall
<1>2. Rolling /\ DOMAIN moved = {}
  BY <1>1, NothingMoved DEF Rolling
<1>3. Whole(read.cand) /\ (Present(read.live.db) \/ read.live = NoBundle)
  BY <1>2 DEF BackupInv, ReadOK
<1>4. disk["cand"] = read.cand
  <2>1. \A m \in Member : ~Taken(m)
    BY <1>2 DEF Taken
  <2>2. \A m \in Member : disk["cand"][m] = read.cand[m]
    BY <1>2, <2>1 DEF BackupInv, SourceOK
  <2>3. disk["cand"] \in [Member -> File] /\ read.cand \in [Member -> File]
    BY <1>3, Singles DEF BackupInv, BackupTypeOK, Whole, Bundle
  <2> QED
    BY <2>2, <2>3
<1>5. Present(read.live.db) => HeldLive
  <2>1. ~Gone
    BY <1>1 DEF Gone
  <2> QED
    BY <1>2, <2>1 DEF BackupInv, SupersededOK
<1>6. disk["live"].wal \in {NoFile, read.live.wal}
  <2>1. ~Has("live", "wal")
    BY <1>2 DEF Has
  <2> QED
    BY <1>2, <2>1 DEF BackupInv, LogOK
<1> QED
  BY <1>1, <1>3, <1>4, <1>5, <1>6

\* What UndoEnd does when the reversal is stuck.
LEMMA StuckEnds ==
  ASSUME UndoEnd, stuck
  PROVE  \/ report' = "incomplete" /\ disk' = Failsafe
         \/ report' = "unpaused" /\ disk' = disk
BY DEF UndoEnd, EndInstall

LEMMA FailsafePauses ==
  ASSUME BackupTypeOK, FilesOK, disk' = Failsafe
  PROVE  /\ disk'["live"].mark = Mark
         /\ disk'["live"].db = disk["live"].db /\ disk'["live"].wal = disk["live"].wal
         /\ \A q \in Path : q # "live" => disk'[q] = disk[q]
<1>1. Differs(disk', disk, "live", "mark", Mark)
  BY DEF Failsafe, Differs
<1>2. AllWhole(disk)
  BY DiskWhole
<1> QED
  BY <1>1, <1>2, MarkShape, Singles

LEMMA InstallStep ==
  ASSUME BackupInv, BackupNext, task \in {"install", "undo"}, task' = "idle"
  PROVE  \/ /\ report' = "installed"
            /\ Opened("live")' = OpenedBundle(read.cand) /\ Paused'
            /\ Present(read.live.db) => OpenedBundle(disk["aside"])' = OpenedBundle(read.live)
         \/ /\ report' = "reversed"
            /\ disk'["cand"] = read.cand
            /\ OpenedBundle(read.live).writes \subseteq Opened("live")'.writes
         \/ report' = "incomplete" /\ Paused'
         \/ report' = "unpaused"
         \/ Crash
<1>1. Rolling /\ BackupTypeOK /\ FilesOK
  BY DEF Rolling, BackupInv
<1>2. Verify \/ UndoEnd \/ Crash
  BY <1>1, RollbackEndsBy
<1>3. CASE Verify
  <2>1. /\ disk' = disk /\ report' = "installed"
        /\ disk["live"].db = read.cand.db /\ disk["live"].wal = read.cand.wal
        /\ disk["live"].mark = read.cand.mark
        /\ Present(read.live.db) =>
             disk["aside"].db = read.live.db /\ disk["aside"].wal = read.live.wal
    BY <1>3, VerifiedBundles
  <2>2. Present(read.cand.mark)
    BY <1>1 DEF BackupInv, ReadOK
  <2>3. Opened("live")' = OpenedBundle(read.cand)
    BY <2>1 DEF Opened, OpenedBundle
  <2>4. Paused'
    BY <2>1, <2>2 DEF Paused
  <2>5. Present(read.live.db) => OpenedBundle(disk["aside"])' = OpenedBundle(read.live)
    BY <2>1 DEF OpenedBundle
  <2> QED
    BY <2>1, <2>3, <2>4, <2>5
<1>4. CASE UndoEnd /\ ~stuck
  <2>1. /\ disk' = disk /\ report' = "reversed" /\ disk["cand"] = read.cand
        /\ Present(read.live.db) => HeldLive
        /\ ~Present(read.live.db) => read.live = NoBundle
    BY <1>4, ReversedBundles
  <2>2. read.live \in Bundle /\ disk["live"] \in Bundle
    BY <1>1, Singles DEF BackupTypeOK
  <2>3. Opened("live")' = Opened("live")
    BY <2>1 DEF Opened
  <2>4. CASE Present(read.live.db)
    <3>1. HeldLive
      BY <2>1, <2>4
    <3>2. OpenedBundle(read.live).writes = read.live.db.writes \cup read.live.wal.writes
      BY <2>2, <2>4, OpenedBundleType
    <3>3. Opened("live").writes = disk["live"].db.writes \cup disk["live"].wal.writes
      BY <2>2, <3>1, OpenedBundleType DEF HeldLive, Opened
    <3>4. OpenedBundle(read.live).writes \subseteq Opened("live").writes
      BY <3>1, <3>2, <3>3 DEF HeldLive
    <3> QED
      BY <2>1, <2>3, <3>4
  <2>5. CASE ~Present(read.live.db)
    <3>1. OpenedBundle(read.live).writes = {}
      BY <2>2, <2>5, OpenedBundleType DEF Empty
    <3> QED
      BY <2>1, <3>1
  <2> QED
    BY <2>4, <2>5
<1>5. CASE UndoEnd /\ stuck
  <2>1. \/ report' = "incomplete" /\ disk' = Failsafe
        \/ report' = "unpaused"
    BY <1>5, StuckEnds
  <2>2. disk' = Failsafe => Paused'
    BY <1>1, FailsafePauses, Kinds DEF Paused
  <2> QED
    BY <2>1, <2>2
<1> QED
  BY <1>2, <1>3, <1>4, <1>5

\* For every set of writes, every archive retention and every plan with any
\* number of faults, a rollback that ends is installed whole, reversed whole,
\* or paused or reported (_install_rollback_locked, _undo).
THEOREM InstallHolds == BackupSpec => InstallIsAllOrNothing
<1> DEFINE A == (task \in {"install", "undo"} /\ task' = "idle") =>
     \/ /\ report' = "installed"
        /\ Opened("live")' = OpenedBundle(read.cand) /\ Paused'
        /\ Present(read.live.db) => OpenedBundle(disk["aside"])' = OpenedBundle(read.live)
     \/ /\ report' = "reversed"
        /\ disk'["cand"] = read.cand
        /\ OpenedBundle(read.live).writes \subseteq Opened("live")'.writes
     \/ report' = "incomplete" /\ Paused'
     \/ report' = "unpaused"
     \/ Crash
<1>1. BackupInv /\ BackupNext => A
  BY InstallStep
<1>2. BackupInv /\ [BackupNext]_backupVars => [A]_backupVars
  BY <1>1
<1> QED
  BY <1>2, BackupInductive, PTL DEF BackupSpec, InstallIsAllOrNothing

-----------------------------------------------------------------------------
(* Whose frames lie beside whose database. *)

LEMMA MixedStays ==
  ASSUME BackupInv, BackupNext, ~Rolling, MixedBundle(disk'["live"])
  PROVE  MixedBundle(disk["live"])
<1>1. BackupTypeOK /\ FilesOK /\ RestoreOK /\ JournalOK /\ AllWhole(disk)
  BY DiskWhole DEF BackupInv
<1>2. CASE Outside
  BY <1>1, <1>2, OutsideSteps, ConnectionFiles, Singles
<1>3. CASE Restoring
  BY <1>1, <1>3, RestoreSteps, Singles DEF Kept
<1>4. CASE RestoreBegins \/ InstallBegin
  BY <1>4 DEF RestoreBegins, RestoreBegin, InstallBegin
<1>5. CASE Resume
  <2> DEFINE b == [NoBundle EXCEPT !.db = FileOf("own", Migrated(Opened("live")))]
  <2>1. disk' = [disk EXCEPT !["live"] = b]
    BY <1>5 DEF Resume
  <2>2. b.wal = NoFile
    BY NoBundleWhole DEF NoBundle, Member
  <2>3. disk \in [Path -> Bundle]
    BY <1>1 DEF BackupTypeOK
  <2> HIDE DEF b
  <2>4. disk'["live"] = b
    BY <2>1, <2>3, Singles
  <2> QED
    BY <2>2, <2>4, Kinds DEF MixedBundle
<1>6. CASE FreeTarget
  <2>1. disk' = [disk EXCEPT !["live"] = NoBundle] /\ disk \in [Path -> Bundle]
    BY <1>1, <1>6 DEF FreeTarget, BackupTypeOK
  <2>2. disk'["live"] = NoBundle
    BY <2>1, Singles
  <2> QED
    BY <2>2, NoBundleWhole, Kinds DEF MixedBundle
<1>7. CASE Crash
  <2>1. disk' \in {disk, [disk EXCEPT !["cand"] = NoBundle]} /\ disk \in [Path -> Bundle]
    BY <1>1, <1>7 DEF Crash, BackupTypeOK
  <2>2. disk'["live"] = disk["live"]
    BY <2>1, Singles
  <2> QED
    BY <2>2
<1>8. ~Forward /\ ~Undo /\ ~Verify /\ ~UndoEnd
  BY <1>1, ForwardCases, UndoCases DEF Rolling, Verify, UndoEnd
<1> QED
  BY <1>2, <1>3, <1>4, <1>5, <1>6, <1>7, <1>8, StepKinds

LEMMA MixedStep ==
  ASSUME BackupInv, BackupNext, MixedBundle(disk'["live"])
  PROVE  /\ MixedBundle(disk["live"]) \/ Rolling
         /\ Rolling /\ task' = "idle" =>
              MixedBundle(read.live) \/ Crash \/ report' \in {"incomplete", "unpaused"}
<1>1. MixedBundle(disk["live"]) \/ Rolling
  BY MixedStays
<1> SUFFICES ASSUME Rolling, task' = "idle", ~Crash, report' \notin {"incomplete", "unpaused"}
             PROVE  MixedBundle(read.live)
  BY <1>1
<1>2. Verify \/ UndoEnd
  BY RollbackEndsBy
<1>3. /\ Whole(read.cand) /\ Staged(read.cand)
  BY DEF BackupInv, ReadOK
<1>4. ~Verify
  <2> SUFFICES ASSUME Verify
               PROVE  FALSE
    OBVIOUS
  <2>1. /\ disk'["live"].db = read.cand.db /\ disk'["live"].wal = read.cand.wal
    BY VerifiedBundles
  <2>2. \A m \in {"db", "wal"} : Present(read.cand[m]) => read.cand[m].of = "restored"
    BY <1>3, Singles DEF Whole, Staged, FileKind, Lineage, Present, NoFile
  <2> QED
    BY <2>1, <2>2 DEF MixedBundle
<1>5. ~stuck
  BY <1>2, <1>4, StuckEnds
<1>6. /\ disk' = disk
      /\ Present(read.live.db) => HeldLive
      /\ ~Present(read.live.db) => read.live = NoBundle
      /\ disk["live"].wal \in {NoFile, read.live.wal}
  BY <1>2, <1>4, <1>5, ReversedBundles
<1>7. Present(disk["live"].db) /\ Present(disk["live"].wal) /\ disk["live"].db.of # disk["live"].wal.of
  BY <1>6 DEF MixedBundle
<1>8. disk["live"].wal = read.live.wal
  BY <1>6, <1>7, Kinds
<1>9. Present(read.live.db)
  BY <1>6, <1>7, <1>8, NoBundleWhole, Kinds
<1> QED
  BY <1>6, <1>7, <1>8, <1>9 DEF HeldLive, MixedBundle

\* For every plan and any number of faults, frames come to lie beside the
\* database of another generation only where a rollback was given up
\* (_require_free_bundle, _undo, IncompleteReversal).
THEOREM MixedHolds == BackupSpec => MixedIsReported
<1> DEFINE A == LET rolling == task \in {"install", "undo"} IN
     MixedBundle(disk["live"])' =>
       /\ MixedBundle(disk["live"]) \/ rolling
       /\ rolling /\ task' = "idle" =>
            MixedBundle(read.live) \/ Crash \/ report' \in {"incomplete", "unpaused"}
<1>1. BackupInv /\ BackupNext => A
  <2>1. MixedBundle(disk["live"])' => MixedBundle(disk'["live"])
    BY DEF MixedBundle, Present
  <2> QED
    BY <2>1, MixedStep DEF Rolling
<1>2. BackupInv /\ [BackupNext]_backupVars => [A]_backupVars
  BY <1>1
<1> QED
  BY <1>2, BackupInductive, PTL DEF BackupSpec, MixedIsReported

-----------------------------------------------------------------------------
(* What is migrated was snapshotted. *)

LEMMA MigratingStep ==
  ASSUME BackupInv, BackupNext, svc \in {"migrate", "ready"}, svc' \in {"archive", "serving"},
         Present(disk["live"].db), Pending(Opened("live"))
  PROVE  \/ \E s \in kept : s.kind = "pre" /\ s.image = Opened("live")
         \/ svc = "ready" /\ disk["live"].db.of = "restored"
<1>1. CASE svc = "migrate"
  BY <1>1 DEF BackupInv, SnapshotOK
<1>2. CASE svc = "ready"
  <2>1. /\ BackupTypeOK /\ FilesOK /\ disk["live"] \in Bundle /\ disk["live"].db \in FileKind("db")
    BY DiskWhole, Singles DEF BackupInv, BackupTypeOK
  <2>2. /\ disk["live"].db \in File /\ disk["live"].wal \in File
    BY <2>1 DEF Bundle, Member
  <2>3. /\ disk["live"].db.rev \in Revision /\ disk["live"].wal.rev \in Revision
        /\ release \in Revision
    BY <2>1, <2>2 DEF File, BackupTypeOK, Revision
  <2>4. Opened("live").rev = Larger(disk["live"].db.rev, disk["live"].wal.rev)
    BY <2>1, OpenedBundleType DEF Opened
  <2>5. Opened("live").rev >= disk["live"].db.rev /\ Opened("live").rev \in Revision
    BY <2>3, <2>4, LargerRevision
  <2>6. Opened("live").rev < release
    BY DEF Pending
  <2>7. ~(disk["live"].db.rev >= release)
    BY <2>3, <2>5, <2>6 DEF Revision
  <2>8. disk["live"].db.of # "own"
    BY <1>2, <2>7 DEF BackupInv, SnapshotOK
  <2>9. disk["live"].db.of \in Lineage
    BY <2>1 DEF FileKind, Present, NoFile
  <2> QED
    BY <1>2, <2>8, <2>9 DEF Lineage
<1> QED
  BY <1>1, <1>2

\* For every plan and any number of faults, the entrypoint migrates only what a
\* pre-migrate snapshot holds as it was, and serve only that or what came from
\* an archive (create_pre_migrate_backup, db.main).
THEOREM MigratesHolds == BackupSpec => MigratesFromASnapshot
<1> DEFINE A == LET before == Opened("live") IN
     /\ svc \in {"migrate", "ready"} /\ svc' \in {"archive", "serving"}
     /\ Present(disk["live"].db) /\ Pending(before)
     => \/ \E s \in kept : s.kind = "pre" /\ s.image = before
        \/ svc = "ready" /\ disk["live"].db.of = "restored"
<1>1. BackupInv /\ BackupNext => A
  BY MigratingStep
<1>2. BackupInv /\ [BackupNext]_backupVars => [A]_backupVars
  BY <1>1
<1> QED
  BY <1>2, BackupInductive, PTL DEF BackupSpec, MigratesFromASnapshot

-----------------------------------------------------------------------------
(* Where the writes are. *)

\* What stands in one of the bundles, or is archived, is somewhere.
LEMMA Somewhere ==
  /\ \A p \in Path, m \in Member : disk'[p][m].writes \subseteq Everywhere'
  /\ \A s \in kept' : s.image.writes \subseteq Everywhere'
<1>1. Everywhere' = (UNION {disk'[p][m].writes : p \in Path, m \in Member})
                      \cup (UNION {s.image.writes : s \in kept'})
  BY DEF Everywhere
<1> QED
  BY <1>1

LEMMA NothingLost ==
  ASSUME kept \subseteq kept',
         \A p \in Path, m \in Member : disk[p][m].writes \subseteq Everywhere'
  PROVE  Everywhere \subseteq Everywhere'
BY Somewhere DEF Everywhere

\* The markers hold no writes, so a bundle is its database and its log.
LEMMA BundleHeld ==
  ASSUME BackupTypeOK, FilesOK, NEW p \in Path,
         disk[p].db.writes \cup disk[p].wal.writes \subseteq Everywhere'
  PROVE  \A m \in Member : disk[p][m].writes \subseteq Everywhere'
<1>1. disk[p]["mark"].writes = {}
  BY DiskWhole, Kinds, Singles
<1> QED
  BY <1>1 DEF Member

LEMMA BundleStays ==
  ASSUME NEW p \in Path, disk'[p] = disk[p]
  PROVE  \A m \in Member : disk[p][m].writes \subseteq Everywhere'
BY Somewhere

\* One bundle is written, and what its database and its log held it still holds.
LEMMA OneBundleGrows ==
  ASSUME BackupTypeOK, FilesOK, NEW p \in Path, Kept(p), kept \subseteq kept',
         disk[p].db.writes \cup disk[p].wal.writes
           \subseteq disk'[p].db.writes \cup disk'[p].wal.writes
  PROVE  Everywhere \subseteq Everywhere'
<1>1. disk'[p].db.writes \cup disk'[p].wal.writes \subseteq Everywhere'
  BY Somewhere, Singles
<1>2. \A m \in Member : disk[p][m].writes \subseteq Everywhere'
  BY <1>1, BundleHeld
<1>3. \A q \in Path, m \in Member : q # p => disk[q][m].writes \subseteq Everywhere'
  BY BundleStays DEF Kept
<1> QED
  BY <1>2, <1>3, NothingLost

LEMMA RestoringKeeps ==
  ASSUME BackupTypeOK, FilesOK, RestoreOK, Restoring
  PROVE  LET p == read.path IN
         disk[p].db.writes \cup disk[p].wal.writes
           \subseteq disk'[p].db.writes \cup disk'[p].wal.writes
<1> DEFINE p == read.path
<1>1. /\ AllWhole(disk) /\ p \in Path /\ task = "restore" /\ read.image \in Image
  BY DiskWhole, Singles DEF Restoring, RestoreMarker, RestoreDatabase, RestoreMigrate, RestoreEnd,
     RestoreOK, BackupTypeOK
<1> HIDE DEF p
<1>2. CASE RestoreMarker
  <2>1. disk' = disk \/ Differs(disk', disk, p, "mark", Mark)
    BY <1>2 DEF RestoreMarker, p, Differs
  <2> QED
    BY <1>1, <2>1, MarkShape DEF p
<1>3. CASE RestoreDatabase
  <2> DEFINE f == FileOf("restored", read.image)
  <2>1. \/ disk' = disk
        \/ Differs(disk', disk, p, "mark", NoFile)
        \/ Differs(disk', disk, p, "db", f) /\ ~Present(disk[p].db)
    BY <1>3 DEF RestoreDatabase, PauseWithdrawn, p, Differs
  <2>2. f \in FileKind("db")
    BY <1>1, FileOfType DEF Lineage
  <2> HIDE DEF f
  <2>3. CASE disk' = disk \/ Differs(disk', disk, p, "mark", NoFile)
    BY <1>1, <2>3, MarkShape DEF p
  <2>4. CASE Differs(disk', disk, p, "db", f) /\ ~Present(disk[p].db)
    <3>1. disk'[p].wal = disk[p].wal
      BY <1>1, <2>2, <2>4, OneShape, Singles
    <3>2. disk[p].db = NoFile
      BY <1>1, <2>4, DiskWhole, Kinds, Singles
    <3> QED
      BY <3>1, <3>2, Kinds DEF p
  <2> QED
    BY <2>1, <2>3, <2>4
<1>4. CASE RestoreMigrate
  <2>1. stage = 3 /\ Present(disk[p].db)
    BY <1>1, <1>4 DEF RestoreMigrate, RestoreOK, p
  <2>2. Migrated(Opened(p)) \in GrownImage(p)
    BY <1>1, GrownImages
  <2>3. Connection(p)
    BY <1>4, <2>2 DEF RestoreMigrate, Connection, p
  <2> QED
    BY <1>1, <2>1, <2>3, ConnectionKeeps DEF p
<1>5. CASE RestoreEnd
  <2> DEFINE closed == IF read.migrate THEN Closed(p, Opened(p)) ELSE disk
  <2>1. stage = 4 /\ Present(disk[p].db)
    BY <1>1, <1>5 DEF RestoreEnd, RestoreOK, p
  <2>2. Opened(p) \in Image
    BY <1>1, OpenedType
  <2>3. /\ AllWhole(closed)
        /\ disk[p].db.writes \cup disk[p].wal.writes
             \subseteq closed[p].db.writes \cup closed[p].wal.writes
    <3>1. CASE ~read.migrate
      BY <1>1, <3>1
    <3>2. CASE read.migrate
      <4>1. closed = Closed(p, Opened(p))
        BY <3>2
      <4>2. /\ closed \in [Path -> Bundle] /\ Whole(closed[p])
            /\ \A q \in Path : q # p => closed[q] = disk[q]
            /\ closed[p].db = FileOf(LineageOf(p), Opened(p))
        BY <1>1, <2>2, <4>1, ClosedShape
      <4>3. closed[p].db.writes = Opened(p).writes
        BY <1>1, <2>2, <4>2, LineageType, FileOfType
      <4>4. disk[p] \in Bundle
        BY <1>1 DEF AllWhole
      <4>5. Opened(p).writes = disk[p].db.writes \cup disk[p].wal.writes
        BY <2>1, <4>4, OpenedBundleType DEF Opened
      <4>6. AllWhole(closed)
        BY <1>1, <4>2 DEF AllWhole
      <4> QED
        BY <4>3, <4>5, <4>6
    <3> QED
      BY <3>1, <3>2
  <2>4. Differs(disk', closed, p, "mark", Mark)
    BY <1>5 DEF RestoreEnd, p, Differs
  <2> HIDE DEF closed
  <2>5. disk'[p].db = closed[p].db /\ disk'[p].wal = closed[p].wal
    BY <1>1, <2>3, <2>4, MarkShape
  <2> QED
    BY <2>3, <2>5 DEF p
<1> QED
  BY <1>2, <1>3, <1>4, <1>5 DEF Restoring, p


\* The canonical database is there, or it has no log beside it.
Orphaned == ~Present(disk["live"].db) /\ Present(disk["live"].wal)

LEMMA CommandsKeep ==
  ASSUME BackupInv, BackupNext, Resume \/ FreeTarget, ~Orphaned,
         ~(WrittenSinceArchived /\ FreeTarget)
  PROVE  Everywhere \subseteq Everywhere'
<1>1. BackupTypeOK /\ FilesOK /\ disk \in [Path -> Bundle] /\ disk["live"] \in Bundle
  BY Singles DEF BackupInv, BackupTypeOK
<1>2. kept \subseteq kept'
  BY <1>1, ArchivesType
<1>3. ~Present(disk["live"].db) =>
        disk["live"].db.writes = {} /\ disk["live"].wal.writes = {}
  BY <1>1, DiskWhole, Kinds, Singles DEF Orphaned
<1>4. Present(disk["live"].db) =>
        Opened("live").writes = disk["live"].db.writes \cup disk["live"].wal.writes
  BY <1>1, OpenedBundleType DEF Opened
<1>5. CASE Resume
  <2> DEFINE f == FileOf("own", Migrated(Opened("live")))
             b == [NoBundle EXCEPT !.db = f]
  <2>1. disk' = [disk EXCEPT !["live"] = b]
    BY <1>5 DEF Resume
  <2>2. f.writes = Opened("live").writes
    BY <1>1, OpenedType, MigratedType, FileOfType, Singles DEF Lineage
  <2>3. b.db = f
    BY DEF NoBundle, Member
  <2> HIDE DEF b, f
  <2>4. disk'["live"] = b /\ Kept("live")
    BY <1>1, <2>1, Singles DEF Kept
  <2>5. disk["live"].db.writes \cup disk["live"].wal.writes
          \subseteq disk'["live"].db.writes \cup disk'["live"].wal.writes
    BY <1>3, <1>4, <2>2, <2>3, <2>4
  <2> QED
    BY <1>1, <1>2, <2>4, <2>5, OneBundleGrows, Singles
<1>6. CASE FreeTarget /\ ~WrittenSinceArchived
  <2>1. disk' = [disk EXCEPT !["live"] = NoBundle]
    BY <1>6 DEF FreeTarget
  <2>2. Kept("live")
    BY <1>1, <2>1 DEF Kept
  <2>3. Opened("live").writes \subseteq Everywhere'
    BY <1>2, <1>6, Somewhere DEF WrittenSinceArchived
  <2>4. \A m \in Member : disk["live"][m].writes \subseteq Everywhere'
    <3>1. CASE Present(disk["live"].db)
      BY <1>1, <1>4, <2>3, <3>1, BundleHeld, Singles
    <3>2. CASE ~Present(disk["live"].db)
      BY <1>1, <1>3, <3>2, BundleHeld, Singles
    <3> QED
      BY <3>1, <3>2
  <2>5. \A q \in Path, m \in Member : q # "live" => disk[q][m].writes \subseteq Everywhere'
    BY <2>2, BundleStays DEF Kept
  <2> QED
    BY <1>2, <2>4, <2>5, NothingLost
<1> QED
  BY <1>5, <1>6

LEMMA ForwardKeeps ==
  ASSUME BackupInv, Forward, kept \subseteq kept'
  PROVE  Everywhere \subseteq Everywhere'
<1>1. BackupTypeOK /\ FilesOK
  BY DEF BackupInv
<1>2. /\ task = "install" /\ UNCHANGED <<read, stuck, svc, kept, release>>
      /\ MovesFile \/ Skips \/ GivesUp
  BY <1>1, ForwardCases
<1>3. CASE Skips \/ GivesUp
  <2>1. disk' = disk
    BY <1>3 DEF Skips, GivesUp
  <2> QED
    BY <2>1, NothingLost, Somewhere
<1>4. CASE MovesFile
  <2>1. PICK from \in Path, to \in Path, m \in Member, removed \in BOOLEAN :
          Moving(from, to, m, removed)
    BY <1>2, <1>4, MovesOne
  <2>2. /\ disk'[to][m] = disk[from][m]
        /\ \A q \in Path, k \in Member :
             (q # to /\ q # from) \/ k # m => disk'[q][k] = disk[q][k]
    BY <1>1, <2>1, MovingFiles
  <2>3. disk[to][m].writes = {}
    BY <1>1, <2>1, DiskWhole, Kinds DEF Moving
  <2>4. \A q \in Path, k \in Member : disk[q][k].writes \subseteq Everywhere'
    BY <2>2, <2>3, Somewhere
  <2> QED
    BY <2>4, NothingLost
<1> QED
  BY <1>2, <1>3, <1>4

\* Taking a move back loses a second name only: the file has its first, or is
\* in the database it was a copy of, or it is a log whose first name is gone.
LEMMA UndoKeeps ==
  ASSUME BackupInv, Undo, kept \subseteq kept',
         ~(/\ task = "undo" /\ moved # <<>> /\ UndoNext.member = "wal" /\ ~UndoNext.removed
           /\ Present(disk["live"].db) /\ ~Present(disk["live"].wal))
  PROVE  Everywhere \subseteq Everywhere'
<1> DEFINE x == moved[Len(moved)]
<1>1. BackupTypeOK /\ FilesOK /\ Rolling /\ task = "undo"
  BY DEF BackupInv, Undo, Rolling
<1>2. Len(moved) \in DOMAIN moved /\ moved # <<>> /\ x = UndoNext
  BY UndoJournal
<1>3. /\ Untouched(x) \/ Returned(x)
      /\ x.to \in Path /\ x.from \in Path /\ x.member \in Member /\ x.to # x.from
      /\ \/ x.to = "aside" /\ x.from = "live"
         \/ x.to = "live" /\ x.from = "cand"
      /\ x.file \in FileKind(x.member)
  BY UndoFiles
<1>4. ~x.removed =>
        /\ x.to = "live" => disk["cand"][x.member] = read.cand[x.member]
        /\ x.to = "aside" /\ x.member = "db" =>
             x.file.writes \subseteq disk["live"].db.writes
        /\ x.to = "aside" /\ x.member = "wal" =>
             \/ disk["live"].wal = x.file
             \/ Present(disk["live"].db) /\ ~Present(disk["live"].wal)
  BY <1>2 DEF BackupInv, LinkOK
<1>5. x.to = "live" => x.file = read.cand[x.member]
  BY <1>1, <1>2 DEF BackupInv, SourceOK
<1>6. x.member = "wal" /\ ~x.removed => ~(Present(disk["live"].db) /\ ~Present(disk["live"].wal))
  BY <1>1, <1>2
<1> HIDE DEF x
<1>7. CASE Untouched(x)
  <2>1. disk' = disk
    BY <1>7 DEF Untouched
  <2> QED
    BY <2>1, NothingLost, Somewhere
<1>8. CASE Returned(x)
  <2>1. /\ disk[x.to][x.member] = x.file
        /\ x.removed => ~Present(disk[x.from][x.member]) /\ disk'[x.from][x.member] = x.file
        /\ ~x.removed => disk'[x.from][x.member] = disk[x.from][x.member]
        /\ \A q \in Path, k \in Member :
             (q # x.to /\ q # x.from) \/ k # x.member => disk'[q][k] = disk[q][k]
    BY <1>8 DEF Returned
  <2>2. x.file.writes \subseteq disk'[x.from][x.member].writes
    <3>1. CASE x.removed
      BY <2>1, <3>1
    <3>2. CASE ~x.removed /\ x.to = "live"
      BY <1>3, <1>4, <1>5, <2>1, <3>2
    <3>3. CASE ~x.removed /\ x.to = "aside"
      <4>1. x.from = "live"
        BY <1>3, <3>3
      <4>2. CASE x.member = "db"
        BY <1>4, <2>1, <3>3, <4>1, <4>2
      <4>3. CASE x.member = "wal"
        BY <1>4, <1>6, <2>1, <3>3, <4>1, <4>3
      <4>4. CASE x.member = "mark"
        BY <1>3, <4>4, Kinds, Singles
      <4> QED
        BY <1>3, <4>2, <4>3, <4>4 DEF Member
    <3> QED
      BY <1>3, <3>1, <3>2, <3>3
  <2>3. x.file.writes \subseteq Everywhere'
    BY <1>3, <2>2, Somewhere
  <2>4. disk[x.from][x.member].writes \subseteq Everywhere'
    <3>1. CASE x.removed
      BY <1>1, <1>3, <2>1, <3>1, DiskWhole, Kinds
    <3>2. CASE ~x.removed
      BY <1>3, <2>1, <3>2, Somewhere
    <3> QED
      BY <3>1, <3>2
  <2>5. ASSUME NEW q \in Path, NEW k \in Member
        PROVE  disk[q][k].writes \subseteq Everywhere'
    <3>1. CASE q = x.to /\ k = x.member
      BY <2>1, <2>3, <3>1
    <3>2. CASE q = x.from /\ k = x.member
      BY <2>4, <3>2
    <3>3. CASE (q # x.to /\ q # x.from) \/ k # x.member
      BY <2>1, <3>3, Somewhere
    <3> QED
      BY <3>1, <3>2, <3>3
  <2> QED
    BY <2>5, NothingLost
<1> QED
  BY <1>3, <1>7, <1>8

LEMMA LossStep ==
  ASSUME BackupInv, BackupNext, ~Orphaned, ~Crash, ~(WrittenSinceArchived /\ FreeTarget),
         ~(/\ task = "undo" /\ moved # <<>> /\ UndoNext.member = "wal" /\ ~UndoNext.removed
           /\ Present(disk["live"].db) /\ ~Present(disk["live"].wal))
  PROVE  Everywhere \subseteq Everywhere'
<1>1. BackupTypeOK /\ FilesOK /\ RestoreOK /\ disk \in [Path -> Bundle]
  BY DEF BackupInv, BackupTypeOK
<1>2. kept \subseteq kept'
  BY <1>1, ArchivesType
<1>3. CASE Outside
  <2>1. Kept("live") /\ Connection("live")
    BY <1>1, <1>3, OutsideFiles
  <2>2. Present(disk["live"].db) \/ ~Present(disk["live"].wal)
    BY DEF Orphaned
  <2>3. disk["live"].db.writes \cup disk["live"].wal.writes
          \subseteq disk'["live"].db.writes \cup disk'["live"].wal.writes
    BY <1>1, <2>1, <2>2, ConnectionKeeps, Singles
  <2> QED
    BY <1>1, <1>2, <2>1, <2>3, OneBundleGrows, Singles
<1>4. CASE Restoring
  <2>1. Kept(read.path) /\ read.path \in Path
    BY <1>1, <1>4, RestoreSteps, Singles
  <2>2. disk[read.path].db.writes \cup disk[read.path].wal.writes
          \subseteq disk'[read.path].db.writes \cup disk'[read.path].wal.writes
    BY <1>1, <1>4, RestoringKeeps
  <2> QED
    BY <1>1, <1>2, <2>1, <2>2, OneBundleGrows
<1>5. CASE RestoreBegins \/ InstallBegin \/ Verify
  <2>1. disk' = disk
    BY <1>5 DEF RestoreBegins, RestoreBegin, InstallBegin, Verify
  <2> QED
    BY <1>2, <2>1, NothingLost, Somewhere
<1>6. CASE UndoEnd
  <2>1. disk' = disk \/ disk' = Failsafe
    BY <1>6 DEF UndoEnd
  <2>2. CASE disk' = disk
    BY <1>2, <2>2, NothingLost, Somewhere
  <2>3. CASE disk' = Failsafe
    BY <1>1, <1>2, <2>3, FailsafePauses, OneBundleGrows, Singles DEF Kept
  <2> QED
    BY <2>1, <2>2, <2>3
<1>7. CASE Resume \/ FreeTarget
  BY <1>7, CommandsKeep
<1>8. CASE Forward
  BY <1>2, <1>8, ForwardKeeps
<1>9. CASE Undo
  BY <1>2, <1>9, UndoKeeps
<1> QED
  BY <1>3, <1>4, <1>5, <1>6, <1>7, <1>8, <1>9, StepKinds

\* For every set of writes, every plan and any number of faults, a committed
\* write leaves the machine in four ways only: a log whose database a crash or a
\* rollback took is dropped, its second name is taken away when the first is gone
\* so, a crash takes a candidate (_claim, _undo, _restore_locked), or the operator
\* deletes a database written to after its archive (control-plane-restore.md).
THEOREM LossHolds == BackupSpec => LossNeedsAnOrphanLog
<1> DEFINE A == ~ (acked \cap Everywhere \subseteq Everywhere') =>
     \/ ~Present(disk["live"].db) /\ Present(disk["live"].wal)
     \/ /\ task = "undo" /\ moved # <<>> /\ UndoNext.member = "wal" /\ ~UndoNext.removed
        /\ Present(disk["live"].db) /\ ~Present(disk["live"].wal)
     \/ WrittenSinceArchived /\ FreeTarget
     \/ Crash
<1>1. BackupInv /\ BackupNext => A
  <2> SUFFICES ASSUME BackupInv, BackupNext, ~A
               PROVE  FALSE
    OBVIOUS
  <2>1. Everywhere \subseteq Everywhere'
    BY LossStep DEF Orphaned
  <2> QED
    BY <2>1
<1>2. BackupInv /\ [BackupNext]_backupVars => [A]_backupVars
  BY <1>1
<1> QED
  BY <1>2, BackupInductive, PTL DEF BackupSpec, LossNeedsAnOrphanLog

=============================================================================
