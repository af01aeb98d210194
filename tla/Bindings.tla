------------------------------ MODULE Bindings ------------------------------
(***************************************************************************)
(* Channel bindings: repositories/bindings.py and api/bindings.py, the     *)
(* owner's part of provisioning/planner.py, and what a rollout, a reset    *)
(* and the stale-binding sweep do to the table.                            *)
(*                                                                         *)
(* One gateway channel stands for all of them, web is the other.  A sender *)
(* is its canonical identity; a row an older version wrote may hold another *)
(* spelling of it (bare).  The rollout itself is the module Rollout: here  *)
(* it is planned, touched, activated or failed, and one that failed may    *)
(* come up all the same.                                                   *)
(***************************************************************************)
EXTENDS Naturals, FiniteSets

CONSTANTS
  Household,
  Id,            \* canonical sender identities; an actor is its sender
  Room,          \* conversations of the gateway channel
  Account,       \* accounts that are active members of every household
  Challenge,     \* one code each
  None,
  Founder,       \* household -> the owner state it starts settled with, or None
  Legacy,        \* rows an older version left
  Moves,         \* owner states a household can verify
  Invites,       \* what an owner may ask a challenge for
  MaxBindings,   \* MAX_BINDINGS
  MaxOpen,       \* MAX_OPEN_CHALLENGES
  ResetMax       \* the bound: resets in one behaviour

Channel == {"gateway", "web"}

\* web_seat_chat_id
Seat(i) == <<"web", i>>
Chat == Room \cup {Seat(i) : i \in Id}

Row == [h : Household, chan : Channel, id : Id, bare : BOOLEAN, chat : Chat,
        role : {"owner", "adult"}, acct : Account \cup {None}, pub : BOOLEAN]
\* An owner state names its household, channel, sender, conversation and account.
Owner == [h : Household, chan : Channel, id : Id, chat : Chat, acct : Account]
Invite == [h : Household, chan : Channel, id : Id, chat : Chat, acct : Account \cup {None}]

ASSUME BindingsAssumption ==
  /\ None \notin Account \cup Id
  /\ Moves \subseteq Owner /\ Invites \subseteq Invite /\ Legacy \subseteq Row
  /\ Founder \in [Household -> Moves \cup {None}]
  /\ \A h \in Household : Founder[h] # None => Founder[h].h = h
  /\ MaxBindings \in Nat \ {0} /\ MaxOpen \in Nat /\ ResetMax \in Nat

VARIABLES
  rows,    \* channel_bindings
  code,    \* channel_binding_challenges: code -> invitation and state
  home,    \* households.status
  flow,    \* onboarding_workflows.state
  step,    \* the verified result of the primary_channel step
  job,     \* the open runtime job: none, queued, or touched the provider
  plan,    \* the pairs of the last planned manifest
  late,    \* the pairs of manifests whose rollout failed and whose token lives
  served,  \* the pairs of the manifest the runtime last activated
  ahead,   \* what a late activation published beyond its manifest (observed)
  resets

house == <<home, flow, job, plan>>
runtime == <<late, served, ahead>>
vars == <<rows, code, home, flow, step, job, plan, late, served, ahead, resets>>

Pair(r) == <<r.chan, r.id, r.chat>>
Of(R, h) == {r \in R : r.h = h}
Owned(R, h) == {r \in R : r.h = h /\ r.role = "owner"}
\* _projected, and the manifest's channel_bindings.
Pairs(R, h) == {Pair(r) : r \in Of(R, h)}

\* routable_web_seat, and resolve_sender: what a turn can be admitted by.
Routable == {r \in rows : r.pub}

Unissued == [state |-> "unissued", for |-> None, by |-> None, under |-> {}]
Open(h) == {c \in Challenge : code[c].state = "open" /\ code[c].for.h = h}

TypeOK ==
  /\ rows \subseteq Row
  /\ \A c \in Challenge :
       /\ code[c].state \in {"unissued", "open", "consumed", "dropped"}
       /\ code[c] # Unissued => code[c].for \in Invite /\ code[c].by \in Id
  /\ home \in [Household -> {"onboarding", "provisioning", "active"}]
  /\ flow \in [Household -> {"setup", "complete"}]
  /\ \A h \in Household : step[h] = None \/ step[h] \in Owner
  /\ job \in [Household -> {"none", "queued", "touched"}]
  /\ {plan, served, ahead} \subseteq [Household -> SUBSET (Channel \X Id \X Chat)]
  /\ late \in [Household -> SUBSET SUBSET (Channel \X Id \X Chat)]
  /\ \A h \in Household : Cardinality(Of(rows, h)) <= MaxBindings
  /\ resets \in 0..ResetMax

-----------------------------------------------------------------------------
(* The table *)

\* Slip: rows are looked up by the string they hold.
HoldersBySpelling(R, chan, i) == {r \in R : r.chan = chan /\ r.id = i /\ ~r.bare}
\* _holders: every row that is this identity, in any spelling.
Holders(R, chan, i) == {r \in R : r.chan = chan /\ r.id = i}

\* _reject_foreign_holder
Foreign(R, h, chan, i) == \E r \in Holders(R, chan, i) : r.h # h

\* _insert: staged, within the household's limit, and not over the two unique
\* indexes, which end the transaction where they are hit.
Insertable(R, r) ==
  /\ Cardinality(Of(R, r.h)) < MaxBindings
  /\ \A s \in Of(R, r.h) : s.chan = r.chan =>
       /\ s.id # r.id \/ s.bare
       /\ s.acct = None \/ s.acct # r.acct
Inserted(R, r) == IF Insertable(R, r) THEN {R \cup {r}} ELSE {}
OwnerRow(o, chan, chat, acct) ==
  [h |-> o.h, chan |-> chan, id |-> o.id, bare |-> FALSE, chat |-> chat,
   role |-> "owner", acct |-> acct, pub |-> FALSE]

\* _retire_superseded: the owner's rows, and the members of their rooms.
Retired(R, h) ==
  {r \in R \ Owned(R, h) :
     ~\E s \in Owned(R, h) : r.h = h /\ r.chan = s.chan /\ r.chat = s.chat}

SameOwner(r, o, acct) ==
  r.role = "owner" /\ r.id = o.id /\ ~r.bare /\ r.chat = o.chat /\ r.acct = acct

\* ensure_owner_binding is a no-op for the owner state it finds, in which case
\* no challenge is dropped either.
PrimaryAccount(o) == IF o.chan = "web" THEN o.acct ELSE None
Unmoved(R, o) ==
  \E r \in Holders(R, o.chan, o.id) : r.h = o.h /\ SameOwner(r, o, PrimaryAccount(o))
PrimaryEnsured(R, o) ==
  LET mine == {r \in Holders(R, o.chan, o.id) : r.h = o.h}
  IN IF Unmoved(R, o) THEN {R}
     ELSE IF Foreign(R, o.h, o.chan, o.id) \/ \E r \in mine : r.role # "owner" THEN {}
     ELSE Inserted(Retired(R, o.h), OwnerRow(o, o.chan, o.chat, PrimaryAccount(o)))

\* ensure_owner_web_seat: an existing seat keeps its room.
SeatEnsured(R, o) ==
  LET seats == {r \in Owned(R, o.h) : r.chan = "web"}
      room == IF seats = {} THEN Seat(o.id) ELSE (CHOOSE r \in seats : TRUE).chat
  IN IF \E r \in seats : r.id = o.id /\ ~r.bare /\ r.chat = room /\ r.acct = o.acct
     THEN {R}
     ELSE Inserted(R \ seats, OwnerRow(o, "web", room, o.acct))

\* What DesiredSpecPlanner.issue makes of the table: one table, or none when it
\* is refused.
Issued(R, o) ==
  UNION {IF o.chan = "web" THEN {P} ELSE SeatEnsured(P, o) : P \in PrimaryEnsured(R, o)}

-----------------------------------------------------------------------------

Init ==
  /\ rows \in LET founded == {Founder[h] : h \in {g \in Household : Founder[g] # None}}
              IN {Legacy \cup UNION {{[r EXCEPT !.pub = TRUE] : r \in UNION Issued({}, o)}
                                     : o \in founded}}
  /\ code = [c \in Challenge |-> Unissued]
  /\ home = [h \in Household |-> IF Founder[h] = None THEN "onboarding" ELSE "active"]
  /\ flow = [h \in Household |-> IF Founder[h] = None THEN "setup" ELSE "complete"]
  /\ step = Founder
  /\ job = [h \in Household |-> "none"]
  /\ plan = [h \in Household |-> Pairs(rows, h)]
  /\ late = [h \in Household |-> {}]
  /\ served = plan
  /\ ahead = late
  /\ resets = 0

(* Challenges *)

\* issue_challenge.  The owner of the table issues it, by the actor its oldest
\* row holds.
OwnerActor(h) == (CHOOSE r \in Owned(rows, h) : TRUE).id
Issue(c, i) ==
  /\ code[c] = Unissued
  /\ Owned(rows, i.h) # {}
  /\ i.id # OwnerActor(i.h)
  /\ Holders(rows, i.chan, i.id) = {}
  /\ (i.chan = "web") = (i.acct # None)
  /\ Cardinality(Open(i.h)) < MaxOpen
  /\ code' = [code EXCEPT ![c] = [state |-> "open", for |-> i, by |-> OwnerActor(i.h),
                                  under |-> {Pair(r) : r \in Owned(rows, i.h)}]]
  /\ UNCHANGED <<rows, house, step, runtime, resets>>

\* Its fifteen minutes pass.
Expire(c) ==
  /\ code[c].state = "open"
  /\ code' = [code EXCEPT ![c].state = "dropped"]
  /\ UNCHANGED <<rows, house, step, runtime, resets>>

\* verify_challenge: the table after the answer, or none when it is refused.
Answered(i) ==
  LET held == Holders(rows, i.chan, i.id)
  IN IF Foreign(rows, i.h, i.chan, i.id) THEN {}
     ELSE IF held # {} THEN IF \E r \in held : r.chat = i.chat THEN {rows} ELSE {}
     ELSE Inserted(rows, [h |-> i.h, chan |-> i.chan, id |-> i.id, bare |-> FALSE,
                          chat |-> i.chat, role |-> "adult", acct |-> i.acct, pub |-> FALSE])

\* schedule_runtime_rollout
Settled(h) ==
  /\ home[h] \in {"active", "provisioning"} /\ flow[h] = "complete"
  /\ job[h] = "none"

\* Slip: a new owner state leaves the codes of the old one open.
DroppedNone(cs, R, o) == cs
\* The challenges outstanding when the owner's state moves are deleted.
Dropped(cs, R, o) ==
  IF Unmoved(R, o) THEN cs
  ELSE [c \in Challenge |-> IF cs[c].state = "open" /\ cs[c].for.h = o.h
                            THEN [cs[c] EXCEPT !.state = "dropped"] ELSE cs[c]]

\* A planned revision and the job that serves it, in one transaction.
Planned(h, o, R, cs) ==
  /\ rows' \in Issued(R, o)
  /\ code' = Dropped(cs, R, o)
  /\ plan' = [plan EXCEPT ![h] = Pairs(rows', h)]
  /\ job' = [job EXCEPT ![h] = "queued"]
  /\ home' = [home EXCEPT ![h] = "provisioning"]
  /\ UNCHANGED <<runtime, resets>>

\* verify_binding_challenge: the answer, the revision and the rollout, or nothing.
Redeem(c) ==
  /\ code[c].state = "open"
  /\ LET i == code[c].for
     IN /\ Owned(rows, i.h) # {} /\ code[c].by = OwnerActor(i.h)
        /\ Settled(i.h)
        /\ \E R \in Answered(i) :
             Planned(i.h, step[i.h], R, [code EXCEPT ![c].state = "consumed"])
  /\ UNCHANGED <<flow, step>>

-----------------------------------------------------------------------------
(* The owner, the operator and the rollout *)

\* reset_from the primary channel, or an earlier step: the tokens are revoked.
Reset(h) ==
  /\ step[h] # None /\ home[h] # "onboarding"
  /\ resets < ResetMax /\ resets' = resets + 1
  /\ home' = [home EXCEPT ![h] = "onboarding"]
  /\ flow' = [flow EXCEPT ![h] = "setup"]
  /\ job' = [job EXCEPT ![h] = "none"]
  /\ late' = [late EXCEPT ![h] = {}]
  /\ UNCHANGED <<rows, code, step, plan, served, ahead>>

\* The primary channel is verified: the step's result and the revision that
\* carries it are one transaction.
VerifyChannel(o) ==
  /\ home[o.h] = "onboarding"
  /\ Planned(o.h, o, rows, code)
  /\ step' = [step EXCEPT ![o.h] = o]
  /\ UNCHANGED flow

\* roll-runtime, and the sweep of households whose manifest is stale.
Roll(h) ==
  /\ Settled(h)
  /\ Planned(h, step[h], rows, code)
  /\ UNCHANGED <<flow, step>>

Touch(h) ==
  /\ job[h] = "queued"
  /\ job' = [job EXCEPT ![h] = "touched"]
  /\ UNCHANGED <<rows, code, home, flow, step, plan, runtime, resets>>

\* Slip: activating a revision publishes every staged row of the deployment.
PublishesAll(r, h) == TRUE
\* BootstrapService.activate publishes the household's staged rows.
Publishes(r, h) == r.h = h
GoesLive(h, manifest) ==
  /\ rows' = {IF Publishes(r, h) THEN [r EXCEPT !.pub = TRUE] ELSE r : r \in rows}
  /\ served' = [served EXCEPT ![h] = manifest]
  /\ home' = [home EXCEPT ![h] = "active"]
  /\ flow' = [flow EXCEPT ![h] = "complete"]
  /\ late' = [late EXCEPT ![h] = {}]
  /\ UNCHANGED <<code, step, plan, resets>>
Activate(h) ==
  /\ job[h] = "touched"
  /\ GoesLive(h, plan[h])
  /\ job' = [job EXCEPT ![h] = "none"]
  /\ ahead' = [ahead EXCEPT ![h] = {}]
\* It asks for the token and the revision, and never for the job: the machine of
\* a failed rollout goes live with its own manifest, until the machine of another
\* revision takes its place, and whatever has been staged since is published.
ActivateLate(h) ==
  /\ \E manifest \in late[h] :
       /\ GoesLive(h, manifest)
       /\ ahead' = [ahead EXCEPT ![h] = {Pair(r) : r \in {s \in Of(rows, h) : ~s.pub}} \ manifest]
  /\ UNCHANGED job

\* Slip: a failed rollout leaves the members it staged.
StagedMembersKept(h) == {}
\* retire_staged_members
StagedMembers(h) == {r \in rows : r.h = h /\ r.role # "owner" /\ ~r.pub}
\* A terminal failure: the household is handed back only when the provider was
\* never touched and something is being served.  One that was touched leaves its
\* token as it is.
Fail(h) ==
  /\ job[h] # "none"
  /\ rows' = rows \ StagedMembers(h)
  /\ job' = [job EXCEPT ![h] = "none"]
  /\ home' = [home EXCEPT ![h] = IF job[h] = "queued" /\ flow[h] = "complete"
                                 THEN "active" ELSE @]
  /\ late' = [late EXCEPT ![h] = IF job[h] = "touched" THEN @ \cup {plan[h]} ELSE @]
  /\ UNCHANGED <<code, flow, step, plan, served, ahead, resets>>

-----------------------------------------------------------------------------

Codes == \E c \in Challenge : Expire(c) \/ Redeem(c) \/ \E i \in Invites : Issue(c, i)
Rollouts == \E h \in Household : Touch(h) \/ Activate(h) \/ ActivateLate(h) \/ Fail(h)
People == (\E h \in Household : Reset(h) \/ Roll(h)) \/ \E o \in Moves : VerifyChannel(o)

Next == Codes \/ Rollouts \/ People
Spec == Init /\ [][Next]_vars

\* A rollout that is open goes on until it activates or fails.
FairSpec == Spec /\ \A h \in Household : WF_vars(Touch(h)) /\ WF_vars(Activate(h) \/ Fail(h))

-----------------------------------------------------------------------------
(* Properties *)

\* The gateway and the web chat route only what the household's last activated
\* manifest authorizes, whatever is being rolled out, was reset or has failed;
\* but for what was staged when a failed rollout came up late, which waits for the
\* next activation to be authorized.
RoutableIsAuthorized ==
  \A r \in Routable : Pair(r) \in served[r.h] \cup ahead[r.h]

\* An identity the gateway can resolve belongs to one row, in whatever spelling
\* an older version stored it: two would deny the sender to both households.
\* And to no dead end: a settled household has no member waiting to be
\* published, who could neither be routed nor invited again.
OneHolder ==
  /\ \A r, s \in rows : r.chan = "gateway" /\ s.chan = "gateway" /\ r.id = s.id => r = s
  /\ \A r \in rows : r.role = "adult" /\ ~r.pub => home[r.h] # "active"

\* An owner's move leaves nothing open behind it: a code redeems only into the
\* arrangement it was issued under, and into the revision it planned; and nobody
\* stays authorized in a room the owner has left.
NoStaleInvitation ==
  [][/\ \A c \in Challenge :
          code[c].state = "open" /\ code'[c].state = "consumed"
          => /\ code[c].under = {Pair(r) : r \in Owned(rows, code[c].for.h)}
             /\ Pair(code[c].for) \in plan'[code[c].for.h]
     /\ \A h \in Household : \A r \in Owned(rows, h) :
          ~(\E s \in Owned(rows', h) : s.chan = r.chan /\ s.chat = r.chat)
          => ~\E s \in Of(rows', h) : s.chan = r.chan /\ s.chat = r.chat]_vars

Waiting(h) == \E r \in rows : r.h = h /\ r.role = "adult" /\ ~r.pub

\* A member who was staged is published or withdrawn, unless the family goes
\* back to its channel step.
StagedSettles ==
  \A h \in Household :
    job[h] # "none" /\ Waiting(h) ~> ~Waiting(h) \/ home[h] = "onboarding"

=============================================================================
