------------------------------- MODULE Gateway -------------------------------
(***************************************************************************)
(* The WhatsApp gateway: gateway/whatsapp_router.py and gateway/app.py,    *)
(* with the lookup it asks of the control plane and the runtime's webhook. *)
(* A webhook is routed, written to the write-ahead log and delivered; the  *)
(* redeliver scheduler, a thread of its own, drains the log.  One row of   *)
(* the log is one message, so rows are keyed by message.                   *)
(*                                                                         *)
(* Time is abstracted to two facts about a row: its backoff has passed     *)
(* (due) and its day has passed (aged).  The order in which a pass takes   *)
(* its rows (received_at) is left open.                                    *)
(***************************************************************************)
EXTENDS Naturals, FiniteSets

CONSTANTS
  Message,        \* webhook bodies, each one call of the relay adapter
  Household,
  None,           \* no household
  SignedFor,      \* whose relay key signed the body: None for a forged one
  MaxAttempts,    \* GatewayRedeliverWorker.MAX_ATTEMPTS
  Legacy,         \* messages a log of an older version still holds
  FaultMax        \* crashes and rebindings in one behaviour

ASSUME GatewayAssumption ==
  /\ None \notin Household
  /\ SignedFor \in [Message -> Household \cup {None}]
  /\ MaxAttempts \in Nat /\ MaxAttempts > 1
  /\ Legacy \subseteq Message
  /\ FaultMax \in Nat

Someone == Household \cup {None}
NoRow == [house |-> None, attempts |-> 0, due |-> FALSE, proven |-> FALSE, kept |-> FALSE]
Row == [house : Someone, attempts : 0..MaxAttempts, due : BOOLEAN,
        proven : BOOLEAN, kept : BOOLEAN]

\* What the webhook answered, and how a row ended.
Retryable == {"lookup_unavailable", "relay_key_absent", "runtime_unavailable"}
Acks == Retryable \cup {"none", "refused", "unroutable", "hmac_rejected", "ok"}
Fates == {"none", "delivered", "rejected", "expired", "unverifiable",
          "undeliverable", "exhausted"}

VARIABLES
  answers,   \* the control plane answers lookups
  holder,    \* the household whose published binding holds the sender, or None
  keyed,     \* households whose relay key the gateway can derive
  enabled,   \* is_whatsapp_shared_enabled()
  up,        \* households whose runtime answers
  wal,       \* GatewayStore: message -> row
  aged,      \* messages older than MAX_AGE_SECONDS
  web,       \* the WSGI thread: its step, message and routed household
  red,       \* the scheduler: its step, the rows it read, the one in hand
  inbox,     \* runtime event stores: message -> households that took it
  acked,     \* history: the webhook's answer
  accepted,  \* history: the household the row was accepted for
  fate,      \* history: how the row ended
  tries,     \* history: genuine attempts made of the row
  faults

world == <<answers, holder, keyed, enabled, up>>
history == <<acked, accepted, fate, tries>>
vars == <<world, wal, aged, web, red, inbox, history, faults>>

Idle == [at |-> "idle", m |-> None, house |-> None]
Resting == [at |-> "idle", rows |-> << >>, left |-> {}, m |-> None, house |-> None]

Kept(m) == wal[m].kept

TypeOK ==
  /\ answers \in BOOLEAN /\ enabled \in BOOLEAN
  /\ holder \in Someone
  /\ keyed \subseteq Household /\ up \subseteq Household
  /\ wal \in [Message -> Row]
  /\ aged \subseteq Message
  /\ web \in [at : {"idle", "lookup", "check", "send"},
              m : Message \cup {None}, house : Someone]
  /\ web.at # "idle" => web.m \in Message
  /\ web.at \in {"check", "send"} => web.house \in Household
  /\ red \in [at : {"idle", "next", "judge", "send"}, rows : [Message -> Row] \cup {<< >>},
              left : SUBSET Message, m : Message \cup {None}, house : Someone]
  /\ red.left # {} => red.rows \in [Message -> Row]
  /\ red.at \in {"judge", "send"} => red.m \in red.left /\ red.house \in Household
  /\ inbox \in [Message -> SUBSET Household]
  /\ acked \in [Message -> Acks]
  /\ accepted \in [Message -> Someone]
  /\ fate \in [Message -> Fates]
  /\ tries \in [Message -> Nat]
  /\ faults \in 0..FaultMax

Init ==
  /\ answers \in BOOLEAN
  /\ holder \in Household
  /\ keyed \in {{}, Household}
  /\ enabled = TRUE
  /\ up = Household
  /\ wal = [m \in Message |-> IF m \in Legacy THEN [NoRow EXCEPT !.kept = TRUE, !.due = TRUE]
                              ELSE NoRow]
  /\ aged = {}
  /\ web = Idle
  /\ red = Resting
  /\ inbox = [m \in Message |-> {}]
  /\ acked = [m \in Message |-> "none"]
  /\ accepted = [m \in Message |-> None]
  /\ fate = [m \in Message |-> "none"]
  /\ tries = [m \in Message |-> 0]
  /\ faults = 0

-----------------------------------------------------------------------------
(* The log *)

\* persist_before_ack: the row is complete, and due at once.
Persist(m, h) ==
  /\ wal' = [wal EXCEPT ![m] = [house |-> h, attempts |-> 0, due |-> TRUE,
                                proven |-> TRUE, kept |-> TRUE]]
  /\ accepted' = [accepted EXCEPT ![m] = h]

\* mark_delivered: DELETE, whatever the reason.
Drop(m, why) ==
  /\ wal' = [wal EXCEPT ![m] = NoRow]
  /\ fate' = [fate EXCEPT ![m] = IF Kept(m) THEN why ELSE @]

\* GatewayStore.defer: UPDATE ... WHERE id = ?, so nothing when it is gone.
Deferred(m, spent) ==
  IF Kept(m)
  THEN [wal EXCEPT ![m] = [wal[m] EXCEPT !.attempts = wal[m].attempts + spent, !.due = FALSE]]
  ELSE wal

Tried(m) == tries' = [tries EXCEPT ![m] = @ + 1]
Ack(m, code) == acked' = [acked EXCEPT ![m] = code] /\ web' = Idle

\* route: resolve_sender behind /internal/v1/bindings/resolve.
Unanswered == ~answers
Routes(h) == answers /\ holder = h
Unroutable == answers /\ holder = None

-----------------------------------------------------------------------------
(* handle_webhook, on the WSGI thread *)

\* A call that was refused or cut off may come again; nothing was written.
Callable(m) ==
  /\ web.at = "idle" /\ m \notin Legacy
  /\ acked[m] \in {"none", "refused"} /\ ~Kept(m) /\ fate[m] = "none"

\* The kill switch, missing credentials and the replay window refuse before
\* anything is written.
Refuse(m) ==
  /\ Callable(m)
  /\ Ack(m, "refused")
  /\ UNCHANGED <<world, wal, aged, red, inbox, accepted, fate, tries, faults>>

Arrive(m) ==
  /\ Callable(m)
  /\ enabled
  /\ web' = [at |-> "lookup", m |-> m, house |-> None]
  /\ UNCHANGED <<world, wal, aged, red, inbox, history, faults>>

\* Slip: every denied route answers without writing the row.
LookupLost ==
  /\ web.at = "lookup" /\ Unanswered
  /\ Ack(web.m, "lookup_unavailable")
  /\ UNCHANGED <<world, wal, aged, red, inbox, accepted, fate, tries, faults>>
\* The control plane did not answer: the row is kept without a household.
LookupFails ==
  /\ web.at = "lookup" /\ Unanswered
  /\ wal' = [wal EXCEPT ![web.m] = [house |-> None, attempts |-> 1, due |-> FALSE,
                                    proven |-> TRUE, kept |-> TRUE]]
  /\ Tried(web.m)
  /\ Ack(web.m, "lookup_unavailable")
  /\ UNCHANGED <<world, aged, red, inbox, accepted, fate, faults>>

LookupDenies ==
  /\ web.at = "lookup" /\ Unroutable
  /\ Ack(web.m, "unroutable")
  /\ UNCHANGED <<world, wal, aged, red, inbox, accepted, fate, tries, faults>>

LookupRoutes ==
  \E h \in Household :
    /\ web.at = "lookup" /\ Routes(h)
    /\ Persist(web.m, h)
    /\ web' = [web EXCEPT !.at = "check", !.house = h]
    /\ UNCHANGED <<world, aged, red, inbox, acked, fate, tries, faults>>

\* relay_key and verify_relay_hmac under the routed household's key.
WebCheck ==
  /\ web.at = "check"
  /\ \/ /\ web.house \notin keyed
        /\ wal' = Deferred(web.m, 1)
        /\ Tried(web.m)
        /\ Ack(web.m, "relay_key_absent")
        /\ UNCHANGED fate
     \/ /\ web.house \in keyed /\ SignedFor[web.m] # web.house
        /\ Drop(web.m, "rejected")
        /\ Ack(web.m, "hmac_rejected")
        /\ UNCHANGED tries
     \/ /\ web.house \in keyed /\ SignedFor[web.m] = web.house
        /\ web' = [web EXCEPT !.at = "send"]
        /\ UNCHANGED <<wal, acked, fate, tries>>
  /\ UNCHANGED <<world, aged, red, inbox, accepted, faults>>

\* RuntimeRelayDeliverer and the runtime's WhatsAppWebhookReceiver: the event
\* store takes the message (a second copy is a duplicate of the first), and the
\* answer may be lost after it did.
Taken(m, h) == inbox' = [inbox EXCEPT ![m] = @ \cup {h}]

WebDelivers ==
  /\ web.at = "send" /\ web.house \in up
  /\ Taken(web.m, web.house)
  /\ Drop(web.m, "delivered")
  /\ Ack(web.m, "ok")
  /\ UNCHANGED <<world, aged, red, accepted, tries, faults>>

WebFails ==
  /\ web.at = "send"
  /\ \/ UNCHANGED inbox
     \/ web.house \in up /\ Taken(web.m, web.house)
  /\ wal' = Deferred(web.m, 1)
  /\ Tried(web.m)
  /\ Ack(web.m, "runtime_unavailable")
  /\ UNCHANGED <<world, aged, red, accepted, fate, faults>>

-----------------------------------------------------------------------------
(* GatewayRedeliverWorker, on the scheduler's thread *)

\* run_once: the due rows are read once, at the start of the pass.
Due == {m \in Message : Kept(m) /\ wal[m].due}
Begin ==
  /\ red.at = "idle" /\ Due # {}
  /\ red' = [Resting EXCEPT !.at = "next", !.rows = wal, !.left = Due]
  /\ UNCHANGED <<world, wal, aged, web, inbox, history, faults>>

Done(m) ==
  red' = IF red.left = {m} THEN Resting
         ELSE [red EXCEPT !.at = "next", !.left = @ \ {m}, !.m = None, !.house = None]

Ends(m, why) ==
  /\ Drop(m, why)
  /\ Done(m)
  /\ UNCHANGED <<world, aged, web, inbox, acked, accepted, tries, faults>>

\* _defer: the attempt is counted from the row as it was read.
Spend(m) ==
  /\ IF red.rows[m].attempts + 1 >= MaxAttempts
     THEN Drop(m, "exhausted")
     ELSE wal' = Deferred(m, 1) /\ UNCHANGED fate
  /\ Tried(m)

\* Slip: the row goes to whoever holds the sender now.
SameAnyone(m, h) == TRUE
\* Re-routing decides whether, never to whom.
Same(m, h) == h = red.rows[m].house

\* Slip: the brake is pulled before the row is classified.
ClassifiedGated(m) == m \in red.left /\ enabled
\* No gate stands before the terminal outcomes.
Classified(m) == m \in red.left

\* The terminal classification of _process, up to the route.
Pick(m) ==
  /\ red.at = "next" /\ Classified(m)
  /\ \/ m \in aged /\ Ends(m, "expired")
     \/ m \notin aged /\ ~red.rows[m].proven /\ Ends(m, "unverifiable")
     \/ /\ m \notin aged /\ red.rows[m].proven
        /\ \/ Unanswered \/ Unroutable
           \/ \E h \in Household : Routes(h) /\ ~Same(m, h)
        /\ Ends(m, "undeliverable")
     \/ /\ m \notin aged /\ red.rows[m].proven
        /\ \E h \in Household :
             /\ Routes(h) /\ Same(m, h)
             /\ red' = [red EXCEPT !.at = "judge", !.m = m, !.house = h]
        /\ UNCHANGED <<world, wal, aged, web, inbox, history, faults>>

\* verify_relay_hmac over the body and the stamp it arrived with.
Genuine(m, h) == SignedFor[m] = h

HoldCost == 0

\* The signature, the brake, the key.
Judge ==
  /\ red.at = "judge"
  /\ \/ red.house \in keyed /\ ~Genuine(red.m, red.house) /\ Ends(red.m, "unverifiable")
     \/ /\ red.house \in keyed => Genuine(red.m, red.house)
        /\ ~enabled
        /\ wal' = Deferred(red.m, HoldCost)
        /\ Done(red.m)
        /\ UNCHANGED <<world, aged, web, inbox, history, faults>>
     \/ /\ enabled /\ red.house \notin keyed
        /\ Spend(red.m)
        /\ Done(red.m)
        /\ UNCHANGED <<world, aged, web, inbox, acked, accepted, faults>>
     \/ /\ enabled /\ red.house \in keyed /\ Genuine(red.m, red.house)
        /\ red' = [red EXCEPT !.at = "send"]
        /\ UNCHANGED <<world, wal, aged, web, inbox, history, faults>>

RedDelivers ==
  /\ red.at = "send" /\ red.house \in up
  /\ Taken(red.m, red.house)
  /\ Drop(red.m, "delivered")
  /\ Done(red.m)
  /\ UNCHANGED <<world, aged, web, acked, accepted, tries, faults>>

\* The runtime refused, or took it and its answer was lost.
RedFails ==
  /\ red.at = "send"
  /\ \/ UNCHANGED inbox
     \/ red.house \in up /\ Taken(red.m, red.house)
  /\ Spend(red.m)
  /\ Done(red.m)
  /\ UNCHANGED <<world, aged, web, acked, accepted, faults>>

\* run_once: a row whose processing throws is deferred like any other.
Stumble ==
  /\ red.at = "judge"
  /\ Spend(red.m)
  /\ Done(red.m)
  /\ UNCHANGED <<world, aged, web, inbox, acked, accepted, faults>>

-----------------------------------------------------------------------------
(* The world *)

Backoff(m) ==
  /\ Kept(m) /\ ~wal[m].due
  /\ wal' = [wal EXCEPT ![m] = [wal[m] EXCEPT !.due = TRUE]]
  /\ UNCHANGED <<world, aged, web, red, inbox, history, faults>>

Ages(m) ==
  /\ Kept(m) /\ m \notin aged
  /\ aged' = aged \cup {m}
  /\ UNCHANGED <<world, wal, web, red, inbox, history, faults>>

\* The process dies and starts again: its threads' memory goes, the log stays.
Crash ==
  /\ faults < FaultMax /\ faults' = faults + 1
  /\ web # Idle \/ red # Resting
  /\ web' = Idle /\ red' = Resting
  /\ UNCHANGED <<world, wal, aged, inbox, history>>

\* The sender's binding is revoked or published for another household.
Rebind ==
  /\ faults < FaultMax /\ faults' = faults + 1
  /\ holder' \in Someone \ {holder}
  /\ UNCHANGED <<answers, keyed, enabled, up, wal, aged, web, red, inbox, history>>

Outage ==
  /\ answers' = ~answers
  /\ UNCHANGED <<holder, keyed, enabled, up, wal, aged, web, red, inbox, history, faults>>

Brake ==
  /\ enabled' = ~enabled
  /\ UNCHANGED <<answers, holder, keyed, up, wal, aged, web, red, inbox, history, faults>>

RootInstalled ==
  /\ keyed # Household
  /\ keyed' = Household
  /\ UNCHANGED <<answers, holder, enabled, up, wal, aged, web, red, inbox, history, faults>>

Runtime(h) ==
  /\ up' = IF h \in up THEN up \ {h} ELSE up \cup {h}
  /\ UNCHANGED <<answers, holder, keyed, enabled, wal, aged, web, red, inbox, history, faults>>

-----------------------------------------------------------------------------

Webhook ==
  \/ LookupFails \/ LookupDenies \/ LookupRoutes
  \/ WebCheck \/ WebDelivers \/ WebFails
Calls == \E m \in Message : Arrive(m) \/ Refuse(m)
Scheduler ==
  \/ Begin \/ (\E m \in Message : Pick(m)) \/ Judge
  \/ RedDelivers \/ RedFails \/ Stumble
Time == \E m \in Message : Backoff(m) \/ Ages(m)
World == Crash \/ Rebind \/ Outage \/ Brake \/ RootInstalled \/ \E h \in Household : Runtime(h)

Next == Webhook \/ Calls \/ Scheduler \/ Time \/ World
Spec == Init /\ [][Next]_vars

\* A request and a pass that began go on, the scheduler starts another pass
\* after each, and time passes for every row.
FairSpec ==
  /\ Spec
  /\ WF_vars(Webhook)
  /\ WF_vars(Scheduler)
  /\ \A m \in Message : WF_vars(Backoff(m)) /\ WF_vars(Ages(m))

-----------------------------------------------------------------------------
(* Properties *)

\* I4: a message reaches the household it was accepted for or none, however the
\* sender's binding moved, the key appeared or the process crashed in between.
ToWhomItWasAccepted ==
  \A m \in Message : inbox[m] \subseteq {accepted[m]}

\* I5: a runtime takes only what its own household's relay key signed.
OnlyGenuine ==
  \A m \in Message : \A h \in inbox[m] : SignedFor[m] = h

\* A caller told that the gateway owns its message finds it in the log, or the
\* log has settled it since; one told that it was delivered had it delivered.
AckedIsKept ==
  \A m \in Message :
    /\ acked[m] \in Retryable => Kept(m) \/ fate[m] # "none"
    /\ acked[m] = "ok" => inbox[m] # {}

\* I3: a row is given up for its attempts only after as many genuine ones: the
\* brake, held for any time, spends none, and a stale copy of the row counts no
\* attempt that was not made.
AttemptsAreGenuine ==
  \A m \in Message : fate[m] = "exhausted" => tries[m] >= MaxAttempts

\* I1: every row leaves the log, whatever is down and while the brake is on.
EveryRowLeaves ==
  \A m \in Message : Kept(m) ~> ~Kept(m)

=============================================================================
