------------------------------- MODULE Inbox -------------------------------
(***************************************************************************)
(* What the durable ingress promises about a letter, whatever workers,     *)
(* leases and retries are behind it: once accepted it waits until it has   *)
(* been shown to the family or parked for a person, and only a person, or  *)
(* the erasure of the household, takes it out of there.                    *)
(***************************************************************************)
EXTENDS Naturals

CONSTANT Letter

VARIABLES
  place,   \* unknown, waiting, handled or parked
  shown,   \* letters the family has been shown
  asked,   \* times a person asked for a letter again
  erased

vars == <<place, shown, asked, erased>>

Init ==
  /\ place = [e \in Letter |-> "unknown"]
  /\ shown = {}
  /\ asked = 0
  /\ erased = FALSE

Move(e, from, to) == place[e] \in from /\ place' = [place EXCEPT ![e] = to]

Accept(e) == Move(e, {"unknown"}, "waiting") /\ UNCHANGED <<shown, asked, erased>>

Show(e) ==
  /\ place[e] = "waiting"
  /\ shown' = shown \cup {e}
  /\ UNCHANGED <<place, asked, erased>>

Finish(e) ==
  /\ e \in shown
  /\ Move(e, {"waiting"}, "handled")
  /\ UNCHANGED <<shown, asked, erased>>

Park(e) == Move(e, {"waiting"}, "parked") /\ UNCHANGED <<shown, asked, erased>>

Again(e) ==
  /\ Move(e, {"waiting", "handled", "parked"}, "waiting")
  /\ asked' = asked + 1
  /\ UNCHANGED <<shown, erased>>

Erase ==
  /\ ~erased
  /\ erased' = TRUE
  /\ place' = [e \in Letter |-> "unknown"]
  /\ shown' = {}
  /\ UNCHANGED asked

Next ==
  \/ \E e \in Letter : Accept(e) \/ Show(e) \/ Finish(e) \/ Park(e) \/ Again(e)
  \/ Erase

Spec == Init /\ [][Next]_vars

=============================================================================
