------------------------------ MODULE HumanYes ------------------------------
(***************************************************************************)
(* What the household is promised, whatever the machinery behind it: an    *)
(* offer names its parts and is open until a person says yes or it is      *)
(* closed; a part is attempted only after a yes to the offer that named    *)
(* it, and at most once.                                                   *)
(***************************************************************************)
EXTENDS Naturals

CONSTANTS
  Approval,  \* offers
  Part       \* parts an offer may have

VARIABLES
  offer,     \* none, open, yes or closed
  terms,     \* the parts each offer names
  attempts   \* attempts made at each part of each offer

vars == <<offer, terms, attempts>>

TypeOK ==
  /\ offer \in [Approval -> {"none", "open", "yes", "closed"}]
  /\ terms \in [Approval -> SUBSET Part]
  /\ attempts \in [Approval \X Part -> Nat]

Init ==
  /\ offer = [a \in Approval |-> "none"]
  /\ terms \in [Approval -> SUBSET Part]
  /\ attempts = [k \in Approval \X Part |-> 0]

Offer(a) ==
  /\ offer[a] = "none"
  /\ offer' = [offer EXCEPT ![a] = "open"]
  /\ \E S \in SUBSET Part : terms' = [terms EXCEPT ![a] = S]
  /\ UNCHANGED attempts

Answer(a) ==
  /\ offer[a] = "open"
  /\ \E r \in {"yes", "closed"} : offer' = [offer EXCEPT ![a] = r]
  /\ UNCHANGED <<terms, attempts>>

Attempt(a, i) ==
  /\ offer[a] = "yes"
  /\ i \in terms[a]
  /\ attempts[<<a, i>>] = 0
  /\ attempts' = [attempts EXCEPT ![<<a, i>>] = 1]
  /\ UNCHANGED <<offer, terms>>

Next ==
  \/ \E a \in Approval : Offer(a) \/ Answer(a)
  \/ \E a \in Approval, i \in Part : Attempt(a, i)

Spec == Init /\ [][Next]_vars

=============================================================================
