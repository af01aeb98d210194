----------------------------- MODULE MCRollout -----------------------------
(***************************************************************************)
(* The households TLC looks at: what each does, and how much of it.        *)
(***************************************************************************)
EXTENDS Rollout

Household(does, plans, mishaps) ==
  [commands |-> does, revs |-> plans, faults |-> mishaps, strict |-> FALSE, slow |-> FALSE]
Refusing(h) == [h EXCEPT !.strict = TRUE]
Slow(h) == [h EXCEPT !.slow = TRUE]

Growing == Refusing(Household({"add"}, 3, 1))
Drifting == Household({"add", "sweep"}, 3, 0)
Turned == Refusing(Household({"add", "drift", "sweep"}, 2, 1))
Withdrawn == Refusing(Household({"withdraw"}, 2, 1))
Undone == Household({"reset"}, 2, 0)
Cancelled == Household({"cancel"}, 1, 1)
SafePlans == {Growing, Drifting, Turned, Withdrawn, Undone, Cancelled}

(* And those in which a comment of the code does not hold. *)
RacedPlans == {Slow(Household({}, 1, 1))}
=============================================================================
