-------------------------- MODULE MCProvisioning --------------------------
(***************************************************************************)
(* The households TLC looks at: what each does, and how much of it.        *)
(***************************************************************************)
EXTENDS Provisioning

Household(does, tries, times, mishaps) ==
  [commands |-> does, attempts |-> tries, versions |-> times, faults |-> mishaps,
   real |-> TRUE, polled |-> FALSE, atomic |-> TRUE, fresh |-> FALSE]

(* Two attempts, undone by reset, cancellation or withdrawal. *)
Changing == Household({"select", "reset", "withdraw", "cancel"}, 2, 3, 1)
(* A domain of the family's own, polled while it waits. *)
Waiting == [Household({"select", "retry", "check", "reset"}, 2, 4, 1) EXCEPT !.polled = TRUE]
(* The operator brakes. *)
Braking == Household({"select", "retry", "brake", "cancel"}, 2, 3, 1)
(* The household is erased: after a cancellation, after a withdrawal. *)
Leaving == Household({"select", "delete", "cancel"}, 1, 2, 1)
Erasing == Household({"select", "delete", "withdraw"}, 1, 1, 0)
(* The synthetic provider, which needs no consent. *)
Synthetic == [Household({"select", "retry", "withdraw"}, 2, 2, 1) EXCEPT !.real = FALSE]
(* A provider that may stop half way when it refuses. *)
Refusing == [Household({"select", "retry", "withdraw"}, 2, 2, 1) EXCEPT !.atomic = FALSE]
(* The namespace is still to be made: the household goes, or it tries again. *)
Fresh(house) == [house EXCEPT !.fresh = TRUE]
Founding == Fresh(Household({"cancel", "delete"}, 1, 1, 1))
Retrying == Fresh(Household({"select", "retry"}, 2, 2, 1))
Quitting == Fresh(Household({"select", "cancel"}, 1, 2, 1))

SafePlans == {Synthetic, Refusing, Changing, Waiting, Braking, Leaving, Erasing,
              Founding, Retrying, Quitting}
DeletePlans == {Household({"select", "delete"}, 1, 1, 1)}
=============================================================================
