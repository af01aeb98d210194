------------------------------ MODULE MCBackup ------------------------------
(* One write of the service and one of a command that takes no lock.  The    *)
(* operator follows the runbook: a rollback of a release, the same when the  *)
(* volume is full, a restore in place, and a release that goes to and fro.   *)
(* Faults enough for a rollback to fail, to fail again on its way back and   *)
(* to be tried anew, and for a crash that leaves a log before all that.      *)
EXTENDS Backup

MCWrite == {"w"}
MCToolWrite == {"t"}
MCTargets == {"live", "cand"}

Plan(commands, ships, failures, writes) ==
  [script |-> commands, release |-> ships, faults |-> failures, tools |-> writes]

MCPlans ==
  {Plan(<<"restore", "install", "install">>, 2, 4, {}),
   Plan(<<"restore", "install", "deploy", "resume">>, 2, 2, {"t"}),
   Plan(<<"backup", "free", "restore", "install">>, 2, 1, {"t"}),
   Plan(<<"backup", "free", "restore", "resume">>, 1, 1, {"t"}),
   Plan(<<"restore", "install", "restore">>, 2, 2, {}),
   Plan(<<"deploy", "deploy", "backup">>, 2, 2, {"t"})}

=============================================================================
