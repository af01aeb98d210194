---------------------------- MODULE MCReminders ----------------------------
(* Instances of Reminders for TLC: a reminder and its newer version, over   *)
(* two days of two moments each, and a morning.                             *)
EXTENDS Reminders

CONSTANTS r1, r2, t1, s1

NewerVersion == [r \in Reminder |-> IF r = r2 THEN r1 ELSE None]
Mornings == [r \in Reminder |-> IF r = r1 THEN 1 ELSE 2]
Halves == [m \in 0..LastMoment |-> (m \div 2) + 1]

=============================================================================
