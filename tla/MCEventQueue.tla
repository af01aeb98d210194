---------------------------- MODULE MCEventQueue ----------------------------
(* Instances of EventQueue for TLC: a thread of two letters and a lone one,  *)
(* in order, and with slow handlers and a replay.                            *)
EXTENDS EventQueue

CONSTANTS e1, e2, e3, thread

TwoInThread == [e \in Letter |-> IF e = e3 THEN NoContext ELSE thread]

MCPlans ==
  {[letters |-> {e1, e2, e3}, overrun |-> FALSE, receipts |-> 3, replays |-> 0],
   [letters |-> {e1, e3}, overrun |-> TRUE, receipts |-> 2, replays |-> 1]}

=============================================================================
