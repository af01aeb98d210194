------------------------------ MODULE MCRelay ------------------------------
(* One plain letter and one with attachments, one confirmation, three days.  *)
EXTENDS Relay

MCLetters == {1, 2}
MCRich == {2}
MCConfirmations == {1}

Plan(written, confirmed, failures, toggles, asked, releases, sent, lag) ==
  [letters |-> written, confirmations |-> confirmed, faults |-> failures,
   flips |-> toggles, rechecks |-> asked, deploys |-> releases, checks |-> sent,
   delayed |-> lag]

MCPlans ==
  {Plan({1}, {}, 2, 0, 0, 0, 1, 1),
   Plan({2}, {}, 1, 0, 0, 0, 1, 1),
   Plan({}, {1}, 1, 0, 0, 0, 1, 1),
   Plan({1, 2}, {}, 0, 0, 0, 0, 1, 1),
   Plan({1}, {}, 0, 1, 0, 0, 2, 1),
   Plan({1}, {}, 0, 2, 0, 0, 2, 0),
   Plan({}, {}, 0, 1, 0, 0, 3, 1),
   Plan({}, {}, 1, 1, 0, 0, 3, 0),
   Plan({}, {}, 0, 1, 1, 0, 2, 1),
   Plan({2}, {}, 1, 0, 0, 1, 0, 1),
   Plan({}, {1}, 1, 0, 0, 1, 0, 1),
   Plan({}, {}, 0, 0, 0, 1, 1, 1)}

=============================================================================
