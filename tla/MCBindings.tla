----------------------------- MODULE MCBindings -----------------------------
(* Two settled households, whose owners can move to another sender or room, *)
(* one of which the other household may hold.                               *)
EXTENDS Bindings, TLC

CONSTANTS smith, jones, ann, bob, cid, dan, kitchen, garden, own, adult, c1, c2

Both == {smith, jones}
Ids == {ann, bob, cid, dan}

Owns(h, i, r) == [h |-> h, chan |-> "gateway", id |-> i, chat |-> r, acct |-> own]
OwnerMoves == {Owns(smith, ann, kitchen), Owns(smith, ann, garden), Owns(smith, cid, garden),
               Owns(jones, dan, kitchen), Owns(jones, bob, kitchen)}
Founders == (smith :> Owns(smith, ann, kitchen)) @@ (jones :> Owns(jones, dan, kitchen))

Asks(h, i, r) == [h |-> h, chan |-> "gateway", id |-> i, chat |-> r, acct |-> None]
Asked == {Asks(smith, bob, kitchen), Asks(smith, bob, garden),
          [h |-> smith, chan |-> "web", id |-> bob, chat |-> Seat(bob), acct |-> adult],
          Asks(jones, bob, kitchen)}

\* A member whose sender an older version stored without its prefix.
Bare == {[h |-> jones, chan |-> "gateway", id |-> cid, bare |-> TRUE, chat |-> kitchen,
          role |-> "adult", acct |-> None, pub |-> TRUE]}
=============================================================================
