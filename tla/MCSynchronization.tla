------------------------- MODULE MCSynchronization -------------------------
EXTENDS Synchronization, TLC

CONSTANTS q1, q2, q3, q4

Of(player, material) == [season |-> "PL", player |-> player, material |-> material]

\* Requests of one season: equal ones, one that differs, one about another player.
MCInput == q1 :> Of("p1", "a") @@ q2 :> Of("p1", "a")
        @@ q3 :> Of("p1", "b") @@ q4 :> Of("p2", "a")

\* Equal requests may be exchanged.
MCTwins == Permutations({q1, q2})

=============================================================================
