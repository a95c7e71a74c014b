--------------------------- MODULE MCSeatReleases ---------------------------
(* A small instance of SeatReleases for TLC. *)
EXTENDS SeatReleases, TLC
CONSTANTS a1, a2, t1, t2, t3, h1, h2

(* One account with one seat, on which three Team customers follow each other, *)
(* beside a Plus rental.                                                       *)
OneAccountOneSeat == (t1 :> a1)
SeparateOwners == [a \in Accounts |-> a]
FourSubs == 1..4
ThirdIsPlus == {3}
=============================================================================
