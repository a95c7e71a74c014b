-------------------------- MODULE MCSeatLifecycle --------------------------
(* Small instances of SeatLifecycle for TLC. *)
EXTENDS SeatLifecycle, TLC
CONSTANTS a1, a2, t1, t2, t3, h1, h2

(* Two accounts with one seat each: moves, bans, reassignments. *)
TwoAccounts == (t1 :> a1 @@ t2 :> a2)
(* One account with three seats: departures, allowance, restarts. *)
OneAccount == (t1 :> a1 @@ t2 :> a1 @@ t3 :> a1)
OneAccountTwoSeats == (t1 :> a1 @@ t2 :> a1)
SeparateOwners == [a \in Accounts |-> a]
SharedOwner == [a \in Accounts |-> "owner"]
ThreeSubs == 1..3
TwoSubs == 1..2
NoPlus == {}
LastIsPlus == {3}
(* Renaming both accounts together with their seats changes nothing. *)
SwapAccounts == {a1 :> a2 @@ a2 :> a1 @@ t1 :> t2 @@ t2 :> t1}
                  \cup Permutations(Handlers)
(* Nor does renaming the seats of the one account, or the handlers. *)
SwapSeats == Permutations(Seats) \cup Permutations(Handlers)
=============================================================================
