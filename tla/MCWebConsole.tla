---------------------------- MODULE MCWebConsole ----------------------------
(* The pages of the console in three runs: prices, goals, cards, refunds   *)
(* and owners whose customers leave; settings and redemptions; care, the   *)
(* renewals of owners, and the session.                                    *)
EXTENDS WebConsole, TLC

CONSTANTS s1, s2, a1, c1, c2, seat, t1, t2

MCSubscriptions == {s1, s2}
MCAccounts == {a1}
MCCodes == {c1, c2}
MCSeats == {seat}
MCTabs == {t1, t2}
MCItself == [x \in MCSubscriptions \cup MCAccounts |-> x]
MCSymmetry == Permutations(MCSubscriptions) \cup Permutations(MCCodes) \cup Permutations(MCTabs)

=============================================================================
