-------------------------- MODULE MCClientSession ---------------------------
(* Two tabs and two sandboxes: the session alone, with room for a reset.   *)
EXTENDS ClientSession, TLC

CONSTANTS t1, t2

MCTabs == {t1, t2}
MCSymmetry == Permutations(MCTabs)

=============================================================================
