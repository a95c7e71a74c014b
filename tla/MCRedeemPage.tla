---------------------------- MODULE MCRedeemPage ----------------------------
EXTENDS RedeemPage

CONSTANTS c1, s1, t1, t2, k1

\* Both tabs belong to one browser and share its storage.
MCCodes == {c1}
MCSeats == {s1}
MCTabs == {t1, t2}
MCKeys == {k1}
MCKeyOf == [t \in MCTabs |-> k1]

=============================================================================
