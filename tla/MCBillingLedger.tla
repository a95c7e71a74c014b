-------------------------- MODULE MCBillingLedger --------------------------
(* Small instances of BillingLedger for TLC. *)
EXTENDS BillingLedger

TwoPrices == {2, 3}
OneDay == {0}
TwoDays == {0, 1}
Daily == {1}
TwoIntervals == {1, 2}
=============================================================================
