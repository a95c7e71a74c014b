------------------------ MODULE MCDueNotifications ------------------------
(* A small instance of DueNotifications for TLC: a Team customer with two due  *)
(* dates in a row, and a Plus rental that shares the first of them.           *)
EXTENDS DueNotifications

CONSTANTS dense, rented

Dues == [s \in {dense, rented} |-> IF s = dense THEN <<0, 2, 3, 30>>
                                   ELSE <<0, 2, 30>>]
Doubling == <<1>>
===========================================================================
