----------------------- MODULE MCBusinessEmailOutbox -----------------------
(* A small instance of BusinessEmailOutbox for TLC: one subscription whose     *)
(* address never works and one whose address does.                            *)
EXTENDS BusinessEmailOutbox

CONSTANTS good, bad, MaxShift

(* 1 << min(attempt - 1, 6), with 6 for MaxShift. *)
Doubling == [attempt \in 1..(MaxShift + 1) |-> 2 ^ (attempt - 1)]
=============================================================================
