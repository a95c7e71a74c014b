--------------------------- MODULE SeatOccupancy ---------------------------
(* What the seat bookkeeping promises, without rows, cases or requests: a     *)
(* seat is empty, taken by one customer, or cooling down for the one who just *)
(* left it, and a seat is only handed out while it is empty.                  *)
CONSTANTS Seats, Customers, Nobody

VARIABLES occupant,  \* who sits on the seat
          cooling    \* whose departure keeps the seat empty
vars == <<occupant, cooling>>

Empty(t) == occupant[t] = Nobody /\ cooling[t] = Nobody
Seated(c) == \E t \in Seats : occupant[t] = c \/ cooling[t] = c

Init ==
  /\ occupant = [t \in Seats |-> Nobody]
  /\ cooling = [t \in Seats |-> Nobody]

Board(c, t) ==
  /\ Empty(t) /\ ~Seated(c)
  /\ occupant' = [occupant EXCEPT ![t] = c]
  /\ UNCHANGED cooling

Move(u, t) ==
  /\ occupant[u] # Nobody /\ Empty(t)
  /\ occupant' = [occupant EXCEPT ![u] = Nobody, ![t] = occupant[u]]
  /\ UNCHANGED cooling

(* Customers leave together; some of their seats start to cool down, and other *)
(* seats are released.  Nothing but a departure starts a cool-down.            *)
Leave(gone, kept, released) ==
  /\ occupant' = [t \in Seats |-> IF t \in gone THEN Nobody ELSE occupant[t]]
  /\ cooling' = [t \in Seats |-> IF t \in kept THEN occupant[t]
                                 ELSE IF t \in released THEN Nobody
                                 ELSE cooling[t]]

Next ==
  \/ \E c \in Customers, t \in Seats : Board(c, t)
  \/ \E u, t \in Seats : Move(u, t)
  \/ \E gone \in SUBSET {t \in Seats : occupant[t] # Nobody} :
       \E kept \in SUBSET gone :
         \E released \in SUBSET {t \in Seats : cooling[t] # Nobody} :
           Leave(gone, kept, released)

Spec == Init /\ [][Next]_vars
=============================================================================
