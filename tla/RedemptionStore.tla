--------------------------- MODULE RedemptionStore ---------------------------
(***************************************************************************)
(* The server's side of redemption codes: the rows of redemption_codes and *)
(* redemption_applications and the seats an invitation may take, with the  *)
(* transactions of the store that change them.  RedeemPage and             *)
(* RedemptionsPage add the two web pages that call them.                   *)
(***************************************************************************)
EXTENDS Integers, FiniteSets

CONSTANTS Codes, Seats,
          Nothing,        \* no code, no seat
          MaxApps         \* bound: applications ever made

Apps == 1 .. MaxApps
NoApp == 0
AnySeat == Nothing        \* the operator leaves the choice of the seat to the server

ASSUME StoreAssumption ==
    /\ MaxApps \in Nat \ {0}
    /\ Nothing \notin Codes \cup Seats

VARIABLES
    code,      \* the rows of redemption_codes
    app,       \* the rows of redemption_applications; the id stands for the token
    sold       \* seats in use, by an invitation or by what other pages do

storeVars == <<code, app, sold>>

CodeStatuses == {"absent", "unused", "disabled", "used"}
AppStatuses == {"none", "pending", "invited", "rejected", "deleted"}
Free == [status |-> "absent", app |-> NoApp]
Deleted == [status |-> "deleted", code |-> Nothing, seat |-> Nothing]
Decided == {"invited", "rejected"}

StoreTypeOK ==
    /\ code \in [Codes -> [status : CodeStatuses, app : Apps \cup {NoApp}]]
    /\ app \in [Apps -> [status : AppStatuses, code : Codes \cup {Nothing},
                         seat : Seats \cup {Nothing}]]
    /\ sold \subseteq Seats

-----------------------------------------------------------------------------
FreeSeats == Seats \ sold

FreshIds == {a \in Apps : app[a].status = "none"}
NextId == CHOOSE a \in FreshIds : \A b \in FreshIds : a <= b

RedeemableTwice(c) == code[c].status \in {"unused", "used"}     \* mutant

\* An application takes its code only while the code is unused.
Redeemable(c) == code[c].status = "unused"

StoreApplication(c) ==
    /\ FreshIds # {}
    /\ app' = [app EXCEPT ![NextId] = [status |-> "pending", code |-> c, seat |-> Nothing]]
    /\ code' = [code EXCEPT ![c] = [status |-> "used", app |-> NextId]]
    /\ UNCHANGED sold

ProcessableAgain(a) == app[a].status # "none"       \* mutant

Processable(a) == app[a].status = "pending"

\* The seat of an invitation: the one asked for while it is free, or any free one.
SeatsFor(seat) == IF seat = AnySeat THEN FreeSeats ELSE FreeSeats \cap {seat}

InviteApplication(a, seat) ==
    /\ app' = [app EXCEPT ![a].status = "invited", ![a].seat = seat]
    /\ sold' = sold \cup {seat}
    /\ UNCHANGED code

Holders(a) == {c \in Codes : code[c].app = a /\ code[c].status = "used"}

\* The code of a rejected application may be redeemed again.
RejectApplication(a) ==
    /\ app' = [app EXCEPT ![a].status = "rejected", ![a].seat = Nothing]
    /\ code' = [c \in Codes |-> IF c \in Holders(a) THEN [status |-> "unused", app |-> NoApp]
                                ELSE code[c]]
    /\ UNCHANGED sold

\* A Team registration entered by mistake is deleted: the application it was made for
\* waits again, and the seat the customer has by now is free.
ReturnApplication(a, seat) ==
    /\ app' = [app EXCEPT ![a].status = "pending", ![a].seat = Nothing]
    /\ sold' = sold \ {seat}
    /\ UNCHANGED code

\* The customer's subscription is archived: the application is deleted with its code,
\* and the seat cools down.
EraseApplication(a) ==
    /\ app' = [app EXCEPT ![a] = Deleted]
    /\ code' = [c \in Codes |-> IF c \in Holders(a) THEN Free ELSE code[c]]
    /\ UNCHANGED sold

Withdrawable(a) == app[a].status = "invited"

Switchable(c) == code[c].status \in {"unused", "disabled"}

SetCodeStatus(c, status) ==
    /\ code' = [code EXCEPT ![c] = [status |-> status, app |-> NoApp]]
    /\ UNCHANGED <<app, sold>>

StoreInit ==
    /\ code = [c \in Codes |-> [status |-> "unused", app |-> NoApp]]
    /\ app = [a \in Apps |-> [status |-> "none", code |-> Nothing, seat |-> Nothing]]
    /\ sold = {}

-----------------------------------------------------------------------------
(* A code serves one application at a time: it is used exactly while an    *)
(* application that is pending or invited holds it, whoever else has submitted  *)
(* it, resubmitted it after a lost answer, disabled or deleted it.         *)
OneApplicationPerCode ==
    /\ \A a, b \in Apps : (a # b /\ app[a].code = app[b].code) =>
            \E x \in {a, b} : app[x].status \in {"none", "rejected", "deleted"}
    /\ \A a \in Apps : app[a].status \in {"pending", "invited"} =>
            (app[a].code \in Codes /\ code[app[a].code] = [status |-> "used", app |-> a])
    /\ \A c \in Codes : code[c].status = "used" =>
            \E a \in Apps : app[a].status \in {"pending", "invited"} /\ app[a].code = c

(* What undoes an invitation: its registration deleted as a mistake, which *)
(* leaves the code with the application, or archived, which deletes both.  *)
InvitationUndone(a) ==
    \/ app'[a] = [app[a] EXCEPT !.status = "pending", !.seat = Nothing] /\ UNCHANGED code
    \/ app'[a] = Deleted /\ code' = [code EXCEPT ![app[a].code] = Free]

(* The operator decides once: the second click of an impatient operator,   *)
(* or one made on a list that is out of date, changes nothing.  A          *)
(* rejection stands, and an invitation stands with its seat and code until *)
(* its registration is deleted as a mistake or archived; an archived       *)
(* application never comes back.                                           *)
DecisionStep ==
    \A a \in Apps :
        /\ app[a].status \in {"rejected", "deleted"} => app'[a] = app[a]
        /\ app[a].status = "invited" => (app'[a] = app[a] \/ InvitationUndone(a))
DecisionIsFinal == [][DecisionStep]_storeVars

=============================================================================
