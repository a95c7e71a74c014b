--------------------------- MODULE AfterSalesPage ---------------------------
(***************************************************************************)
(* The cases of customers who must be refunded or moved to another seat    *)
(* (AfterSalesPage.tsx), over what the server does with them               *)
(* (db/after_sales.go, db/cancellation.go).  A dialog acts on the case as  *)
(* it was listed when the dialog was opened; meanwhile other tabs settle   *)
(* it, its cancellation expires, the seat that was chosen is given away.   *)
(*                                                                         *)
(* Every customer comes from a seat of the banned account, Home here; the  *)
(* Seats are those of other accounts.  Customers with prepaid periods have *)
(* no case, and the cases followed here are of different bills.            *)
(***************************************************************************)
EXTENDS Integers, FiniteSets

CONSTANTS Cases,          \* the cases, each of a customer of its own
          Seats,          \* seats of other accounts
          Home,           \* the seat the customer comes from
          Paid,           \* what a customer has paid
          MaxCalls,       \* bound: calls in flight
          MaxChanges      \* bound: what other pages do

VARIABLES
    server,     \* the cases, the seats nobody else holds, whether the banned account is paused
    shown,      \* the cases and the free seats, as they were last read
    desk,       \* the dialog, with the case as it was opened with
    calls,      \* the mutations that are not answered yet
    changes     \* counts what other pages have done

vars == <<server, shown, desk, calls, changes>>

Unsettled == {"pending", "review"}
Completed == {"refunded", "reassigned"}
Amounts == 0 .. Paid + 1
None == -1                \* no amount

-----------------------------------------------------------------------------
(* The server.                                                             *)

Case(c) == server.case[c]
OpenStatus(r) == IF r.billed THEN "pending" ELSE "review"
Aboard(c, t) == Case(c).row = "aboard" /\ Case(c).seat = t
FreeSeats == {t \in server.seats : \A c \in Cases : ~Aboard(c, t)}
View(c) == [source |-> Case(c).source, status |-> Case(c).status, amount |-> Case(c).amount]

Settled(q) == calls' = (calls \ {q}) \cup {[q EXCEPT !.state = "done"]}
Refuse(q) == calls' = calls \ {q} /\ UNCHANGED server
Write(c, r) == server' = [server EXCEPT !.case[c] = r]
Takes(q, kind) == q.kind = kind /\ q.state = "sent" /\ UNCHANGED <<shown, desk, changes>>

EditableAnytime(r, amount) == r.billed => amount <= Paid          \* mutant

\* An amount is changed while the case is open; a receipt bounds it.
Editable(r, amount) == r.status \in Unsettled /\ (r.billed => amount <= Paid)

UpdateAfterSalesCase(q) ==
    /\ Takes(q, "edit")
    /\ IF Editable(Case(q.case), q.amount)
       THEN Write(q.case, [Case(q.case) EXCEPT !.amount = q.amount]) /\ Settled(q)
       ELSE Refuse(q)

\* The subscription ends with its refund.
Refundable(r) == r.status \in Unsettled /\ r.row = "aboard" /\ (r.billed => r.amount <= Paid)
SetRefunded(q) ==
    /\ Takes(q, "refund")
    /\ IF Refundable(Case(q.case))
       THEN Write(q.case, [Case(q.case) EXCEPT !.status = "refunded", !.row = "archived"]) /\ Settled(q)
       ELSE Refuse(q)

\* The refund of a ban is taken back while the customer's seat can be taken again.
Undoable(c) ==
    /\ Case(c).source = "account_ban" /\ Case(c).status = "refunded"
    /\ Case(c).row = "archived" /\ ~server.paused
UndoRefunded(q) ==
    /\ Takes(q, "undo")
    /\ IF Undoable(q.case)
       THEN Write(q.case, [Case(q.case) EXCEPT !.status = OpenStatus(Case(q.case)), !.row = "aboard"]) /\ Settled(q)
       ELSE Refuse(q)

Reassignable(c, t) ==
    /\ Case(c).source = "account_ban" /\ Case(c).status \in Unsettled
    /\ Case(c).row = "aboard" /\ t \in FreeSeats
ReassignAfterSalesCase(q) ==
    /\ Takes(q, "reassign")
    /\ IF Reassignable(q.case, q.seat)
       THEN Write(q.case, [Case(q.case) EXCEPT !.status = "reassigned", !.seat = q.seat]) /\ Settled(q)
       ELSE Refuse(q)

-----------------------------------------------------------------------------
(* The page.                                                               *)

Closed(case) == [dialog |-> "none", case |-> case, amount |-> None, seat |-> Home]
Leave == desk' = [desk EXCEPT !.dialog = "none", !.amount = None, !.seat = Home]
Listed(c) == shown.case[c].status # "gone"
Final(c) ==
    \/ shown.case[c].status = "reassigned"
    \/ shown.case[c].source = "customer_cancellation" /\ shown.case[c].status = "refunded"
StaysOnPage == UNCHANGED <<server, shown, calls, changes>>

Open(dialog, c, amount) ==
    /\ desk.dialog = "none" /\ Listed(c)
    /\ desk' = [dialog |-> dialog, case |-> c, amount |-> amount, seat |-> Home]
    /\ StaysOnPage

\* Editing is offered for a refunded ban too; the server refuses it.
OpenEdit(c) == ~Final(c) /\ Open("edit", c, shown.case[c].amount)
OpenReassign(c) ==
    shown.case[c].source = "account_ban" /\ shown.case[c].status \in Unsettled /\ Open("reassign", c, None)

\* What is asked depends on the status that was listed.
OpenToggle(c) ==
    ~Final(c) /\ Open(IF shown.case[c].status = "refunded" THEN "undo" ELSE "refund", c, None)

TypeAmount == \E y \in Amounts : desk.dialog = "edit" /\ desk' = [desk EXCEPT !.amount = y] /\ StaysOnPage

\* The seats are fetched for the dialog; a choice stays when its seat is gone from them.
OptionsArrive ==
    /\ desk.dialog = "reassign"
    /\ shown' = [shown EXCEPT !.seats = FreeSeats]
    /\ UNCHANGED <<server, desk, calls, changes>>
ChooseSeat == \E t \in shown.seats : desk.dialog = "reassign" /\ desk' = [desk EXCEPT !.seat = t] /\ StaysOnPage

Toggles == {"refund", "undo"}
\* The toggle's button belongs to the page, the other two to their dialogs.
Pending(kind) == \E q \in calls : IF kind \in Toggles THEN q.kind \in Toggles ELSE q.kind = kind /\ q.held

Confirm ==
    /\ desk.dialog # "none" /\ ~Pending(desk.dialog)
    /\ desk.dialog = "reassign" => desk.seat # Home
    /\ Cardinality(calls) < MaxCalls
    /\ calls' = calls \cup {[kind |-> desk.dialog, case |-> desk.case, amount |-> desk.amount, seat |-> desk.seat,
                             held |-> desk.dialog \notin Toggles, state |-> "sent"]}
    /\ UNCHANGED <<server, shown, desk, changes>>

\* Escape always leaves.  A dialog that is opened again starts with a free button.
CloseDialog ==
    /\ desk.dialog # "none"
    /\ Leave
    /\ calls' = {[q EXCEPT !.held = FALSE] : q \in calls}
    /\ UNCHANGED <<server, shown, changes>>

\* Success closes the dialog of its kind, also one that was opened meanwhile.
Closes(q) == desk.dialog = q.kind \/ (q.kind \in Toggles /\ desk.dialog \in Toggles)
CallAnswered(q) ==
    /\ q.state = "done"
    /\ IF Closes(q) THEN Leave ELSE UNCHANGED desk
    /\ calls' = {[r EXCEPT !.held = @ /\ ~Closes(q)] : r \in calls \ {q}}
    /\ UNCHANGED <<server, shown, changes>>

CallFails(q) ==
    /\ calls' = calls \ {q}
    /\ UNCHANGED <<server, shown, desk, changes>>

\* A settled case leaves the list a day later.
Refetch ==
    /\ \E old \in SUBSET {c \in Cases : Case(c).status \in Completed} :
           shown' = [shown EXCEPT !.case = [c \in Cases |->
                        IF c \in old THEN [View(c) EXCEPT !.status = "gone"] ELSE View(c)]]
    /\ UNCHANGED <<server, desk, calls, changes>>

-----------------------------------------------------------------------------
(* Other tabs and pages.                                                   *)

Elsewhere ==
    /\ changes < MaxChanges
    /\ changes' = changes + 1
    /\ UNCHANGED <<shown, desk, calls>>

EditedElsewhere(c) ==
    \E y \in Amounts : Editable(Case(c), y) /\ Elsewhere /\ Write(c, [Case(c) EXCEPT !.amount = y])
RefundedElsewhere(c) ==
    Refundable(Case(c)) /\ Elsewhere /\ Write(c, [Case(c) EXCEPT !.status = "refunded", !.row = "archived"])
UndoneElsewhere(c) ==
    Undoable(c) /\ Elsewhere /\ Write(c, [Case(c) EXCEPT !.status = OpenStatus(Case(c)), !.row = "aboard"])
ReassignedElsewhere(c) ==
    \E t \in Seats : Reassignable(c, t) /\ Elsewhere
                     /\ Write(c, [Case(c) EXCEPT !.status = "reassigned", !.seat = t])

\* After its time of grace a cancellation that was not refunded never was.
CancellationExpires(c) ==
    /\ Case(c).source = "customer_cancellation" /\ Case(c).status \in Unsettled
    /\ Elsewhere
    /\ Write(c, [Case(c) EXCEPT !.status = "gone"])

\* A customer who was moved leaves, with or without a cool-down of the seat.
CustomerLeaves(c) ==
    /\ Case(c).status = "reassigned" /\ Case(c).row = "aboard"
    /\ Elsewhere
    /\ \E kept \in {server.seats, server.seats \ {Case(c).seat}} :
           server' = [server EXCEPT !.case[c].row = "archived", !.seats = kept]
RowDeleted(c) ==
    Case(c).row = "archived" /\ Elsewhere /\ Write(c, [Case(c) EXCEPT !.row = "deleted"])

\* Another customer boards or leaves, an account is banned, paused or resumed.
SeatTaken == \E t \in FreeSeats : Elsewhere /\ server' = [server EXCEPT !.seats = @ \ {t}]
SeatFreed == \E t \in Seats \ server.seats : Elsewhere /\ server' = [server EXCEPT !.seats = @ \cup {t}]
SetPaused == Elsewhere /\ server' = [server EXCEPT !.paused = ~@]

-----------------------------------------------------------------------------
Init ==
    /\ \E source \in [Cases -> {"account_ban", "customer_cancellation"}], billed \in [Cases -> BOOLEAN],
          seats \in SUBSET Seats :
           server = [case |-> [c \in Cases |->
                        [source |-> source[c], billed |-> billed[c],
                         status |-> OpenStatus([billed |-> billed[c]]),
                         amount |-> IF billed[c] THEN Paid ELSE 0, seat |-> Home, row |-> "aboard"]],
                     seats |-> seats, paused |-> FALSE]
    /\ shown = [case |-> [c \in Cases |-> View(c)], seats |-> {}]
    /\ \E c \in Cases : desk = Closed(c)
    /\ calls = {}
    /\ changes = 0

Operator ==
    \/ \E c \in Cases : OpenEdit(c) \/ OpenReassign(c) \/ OpenToggle(c)
    \/ TypeAmount \/ OptionsArrive \/ ChooseSeat \/ Confirm \/ CloseDialog \/ Refetch

Server ==
    \E q \in calls :
        \/ UpdateAfterSalesCase(q) \/ SetRefunded(q) \/ UndoRefunded(q) \/ ReassignAfterSalesCase(q)
        \/ CallAnswered(q) \/ CallFails(q)

OtherPages ==
    \/ \E c \in Cases :
           \/ EditedElsewhere(c) \/ RefundedElsewhere(c) \/ UndoneElsewhere(c) \/ ReassignedElsewhere(c)
           \/ CancellationExpires(c) \/ CustomerLeaves(c) \/ RowDeleted(c)
    \/ SeatTaken \/ SeatFreed \/ SetPaused

Next == Operator \/ Server \/ OtherPages

Spec == Init /\ [][Next]_vars

-----------------------------------------------------------------------------
TypeOK ==
    /\ \A c \in Cases :
           /\ Case(c).source \in {"account_ban", "customer_cancellation"} /\ Case(c).billed \in BOOLEAN
           /\ Case(c).status \in Unsettled \cup Completed \cup {"gone"} /\ Case(c).amount \in Amounts
           /\ Case(c).seat \in Seats \cup {Home} /\ Case(c).row \in {"aboard", "archived", "deleted"}
    /\ server.seats \subseteq Seats /\ shown.seats \subseteq Seats /\ server.paused \in BOOLEAN
    /\ desk.dialog \in {"none", "edit", "reassign"} \cup Toggles
    /\ \A q \in calls : q.kind \in {"edit", "reassign"} \cup Toggles /\ q.case \in Cases

(* What was settled stands: a refunded amount is never altered, whatever   *)
(* old form or question is confirmed; only the refund of a ban is undone,  *)
(* and then the customer is back aboard; and who was moved to another seat *)
(* is never refunded on top of it.                                         *)
RefundStep ==
    \A c \in Cases :
        LET before == server.case[c]
            after == server'.case[c]
        IN  /\ before.status \in Completed /\ after.status = before.status => after.amount = before.amount
            /\ before.status = "reassigned" => after.status = "reassigned"
            /\ before.status = "refunded" /\ after.status # "refunded" =>
                   before.source = "account_ban" /\ after.status \in Unsettled /\ after.row = "aboard"
RefundsStandAsPaid == [][RefundStep]_vars

=============================================================================
