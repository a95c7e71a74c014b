------------------------- MODULE SubscriptionsPage -------------------------
(***************************************************************************)
(* The cards of the Team subscriptions (CardsPage.tsx) and the dialogs     *)
(* they open: edit, record a renewal, defer it, send a reminder, end the   *)
(* subscription, delete a mistaken one.  A dialog keeps what the card said *)
(* when it was opened; the list is read again underneath it, other pages   *)
(* change the subscription, and days go by until the call arrives.         *)
(*                                                                         *)
(* One card is followed.  Of its fields the customer's contact and the     *)
(* price are kept; period p starts on day p * Month, and the one that was  *)
(* paid when the customer came is not counted.                             *)
(***************************************************************************)
EXTENDS Integers, FiniteSets

CONSTANTS Contacts,     \* contacts that are entered
          NoContact,    \* none is known
          Prices,       \* prices that are entered
          Month,        \* days from one due date to the next
          MaxPeriods,   \* bound: periods that may be paid
          MaxCalls,     \* bound: calls in flight
          MaxVersion,   \* bound: writes to the subscription
          LastDay       \* bound: the last day

VARIABLES
    server,     \* the subscription and the day
    shown,      \* the card, as the page last read it
    desk,       \* the dialog that is open, with what it was opened with
    calls,      \* the mutations that are not answered yet
    changes     \* counts what other pages have done

vars == <<server, shown, desk, calls, changes>>

Periods == 1 .. MaxPeriods
None == 0
MaxElsewhere == 2     \* bound: what other pages do

-----------------------------------------------------------------------------
(* The server.                                                             *)

\* A paid period may lie beyond one that is not: the gap is due first.
FirstUnpaid(r) == CHOOSE p \in 1 .. MaxPeriods + 1 : p \notin r.paid /\ \A k \in 1 .. p - 1 : k \in r.paid
Due(r) == FirstUnpaid(r) * Month
Ended(r) == Due(r) <= server.day

View ==
    LET r == server.row
    IN  [state |-> r.state, contact |-> r.contact, price |-> r.price, due |-> Due(r), ended |-> Ended(r),
         deferred |-> r.deferred # None, version |-> r.version]

Settled(q, state) == calls' = (calls \ {q}) \cup {[q EXCEPT !.state = state]}
Refuse(q) == calls' = calls \ {q} /\ UNCHANGED server

\* Every write to the row gives it a new version.
Write(r) ==
    /\ server.row.version < MaxVersion
    /\ server' = [server EXCEPT !.row = [r EXCEPT !.version = @ + 1]]
Active == server.row.state = "active"

Takes(q, kind) == q.kind = kind /\ q.state = "sent" /\ UNCHANGED <<shown, desk, changes>>

\* A form is taken only for the version it was opened with.
AsOpened(q) == q.version = server.row.version

UpdateSubscription(q) ==
    /\ Takes(q, "edit")
    /\ IF Active /\ AsOpened(q)
       THEN Write([server.row EXCEPT !.contact = q.contact, !.price = q.price]) /\ Settled(q, "done")
       ELSE Refuse(q)

\* A change of the ledger ends a deferral.
StillDeferred(r) == r                       \* mutant
FollowedUp(r) == [r EXCEPT !.deferred = None]

\* A period that is paid already is not billed again.
SetDuePaid(q) ==
    /\ Takes(q, "renew")
    /\ IF Active
       THEN /\ Settled(q, "done")
            /\ IF q.period \in server.row.paid THEN UNCHANGED server
               ELSE Write(FollowedUp([server.row EXCEPT !.paid = @ \cup {q.period}]))
       ELSE Refuse(q)

\* Only a due date that was seen, that is still the first unpaid one and has come.
DeferRenewal(q) ==
    LET r == server.row
    IN  /\ Takes(q, "defer")
        /\ IF Active /\ r.deferred = None /\ q.version = r.version /\ q.due = Due(r) /\ Ended(r)
           THEN Write([r EXCEPT !.deferred = Due(r)]) /\ Settled(q, "done")
           ELSE Refuse(q)

\* What ends after its paid time is archived, what ends before is a case.
RequestCancellation(q) ==
    /\ Takes(q, "archive")
    /\ CASE ~Active \/ server.row.deferred # None -> Refuse(q)
         [] Active /\ server.row.deferred = None /\ Ended(server.row) ->
                Write([server.row EXCEPT !.state = "archived"]) /\ Settled(q, "done")
         [] OTHER -> Write([server.row EXCEPT !.state = "cancelling"]) /\ Settled(q, "queued")

DeleteMistaken(q) ==
    /\ Takes(q, "delete")
    /\ IF Active THEN Write([server.row EXCEPT !.state = "gone"]) /\ Settled(q, "done") ELSE Refuse(q)

\* The mail is written anew, from what the subscription says by now.
SendCustomerEmail(q) ==
    LET r == server.row
    IN  /\ Takes(q, "reminder")
        /\ IF r.state \in {"active", "archived"} /\ r.deferred = None /\ r.contact # NoContact
           THEN Settled(q, "done") /\ UNCHANGED server
           ELSE Refuse(q)

-----------------------------------------------------------------------------
(* The page.                                                               *)

Closed == [dialog |-> "none", contact |-> NoContact, price |-> None, due |-> None, version |-> None,
           offered |-> {}, period |-> None]
Pending(kind) == \E q \in calls : q.kind = kind
StaysOnPage == UNCHANGED <<server, shown, calls, changes>>

Open(dialog, opened) ==
    /\ desk.dialog = "none"
    /\ desk' = [opened EXCEPT !.dialog = dialog]
    /\ StaysOnPage

Offered == shown.state = "active"

OpenEdit ==
    /\ shown.state \in {"active", "archived"}
    /\ Open("edit", [Closed EXCEPT !.contact = shown.contact, !.price = shown.price, !.version = shown.version])
EditContact == \E c \in Contacts : desk.dialog = "edit" /\ desk' = [desk EXCEPT !.contact = c] /\ StaysOnPage
EditPrice == \E p \in Prices : desk.dialog = "edit" /\ desk' = [desk EXCEPT !.price = p] /\ StaysOnPage

OpenRenew == Offered /\ Open("renew", [Closed EXCEPT !.due = shown.due])

\* The periods to choose from are read when the dialog opens and on focus; the one
\* that is due is offered unless another was picked.
PeriodsArrive ==
    /\ desk.dialog = "renew"
    /\ desk' = [desk EXCEPT !.offered = Periods \ server.row.paid]
    /\ StaysOnPage
Preferred == IF \E p \in desk.offered : p * Month = desk.due THEN CHOOSE p \in desk.offered : p * Month = desk.due
             ELSE IF desk.offered = {} THEN None ELSE CHOOSE p \in desk.offered : \A k \in desk.offered : p <= k
Chosen == IF desk.period = None THEN Preferred ELSE desk.period
PickPeriod ==
    \E p \in desk.offered : desk.dialog = "renew" /\ desk' = [desk EXCEPT !.period = p] /\ StaysOnPage

OpenDefer ==
    /\ Offered /\ ~shown.deferred /\ shown.ended
    /\ Open("defer", [Closed EXCEPT !.due = shown.due, !.version = shown.version])
OpenArchive == Offered /\ ~shown.deferred /\ Open("archive", Closed)
OpenDelete == Offered /\ Open("delete", Closed)
OpenReminder == Offered /\ ~shown.deferred /\ shown.contact # NoContact /\ Open("reminder", Closed)

\* Only the question of a deferral waits for its answer.
CloseDialog ==
    /\ desk.dialog # "none"
    /\ desk.dialog = "defer" => ~Pending("defer")
    /\ desk' = Closed
    /\ StaysOnPage

Payable == Chosen \in desk.offered

\* What a dialog sends is what it was opened with, and what was entered in it.
Confirm ==
    /\ desk.dialog \in {"edit", "renew", "defer", "archive", "delete", "reminder"}
    /\ desk.dialog = "renew" => Payable
    /\ ~Pending(desk.dialog)
    /\ Cardinality(calls) < MaxCalls
    /\ calls' = calls \cup {[kind |-> desk.dialog, contact |-> desk.contact, price |-> desk.price, due |-> desk.due,
                             period |-> Chosen, version |-> desk.version, state |-> "sent"]}
    /\ UNCHANGED <<server, shown, desk, changes>>

\* Also at the end of a cancellation's time of grace.
Refetch ==
    /\ shown' = View
    /\ UNCHANGED <<server, desk, calls, changes>>

\* Success closes the dialog of its kind, also one that was opened meanwhile; a case
\* is announced whatever is open.
CallAnswered(q) ==
    /\ q.state \in {"done", "queued"}
    /\ calls' = calls \ {q}
    /\ desk' = CASE q.state = "queued" -> [Closed EXCEPT !.dialog = "queued"]
                 [] q.state = "done" /\ desk.dialog = q.kind -> Closed
                 [] OTHER -> desk
    /\ UNCHANGED <<server, shown, changes>>

CallFails(q) ==
    /\ calls' = calls \ {q}
    /\ UNCHANGED <<server, shown, desk, changes>>

-----------------------------------------------------------------------------
(* Other pages, and the passing of time.                                   *)

Elsewhere(r) ==
    /\ changes < MaxElsewhere
    /\ changes' = changes + 1
    /\ Write(r)
    /\ UNCHANGED <<shown, desk, calls>>

EditedElsewhere ==
    \E c \in Contacts, p \in Prices :
        Active /\ Elsewhere([server.row EXCEPT !.contact = c, !.price = p])
PaidElsewhere == \E p \in Periods \ server.row.paid :
    Active /\ Elsewhere(FollowedUp([server.row EXCEPT !.paid = @ \cup {p}]))
BillRemoved == \E p \in server.row.paid : Elsewhere(FollowedUp([server.row EXCEPT !.paid = @ \ {p}]))
DeferralEnds == server.row.deferred # None /\ Elsewhere(FollowedUp(server.row))
CaseSettled == server.row.state = "cancelling" /\ Elsewhere([server.row EXCEPT !.state = "archived"])
CancellationExpires == server.row.state = "cancelling" /\ Elsewhere([server.row EXCEPT !.state = "active"])

DayPasses ==
    /\ server.day < LastDay
    /\ server' = [server EXCEPT !.day = @ + 1]
    /\ UNCHANGED <<shown, desk, calls, changes>>

-----------------------------------------------------------------------------
Init ==
    /\ \E c \in Contacts \cup {NoContact}, p \in Prices :
        server = [row |-> [state |-> "active", contact |-> c, price |-> p, paid |-> {}, deferred |-> None, version |-> 1],
                  day |-> 1]
    /\ shown = View
    /\ desk = Closed
    /\ calls = {}
    /\ changes = 0

Operator ==
    \/ OpenEdit \/ EditContact \/ EditPrice \/ OpenRenew \/ PeriodsArrive \/ PickPeriod
    \/ OpenDefer \/ OpenArchive \/ OpenDelete \/ OpenReminder
    \/ CloseDialog \/ Confirm \/ Refetch

Server ==
    \E q \in calls :
        \/ UpdateSubscription(q) \/ SetDuePaid(q) \/ DeferRenewal(q) \/ RequestCancellation(q)
        \/ DeleteMistaken(q) \/ SendCustomerEmail(q)
        \/ CallAnswered(q) \/ CallFails(q)

OtherPages ==
    \/ EditedElsewhere \/ PaidElsewhere \/ BillRemoved \/ DeferralEnds \/ CaseSettled \/ CancellationExpires
    \/ DayPasses

Next == Operator \/ Server \/ OtherPages

Spec == Init /\ [][Next]_vars

-----------------------------------------------------------------------------
TypeOK ==
    /\ server.row \in [state : {"active", "cancelling", "archived", "gone"}, contact : Contacts \cup {NoContact},
                       price : Prices, paid : SUBSET Periods, deferred : 0 .. (MaxPeriods + 1) * Month,
                       version : 1 .. MaxVersion]
    /\ server.day \in 1 .. LastDay
    /\ desk.dialog \in {"none", "edit", "renew", "defer", "archive", "delete", "reminder", "queued"}
    /\ desk.offered \subseteq Periods /\ desk.period \in Periods \cup {None}
    /\ \A q \in calls : q.kind \in {"edit", "renew", "defer", "archive", "delete", "reminder"}
                        /\ q.state \in {"sent", "done", "queued"}
                        /\ q.kind = "renew" => q.period \in Periods

(* A customer who is put aside is put aside for the date that is due:       *)
(* recording a payment or taking one back, on any page, ends the deferral   *)
(* rather than leave it at a date the ledger has moved away from.           *)
DeferredAtFirstUnpaid == server.row.deferred # None => server.row.deferred = Due(server.row)

=============================================================================
