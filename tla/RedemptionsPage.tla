--------------------------- MODULE RedemptionsPage ---------------------------
(***************************************************************************)
(* The operator's page for redemption codes (RedemptionsPage.tsx): the     *)
(* list of applications, shown one a page under a list that is polled, the *)
(* form with which an application is invited or rejected, and the manager  *)
(* of codes.                                                               *)
(*                                                                         *)
(* A query is refreshed in one step, at the moment the server reads its    *)
(* rows; an invitation or a rejection is sent, carried out and answered in *)
(* separate steps.  Customers (RedeemPage) only submit codes here.         *)
(***************************************************************************)
EXTENDS RedemptionStore

CONSTANT MaxCalls         \* bound: calls in flight

CallsAssumption == MaxCalls \in Nat \ {0}

VARIABLES
    desk,      \* the page: its queries, the card on screen with its form
    calls      \* its mutations that are not answered yet

vars == <<code, app, sold, desk, calls>>

-----------------------------------------------------------------------------
(* The operator's page: one application a page, the newest pending first,  *)
(* or the application a link points at.                                    *)

\* priced: the application for which the price on the form was typed.
EmptyPanel(a) == [app |-> a, seat |-> AnySeat, priced |-> NoApp, rejecting |-> FALSE, busy |-> FALSE]

Listed(list) == {a \in Apps : list[a] = "pending"}

\* The place of an application in the list: the target first, then the newest.
Place(a, d) ==
    1 + Cardinality({b \in Listed(d.list) \ {a} : a # d.target /\ (b > a \/ b = d.target)})

\* The application on the card: none on the other tab or when the list is empty.
Card(d) ==
    LET count == Cardinality(Listed(d.list))
        safe  == IF d.target # NoApp THEN 1 ELSE IF d.page > count THEN count ELSE d.page
    IN  IF d.section # "applications" \/ count = 0 THEN NoApp
        ELSE CHOOSE a \in Listed(d.list) : Place(a, d) = safe

\* Nobody waits for the answer of what a card that is gone had sent.
Orphaned == {[q EXCEPT !.owned = FALSE] : q \in {r \in calls : r.state = "sent"}}

PanelStays(d) ==            \* mutant
    IF Card(d) = NoApp THEN EmptyPanel(NoApp) ELSE [desk.panel EXCEPT !.app = Card(d)]

\* The card is keyed by the application: another card starts with an empty form, and
\* what the old one had sent is answered to nobody.
PanelOf(d) == IF Card(d) = desk.panel.app THEN desk.panel ELSE EmptyPanel(Card(d))

Show(d) ==
    /\ desk' = [d EXCEPT !.panel = PanelOf(d)]
    /\ calls' = IF Card(d) = desk.panel.app THEN calls ELSE Orphaned
    /\ UNCHANGED storeVars

RefreshList == Show([desk EXCEPT !.list = [a \in Apps |-> app[a].status]])

TurnPage ==
    \E p \in 1 .. MaxApps :
        /\ desk.section = "applications"
        /\ p <= Cardinality(Listed(desk.list))
        /\ Show([desk EXCEPT !.page = p, !.target = NoApp])

\* A link of the dashboard opens the page anew, at one application.
FollowLink ==
    \E a \in Apps :
        /\ app[a].status # "none"
        /\ LET opened == [desk EXCEPT !.section = "applications", !.page = 1, !.target = a,
                                      !.codes = [c \in Codes |-> "absent"], !.doomed = Nothing]
           IN  desk' = [opened EXCEPT !.panel = EmptyPanel(Card(opened))]
        /\ calls' = Orphaned
        /\ UNCHANGED storeVars

\* The free seats are read on arrival, on focus and after the operator's own mutations.
RefreshSeats ==
    /\ desk' = [desk EXCEPT !.seats = FreeSeats]
    /\ UNCHANGED <<storeVars, calls>>

\* The choice that counts: one that has gone from the list falls back to the server's.
Chosen == IF desk.panel.seat \in desk.seats THEN desk.panel.seat ELSE AnySeat

\* A seat is there, the price is valid and nothing is on its way.
Invitable == desk.panel.app # NoApp /\ desk.seats # {} /\ desk.panel.priced # NoApp /\ ~desk.panel.busy

EditPanel ==
    /\ desk.panel.app # NoApp
    /\ ~desk.panel.rejecting
    /\ \/ \E s \in desk.seats \cup {AnySeat} : desk' = [desk EXCEPT !.panel.seat = s]
       \/ desk' = [desk EXCEPT !.panel.priced = desk.panel.app]
    /\ UNCHANGED <<storeVars, calls>>

Send(kind, seat) ==
    /\ Cardinality(calls) < MaxCalls
    /\ calls' = calls \cup {[kind |-> kind, app |-> desk.panel.app, seat |-> seat,
                             priced |-> desk.panel.priced, owned |-> TRUE, state |-> "sent"]}
    /\ UNCHANGED storeVars

Invite ==
    /\ Invitable
    /\ ~desk.panel.rejecting
    /\ desk' = [desk EXCEPT !.panel.busy = TRUE]
    /\ Send("invite", Chosen)

AskReject ==
    /\ desk.panel.app # NoApp
    /\ ~desk.panel.busy
    /\ desk' = [desk EXCEPT !.panel.rejecting = ~desk.panel.rejecting]
    /\ UNCHANGED <<storeVars, calls>>

ConfirmReject ==
    /\ desk.panel.rejecting
    /\ ~desk.panel.busy
    /\ desk' = [desk EXCEPT !.panel.busy = TRUE]
    /\ Send("reject", Nothing)

-----------------------------------------------------------------------------
(* The manager of codes.                                                   *)

\* A tab is mounted when it is opened, and reads its codes.
Section(name) ==
    /\ desk.section # name
    /\ Show([desk EXCEPT !.section = name, !.doomed = Nothing,
                         !.codes = [c \in Codes |-> "absent"],
                         !.target = IF name = "codes" THEN NoApp ELSE @])

RefreshCodes ==
    /\ desk.section = "codes"
    /\ desk' = [desk EXCEPT !.codes = [c \in Codes |-> code[c].status]]
    /\ UNCHANGED <<storeVars, calls>>

\* A generated code is new to the server, which draws it.
GenerateCode(c) ==
    /\ desk.section = "codes"
    /\ code[c].status = "absent"
    /\ SetCodeStatus(c, "unused")
    /\ UNCHANGED <<desk, calls>>

\* The row offers what its last known status allows; the server looks at the row itself.
SwitchCode(c) ==
    /\ desk.section = "codes"
    /\ desk.codes[c] \in {"unused", "disabled"}
    /\ Switchable(c)
    /\ SetCodeStatus(c, IF desk.codes[c] = "unused" THEN "disabled" ELSE "unused")
    /\ UNCHANGED <<desk, calls>>

AskDeleteCode(c) ==
    /\ desk.section = "codes"
    /\ desk.doomed = Nothing
    /\ desk.codes[c] \in {"unused", "disabled"}
    /\ desk' = [desk EXCEPT !.doomed = c]
    /\ UNCHANGED <<storeVars, calls>>

DeleteCode ==
    /\ desk.doomed # Nothing
    /\ Switchable(desk.doomed)
    /\ SetCodeStatus(desk.doomed, "absent")
    /\ desk' = [desk EXCEPT !.doomed = Nothing]
    /\ UNCHANGED calls

\* Also what is left to do when the server refuses because the code was used meanwhile.
CancelDelete ==
    /\ desk.doomed # Nothing
    /\ desk' = [desk EXCEPT !.doomed = Nothing]
    /\ UNCHANGED <<storeVars, calls>>

-----------------------------------------------------------------------------
(* The operator's calls.                                                   *)

Answered(q, state) ==
    calls' = (calls \ {q}) \cup (IF q.owned THEN {[q EXCEPT !.state = state]} ELSE {})

ServerInvites(q) ==
    /\ q.kind = "invite" /\ q.state = "sent"
    /\ \/ /\ Processable(q.app)
          /\ \E s \in SeatsFor(q.seat) : InviteApplication(q.app, s)
          /\ Answered(q, "done")
       \/ /\ ~Processable(q.app) \/ SeatsFor(q.seat) = {}
          /\ Answered(q, "refused")
          /\ UNCHANGED storeVars
    /\ UNCHANGED desk

ServerRejects(q) ==
    /\ q.kind = "reject" /\ q.state = "sent"
    /\ \/ /\ Processable(q.app)
          /\ Holders(q.app) # {}
          /\ RejectApplication(q.app)
          /\ Answered(q, "done")
       \/ /\ ~Processable(q.app) \/ Holders(q.app) = {}
          /\ Answered(q, "refused")
          /\ UNCHANGED storeVars
    /\ UNCHANGED desk

\* The network fails on the way to the server or back.
CallFails(q) ==
    /\ q.state \in {"sent", "done"}
    /\ Answered(q, "refused")
    /\ UNCHANGED <<storeVars, desk>>

\* The answer frees the buttons of the card that asked, if that card is still there;
\* a rejection that was carried out closes its dialog.
CallAnswered(q) ==
    /\ q.state \in {"done", "refused"}
    /\ calls' = calls \ {q}
    /\ desk' = [desk EXCEPT !.panel.busy = FALSE,
                            !.panel.rejecting = @ /\ ~(q.kind = "reject" /\ q.state = "done")]
    /\ UNCHANGED storeVars

-----------------------------------------------------------------------------
(* What other pages do.                                                    *)

CustomerSubmits(c) ==
    /\ Redeemable(c)
    /\ StoreApplication(c)
    /\ UNCHANGED <<desk, calls>>

\* On the customers' page a registration is deleted as a mistake, or archived.
InvitationTakenBack(a) ==
    /\ Withdrawable(a)
    /\ \/ \E s \in sold \cup {Nothing} : ReturnApplication(a, s)
       \/ EraseApplication(a)
    /\ UNCHANGED <<desk, calls>>

\* A seat is sold or given back (SeatLifecycle has the rules).
SeatChanges(s) ==
    /\ sold' = IF s \in sold THEN sold \ {s} ELSE sold \cup {s}
    /\ UNCHANGED <<code, app, desk, calls>>

-----------------------------------------------------------------------------
Init ==
    /\ StoreInit
    /\ desk = [section |-> "applications", list |-> [a \in Apps |-> "none"], seats |-> {},
               codes |-> [c \in Codes |-> "absent"], page |-> 1, target |-> NoApp,
               panel |-> EmptyPanel(NoApp), doomed |-> Nothing]
    /\ calls = {}

Operator ==
    \/ RefreshList \/ TurnPage \/ FollowLink \/ RefreshSeats \/ EditPanel
    \/ Invite \/ AskReject \/ ConfirmReject
    \/ \E name \in {"applications", "codes"} : Section(name)
    \/ RefreshCodes
    \/ \E c \in Codes : GenerateCode(c) \/ SwitchCode(c) \/ AskDeleteCode(c)
    \/ DeleteCode \/ CancelDelete

Next ==
    \/ Operator
    \/ \E q \in calls : ServerInvites(q) \/ ServerRejects(q) \/ CallFails(q) \/ CallAnswered(q)
    \/ \E c \in Codes : CustomerSubmits(c)
    \/ \E a \in Apps : InvitationTakenBack(a)
    \/ \E s \in Seats : SeatChanges(s)

Spec == Init /\ [][Next]_vars

-----------------------------------------------------------------------------
TypeOK ==
    /\ StoreTypeOK
    /\ desk \in [section : {"applications", "codes"}, list : [Apps -> AppStatuses],
                 seats : SUBSET Seats, codes : [Codes -> CodeStatuses], page : Apps,
                 target : Apps \cup {NoApp}, doomed : Codes \cup {Nothing},
                 panel : [app : Apps \cup {NoApp}, seat : Seats \cup {AnySeat}, priced : Apps \cup {NoApp},
                          rejecting : BOOLEAN, busy : BOOLEAN]]
    /\ calls \subseteq [kind : {"invite", "reject"}, app : Apps, seat : Seats \cup {AnySeat},
                        priced : Apps \cup {NoApp}, owned : BOOLEAN, state : {"sent", "done", "refused"}]

(* An invitation goes to the application its price was typed for, and      *)
(* while a card waits for an answer nothing else is sent from it, however  *)
(* the polled list moved under the operator's hands.                       *)
InvitationWasTypedForIt ==
    /\ \A q \in calls : q.kind = "invite" => q.priced = q.app
    /\ Cardinality({q \in calls : q.owned}) <= 1

=============================================================================
