---------------------------- MODULE RepricingDesk ----------------------------
(***************************************************************************)
(* Repricing on the goals page (GoalsPage.tsx): the operator ticks Team    *)
(* seats and schedules one next price for all of them or exempts them, or  *)
(* opens one customer and types a price for each of its seats.  The page   *)
(* works on a copy of the candidates that may be old; the server looks at  *)
(* the rows again, and once more when it writes.                           *)
(*                                                                         *)
(* A call is sent, checked, written and answered in four steps, so that    *)
(* what other pages and other tabs do falls between any two of them.       *)
(***************************************************************************)
EXTENDS Integers, FiniteSets

CONSTANTS Subscriptions,
          CustomerOf,     \* the customer a subscription belongs to
          Nobody,         \* no customer
          MaxPrice,       \* bound: prices are 1 .. MaxPrice
          Typed,          \* bound: the prices that are typed, here and elsewhere
          Market,         \* the price under which a seat is recommended for an increase
          MaxCalls,       \* bound: calls in flight
          MaxChanges      \* bound: changes made by other pages

Prices == 1 .. MaxPrice
None == 0                 \* no price: not scheduled, not typed
Customers == {CustomerOf[s] : s \in Subscriptions}

RepricingAssumption ==
    /\ MaxPrice \in Nat \ {0}
    /\ Typed \subseteq Prices
    /\ Market \in Nat /\ MaxChanges \in Nat
    /\ Nobody \notin Customers

VARIABLES
    row,        \* the server's subscriptions, with their cases and exemptions
    shown,      \* the candidates as the page last read them
    desk,       \* the state of the two panels
    calls,      \* the mutations that are not answered yet
    changes     \* counts what other pages have done

vars == <<row, shown, desk, calls, changes>>

-----------------------------------------------------------------------------
(* What the server makes of a row.                                         *)

\* The first reason that applies: a later one is not reported.
Blocked(r) ==
    CASE r.case         -> "after_sales"
      [] r.next # None  -> "scheduled"
      [] r.cooling      -> "cooldown"
      [] r.exempt       -> "exempted"
      [] OTHER          -> "eligible"

View(r) == [price |-> r.price, code |-> Blocked(r)]

Eligible(v) == v.code = "eligible"
Recommended(v) == Eligible(v) /\ v.price < Market

\* One step up at a time.
SafeCap(price) == price + 1

Suggested(v) == IF v.price < MaxPrice THEN v.price + 1 ELSE v.price

HardBlocks == {"after_sales", "scheduled", "exempted"}

-----------------------------------------------------------------------------
(* The panel that prices or exempts many customers at once.                *)

NoPrices == [s \in Subscriptions |-> None]
EmptyBulk == [ticked |-> {}, price |-> None, dialog |-> "closed", exempting |-> FALSE]
NoManual == [customer |-> Nobody, typed |-> NoPrices, confirming |-> FALSE]

Pending(kind) == \E q \in calls : q.kind = kind /\ q.owned

Modal == desk.bulk.dialog # "closed" \/ desk.bulk.exempting \/ desk.manual.customer # Nobody

\* Ticks of seats that are not eligible any more do not count, but they are kept.
Selected == {s \in desk.bulk.ticked : Eligible(shown[s])}

\* The price offered for a selection: one that raises all of it.
Shared(S) ==
    {p \in {Suggested(shown[s]) : s \in S} :
        \A s \in S : p <= Suggested(shown[s]) /\ p > shown[s].price}
Prefilled(S) == IF desk.bulk.price = None /\ Shared(S) # {} THEN CHOOSE p \in Shared(S) : TRUE ELSE desk.bulk.price

CanSubmit ==
    /\ Selected # {}
    /\ desk.bulk.price # None
    /\ \A s \in Selected :
        /\ desk.bulk.price # shown[s].price
        /\ desk.bulk.price > shown[s].price => desk.bulk.price <= SafeCap(shown[s].price)

CanExempt == Selected # {} /\ \A s \in Selected : Recommended(shown[s])

Bulk(b) == desk' = [desk EXCEPT !.bulk = b]
StaysOnPage == UNCHANGED <<row, shown, calls, changes>>

\* The first tick opens the dialog, with a price if one suits.
ToggleCandidate(s) ==
    /\ ~Modal
    /\ Eligible(shown[s])
    /\ IF s \in Selected
       THEN Bulk([desk.bulk EXCEPT !.ticked = @ \ {s}])
       ELSE Bulk([desk.bulk EXCEPT !.ticked = @ \cup {s},
                                   !.price  = IF desk.bulk.ticked = {} THEN Prefilled({s}) ELSE @,
                                   !.dialog = IF desk.bulk.ticked = {} THEN "edit" ELSE @])
    /\ StaysOnPage

\* Search, filter and page decide what is in sight: it may be any part of the list.
ToggleVisible ==
    \E visible \in SUBSET {s \in Subscriptions : Eligible(shown[s])} :
        /\ ~Modal
        /\ visible # {}
        /\ IF visible \subseteq Selected
           THEN Bulk([desk.bulk EXCEPT !.ticked = @ \ visible])
           ELSE Bulk([desk.bulk EXCEPT !.ticked = @ \cup visible,
                                       !.price  = IF desk.bulk.ticked = {} THEN Prefilled(visible) ELSE @,
                                       !.dialog = IF desk.bulk.ticked = {} THEN "edit" ELSE @])
        /\ StaysOnPage

SelectRecommendations ==
    LET recommended == {s \in Subscriptions : Recommended(shown[s])}
    IN  /\ ~Modal
        /\ recommended # {}
        /\ Bulk([desk.bulk EXCEPT !.ticked = recommended, !.dialog = "edit",
                                  !.price = Prefilled(recommended)])
        /\ StaysOnPage

OpenPricingSettings ==
    /\ ~Modal
    /\ Selected # {}
    /\ Bulk([desk.bulk EXCEPT !.price = Prefilled(Selected), !.dialog = "edit"])
    /\ StaysOnPage

TypePrice ==
    \E p \in Typed :
        /\ desk.bulk.dialog = "edit"
        /\ Bulk([desk.bulk EXCEPT !.price = p])
        /\ StaysOnPage

\* The dialog may be left at any time, also while its call is on its way.
ClosePricingDialog ==
    /\ desk.bulk.dialog # "closed"
    /\ Bulk([desk.bulk EXCEPT !.dialog = "closed"])
    /\ StaysOnPage

ConfirmPricing ==
    /\ \/ desk.bulk.dialog = "edit" /\ CanSubmit /\ Bulk([desk.bulk EXCEPT !.dialog = "confirm"])
       \/ desk.bulk.dialog = "confirm" /\ Bulk([desk.bulk EXCEPT !.dialog = "edit"])
    /\ ~Pending("bulk")
    /\ StaysOnPage

AskExemption ==
    /\ desk.bulk.dialog = "edit"
    /\ CanExempt
    /\ ~Pending("exempt")
    /\ Bulk([desk.bulk EXCEPT !.dialog = "closed", !.exempting = TRUE])
    /\ StaysOnPage

CloseExemption ==
    /\ desk.bulk.exempting
    /\ Bulk([desk.bulk EXCEPT !.exempting = FALSE])
    /\ StaysOnPage

Send(kind, prices) ==
    /\ ~Pending(kind)
    /\ Cardinality(calls) < MaxCalls
    /\ calls' = calls \cup {[kind |-> kind, prices |-> prices, owned |-> TRUE, state |-> "sent",
                             stale |-> FALSE, charged |-> NoPrices]}
    /\ UNCHANGED <<row, shown, desk, changes>>

\* What is sent is what is selected at that moment, at the price on screen.
SchedulePrices ==
    /\ desk.bulk.dialog = "confirm"
    /\ Send("bulk", [s \in Subscriptions |-> IF s \in Selected THEN desk.bulk.price ELSE None])

ExemptSelected ==
    /\ desk.bulk.exempting
    /\ CanExempt
    /\ Send("exempt", [s \in Subscriptions |-> IF s \in Selected THEN shown[s].price ELSE None])

-----------------------------------------------------------------------------
(* The panel that prices one customer by hand, seat by seat.               *)

\* A price has to be another one than the customer pays.
Invalid(s) == desk.manual.customer = CustomerOf[s] /\ desk.manual.typed[s] = shown[s].price

\* A seat whose row accepts no price keeps what was typed, but it is not sent.
ManualEntries ==
    [s \in Subscriptions |->
        IF shown[s].code \in HardBlocks \/ CustomerOf[s] # desk.manual.customer \/ Invalid(s) THEN None
        ELSE desk.manual.typed[s]]
ManualCanSubmit ==
    /\ \E s \in Subscriptions : ManualEntries[s] # None
    /\ \A s \in Subscriptions : ~Invalid(s)

OpenManualPricing(c) ==
    /\ ~Modal
    /\ desk' = [desk EXCEPT !.manual = [NoManual EXCEPT !.customer = c]]
    /\ StaysOnPage

TypeManualPrice ==
    \E s \in Subscriptions, p \in Typed :
        /\ desk.manual.customer = CustomerOf[s]
        /\ ~desk.manual.confirming
        /\ shown[s].code \notin HardBlocks
        /\ desk' = [desk EXCEPT !.manual.typed[s] = p]
        /\ StaysOnPage

ConfirmManual ==
    /\ desk.manual.customer # Nobody
    /\ ~Pending("manual")
    /\ ~desk.manual.confirming => ManualCanSubmit
    /\ desk' = [desk EXCEPT !.manual.confirming = ~@]
    /\ StaysOnPage

\* Nothing closes this dialog while its call is on its way.
CloseManual ==
    /\ desk.manual.customer # Nobody
    /\ ~Pending("manual")
    /\ desk' = [desk EXCEPT !.manual = NoManual]
    /\ StaysOnPage

ScheduleManualPrices ==
    /\ desk.manual.confirming
    /\ Send("manual", ManualEntries)

-----------------------------------------------------------------------------
(* Queries, and the answers of the calls.                                  *)

Refetch ==
    /\ shown' = [s \in Subscriptions |-> View(row[s])]
    /\ UNCHANGED <<row, desk, calls, changes>>

\* A tier of the analysis opens the list anew: its selection and dialogs are gone, and
\* what it had sent is answered to nobody.
OpenBulkPricing ==
    /\ ~Modal
    /\ desk' = [desk EXCEPT !.bulk = EmptyBulk]
    /\ calls' = {IF q.kind = "manual" THEN q ELSE [q EXCEPT !.owned = FALSE] : q \in calls}
    /\ UNCHANGED <<row, shown, changes>>

\* What was asked is of no more use to who gets the answer.
Answer(q, state) == [kind |-> q.kind, prices |-> NoPrices, owned |-> TRUE, state |-> state,
                     stale |-> FALSE, charged |-> NoPrices]
Settled(q, state) == calls' = (calls \ {q}) \cup (IF q.owned THEN {Answer(q, state)} ELSE {})

CallFails(q) ==
    /\ Settled(q, "refused")
    /\ UNCHANGED <<row, shown, desk, changes>>

\* Success closes the dialog and forgets the selection, whatever it is by now.
CallAnswered(q) ==
    /\ q.state \in {"done", "refused"}
    /\ calls' = calls \ {q}
    /\ desk' = IF q.state = "refused" \/ ~q.owned THEN desk
               ELSE CASE q.kind = "bulk" ->
                            [desk EXCEPT !.bulk.dialog = "closed", !.bulk.ticked = {}, !.bulk.price = None]
                      [] q.kind = "exempt" ->
                            [desk EXCEPT !.bulk.exempting = FALSE, !.bulk.ticked = {}]
                      [] OTHER -> [desk EXCEPT !.manual = NoManual]
    /\ UNCHANGED <<row, shown, changes>>

-----------------------------------------------------------------------------
(* The server.                                                             *)

Asked(q) == {s \in Subscriptions : q.prices[s] # None}

\* Retention safeguards are looked at again; by hand the timing ones may be overridden.
Admitted(q, s) ==
    CASE q.kind = "bulk" ->
            /\ Eligible(View(row[s]))
            /\ q.prices[s] # row[s].price
            /\ q.prices[s] > row[s].price => q.prices[s] <= SafeCap(row[s].price)
      [] q.kind = "exempt" -> Recommended(View(row[s]))
      [] OTHER -> Blocked(row[s]) \notin HardBlocks /\ q.prices[s] # row[s].price

\* Prices are scheduled under one lock; exemptions are not.
Locked(q) == q.kind # "exempt" /\ \E p \in calls : p.state = "checked" /\ p.kind # "exempt"

Check(q) ==
    /\ q.state = "sent"
    /\ ~Locked(q)
    /\ IF Asked(q) # {} /\ \A s \in Asked(q) : Admitted(q, s)
       THEN calls' = (calls \ {q}) \cup
                {[q EXCEPT !.state = "checked", !.charged = [s \in Subscriptions |-> row[s].price]]}
       ELSE Settled(q, "refused")
    /\ UNCHANGED <<row, shown, desk, changes>>

SamePrice(q, s) == row[s].price = q.charged[s]     \* mutant

\* The row is written only if it is the one that was checked.
Unchanged(q, s) ==
    /\ q.kind # "exempt" => ~q.stale
    /\ row[s].price = q.charged[s]
    /\ row[s].next = None
    /\ ~row[s].case
    /\ ~row[s].exempt

\* A write moves the row's version: a call that has checked it will not find it again.
Moved(S, Q) == {IF q.state = "checked" /\ Asked(q) \cap S # {} THEN [q EXCEPT !.stale = TRUE] ELSE q : q \in Q}

\* All of the selection, or nothing.
Write(q) ==
    /\ q.state = "checked"
    /\ IF \A s \in Asked(q) : Unchanged(q, s)
       THEN /\ row' = [s \in Subscriptions |->
                            IF s \notin Asked(q) THEN row[s]
                            ELSE IF q.kind = "exempt" THEN [row[s] EXCEPT !.exempt = TRUE]
                            ELSE [row[s] EXCEPT !.next = q.prices[s]]]
            /\ calls' = LET others == calls \ {q}
                        IN  (IF q.kind = "exempt" THEN others ELSE Moved(Asked(q), others))
                            \cup (IF q.owned THEN {Answer(q, "done")} ELSE {})
       ELSE row' = row /\ Settled(q, "refused")
    /\ UNCHANGED <<shown, desk, changes>>

-----------------------------------------------------------------------------
(* What other pages do: payments, edits, cases, the passing of time.       *)

Elsewhere(s, r, moved) ==
    /\ changes < MaxChanges
    /\ changes' = changes + 1
    /\ row' = [row EXCEPT ![s] = r]
    /\ calls' = IF moved THEN Moved({s}, calls) ELSE calls
    /\ UNCHANGED <<shown, desk>>

ScheduledPriceStarts(s) ==
    row[s].next # None /\ Elsewhere(s, [row[s] EXCEPT !.price = row[s].next, !.next = None, !.cooling = TRUE], TRUE)
NextPriceEdited(s) == \E p \in Typed \cup {None} : Elsewhere(s, [row[s] EXCEPT !.next = p], TRUE)
PriceEdited(s) == \E p \in Typed : Elsewhere(s, [row[s] EXCEPT !.price = p], TRUE)
CaseOpensOrCloses(s) == Elsewhere(s, [row[s] EXCEPT !.case = ~@], FALSE)
TimePasses(s) == Elsewhere(s, [row[s] EXCEPT !.cooling = FALSE, !.exempt = FALSE], FALSE)

-----------------------------------------------------------------------------
Init ==
    /\ row = [s \in Subscriptions |-> [price |-> 1, next |-> None, case |-> FALSE, cooling |-> FALSE, exempt |-> FALSE]]
    /\ shown = [s \in Subscriptions |-> View(row[s])]
    /\ desk = [bulk |-> EmptyBulk, manual |-> NoManual]
    /\ calls = {}
    /\ changes = 0

Operator ==
    \/ ToggleVisible \/ SelectRecommendations \/ OpenPricingSettings \/ TypePrice
    \/ \E s \in Subscriptions : ToggleCandidate(s)
    \/ ClosePricingDialog \/ ConfirmPricing \/ AskExemption \/ CloseExemption
    \/ SchedulePrices \/ ExemptSelected \/ OpenBulkPricing
    \/ (\E c \in Customers : OpenManualPricing(c)) \/ TypeManualPrice \/ ConfirmManual \/ CloseManual \/ ScheduleManualPrices
    \/ Refetch

Server == \E q \in calls : Check(q) \/ Write(q) \/ CallFails(q) \/ CallAnswered(q)

OtherPages ==
    \E s \in Subscriptions :
        \/ ScheduledPriceStarts(s) \/ NextPriceEdited(s) \/ PriceEdited(s)
        \/ CaseOpensOrCloses(s) \/ TimePasses(s)

Next == Operator \/ Server \/ OtherPages

Spec == Init /\ [][Next]_vars

-----------------------------------------------------------------------------
TypeOK ==
    /\ row \in [Subscriptions -> [price : Prices, next : Prices \cup {None}, case : BOOLEAN,
                                  cooling : BOOLEAN, exempt : BOOLEAN]]
    /\ shown \in [Subscriptions -> [price : Prices,
                                    code : {"after_sales", "scheduled", "cooldown", "exempted", "eligible"}]]
    /\ desk.bulk \in [ticked : SUBSET Subscriptions,
                      price : Prices \cup {None}, dialog : {"closed", "edit", "confirm"}, exempting : BOOLEAN]
    /\ desk.manual \in [customer : Customers \cup {Nobody}, typed : [Subscriptions -> Prices \cup {None}], confirming : BOOLEAN]
    /\ calls \subseteq [kind : {"bulk", "exempt", "manual"}, prices : [Subscriptions -> Prices \cup {None}],
                        owned : BOOLEAN, state : {"sent", "checked", "done", "refused"}, stale : BOOLEAN,
                        charged : [Subscriptions -> Prices \cup {None}]]
    /\ changes \in 0 .. MaxChanges

(* However old the list is and whatever happens between the check of a     *)
(* selection and its writing: no price is scheduled over another one, for  *)
(* a seat with an open case or an exempted one, and a price for many is    *)
(* never more than one step above what the customer pays.                  *)
PriceStep ==
    \A s \in Subscriptions :
        (row'[s].next # row[s].next /\ UNCHANGED changes) =>
            /\ row[s].next = None /\ ~row[s].case /\ ~row[s].exempt
            /\ row'[s].next # row[s].price
            /\ \E q \in calls :
                /\ q.state = "checked" /\ q.prices[s] = row'[s].next
                /\ q.kind = "bulk" => q.prices[s] <= SafeCap(row[s].price)
SafeguardsHoldWhenWritten == [][PriceStep]_vars

=============================================================================
