---------------------------- MODULE CustomerCare ----------------------------
(***************************************************************************)
(* Customer care on the goals page (CustomerCarePanel of GoalsPage.tsx,    *)
(* CustomerBenefitDialog.tsx, ExtensionRevisionDialog.tsx): the operator   *)
(* ticks customers and gives them days or a lower next price, and later    *)
(* changes or takes back an extension from the history.                    *)
(*                                                                         *)
(* Each opening of a form draws a key, and the form for a benefit keeps    *)
(* the due dates and row versions it was opened with; the server uses both *)
(* to tell a repetition from a new wish.                                   *)
(***************************************************************************)
EXTENDS Integers, FiniteSets

CONSTANTS Subscriptions,
          LastDay,        \* bound: the dates an extension may be given to
          Period,         \* days from one boundary of the original schedule to the next
          MaxPeriods,     \* bound: the periods that may be paid
          MaxDays,        \* an extension may be as long as this, 365 in the code
          MaxKeys,        \* bound: forms ever opened
          MaxCalls,       \* bound: calls in flight
          MaxChanges      \* bound: changes made by other pages

Days == 1 .. LastDay
NoDay == 0
Boundaries == 1 .. MaxPeriods + 1
Keys == 1 .. MaxKeys
NoKey == 0

CareAssumption ==
    /\ LastDay \in Nat /\ Period \in Nat \ {0} /\ MaxPeriods \in Nat /\ MaxDays \in Nat
    /\ MaxKeys \in Nat /\ MaxCalls \in Nat /\ MaxChanges \in Nat

VARIABLES
    sub,        \* the server's subscriptions: where each boundary of the schedule is now,
                \* the dates with a bill, and what else is written of them
    event,      \* per key and subscription, the extension or discount it recorded
    shown,      \* candidates and history as the page last read them
    desk,       \* selection, benefit form, revision form
    calls,      \* the mutations that are not answered yet
    changes     \* counts what other pages have done

vars == <<sub, event, shown, desk, calls, changes>>

-----------------------------------------------------------------------------
\* What is due is the first boundary without a bill, wherever a bill was taken back.
Unpaid(r) == {b \in Boundaries : r.at[b] \notin r.bills}
FirstUnpaid(r) == CHOOSE b \in Unpaid(r) : \A c \in Unpaid(r) : b <= c
Due(r) == r.at[FirstUnpaid(r)]

\* An extension shifts one boundary and every later one.
Shifted(at, b, days) == [c \in Boundaries |-> IF c >= b THEN at[c] + days ELSE at[c]]

-----------------------------------------------------------------------------
\* An extension keeps the date its boundary had when it was given.
NoEvent == [kind |-> "none", base |-> 0, from |-> NoDay, days |-> 0, state |-> "none"]
Extension(b, from, days) ==
    [kind |-> "extension", base |-> b, from |-> from, days |-> days, state |-> "active"]
Discount == [kind |-> "price_discount", base |-> 0, from |-> NoDay, days |-> 0, state |-> "none"]

ActiveKeys(s) == {k \in Keys : event[k][s].state = "active"}

\* The last one in force by boundary, and of one boundary the one that was given last.
LastActive(k, s) ==
    /\ event[k][s].state = "active"
    /\ \A l \in ActiveKeys(s) :
        \/ event[l][s].base < event[k][s].base
        \/ event[l][s].base = event[k][s].base /\ event[l][s].from <= event[k][s].from

RevisableAny(k, s) == LastActive(k, s) /\ ~sub[s].case     \* mutant

\* No bill has been written from the day it was given for.
Revisable(k, s) ==
    /\ LastActive(k, s)
    /\ ~sub[s].case
    /\ \A day \in sub[s].bills : day < event[k][s].from

View ==
    [due |-> [s \in Subscriptions |-> Due(sub[s])],
     version |-> [s \in Subscriptions |-> sub[s].version],
     selectable |-> {s \in Subscriptions : ~sub[s].case},
     revisable |-> [k \in Keys |-> {s \in Subscriptions : LastActive(k, s) /\ ~sub[s].case}]]

-----------------------------------------------------------------------------
(* The page.                                                               *)

Blank == [s \in Subscriptions |-> 0]
NoForm == [key |-> NoKey, ids |-> {}, due |-> Blank, version |-> Blank]
NoRevision == [key |-> NoKey, of |-> NoKey, sub |-> {}]

Modal == desk.form.key # NoKey \/ desk.history
Selected == desk.ticked \cap shown.selectable

StaysOnPage == UNCHANGED <<sub, event, shown, calls, changes>>

ToggleCandidate(s) ==
    /\ ~Modal
    /\ s \in shown.selectable
    /\ desk' = [desk EXCEPT !.ticked = IF s \in Selected THEN @ \ {s} ELSE @ \cup {s}]
    /\ StaysOnPage

ToggleVisible ==
    \E visible \in SUBSET shown.selectable :
        /\ ~Modal
        /\ visible # {}
        /\ desk' = [desk EXCEPT !.ticked = IF visible \subseteq Selected THEN @ \ visible ELSE @ \cup visible]
        /\ StaysOnPage

\* The recommended ones are any of those that can be selected.
SelectRecommended ==
    \E recommended \in SUBSET shown.selectable :
        /\ ~Modal
        /\ desk' = [desk EXCEPT !.ticked = recommended]
        /\ StaysOnPage

\* The form keeps the customers and the snapshots it was opened with.
OpenBenefitDialog ==
    /\ ~Modal
    /\ Selected # {}
    /\ desk.last < MaxKeys
    /\ desk' = [desk EXCEPT !.last = @ + 1,
                            !.form = [key |-> desk.last + 1, ids |-> Selected,
                                      due |-> shown.due, version |-> shown.version]]
    /\ StaysOnPage

\* The form may be left at any time, also while its call is on its way.
CloseForm ==
    /\ desk.form.key # NoKey
    /\ desk' = [desk EXCEPT !.form = NoForm]
    /\ StaysOnPage

\* A date after every due date, by no more than what an extension may give.
ValidUntil(f, day) == \A s \in f.ids : day - f.due[s] \in 1 .. MaxDays

Sendable(key) == Cardinality(calls) < MaxCalls /\ \A q \in calls : q.key # key

Record(kind, until) ==
    calls' = calls \cup {[kind |-> kind, key |-> desk.form.key, ids |-> desk.form.ids, of |-> NoKey,
                          until |-> until, due |-> desk.form.due, version |-> desk.form.version,
                          state |-> "sent"]}

SubmitBenefit ==
    /\ desk.form.key # NoKey
    /\ Sendable(desk.form.key)
    /\ \/ \E day \in Days : ValidUntil(desk.form, day) /\ Record("extension", day)
       \/ Record("price_discount", NoDay)
    /\ UNCHANGED <<sub, event, shown, desk, changes>>

OpenHistory ==
    /\ ~Modal
    /\ desk' = [desk EXCEPT !.history = TRUE]
    /\ StaysOnPage

CloseHistory ==
    /\ desk.history
    /\ desk.revision.key = NoKey
    /\ desk' = [desk EXCEPT !.history = FALSE]
    /\ StaysOnPage

\* An extension of the history is opened in a form of its own.
OpenRevision ==
    \E k \in Keys : \E s \in shown.revisable[k] :
        /\ desk.history
        /\ desk.revision.key = NoKey
        /\ desk.last < MaxKeys
        /\ desk' = [desk EXCEPT !.last = @ + 1, !.revision = [key |-> desk.last + 1, of |-> k, sub |-> {s}]]
        /\ StaysOnPage

CloseRevision ==
    /\ desk.revision.key # NoKey
    /\ desk' = [desk EXCEPT !.revision = NoRevision]
    /\ StaysOnPage

\* No days take the extension back.
SubmitRevision ==
    \E days \in 0 .. MaxDays :
        /\ desk.revision.key # NoKey
        /\ Sendable(desk.revision.key)
        /\ calls' = calls \cup {[kind |-> "revision", key |-> desk.revision.key, ids |-> desk.revision.sub,
                                 of |-> desk.revision.of, until |-> days, due |-> Blank,
                                 version |-> Blank, state |-> "sent"]}
        /\ UNCHANGED <<sub, event, shown, desk, changes>>

Refetch ==
    /\ shown' = View
    /\ UNCHANGED <<sub, event, desk, calls, changes>>

\* An answer is acted upon whether or not its form is still the one on screen.
CallAnswered(q) ==
    /\ q.state \in {"done", "refused"}
    /\ calls' = calls \ {q}
    /\ desk' = CASE q.state = "refused"   -> desk
                 [] q.kind = "revision"   -> [desk EXCEPT !.revision = NoRevision]
                 [] OTHER                 -> [desk EXCEPT !.ticked = {}, !.form = NoForm]
    /\ UNCHANGED <<sub, event, shown, changes>>

\* Nothing tells a call that was lost on its way from one whose answer was lost.
CallFails(q) ==
    /\ q.state \in {"sent", "done"}
    /\ calls' = (calls \ {q}) \cup {[q EXCEPT !.state = "refused"]}
    /\ UNCHANGED <<sub, event, shown, desk, changes>>

-----------------------------------------------------------------------------
(* The server.                                                             *)

Settled(q, state) == calls' = (calls \ {q}) \cup {[q EXCEPT !.state = state]}
Refuse(q) == Settled(q, "refused") /\ UNCHANGED <<sub, event>>

Recorded(key, S) == \E s \in S : event[key][s].kind # "none"

ReviewedOrNot(q) == TRUE      \* mutant

\* The rows are those that were reviewed, and due when they were.
AsReviewed(q) == \A s \in q.ids : sub[s].version = q.version[s] /\ Due(sub[s]) = q.due[s]

\* A later period that is paid already has to be dealt with first.
NothingPaidAhead(q) == \A s \in q.ids : \A day \in sub[s].bills : day < Due(sub[s])

Grantable(q) ==
    /\ ~Recorded(q.key, q.ids)
    /\ \A s \in q.ids : ~sub[s].case
    /\ q.kind = "extension" => AsReviewed(q) /\ NothingPaidAhead(q)
    /\ q.kind = "price_discount" => \A s \in q.ids : ~sub[s].next

DaysGiven(q, s) == q.until - q.due[s]

Given(q, s) ==
    IF q.kind = "extension"
    THEN [sub[s] EXCEPT !.at = Shifted(@, FirstUnpaid(sub[s]), DaysGiven(q, s)), !.version = @ + 1]
    ELSE [sub[s] EXCEPT !.next = TRUE, !.version = @ + 1]

Entry(q, s) ==
    IF q.kind = "extension"
    THEN Extension(FirstUnpaid(sub[s]), Due(sub[s]), DaysGiven(q, s))
    ELSE Discount

RecordCustomerBenefits(q) ==
    /\ q.kind # "revision" /\ q.state = "sent"
    /\ IF Grantable(q)
       THEN /\ sub' = [s \in Subscriptions |-> IF s \in q.ids THEN Given(q, s) ELSE sub[s]]
            /\ event' = [event EXCEPT ![q.key] =
                            [s \in Subscriptions |-> IF s \in q.ids THEN Entry(q, s) ELSE @[s]]]
            /\ Settled(q, "done")
       ELSE Refuse(q)
    /\ UNCHANGED <<shown, desk, changes>>

\* What a key has done before is not done again: the same wish is answered with success.
Replayed(q, s) == event[q.key][s].kind # "none"
SameWish(q, s) ==
    /\ event[q.of][s].state = IF q.until = 0 THEN "revoked" ELSE "superseded"
    /\ event[q.key][s].days = q.until

ReviseCustomerBenefitExtension(q) ==
    /\ q.kind = "revision" /\ q.state = "sent"
    /\ \E s \in q.ids :
        \/ Replayed(q, s) /\ SameWish(q, s) /\ Settled(q, "done") /\ UNCHANGED <<sub, event>>
        \/ Replayed(q, s) /\ ~SameWish(q, s) /\ Refuse(q)
        \/ ~Replayed(q, s) /\ ~Revisable(q.of, s) /\ Refuse(q)
        \/ LET old == event[q.of][s]
               new == Extension(old.base, sub[s].at[old.base] - old.days, q.until)
           IN  /\ ~Replayed(q, s) /\ Revisable(q.of, s)
               /\ sub' = [sub EXCEPT ![s].at = Shifted(@, old.base, q.until - old.days),
                                     ![s].version = @ + 1]
               /\ event' = [event EXCEPT
                    ![q.of][s].state = IF q.until = 0 THEN "revoked" ELSE "superseded",
                    ![q.key][s] = IF q.until = 0 THEN [new EXCEPT !.state = "revoked"] ELSE new]
               /\ Settled(q, "done")
    /\ UNCHANGED <<shown, desk, changes>>

-----------------------------------------------------------------------------
(* What other pages do.                                                    *)

Elsewhere(s, r) ==
    /\ changes < MaxChanges
    /\ changes' = changes + 1
    /\ sub' = [sub EXCEPT ![s] = r]
    /\ UNCHANGED <<event, shown, desk, calls>>

\* Any boundary may be paid, the first that is due or a later one; a scheduled price may
\* become the price with it.
DuePaid(s) ==
    \E b \in Boundaries \ {MaxPeriods + 1}, next \in {FALSE, sub[s].next} :
        /\ ~sub[s].case
        /\ b \in Unpaid(sub[s])
        /\ Elsewhere(s, [sub[s] EXCEPT !.bills = @ \cup {sub[s].at[b]}, !.next = next, !.version = @ + 1])

\* A bill is taken back whatever extensions are in force.
BillTakenBack(s) ==
    \E day \in sub[s].bills : Elsewhere(s, [sub[s] EXCEPT !.bills = @ \ {day}, !.version = @ + 1])

SubscriptionEdited(s) == Elsewhere(s, [sub[s] EXCEPT !.next = ~@, !.version = @ + 1])
CaseOpensOrCloses(s) == Elsewhere(s, [sub[s] EXCEPT !.case = ~@])

-----------------------------------------------------------------------------
Init ==
    /\ sub = [s \in Subscriptions |->
                [at |-> [b \in Boundaries |-> 1 + (b - 1) * Period], bills |-> {}, version |-> 0,
                 next |-> FALSE, case |-> FALSE]]
    /\ event = [k \in Keys |-> [s \in Subscriptions |-> NoEvent]]
    /\ shown = View
    /\ desk = [ticked |-> {}, form |-> NoForm, history |-> FALSE, revision |-> NoRevision, last |-> NoKey]
    /\ calls = {}
    /\ changes = 0

Operator ==
    \/ \E s \in Subscriptions : ToggleCandidate(s)
    \/ ToggleVisible \/ SelectRecommended \/ OpenBenefitDialog \/ CloseForm \/ SubmitBenefit
    \/ OpenHistory \/ CloseHistory \/ OpenRevision \/ CloseRevision \/ SubmitRevision
    \/ Refetch

Server ==
    \E q \in calls :
        \/ RecordCustomerBenefits(q) \/ ReviseCustomerBenefitExtension(q)
        \/ CallFails(q) \/ CallAnswered(q)

OtherPages ==
    \E s \in Subscriptions :
        DuePaid(s) \/ BillTakenBack(s) \/ SubscriptionEdited(s) \/ CaseOpensOrCloses(s)

Next == Operator \/ Server \/ OtherPages

Spec == Init /\ [][Next]_vars

-----------------------------------------------------------------------------
Snapshots == [Subscriptions -> Nat]

TypeOK ==
    /\ sub \in [Subscriptions -> [at : [Boundaries -> Nat], bills : SUBSET Nat, version : Nat,
                                  next : BOOLEAN, case : BOOLEAN]]
    /\ event \in [Keys -> [Subscriptions ->
            [kind : {"none", "extension", "price_discount"}, base : Boundaries \cup {0}, from : Nat, days : Nat,
             state : {"none", "active", "revoked", "superseded"}]]]
    /\ shown \in [due : Snapshots, version : Snapshots, selectable : SUBSET Subscriptions,
                  revisable : [Keys -> SUBSET Subscriptions]]
    /\ desk \in [ticked : SUBSET Subscriptions, history : BOOLEAN, last : Keys \cup {NoKey},
                 form : [key : Keys \cup {NoKey}, ids : SUBSET Subscriptions, due : Snapshots, version : Snapshots],
                 revision : [key : Keys \cup {NoKey}, of : Keys \cup {NoKey}, sub : SUBSET Subscriptions]]
    /\ calls \subseteq [kind : {"extension", "price_discount", "revision"}, key : Keys, ids : SUBSET Subscriptions,
                        of : Keys \cup {NoKey}, until : Nat, due : Snapshots, version : Snapshots,
                        state : {"sent", "done", "refused"}]
    /\ changes \in 0 .. MaxChanges

(* A due date moves by what the operator asked for and nothing else: from  *)
(* the date the form was opened with to the date picked in it, or by the   *)
(* days an extension is made longer or shorter, and once for each opening  *)
(* of a form, however often it is sent again after a lost answer.          *)
DueDateStep ==
    \A s \in Subscriptions :
        (Due(sub[s])' # Due(sub[s]) /\ UNCHANGED changes) =>
            \E q \in calls :
                /\ q.state = "sent" /\ s \in q.ids
                /\ event[q.key][s] = NoEvent /\ event'[q.key][s] # NoEvent
                /\ IF q.kind = "revision"
                   THEN Due(sub[s])' = Due(sub[s]) + q.until - event[q.of][s].days
                   ELSE Due(sub[s]) = q.due[s] /\ Due(sub[s])' = q.until
DueDateIsTheOneAskedFor == [][DueDateStep]_vars

(* A boundary that is paid stays on the date of its bill: no extension     *)
(* that is given, changed or taken back moves it, also when bills are      *)
(* written out of order, or taken back under extensions in force so that   *)
(* what is due lies before them again.                                     *)
PaidStep ==
    \A s \in Subscriptions, b \in Boundaries :
        sub[s].at[b] \in sub[s].bills => sub'[s].at[b] = sub[s].at[b]
PaidPeriodsStandStill == [][PaidStep]_vars

=============================================================================
