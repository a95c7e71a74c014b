------------------------------ MODULE GoalBoard ------------------------------
(***************************************************************************)
(* The overview of the goals page (GoalsPage.tsx): the goal that is being  *)
(* worked for, its dialogs, and the market prices with their refresh, over *)
(* what the server does for them (goal.go, db/goals.go, market_radar.go).  *)
(*                                                                         *)
(* Goals are numbered in the order they are created.  Of a goal's name and *)
(* target only where they were typed is kept, of the market prices         *)
(* only which check brought them.  Reading the page takes three steps, so  *)
(* that a reading may be overtaken by a newer one.                         *)
(***************************************************************************)
EXTENDS Integers, FiniteSets

CONSTANTS MaxGoals,       \* bound: goals ever created
          MaxChecks,      \* bound: times the provider of prices is asked
          MaxCalls,       \* bound: calls in flight
          MaxChanges      \* bound: what other tabs and the business do

VARIABLES
    server,     \* goals, market prices and their provider
    shown,      \* the page as it was last read
    desk,       \* dialogs, and the reading that is under way
    calls,      \* the mutations that are not answered yet
    changes     \* counts what happens elsewhere

vars == <<server, shown, desk, calls, changes>>

None == 0
Here == 1       \* typed on this page
Abroad == 2     \* typed in another tab
Goals == 1 .. MaxGoals

-----------------------------------------------------------------------------
(* The server's goals.                                                     *)

Active(g) == server.goal[g].status = "active"
Created(g) == server.goal[g].status # "absent"
Current == IF \E g \in Goals : Active(g) THEN CHOOSE g \in Goals : Active(g) ELSE None

Settled(q, state) == calls' = (calls \ {q}) \cup {[q EXCEPT !.state = state]}

\* A call that is refused, or lost, only frees the button it was sent with.
Refuse(q) == calls' = calls \ {q} /\ UNCHANGED server

\* That no goal is active is looked at before the new one is written.
CheckCreation(q) ==
    /\ q.kind = "create" /\ q.state = "sent"
    /\ IF Current = None THEN Settled(q, "checked") /\ UNCHANGED server ELSE Refuse(q)
    /\ UNCHANGED <<shown, desk, changes>>

\* The table takes one active goal.
InsertGoal(q) ==
    /\ q.kind = "create" /\ q.state = "checked"
    /\ IF Current = None
       THEN \E g \in Goals :
                /\ ~Created(g) /\ \A h \in 1 .. g - 1 : Created(h)
                /\ server' = [server EXCEPT !.goal[g] = [@ EXCEPT !.status = "active", !.text = q.text]]
                /\ Settled(q, "done")
       ELSE Refuse(q)
    /\ UNCHANGED <<shown, desk, changes>>

UpdateAnyGoal(q) ==         \* mutant
    /\ q.kind = "update" /\ q.state = "sent"
    /\ server' = [server EXCEPT !.goal[q.goal].text = q.text] /\ Settled(q, "done")
    /\ UNCHANGED <<shown, desk, changes>>

UpdateGoal(q) ==
    /\ q.kind = "update" /\ q.state = "sent"
    /\ IF Active(q.goal)
       THEN server' = [server EXCEPT !.goal[q.goal].text = q.text] /\ Settled(q, "done")
       ELSE Refuse(q)
    /\ UNCHANGED <<shown, desk, changes>>

\* The profit is added up before it is written to the goal, if that is active still.
ComputeResult(q) ==
    /\ q.kind = "complete" /\ q.state = "sent"
    /\ IF Current = q.goal
       THEN calls' = (calls \ {q}) \cup {[q EXCEPT !.state = "checked", !.text = server.profit]}
            /\ UNCHANGED server
       ELSE Refuse(q)
    /\ UNCHANGED <<shown, desk, changes>>

CompleteGoal(q) ==
    /\ q.kind = "complete" /\ q.state = "checked"
    /\ IF Active(q.goal)
       THEN /\ server' = [server EXCEPT !.goal[q.goal].status = "completed", !.goal[q.goal].result = q.text]
            /\ Settled(q, "done")
       ELSE Refuse(q)
    /\ UNCHANGED <<shown, desk, changes>>

-----------------------------------------------------------------------------
(* The server's market prices: one check at a time.                        *)

Market == server.market

\* Too early after the last time: what is at hand is returned.
AskProvider(q) ==
    /\ q.kind = "refresh" /\ q.state = "sent"
    /\ ~Market.checking
    /\ IF Market.resting
       THEN /\ calls' = (calls \ {q}) \cup {[q EXCEPT !.state = "done", !.text = Market.price]}
            /\ UNCHANGED server
       ELSE /\ Market.asked < MaxChecks
            /\ server' = [server EXCEPT !.market.checking = TRUE, !.market.resting = TRUE, !.market.asked = @ + 1]
            /\ Settled(q, "checked")
    /\ UNCHANGED <<shown, desk, changes>>

\* Other prices, or the same ones, or none: then the old ones stay in sight.
ProviderAnswers(q) ==
    \E price \in {Market.asked, Market.price} :
        /\ q.kind = "refresh" /\ q.state = "checked"
        /\ server' = [server EXCEPT !.market.checking = FALSE, !.market.price = price]
        /\ calls' = (calls \ {q}) \cup {[q EXCEPT !.state = "done", !.text = price]}
        /\ UNCHANGED <<shown, desk, changes>>

\* A minute, or longer if the provider has failed.
RestIsOver ==
    /\ Market.resting /\ ~Market.checking
    /\ server' = [server EXCEPT !.market.resting = FALSE]
    /\ UNCHANGED <<shown, desk, calls, changes>>

-----------------------------------------------------------------------------
(* Reading the page.                                                       *)

View == [goal |-> Current, text |-> IF Current = None THEN None ELSE server.goal[Current].text,
         price |-> Market.price]
NotRead == [goal |-> None, text |-> None, price |-> None]
Idle == [step |-> "idle", view |-> NotRead, for |-> FALSE]

\* A reading that is wanted while another is under way joins it ...
RefetchOnFocus ==
    /\ desk.reading = Idle
    /\ desk' = [desk EXCEPT !.reading = [Idle EXCEPT !.step = "asked"]]
    /\ UNCHANGED <<server, shown, calls, changes>>

Joined(for) ==              \* mutant
    IF desk.reading = Idle THEN [Idle EXCEPT !.step = "asked", !.for = for]
    ELSE [desk.reading EXCEPT !.for = for]

\* ... unless it follows a write: then it starts over.
Anew(for) == [Idle EXCEPT !.step = "asked", !.for = for]

ReadServer ==
    /\ desk.reading.step = "asked"
    /\ desk' = [desk EXCEPT !.reading.step = "read", !.reading.view = View]
    /\ UNCHANGED <<server, shown, calls, changes>>

ReadingArrives ==
    /\ desk.reading.step = "read"
    /\ shown' = desk.reading.view
    /\ desk' = [desk EXCEPT !.reading = Idle]
    /\ calls' = IF desk.reading.for THEN {q \in calls : q.state # "reading"} ELSE calls
    /\ UNCHANGED <<server, changes>>

ReadingFails ==
    /\ desk.reading # Idle
    /\ desk' = [desk EXCEPT !.reading = Idle]
    /\ calls' = IF desk.reading.for THEN {q \in calls : q.state # "reading"} ELSE calls
    /\ UNCHANGED <<server, shown, changes>>

-----------------------------------------------------------------------------
(* The operator.                                                           *)

Pending(kinds) == \E q \in calls : q.kind \in kinds /\ q.owned
Modal == desk.dialog # "none"
Closed == [dialog |-> "none", text |-> None]

OpenGoalDialog ==
    /\ ~Modal
    /\ desk' = [desk EXCEPT !.dialog = "goal", !.text = shown.text]
    /\ UNCHANGED <<server, shown, calls, changes>>

TypeGoal ==
    /\ desk.dialog = "goal"
    /\ desk' = [desk EXCEPT !.text = Here]
    /\ UNCHANGED <<server, shown, calls, changes>>

\* A dialog may be left while its call is on its way; the next one has a call of its own.
CloseDialog ==
    /\ Modal
    /\ desk' = [desk EXCEPT !.dialog = "none", !.text = None]
    /\ calls' = {IF q.kind \in {"create", "update"} THEN [q EXCEPT !.owned = FALSE] ELSE q : q \in calls}
    /\ UNCHANGED <<server, shown, changes>>

Send(kind, goal) ==
    /\ Cardinality(calls) < MaxCalls
    /\ calls' = calls \cup {[kind |-> kind, goal |-> goal, text |-> desk.text, owned |-> TRUE, state |-> "sent"]}
    /\ UNCHANGED <<server, shown, desk, changes>>

\* Which goal is saved, and whether it is a new one, is what the page shows by now.
SaveGoal ==
    /\ desk.dialog = "goal"
    /\ desk.text # None
    /\ ~Pending({"create", "update"})
    /\ IF shown.goal = None THEN Send("create", None) ELSE Send("update", shown.goal)

AskCompletion ==
    /\ ~Modal
    /\ shown.goal # None
    /\ desk' = [desk EXCEPT !.dialog = "complete"]
    /\ UNCHANGED <<server, shown, calls, changes>>

ConfirmCompletion ==
    /\ desk.dialog = "complete"
    /\ shown.goal # None
    /\ ~Pending({"complete"})
    /\ Send("complete", shown.goal)

RefreshMarket ==
    /\ ~Modal
    /\ ~Pending({"refresh"})
    /\ Send("refresh", None)

\* Success closes the dialog that is open by now, if it is of its kind, and reads
\* the page again.  A refresh is over only when that has been done.
CallAnswered(q) ==
    /\ q.state = "done" /\ q.owned
    /\ desk' = CASE q.kind = "refresh"  -> [desk EXCEPT !.reading = Anew(TRUE)]
                 [] q.kind = "complete" -> [desk EXCEPT !.reading = Anew(desk.reading.for),
                                                        !.dialog = IF @ = "complete" THEN "none" ELSE @]
                 [] OTHER -> [desk EXCEPT !.reading = Anew(desk.reading.for),
                                          !.dialog = IF @ = "goal" THEN "none" ELSE @, !.text = None]
    /\ IF q.kind = "refresh" THEN Settled(q, "reading") ELSE calls' = calls \ {q}
    /\ UNCHANGED <<server, shown, changes>>

\* The answer to a dialog that was left closes the one that was opened since.
LateAnswer(q) ==
    /\ q.state = "done" /\ ~q.owned
    /\ calls' = calls \ {q}
    /\ desk' = [desk EXCEPT !.reading = Anew(desk.reading.for), !.dialog = IF @ = "goal" THEN "none" ELSE @,
                            !.text = IF desk.dialog = "goal" THEN None ELSE @]
    /\ UNCHANGED <<server, shown, changes>>

CallFails(q) ==
    /\ q.state \in {"sent", "done"}
    /\ calls' = calls \ {q}
    /\ UNCHANGED <<server, shown, desk, changes>>

-----------------------------------------------------------------------------
(* Other tabs, and the business going on.                                  *)

Elsewhere(s) ==
    /\ changes < MaxChanges
    /\ changes' = changes + 1
    /\ server' = s
    /\ UNCHANGED <<shown, desk, calls>>

CompletedElsewhere == Current # None /\
    Elsewhere([server EXCEPT !.goal[Current].status = "completed", !.goal[Current].result = server.profit])
CreatedElsewhere == Current = None /\
    \E g \in Goals :
        /\ ~Created(g) /\ \A h \in 1 .. g - 1 : Created(h)
        /\ Elsewhere([server EXCEPT !.goal[g].status = "active", !.goal[g].text = Abroad])
\* Payments, refunds or costs, of which the profit is added up, are recorded on other pages.
ProfitChanges == Elsewhere([server EXCEPT !.profit = changes + 1])

-----------------------------------------------------------------------------
Init ==
    /\ server = [goal   |-> [g \in Goals |-> [status |-> "absent", text |-> None, result |-> None]],
                 market |-> [price |-> None, checking |-> FALSE, resting |-> FALSE, asked |-> 0],
                 profit |-> None]
    /\ shown = View
    /\ desk = [dialog |-> "none", text |-> None, reading |-> Idle]
    /\ calls = {}
    /\ changes = 0

Operator ==
    \/ RefetchOnFocus \/ ReadServer \/ ReadingArrives \/ ReadingFails
    \/ OpenGoalDialog \/ TypeGoal \/ CloseDialog \/ SaveGoal
    \/ AskCompletion \/ ConfirmCompletion \/ RefreshMarket

Server ==
    \/ \E q \in calls :
        \/ CheckCreation(q) \/ InsertGoal(q) \/ UpdateGoal(q) \/ ComputeResult(q) \/ CompleteGoal(q)
        \/ AskProvider(q) \/ ProviderAnswers(q)
        \/ CallAnswered(q) \/ LateAnswer(q) \/ CallFails(q)
    \/ RestIsOver \/ CompletedElsewhere \/ CreatedElsewhere \/ ProfitChanges

Next == Operator \/ Server

Spec == Init /\ [][Next]_vars

-----------------------------------------------------------------------------
Texts == {None, Here, Abroad}
Results == 0 .. MaxChanges
Views == [goal : Goals \cup {None}, text : Texts, price : 0 .. MaxChecks]

TypeOK ==
    /\ server.goal \in [Goals -> [status : {"absent", "active", "completed"}, text : Texts, result : Results]]
    /\ server.market \in [price : 0 .. MaxChecks, checking : BOOLEAN, resting : BOOLEAN, asked : 0 .. MaxChecks]
    /\ shown \in Views
    /\ desk.dialog \in {"none", "goal", "complete"} /\ desk.text \in Texts
    /\ desk.reading \in [step : {"idle", "asked", "read"}, view : Views, for : BOOLEAN]
    /\ \A q \in calls : q.state \in {"sent", "checked", "done", "reading"}

(* However many tabs create, edit and complete goals at once: there is one  *)
(* goal to work for, and a goal that is completed keeps its text and its    *)
(* result.                                                                  *)
OneActiveGoal == \A g, h \in Goals : Active(g) /\ Active(h) => g = h
GoalStep ==
    /\ OneActiveGoal
    /\ \A g \in Goals : server.goal[g].status = "completed" => server'.goal[g] = server.goal[g]
CompletedGoalsStay == [][GoalStep]_vars

(* A refresh of the prices that ends well leaves the page with the price it *)
(* brought, or a newer one, also if an older reading of the page was under  *)
(* way when it was answered.                                                *)
RefreshStep ==
    \A q \in calls : (q.kind = "refresh" /\ q.state = "reading" /\ q \notin calls' /\ shown' = desk.reading.view
                      /\ desk.reading.step = "read") => shown'.price >= q.text
RefreshShowsWhatItFetched == [][RefreshStep]_vars

=============================================================================
