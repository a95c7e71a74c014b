---------------------------- MODULE AccountsPage ----------------------------
(***************************************************************************)
(* The page of the owner accounts (AccountsPage.tsx and its dialogs), with *)
(* the ledger of their monthly renewals (account_cost.go, store.go).  A    *)
(* renewal is registered by hand on the page or by the scheduler; both     *)
(* read the account, then its ledger, and write to it in a later step, and *)
(* in between an account may be edited, banned, or renewed by the other.   *)
(*                                                                         *)
(* Days are counted; a month has Month days.  Of an account's other fields *)
(* only its number of seats is kept, of its seats one that may be cooling  *)
(* down after a customer has left.                                         *)
(***************************************************************************)
EXTENDS Integers, FiniteSets

CONSTANTS Accounts,
          Nobody,         \* no account
          OwnerOf,        \* the owner mailbox that links accounts into a pause group
          Openings,       \* bound: opening dates that are entered
          Month,          \* days between two renewals
          Notice,         \* days before a renewal from which it may be registered
          MaxSeats,       \* bound: seats of an account
          MaxFreeze,      \* longest cool-down that may be set, in days
          MaxCalls,       \* bound: calls in flight
          MaxDepartures,  \* bound: customers who leave
          LastDay         \* bound: the last day

AccountsAssumption ==
    /\ Openings \subseteq Nat \ {0} /\ Nobody \notin Accounts
    /\ Month \in Nat \ {0} /\ Notice \in 0 .. Month
    /\ MaxSeats \in Nat /\ LastDay \in Nat \ {0}

VARIABLES
    server,     \* accounts with their ledgers, the day, and the scheduler's run for each
    shown,      \* the accounts as the page last read them
    desk,       \* the dialog that is open
    calls,      \* the mutations that are not answered yet
    changes     \* counts the customers who have left

vars == <<server, shown, desk, calls, changes>>

Days == 1 .. LastDay
NoDay == 0
Latest(D) == CHOOSE d \in D : \A e \in D : e <= d

-----------------------------------------------------------------------------
(* The server's accounts.                                                  *)

\* The first renewal day of an account after the given one.
NextAnniversary(opened, after) ==
    CHOOSE d \in {opened + k * Month : k \in 1 .. LastDay + Month} :
        d > after /\ d - Month <= (IF after < opened THEN opened ELSE after)

\* The renewal that is due next: there is none before the account was first paid for.
NextRenewal(r) == IF r.ledger = {} THEN NoDay ELSE NextAnniversary(r.opened, Latest(r.ledger))

Registrable(r) == NextRenewal(r) # NoDay /\ NextRenewal(r) <= server.day + Notice
Renewed(r) == \E d \in r.ledger : d # r.opened

Cooling(r) == r.until > server.day

View ==
    [a \in Accounts |->
        LET r == server.row[a]
        IN  [paused |-> r.paused, banned |-> r.banned,
             renewal |-> IF ~r.banned /\ ~r.zero /\ Registrable(r) THEN NextRenewal(r) ELSE NoDay,
             cooling |-> Cooling(r)]]

Settled(q, state) == calls' = (calls \ {q}) \cup {[q EXCEPT !.state = state]}

\* A call that is refused, or lost, only frees the button it was sent with.
Refuse(q) == calls' = calls \ {q} /\ UNCHANGED server
Written(a, r) == server' = [server EXCEPT !.row[a] = r]

\* The opening date is fixed once the account was renewed; until then its first
\* payment moves with it.  Seats that a customer has had are not taken away.
UpdateAccount(q) ==
    LET r == server.row[q.account]
    IN  /\ q.kind = "update" /\ q.state = "sent"
        /\ IF (q.opened # r.opened /\ Renewed(r)) \/ q.seats < r.used
           THEN Refuse(q)
           ELSE /\ Written(q.account, [r EXCEPT !.opened = q.opened, !.seats = q.seats, !.zero = q.zero,
                                                !.ledger = IF Renewed(r) THEN @ ELSE {q.opened}])
                /\ Settled(q, "done")
        /\ UNCHANGED <<shown, desk, changes>>

\* A renewal is checked in three readings, the account, the period in its ledger, and
\* the last period there: one that is registered is done, another one has to be the next
\* after what was read.
MarkAccountRenewed(q) ==
    LET r == server.row[q.account]
    IN  /\ q.kind = "renew" /\ q.state = "sent"
        /\ IF r.banned THEN Refuse(q)
           ELSE /\ calls' = (calls \ {q}) \cup {[q EXCEPT !.state = "read", !.opened = r.opened]}
                /\ UNCHANGED server
        /\ UNCHANGED <<shown, desk, changes>>

LookForPeriod(q) ==
    /\ q.kind = "renew" /\ q.state = "read"
    /\ Settled(q, IF q.day \in server.row[q.account].ledger THEN "done" ELSE "unregistered")
    /\ UNCHANGED <<server, shown, desk, changes>>

CheckRenewal(q) ==
    LET latest == Latest(server.row[q.account].ledger)
    IN  /\ q.kind = "renew" /\ q.state = "unregistered"
        /\ IF q.day = NextAnniversary(q.opened, latest) /\ q.day <= server.day + Notice
           THEN /\ calls' = (calls \ {q}) \cup {[q EXCEPT !.state = "checked", !.after = latest]}
                /\ UNCHANGED server
           ELSE Refuse(q)
        /\ UNCHANGED <<shown, desk, changes>>

AccruableAnyway(r, opened) == TRUE     \* mutant

\* The period is entered only if the account was opened when the renewal was worked out.
Accruable(r, opened) == r.opened = opened
Accrued(r, day) == IF r.banned THEN r ELSE [r EXCEPT !.ledger = @ \cup {day}]

AccrueRenewal(q) ==
    LET r == server.row[q.account]
    IN  /\ q.kind = "renew" /\ q.state = "checked"
        /\ IF Accruable(r, q.opened)
           THEN Written(q.account, Accrued(r, q.day)) /\ Settled(q, "done")
           ELSE Refuse(q)
        /\ UNCHANGED <<shown, desk, changes>>

\* The scheduler lists the accounts and takes the date, then looks at the ledger of each
\* and enters every period up to that date, one after the other.
NoRun == [opened |-> NoDay, today |-> NoDay, after |-> NoDay, day |-> NoDay]

ProcessAccountCostRenewals ==
    /\ \A a \in Accounts : server.run[a] = NoRun
    /\ server' = [server EXCEPT !.run = [a \in Accounts |->
            IF server.row[a].banned THEN NoRun
            ELSE [NoRun EXCEPT !.opened = server.row[a].opened, !.today = server.day]]]
    /\ UNCHANGED <<shown, desk, calls, changes>>

\* Of the periods that follow the given one, the next to be entered, if it is due.
Onward(run, after) ==
    LET next == NextAnniversary(run.opened, after)
    IN  IF next <= run.today THEN [run EXCEPT !.after = after, !.day = next] ELSE NoRun

StartAccrual(a) ==
    LET run == server.run[a]
    IN  /\ run.opened # NoDay /\ run.day = NoDay
        /\ server' = [server EXCEPT !.run[a] = Onward(run, Latest(server.row[a].ledger))]
        /\ UNCHANGED <<shown, desk, calls, changes>>

AccrueNext(a) ==
    LET run == server.run[a]
        r == server.row[a]
    IN  /\ run.day # NoDay
        /\ server' = IF Accruable(r, run.opened)
                     THEN [server EXCEPT !.row[a] = Accrued(r, run.day), !.run[a] = Onward(run, run.day)]
                     ELSE [server EXCEPT !.run[a] = NoRun]
        /\ UNCHANGED <<shown, desk, calls, changes>>

\* All spaces of an owner are paused and resumed together.
SetAvailability(q) ==
    /\ q.kind = "availability" /\ q.state = "sent"
    /\ server' = [server EXCEPT !.row = [b \in Accounts |->
            IF OwnerOf[b] = OwnerOf[q.account] THEN [@[b] EXCEPT !.paused = q.paused] ELSE @[b]]]
    /\ Settled(q, "done")
    /\ UNCHANGED <<shown, desk, changes>>

BanAccount(q) ==
    /\ q.kind = "ban" /\ q.state = "sent"
    /\ Written(q.account, [server.row[q.account] EXCEPT !.banned = TRUE])
    /\ Settled(q, "done")
    /\ UNCHANGED <<shown, desk, changes>>

\* Whoever is cooling down on the seat by now is meant.
SetFreeze(q) ==
    LET r == server.row[q.account]
    IN  /\ q.kind \in {"freeze", "release"} /\ q.state = "sent"
        /\ IF ~Cooling(r) \/ (q.kind = "freeze" /\ q.day \notin server.day + 1 .. server.day + MaxFreeze)
           THEN Refuse(q)
           ELSE /\ Written(q.account, [r EXCEPT !.until = IF q.kind = "release" THEN server.day ELSE q.day])
                /\ Settled(q, "done")
        /\ UNCHANGED <<shown, desk, changes>>

-----------------------------------------------------------------------------
(* The page.                                                               *)

Closed == [dialog |-> "none", account |-> Nobody, day |-> NoDay]

\* A call keeps the button of its dialog until it is answered.
Pending(kinds) == \E q \in calls : q.kind \in kinds /\ q.held
StaysOnPage == UNCHANGED <<server, shown, calls, changes>>

Open(dialog, a, day) ==
    /\ desk.dialog = "none"
    /\ desk' = [dialog |-> dialog, account |-> a, day |-> day]
    /\ StaysOnPage

\* A dialog is opened for an account of the list.  What its fields start from does
\* not matter where they may be edited, the renewal is the one on screen.
OpenEdit(a) == Open("account", a, NoDay)
OpenRenewal(a) == shown[a].renewal # NoDay /\ Open("renewal", a, shown[a].renewal)
OpenBan(a) == ~shown[a].banned /\ Open("ban", a, NoDay)

\* Also a link from another page opens it.
OpenFreezeEditor(a) == shown[a].cooling /\ Open("freeze", a, NoDay)

AskRelease ==
    /\ desk.dialog \in {"freeze", "release"}
    /\ ~Pending({"freeze", "release"})
    /\ desk' = [desk EXCEPT !.dialog = IF @ = "freeze" THEN "release" ELSE "freeze"]
    /\ StaysOnPage

\* Only the renewal waits for its answer.  The editor of a cool-down is gone with
\* its dialog, the next one has buttons of its own.
CloseDialog ==
    /\ desk.dialog \in {"account", "renewal", "ban", "freeze"}
    /\ desk.dialog = "renewal" => ~Pending({"renew"})
    /\ desk' = Closed
    /\ calls' = {IF q.kind \in {"freeze", "release"} THEN [q EXCEPT !.held = FALSE] ELSE q : q \in calls}
    /\ UNCHANGED <<server, shown, changes>>

Call(kind, a) == [kind |-> kind, account |-> a, opened |-> NoDay, seats |-> 0, zero |-> FALSE, day |-> NoDay,
                  after |-> NoDay, paused |-> FALSE, held |-> TRUE, state |-> "sent"]
Send(q) ==
    /\ Cardinality(calls) < MaxCalls
    /\ calls' = calls \cup {q}
    /\ UNCHANGED <<server, shown, desk, changes>>

SaveAccount ==
    \E opened \in Openings, seats \in 1 .. MaxSeats, zero \in BOOLEAN :
        /\ desk.dialog = "account"
        /\ ~Pending({"update"})
        /\ Send([Call("update", desk.account) EXCEPT !.opened = opened, !.seats = seats, !.zero = zero])
ConfirmRenewal ==
    /\ desk.dialog = "renewal"
    /\ ~Pending({"renew"})
    /\ Send([Call("renew", desk.account) EXCEPT !.day = desk.day])
ToggleAvailability(a) ==
    /\ desk.dialog = "none"
    /\ ~shown[a].banned
    /\ ~Pending({"availability"})
    /\ Send([Call("availability", a) EXCEPT !.paused = ~shown[a].paused])
ConfirmBan ==
    /\ desk.dialog = "ban"
    /\ ~Pending({"ban"})
    /\ Send(Call("ban", desk.account))
SaveFreeze ==
    \E day \in Days :
        /\ desk.dialog = "freeze"
        /\ ~Pending({"freeze", "release"})
        /\ Send([Call("freeze", desk.account) EXCEPT !.day = day])
ConfirmRelease ==
    /\ desk.dialog = "release"
    /\ ~Pending({"release"})
    /\ Send(Call("release", desk.account))

Refetch ==
    /\ shown' = View
    /\ UNCHANGED <<server, desk, calls, changes>>

\* Success closes the dialog of its kind, whichever account it is open for by now;
\* a ban leaves the page, and whatever is open there.
Closes(kind) ==
    CASE kind = "update"       -> {"account"}
      [] kind = "renew"        -> {"renewal"}
      [] kind = "availability" -> {}
      [] kind = "ban"          -> {"account", "renewal", "ban", "freeze", "release"}
      [] OTHER                 -> {"freeze", "release"}

CallAnswered(q) ==
    /\ q.state = "done"
    /\ calls' = calls \ {q}
    /\ desk' = IF desk.dialog \in Closes(q.kind) THEN Closed ELSE desk
    /\ UNCHANGED <<server, shown, changes>>

CallFails(q) ==
    /\ q.state \in {"sent", "done"}
    /\ calls' = calls \ {q}
    /\ UNCHANGED <<server, shown, desk, changes>>

-----------------------------------------------------------------------------
(* The passing of time, and customers who leave.                           *)

DayPasses ==
    /\ server.day < LastDay
    /\ server' = [server EXCEPT !.day = @ + 1]
    /\ UNCHANGED <<shown, desk, calls, changes>>

CustomerLeaves(a) ==
    /\ changes < MaxDepartures
    /\ ~Cooling(server.row[a])
    /\ changes' = changes + 1
    /\ server' = [server EXCEPT !.row[a].until = server.day + 1]
    /\ UNCHANGED <<shown, desk, calls>>

-----------------------------------------------------------------------------
\* An account is created with its first payment on the day it was opened.
Init ==
    /\ \E opened \in Openings :
        server = [row |-> [a \in Accounts |->
                            [opened |-> opened, ledger |-> {opened}, seats |-> MaxSeats, used |-> 1,
                             zero |-> FALSE, paused |-> FALSE, banned |-> FALSE, until |-> NoDay]],
                  day |-> 1, run |-> [a \in Accounts |-> NoRun]]
    /\ shown = View
    /\ desk = Closed
    /\ calls = {}
    /\ changes = 0

Operator ==
    \/ \E a \in Accounts :
        OpenEdit(a) \/ OpenRenewal(a) \/ OpenBan(a) \/ OpenFreezeEditor(a) \/ ToggleAvailability(a)
    \/ AskRelease \/ CloseDialog
    \/ SaveAccount \/ ConfirmRenewal \/ ConfirmBan \/ SaveFreeze \/ ConfirmRelease
    \/ Refetch

Server ==
    \/ \E q \in calls :
        \/ UpdateAccount(q) \/ SetAvailability(q) \/ BanAccount(q) \/ SetFreeze(q)
        \/ MarkAccountRenewed(q) \/ LookForPeriod(q) \/ CheckRenewal(q) \/ AccrueRenewal(q)
        \/ CallAnswered(q) \/ CallFails(q)
    \/ ProcessAccountCostRenewals \/ DayPasses
    \/ \E a \in Accounts : StartAccrual(a) \/ AccrueNext(a) \/ CustomerLeaves(a)

Next == Operator \/ Server

Spec == Init /\ [][Next]_vars

-----------------------------------------------------------------------------
TypeOK ==
    /\ server.row \in [Accounts -> [opened : Openings, ledger : SUBSET (1 .. LastDay + Month),
                                    seats : 1 .. MaxSeats, used : 0 .. MaxSeats, zero : BOOLEAN, paused : BOOLEAN, banned : BOOLEAN,
                                    until : 0 .. LastDay + MaxFreeze]]
    /\ server.run \in [Accounts -> [opened : Openings \cup {NoDay}, today : 0 .. LastDay,
                                    after : Nat, day : 0 .. LastDay]]
    /\ desk.dialog \in {"none", "account", "renewal", "ban", "freeze", "release"}
    /\ \A q \in calls :
        q.account \in Accounts /\ q.state \in {"sent", "read", "unregistered", "checked", "done"}

\* A ledger begins with the opening date and has only months of it.
Monthly(r) ==
    /\ r.opened \in r.ledger
    /\ \A d \in r.ledger : d >= r.opened /\ (d - r.opened) % Month = 0

\* What an entry was worked out from is not in the ledger any more.
Overtaken(a, d) ==
    \/ \E q \in calls :
        q.account = a /\ q.state = "checked" /\ q.day = d /\ q.after \notin server.row[a].ledger
    \/ server.run[a].day = d /\ server.run[a].after \notin server.row[a].ledger

(* Whoever registers a renewal, and whatever happens while it is on its    *)
(* way, it is of the opening date that the account has when it is entered, *)
(* and the month before it is in the ledger.  One case is excepted: the    *)
(* opening date was moved and moved back while the renewal was worked out, *)
(* from a period that has gone; the date is all that is compared.          *)
LedgerStep ==
    \A a \in Accounts :
        /\ Monthly(server.row[a])'
        /\ \A d \in server'.row[a].ledger \ server.row[a].ledger :
            \/ d = server'.row[a].opened
            \/ d - Month \in server.row[a].ledger
            \/ Overtaken(a, d)
RenewalsFollowTheLedger == [][LedgerStep]_vars

\* Without the exception it does not hold (RenewalSkipped shows it): a renewal can be skipped for good.
LedgerHasNoGaps ==
    \A a \in Accounts : LET r == server.row[a] IN \A d \in r.ledger \ {r.opened} : d - Month \in r.ledger

=============================================================================
