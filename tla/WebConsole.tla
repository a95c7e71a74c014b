----------------------------- MODULE WebConsole -----------------------------
(***************************************************************************)
(* The console of the operator as the browser runs it: the router shows    *)
(* one page at a time (App.tsx), and every page keeps its own state.       *)
(*                                                                         *)
(* A behaviour is that of one page, chosen at the start.  What a page does *)
(* is in the module named after it; here its variables are laid on a       *)
(* common set, its bounds are given, and its properties are named, so that *)
(* the pages are checked together.  The session that all pages share       *)
(* (ClientSession) is one of them.                                         *)
(***************************************************************************)
EXTENDS Integers

CONSTANTS Pages,          \* the pages that are looked at
          Nobody,         \* no customer, account, code or seat
          Subscriptions, Accounts, Codes, Seats, Tabs,
          Itself,         \* the customer or owner: each subscription and account has its own
          Fields, Scenarios, DueField, Opaque,
          Contacts, CardPrices,
          Period,         \* days between two due dates of a customer
          MaxDays,        \* an extension may be as long as this
          Openings, Month, Notice, MaxSeats, MaxFreeze,    \* as in AccountsPage
          LowPrice,       \* seats below it are recommended for an increase
          Paid            \* as in AfterSalesPage

\* Bounds: what a page does, named as in its module, its calls and its last day.
CONSTANTS MaxCalls, FewCalls, MaxChanges, MaxKeys, MaxSteps, MaxPeriods, MaxVersion, MaxApps,
          MaxRequests, MaxSessions, MaxResets, MaxDepartures, CareDays, AccountDays, CardDays,
          MaxPrice, MaxGoals, MaxChecks,
          TypedPrices, FewPrices      \* the prices that are typed where there are many or few calls

VARIABLES
    page,       \* the page
    server,     \* what the server keeps for it
    shown,      \* what it last read
    desk,       \* its selection, forms and dialogs
    calls,      \* its calls that are not answered yet
    changes,    \* counts what happens elsewhere
    log         \* what the server has recorded beside

vars == <<page, server, shown, desk, calls, changes, log>>

NoLog == 0

-----------------------------------------------------------------------------
(* The pages, their variables laid on the common ones.  Repricing and      *)
(* redemptions are looked at twice: many customers or codes and one call   *)
(* at a time, and one of them with two calls.                              *)

Pricing(subscriptions, prices, most) ==
    INSTANCE RepricingDesk WITH row <- server, Subscriptions <- subscriptions, CustomerOf <- Itself,
        Typed <- prices, Market <- LowPrice, MaxCalls <- most

Care ==
    INSTANCE CustomerCare WITH sub <- server, event <- log, Subscriptions <- Accounts,
        LastDay <- CareDays, MaxCalls <- FewCalls

Goals == INSTANCE GoalBoard

Settings == INSTANCE SettingsPage WITH MaxChanges <- MaxSteps

Owners ==
    INSTANCE AccountsPage WITH OwnerOf <- Itself, MaxCalls <- FewCalls, LastDay <- AccountDays

Cards ==
    INSTANCE SubscriptionsPage WITH NoContact <- Nobody, Prices <- CardPrices, Month <- Period,
        MaxCalls <- FewCalls, LastDay <- CardDays

AfterSales ==
    INSTANCE AfterSalesPage WITH Cases <- Accounts, Home <- Nobody

Redemptions ==
    INSTANCE RedemptionsPage WITH code <- server, app <- shown, sold <- log, Nothing <- Nobody,
        MaxCalls <- FewCalls

RedemptionCalls ==
    INSTANCE RedemptionsPage WITH code <- server, app <- shown, sold <- log, Nothing <- Nobody,
        Codes <- Accounts

Session ==
    INSTANCE ClientSession WITH browser <- server, tab <- desk, requests <- calls

ASSUME PageAssumptions ==
    /\ Pricing(Subscriptions, FewPrices, FewCalls)!RepricingAssumption
    /\ Pricing(Accounts, TypedPrices, MaxCalls)!RepricingAssumption
    /\ Care!CareAssumption /\ Owners!AccountsAssumption
    /\ Redemptions!CallsAssumption /\ RedemptionCalls!CallsAssumption
    /\ MaxApps \in Nat \ {0} /\ MaxPeriods \in Nat /\ MaxVersion \in Nat \ {0} /\ CardDays \in Nat \ {0}
    /\ MaxGoals \in Nat /\ MaxChecks \in Nat /\ Paid \in Nat
    /\ CareDays \in Nat \ {0} /\ MaxSteps \in Nat /\ DueField \in Fields
    /\ Openings \subseteq 1 .. AccountDays /\ MaxSeats \in Nat \ {0} /\ MaxFreeze \in Nat \ {0}
    /\ MaxSessions \in Nat \ {0} /\ MaxRequests \in Nat /\ MaxResets \in Nat
    /\ Nobody \notin Codes \cup Accounts \cup Seats

-----------------------------------------------------------------------------
Unused(v) == v = NoLog

Init ==
    /\ page \in Pages
    /\ \/ page = "repricing" /\ Pricing(Subscriptions, FewPrices, FewCalls)!Init /\ Unused(log)
       \/ page = "repricing calls" /\ Pricing(Accounts, TypedPrices, MaxCalls)!Init /\ Unused(log)
       \/ page = "care" /\ Care!Init
       \/ page = "goals" /\ Goals!Init /\ Unused(log)
       \/ page = "settings" /\ Settings!Init /\ Unused(log)
       \/ page = "accounts" /\ Owners!Init /\ Unused(log)
       \/ page = "cards" /\ Cards!Init /\ Unused(log)
       \/ page = "after-sales" /\ AfterSales!Init /\ Unused(log)
       \/ page = "redemptions" /\ Redemptions!Init /\ Unused(changes)
       \/ page = "redemption calls" /\ RedemptionCalls!Init /\ Unused(changes)
       \/ page = "session" /\ Session!Init /\ Unused(shown) /\ Unused(changes) /\ Unused(log)

Next ==
    /\ UNCHANGED page
    /\ \/ page = "repricing" /\ Pricing(Subscriptions, FewPrices, FewCalls)!Next /\ UNCHANGED log
       \/ page = "repricing calls" /\ Pricing(Accounts, TypedPrices, MaxCalls)!Next /\ UNCHANGED log
       \/ page = "care" /\ Care!Next
       \/ page = "goals" /\ Goals!Next /\ UNCHANGED log
       \/ page = "settings" /\ Settings!Next /\ UNCHANGED log
       \/ page = "accounts" /\ Owners!Next /\ UNCHANGED log
       \/ page = "cards" /\ Cards!Next /\ UNCHANGED log
       \/ page = "after-sales" /\ AfterSales!Next /\ UNCHANGED log
       \/ page = "redemptions" /\ Redemptions!Next /\ UNCHANGED changes
       \/ page = "redemption calls" /\ RedemptionCalls!Next /\ UNCHANGED changes
       \/ page = "session" /\ Session!Next /\ UNCHANGED <<shown, changes, log>>

Spec == Init /\ [][Next]_vars

-----------------------------------------------------------------------------
(* The types of all pages.                                                 *)
TypeOK ==
    /\ page = "repricing" => Pricing(Subscriptions, FewPrices, FewCalls)!TypeOK
    /\ page = "repricing calls" => Pricing(Accounts, TypedPrices, MaxCalls)!TypeOK
    /\ page = "care" => Care!TypeOK
    /\ page = "goals" => Goals!TypeOK
    /\ page = "settings" => Settings!TypeOK
    /\ page = "accounts" => Owners!TypeOK
    /\ page = "cards" => Cards!TypeOK
    /\ page = "after-sales" => AfterSales!TypeOK
    /\ page = "redemptions" => Redemptions!TypeOK
    /\ page = "redemption calls" => RedemptionCalls!TypeOK
    /\ page = "session" => Session!TypeOK

(* The properties of the pages, each stated in the page's own module.      *)

\* Prices are scheduled only within the safeguards (RepricingDesk).
SafeguardsHoldWhenWritten ==
    [][/\ page = "repricing" => Pricing(Subscriptions, FewPrices, FewCalls)!PriceStep
       /\ page = "repricing calls" => Pricing(Accounts, TypedPrices, MaxCalls)!PriceStep]_vars

\* A due date moves once, by what was asked for (CustomerCare).
DueDateIsTheOneAskedFor == [][page = "care" => Care!DueDateStep]_vars

\* No extension moves a period that is paid (CustomerCare).
PaidPeriodsStandStill == [][page = "care" => Care!PaidStep]_vars

\* One goal is active, completed ones keep their result (GoalBoard).
CompletedGoalsStay == [][page = "goals" => Goals!GoalStep]_vars

\* A refresh shows the price it fetched (GoalBoard).
RefreshShowsWhatItFetched == [][page = "goals" => Goals!RefreshStep]_vars

\* A preview is of the text in the form (SettingsPage).
PreviewIsOfThisText == page = "settings" => Settings!PreviewIsOfThisText

\* File, rows and configuration in use are from one save (SettingsPage).
OneSaveEverywhere == page = "settings" => Settings!OneSaveEverywhere

\* A save keeps what its form did not touch (SettingsPage).
SavesKeepTheRest == [][page = "settings" => Settings!SaveStep]_vars

\* Renewals are of the opening date and follow what is in the ledger (AccountsPage).
RenewalsFollowTheLedger == [][page = "accounts" => Owners!LedgerStep]_vars

\* Not promised: the renewals of an account have no gap (AccountsPage).
LedgerHasNoGaps == page = "accounts" => Owners!LedgerHasNoGaps

\* What was settled stands (AfterSalesPage).
RefundsStandAsPaid == [][page = "after-sales" => AfterSales!RefundStep]_vars

\* A deferral is for the first unpaid date (SubscriptionsPage).
DeferredAtFirstUnpaid == page = "cards" => Cards!DeferredAtFirstUnpaid

\* An invitation goes to whom it was typed for (RedemptionsPage).
InvitationWasTypedForIt ==
    /\ page = "redemptions" => Redemptions!InvitationWasTypedForIt
    /\ page = "redemption calls" => RedemptionCalls!InvitationWasTypedForIt

\* A decision on an application is final (RedemptionStore).
DecisionIsFinal ==
    [][/\ page = "redemptions" => Redemptions!DecisionStep
       /\ page = "redemption calls" => RedemptionCalls!DecisionStep]_vars

\* A write runs once, on the side it was made for (ClientSession).
RunsOnceOnItsOwnSide == page = "session" => Session!RunsOnceOnItsOwnSide

\* Whoever waits for a token is answered (ClientSession).
WaitersAreAnswered == page = "session" => Session!WaitersAreAnswered

=============================================================================
