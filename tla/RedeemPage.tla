----------------------------- MODULE RedeemPage -----------------------------
(***************************************************************************)
(* The public page on which a customer redeems a code (RedeemPage.tsx), in *)
(* tabs that share a browser's storage: the announcement, the form, its    *)
(* confirmation, and the dialog that follows the application until the     *)
(* operator has decided.                                                   *)
(*                                                                         *)
(* A submission is sent, carried out by the server and answered in         *)
(* separate steps; its page may be closed and its answer lost in between.  *)
(* A status is read and shown in one step.  The operator's side is in      *)
(* RedemptionsPage; here it only decides, and takes an invitation back.    *)
(***************************************************************************)
EXTENDS RedemptionStore

CONSTANTS Tabs, StorageKeys,
          StorageKeyOf    \* the storage a tab keeps its tracking token in

ASSUME StorageAssumption == StorageKeyOf \in [Tabs -> StorageKeys]

VARIABLES
    stored,    \* localStorage: the token of the application a browser tracks
    tab,       \* the customers' pages
    stray      \* submissions whose page no longer waits for the answer

vars == <<code, app, sold, stored, tab, stray>>

-----------------------------------------------------------------------------
\* The page as it mounts: with a token in storage it goes on with that application.
Mounted(token) ==
    [settings |-> "loading", notice |-> token = NoApp, track |-> token,
     step |-> IF token = NoApp THEN "review" ELSE "progress",
     dialog |-> token # NoApp, review |-> Nothing, sending |-> "no", result |-> NoApp,
     seen |-> "none", failed |-> FALSE, shown |-> TRUE]

\* What the dialog of the page tells the customer about the application.
Tells(t) ==
    CASE ~tab[t].dialog                                       -> "closed"
      [] tab[t].dialog /\ tab[t].step = "review"              -> "review"
      [] tab[t].dialog /\ tab[t].step = "progress" /\ tab[t].failed -> "not found"
      [] OTHER -> IF tab[t].seen = "none" THEN "pending" ELSE tab[t].seen

\* The form below the dialogs can be handed in.
FormReachable(t) == ~tab[t].notice /\ ~tab[t].dialog /\ tab[t].sending = "no"

\* The review shows a button that submits, the progress one that starts over.
Confirmable(t) == Tells(t) = "review" /\ tab[t].review # Nothing /\ tab[t].sending = "no"
Restartable(t) == Tells(t) \in {"invited", "rejected", "not found"}

ReloadPage(t) ==
    /\ stray' = IF tab[t].sending = "asked" THEN stray \cup {tab[t].review} ELSE stray
    /\ tab' = [tab EXCEPT ![t] = Mounted(stored[StorageKeyOf[t]])]
    /\ UNCHANGED <<storeVars, stored>>

\* The browser shows another tab.
HidePage(t) ==
    /\ tab[t].shown
    /\ tab' = [tab EXCEPT ![t].shown = FALSE]
    /\ UNCHANGED <<storeVars, stored, stray>>

\* The page is looked at again: a status that never arrived is asked for anew.
ShowPage(t) ==
    /\ ~tab[t].shown
    /\ tab' = [tab EXCEPT ![t].shown = TRUE, ![t].failed = @ /\ tab[t].seen # "none"]
    /\ UNCHANGED <<storeVars, stored, stray>>

\* The settings arrive, or cannot be had: the defaults are shown and the page is ready.
SettingsArrive(t) ==
    /\ tab[t].settings = "loading"
    /\ tab' = [tab EXCEPT ![t].settings = "ready"]
    /\ UNCHANGED <<storeVars, stored, stray>>

\* The announcement cannot be dismissed before the page is ready.
CloseNotice(t) ==
    /\ tab[t].notice
    /\ tab[t].settings = "ready"
    /\ tab' = [tab EXCEPT ![t].notice = FALSE]
    /\ UNCHANGED <<storeVars, stored, stray>>

OpenNotice(t) ==
    /\ ~tab[t].notice
    /\ ~tab[t].dialog
    /\ tab' = [tab EXCEPT ![t].notice = TRUE]
    /\ UNCHANGED <<storeVars, stored, stray>>

\* The form is valid and its button is pressed: the customer is asked to check it.
ReviewSubmission(t) ==
    \E c \in Codes :
        /\ FormReachable(t)
        /\ tab' = [tab EXCEPT ![t].review = c, ![t].step = "review", ![t].dialog = TRUE]
        /\ UNCHANGED <<storeVars, stored, stray>>

\* The dialog stays while a submission is on its way and while an application is tracked.
CloseDialog(t) ==
    /\ tab[t].dialog
    /\ tab[t].sending = "no"
    /\ tab[t].step # "progress"
    /\ tab' = [tab EXCEPT ![t].dialog = FALSE]
    /\ UNCHANGED <<storeVars, stored, stray>>

ConfirmSubmission(t) ==
    /\ Confirmable(t)
    /\ tab' = [tab EXCEPT ![t].sending = "asked"]
    /\ UNCHANGED <<storeVars, stored, stray>>

ServerTakesSubmission(t) ==
    /\ tab[t].sending = "asked"
    /\ \/ /\ Redeemable(tab[t].review)
          /\ StoreApplication(tab[t].review)
          /\ tab' = [tab EXCEPT ![t].sending = "accepted", ![t].result = NextId]
       \/ /\ ~Redeemable(tab[t].review)
          /\ tab' = [tab EXCEPT ![t].sending = "refused"]
          /\ UNCHANGED storeVars
    /\ UNCHANGED <<stored, stray>>

ServerTakesStray ==
    \E c \in stray :
        /\ \/ /\ Redeemable(c)
                  /\ StoreApplication(c)
           \/ /\ ~Redeemable(c)
              /\ UNCHANGED storeVars
        /\ stray' = stray \ {c}
        /\ UNCHANGED <<stored, tab>>

SubmissionAccepted(t) ==
    /\ tab[t].sending = "accepted"
    /\ tab' = [tab EXCEPT ![t].sending = "no", ![t].result = NoApp, ![t].track = tab[t].result,
                          ![t].step = "progress", ![t].dialog = TRUE, ![t].review = Nothing,
                          ![t].seen = "none", ![t].failed = FALSE]
    /\ stored' = [stored EXCEPT ![StorageKeyOf[t]] = tab[t].result]
    /\ UNCHANGED <<storeVars, stray>>

\* A refusal, a failure of the network before the server or after it: a toast, and
\* the dialog stays as it is.
SubmissionFailed(t) ==
    /\ tab[t].sending # "no"
    /\ stray' = IF tab[t].sending = "asked" THEN stray \cup {tab[t].review} ELSE stray
    /\ tab' = [tab EXCEPT ![t].sending = "no", ![t].result = NoApp]
    /\ UNCHANGED <<storeVars, stored>>

\* The status is asked for when a token is tracked, and every five seconds while the
\* last one that arrived is pending; a deleted application is an error as well.
PollStatus(t) ==
    /\ tab[t].track # NoApp
    /\ LET status == app[tab[t].track].status
       IN  tab' = IF status = "deleted" THEN [tab EXCEPT ![t].failed = TRUE]
                  ELSE [tab EXCEPT ![t].seen = status, ![t].failed = FALSE]
    /\ UNCHANGED <<storeVars, stored, stray>>

PollUntilItFails(t) ==       \* mutant
    tab[t].shown /\ tab[t].track # NoApp /\ tab[t].seen \in {"none", "pending"} /\ ~tab[t].failed

\* The page asks only while it is looked at, and never again of its own accord once
\* the first answer was an error.
PollDue(t) ==
    /\ tab[t].shown
    /\ tab[t].track # NoApp
    /\ tab[t].seen = "pending" \/ (tab[t].seen = "none" /\ ~tab[t].failed)

PollFails(t) ==
    /\ tab[t].track # NoApp
    /\ ~tab[t].failed
    /\ tab' = [tab EXCEPT ![t].failed = TRUE]
    /\ UNCHANGED <<storeVars, stored, stray>>

\* A decided application, or one that cannot be found, may be left behind.
ResetApplication(t) ==
    /\ Restartable(t)
    /\ tab' = [tab EXCEPT ![t].track = NoApp, ![t].dialog = FALSE, ![t].step = "review",
                          ![t].review = Nothing, ![t].seen = "none", ![t].failed = FALSE]
    /\ stored' = [stored EXCEPT ![StorageKeyOf[t]] = NoApp]
    /\ UNCHANGED <<storeVars, stray>>

\* The operator decides, as RedemptionsPage has it in detail.
OperatorDecides(a) ==
    /\ Processable(a)
    /\ RejectApplication(a) \/ \E s \in FreeSeats : InviteApplication(a, s)
    /\ UNCHANGED <<stored, tab, stray>>

\* The registration is deleted as a mistake, or archived.
OperatorTakesBack(a) ==
    /\ Withdrawable(a)
    /\ \/ \E s \in sold \cup {Nothing} : ReturnApplication(a, s)
       \/ EraseApplication(a)
    /\ UNCHANGED <<stored, tab, stray>>

-----------------------------------------------------------------------------
Init ==
    /\ StoreInit
    /\ stored = [k \in StorageKeys |-> NoApp]
    /\ tab = [t \in Tabs |-> Mounted(NoApp)]
    /\ stray = {}

Customer(t) ==
    \/ ReloadPage(t) \/ HidePage(t) \/ ShowPage(t) \/ SettingsArrive(t) \/ CloseNotice(t) \/ OpenNotice(t)
    \/ ReviewSubmission(t) \/ CloseDialog(t) \/ ConfirmSubmission(t)
    \/ ServerTakesSubmission(t) \/ SubmissionAccepted(t) \/ SubmissionFailed(t)
    \/ PollStatus(t) \/ PollFails(t) \/ ResetApplication(t)

Next ==
    \/ \E t \in Tabs : Customer(t)
    \/ ServerTakesStray
    \/ \E a \in Apps : OperatorDecides(a) \/ OperatorTakesBack(a)

\* A page that is looked at asks every five seconds, and sooner or later it is answered.
Fairness == \A t \in Tabs : WF_vars(PollDue(t) /\ PollStatus(t))

Spec == Init /\ [][Next]_vars /\ Fairness

-----------------------------------------------------------------------------
TypeOK ==
    /\ StoreTypeOK
    /\ stored \in [StorageKeys -> Apps \cup {NoApp}]
    /\ tab \in [Tabs -> [settings : {"loading", "ready"}, notice : BOOLEAN, dialog : BOOLEAN,
                         track : Apps \cup {NoApp}, step : {"review", "progress"},
                         review : Codes \cup {Nothing}, result : Apps \cup {NoApp},
                         sending : {"no", "asked", "accepted", "refused"},
                         seen : AppStatuses, failed : BOOLEAN, shown : BOOLEAN]]
    /\ stray \subseteq Codes

\* Page t is looked at and follows application a, whose decision stands.
Waits(t, a) == tab[t].shown /\ tab[t].track = a /\ app[a].status \in Decided

(* A customer whose page has once read that the application is pending is  *)
(* told the decision itself, without touching the page and though single   *)
(* polls fail: unless the page is reloaded, left or put in the background  *)
(* before, or the decision is taken back.                                  *)
DecisionReachesCustomer ==
    \A t \in Tabs : \A a \in Apps :
        (Waits(t, a) /\ tab[t].seen = "pending")
            ~> (Tells(t) = app[a].status \/ ~Waits(t, a) \/ tab[t].seen = "none")

(* A page that says of a decided application that there is none still asks *)
(* for it.  The program does not promise this (the configuration           *)
(* FirstPollFails shows it): after a first poll that fails, or one that    *)
(* fails when the decision was shown already, the page asks no more.       *)
NotFoundIsAskedAgain ==
    \A t \in Tabs : \A a \in Apps : (Waits(t, a) /\ Tells(t) = "not found") => PollDue(t)

=============================================================================
