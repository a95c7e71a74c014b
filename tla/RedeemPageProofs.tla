-------------------------- MODULE RedeemPageProofs --------------------------
(* The page of the customer, for all codes, tabs and browsers: what is        *)
(* submitted twice, from two tabs or again after a lost answer never gives    *)
(* a code to two applications.                                                *)
EXTENDS RedeemPage, RedemptionStoreProofs

TabRows ==
  [settings : {"loading", "ready"}, notice : BOOLEAN, dialog : BOOLEAN,
   track : Apps \cup {NoApp}, step : {"review", "progress"},
   review : Codes \cup {Nothing}, result : Apps \cup {NoApp},
   sending : {"no", "asked", "accepted", "refused"},
   seen : AppStatuses, failed : BOOLEAN, shown : BOOLEAN]

(* What is on its way to the server is the code of the form, and until it is  *)
(* answered the dialog shows that form and no earlier application.            *)
Sends(r) ==
  /\ r.sending = "asked" => r.review \in Codes
  /\ r.sending # "no" => r.step = "review"

AsksForCode == \A t \in Tabs : Sends(tab[t])

(* The strengthening of the invariant that a step preserves.                  *)
PageInv == StoreInv /\ TypeOK /\ AsksForCode

-----------------------------------------------------------------------------
LEMMA MountedIsTab ==
  ASSUME NEW token \in Apps \cup {NoApp}
  PROVE  Mounted(token) \in TabRows /\ Sends(Mounted(token))
BY DEF Mounted, TabRows, AppStatuses, Sends

LEMMA PageStart ==
  ASSUME Init
  PROVE  PageInv
<1>1. StoreInv
  BY StoreStart DEF Init
<1>2. \A t \in Tabs : tab[t] \in TabRows /\ Sends(tab[t])
  BY MountedIsTab DEF Init
<1>3. tab \in [Tabs -> TabRows]
  BY <1>2 DEF Init
<1>4. stored \in [StorageKeys -> Apps \cup {NoApp}] /\ stray \subseteq Codes
  BY DEF Init
<1> QED  BY <1>1, <1>2, <1>3, <1>4 DEF PageInv, TypeOK, TabRows, AsksForCode, StoreInv

(* A step of the page that leaves the server alone.                           *)
LEMMA PageOnly ==
  ASSUME PageInv, UNCHANGED storeVars,
         stored' \in [StorageKeys -> Apps \cup {NoApp}],
         tab' \in [Tabs -> TabRows], stray' \subseteq Codes,
         \A t \in Tabs : Sends(tab'[t])
  PROVE  PageInv' /\ DecisionStep
<1>1. StoreInv' /\ DecisionStep
  BY StoreRests DEF PageInv
<1> QED  BY <1>1 DEF PageInv, TypeOK, TabRows, AsksForCode, StoreInv

(* A step that writes the store.                                              *)
LEMMA StoreAndPage ==
  ASSUME PageInv, StoreInv', DecisionStep, stored' = stored,
         tab' \in [Tabs -> TabRows], stray' \subseteq Codes,
         \A t \in Tabs : Sends(tab'[t])
  PROVE  PageInv' /\ DecisionStep
BY DEF PageInv, TypeOK, TabRows, AsksForCode, StoreInv

LEMMA TabUpdate ==
  ASSUME NEW t \in Tabs, PageInv, NEW r \in TabRows, tab' = [tab EXCEPT ![t] = r],
         Sends(r)
  PROVE  /\ tab' \in [Tabs -> TabRows]
         /\ \A u \in Tabs : Sends(tab'[u])
BY DEF PageInv, TypeOK, TabRows, AsksForCode

LEMMA TabIsRow ==
  ASSUME PageInv, NEW t \in Tabs
  PROVE  tab[t] \in TabRows
BY DEF PageInv, TypeOK, TabRows

LEMMA StraysAreCodes ==
  ASSUME PageInv, NEW t \in Tabs,
         stray' = IF tab[t].sending = "asked" THEN stray \cup {tab[t].review} ELSE stray
  PROVE  stray' \subseteq Codes
BY DEF PageInv, TypeOK, AsksForCode, Sends

-----------------------------------------------------------------------------
(* The steps of a customer *)

LEMMA CustomerSteps ==
  ASSUME PageInv, NEW t \in Tabs, Customer(t)
  PROVE  PageInv' /\ DecisionStep
<1> DEFINE T == tab[t]
<1>0. /\ T \in TabRows
      /\ Sends(T)
      /\ stored \in [StorageKeys -> Apps \cup {NoApp}]
      /\ stray \subseteq Codes
      /\ StorageKeyOf[t] \in StorageKeys
      /\ tab \in [Tabs -> TabRows]
  BY TabIsRow, StorageAssumption DEF PageInv, TypeOK, AsksForCode, TabRows
<1>1. CASE ReloadPage(t)
  <2>1. tab' = [tab EXCEPT ![t] = Mounted(stored[StorageKeyOf[t]])]
    BY <1>1 DEF ReloadPage
  <2>2. stray' \subseteq Codes /\ stored' = stored /\ UNCHANGED storeVars
    BY <1>1, StraysAreCodes DEF ReloadPage
  <2>3. stored[StorageKeyOf[t]] \in Apps \cup {NoApp}
    BY <1>0
  <2>4. /\ Mounted(stored[StorageKeyOf[t]]) \in TabRows
        /\ Sends(Mounted(stored[StorageKeyOf[t]]))
    BY <2>3, MountedIsTab
  <2> QED  BY <1>0, <2>1, <2>2, <2>4, TabUpdate, PageOnly
<1>2. CASE SettingsArrive(t)
  <2>1. tab' = [tab EXCEPT ![t] = [T EXCEPT !.settings = "ready"]]
    BY <1>2, <1>0 DEF SettingsArrive
  <2>2. stored' = stored /\ stray' = stray /\ UNCHANGED storeVars
    BY <1>2 DEF SettingsArrive
  <2> DEFINE r == [T EXCEPT !.settings = "ready"]
  <2>3. r \in TabRows /\ Sends(r)
    BY <1>0 DEF TabRows, Sends
  <2> QED  BY <1>0, <2>1, <2>2, <2>3, TabUpdate, PageOnly
<1>3. CASE CloseNotice(t)
  <2> DEFINE r == [T EXCEPT !.notice = FALSE]
  <2>1. tab' = [tab EXCEPT ![t] = r]
    BY <1>3, <1>0 DEF CloseNotice
  <2>2. stored' = stored /\ stray' = stray /\ UNCHANGED storeVars
    BY <1>3 DEF CloseNotice
  <2>3. r \in TabRows /\ Sends(r)
    BY <1>0 DEF TabRows, Sends
  <2> QED  BY <1>0, <2>1, <2>2, <2>3, TabUpdate, PageOnly
<1>4. CASE OpenNotice(t)
  <2> DEFINE r == [T EXCEPT !.notice = TRUE]
  <2>1. tab' = [tab EXCEPT ![t] = r]
    BY <1>4, <1>0 DEF OpenNotice
  <2>2. stored' = stored /\ stray' = stray /\ UNCHANGED storeVars
    BY <1>4 DEF OpenNotice
  <2>3. r \in TabRows /\ Sends(r)
    BY <1>0 DEF TabRows, Sends
  <2> QED  BY <1>0, <2>1, <2>2, <2>3, TabUpdate, PageOnly
<1>5. CASE ReviewSubmission(t)
  <2>1. PICK c \in Codes : tab' = [tab EXCEPT ![t].review = c, ![t].step = "review", ![t].dialog = TRUE]
    BY <1>5 DEF ReviewSubmission
  <2> DEFINE r == [T EXCEPT !.review = c, !.step = "review", !.dialog = TRUE]
  <2>2. tab' = [tab EXCEPT ![t] = r]
    BY <2>1, <1>0
  <2>3. stored' = stored /\ stray' = stray /\ UNCHANGED storeVars
    BY <1>5 DEF ReviewSubmission
  <2>4. r \in TabRows /\ Sends(r)
    BY <1>0 DEF TabRows, Sends
  <2> QED  BY <1>0, <2>2, <2>3, <2>4, TabUpdate, PageOnly
<1>6. CASE CloseDialog(t)
  <2> DEFINE r == [T EXCEPT !.dialog = FALSE]
  <2>1. tab' = [tab EXCEPT ![t] = r]
    BY <1>6, <1>0 DEF CloseDialog
  <2>2. stored' = stored /\ stray' = stray /\ UNCHANGED storeVars
    BY <1>6 DEF CloseDialog
  <2>3. r \in TabRows /\ Sends(r)
    BY <1>0 DEF TabRows, Sends
  <2> QED  BY <1>0, <2>1, <2>2, <2>3, TabUpdate, PageOnly
<1>7. CASE ConfirmSubmission(t)
  <2> DEFINE r == [T EXCEPT !.sending = "asked"]
  <2>1. tab' = [tab EXCEPT ![t] = r]
    BY <1>7, <1>0 DEF ConfirmSubmission
  <2>2. stored' = stored /\ stray' = stray /\ UNCHANGED storeVars
    BY <1>7 DEF ConfirmSubmission
  <2>3. T.review # Nothing /\ T.step = "review"
    <3>1. T.review # Nothing /\ Tells(t) = "review"
      BY <1>7 DEF ConfirmSubmission, Confirmable
    <3>2. T.dialog \in BOOLEAN /\ T.seen \in AppStatuses
      BY <1>0 DEF TabRows
    <3> QED  BY <3>1, <3>2 DEF Tells, AppStatuses
  <2>4. r \in TabRows /\ Sends(r)
    BY <1>0, <2>3 DEF TabRows, Sends
  <2> QED  BY <1>0, <2>1, <2>2, <2>4, TabUpdate, PageOnly
<1>8. CASE ServerTakesSubmission(t)
  <2>0. T.sending = "asked" /\ T.review \in Codes /\ T.step = "review" /\ stored' = stored /\ stray' = stray
    BY <1>8, <1>0 DEF ServerTakesSubmission, Sends
  <2>1. CASE Redeemable(T.review)
    <3> DEFINE r == [T EXCEPT !.sending = "accepted", !.result = NextId]
    <3>1. StoreApplication(T.review) /\ tab' = [tab EXCEPT ![t] = r]
      BY <1>8, <1>0, <2>1 DEF ServerTakesSubmission
    <3>2. StoreInv' /\ DecisionStep
      BY <2>0, <2>1, <3>1, Storing DEF PageInv
    <3>3. NextId \in Apps
      BY <3>1, NextIdIsFresh DEF StoreApplication, FreshIds
    <3>4. r \in TabRows /\ Sends(r)
      BY <1>0, <2>0, <3>3 DEF TabRows, Sends
    <3>5. /\ tab' \in [Tabs -> TabRows]
          /\ \A u \in Tabs : Sends(tab'[u])
      BY <3>1, <3>4, TabUpdate
    <3> QED  BY <1>0, <2>0, <3>2, <3>5, StoreAndPage
  <2>2. CASE ~Redeemable(T.review)
    <3> DEFINE r == [T EXCEPT !.sending = "refused"]
    <3>1. UNCHANGED storeVars /\ tab' = [tab EXCEPT ![t] = r]
      BY <1>8, <1>0, <2>2 DEF ServerTakesSubmission
    <3>2. r \in TabRows /\ Sends(r)
      BY <1>0, <2>0 DEF TabRows, Sends
    <3> QED  BY <1>0, <2>0, <3>1, <3>2, TabUpdate, PageOnly
  <2> QED  BY <2>1, <2>2
<1>9. CASE SubmissionAccepted(t)
  <2> DEFINE r == [T EXCEPT !.sending = "no", !.result = NoApp, !.track = T.result,
                            !.step = "progress", !.dialog = TRUE, !.review = Nothing,
                            !.seen = "none", !.failed = FALSE]
  <2>1. tab' = [tab EXCEPT ![t] = r]
    BY <1>9, <1>0 DEF SubmissionAccepted
  <2>2. /\ stored' = [stored EXCEPT ![StorageKeyOf[t]] = T.result]
        /\ stray' = stray /\ UNCHANGED storeVars
    BY <1>9 DEF SubmissionAccepted
  <2>3. r \in TabRows /\ Sends(r) /\ T.result \in Apps \cup {NoApp}
    BY <1>0 DEF TabRows, AppStatuses, Sends
  <2>4. stored' \in [StorageKeys -> Apps \cup {NoApp}]
    BY <1>0, <2>2, <2>3
  <2> HIDE DEF r
  <2> QED  BY <1>0, <2>1, <2>2, <2>3, <2>4, TabUpdate, PageOnly
<1>10. CASE SubmissionFailed(t)
  <2> DEFINE r == [T EXCEPT !.sending = "no", !.result = NoApp]
  <2>1. tab' = [tab EXCEPT ![t] = r]
    BY <1>10, <1>0 DEF SubmissionFailed
  <2>2. stray' \subseteq Codes /\ stored' = stored /\ UNCHANGED storeVars
    BY <1>10, StraysAreCodes DEF SubmissionFailed
  <2>3. r \in TabRows /\ Sends(r)
    BY <1>0 DEF TabRows, Sends
  <2> QED  BY <1>0, <2>1, <2>2, <2>3, TabUpdate, PageOnly
<1>11. CASE PollStatus(t)
  <2> DEFINE status == app[T.track].status
  <2> DEFINE r == IF status = "deleted" THEN [T EXCEPT !.failed = TRUE]
                  ELSE [T EXCEPT !.seen = status, !.failed = FALSE]
  <2>1. tab' = [tab EXCEPT ![t] = r]
    BY <1>11, <1>0 DEF PollStatus
  <2>2. stored' = stored /\ stray' = stray /\ UNCHANGED storeVars
    BY <1>11 DEF PollStatus
  <2>3. T.track \in Apps
    BY <1>11, <1>0 DEF PollStatus, TabRows
  <2>4. status \in AppStatuses
    BY <2>3 DEF PageInv, StoreInv, StoreTypeOK
  <2> HIDE DEF status
  <2>5. r \in TabRows /\ Sends(r)
    BY <1>0, <2>4 DEF TabRows, Sends
  <2> QED  BY <1>0, <2>1, <2>2, <2>5, TabUpdate, PageOnly
<1>12. CASE PollFails(t)
  <2> DEFINE r == [T EXCEPT !.failed = TRUE]
  <2>1. tab' = [tab EXCEPT ![t] = r]
    BY <1>12, <1>0 DEF PollFails
  <2>2. stored' = stored /\ stray' = stray /\ UNCHANGED storeVars
    BY <1>12 DEF PollFails
  <2>3. r \in TabRows /\ Sends(r)
    BY <1>0 DEF TabRows, Sends
  <2> QED  BY <1>0, <2>1, <2>2, <2>3, TabUpdate, PageOnly
<1>13. CASE ResetApplication(t)
  <2> DEFINE r == [T EXCEPT !.track = NoApp, !.dialog = FALSE, !.step = "review",
                            !.review = Nothing, !.seen = "none", !.failed = FALSE]
  <2>1. tab' = [tab EXCEPT ![t] = r]
    BY <1>13, <1>0 DEF ResetApplication
  <2>2. /\ stored' = [stored EXCEPT ![StorageKeyOf[t]] = NoApp]
        /\ stray' = stray /\ UNCHANGED storeVars
    BY <1>13 DEF ResetApplication
  <2>3. T.dialog /\ T.step # "review"
    BY <1>13, <1>0 DEF ResetApplication, Restartable, Tells, TabRows
  <2>4. r \in TabRows /\ Sends(r)
    BY <1>0, <2>3 DEF TabRows, AppStatuses, Sends
  <2> QED  BY <1>0, <2>1, <2>2, <2>4, TabUpdate, PageOnly
<1>14. CASE HidePage(t)
  <2> DEFINE r == [T EXCEPT !.shown = FALSE]
  <2>1. tab' = [tab EXCEPT ![t] = r]
    BY <1>14, <1>0 DEF HidePage
  <2>2. stored' = stored /\ stray' = stray /\ UNCHANGED storeVars
    BY <1>14 DEF HidePage
  <2>3. r \in TabRows /\ Sends(r)
    BY <1>0 DEF TabRows, Sends
  <2> QED  BY <1>0, <2>1, <2>2, <2>3, TabUpdate, PageOnly
<1>15. CASE ShowPage(t)
  <2> DEFINE r == [T EXCEPT !.shown = TRUE, !.failed = T.failed /\ T.seen # "none"]
  <2>1. tab' = [tab EXCEPT ![t] = r]
    BY <1>15, <1>0 DEF ShowPage
  <2>2. stored' = stored /\ stray' = stray /\ UNCHANGED storeVars
    BY <1>15 DEF ShowPage
  <2>3. r \in TabRows /\ Sends(r)
    BY <1>0 DEF TabRows, Sends
  <2> QED  BY <1>0, <2>1, <2>2, <2>3, TabUpdate, PageOnly
<1> QED
  BY <1>1, <1>2, <1>3, <1>4, <1>5, <1>6, <1>7, <1>8, <1>9, <1>10, <1>11, <1>12, <1>13,
     <1>14, <1>15 DEF Customer

-----------------------------------------------------------------------------
(* The other steps *)

(* A submission of a page that is gone is taken like any other.               *)
LEMMA StrayStep ==
  ASSUME PageInv, ServerTakesStray
  PROVE  PageInv' /\ DecisionStep
<1>1. PICK c \in stray :
        /\ \/ Redeemable(c) /\ StoreApplication(c)
           \/ ~Redeemable(c) /\ UNCHANGED storeVars
        /\ stray' = stray \ {c} /\ UNCHANGED <<stored, tab>>
  BY DEF ServerTakesStray
<1>2. c \in Codes /\ stray' \subseteq Codes
  BY <1>1 DEF PageInv, TypeOK
<1>3. StoreInv' /\ DecisionStep
  BY <1>1, <1>2, Storing, StoreRests DEF PageInv
<1> QED  BY <1>1, <1>2, <1>3, StoreAndPage DEF PageInv, TypeOK, TabRows, AsksForCode

LEMMA OperatorStep ==
  ASSUME PageInv, NEW a \in Apps, OperatorDecides(a) \/ OperatorTakesBack(a)
  PROVE  PageInv' /\ DecisionStep
<1>1. StoreInv' /\ DecisionStep
  BY Rejecting, Inviting, Returning, Erasing DEF OperatorDecides, OperatorTakesBack, FreeSeats, PageInv
<1> QED
  BY <1>1, StoreAndPage DEF OperatorDecides, OperatorTakesBack, PageInv, TypeOK, TabRows, AsksForCode

LEMMA PageStep ==
  ASSUME PageInv, [Next]_vars
  PROVE  PageInv' /\ DecisionStep
<1>1. CASE UNCHANGED vars
  BY <1>1, PageOnly DEF vars, storeVars, PageInv, TypeOK, TabRows, AsksForCode
<1>2. CASE Next
  BY <1>2, CustomerSteps, StrayStep, OperatorStep DEF Next
<1> QED  BY <1>1, <1>2

-----------------------------------------------------------------------------
(* Every tab, code and application is what it is said to be: in particular    *)
(* the page never asks for the status of an application without a token.      *)
THEOREM RedeemTypeCorrect == Spec => []TypeOK
<1>1. Init => PageInv
  BY PageStart
<1>2. PageInv /\ [Next]_vars => PageInv'
  BY PageStep
<1>3. PageInv => TypeOK
  BY DEF PageInv
<1> QED  BY <1>1, <1>2, <1>3, PTL DEF Spec

(* A code serves one application at a time, also when customers submit it     *)
(* from two tabs, close the page before the answer comes or send it again     *)
(* after the answer was lost (the conditional UPDATE of the code in           *)
(* CreateRedemptionApplicationUsingCode).                                     *)
THEOREM CodesServeOneApplication == Spec => []OneApplicationPerCode
<1>1. Init => PageInv
  BY PageStart
<1>2. PageInv /\ [Next]_vars => PageInv'
  BY PageStep
<1>3. PageInv => OneApplicationPerCode
  BY AgreementSuffices DEF PageInv
<1> QED  BY <1>1, <1>2, <1>3, PTL DEF Spec

=============================================================================
