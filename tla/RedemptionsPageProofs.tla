----------------------- MODULE RedemptionsPageProofs -----------------------
(* The page of the operator, for all codes, seats and bounds: a decision is   *)
(* final, and an invitation goes to the application its price was typed for,  *)
(* however the polled list moves under the operator's hands.                  *)
EXTENDS RedemptionsPage, RedemptionStoreProofs, FiniteSetTheorems

Panels ==
  [app : Apps \cup {NoApp}, seat : Seats \cup {AnySeat}, priced : Apps \cup {NoApp},
   rejecting : BOOLEAN, busy : BOOLEAN]
Desks ==
  [section : {"applications", "codes"}, list : [Apps -> AppStatuses], seats : SUBSET Seats,
   codes : [Codes -> CodeStatuses], page : Apps, target : Apps \cup {NoApp},
   doomed : Codes \cup {Nothing}, panel : Panels]
CallRows ==
  [kind : {"invite", "reject"}, app : Apps, seat : Seats \cup {AnySeat},
   priced : Apps \cup {NoApp}, owned : BOOLEAN, state : {"sent", "done", "refused"}]

(* The price on a card was typed for its application; the card is busy while  *)
(* it waits for an answer, and it waits for one only; what an earlier card    *)
(* has sent is answered to nobody.                                            *)
Consistent(panel, sent) ==
  /\ panel.rejecting => panel.app # NoApp
  /\ panel.priced \in {NoApp, panel.app}
  /\ \A q \in sent : ~q.owned => q.state = "sent"
  /\ \A q \in sent : q.kind = "invite" => q.priced = q.app
  /\ \A q \in sent : q.owned => panel.busy
  /\ \A q, r \in sent : q.owned /\ r.owned => q = r

(* The strengthening of the invariants that a step preserves.                 *)
DeskInv ==
  /\ StoreInv
  /\ desk \in Desks
  /\ calls \subseteq CallRows
  /\ Consistent(desk.panel, calls)

-----------------------------------------------------------------------------
(* The order of the cards *)

LEMMA Smallest ==
  ASSUME NEW S, S \subseteq Nat, S # {}
  PROVE  \E x \in S : \A y \in S : x <= y
<1>1. PICK x \in S : \A y \in S : ~ (<<y, x>> \in OpToRel(<, Nat))
  BY NatLessThanWellFounded, WFMin
<1>2. ASSUME NEW y \in S, y < x
      PROVE  <<y, x>> \in OpToRel(<, Nat)
  BY <1>2 DEF OpToRel
<1>3. \A y \in S : ~ (y < x)
  BY <1>1, <1>2
<1>4. \A y \in S : x \in Nat /\ y \in Nat
  OBVIOUS
<1> QED  BY <1>3, <1>4

LEMMA Largest ==
  ASSUME NEW n \in Nat, NEW S \in SUBSET (1..n), S # {}
  PROVE  \E x \in S : \A y \in S : y <= x
<1> DEFINE T == {n - i : i \in S}
<1>1. T \subseteq Nat
  OBVIOUS
<1>0. T # {}
  OBVIOUS
<1> HIDE DEF T
<1>2. PICK m \in T : \A u \in T : m <= u
  BY <1>0, <1>1, Smallest
<1> USE DEF T
<1>3. PICK x \in S : m = n - x
  OBVIOUS
<1>4. \A y \in S : n - y \in T
  OBVIOUS
<1> HIDE DEF T
<1>5. \A y \in S : m <= n - y
  BY <1>2, <1>4
<1>6. \A y \in S : y \in 1..n
  OBVIOUS
<1>7. \A y \in S : y <= x
  BY <1>3, <1>5, <1>6
<1> QED  BY <1>7

(* Counted from the newest, every place of the list is that of one of its     *)
(* applications.                                                              *)
Newer(L, a) == {b \in L : b > a}
LEMMA EveryPlaceIsTaken ==
  ASSUME NEW n \in Nat, NEW L \in SUBSET (1..n), NEW k \in Nat, 1 <= k, k <= Cardinality(L)
  PROVE  \E a \in L : 1 + Cardinality(Newer(L, a)) = k
<1>0. IsFiniteSet(1..n) /\ L \subseteq Nat
  BY FS_Interval
<1>1. IsFiniteSet(L)
  BY <1>0, FS_Subset
<1>2. \A a \in L : IsFiniteSet(Newer(L, a)) /\ Cardinality(Newer(L, a)) \in Nat
  BY <1>1, FS_Subset, FS_CardinalityType DEF Newer
<1>3. Cardinality(L) \in Nat
  BY <1>1, FS_CardinalityType
<1>4. L # {}
  BY <1>3, FS_EmptySet
<1> DEFINE A == {a \in L : 1 + Cardinality(Newer(L, a)) >= k}
<1>5. A # {}
  <2>2. PICK m \in L : \A y \in L : m <= y
    BY <1>0, <1>4, Smallest
  <2>1. \A y \in L : y > m <=> y # m
    <3>1. ASSUME NEW y \in L
          PROVE  y > m <=> y # m
      <4>1. m <= y /\ y \in Nat /\ m \in Nat
        BY <1>0, <2>2
      <4> QED  BY <4>1
    <3> QED  BY <3>1
  <2>3. Newer(L, m) = L \ {m}
    BY <2>1 DEF Newer
  <2>4. Cardinality(L \ {m}) = Cardinality(L) - 1
    BY <1>1, FS_RemoveElement
  <2>5. 1 + Cardinality(Newer(L, m)) >= k
    BY <1>3, <2>3, <2>4
  <2> QED  BY <2>5
<1>6. A \in SUBSET (1..n)
  OBVIOUS
<1> HIDE DEF A
<1>7. PICK a \in A : \A y \in A : y <= a
  BY <1>5, <1>6, Largest
<1> USE DEF A
<1>8. a \in L /\ 1 + Cardinality(Newer(L, a)) >= k
  OBVIOUS
<1>9. ASSUME 1 + Cardinality(Newer(L, a)) > k
      PROVE  FALSE
  <2>1. Newer(L, a) # {}
    BY <1>9, FS_EmptySet
  <2>2. Newer(L, a) \subseteq Nat
    BY <1>0 DEF Newer
  <2>3. PICK b \in Newer(L, a) : \A y \in Newer(L, a) : b <= y
    BY <2>1, <2>2, Smallest
  <2>4. b \in L /\ b > a /\ a \in Nat /\ b \in Nat
    BY <2>3, <1>8 DEF Newer
  <2>5. \A y \in L : y > a => (y = b \/ y > b)
    <3>1. ASSUME NEW y \in L, y > a
          PROVE  y = b \/ y > b
      <4>1. b <= y /\ y \in Nat
        BY <2>3, <3>1 DEF Newer
      <4> QED  BY <4>1, <2>4
    <3> QED  BY <3>1
  <2>6. Newer(L, a) = Newer(L, b) \cup {b}
    <3>1. \A y \in L : y > b => y > a
      <4>1. \A y \in L : y \in Nat
        OBVIOUS
      <4> QED  BY <4>1, <2>4
    <3> QED  BY <2>4, <2>5, <3>1 DEF Newer
  <2>7. b \notin Newer(L, b)
    BY <2>4 DEF Newer
  <2>8. Cardinality(Newer(L, a)) = Cardinality(Newer(L, b)) + 1
    BY <1>2, <2>4, <2>6, <2>7, FS_AddElement
  <2>9. 1 + Cardinality(Newer(L, b)) >= k
    BY <1>2, <1>9, <2>4, <2>8
  <2>10. b \in A
    BY <2>4, <2>9
  <2> QED  BY <1>7, <2>4, <2>10
<1> QED  BY <1>2, <1>8, <1>9

(* What is on screen is a pending application of the list, or no card.        *)
LEMMA CardIsListed ==
  ASSUME NEW d \in Desks
  PROVE  Card(d) \in Apps \cup {NoApp}
<1> DEFINE L == Listed(d.list)
<1> DEFINE count == Cardinality(L)
<1> DEFINE safe == IF d.target # NoApp THEN 1 ELSE IF d.page > count THEN count ELSE d.page
<1>1. MaxApps \in Nat /\ L \in SUBSET (1..MaxApps)
  BY StoreAssumption DEF Listed, Apps
<1>2. IsFiniteSet(L) /\ count \in Nat
  <2>1. IsFiniteSet(1..MaxApps)
    BY <1>1, FS_Interval
  <2>2. IsFiniteSet(L)
    BY <1>1, <2>1, FS_Subset
  <2> QED  BY <2>2, FS_CardinalityType
<1>3. d.page \in Nat /\ d.page >= 1 /\ d.target \in Apps \cup {NoApp}
  BY DEF Desks, Apps
<1>4. CASE d.section # "applications" \/ count = 0
  BY <1>4 DEF Card
<1>5. CASE ~ (d.section # "applications" \/ count = 0)
  <2>1. \E a \in L : Place(a, d) = safe
    <3>1. CASE d.target = NoApp
      <4>1. safe \in Nat /\ 1 <= safe /\ safe <= count
        BY <1>2, <1>3, <1>5, <3>1
      <4> HIDE DEF safe
      <4>2. PICK a \in L : 1 + Cardinality(Newer(L, a)) = safe
        BY <1>1, <4>1, EveryPlaceIsTaken
      <4>3. \A b \in L : a \in Nat /\ b \in Nat /\ a # NoApp /\ b # NoApp
        BY <1>1 DEF NoApp
      <4>4. {b \in L \ {a} : a # d.target /\ (b > a \/ b = d.target)} = Newer(L, a)
        BY <3>1, <4>3 DEF Newer
      <4>5. Place(a, d) = 1 + Cardinality(Newer(L, a))
        BY <4>4 DEF Place
      <4> QED  BY <4>2, <4>5
    <3>2. CASE d.target # NoApp /\ d.target \in L
      <4>1. {b \in L \ {d.target} : d.target # d.target /\ (b > d.target \/ b = d.target)} = {}
        OBVIOUS
      <4>2. Place(d.target, d) = 1
        BY <4>1, FS_EmptySet DEF Place
      <4> QED  BY <3>2, <4>2
    <3>3. CASE d.target # NoApp /\ d.target \notin L
      <4>1. L # {}
        BY <1>5, FS_EmptySet
      <4>2. PICK a \in L : \A y \in L : y <= a
        BY <1>1, <4>1, Largest
      <4>3. \A y \in L : y \in Nat
        BY <1>1
      <4>4. \A y \in L : ~ (y > a)
        BY <4>2, <4>3
      <4>5. {b \in L \ {a} : a # d.target /\ (b > a \/ b = d.target)} = {}
        BY <3>3, <4>4
      <4>6. Place(a, d) = 1
        BY <4>5, FS_EmptySet DEF Place
      <4> QED  BY <3>3, <4>6
    <3> QED  BY <3>1, <3>2, <3>3
  <2>2. Card(d) = CHOOSE a \in L : Place(a, d) = safe
    BY <1>5 DEF Card
  <2> HIDE DEF safe
  <2>3. Card(d) \in L
    BY <2>1, <2>2
  <2> QED  BY <1>1, <2>3 DEF Apps
<1> QED  BY <1>4, <1>5

-----------------------------------------------------------------------------
(* What a step leaves consistent *)

LEMMA DeskRests ==
  ASSUME DeskInv, StoreInv', DecisionStep, desk' \in Desks, calls' \subseteq CallRows,
         Consistent(desk'.panel, calls')
  PROVE  DeskInv' /\ DecisionStep
BY DEF DeskInv

LEMMA DeskFields ==
  ASSUME DeskInv
  PROVE  /\ desk \in Desks /\ desk.panel \in Panels
         /\ desk.panel.app \in Apps \cup {NoApp} /\ desk.panel.priced \in {NoApp, desk.panel.app}
         /\ desk.panel.busy \in BOOLEAN /\ desk.panel.rejecting \in BOOLEAN
         /\ desk.seats \subseteq Seats
         /\ desk.panel.rejecting => desk.panel.app # NoApp
         /\ StoreInv' \/ ~ UNCHANGED storeVars
         /\ DecisionStep \/ ~ UNCHANGED storeVars
<1>1. (StoreInv' /\ DecisionStep) \/ ~ UNCHANGED storeVars
  BY StoreRests DEF DeskInv
<1> QED  BY <1>1 DEF DeskInv, Desks, Panels, Consistent

LEMMA EmptyPanels ==
  ASSUME NEW a \in Apps \cup {NoApp}
  PROVE  EmptyPanel(a) \in Panels /\ EmptyPanel(a).priced = NoApp /\ ~EmptyPanel(a).rejecting
<1>1. EmptyPanel(a) = [app |-> a, seat |-> AnySeat, priced |-> NoApp, rejecting |-> FALSE, busy |-> FALSE]
  BY DEF EmptyPanel
<1> QED  BY <1>1 DEF Panels

(* What a card that is gone had sent is nobody's any more, and an empty card  *)
(* goes well with it.                                                         *)
LEMMA OrphansAreHarmless ==
  ASSUME DeskInv, NEW a \in Apps \cup {NoApp}
  PROVE  Orphaned \subseteq CallRows /\ Consistent(EmptyPanel(a), Orphaned)
<1>1. ASSUME NEW q \in Orphaned
      PROVE  /\ q \in CallRows /\ q.owned = FALSE /\ q.state = "sent"
             /\ q.kind = "invite" => q.priced = q.app
  <2>1. PICK r \in calls : r.state = "sent" /\ q = [r EXCEPT !.owned = FALSE]
    BY <1>1 DEF Orphaned
  <2>2. r \in CallRows /\ (r.kind = "invite" => r.priced = r.app)
    BY DEF DeskInv, Consistent
  <2> QED  BY <2>1, <2>2 DEF CallRows
<1> QED  BY <1>1, EmptyPanels DEF Consistent

LEMMA Showing ==
  ASSUME DeskInv, NEW d \in Desks, d.panel = desk.panel, Show(d)
  PROVE  DeskInv' /\ DecisionStep
<1>1. Card(d) \in Apps \cup {NoApp}
  BY CardIsListed
<1>2. PanelOf(d) \in Panels
  BY <1>1, EmptyPanels, DeskFields DEF PanelOf
<1>3. desk' \in Desks /\ desk'.panel = PanelOf(d)
  BY <1>2 DEF Show, Desks
<1>4. calls' \subseteq CallRows /\ Consistent(PanelOf(d), calls')
  <2>1. CASE Card(d) = desk.panel.app
    BY <2>1 DEF Show, PanelOf, DeskInv
  <2>2. CASE Card(d) # desk.panel.app
    BY <1>1, <2>2, OrphansAreHarmless DEF Show, PanelOf
  <2> QED  BY <2>1, <2>2
<1>5. StoreInv' /\ DecisionStep
  BY DeskFields DEF Show
<1> QED  BY <1>3, <1>4, <1>5, DeskRests

(* A change of the desk that leaves the card and the server alone.            *)
LEMMA Browsing ==
  ASSUME DeskInv, desk' \in Desks, desk'.panel = desk.panel, UNCHANGED <<storeVars, calls>>
  PROVE  DeskInv' /\ DecisionStep
<1>1. StoreInv' /\ DecisionStep
  BY DeskFields
<1> QED  BY <1>1, DeskRests DEF DeskInv

(* The server has decided on a call, or it failed: its owner has the answer.  *)
LEMMA Answering ==
  ASSUME DeskInv, NEW q \in calls, NEW state \in {"done", "refused"}, Answered(q, state),
         desk' = desk, StoreInv', DecisionStep
  PROVE  DeskInv' /\ DecisionStep
<1> DEFINE r == [q EXCEPT !.state = state]
<1>1. /\ q \in CallRows /\ calls \subseteq CallRows
      /\ \A p \in calls : ~p.owned => p.state = "sent"
      /\ \A p \in calls : p.kind = "invite" => p.priced = p.app
      /\ \A p \in calls : p.owned => desk.panel.busy
      /\ \A p, s \in calls : p.owned /\ s.owned => p = s
      /\ desk.panel.priced \in {NoApp, desk.panel.app}
      /\ desk.panel.rejecting => desk.panel.app # NoApp
  BY DEF DeskInv, Consistent
<1>2. /\ r \in CallRows /\ r.owned = q.owned /\ r.kind = q.kind
      /\ r.priced = q.priced /\ r.app = q.app
  BY <1>1 DEF CallRows
<1>3. q.owned \in BOOLEAN
  BY <1>1 DEF CallRows
<1>4. calls' = (calls \ {q}) \cup (IF q.owned THEN {r} ELSE {})
  BY DEF Answered
<1> HIDE DEF r
<1>5. calls' \subseteq CallRows
  BY <1>1, <1>2, <1>4
<1>6. \A p \in calls' : p \in calls \ {q} \/ (p = r /\ q.owned)
  BY <1>3, <1>4
<1>7. Consistent(desk.panel, calls')
  <2>1. \A p \in calls' : ~p.owned => p.state = "sent"
    BY <1>1, <1>2, <1>6
  <2>2. \A p \in calls' : p.kind = "invite" => p.priced = p.app
    BY <1>1, <1>2, <1>6
  <2>3. \A p \in calls' : p.owned => desk.panel.busy
    BY <1>1, <1>2, <1>6
  <2>4. \A p, s \in calls' : p.owned /\ s.owned => p = s
    BY <1>1, <1>2, <1>6
  <2> QED  BY <1>1, <2>1, <2>2, <2>3, <2>4 DEF Consistent
<1> QED  BY <1>5, <1>7, DeskRests DEF DeskInv

(* A free card sends one call, and is busy then.                              *)
LEMMA Sending ==
  ASSUME DeskInv, ~desk.panel.busy, NEW kind \in {"invite", "reject"}, NEW s \in Seats \cup {AnySeat},
         desk.panel.app # NoApp, kind = "invite" => desk.panel.priced # NoApp,
         Send(kind, s), desk' = [desk EXCEPT !.panel.busy = TRUE]
  PROVE  DeskInv' /\ DecisionStep
<1> DEFINE c == [kind |-> kind, app |-> desk.panel.app, seat |-> s,
                 priced |-> desk.panel.priced, owned |-> TRUE, state |-> "sent"]
<1>1. calls' = calls \cup {c} /\ UNCHANGED storeVars
  BY DEF Send
<1>2. StoreInv' /\ DecisionStep
  BY <1>1, DeskFields
<1>3. c \in CallRows
  BY DeskFields DEF CallRows, Panels
<1>4. /\ desk'.panel.busy = TRUE /\ desk'.panel.app = desk.panel.app
      /\ desk'.panel.priced = desk.panel.priced /\ desk' \in Desks
      /\ desk'.panel.rejecting = desk.panel.rejecting
  BY DeskFields DEF Desks, Panels
<1>5. /\ c.owned = TRUE /\ c.state = "sent" /\ c.kind = kind
      /\ c.priced = desk.panel.priced /\ c.app = desk.panel.app
  OBVIOUS
<1> HIDE DEF c
<1>6. \A q \in calls : ~q.owned
  BY DEF DeskInv, Consistent
<1>7. desk.panel.priced \in {NoApp, desk.panel.app}
  BY DeskFields
<1>8. Consistent(desk'.panel, calls')
  BY <1>1, <1>4, <1>5, <1>6, <1>7 DEF DeskInv, Consistent
<1>9. calls' \subseteq CallRows
  BY <1>1, <1>3 DEF DeskInv
<1> QED  BY <1>2, <1>4, <1>8, <1>9, DeskRests

-----------------------------------------------------------------------------
(* The steps *)

LEMMA DeskStart ==
  ASSUME Init
  PROVE  DeskInv
<1>1. StoreInv
  BY StoreStart DEF Init
<1>2. 1 \in Apps
  BY StoreAssumption DEF Apps
<1>3. EmptyPanel(NoApp) \in Panels /\ EmptyPanel(NoApp).priced = NoApp /\ ~EmptyPanel(NoApp).rejecting
  BY EmptyPanels
<1>4. desk \in Desks /\ desk.panel = EmptyPanel(NoApp)
  BY <1>2, <1>3 DEF Init, Desks, AppStatuses, CodeStatuses
<1> QED  BY <1>1, <1>3, <1>4 DEF Init, DeskInv, Consistent

LEMMA ListSteps ==
  ASSUME DeskInv,
         \/ RefreshList \/ TurnPage \/ FollowLink \/ RefreshSeats
         \/ \E name \in {"applications", "codes"} : Section(name)
  PROVE  DeskInv' /\ DecisionStep
<1>0. desk \in Desks /\ desk.panel \in Panels
  BY DeskFields
<1>1. CASE RefreshList
  <2> DEFINE d == [desk EXCEPT !.list = [a \in Apps |-> app[a].status]]
  <2>1. d \in Desks /\ d.panel = desk.panel
    BY <1>0 DEF Desks, DeskInv, StoreInv, StoreTypeOK
  <2>2. Show(d)
    BY <1>1 DEF RefreshList
  <2> HIDE DEF d
  <2> QED  BY <2>1, <2>2, Showing
<1>2. CASE TurnPage
  <2>1. PICK p \in Apps : Show([desk EXCEPT !.page = p, !.target = NoApp])
    BY <1>2 DEF TurnPage, Apps
  <2> DEFINE d == [desk EXCEPT !.page = p, !.target = NoApp]
  <2>2. d \in Desks /\ d.panel = desk.panel
    BY <1>0 DEF Desks
  <2>3. Show(d)
    BY <2>1
  <2> HIDE DEF d
  <2> QED  BY <2>2, <2>3, Showing
<1>3. CASE FollowLink
  <2>1. PICK a \in Apps :
          LET opened == [desk EXCEPT !.section = "applications", !.page = 1, !.target = a,
                                     !.codes = [c \in Codes |-> "absent"], !.doomed = Nothing]
          IN  desk' = [opened EXCEPT !.panel = EmptyPanel(Card(opened))]
    BY <1>3 DEF FollowLink
  <2> DEFINE d == [desk EXCEPT !.section = "applications", !.page = 1, !.target = a,
                               !.codes = [c \in Codes |-> "absent"], !.doomed = Nothing]
  <2>2. 1 \in Apps
    BY StoreAssumption DEF Apps
  <2>3. d \in Desks
    BY <1>0, <2>2 DEF Desks, CodeStatuses
  <2>4. desk' = [d EXCEPT !.panel = EmptyPanel(Card(d))] /\ calls' = Orphaned /\ UNCHANGED storeVars
    BY <1>3, <2>1 DEF FollowLink
  <2> HIDE DEF d
  <2>5. Card(d) \in Apps \cup {NoApp}
    BY <2>3, CardIsListed
  <2>6. desk' \in Desks /\ desk'.panel = EmptyPanel(Card(d))
    BY <2>3, <2>4, <2>5, EmptyPanels DEF Desks
  <2>7. StoreInv' /\ DecisionStep
    BY <2>4, DeskFields
  <2> QED  BY <2>4, <2>5, <2>6, <2>7, OrphansAreHarmless, DeskRests
<1>4. CASE RefreshSeats
  <2>1. desk' \in Desks /\ desk'.panel = desk.panel
    BY <1>0, <1>4 DEF RefreshSeats, Desks, FreeSeats
  <2> QED  BY <1>4, <2>1, Browsing DEF RefreshSeats
<1>5. CASE \E name \in {"applications", "codes"} : Section(name)
  <2>1. PICK name \in {"applications", "codes"} : Section(name)
    BY <1>5
  <2> DEFINE d == [desk EXCEPT !.section = name, !.doomed = Nothing,
                               !.codes = [c \in Codes |-> "absent"],
                               !.target = IF name = "codes" THEN NoApp ELSE @]
  <2>2. d \in Desks /\ d.panel = desk.panel
    BY <1>0 DEF Desks, CodeStatuses
  <2>3. Show(d)
    BY <2>1 DEF Section
  <2> HIDE DEF d
  <2> QED  BY <2>2, <2>3, Showing
<1> QED  BY <1>1, <1>2, <1>3, <1>4, <1>5

LEMMA CardSteps ==
  ASSUME DeskInv, EditPanel \/ Invite \/ AskReject \/ ConfirmReject
  PROVE  DeskInv' /\ DecisionStep
<1>0. /\ desk \in Desks /\ desk.panel \in Panels /\ desk.panel.app \in Apps \cup {NoApp}
      /\ desk.panel.priced \in {NoApp, desk.panel.app} /\ desk.seats \subseteq Seats
  BY DeskFields
<1>1. CASE EditPanel
  <2>1. /\ desk' \in Desks /\ desk'.panel.priced \in {NoApp, desk.panel.app}
        /\ desk'.panel.app = desk.panel.app /\ desk'.panel.busy = desk.panel.busy
        /\ desk'.panel.rejecting = desk.panel.rejecting
    <3>1. ASSUME NEW s \in desk.seats \cup {AnySeat}, desk' = [desk EXCEPT !.panel.seat = s]
          PROVE  /\ desk' \in Desks /\ desk'.panel.priced \in {NoApp, desk.panel.app}
                 /\ desk'.panel.app = desk.panel.app /\ desk'.panel.busy = desk.panel.busy
                 /\ desk'.panel.rejecting = desk.panel.rejecting
      <4>1. s \in Seats \cup {AnySeat}
        BY <1>0
      <4>2. desk' = [desk EXCEPT !.panel = [desk.panel EXCEPT !.seat = s]]
        BY <3>1, <1>0 DEF Desks, Panels
      <4>3. [desk.panel EXCEPT !.seat = s] \in Panels
        BY <1>0, <4>1 DEF Panels
      <4> QED  BY <1>0, <4>2, <4>3 DEF Desks, Panels
    <3>2. CASE desk' = [desk EXCEPT !.panel.priced = desk.panel.app]
      BY <1>0, <3>2 DEF Desks, Panels
    <3> QED  BY <1>1, <3>1, <3>2 DEF EditPanel
  <2>2. UNCHANGED storeVars /\ calls' = calls
    BY <1>1 DEF EditPanel
  <2>3. StoreInv' /\ DecisionStep
    BY <2>2, DeskFields
  <2>4. Consistent(desk'.panel, calls')
    BY <2>1, <2>2 DEF DeskInv, Consistent
  <2> QED  BY <2>1, <2>2, <2>3, <2>4, DeskRests DEF DeskInv
<1>2. CASE Invite
  <2>1. Chosen \in Seats \cup {AnySeat}
    BY <1>0 DEF Chosen
  <2> QED  BY <1>2, <2>1, Sending DEF Invite, Invitable
<1>3. CASE AskReject
  <2>1. /\ desk' \in Desks /\ desk'.panel.priced = desk.panel.priced
        /\ desk'.panel.app = desk.panel.app /\ desk'.panel.busy = desk.panel.busy
    BY <1>0, <1>3 DEF AskReject, Desks, Panels
  <2>2. UNCHANGED storeVars /\ calls' = calls /\ desk.panel.app # NoApp
    BY <1>3 DEF AskReject
  <2>3. StoreInv' /\ DecisionStep
    BY <2>2, DeskFields
  <2>4. Consistent(desk'.panel, calls')
    BY <2>1, <2>2 DEF DeskInv, Consistent
  <2> QED  BY <2>1, <2>2, <2>3, <2>4, DeskRests DEF DeskInv
<1>4. CASE ConfirmReject
  <2>1. Nothing \in Seats \cup {AnySeat}
    BY DEF AnySeat
  <2>2. desk.panel.app # NoApp
    BY <1>4, DeskFields DEF ConfirmReject
  <2> QED  BY <1>4, <2>1, <2>2, Sending DEF ConfirmReject
<1> QED  BY <1>1, <1>2, <1>3, <1>4

LEMMA CodeSteps ==
  ASSUME DeskInv,
         \/ RefreshCodes \/ DeleteCode \/ CancelDelete
         \/ \E c \in Codes : GenerateCode(c) \/ SwitchCode(c) \/ AskDeleteCode(c)
  PROVE  DeskInv' /\ DecisionStep
<1>0. desk \in Desks /\ desk.panel \in Panels /\ StoreInv
  BY DeskFields DEF DeskInv
<1>1. CASE RefreshCodes
  <2>1. desk' \in Desks /\ desk'.panel = desk.panel
    BY <1>0, <1>1 DEF RefreshCodes, Desks, StoreInv, StoreTypeOK
  <2> QED  BY <1>1, <2>1, Browsing DEF RefreshCodes
<1>2. CASE CancelDelete
  <2>1. desk' \in Desks /\ desk'.panel = desk.panel
    BY <1>0, <1>2 DEF CancelDelete, Desks
  <2> QED  BY <1>2, <2>1, Browsing DEF CancelDelete
<1>3. CASE DeleteCode
  <2>1. desk' \in Desks /\ desk'.panel = desk.panel /\ calls' = calls
    BY <1>0, <1>3 DEF DeleteCode, Desks
  <2>2. desk.doomed \in Codes
    BY <1>0, <1>3 DEF DeleteCode, Desks
  <2>3. StoreInv' /\ DecisionStep
    BY <1>0, <1>3, <2>2, Switching DEF DeleteCode, Switchable, CodeStatuses
  <2> QED  BY <2>1, <2>3, DeskRests DEF DeskInv
<1>4. ASSUME NEW c \in Codes, GenerateCode(c)
      PROVE  DeskInv' /\ DecisionStep
  <2>1. StoreInv' /\ DecisionStep
    BY <1>0, <1>4, Switching DEF GenerateCode, CodeStatuses
  <2> QED  BY <1>4, <2>1, DeskRests DEF DeskInv, GenerateCode
<1>5. ASSUME NEW c \in Codes, SwitchCode(c)
      PROVE  DeskInv' /\ DecisionStep
  <2> DEFINE status == IF desk.codes[c] = "unused" THEN "disabled" ELSE "unused"
  <2>1. status \in CodeStatuses \ {"used"} /\ SetCodeStatus(c, status) /\ code[c].status # "used"
    BY <1>5 DEF SwitchCode, CodeStatuses, Switchable
  <2> HIDE DEF status
  <2>2. StoreInv' /\ DecisionStep
    BY <1>0, <2>1, Switching
  <2> QED  BY <1>5, <2>2, DeskRests DEF DeskInv, SwitchCode
<1>6. ASSUME NEW c \in Codes, AskDeleteCode(c)
      PROVE  DeskInv' /\ DecisionStep
  <2>1. desk' \in Desks /\ desk'.panel = desk.panel
    BY <1>0, <1>6 DEF AskDeleteCode, Desks
  <2> QED  BY <1>6, <2>1, Browsing DEF AskDeleteCode
<1> QED  BY <1>1, <1>2, <1>3, <1>4, <1>5, <1>6

LEMMA CallSteps ==
  ASSUME DeskInv, NEW q \in calls,
         ServerInvites(q) \/ ServerRejects(q) \/ CallFails(q) \/ CallAnswered(q)
  PROVE  DeskInv' /\ DecisionStep
<1>0. desk \in Desks /\ desk.panel \in Panels /\ StoreInv /\ q \in CallRows /\ q.app \in Apps
  BY DeskFields DEF DeskInv, CallRows
<1>1. CASE ServerInvites(q)
  <2>1. CASE Processable(q.app) /\ (\E s \in SeatsFor(q.seat) : InviteApplication(q.app, s))
    <3>1. PICK s \in Seats : InviteApplication(q.app, s)
      BY <2>1 DEF SeatsFor, FreeSeats
    <3>2. StoreInv' /\ DecisionStep
      BY <1>0, <2>1, <3>1, Inviting
    <3>3. desk' = desk /\ \E state \in {"done", "refused"} : Answered(q, state)
      BY <1>1 DEF ServerInvites
    <3> QED  BY <3>2, <3>3, Answering
  <2>2. CASE UNCHANGED storeVars
    <3>1. StoreInv' /\ DecisionStep
      BY <2>2, DeskFields
    <3>2. desk' = desk /\ \E state \in {"done", "refused"} : Answered(q, state)
      BY <1>1 DEF ServerInvites
    <3> QED  BY <3>1, <3>2, Answering
  <2> QED  BY <1>1, <2>1, <2>2 DEF ServerInvites
<1>2. CASE ServerRejects(q)
  <2>0. desk' = desk /\ \E state \in {"done", "refused"} : Answered(q, state)
    BY <1>2 DEF ServerRejects
  <2>1. CASE Processable(q.app) /\ RejectApplication(q.app)
    <3>1. StoreInv' /\ DecisionStep
      BY <1>0, <2>1, Rejecting
    <3> QED  BY <2>0, <3>1, Answering
  <2>2. CASE UNCHANGED storeVars
    <3>1. StoreInv' /\ DecisionStep
      BY <2>2, DeskFields
    <3> QED  BY <2>0, <3>1, Answering
  <2> QED  BY <1>2, <2>1, <2>2 DEF ServerRejects
<1>3. CASE CallFails(q)
  <2>1. StoreInv' /\ DecisionStep /\ desk' = desk /\ Answered(q, "refused")
    BY <1>3, DeskFields DEF CallFails
  <2> QED  BY <2>1, Answering
<1>4. CASE CallAnswered(q)
  <2>1. q.state \in {"done", "refused"} /\ calls' = calls \ {q} /\ UNCHANGED storeVars
    BY <1>4 DEF CallAnswered
  <2>2. q.owned
    BY <2>1 DEF DeskInv, Consistent
  <2>3. \A p \in calls' : ~p.owned
    BY <2>1, <2>2 DEF DeskInv, Consistent
  <2>4. /\ desk' \in Desks /\ desk'.panel.app = desk.panel.app
        /\ desk'.panel.priced = desk.panel.priced
        /\ desk'.panel.rejecting => desk.panel.rejecting
    BY <1>0, <1>4 DEF CallAnswered, Desks, Panels
  <2>5. StoreInv' /\ DecisionStep
    BY <2>1, DeskFields
  <2>6. Consistent(desk'.panel, calls')
    BY <2>1, <2>3, <2>4 DEF DeskInv, Consistent
  <2> QED  BY <2>1, <2>4, <2>5, <2>6, DeskRests DEF DeskInv
<1> QED  BY <1>1, <1>2, <1>3, <1>4

LEMMA ElsewhereSteps ==
  ASSUME DeskInv,
         \/ \E c \in Codes : CustomerSubmits(c)
         \/ \E a \in Apps : InvitationTakenBack(a)
         \/ \E s \in Seats : SeatChanges(s)
  PROVE  DeskInv' /\ DecisionStep
<1>1. ASSUME NEW c \in Codes, CustomerSubmits(c)
      PROVE  StoreInv' /\ DecisionStep /\ UNCHANGED <<desk, calls>>
  BY <1>1, Storing DEF CustomerSubmits, DeskInv
<1>2. ASSUME NEW s \in Seats, SeatChanges(s)
      PROVE  StoreInv' /\ DecisionStep /\ UNCHANGED <<desk, calls>>
  BY <1>2 DEF SeatChanges, DeskInv, StoreInv, StoreTypeOK, HolderAgrees, CodeAgrees, DecisionStep
<1>3. ASSUME NEW a \in Apps, InvitationTakenBack(a)
      PROVE  StoreInv' /\ DecisionStep /\ UNCHANGED <<desk, calls>>
  BY <1>3, Returning, Erasing DEF InvitationTakenBack, DeskInv
<1> QED  BY <1>1, <1>2, <1>3, DeskRests DEF DeskInv

LEMMA DeskStep ==
  ASSUME DeskInv, [Next]_vars
  PROVE  DeskInv' /\ DecisionStep
<1>1. CASE UNCHANGED vars
  BY <1>1, Browsing DEF vars, storeVars, DeskInv
<1>2. CASE Operator
  BY <1>2, ListSteps, CardSteps, CodeSteps DEF Operator
<1> QED  BY <1>1, <1>2, CallSteps, ElsewhereSteps DEF Next

(* One owned call at most.                                                    *)
LEMMA ConsistencySuffices ==
  ASSUME DeskInv
  PROVE  TypeOK /\ OneApplicationPerCode /\ InvitationWasTypedForIt
<1>1. TypeOK
  BY DEF DeskInv, StoreInv, TypeOK, Desks, Panels, CallRows
<1>2. OneApplicationPerCode
  BY AgreementSuffices DEF DeskInv
<1> DEFINE O == {q \in calls : q.owned}
<1>3. Cardinality(O) <= 1
  <2>1. CASE O = {}
    BY <2>1, FS_EmptySet
  <2>2. CASE O # {}
    <3>1. PICK q \in O : TRUE
      BY <2>2
    <3>2. O = {q}
      BY <3>1 DEF DeskInv, Consistent
    <3>3. Cardinality({q}) = 1
      BY FS_Singleton
    <3> QED  BY <3>2, <3>3
  <2> QED  BY <2>1, <2>2
<1>4. InvitationWasTypedForIt
  BY <1>3 DEF InvitationWasTypedForIt, DeskInv, Consistent
<1> QED  BY <1>1, <1>2, <1>4

-----------------------------------------------------------------------------
LEMMA DeskAlways == Spec => []DeskInv
<1>1. Init => DeskInv
  BY DeskStart
<1>2. DeskInv /\ [Next]_vars => DeskInv'
  BY DeskStep
<1> QED  BY <1>1, <1>2, PTL DEF Spec

(* Every page, card and call is what it is said to be; in particular the card *)
(* on screen is always one of the list, whatever page of it is shown.         *)
THEOREM RedemptionsTypeCorrect == Spec => []TypeOK
<1>1. DeskInv => TypeOK
  BY ConsistencySuffices
<1> QED  BY <1>1, DeskAlways, PTL

(* A code serves one application at a time, also while the operator decides,  *)
(* disables and deletes on lists that are out of date.                        *)
THEOREM DeskKeepsCodes == Spec => []OneApplicationPerCode
<1>1. DeskInv => OneApplicationPerCode
  BY ConsistencySuffices
<1> QED  BY <1>1, DeskAlways, PTL

(* An invitation goes to the application its price was typed for, and a card  *)
(* that waits for its answer sends nothing else (key={application.id} of      *)
(* RedemptionApplicationCard, isPending of its mutations).                    *)
THEOREM InvitationsAreTyped == Spec => []InvitationWasTypedForIt
<1>1. DeskInv => InvitationWasTypedForIt
  BY ConsistencySuffices
<1> QED  BY <1>1, DeskAlways, PTL

(* An application that was invited or rejected is never decided again, by an  *)
(* impatient second click, a late call or a stale card                        *)
(* (CreateSubscriptionAndInviteRedemption and RejectRedemptionApplication     *)
(* take an application only while it is pending): a rejection stands, and an  *)
(* invitation until its registration is deleted as a mistake, which leaves    *)
(* its code in use (DeleteMistakenTeamSubscription), or archived, which       *)
(* deletes the code with it and nothing else.                                 *)
THEOREM DecisionsAreFinal == Spec => DecisionIsFinal
<1>1. DeskInv /\ [Next]_vars => [DecisionStep]_storeVars
  BY DeskStep
<1> QED  BY <1>1, DeskAlways, PTL DEF Spec, DecisionIsFinal

=============================================================================
