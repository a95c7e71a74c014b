----------------------- MODULE RedemptionStoreProofs -----------------------
(* What the transactions of RedemptionStore keep, for all codes, seats and    *)
(* numbers of applications, whichever page calls them.                        *)
EXTENDS RedemptionStore, WellFoundedInduction, TLAPS

(* The row of a code points at the application that holds it, and back.       *)
HolderAgrees ==
  \A a \in Apps : app[a].status \in {"pending", "invited"} =>
    app[a].code \in Codes /\ code[app[a].code] = [status |-> "used", app |-> a]

CodeAgrees ==
  \A c \in Codes : code[c].status = "used" =>
    /\ code[c].app \in Apps
    /\ app[code[c].app].code = c
    /\ app[code[c].app].status \in {"pending", "invited"}

StoreInv == StoreTypeOK /\ HolderAgrees /\ CodeAgrees

-----------------------------------------------------------------------------
(* Two applications cannot both be in the row of one code: what the store     *)
(* keeps is enough for the property.                                          *)
LEMMA AgreementSuffices ==
  ASSUME StoreInv
  PROVE  OneApplicationPerCode
<1>1. ASSUME NEW a \in Apps, NEW b \in Apps, a # b, app[a].code = app[b].code
      PROVE  \E x \in {a, b} : app[x].status \in {"none", "rejected", "deleted"}
  <2>1. SUFFICES ASSUME app[a].status \in {"pending", "invited"},
                        app[b].status \in {"pending", "invited"}
                 PROVE  FALSE
    <3>1. \A x \in Apps : app[x].status \in AppStatuses
      BY DEF StoreInv, StoreTypeOK
    <3> QED  BY <3>1 DEF AppStatuses
  <2>2. [status |-> "used", app |-> a] = [status |-> "used", app |-> b]
    BY <1>1, <2>1 DEF StoreInv, HolderAgrees
  <2> QED  BY <1>1, <2>2
<1>2. \A c \in Codes : code[c].status = "used" =>
        \E a \in Apps : app[a].status \in {"pending", "invited"} /\ app[a].code = c
  BY DEF StoreInv, CodeAgrees
<1> QED  BY <1>1, <1>2 DEF OneApplicationPerCode, StoreInv, HolderAgrees

LEMMA StoreStart ==
  ASSUME StoreInit
  PROVE  StoreInv
BY DEF StoreInit, StoreInv, StoreTypeOK, HolderAgrees, CodeAgrees, CodeStatuses, AppStatuses, NoApp

LEMMA StoreRests ==
  ASSUME StoreInv, UNCHANGED storeVars
  PROVE  StoreInv' /\ DecisionStep
BY DEF StoreInv, StoreTypeOK, HolderAgrees, CodeAgrees, DecisionStep, storeVars

(* A new application gets a number that nobody has.                           *)
LEMMA NextIdIsFresh ==
  ASSUME FreshIds # {}
  PROVE  NextId \in FreshIds
<1>1. FreshIds \subseteq Nat
  BY StoreAssumption DEF FreshIds, Apps
<1>2. PICK x \in FreshIds : \A y \in FreshIds : ~ (<<y, x>> \in OpToRel(<, Nat))
  BY <1>1, NatLessThanWellFounded, WFMin
<1>3. ASSUME NEW y \in FreshIds, y < x
      PROVE  <<y, x>> \in OpToRel(<, Nat)
  BY <1>1, <1>3 DEF OpToRel
<1>4. \A y \in FreshIds : ~ (y < x)
  BY <1>2, <1>3
<1>5. \A y \in FreshIds : x \in Nat /\ y \in Nat
  BY <1>1
<1>6. \A y \in FreshIds : x <= y
  BY <1>4, <1>5
<1> QED  BY <1>6 DEF NextId

-----------------------------------------------------------------------------
(* The transactions *)

(* A new application takes an unused code, so that no other one loses it.     *)
LEMMA Storing ==
  ASSUME StoreInv, NEW c \in Codes, Redeemable(c), StoreApplication(c)
  PROVE  StoreInv' /\ DecisionStep
<1>1. NextId \in Apps /\ app[NextId].status = "none"
  BY NextIdIsFresh DEF StoreApplication, FreshIds
<1> DEFINE n == NextId
<1>2. /\ app' = [app EXCEPT ![n] = [status |-> "pending", code |-> c, seat |-> Nothing]]
      /\ code' = [code EXCEPT ![c] = [status |-> "used", app |-> n]]
      /\ sold' = sold
  BY DEF StoreApplication
<1>3. n \in Apps /\ app[n].status = "none"
  BY <1>1
<1> HIDE DEF n
<1>4. StoreTypeOK'
  BY <1>2, <1>3 DEF StoreInv, StoreTypeOK, AppStatuses, CodeStatuses
<1>5. HolderAgrees'
  <2> SUFFICES ASSUME NEW a \in Apps, app'[a].status \in {"pending", "invited"}
               PROVE  app'[a].code \in Codes /\ code'[app'[a].code] = [status |-> "used", app |-> a]
    BY DEF HolderAgrees
  <2>1. CASE a = n
    BY <1>2, <1>3, <2>1 DEF StoreInv, StoreTypeOK
  <2>2. CASE a # n
    <3>1. app'[a] = app[a] /\ app[a].code \in Codes /\ code[app[a].code] = [status |-> "used", app |-> a]
      BY <1>2, <1>3, <2>2 DEF StoreInv, StoreTypeOK, HolderAgrees
    <3>2. app[a].code # c
      BY <3>1 DEF Redeemable
    <3> QED  BY <1>2, <3>1, <3>2 DEF StoreInv, StoreTypeOK
  <2> QED  BY <2>1, <2>2
<1>6. DecisionStep
  BY <1>2, <1>3 DEF DecisionStep, StoreInv, StoreTypeOK, Decided
<1>7. CodeAgrees'
  <2> SUFFICES ASSUME NEW k \in Codes, code'[k].status = "used"
               PROVE  /\ code'[k].app \in Apps
                      /\ app'[code'[k].app].code = k
                      /\ app'[code'[k].app].status \in {"pending", "invited"}
    BY DEF CodeAgrees
  <2>1. CASE k = c
    BY <1>2, <1>3, <2>1 DEF StoreInv, StoreTypeOK
  <2>2. CASE k # c
    <3>1. /\ code'[k] = code[k] /\ code[k].app \in Apps /\ app[code[k].app].code = k
          /\ app[code[k].app].status \in {"pending", "invited"}
      BY <1>2, <2>2 DEF StoreInv, StoreTypeOK, CodeAgrees
    <3>2. code[k].app # n
      BY <1>3, <3>1
    <3> QED  BY <1>2, <3>1, <3>2 DEF StoreInv, StoreTypeOK
  <2> QED  BY <2>1, <2>2
<1> QED  BY <1>4, <1>5, <1>6, <1>7 DEF StoreInv

(* An invitation keeps the code.                                              *)
LEMMA Inviting ==
  ASSUME StoreInv, NEW a \in Apps, NEW s \in Seats, Processable(a), InviteApplication(a, s)
  PROVE  StoreInv' /\ DecisionStep
<1>1. /\ app' = [app EXCEPT ![a] = [app[a] EXCEPT !.status = "invited", !.seat = s]]
      /\ code' = code /\ sold' = sold \cup {s}
  BY DEF InviteApplication, StoreInv, StoreTypeOK
<1>2. StoreTypeOK'
  BY <1>1 DEF StoreInv, StoreTypeOK, AppStatuses
<1>3. HolderAgrees'
  BY <1>1 DEF StoreInv, StoreTypeOK, HolderAgrees, Processable
<1>4. DecisionStep
  BY <1>1 DEF DecisionStep, StoreInv, StoreTypeOK, Decided, Processable
<1>5. CodeAgrees'
  BY <1>1 DEF StoreInv, StoreTypeOK, CodeAgrees
<1> QED  BY <1>2, <1>3, <1>4, <1>5 DEF StoreInv

(* A rejection frees no code but that of the application.                     *)
LEMMA Rejecting ==
  ASSUME StoreInv, NEW a \in Apps, Processable(a), RejectApplication(a)
  PROVE  StoreInv' /\ DecisionStep
<1>1. /\ app' = [app EXCEPT ![a] = [app[a] EXCEPT !.status = "rejected", !.seat = Nothing]]
      /\ code' = [c \in Codes |-> IF c \in Holders(a) THEN [status |-> "unused", app |-> NoApp]
                                  ELSE code[c]]
      /\ sold' = sold
  BY DEF RejectApplication, StoreInv, StoreTypeOK
<1>2. StoreTypeOK'
  BY <1>1 DEF StoreInv, StoreTypeOK, AppStatuses, CodeStatuses
<1>3. HolderAgrees'
  <2> SUFFICES ASSUME NEW b \in Apps, app'[b].status \in {"pending", "invited"}
               PROVE  app'[b].code \in Codes /\ code'[app'[b].code] = [status |-> "used", app |-> b]
    BY DEF HolderAgrees
  <2>1. b # a
    BY <1>1 DEF StoreInv, StoreTypeOK
  <2>2. app'[b] = app[b] /\ app[b].code \in Codes /\ code[app[b].code] = [status |-> "used", app |-> b]
    BY <1>1, <2>1 DEF StoreInv, StoreTypeOK, HolderAgrees
  <2>3. app[b].code \notin Holders(a)
    BY <2>1, <2>2 DEF Holders
  <2> QED  BY <1>1, <2>2, <2>3
<1>4. DecisionStep
  BY <1>1 DEF DecisionStep, StoreInv, StoreTypeOK, Decided, Processable
<1>5. CodeAgrees'
  BY <1>1 DEF StoreInv, StoreTypeOK, CodeAgrees, Holders
<1> QED  BY <1>2, <1>3, <1>4, <1>5 DEF StoreInv

(* A registration deleted as a mistake leaves the code with its application.  *)
LEMMA Returning ==
  ASSUME StoreInv, NEW a \in Apps, NEW s, Withdrawable(a), ReturnApplication(a, s)
  PROVE  StoreInv' /\ DecisionStep
<1>1. /\ app' = [app EXCEPT ![a] = [app[a] EXCEPT !.status = "pending", !.seat = Nothing]]
      /\ code' = code /\ sold' = sold \ {s}
  BY DEF ReturnApplication, StoreInv, StoreTypeOK
<1>2. StoreTypeOK'
  BY <1>1 DEF StoreInv, StoreTypeOK, AppStatuses
<1>3. HolderAgrees'
  BY <1>1 DEF StoreInv, StoreTypeOK, HolderAgrees, Withdrawable
<1>4. DecisionStep
  <2> SUFFICES ASSUME NEW b \in Apps
               PROVE  /\ app[b].status \in {"rejected", "deleted"} => app'[b] = app[b]
                      /\ app[b].status = "invited" => (app'[b] = app[b] \/ InvitationUndone(b))
    BY DEF DecisionStep
  <2>1. CASE b = a
    BY <1>1, <2>1 DEF InvitationUndone, Withdrawable, StoreInv, StoreTypeOK
  <2>2. CASE b # a
    BY <1>1, <2>2 DEF StoreInv, StoreTypeOK
  <2> QED  BY <2>1, <2>2
<1>5. CodeAgrees'
  BY <1>1 DEF StoreInv, StoreTypeOK, CodeAgrees
<1> QED  BY <1>2, <1>3, <1>4, <1>5 DEF StoreInv

(* An archived customer's application is deleted with the code it holds, and  *)
(* with no other code.                                                        *)
LEMMA Erasing ==
  ASSUME StoreInv, NEW a \in Apps, Withdrawable(a), EraseApplication(a)
  PROVE  StoreInv' /\ DecisionStep
<1>1. /\ app' = [app EXCEPT ![a] = Deleted]
      /\ code' = [c \in Codes |-> IF c \in Holders(a) THEN Free ELSE code[c]]
      /\ sold' = sold
  BY DEF EraseApplication
<1>2. StoreTypeOK'
  BY <1>1 DEF StoreInv, StoreTypeOK, AppStatuses, CodeStatuses, Deleted, Free
<1>3. HolderAgrees'
  <2> SUFFICES ASSUME NEW b \in Apps, app'[b].status \in {"pending", "invited"}
               PROVE  app'[b].code \in Codes /\ code'[app'[b].code] = [status |-> "used", app |-> b]
    BY DEF HolderAgrees
  <2>1. b # a
    BY <1>1 DEF StoreInv, StoreTypeOK, Deleted
  <2>2. app'[b] = app[b] /\ app[b].code \in Codes /\ code[app[b].code] = [status |-> "used", app |-> b]
    BY <1>1, <2>1 DEF StoreInv, StoreTypeOK, HolderAgrees
  <2>3. app[b].code \notin Holders(a)
    BY <2>1, <2>2 DEF Holders
  <2> QED  BY <1>1, <2>2, <2>3
<1>4. DecisionStep
  <2> SUFFICES ASSUME NEW b \in Apps
               PROVE  /\ app[b].status \in {"rejected", "deleted"} => app'[b] = app[b]
                      /\ app[b].status = "invited" => (app'[b] = app[b] \/ InvitationUndone(b))
    BY DEF DecisionStep
  <2>1. CASE b = a
    <3> DEFINE k == app[a].code
    <3>1. k \in Codes /\ code[k] = [status |-> "used", app |-> a]
      BY DEF StoreInv, HolderAgrees, Withdrawable
    <3>2. \A c \in Codes : c \in Holders(a) => c = k
      <4> SUFFICES ASSUME NEW c \in Codes, c \in Holders(a), c # k
                   PROVE  FALSE
        OBVIOUS
      <4> QED  BY DEF Holders, StoreInv, CodeAgrees
    <3>3. \A c \in Codes : c \in Holders(a) <=> c = k
      BY <3>1, <3>2 DEF Holders
    <3> HIDE DEF k
    <3>4. [c \in Codes |-> IF c \in Holders(a) THEN Free ELSE code[c]] = [code EXCEPT ![k] = Free]
      BY <3>3 DEF StoreInv, StoreTypeOK
    <3>5. app'[a] = Deleted /\ app[a].status = "invited"
      BY <1>1 DEF Withdrawable, StoreInv, StoreTypeOK
    <3>6. InvitationUndone(a)
      BY <1>1, <3>4, <3>5 DEF InvitationUndone, k
    <3> QED  BY <2>1, <3>5, <3>6
  <2>2. CASE b # a
    BY <1>1, <2>2 DEF StoreInv, StoreTypeOK
  <2> QED  BY <2>1, <2>2
<1>5. CodeAgrees'
  BY <1>1 DEF StoreInv, StoreTypeOK, CodeAgrees, Holders, Free
<1> QED  BY <1>2, <1>3, <1>4, <1>5 DEF StoreInv

(* Only a code that no application holds is switched, drawn or deleted.       *)
LEMMA Switching ==
  ASSUME StoreInv, NEW c \in Codes, NEW status \in CodeStatuses \ {"used"},
         code[c].status # "used", SetCodeStatus(c, status)
  PROVE  StoreInv' /\ DecisionStep
<1>1. StoreTypeOK'
  BY DEF StoreInv, StoreTypeOK, SetCodeStatus
<1>2. HolderAgrees'
  <2> SUFFICES ASSUME NEW a \in Apps, app[a].status \in {"pending", "invited"}
               PROVE  app[a].code \in Codes /\ code'[app[a].code] = [status |-> "used", app |-> a]
    BY DEF HolderAgrees, SetCodeStatus
  <2>1. app[a].code \in Codes /\ code[app[a].code] = [status |-> "used", app |-> a]
    BY DEF StoreInv, HolderAgrees
  <2>2. app[a].code # c
    BY <2>1
  <2> QED  BY <2>1, <2>2 DEF SetCodeStatus, StoreInv, StoreTypeOK
<1>3. DecisionStep
  BY DEF DecisionStep, SetCodeStatus
<1>4. CodeAgrees'
  BY DEF StoreInv, StoreTypeOK, CodeAgrees, SetCodeStatus
<1> QED  BY <1>1, <1>2, <1>3, <1>4 DEF StoreInv

=============================================================================
