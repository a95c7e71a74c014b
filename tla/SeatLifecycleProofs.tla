------------------------ MODULE SeatLifecycleProofs ------------------------
(* What holds of SeatLifecycle for every set of accounts, seats, customers    *)
(* and requests, proved by induction over the steps; of the end of cool-downs, *)
(* with the memory of SeatReleases.                                            *)
EXTENDS SeatReleases, FiniteSetTheorems, FunctionTheorems, TLAPS

USE SeatAssumption, SubsAssumption, TimeAssumption

(* A request that serves one customer names exactly one. *)
Single(r) == r.op \in {"expire", "cancel", "refund"}
             => r.subs \in [1..1 -> Subs]
RequestsOK == req \in [Handlers -> Request] /\ \A h \in Handlers : Single(req[h])
(* A rental that is not a Plus rental sits on a seat. *)
SeatedUnlessPlus ==
  \A s \in Subs : Active(s) /\ s \notin Plus => seatOf[s] \in Seats
(* The strengthening of TypeOK that a step preserves. *)
TypeInv == TypeOK /\ SeatedUnlessPlus /\ RequestsOK

-----------------------------------------------------------------------------
(* Marking snapshots as stale keeps every request well formed. *)
LEMMA TouchType ==
  ASSUME RequestsOK, NEW S
  PROVE  Touch(S) \in [Handlers -> Request]
         /\ \A h \in Handlers : Single(Touch(S)[h])
<1>1. \A r \in Request, b \in BOOLEAN :
        [r EXCEPT !.fresh = b] \in Request
        /\ (Single(r) => Single([r EXCEPT !.fresh = b]))
  BY DEF Request, Single
<1>2. ASSUME NEW h \in Handlers
      PROVE  /\ [req[h] EXCEPT !.fresh = @ /\ Members(req[h]) \cap S = {}]
                  \in Request
             /\ Single([req[h] EXCEPT !.fresh = @ /\ Members(req[h]) \cap S = {}])
  <2>1. req[h] \in Request /\ Single(req[h])
    BY DEF RequestsOK
  <2>2. (req[h].fresh /\ Members(req[h]) \cap S = {}) \in BOOLEAN
    BY Zenon
  <2> QED  BY <1>1, <2>1, <2>2
<1> QED  BY <1>2 DEF Touch

(* Serving one customer. *)
LEMMA OneSubType ==
  ASSUME NEW s \in Subs
  PROVE  <<s>> \in Batches /\ <<s>> \in [1..1 -> Subs]
<1>1. <<s>> \in [1..1 -> Subs]
  OBVIOUS
<1>2. 1 \in 0..MaxBatch
  OBVIOUS
<1> QED  BY <1>1, <1>2 DEF Batches

(* The request of a handler that waits. *)
LEMMA IdleType == Idle \in Request /\ Single(Idle)
<1>1. <<>> \in [1..0 -> Subs]
  OBVIOUS
<1>2. <<>> \in Batches
  BY <1>1 DEF Batches
<1> QED  BY <1>2 DEF Idle, Request, Single

(* The three ways a step leaves the requests: touched, touched and one of      *)
(* them answered, or untouched.                                                *)
LEMMA TouchedRequests ==
  ASSUME RequestsOK, NEW S, req' = Touch(S)
  PROVE  RequestsOK'
BY TouchType DEF RequestsOK
LEMMA AnsweredRequests ==
  ASSUME RequestsOK, NEW S, NEW h \in Handlers,
         req' = [Touch(S) EXCEPT ![h] = Idle]
  PROVE  RequestsOK'
BY TouchType, IdleType DEF RequestsOK
LEMMA StartedRequest ==
  ASSUME RequestsOK, NEW h \in Handlers, NEW r \in Request, Single(r),
         req' = [req EXCEPT ![h] = r]
  PROVE  RequestsOK'
BY DEF RequestsOK

(* A step that only reads: the rows keep their types.                          *)
LEMMA UnchangedRows ==
  ASSUME TypeInv, RequestsOK', clock' = clock + 1,
         UNCHANGED <<accountVars, rowVars, cases>>
  PROVE  TypeOK' /\ SeatedUnlessPlus'
<1>1. UNCHANGED <<paused, banned, life, seatOf, archivedAt, frozenUntil,
                  boardedAt, bills, deferred, requestedAt, cases>>
  BY DEF accountVars, rowVars
<1>2. clock' \in Nat
  BY DEF TypeInv, TypeOK
<1>3. req' \in [Handlers -> Request]
  BY DEF RequestsOK
<1>4. SeatedUnlessPlus'
  BY <1>1 DEF TypeInv, SeatedUnlessPlus, Active
<1> HIDE DEF Case, Request
<1> QED  BY <1>1, <1>2, <1>3, <1>4 DEF TypeInv, TypeOK

(* The customer a request serves, and the instant it read. *)
LEMMA ServedCustomer ==
  ASSUME RequestsOK, NEW h \in Handlers,
         req[h].op \in {"expire", "cancel", "refund"}
  PROVE  req[h].subs[1] \in Subs /\ req[h].at \in Nat
<1>1. req[h] \in Request /\ req[h].subs \in [1..1 -> Subs]
  BY DEF RequestsOK, Single
<1>2. req[h].at \in Nat
  BY <1>1 DEF Request
<1> QED  BY <1>1, <1>2

(* A deadline is an instant or none. *)
LEMMA FreezeDeadlineType ==
  ASSUME NEW s, NEW at \in Nat, NEW ahead
  PROVE  FreezeDeadline(s, at, ahead) \in Time
BY DEF FreezeDeadline, Time, NoTime

(* Changing the status of a case leaves a case. *)
LEMMA SettledCaseType ==
  \A c \in Case : /\ [c EXCEPT !.status = "refunded"] \in Case
                  /\ [c EXCEPT !.status = "reassigned"] \in Case
                  /\ [c EXCEPT !.status = "open"] \in Case
BY DEF Case, Statuses

RowsOK ==
  /\ life \in [Subs -> Life]
  /\ seatOf \in [Subs -> Seats \cup {NoSeat}]
  /\ archivedAt \in [Subs -> Time]
  /\ frozenUntil \in [Subs -> Time]
  /\ boardedAt \in [Subs -> Time]
  /\ bills \in [Subs -> Nat]
  /\ deferred \in [Subs -> BOOLEAN]
  /\ requestedAt \in [Subs -> Time]
  /\ cases \in SUBSET Case

(* Archiving writes columns of the right type and seats nobody. *)
LEMMA ArchiveRowsType ==
  ASSUME TypeInv, NEW S \in SUBSET Subs, NEW at \in Nat, NEW until,
         \A s \in S : until[s] \in Time,
         NEW keep \in SUBSET Case, ArchiveRows(S, at, until, keep)
  PROVE  RowsOK' /\ SeatedUnlessPlus'
<1> USE DEF TypeInv, TypeOK, ArchiveRows
<1>1. life' \in [Subs -> Life]
  BY DEF Life
<1>2. archivedAt' \in [Subs -> Time] /\ requestedAt' \in [Subs -> Time]
  BY DEF Time, NoTime
<1>3. frozenUntil' \in [Subs -> Time]
  OBVIOUS
<1>4. deferred' \in [Subs -> BOOLEAN]
  <2>1. \A s \in Subs : (deferred[s] /\ s \notin S) \in BOOLEAN
    BY Zenon
  <2> QED  BY <2>1
<1>5. cases' \in SUBSET Case
  <2>1. \A c \in Case : [c EXCEPT !.status = "refunded"] \in Case
    BY SettledCaseType
  <2> QED  BY <2>1
<1>6. SeatedUnlessPlus'
  BY DEF SeatedUnlessPlus, Active
<1> QED  BY <1>1, <1>2, <1>3, <1>4, <1>5, <1>6 DEF RowsOK

LEMMA TypeInit == Init => TypeInv
<1> SUFFICES ASSUME Init PROVE TypeInv
  OBVIOUS
<1>1. TypeOK
  BY IdleType DEF Init, TypeOK, Life, Time, NoTime
<1>2. SeatedUnlessPlus
  BY DEF Init, SeatedUnlessPlus, Active
<1>3. RequestsOK
  BY IdleType DEF Init, RequestsOK
<1> QED  BY <1>1, <1>2, <1>3 DEF TypeInv

(* One step per action of Next. *)
LEMMA TypeStep == TypeInv /\ [Next]_vars => TypeInv'
<1> SUFFICES ASSUME TypeInv, [Next]_vars PROVE TypeInv'
  OBVIOUS
<1> USE DEF accountVars, rowVars
<1>1. CASE Tick
  <2>1. clock' \in Nat
    BY <1>1 DEF Tick, TypeInv, TypeOK
  <2>2. UNCHANGED <<accountVars, rowVars, cases, req>>
    BY <1>1 DEF Tick
  <2> QED  BY <2>1, <2>2 DEF TypeInv, TypeOK, RequestsOK, SeatedUnlessPlus, Active
<1>2. ASSUME NEW s \in Subs, NEW t \in Seats \cup {NoSeat}, NEW paid \in {0, 1},
             CreateSubscription(s, t, paid)
      PROVE  TypeInv'
  BY <1>2 DEF CreateSubscription, TypeInv, TypeOK, RequestsOK, SeatedUnlessPlus,
     Active, Life, Time
<1>3. ASSUME NEW s \in Subs, NEW t \in Seats, UpdateSubscription(s, t)
      PROVE  TypeInv'
  <2>1. RequestsOK'
    BY <1>3, TouchedRequests DEF UpdateSubscription, TypeInv
  <2>2. TypeOK' /\ SeatedUnlessPlus'
    BY <1>3, <2>1 DEF UpdateSubscription, TypeInv, TypeOK, RequestsOK, SeatedUnlessPlus,
       Active
  <2> QED  BY <2>1, <2>2 DEF TypeInv
<1>4. ASSUME NEW s \in Subs, SetDuePaid(s)
      PROVE  TypeInv'
  <2>1. RequestsOK'
    BY <1>4, TouchedRequests DEF SetDuePaid, TypeInv
  <2>2. bills' \in [Subs -> Nat]
    <3>1. bills \in [Subs -> Nat] /\ bills' = [bills EXCEPT ![s] = bills[s] + 1]
      BY <1>4 DEF SetDuePaid, TypeInv, TypeOK
    <3> QED  BY <3>1
  <2>3. deferred' \in [Subs -> BOOLEAN]
    BY <1>4 DEF SetDuePaid, TypeInv, TypeOK
  <2>4. TypeOK' /\ SeatedUnlessPlus'
    <3> HIDE DEF RequestsOK
    <3>1. UNCHANGED <<clock, paused, banned, life, seatOf, archivedAt, frozenUntil,
                      boardedAt, requestedAt, cases>>
      BY <1>4 DEF SetDuePaid
    <3> QED  BY <2>1, <2>2, <2>3, <3>1 DEF TypeInv, TypeOK, RequestsOK,
                SeatedUnlessPlus, Active
  <2> QED  BY <2>1, <2>4 DEF TypeInv
<1>4b. ASSUME NEW s \in Subs, DeleteBill(s)
      PROVE  TypeInv'
  <2>1. RequestsOK'
    BY <1>4b, TouchedRequests DEF DeleteBill, TypeInv
  <2>2. bills' \in [Subs -> Nat]
    <3>1. bills \in [Subs -> Nat] /\ bills' = [bills EXCEPT ![s] = bills[s] - 1]
           /\ bills[s] > 0
      BY <1>4b DEF DeleteBill, TypeInv, TypeOK
    <3> QED  BY <3>1
  <2>3. deferred' \in [Subs -> BOOLEAN]
    BY <1>4b DEF DeleteBill, TypeInv, TypeOK
  <2>4. TypeOK' /\ SeatedUnlessPlus'
    <3> HIDE DEF RequestsOK
    <3>1. UNCHANGED <<clock, paused, banned, life, seatOf, archivedAt, frozenUntil,
                      boardedAt, requestedAt, cases>>
      BY <1>4b DEF DeleteBill
    <3> QED  BY <2>1, <2>2, <2>3, <3>1 DEF TypeInv, TypeOK, RequestsOK,
                SeatedUnlessPlus, Active
  <2> QED  BY <2>1, <2>4 DEF TypeInv
<1>5. ASSUME NEW s \in Subs, DeleteMistakenTeamSubscription(s)
      PROVE  TypeInv'
  <2>1. RequestsOK'
    BY <1>5, TouchedRequests DEF DeleteMistakenTeamSubscription, TypeInv
  <2>2. TypeOK' /\ SeatedUnlessPlus'
    BY <1>5, <2>1 DEF DeleteMistakenTeamSubscription, TypeInv, TypeOK, RequestsOK, SeatedUnlessPlus,
       Active, Life
  <2> QED  BY <2>1, <2>2 DEF TypeInv
<1>6. ASSUME NEW s \in Subs, ArchiveSubscription(s)
      PROVE  TypeInv'
  <2>1. RequestsOK'
    BY <1>6, TouchedRequests DEF ArchiveSubscription, TypeInv
  <2>2. /\ clock' = clock + 1 /\ UNCHANGED accountVars
        /\ ArchiveRows({s}, clock + 1, [r \in {s} |-> NoTime], {})
    BY <1>6 DEF ArchiveSubscription
  <2>3. RowsOK' /\ SeatedUnlessPlus'
    BY <2>2, ArchiveRowsType DEF Time, TypeInv, TypeOK
  <2> QED  BY <2>1, <2>2, <2>3 DEF TypeInv, TypeOK, RowsOK, RequestsOK
<1>7. ASSUME NEW s \in Subs, SoftDeleteArchivedSubscription(s)
      PROVE  TypeInv'
  <2>1. RequestsOK'
    BY <1>7, TouchedRequests DEF SoftDeleteArchivedSubscription, TypeInv
  <2>2. TypeOK' /\ SeatedUnlessPlus'
    BY <1>7, <2>1 DEF SoftDeleteArchivedSubscription, TypeInv, TypeOK, RequestsOK, SeatedUnlessPlus,
       Active, Life
  <2> QED  BY <2>1, <2>2 DEF TypeInv
<1>8. CASE RestoreExpiredCancellationRequests
  <2>1. RequestsOK'
    BY <1>8, TouchedRequests DEF RestoreExpiredCancellationRequests, TypeInv
  <2>2. TypeOK' /\ SeatedUnlessPlus'
    BY <1>8, <2>1 DEF RestoreExpiredCancellationRequests, TypeInv, TypeOK, RequestsOK, SeatedUnlessPlus,
       Active, Time, NoTime
  <2> QED  BY <2>1, <2>2 DEF TypeInv
<1>9. ASSUME NEW h \in Handlers, NEW s \in Subs, BeginLeave(h, s)
      PROVE  TypeInv'
  <2> DEFINE r == [op |-> IF Due(s) <= clock + 1 THEN "expire" ELSE "cancel",
                   subs |-> <<s>>, case |-> NoCase, at |-> clock + 1,
                   fresh |-> Due(s) <= clock + 1]
  <2>1. r \in Request /\ Single(r)
    <3>1. (Due(s) <= clock + 1) \in BOOLEAN
      <4>1. Due(s) \in Int
        BY DEF Due, TypeInv, TypeOK, Time, NoTime
      <4> QED  BY <4>1 DEF TypeInv, TypeOK
    <3>2. clock + 1 \in Nat
      BY DEF TypeInv, TypeOK
    <3> QED  BY <3>1, <3>2, OneSubType DEF Request, Single
  <2>2. req' = [req EXCEPT ![h] = r]
    BY <1>9 DEF BeginLeave
  <2> HIDE DEF r
  <2>3. RequestsOK'
    BY <2>1, <2>2, StartedRequest DEF TypeInv
  <2>4. TypeOK' /\ SeatedUnlessPlus'
    <3>1. UNCHANGED <<accountVars, rowVars, cases>> /\ clock' = clock + 1
      BY <1>9 DEF BeginLeave
    <3> QED  BY <2>3, <3>1, UnchangedRows
  <2> QED  BY <2>3, <2>4 DEF TypeInv
<1>10. ASSUME NEW h \in Handlers, CommitExpire(h)
       PROVE  TypeInv'
  <2> DEFINE s == req[h].subs[1]
             until == [r \in {s} |-> FreezeDeadline(s, req[h].at, {})]
  <2>1. s \in Subs /\ req[h].at \in Nat
    BY <1>10, ServedCustomer DEF CommitExpire, TypeInv
  <2>2. RequestsOK'
    BY <1>10, AnsweredRequests DEF CommitExpire, TypeInv
  <2>3. /\ clock' = clock /\ UNCHANGED accountVars
        /\ ArchiveRows({s}, req[h].at, until, {})
    BY <1>10 DEF CommitExpire
  <2>4. \A r \in {s} : until[r] \in Time
    BY <2>1, FreezeDeadlineType
  <2> HIDE DEF until, s
  <2>5. RowsOK' /\ SeatedUnlessPlus'
    BY <2>1, <2>3, <2>4, ArchiveRowsType
  <2> QED  BY <2>2, <2>3, <2>5 DEF TypeInv, TypeOK, RowsOK, RequestsOK
<1>11. ASSUME NEW h \in Handlers, CommitCancel(h)
       PROVE  TypeInv'
  <2> DEFINE s == req[h].subs[1]
             opened == [account |-> IF s \in Plus THEN NoAccount
                                    ELSE AccountOf[seatOf[s]],
                        sub |-> s, day |-> req[h].at,
                        source |-> "customer_cancellation", status |-> "open"]
  <2>1. s \in Subs /\ req[h].at \in Nat
    BY <1>11, ServedCustomer DEF CommitCancel, TypeInv
  <2>2. opened \in Case
    BY <1>11, <2>1 DEF CommitCancel, TypeInv, SeatedUnlessPlus, Case, Sources, Statuses
  <2>3. RequestsOK'
    BY <1>11, AnsweredRequests DEF CommitCancel, TypeInv
  <2>4. cases' = cases \cup {opened} /\ requestedAt' = [requestedAt EXCEPT ![s] = req[h].at]
    BY <1>11 DEF CommitCancel
  <2>5. cases' \in SUBSET Case /\ requestedAt' \in [Subs -> Time]
    <3> HIDE DEF opened
    <3> QED  BY <2>1, <2>2, <2>4 DEF TypeInv, TypeOK, Time
  <2>6. UNCHANGED <<clock, paused, banned, life, seatOf, archivedAt, frozenUntil,
                    boardedAt, bills, deferred>>
    BY <1>11 DEF CommitCancel
  <2> HIDE DEF opened, s
  <2> QED  BY <2>3, <2>5, <2>6 DEF TypeInv, TypeOK, RequestsOK, SeatedUnlessPlus, Active
<1>12. ASSUME NEW h \in Handlers, NEW c \in cases, BeginRefund(h, c)
       PROVE  TypeInv'
  <2> DEFINE r == [op |-> "refund", subs |-> <<c.sub>>, case |-> c,
                   at |-> clock + 1, fresh |-> FALSE]
  <2>1. c \in Case /\ c.sub \in Subs /\ clock + 1 \in Nat
    BY DEF TypeInv, TypeOK, Case
  <2>2. r \in Request /\ Single(r)
    BY <2>1, OneSubType DEF Request, Single
  <2>3. req' = [req EXCEPT ![h] = r]
    BY <1>12 DEF BeginRefund
  <2> HIDE DEF r
  <2>4. RequestsOK'
    BY <2>2, <2>3, StartedRequest DEF TypeInv
  <2>5. clock' = clock + 1 /\ UNCHANGED <<accountVars, rowVars, cases>>
    BY <1>12 DEF BeginRefund
  <2> QED  BY <2>4, <2>5, UnchangedRows DEF TypeInv
<1>13. ASSUME NEW h \in Handlers, CommitCancellationRefund(h)
       PROVE  TypeInv'
  <2> DEFINE s == req[h].subs[1]
             c == req[h].case
             until == [r \in {s} |-> FreezeDeadline(s, req[h].at, {})]
  <2>1. s \in Subs /\ req[h].at \in Nat /\ c \in Case
    BY <1>13 DEF CommitCancellationRefund, TypeInv, TypeOK, RequestsOK, Single, Request
  <2>2. RequestsOK'
    BY <1>13, AnsweredRequests DEF CommitCancellationRefund, TypeInv
  <2>3. /\ clock' = clock /\ UNCHANGED accountVars
        /\ ArchiveRows({s}, req[h].at, until, {c})
    BY <1>13 DEF CommitCancellationRefund
  <2>4. \A r \in {s} : until[r] \in Time
    BY <2>1, FreezeDeadlineType
  <2> HIDE DEF until, s, c
  <2>5. RowsOK' /\ SeatedUnlessPlus'
    BY <2>1, <2>3, <2>4, ArchiveRowsType
  <2> QED  BY <2>2, <2>3, <2>5 DEF TypeInv, TypeOK, RowsOK, RequestsOK
<1>14. ASSUME NEW h \in Handlers, CommitBanRefund(h)
       PROVE  TypeInv'
  <2>1. req[h].case \in Case /\ req[h].at \in Nat
    BY <1>14 DEF CommitBanRefund, TypeInv, TypeOK, RequestsOK, Request
  <2>2. RequestsOK'
    BY <1>14, AnsweredRequests DEF CommitBanRefund, TypeInv
  <2>3. cases' \in SUBSET Case
    <3>1. \A c \in Case : [c EXCEPT !.status = "refunded"] \in Case
      BY SettledCaseType
    <3> QED  BY <1>14, <2>1, <3>1 DEF CommitBanRefund, TypeInv, TypeOK
  <2>4. /\ life' \in [Subs -> Life] /\ archivedAt' \in [Subs -> Time]
        /\ frozenUntil' \in [Subs -> Time] /\ requestedAt' \in [Subs -> Time]
    BY <1>14, <2>1 DEF CommitBanRefund, TypeInv, TypeOK, Life, Time
  <2>5. SeatedUnlessPlus'
    BY <1>14 DEF CommitBanRefund, TypeInv, TypeOK, SeatedUnlessPlus, Active
  <2>6. UNCHANGED <<clock, paused, banned, seatOf, boardedAt, bills, deferred>>
    BY <1>14 DEF CommitBanRefund
  <2> QED  BY <2>2, <2>3, <2>4, <2>5, <2>6 DEF TypeInv, TypeOK, RequestsOK
<1>15. ASSUME NEW c \in cases, UndoBanRefund(c)
       PROVE  TypeInv'
  <2>1. RequestsOK'
    BY <1>15, TouchedRequests DEF UndoBanRefund, TypeInv
  <2>2. cases' \in SUBSET Case
    <3>1. [c EXCEPT !.status = "open"] \in Case
      BY SettledCaseType DEF TypeInv, TypeOK
    <3> QED  BY <1>15, <3>1 DEF UndoBanRefund, TypeInv, TypeOK
  <2>3. life' \in [Subs -> Life] /\ archivedAt' \in [Subs -> Time]
    BY <1>15 DEF UndoBanRefund, TypeInv, TypeOK, Life, Time
  <2>4. SeatedUnlessPlus'
    BY <1>15 DEF UndoBanRefund, TypeInv, TypeOK, SeatedUnlessPlus, Active, HasSeat
  <2>5. UNCHANGED <<clock, paused, banned, seatOf, frozenUntil, boardedAt, bills,
                    deferred, requestedAt>>
    BY <1>15 DEF UndoBanRefund
  <2> QED  BY <2>1, <2>2, <2>3, <2>4, <2>5 DEF TypeInv, TypeOK, RequestsOK
<1>16. ASSUME NEW c \in cases, NEW t \in Seats, ReassignAfterSalesCase(c, t)
       PROVE  TypeInv'
  <2>1. RequestsOK'
    BY <1>16, TouchedRequests DEF ReassignAfterSalesCase, TypeInv
  <2>2. cases' \in SUBSET Case
    <3>1. [c EXCEPT !.status = "reassigned"] \in Case
      BY SettledCaseType DEF TypeInv, TypeOK
    <3> QED  BY <1>16, <3>1 DEF ReassignAfterSalesCase, TypeInv, TypeOK
  <2>3. seatOf' \in [Subs -> Seats \cup {NoSeat}] /\ SeatedUnlessPlus'
    BY <1>16 DEF ReassignAfterSalesCase, TypeInv, TypeOK, SeatedUnlessPlus, Active
  <2>4. UNCHANGED <<clock, paused, banned, life, archivedAt, frozenUntil, boardedAt,
                    bills, deferred, requestedAt>>
    BY <1>16 DEF ReassignAfterSalesCase
  <2> QED  BY <2>1, <2>2, <2>3, <2>4 DEF TypeInv, TypeOK, RequestsOK
<1>17. ASSUME NEW s \in Subs, DeferSubscriptionRenewal(s)
       PROVE  TypeInv'
  <2>1. RequestsOK'
    BY <1>17, TouchedRequests DEF DeferSubscriptionRenewal, TypeInv
  <2>2. TypeOK' /\ SeatedUnlessPlus'
    BY <1>17, <2>1 DEF DeferSubscriptionRenewal, TypeInv, TypeOK, RequestsOK,
       SeatedUnlessPlus, Active
  <2> QED  BY <2>1, <2>2 DEF TypeInv
<1>18. ASSUME NEW s \in Subs, RestoreSubscriptionRenewal(s)
       PROVE  TypeInv'
  <2>1. RequestsOK'
    BY <1>18, TouchedRequests DEF RestoreSubscriptionRenewal, TypeInv
  <2>2. TypeOK' /\ SeatedUnlessPlus'
    BY <1>18, <2>1 DEF RestoreSubscriptionRenewal, TypeInv, TypeOK, RequestsOK,
       SeatedUnlessPlus, Active
  <2> QED  BY <2>1, <2>2 DEF TypeInv
<1>19. ASSUME NEW h \in Handlers, NEW n \in 1..MaxBatch,
              NEW batch \in [1..n -> {s \in Subs : deferred[s]}],
              BeginCompleteDeferred(h, batch)
       PROVE  TypeInv'
  <2> DEFINE r == [op |-> "batch", subs |-> batch, case |-> NoCase,
                   at |-> clock + 1, fresh |-> TRUE]
  <2>1. clock + 1 \in Nat
    BY DEF TypeInv, TypeOK
  <2>2. batch \in Batches
    <3>1. batch \in [1..n -> Subs] /\ n \in 0..MaxBatch
      OBVIOUS
    <3> QED  BY <3>1 DEF Batches
  <2>3. r \in Request /\ Single(r)
    BY <2>1, <2>2 DEF Request, Single
  <2>4. req' = [req EXCEPT ![h] = r]
    BY <1>19 DEF BeginCompleteDeferred
  <2> HIDE DEF r
  <2>5. RequestsOK'
    BY <2>3, <2>4, StartedRequest DEF TypeInv
  <2>6. clock' = clock + 1 /\ UNCHANGED <<accountVars, rowVars, cases>>
    BY <1>19 DEF BeginCompleteDeferred
  <2> QED  BY <2>5, <2>6, UnchangedRows DEF TypeInv
<1>20. ASSUME NEW h \in Handlers, CommitCompleteDeferred(h)
       PROVE  TypeInv'
  <2> DEFINE S == Members(req[h])
             Before(s) == {req[h].subs[j] : j \in {i \in DOMAIN req[h].subs :
                             \E k \in DOMAIN req[h].subs : i < k /\ req[h].subs[k] = s}}
             until == [s \in S |-> FreezeDeadline(s, req[h].at, Before(s))]
  <2>1. req[h].at \in Nat /\ S \in SUBSET Subs
    BY DEF TypeInv, RequestsOK, Request, Batches, Members
  <2>2. RequestsOK'
    BY <1>20, AnsweredRequests DEF CommitCompleteDeferred, TypeInv
  <2>3. /\ clock' = clock /\ UNCHANGED accountVars
        /\ ArchiveRows(S, req[h].at, until, {})
    BY <1>20 DEF CommitCompleteDeferred
  <2>4. \A s \in S : until[s] \in Time
    BY <2>1, FreezeDeadlineType
  <2> HIDE DEF until, S
  <2>5. RowsOK' /\ SeatedUnlessPlus'
    BY <2>1, <2>3, <2>4, ArchiveRowsType
  <2> QED  BY <2>2, <2>3, <2>5 DEF TypeInv, TypeOK, RowsOK, RequestsOK
<1>21. ASSUME NEW h \in Handlers, RollBack(h)
       PROVE  TypeInv'
  BY <1>21, IdleType DEF RollBack, TypeInv, TypeOK, RequestsOK, SeatedUnlessPlus, Active
<1>22. ASSUME NEW a \in Accounts, NEW v \in BOOLEAN, SetAccountPaused(a, v)
       PROVE  TypeInv'
  BY <1>22 DEF SetAccountPaused, TypeInv, TypeOK, RequestsOK, SeatedUnlessPlus, Active
<1>23. ASSUME NEW a \in Accounts, NEW day \in {d \in 0..clock : d >= clock - BanDelay},
              BanAccount(a, day)
       PROVE  TypeInv'
  <2> DEFINE date == IF banned[a] = NoTime THEN day ELSE banned[a]
             affected == {s \in Subs : Active(s) /\ HasSeat(s)
                                       /\ AccountOf[seatOf[s]] = a}
             opened == {[account |-> a, sub |-> s, day |-> date,
                         source |-> "account_ban", status |-> "open"] : s \in affected}
  <2>1. date \in Nat
    BY DEF TypeInv, TypeOK, Time, NoTime
  <2>2. opened \in SUBSET Case
    <3> HIDE DEF date
    <3> QED  BY <2>1 DEF Case, Sources, Statuses
  <2>3. RequestsOK'
    BY <1>23, TouchedRequests DEF BanAccount, TypeInv
  <2>4. /\ banned' = [banned EXCEPT ![a] = date]
        /\ cases' \subseteq cases \cup opened
        /\ requestedAt' = [s \in Subs |-> IF s \in affected THEN NoTime
                                         ELSE requestedAt[s]]
    <3> HIDE DEF date, affected
    <3> QED  BY <1>23 DEF BanAccount, date, affected
  <2>5. UNCHANGED <<clock, paused, life, seatOf, archivedAt, frozenUntil, boardedAt,
                    bills, deferred>>
    BY <1>23 DEF BanAccount
  <2> HIDE DEF date, affected, opened
  <2>6. /\ banned' \in [Accounts -> Time] /\ cases' \in SUBSET Case
        /\ requestedAt' \in [Subs -> Time]
    BY <2>1, <2>2, <2>4 DEF TypeInv, TypeOK, Time
  <2> QED  BY <2>3, <2>5, <2>6 DEF TypeInv, TypeOK, RequestsOK, SeatedUnlessPlus, Active
<1>24. ASSUME NEW s \in Subs, NEW until \in clock..(clock + FreezeDays),
              UpdateFrozenSubscriptionUntil(s, until)
       PROVE  TypeInv'
  <2>1. RequestsOK'
    BY <1>24, TouchedRequests DEF UpdateFrozenSubscriptionUntil, TypeInv
  <2>2. until \in Time
    BY DEF TypeInv, TypeOK, Time
  <2> QED  BY <1>24, <2>1, <2>2 DEF UpdateFrozenSubscriptionUntil, TypeInv, TypeOK,
              RequestsOK, SeatedUnlessPlus, Active
<1>25. CASE Restart
  <2>1. \A s \in Subs : ReconciledFreeze(s) \in Time
    <3> SUFFICES ASSUME NEW s \in Subs PROVE ReconciledFreeze(s) \in Time
      OBVIOUS
    <3>1. ReconciledFreeze(s) \in {frozenUntil[s], NoTime, archivedAt[s] + FreezeDays}
      BY DEF ReconciledFreeze
    <3>2. archivedAt[s] \in Time /\ frozenUntil[s] \in Time
      BY DEF TypeInv, TypeOK
    <3>3. archivedAt[s] + FreezeDays \in Time
      BY <3>2 DEF Time, NoTime
    <3> QED  BY <3>1, <3>2, <3>3 DEF Time
  <2> QED  BY <1>25, <2>1, IdleType DEF Restart, TypeInv, TypeOK, RequestsOK,
              SeatedUnlessPlus, Active
<1>26. CASE UNCHANGED vars
  BY <1>26 DEF vars, TypeInv, TypeOK, RequestsOK, SeatedUnlessPlus, Active
<1> QED
  BY <1>1, <1>2, <1>3, <1>4, <1>4b, <1>5, <1>6, <1>7, <1>8, <1>9, <1>10, <1>11, <1>12,
     <1>13, <1>14, <1>15, <1>16, <1>17, <1>18, <1>19, <1>20, <1>21, <1>22, <1>23,
     <1>24, <1>25, <1>26 DEF Next, Operation

(* Every column keeps its type, through every operation and every restart, for *)
(* any accounts, seats, customers and requests.                                *)
THEOREM TypeCorrect == RestartingSpec => []TypeOK
<1>1. Init => TypeInv
  BY TypeInit
<1>2. TypeInv /\ [Next]_vars => TypeInv'
  BY TypeStep
<1>3. TypeInv => TypeOK
  BY DEF TypeInv
<1> QED  BY <1>1, <1>2, <1>3, PTL DEF RestartingSpec

-----------------------------------------------------------------------------
(* Seats.  A step leaves every customer where he is or sees him off, with at   *)
(* most one exception, who takes a seat that nobody else holds.                *)
Present(s) == Active(s) \/ Frozen(s)
Keeps(s) == /\ Active(s)' => Active(s) /\ seatOf'[s] = seatOf[s]
            /\ Frozen(s)' => Present(s) /\ seatOf'[s] = seatOf[s]
Still(s) == /\ Active(s)' <=> Active(s)
            /\ Frozen(s)' <=> Frozen(s)
            /\ seatOf'[s] = seatOf[s]
Takes(s) == /\ Active(s)'
            /\ HasSeat(s)' => Holders(seatOf'[s]) \subseteq {s}
            /\ HasSeat(s)' \/ ~Present(s)
            /\ Frozen(s) => \E c \in cases : UndoBanRefund(c) /\ c.sub = s
            /\ \A r \in Subs \ {s} : Still(r)
SeatStep == (\A r \in Subs : Keeps(r)) \/ (\E s \in Subs : Takes(s))

(* Archiving present customers moves nobody. *)
LEMMA ArchiveRowsKeeps ==
  ASSUME TypeInv, NEW S \in SUBSET Subs, NEW at, NEW until, NEW keep,
         ArchiveRows(S, at, until, keep), clock' >= clock, clock' \in Nat,
         \A s \in S : Active(s) \/ until[s] = NoTime
  PROVE  \A r \in Subs : Keeps(r)
<1> SUFFICES ASSUME NEW r \in Subs PROVE Keeps(r)
  OBVIOUS
<1>1. seatOf' = seatOf
  BY DEF ArchiveRows
<1>2. Active(r)' => Active(r)
  BY DEF ArchiveRows, Active
<1>3. ASSUME Frozen(r)' PROVE Present(r)
  <2>1. CASE r \in S
    <3>1. frozenUntil'[r] = until[r]
      BY <2>1 DEF ArchiveRows
    <3>2. frozenUntil'[r] # NoTime
      BY <1>3 DEF Frozen, NoTime
    <3> QED  BY <2>1, <3>1, <3>2 DEF Present
  <2>2. CASE r \notin S
    <3>1. life'[r] = life[r] /\ frozenUntil'[r] = frozenUntil[r]
      BY <2>2 DEF ArchiveRows
    <3> QED  BY <1>3, <3>1 DEF Frozen, Present, TypeInv, TypeOK, Time, NoTime
  <2> QED  BY <2>1, <2>2
<1> QED  BY <1>1, <1>2, <1>3 DEF Keeps

(* Nothing about seats changes. *)
LEMMA StayingKeeps ==
  ASSUME TypeInv, UNCHANGED <<life, seatOf, frozenUntil>>, clock' \in Nat,
         clock' >= clock
  PROVE  \A r \in Subs : Keeps(r)
<1> SUFFICES ASSUME NEW r \in Subs PROVE Keeps(r)
  OBVIOUS
<1>1. frozenUntil[r] \in Int /\ clock \in Int
  BY DEF TypeInv, TypeOK, Time, NoTime
<1>2. Frozen(r)' => Frozen(r)
  BY <1>1 DEF Frozen
<1> QED  BY <1>2 DEF Keeps, Present, Active

LEMMA SeatStepOfOperation == TypeInv /\ [Operation]_vars => SeatStep
<1> SUFFICES ASSUME TypeInv, [Operation]_vars PROVE SeatStep
  OBVIOUS
<1> DEFINE Stay == UNCHANGED <<life, seatOf, frozenUntil>>
<1>0. clock' \in Nat /\ clock' >= clock => (Stay => SeatStep)
  BY StayingKeeps DEF SeatStep
<1>a. clock \in Nat /\ clock + 1 \in Nat /\ clock + 1 >= clock /\ clock >= clock
  BY DEF TypeInv, TypeOK
<1> USE DEF rowVars
<1>1. CASE Tick
  BY <1>1, <1>0, <1>a DEF Tick
<1>2. ASSUME NEW s \in Subs, NEW t \in Seats \cup {NoSeat}, NEW paid \in {0, 1},
             CreateSubscription(s, t, paid)
      PROVE  SeatStep
  <2>1. HasSeat(s)' => Holders(seatOf'[s]) \subseteq {s}
    BY <1>2 DEF CreateSubscription, TypeInv, TypeOK, HasSeat
  <2>2. \A r \in Subs \ {s} : Still(r)
    BY <1>2 DEF CreateSubscription, TypeInv, TypeOK, Still, Active, Frozen
  <2>3. Active(s)' /\ ~Present(s)
    BY <1>2 DEF CreateSubscription, TypeInv, TypeOK, Present, Active, Frozen
  <2> QED  BY <2>1, <2>2, <2>3 DEF SeatStep, Takes, Present
<1>3. ASSUME NEW s \in Subs, NEW t \in Seats, UpdateSubscription(s, t)
      PROVE  SeatStep
  <2>1. HasSeat(s)' /\ Holders(seatOf'[s]) \subseteq {s}
    BY <1>3 DEF UpdateSubscription, TypeInv, TypeOK, HasSeat
  <2>2. \A r \in Subs \ {s} : Still(r)
    BY <1>3 DEF UpdateSubscription, TypeInv, TypeOK, Still, Active, Frozen
  <2>3. Active(s)' /\ ~Frozen(s)
    BY <1>3 DEF UpdateSubscription, TypeInv, TypeOK, Active, Frozen
  <2> QED  BY <2>1, <2>2, <2>3 DEF SeatStep, Takes
<1>4. ASSUME NEW s \in Subs, SetDuePaid(s)
      PROVE  SeatStep
  BY <1>4, <1>0, <1>a DEF SetDuePaid
<1>4b. ASSUME NEW s \in Subs, DeleteBill(s)
      PROVE  SeatStep
  BY <1>4b, <1>0, <1>a DEF DeleteBill
<1>5. ASSUME NEW s \in Subs, DeleteMistakenTeamSubscription(s)
      PROVE  SeatStep
  BY <1>5 DEF DeleteMistakenTeamSubscription, SeatStep, Keeps, Present, Active,
     Frozen, TypeInv, TypeOK
<1>6. ASSUME NEW s \in Subs, ArchiveSubscription(s)
      PROVE  SeatStep
  <2>1. clock' = clock + 1
        /\ ArchiveRows({s}, clock + 1, [r \in {s} |-> NoTime], {})
    BY <1>6 DEF ArchiveSubscription
  <2> QED  BY <1>a, <2>1, ArchiveRowsKeeps DEF SeatStep
<1>7. ASSUME NEW s \in Subs, SoftDeleteArchivedSubscription(s)
      PROVE  SeatStep
  BY <1>7 DEF SoftDeleteArchivedSubscription, SeatStep, Keeps, Present, Active,
     Frozen, TypeInv, TypeOK
<1>8. CASE RestoreExpiredCancellationRequests
  BY <1>8 DEF RestoreExpiredCancellationRequests, SeatStep, Keeps, Present, Active,
     Frozen, TypeInv, TypeOK, NoTime
<1>9. ASSUME NEW h \in Handlers, NEW s \in Subs, BeginLeave(h, s)
      PROVE  SeatStep
  BY <1>9, <1>0, <1>a DEF BeginLeave
<1>10. ASSUME NEW h \in Handlers, CommitExpire(h)
      PROVE  SeatStep
  <2> DEFINE s == req[h].subs[1]
             until == [r \in {s} |-> FreezeDeadline(s, req[h].at, {})]
  <2>1. clock' = clock /\ Active(s)
        /\ ArchiveRows({s}, req[h].at, until, {})
    BY <1>10 DEF CommitExpire
  <2>2. s \in Subs
    BY <1>10 DEF CommitExpire, TypeInv, RequestsOK, Single
  <2> HIDE DEF s, until
  <2> QED  BY <1>a, <2>1, <2>2, ArchiveRowsKeeps DEF SeatStep
<1>11. ASSUME NEW h \in Handlers, CommitCancel(h)
      PROVE  SeatStep
  BY <1>11, <1>0, <1>a DEF CommitCancel
<1>12. ASSUME NEW h \in Handlers, NEW c \in cases, BeginRefund(h, c)
      PROVE  SeatStep
  BY <1>12, <1>0, <1>a DEF BeginRefund
<1>13. ASSUME NEW h \in Handlers, CommitCancellationRefund(h)
      PROVE  SeatStep
  <2> DEFINE s == req[h].subs[1]
             until == [r \in {s} |-> FreezeDeadline(s, req[h].at, {})]
  <2>1. clock' = clock /\ Active(s)
        /\ ArchiveRows({s}, req[h].at, until, {req[h].case})
    BY <1>13 DEF CommitCancellationRefund
  <2>2. s \in Subs
    BY <1>13 DEF CommitCancellationRefund, TypeInv, RequestsOK, Single
  <2> HIDE DEF s, until
  <2> QED  BY <1>a, <2>1, <2>2, ArchiveRowsKeeps DEF SeatStep
<1>14. ASSUME NEW h \in Handlers, CommitBanRefund(h)
      PROVE  SeatStep
  BY <1>14 DEF CommitBanRefund, SeatStep, Keeps, Present, Active, Frozen, TypeInv,
     TypeOK, NoTime
<1>15. ASSUME NEW c \in cases, UndoBanRefund(c)
      PROVE  SeatStep
  <2>1. c.sub \in Subs
    BY DEF TypeInv, TypeOK, Case
  <2>2. HasSeat(c.sub)' /\ Holders(seatOf'[c.sub]) \subseteq {c.sub}
    BY <1>15 DEF UndoBanRefund, HasSeat
  <2>3. \A r \in Subs \ {c.sub} : Still(r)
    BY <1>15 DEF UndoBanRefund, TypeInv, TypeOK, Still, Active, Frozen
  <2>4. Active(c.sub)'
    BY <1>15, <2>1 DEF UndoBanRefund, TypeInv, TypeOK, Active
  <2> QED  BY <1>15, <2>1, <2>2, <2>3, <2>4 DEF SeatStep, Takes
<1>16. ASSUME NEW c \in cases, NEW t \in Seats, ReassignAfterSalesCase(c, t)
      PROVE  SeatStep
  <2>1. c.sub \in Subs
    BY DEF TypeInv, TypeOK, Case
  <2>2. HasSeat(c.sub)' /\ Holders(seatOf'[c.sub]) \subseteq {c.sub}
    BY <1>16, <2>1 DEF ReassignAfterSalesCase, TypeInv, TypeOK, HasSeat
  <2>3. \A r \in Subs \ {c.sub} : Still(r)
    BY <1>16 DEF ReassignAfterSalesCase, TypeInv, TypeOK, Still, Active, Frozen
  <2>4. Active(c.sub)' /\ ~Frozen(c.sub)
    BY <1>16, <2>1 DEF ReassignAfterSalesCase, TypeInv, TypeOK, Active, Frozen
  <2> QED  BY <2>1, <2>2, <2>3, <2>4 DEF SeatStep, Takes
<1>17. ASSUME NEW s \in Subs, DeferSubscriptionRenewal(s)
      PROVE  SeatStep
  BY <1>17, <1>0, <1>a DEF DeferSubscriptionRenewal
<1>18. ASSUME NEW s \in Subs, RestoreSubscriptionRenewal(s)
      PROVE  SeatStep
  BY <1>18, <1>0, <1>a DEF RestoreSubscriptionRenewal
<1>19. ASSUME NEW h \in Handlers, NEW n \in 1..MaxBatch,
              NEW batch \in [1..n -> {s \in Subs : deferred[s]}],
              BeginCompleteDeferred(h, batch)
      PROVE  SeatStep
  BY <1>19, <1>0, <1>a DEF BeginCompleteDeferred
<1>20. ASSUME NEW h \in Handlers, CommitCompleteDeferred(h)
      PROVE  SeatStep
  <2> DEFINE S == Members(req[h])
             Before(s) == {req[h].subs[j] : j \in {i \in DOMAIN req[h].subs :
                             \E k \in DOMAIN req[h].subs : i < k /\ req[h].subs[k] = s}}
             until == [s \in S |-> FreezeDeadline(s, req[h].at, Before(s))]
  <2>1. clock' = clock /\ ArchiveRows(S, req[h].at, until, {})
    BY <1>20 DEF CommitCompleteDeferred
  <2>2. S \in SUBSET Subs /\ \A s \in S : Active(s)
    BY <1>20 DEF CommitCompleteDeferred, Deferrable, TypeInv, RequestsOK, Request,
       Batches, Members
  <2> HIDE DEF S, until
  <2> QED  BY <1>a, <2>1, <2>2, ArchiveRowsKeeps DEF SeatStep
<1>21. ASSUME NEW h \in Handlers, RollBack(h)
      PROVE  SeatStep
  BY <1>21, <1>0, <1>a DEF RollBack
<1>22. ASSUME NEW a \in Accounts, NEW v \in BOOLEAN, SetAccountPaused(a, v)
      PROVE  SeatStep
  BY <1>22, <1>0, <1>a DEF SetAccountPaused
<1>23. ASSUME NEW a \in Accounts, NEW day \in {d \in 0..clock : d >= clock - BanDelay},
              BanAccount(a, day)
      PROVE  SeatStep
  BY <1>23, <1>0, <1>a DEF BanAccount
<1>24. ASSUME NEW s \in Subs, NEW until \in clock..(clock + FreezeDays),
              UpdateFrozenSubscriptionUntil(s, until)
      PROVE  SeatStep
  BY <1>24 DEF UpdateFrozenSubscriptionUntil, SeatStep, Keeps, Present, Active, Frozen,
     TypeInv, TypeOK
<1>25. CASE UNCHANGED vars
  BY <1>25, <1>0, <1>a DEF vars
<1> QED
  BY <1>1, <1>2, <1>3, <1>4, <1>4b, <1>5, <1>6, <1>7, <1>8, <1>9, <1>10, <1>11,
     <1>12, <1>13, <1>14, <1>15, <1>16, <1>17, <1>18, <1>19, <1>20, <1>21,
     <1>22, <1>23, <1>24, <1>25 DEF Operation

(* At most one customer sits on a seat or keeps it cooling down. *)
OneHolderPerSeat ==
  \A r, s \in Subs :
    Present(r) /\ Present(s) /\ HasSeat(s) /\ seatOf[r] = seatOf[s] => r = s

LEMMA OneHolderStep == OneHolderPerSeat /\ SeatStep => OneHolderPerSeat'
<1> SUFFICES ASSUME OneHolderPerSeat, SeatStep, NEW q \in Subs, NEW r \in Subs,
                    Present(q)', Present(r)', HasSeat(r)', seatOf'[q] = seatOf'[r]
             PROVE  q = r
  BY DEF OneHolderPerSeat
<1>1. \A s \in Subs : (Keeps(s) \/ Still(s)) /\ Present(s)'
                     => Present(s) /\ seatOf'[s] = seatOf[s]
  BY DEF Keeps, Still, Present
<1>2. CASE \A s \in Subs : Keeps(s)
  BY <1>1, <1>2 DEF OneHolderPerSeat, HasSeat
<1>3. ASSUME NEW s \in Subs, Takes(s) PROVE q = r
  <2>1. CASE q # s /\ r # s
    BY <1>1, <1>3, <2>1 DEF Takes, OneHolderPerSeat, HasSeat
  <2>2. CASE q = s
    <3>1. Holders(seatOf'[r]) \subseteq {s}
      BY <1>3, <2>2 DEF Takes, HasSeat
    <3>2. r # s => r \in Holders(seatOf'[r])
      BY <1>1, <1>3 DEF Takes, Holders, Present
    <3> QED  BY <2>2, <3>1, <3>2
  <2>3. CASE r = s
    <3>1. Holders(seatOf'[q]) \subseteq {s}
      BY <1>3, <2>3 DEF Takes, HasSeat
    <3>2. q # s => q \in Holders(seatOf'[q])
      BY <1>1, <1>3 DEF Takes, Holders, Present
    <3> QED  BY <2>3, <3>1, <3>2
  <2> QED  BY <2>1, <2>2, <2>3
<1> QED  BY <1>2, <1>3 DEF SeatStep

(* The same for customers on board alone: this one a restart cannot break.     *)
LEMMA OneOccupantStep == OneOccupantPerSeat /\ SeatStep => OneOccupantPerSeat'
<1> SUFFICES ASSUME OneOccupantPerSeat, SeatStep, NEW q \in Subs, NEW r \in Subs,
                    Active(q)', Active(r)', HasSeat(q)', seatOf'[q] = seatOf'[r]
             PROVE  q = r
  BY DEF OneOccupantPerSeat
<1>1. \A s \in Subs : (Keeps(s) \/ Still(s)) /\ Active(s)'
                     => Active(s) /\ seatOf'[s] = seatOf[s]
  BY DEF Keeps, Still
<1>2. CASE \A s \in Subs : Keeps(s)
  BY <1>1, <1>2 DEF OneOccupantPerSeat, HasSeat
<1>3. ASSUME NEW s \in Subs, Takes(s) PROVE q = r
  <2>1. CASE q # s /\ r # s
    BY <1>1, <1>3, <2>1 DEF Takes, OneOccupantPerSeat, HasSeat
  <2>2. CASE q = s
    BY <1>1, <1>3, <2>2 DEF Takes, Holders, HasSeat
  <2>3. CASE r = s
    BY <1>1, <1>3, <2>3 DEF Takes, Holders, HasSeat
  <2> QED  BY <2>1, <2>2, <2>3
<1> QED  BY <1>2, <1>3 DEF SeatStep

(* No seat ever has two customers, whatever requests race for it, whatever     *)
(* refunds are undone, and however often the server restarts.                  *)
THEOREM SeatsAreExclusive == RestartingSpec => []OneOccupantPerSeat
<1>1. Init => TypeInv /\ OneOccupantPerSeat
  BY TypeInit DEF Init, OneOccupantPerSeat, Active
<1>2. TypeInv /\ OneOccupantPerSeat /\ [Next]_vars => (TypeInv /\ OneOccupantPerSeat)'
  <2> SUFFICES ASSUME TypeInv, OneOccupantPerSeat, [Next]_vars
               PROVE  TypeInv' /\ OneOccupantPerSeat'
    OBVIOUS
  <2>1. CASE Restart
    BY <2>1, TypeStep DEF Restart, OneOccupantPerSeat, Active, HasSeat
  <2>2. CASE [Operation]_vars
    BY <2>2, TypeStep, SeatStepOfOperation, OneOccupantStep
  <2> QED  BY <2>1, <2>2 DEF Next
<1> QED  BY <1>1, <1>2, PTL DEF RestartingSpec

(* While the server runs, a seat that cools down is handed to nobody: every    *)
(* write of seat_frozen_until respects whoever boarded since.                  *)
THEOREM CoolDownIsExclusive == Spec => []CoolDownKeepsSeatEmpty
<1>1. Init => TypeInv /\ OneHolderPerSeat
  BY TypeInit DEF Init, OneHolderPerSeat, Present, Active, Frozen
<1>2. TypeInv /\ OneHolderPerSeat /\ [Operation]_vars => (TypeInv /\ OneHolderPerSeat)'
  BY TypeStep, SeatStepOfOperation, OneHolderStep DEF Next
<1>3. OneHolderPerSeat => CoolDownKeepsSeatEmpty
  BY DEF OneHolderPerSeat, CoolDownKeepsSeatEmpty, Present
<1> QED  BY <1>1, <1>2, <1>3, PTL DEF Spec

-----------------------------------------------------------------------------
(* Cases.  What fits together about one customer: the row, the cases, the      *)
(* cancellation, the ban of the account and the deferral.                      *)
Fits(s, c) ==
  /\ life[s] \notin {"absent", "removed"}
  /\ c.source = "account_ban" =>
       c.account \in Accounts /\ banned[c.account] = c.day
  /\ c.source = "account_ban" /\ c.status # "reassigned" =>
       HasSeat(s) /\ AccountOf[seatOf[s]] = c.account
  /\ c.status = "reassigned" =>
       c.source = "account_ban" /\ (HasSeat(s) => AccountOf[seatOf[s]] # c.account)
  /\ c.status = "refunded" => ~Active(s)
  /\ c.status = "open" => Active(s)
  /\ c.status = "open" /\ c.source = "customer_cancellation" =>
       c.day = requestedAt[s]
FitTogether(s) ==
  /\ \A c \in CasesOf(s) : Fits(s, c)
  /\ \A c, d \in CasesOf(s) :
       c.status = d.status /\ c.status \in {"open", "refunded"} => c = d
  /\ requestedAt[s] # NoTime => Active(s) /\ \E c \in CasesOf(s) :
       c.status = "open" /\ c.source = "customer_cancellation"
  /\ Active(s) /\ HasSeat(s) /\ banned[AccountOf[seatOf[s]]] # NoTime =>
       \E c \in CasesOf(s) : c.status = "open" /\ c.source = "account_ban"
  /\ deferred[s] => Active(s) /\ requestedAt[s] = NoTime
                    /\ \A c \in CasesOf(s) : c.status # "open"

LEMMA FitTogetherMatches ==
  TypeInv /\ (\A s \in Subs : FitTogether(s)) => CasesMatchSubscriptions
<1> SUFFICES ASSUME TypeInv, \A s \in Subs : FitTogether(s)
             PROVE  CasesMatchSubscriptions
  OBVIOUS
<1>0. /\ \A c \in cases : c.sub \in Subs /\ c \in CasesOf(c.sub) /\ c.day \in Nat
      /\ \A s \in Subs : seatOf[s] \in Seats \cup {NoSeat}
  BY DEF TypeInv, TypeOK, Case, CasesOf
<1>1. OpenCaseCanBeSettled
  <2> SUFFICES ASSUME NEW c \in cases, NEW d \in cases, c.status = "open"
               PROVE  Active(c.sub) /\ (d.status = "open" /\ c.sub = d.sub => c = d)
    BY DEF OpenCaseCanBeSettled
  <2>1. c.sub \in Subs /\ c \in CasesOf(c.sub) /\ d \in CasesOf(d.sub)
    BY <1>0
  <2>2. Fits(c.sub, c)
    BY <2>1 DEF FitTogether
  <2>3. ASSUME d.status = "open", c.sub = d.sub PROVE c = d
    <3>1. c \in CasesOf(c.sub) /\ d \in CasesOf(c.sub) /\ c.status = d.status
      BY <2>1, <2>3
    <3>2. \A e, f \in CasesOf(c.sub) :
            e.status = f.status /\ e.status \in {"open", "refunded"} => e = f
      BY <2>1 DEF FitTogether
    <3> QED  BY <2>3, <3>1, <3>2
  <2> QED  BY <2>2, <2>3 DEF Fits
<1>2. CancellationPointerIntact
  <2> SUFFICES ASSUME NEW s \in Subs
               PROVE  LET asked == {c \in OpenCases(s) :
                                      c.source = "customer_cancellation"} IN
                      IF requestedAt[s] = NoTime THEN asked = {}
                      ELSE Active(s) /\ asked # {} /\ asked = CancellationOf(s)
    BY DEF CancellationPointerIntact
  <2>1. \A c \in OpenCases(s) : c.source = "customer_cancellation"
                                => c.day = requestedAt[s] /\ c.day # NoTime
    BY <1>0 DEF FitTogether, Fits, OpenCases, CasesOf, NoTime
  <2> QED  BY <2>1 DEF FitTogether, OpenCases, CancellationOf
<1>3. NobodyStrandedOnBannedAccount
  BY <1>0 DEF FitTogether, Fits, NobodyStrandedOnBannedAccount, OpenCases
<1>4. DeferredIsQuiet
  BY DEF FitTogether, DeferredIsQuiet, OpenCases
<1> QED  BY <1>1, <1>2, <1>3, <1>4 DEF CasesMatchSubscriptions

(* A customer whose row and cases a step leaves alone. *)
LeftAlone(s) == /\ life'[s] = life[s] /\ seatOf'[s] = seatOf[s]
                /\ requestedAt'[s] = requestedAt[s]
                /\ deferred'[s] => deferred[s]
                /\ CasesOf(s)' = CasesOf(s)
LEMMA LeftAloneFits ==
  ASSUME NEW s \in Subs, FitTogether(s), LeftAlone(s), banned' = banned
  PROVE  FitTogether(s)'
<1>1. \A c \in CasesOf(s) : Fits(s, c)'
  BY DEF FitTogether, Fits, LeftAlone, HasSeat, Active
<1>2. (Active(s)' <=> Active(s)) /\ (HasSeat(s)' <=> HasSeat(s))
  BY DEF LeftAlone, HasSeat, Active
<1> HIDE DEF Fits
<1> QED  BY <1>1, <1>2 DEF FitTogether, LeftAlone

(* A departure settles the only open case of a customer, if there is one. *)
Settles(s, d) == /\ d.sub = s /\ d.status = "refunded"
                 /\ \E c \in OpenCases(s) : /\ d.account = c.account /\ d.day = c.day
                                            /\ d.source = c.source
LEMMA DepartedFits ==
  ASSUME TypeInv, NEW s \in Subs, FitTogether(s), banned' = banned,
         seatOf'[s] = seatOf[s], life'[s] = "archived",
         requestedAt'[s] = NoTime, ~deferred'[s],
         Active(s) \/ life[s] = "archived",
         NEW K, CasesOf(s)' = (CasesOf(s) \ OpenCases(s)) \cup K,
         K = {} \/ \E d : K = {d} /\ Settles(s, d)
  PROVE  FitTogether(s)'
<1>1. (HasSeat(s)' <=> HasSeat(s)) /\ ~Active(s)'
  BY DEF HasSeat, Active
<1>2. \A c \in CasesOf(s) \ OpenCases(s) : Fits(s, c)'
  BY <1>1 DEF FitTogether, Fits, OpenCases
<1>3. \A d \in K : Fits(s, d)' /\ d.status = "refunded"
  BY <1>1 DEF FitTogether, Fits, OpenCases, Settles
<1>4. K # {} => \A c \in CasesOf(s) : c.status # "refunded"
  BY DEF FitTogether, Fits, OpenCases, Settles
<1>5. \A c, d \in CasesOf(s)' :
        c.status = d.status /\ c.status \in {"open", "refunded"} => c = d
  BY <1>3, <1>4 DEF FitTogether, OpenCases
<1> HIDE DEF Fits
<1>6. \A c \in CasesOf(s)' : Fits(s, c)'
  BY <1>2, <1>3
<1> QED  BY <1>1, <1>5, <1>6 DEF FitTogether

-----------------------------------------------------------------------------
(* Requests: the instant they read is past, a refund serves the customer of a  *)
(* case that was open, and a batch names nobody twice.                         *)
WellServed(r) ==
  /\ r.at <= clock
  /\ r.op = "refund" => r.case.status = "open" /\ r.case.sub = r.subs[1]
  /\ r.op = "batch" => \A i, j \in DOMAIN r.subs : r.subs[i] = r.subs[j] => i = j
RequestsServe == \A h \in Handlers : WellServed(req[h])

LEMMA RequestsServeStep ==
  TypeInv /\ RequestsServe /\ [Next]_vars => RequestsServe'
<1> SUFFICES ASSUME TypeInv, RequestsServe, [Next]_vars, NEW h \in Handlers
             PROVE  WellServed(req[h])'
  BY DEF RequestsServe
<1>0. /\ clock \in Nat /\ req \in [Handlers -> Request] /\ req[h].at \in Nat
      /\ WellServed(req[h])
  BY DEF TypeInv, TypeOK, RequestsServe, Request
<1>1. ASSUME clock' >= clock, clock' \in Nat, NEW b,
             req'[h] = [req[h] EXCEPT !.fresh = b]
      PROVE  WellServed(req[h])'
  <2>1. /\ req'[h].at = req[h].at /\ req'[h].op = req[h].op
        /\ req'[h].subs = req[h].subs /\ req'[h].case = req[h].case
    BY <1>0, <1>1 DEF Request
  <2> QED  BY <1>0, <1>1, <2>1 DEF WellServed
<1>2. \A S : clock' >= clock /\ clock' \in Nat /\ req' = Touch(S) => WellServed(req[h])'
  <2> SUFFICES ASSUME NEW S, clock' >= clock, clock' \in Nat, req' = Touch(S)
               PROVE  WellServed(req[h])'
    OBVIOUS
  <2>1. req'[h] = [req[h] EXCEPT !.fresh = req[h].fresh /\ Members(req[h]) \cap S = {}]
    BY DEF Touch
  <2> QED  BY <1>1, <2>1
<1>3. req'[h] = Idle /\ clock' \in Nat => WellServed(req[h])'
  BY DEF WellServed, Idle
<1>4. \A S : \A g \in Handlers :
        clock' = clock /\ req' = [Touch(S) EXCEPT ![g] = Idle] => WellServed(req[h])'
  <2> SUFFICES ASSUME NEW S, NEW g \in Handlers, clock' = clock,
                      req' = [Touch(S) EXCEPT ![g] = Idle]
               PROVE  WellServed(req[h])'
    OBVIOUS
  <2>1. CASE h = g
    BY <1>0, <1>3, <2>1 DEF Touch
  <2>2. CASE h # g
    <3>1. req'[h] = [req[h] EXCEPT !.fresh = req[h].fresh /\ Members(req[h]) \cap S = {}]
      BY <2>2 DEF Touch
    <3> QED  BY <1>0, <1>1, <3>1
  <2> QED  BY <2>1, <2>2
<1>5. clock' >= clock /\ clock' \in Nat /\ req' = req => WellServed(req[h])'
  BY <1>0 DEF WellServed
<1>6. \A r : \A g \in Handlers :
        /\ clock' >= clock /\ clock' \in Nat /\ req' = [req EXCEPT ![g] = r]
        /\ r.at <= clock'
        /\ r.op = "refund" => r.case.status = "open" /\ r.case.sub = r.subs[1]
        /\ r.op = "batch" => \A i, j \in DOMAIN r.subs : r.subs[i] = r.subs[j] => i = j
        => WellServed(req[h])'
  BY <1>0 DEF WellServed
<1>7. clock >= clock /\ clock + 1 >= clock /\ clock + 1 \in Nat
  BY <1>0
<1>8. ASSUME NEW g \in Handlers, NEW s \in Subs, BeginLeave(g, s)
      PROVE  WellServed(req[h])'
  <2>1. clock' = clock + 1
    BY <1>8 DEF BeginLeave
  <2> DEFINE r == [op |-> IF Due(s) <= clock + 1 THEN "expire" ELSE "cancel",
                   subs |-> <<s>>, case |-> NoCase, at |-> clock + 1,
                   fresh |-> Due(s) <= clock + 1]
  <2>2. req' = [req EXCEPT ![g] = r]
    BY <1>8 DEF BeginLeave
  <2>3. r.at = clock + 1 /\ r.op \notin {"refund", "batch"}
    OBVIOUS
  <2> HIDE DEF r
  <2>4. /\ clock' >= clock /\ clock' \in Nat /\ r.at <= clock'
        /\ r.op = "refund" => r.case.status = "open" /\ r.case.sub = r.subs[1]
        /\ r.op # "batch"
    BY <1>7, <2>1, <2>3
  <2> QED  BY <1>6, <2>2, <2>4
<1>9. ASSUME NEW g \in Handlers, NEW c \in cases, BeginRefund(g, c)
      PROVE  WellServed(req[h])'
  <2>1. clock' = clock + 1 /\ c.status = "open"
    BY <1>9 DEF BeginRefund
  <2> DEFINE r == [op |-> "refund", subs |-> <<c.sub>>, case |-> c,
                   at |-> clock + 1, fresh |-> FALSE]
  <2>2. req' = [req EXCEPT ![g] = r]
    BY <1>9 DEF BeginRefund
  <2>3. r.at = clock + 1 /\ r.case = c /\ r.subs[1] = c.sub /\ r.op = "refund"
    OBVIOUS
  <2> HIDE DEF r
  <2>4. /\ clock' >= clock /\ clock' \in Nat /\ r.at <= clock'
        /\ r.op = "refund" => r.case.status = "open" /\ r.case.sub = r.subs[1]
        /\ r.op # "batch"
    BY <1>7, <2>1, <2>3
  <2> QED  BY <1>6, <2>2, <2>4
<1>10. ASSUME NEW g \in Handlers, NEW n \in 1..MaxBatch,
              NEW batch \in [1..n -> {s \in Subs : deferred[s]}],
              BeginCompleteDeferred(g, batch)
       PROVE  WellServed(req[h])'
  <2>1. clock' = clock + 1
    BY <1>10 DEF BeginCompleteDeferred
  <2> DEFINE r == [op |-> "batch", subs |-> batch, case |-> NoCase,
                   at |-> clock + 1, fresh |-> TRUE]
  <2>2. req' = [req EXCEPT ![g] = r]
    BY <1>10 DEF BeginCompleteDeferred
  <2>3. /\ r.at = clock + 1 /\ r.op # "refund" /\ r.subs = batch
        /\ \A i, j \in DOMAIN batch : batch[i] = batch[j] => i = j
    BY <1>10 DEF BeginCompleteDeferred
  <2> HIDE DEF r
  <2>4. /\ clock' >= clock /\ clock' \in Nat /\ r.at <= clock'
        /\ r.op # "refund"
        /\ \A i, j \in DOMAIN r.subs : r.subs[i] = r.subs[j] => i = j
    BY <1>7, <2>1, <2>3
  <2> QED  BY <1>6, <2>2, <2>4
<1>11. ASSUME NEW g \in Handlers, RollBack(g)
       PROVE  WellServed(req[h])'
  <2>1. clock' = clock /\ (req'[h] = req[h] \/ req'[h] = Idle)
    BY <1>0, <1>11 DEF RollBack
  <2> QED  BY <1>0, <1>3, <2>1 DEF WellServed
<1>12. CASE Restart
  BY <1>0, <1>3, <1>12 DEF Restart
<1>13. CASE \/ Tick
            \/ \E s \in Subs, t \in Seats \cup {NoSeat}, paid \in {0, 1} :
                 CreateSubscription(s, t, paid)
            \/ \E a \in Accounts, v \in BOOLEAN : SetAccountPaused(a, v)
            \/ UNCHANGED vars
  BY <1>0, <1>5, <1>7, <1>13 DEF Tick, CreateSubscription, SetAccountPaused, vars
<1>14. CASE \/ \E g \in Handlers : \/ CommitExpire(g) \/ CommitCancel(g)
                                   \/ CommitCancellationRefund(g)
                                   \/ CommitBanRefund(g)
                                   \/ CommitCompleteDeferred(g)
  BY <1>4, <1>14 DEF CommitExpire, CommitCancel, CommitCancellationRefund,
     CommitBanRefund, CommitCompleteDeferred
<1>15. CASE \/ \E s \in Subs : \/ SetDuePaid(s) \/ DeleteBill(s)
                               \/ DeleteMistakenTeamSubscription(s)
                               \/ ArchiveSubscription(s)
                               \/ SoftDeleteArchivedSubscription(s)
                               \/ DeferSubscriptionRenewal(s)
                               \/ RestoreSubscriptionRenewal(s)
  BY <1>0, <1>2, <1>7, <1>15 DEF SetDuePaid, DeleteBill, DeleteMistakenTeamSubscription,
     ArchiveSubscription, SoftDeleteArchivedSubscription,
     DeferSubscriptionRenewal, RestoreSubscriptionRenewal
<1>16. CASE \/ \E s \in Subs, t \in Seats : UpdateSubscription(s, t)
            \/ RestoreExpiredCancellationRequests
            \/ \E c \in cases : UndoBanRefund(c)
            \/ \E c \in cases, t \in Seats : ReassignAfterSalesCase(c, t)
            \/ \E a \in Accounts, day \in {d \in 0..clock : d >= clock - BanDelay} :
                 BanAccount(a, day)
            \/ \E s \in Subs, until \in clock..(clock + FreezeDays) :
                 UpdateFrozenSubscriptionUntil(s, until)
  BY <1>0, <1>2, <1>7, <1>16 DEF UpdateSubscription, RestoreExpiredCancellationRequests,
     UndoBanRefund, ReassignAfterSalesCase, BanAccount, UpdateFrozenSubscriptionUntil
<1> QED
  BY <1>8, <1>9, <1>10, <1>11, <1>12, <1>13, <1>14, <1>15, <1>16 DEF Next, Operation

-----------------------------------------------------------------------------
(* Archiving customers without an open case. *)
LEMMA ArchivedFit ==
  ASSUME TypeInv, NEW S \in SUBSET Subs, NEW at, NEW until, NEW x \in Subs,
         ArchiveRows(S, at, until, {}), banned' = banned, FitTogether(x),
         x \in S => /\ Active(x) \/ life[x] = "archived"
                    /\ OpenCases(x) = {}
  PROVE  FitTogether(x)'
<1>1. CASE x \in S
  <2>1. CasesOf(x)' = CasesOf(x)
    BY <1>1 DEF ArchiveRows, CasesOf, CancellationOf, OpenCases
  <2>2. /\ seatOf'[x] = seatOf[x] /\ life'[x] = "archived"
        /\ requestedAt'[x] = NoTime /\ ~deferred'[x]
    BY <1>1 DEF ArchiveRows
  <2>3. CasesOf(x)' = (CasesOf(x) \ OpenCases(x)) \cup {}
    BY <1>1, <2>1
  <2> QED  BY <1>1, <2>2, <2>3, DepartedFits
<1>2. CASE x \notin S
  <2>1. CasesOf(x)' = CasesOf(x)
    BY <1>2 DEF ArchiveRows, CasesOf, CancellationOf, OpenCases
  <2>2. /\ seatOf'[x] = seatOf[x] /\ life'[x] = life[x]
        /\ requestedAt'[x] = requestedAt[x] /\ deferred'[x] = deferred[x]
    BY <1>2 DEF ArchiveRows, TypeInv, TypeOK
  <2> QED  BY <2>1, <2>2, LeftAloneFits DEF LeftAlone
<1> QED  BY <1>1, <1>2

(* Settling the open case c of a customer as d. *)
LEMMA CasesSettled ==
  ASSUME NEW x \in Subs, NEW c \in cases, NEW d, d.sub = c.sub,
         cases' = (cases \ {c}) \cup {d}
  PROVE  CasesOf(x)' = IF x = c.sub THEN (CasesOf(x) \ {c}) \cup {d} ELSE CasesOf(x)
BY DEF CasesOf

(* The only open case of a customer. *)
LEMMA OnlyOpenCase ==
  ASSUME NEW x, FitTogether(x), NEW c \in CasesOf(x), c.status = "open"
  PROVE  OpenCases(x) = {c}
BY DEF FitTogether, OpenCases

(* A changed status leaves the rest of a case. *)
LEMMA SettledCase ==
  ASSUME NEW c \in Case, NEW v
  PROVE  LET d == [c EXCEPT !.status = v] IN
         /\ d.sub = c.sub /\ d.account = c.account /\ d.day = c.day
         /\ d.source = c.source /\ d.status = v
BY DEF Case

LEMMA FitStep ==
  TypeInv /\ RequestsServe /\ (\A s \in Subs : FitTogether(s)) /\ [Next]_vars
  => \A s \in Subs : FitTogether(s)'
<1> SUFFICES ASSUME TypeInv, RequestsServe, \A s \in Subs : FitTogether(s),
                    [Next]_vars, NEW x \in Subs
             PROVE  FitTogether(x)'
  OBVIOUS
<1> USE DEF accountVars, rowVars
<1>0. /\ life \in [Subs -> Life] /\ seatOf \in [Subs -> Seats \cup {NoSeat}]
      /\ banned \in [Accounts -> Time]
      /\ deferred \in [Subs -> BOOLEAN] /\ requestedAt \in [Subs -> Time]
      /\ cases \in SUBSET Case /\ FitTogether(x)
      /\ \A c \in cases : c.sub \in Subs /\ c.day \in Nat /\ c \in CasesOf(c.sub)
  BY DEF TypeInv, TypeOK, Case, CasesOf
<1>a. UNCHANGED <<life, seatOf, banned, deferred, requestedAt, cases>>
      => FitTogether(x)'
  BY <1>0, LeftAloneFits DEF LeftAlone, CasesOf
<1>1. CASE Tick \/ Restart \/ UNCHANGED vars
           \/ (\E h \in Handlers, s \in Subs : BeginLeave(h, s))
           \/ (\E h \in Handlers, c \in cases : BeginRefund(h, c))
           \/ (\E h \in Handlers, n \in 1..MaxBatch :
                 \E batch \in [1..n -> {s \in Subs : deferred[s]}] :
                   BeginCompleteDeferred(h, batch))
           \/ (\E h \in Handlers : RollBack(h))
           \/ (\E a \in Accounts, v \in BOOLEAN : SetAccountPaused(a, v))
           \/ (\E s \in Subs, until \in clock..(clock + FreezeDays) :
                 UpdateFrozenSubscriptionUntil(s, until))
  BY <1>a, <1>1 DEF Tick, Restart, vars, BeginLeave, BeginRefund,
     BeginCompleteDeferred, RollBack, SetAccountPaused, UpdateFrozenSubscriptionUntil
<1>2. ASSUME NEW s \in Subs, NEW t \in Seats \cup {NoSeat}, NEW paid \in {0, 1},
             CreateSubscription(s, t, paid)
      PROVE  FitTogether(x)'
  <2>1. CasesOf(x)' = CasesOf(x) /\ banned' = banned
    BY <1>2 DEF CreateSubscription, CasesOf
  <2>2. CASE x # s
    <3>1. LeftAlone(x)
      BY <1>0, <1>2, <2>1, <2>2 DEF CreateSubscription, LeftAlone
    <3> QED  BY <1>0, <2>1, <3>1, LeftAloneFits
  <2>3. CASE x = s
    <3>1. CasesOf(s) = {} /\ requestedAt[s] = NoTime /\ ~deferred[s]
      BY <1>0, <1>2, <2>3 DEF CreateSubscription, FitTogether, Fits, Active
    <3>2. /\ CasesOf(s)' = {} /\ requestedAt'[s] = NoTime /\ ~deferred'[s]
          /\ seatOf'[s] = t
          /\ t # NoSeat => banned[AccountOf[t]] = NoTime
      BY <1>0, <1>2, <2>1, <2>3, <3>1 DEF CreateSubscription, Assignable
    <3> QED  BY <2>1, <2>3, <3>2 DEF FitTogether, HasSeat
  <2> QED  BY <2>2, <2>3
<1>3. ASSUME NEW s \in Subs, NEW t \in Seats, UpdateSubscription(s, t)
      PROVE  FitTogether(x)'
  <2>1. CasesOf(x)' = CasesOf(x) /\ banned' = banned
    BY <1>3 DEF UpdateSubscription, CasesOf
  <2>2. CASE x # s \/ t = seatOf[s]
    <3>1. LeftAlone(x)
      BY <1>0, <1>3, <2>1, <2>2 DEF UpdateSubscription, LeftAlone
    <3> QED  BY <1>0, <2>1, <3>1, LeftAloneFits
  <2>3. CASE x = s /\ t # seatOf[s]
    <3>1. /\ life'[s] = life[s] /\ requestedAt'[s] = requestedAt[s]
          /\ seatOf'[s] = t /\ ~deferred'[s] /\ Active(s)
          /\ banned[AccountOf[t]] = NoTime
          /\ \A c \in CasesOf(s) : c.status # "open"
      BY <1>0, <1>3, <2>3 DEF UpdateSubscription, Assignable, OpenCases
    <3>2. \A c \in CasesOf(s) : c.status = "reassigned"
      BY <1>0, <2>3, <3>1 DEF FitTogether, Fits, CasesOf, Case, Statuses
    <3>3. \A c \in CasesOf(s) : Fits(s, c)'
      <4>1. \A c \in CasesOf(s) : banned[c.account] # NoTime
        BY <1>0, <2>3, <3>2 DEF FitTogether, Fits, CasesOf, NoTime
      <4> QED  BY <1>0, <2>1, <2>3, <3>1, <3>2, <4>1 DEF FitTogether, Fits, HasSeat, Active
    <3> QED  BY <1>0, <2>1, <2>3, <3>1, <3>2, <3>3 DEF FitTogether, Active, HasSeat
  <2> QED  BY <2>2, <2>3
<1>4. ASSUME NEW s \in Subs, SetDuePaid(s) \/ DeleteBill(s) \/ RestoreSubscriptionRenewal(s)
      PROVE  FitTogether(x)'
  <2>1. LeftAlone(x) /\ banned' = banned
    BY <1>0, <1>4 DEF SetDuePaid, DeleteBill, RestoreSubscriptionRenewal, LeftAlone, CasesOf
  <2> QED  BY <1>0, <2>1, LeftAloneFits
<1>5. ASSUME NEW s \in Subs,
             DeleteMistakenTeamSubscription(s) \/ SoftDeleteArchivedSubscription(s)
      PROVE  FitTogether(x)'
  <2>1. CasesOf(x)' = CasesOf(x) /\ banned' = banned
    BY <1>5 DEF DeleteMistakenTeamSubscription, SoftDeleteArchivedSubscription, CasesOf
  <2>2. CASE x # s
    <3>1. LeftAlone(x)
      BY <1>0, <1>5, <2>1, <2>2 DEF DeleteMistakenTeamSubscription,
         SoftDeleteArchivedSubscription, LeftAlone
    <3> QED  BY <1>0, <2>1, <3>1, LeftAloneFits
  <2>3. CASE x = s
    <3>1. CasesOf(s) = {} /\ life'[s] \in {"removed", "deleted"}
          /\ requestedAt' = requestedAt
          /\ (~deferred'[s] \/ (life[s] = "archived" /\ deferred' = deferred))
      BY <1>0, <1>5 DEF DeleteMistakenTeamSubscription, SoftDeleteArchivedSubscription
    <3>2. requestedAt[s] = NoTime /\ ~deferred'[s]
      BY <1>0, <2>3, <3>1 DEF FitTogether, Active
    <3> QED  BY <2>1, <2>3, <3>1, <3>2 DEF FitTogether, Active
  <2> QED  BY <2>2, <2>3
<1>6. ASSUME NEW s \in Subs, ArchiveSubscription(s)
      PROVE  FitTogether(x)'
  <2>1. /\ banned' = banned /\ (Active(s) \/ life[s] = "archived") /\ OpenCases(s) = {}
        /\ ArchiveRows({s}, clock + 1, [r \in {s} |-> NoTime], {})
    BY <1>6 DEF ArchiveSubscription
  <2> QED  BY <1>0, <2>1, ArchivedFit
<1>7. ASSUME NEW h \in Handlers, CommitExpire(h)
      PROVE  FitTogether(x)'
  <2> DEFINE s == req[h].subs[1]
             until == [r \in {s} |-> FreezeDeadline(s, req[h].at, {})]
  <2>1. /\ banned' = banned /\ Active(s) /\ OpenCases(s) = {}
        /\ ArchiveRows({s}, req[h].at, until, {})
    BY <1>7 DEF CommitExpire
  <2>2. s \in Subs
    BY <1>7, ServedCustomer DEF CommitExpire, TypeInv
  <2> HIDE DEF s, until
  <2> QED  BY <1>0, <2>1, <2>2, ArchivedFit
<1>8. ASSUME NEW h \in Handlers, CommitCompleteDeferred(h)
      PROVE  FitTogether(x)'
  <2> DEFINE S == Members(req[h])
             Before(s) == {req[h].subs[j] : j \in {i \in DOMAIN req[h].subs :
                             \E k \in DOMAIN req[h].subs : i < k /\ req[h].subs[k] = s}}
             until == [s \in S |-> FreezeDeadline(s, req[h].at, Before(s))]
  <2>1. banned' = banned /\ ArchiveRows(S, req[h].at, until, {})
    BY <1>8 DEF CommitCompleteDeferred
  <2>2. S \in SUBSET Subs
    BY DEF TypeInv, RequestsOK, Request, Batches, Members
  <2>3. \A s \in S : Active(s) /\ OpenCases(s) = {}
    BY <1>8 DEF CommitCompleteDeferred, Deferrable
  <2> HIDE DEF S, until
  <2> QED  BY <1>0, <2>1, <2>2, <2>3, ArchivedFit
<1>9. CASE RestoreExpiredCancellationRequests
  <2> DEFINE S == {s \in Subs : Lapsed(s)}
  <2>1. /\ UNCHANGED <<life, seatOf, banned, deferred>>
        /\ cases' = cases \ UNION {CancellationOf(s) : s \in S}
        /\ requestedAt' = [s \in Subs |-> IF s \in S THEN NoTime ELSE requestedAt[s]]
    BY <1>9 DEF RestoreExpiredCancellationRequests
  <2>2. x \in S => Active(x) /\ requestedAt[x] # NoTime
    BY DEF Lapsed
  <2> HIDE DEF S
  <2>3. CASE x \notin S
    <3>1. LeftAlone(x)
      BY <1>0, <2>1, <2>3 DEF LeftAlone, CasesOf, CancellationOf, OpenCases
    <3> QED  BY <1>0, <2>1, <3>1, LeftAloneFits
  <2>4. CASE x \in S
    <3>1. PICK c \in CasesOf(x) : c.status = "open" /\ c.source = "customer_cancellation"
      BY <1>0, <2>2, <2>4 DEF FitTogether
    <3>2. OpenCases(x) = {c} /\ c.day = requestedAt[x]
      BY <1>0, <3>1, OnlyOpenCase DEF FitTogether, Fits
    <3>3. CancellationOf(x) = {c}
      BY <3>1, <3>2 DEF CancellationOf
    <3>4. CasesOf(x)' = CasesOf(x) \ {c}
      BY <2>1, <2>4, <3>3 DEF CasesOf, CancellationOf, OpenCases
    <3>5. \A d \in CasesOf(x)' : d.status # "open" /\ d \in CasesOf(x)
      BY <3>2, <3>4 DEF OpenCases
    <3>6. /\ life'[x] = life[x] /\ seatOf'[x] = seatOf[x] /\ deferred'[x] = deferred[x]
          /\ requestedAt'[x] = NoTime
      BY <1>0, <2>1, <2>4
    <3>7. \A d \in CasesOf(x)' : Fits(x, d)'
      BY <1>0, <2>1, <3>5, <3>6 DEF FitTogether, Fits, HasSeat, Active
    <3>8. ~(HasSeat(x) /\ banned[AccountOf[seatOf[x]]] # NoTime)
      BY <1>0, <2>2, <2>4, <3>1, <3>2 DEF FitTogether, OpenCases
    <3>9. ~deferred[x]
      BY <1>0, <2>2, <2>4 DEF FitTogether
    <3> QED  BY <1>0, <2>1, <3>5, <3>6, <3>7, <3>8, <3>9 DEF FitTogether, HasSeat
  <2> QED  BY <2>3, <2>4
<1>10. ASSUME NEW h \in Handlers, CommitCancel(h)
       PROVE  FitTogether(x)'
  <2> DEFINE s == req[h].subs[1]
             opened == [account |-> IF s \in Plus THEN NoAccount
                                    ELSE AccountOf[seatOf[s]],
                        sub |-> s, day |-> req[h].at,
                        source |-> "customer_cancellation", status |-> "open"]
  <2>1. s \in Subs /\ req[h].at \in Nat
    BY <1>10, ServedCustomer DEF CommitCancel, TypeInv
  <2>2. /\ cases' = cases \cup {opened}
        /\ requestedAt' = [requestedAt EXCEPT ![s] = req[h].at]
        /\ UNCHANGED <<life, seatOf, banned, deferred>>
        /\ Active(s) /\ ~deferred[s] /\ OpenCases(s) = {}
    BY <1>10 DEF CommitCancel, RenewalNotDeferred
  <2>a. /\ opened.sub = s /\ opened.day = req[h].at /\ opened.status = "open"
        /\ opened.source = "customer_cancellation"
    OBVIOUS
  <2>3. PICK o : /\ o = opened /\ o.sub = s /\ o.day = req[h].at
                 /\ o.status = "open" /\ o.source = "customer_cancellation"
    <3> HIDE DEF opened, s
    <3> QED  BY <2>a
  <2> HIDE DEF opened, s
  <2>4. CASE x # s
    <3>1. LeftAlone(x)
      BY <1>0, <2>1, <2>2, <2>3, <2>4 DEF LeftAlone, CasesOf
    <3> QED  BY <1>0, <2>2, <3>1, LeftAloneFits
  <2>5. CASE x = s
    <3>1. CasesOf(x)' = CasesOf(x) \cup {o} /\ \A c \in CasesOf(x) : c.status # "open"
      BY <2>2, <2>3, <2>5 DEF CasesOf, OpenCases
    <3>2. requestedAt'[x] = o.day
      BY <1>0, <2>1, <2>2, <2>3, <2>5
    <3>3. \A c \in CasesOf(x) : Fits(x, c)'
      BY <1>0, <2>2, <3>1 DEF FitTogether, Fits, HasSeat, Active
    <3>4. Fits(x, o)'
      BY <2>2, <2>3, <2>5, <3>2 DEF Fits, Active
    <3>5. ~(HasSeat(x) /\ banned[AccountOf[seatOf[x]]] # NoTime)
      BY <1>0, <2>2, <2>5, <3>1 DEF FitTogether
    <3>6. \A c, d \in CasesOf(x)' :
            c.status = d.status /\ c.status \in {"open", "refunded"} => c = d
      BY <1>0, <2>3, <3>1 DEF FitTogether
    <3> HIDE DEF Fits
    <3> QED  BY <2>2, <2>3, <2>5, <3>1, <3>3, <3>4, <3>5, <3>6 DEF FitTogether, Active, HasSeat
  <2> QED  BY <2>4, <2>5
<1>11. ASSUME NEW h \in Handlers, CommitCancellationRefund(h)
       PROVE  FitTogether(x)'
  <2> DEFINE s == req[h].subs[1]
             c == req[h].case
             d == [c EXCEPT !.status = "refunded"]
             until == [r \in {s} |-> FreezeDeadline(s, req[h].at, {})]
  <2>1. s \in Subs
    BY <1>11, ServedCustomer DEF CommitCancellationRefund, TypeInv
  <2>2. /\ c \in cases /\ c.source = "customer_cancellation" /\ requestedAt[s] = c.day
        /\ Active(s) /\ ArchiveRows({s}, req[h].at, until, {c}) /\ banned' = banned
    BY <1>11 DEF CommitCancellationRefund
  <2>3. c.status = "open" /\ c.sub = s
    BY <1>11 DEF CommitCancellationRefund, RequestsServe, WellServed
  <2>4. d.sub = s /\ d.status = "refunded" /\ d.account = c.account /\ d.day = c.day
        /\ d.source = c.source
    BY <1>0, <2>2, <2>3, SettledCase
  <2>5. cases' = (cases \ ({c} \cup CancellationOf(s))) \cup {d}
    BY <2>2 DEF ArchiveRows
  <2>6. /\ life'[s] = "archived" /\ requestedAt'[s] = NoTime /\ ~deferred'[s]
        /\ seatOf' = seatOf
        /\ \A r \in Subs \ {s} : /\ life'[r] = life[r] /\ requestedAt'[r] = requestedAt[r]
                                /\ deferred'[r] = deferred[r]
    BY <1>0, <2>1, <2>2 DEF ArchiveRows
  <2> HIDE DEF s, c, d, until
  <2>7. CASE x # s
    <3>1. LeftAlone(x)
      BY <2>3, <2>4, <2>5, <2>6, <2>7 DEF LeftAlone, CasesOf, CancellationOf, OpenCases
    <3> QED  BY <1>0, <2>2, <3>1, LeftAloneFits
  <2>8. CASE x = s
    <3>1. OpenCases(x) = {c}
      BY <1>0, <2>2, <2>3, <2>8, OnlyOpenCase
    <3>2. CasesOf(x)' = (CasesOf(x) \ OpenCases(x)) \cup {d}
      BY <2>3, <2>4, <2>5, <2>8, <3>1 DEF CasesOf, CancellationOf
    <3>3. PICK K : K = {d} /\ Settles(x, d)
      BY <2>4, <2>8, <3>1 DEF Settles
    <3> QED  BY <1>0, <2>1, <2>2, <2>6, <2>8, <3>2, <3>3, DepartedFits
  <2> QED  BY <2>7, <2>8
<1>12. ASSUME NEW h \in Handlers, CommitBanRefund(h)
       PROVE  FitTogether(x)'
  <2> DEFINE s == req[h].subs[1]
             c == req[h].case
             d == [c EXCEPT !.status = "refunded"]
  <2>1. s \in Subs
    BY <1>12, ServedCustomer DEF CommitBanRefund, TypeInv
  <2>2. c \in cases /\ Active(s) /\ UNCHANGED <<banned, seatOf, deferred>>
    BY <1>12 DEF CommitBanRefund
  <2>3. c.status = "open" /\ c.sub = s
    BY <1>12 DEF CommitBanRefund, RequestsServe, WellServed
  <2>4. d.sub = s /\ d.status = "refunded" /\ d.account = c.account /\ d.day = c.day
        /\ d.source = c.source
    BY <1>0, <2>2, <2>3, SettledCase
  <2>5. cases' = (cases \ ({c} \cup CancellationOf(s))) \cup {d}
    BY <1>12 DEF CommitBanRefund
  <2>6. /\ life'[s] = "archived" /\ requestedAt'[s] = NoTime
        /\ \A r \in Subs \ {s} : life'[r] = life[r] /\ requestedAt'[r] = requestedAt[r]
    BY <1>0, <1>12, <2>1 DEF CommitBanRefund
  <2> HIDE DEF s, c, d
  <2>7. CASE x # s
    <3>1. LeftAlone(x)
      BY <2>2, <2>3, <2>4, <2>5, <2>6, <2>7 DEF LeftAlone, CasesOf, CancellationOf, OpenCases
    <3> QED  BY <1>0, <2>2, <3>1, LeftAloneFits
  <2>8. CASE x = s
    <3>1. OpenCases(x) = {c}
      BY <1>0, <2>2, <2>3, <2>8, OnlyOpenCase
    <3>2. CasesOf(x)' = (CasesOf(x) \ OpenCases(x)) \cup {d}
      BY <2>3, <2>4, <2>5, <2>8, <3>1 DEF CasesOf, CancellationOf
    <3>3. PICK K : K = {d} /\ Settles(x, d)
      BY <2>4, <2>8, <3>1 DEF Settles
    <3>4. ~deferred[x]
      BY <1>0, <3>1 DEF FitTogether, OpenCases
    <3> QED  BY <1>0, <2>1, <2>2, <2>6, <2>8, <3>2, <3>3, <3>4, DepartedFits
  <2> QED  BY <2>7, <2>8
<1>13. ASSUME NEW c \in cases, UndoBanRefund(c)
       PROVE  FitTogether(x)'
  <2> DEFINE d == [c EXCEPT !.status = "open"]
  <2>1. /\ c.source = "account_ban" /\ c.status = "refunded" /\ life[c.sub] = "archived"
        /\ cases' = (cases \ {c}) \cup {d} /\ life' = [life EXCEPT ![c.sub] = "active"]
        /\ UNCHANGED <<banned, seatOf, deferred, requestedAt>>
    BY <1>13 DEF UndoBanRefund
  <2>2. /\ d.sub = c.sub /\ d.account = c.account /\ d.day = c.day
        /\ d.source = c.source /\ d.status = "open"
    BY <1>0, SettledCase
  <2> HIDE DEF d
  <2>3. CasesOf(x)' = IF x = c.sub THEN (CasesOf(x) \ {c}) \cup {d} ELSE CasesOf(x)
    BY <2>1, <2>2, CasesSettled
  <2>4. CASE x # c.sub
    <3>1. LeftAlone(x)
      BY <1>0, <2>1, <2>3, <2>4 DEF LeftAlone
    <3> QED  BY <1>0, <2>1, <3>1, LeftAloneFits
  <2>5. CASE x = c.sub
    <3>1. c \in CasesOf(x) /\ Fits(x, c) /\ ~Active(x)
      BY <1>0, <2>1, <2>5 DEF FitTogether, Active
    <3>2. \A e \in CasesOf(x) \ {c} : e.status \notin {"open", "refunded"}
      BY <1>0, <2>1, <3>1 DEF FitTogether, Fits
    <3>3. requestedAt[x] = NoTime /\ ~deferred[x]
      BY <1>0, <3>1 DEF FitTogether
    <3>4. life'[x] = "active" /\ (HasSeat(x)' <=> HasSeat(x))
      BY <1>0, <2>1, <2>5 DEF HasSeat
    <3>5. \A e \in CasesOf(x) \ {c} : Fits(x, e)'
      BY <1>0, <2>1, <3>2, <3>4 DEF FitTogether, Fits
    <3>6. Fits(x, d)'
      BY <2>1, <2>2, <3>1, <3>4 DEF Fits, Active
    <3>7. \A e, f \in CasesOf(x)' :
            e.status = f.status /\ e.status \in {"open", "refunded"} => e = f
      BY <2>3, <2>5, <3>2
    <3> HIDE DEF Fits
    <3>8. \A e \in CasesOf(x)' : Fits(x, e)'
      BY <2>3, <2>5, <3>5, <3>6
    <3> QED  BY <2>1, <2>2, <2>3, <2>5, <3>3, <3>4, <3>7, <3>8 DEF FitTogether
  <2> QED  BY <2>4, <2>5
<1>14. ASSUME NEW c \in cases, NEW t \in Seats, ReassignAfterSalesCase(c, t)
       PROVE  FitTogether(x)'
  <2> DEFINE d == [c EXCEPT !.status = "reassigned"]
  <2>1. /\ c.source = "account_ban" /\ c.status = "open" /\ Active(c.sub)
        /\ banned[AccountOf[t]] = NoTime
        /\ cases' = (cases \ {c}) \cup {d} /\ seatOf' = [seatOf EXCEPT ![c.sub] = t]
        /\ UNCHANGED <<banned, life, deferred, requestedAt>>
    BY <1>14 DEF ReassignAfterSalesCase, Assignable
  <2>2. /\ d.sub = c.sub /\ d.account = c.account /\ d.day = c.day
        /\ d.source = c.source /\ d.status = "reassigned"
    BY <1>0, SettledCase
  <2> HIDE DEF d
  <2>3. CasesOf(x)' = IF x = c.sub THEN (CasesOf(x) \ {c}) \cup {d} ELSE CasesOf(x)
    BY <2>1, <2>2, CasesSettled
  <2>4. CASE x # c.sub
    <3>1. LeftAlone(x)
      BY <1>0, <2>1, <2>3, <2>4 DEF LeftAlone
    <3> QED  BY <1>0, <2>1, <3>1, LeftAloneFits
  <2>5. CASE x = c.sub
    <3>1. c \in CasesOf(x) /\ Fits(x, c) /\ Active(x) /\ OpenCases(x) = {c}
      BY <1>0, <2>1, <2>5, OnlyOpenCase DEF FitTogether
    <3>2. \A e \in CasesOf(x) \ {c} : e.status = "reassigned"
      BY <1>0, <3>1 DEF FitTogether, Fits, OpenCases, CasesOf, Case, Statuses
    <3>3. requestedAt[x] = NoTime /\ ~deferred[x]
      BY <1>0, <2>1, <3>1 DEF FitTogether, OpenCases
    <3>4. seatOf'[x] = t /\ life'[x] = life[x] /\ HasSeat(x)'
      BY <1>0, <2>1, <2>5 DEF HasSeat
    <3>5. \A e \in CasesOf(x) : banned[e.account] # NoTime
      BY <1>0, <2>1, <3>2 DEF FitTogether, Fits, CasesOf, NoTime
    <3>6. \A e \in CasesOf(x) \ {c} : Fits(x, e)'
      BY <1>0, <2>1, <3>2, <3>4, <3>5 DEF FitTogether, Fits
    <3>7. Fits(x, d)'
      BY <2>1, <2>2, <3>1, <3>4, <3>5 DEF Fits, Active
    <3>8. \A e \in CasesOf(x)' : e.status = "reassigned"
      BY <2>2, <2>3, <2>5, <3>2
    <3> HIDE DEF Fits
    <3>9. \A e \in CasesOf(x)' : Fits(x, e)'
      BY <2>3, <2>5, <3>6, <3>7
    <3> QED  BY <2>1, <2>5, <3>3, <3>4, <3>8, <3>9 DEF FitTogether
  <2> QED  BY <2>4, <2>5
<1>15. ASSUME NEW s \in Subs, DeferSubscriptionRenewal(s)
       PROVE  FitTogether(x)'
  <2>1. /\ UNCHANGED <<life, seatOf, banned, requestedAt, cases>>
        /\ deferred' = [deferred EXCEPT ![s] = TRUE]
        /\ Active(s) /\ requestedAt[s] = NoTime /\ OpenCases(s) = {}
    BY <1>15 DEF DeferSubscriptionRenewal, Deferrable
  <2>2. CasesOf(x)' = CasesOf(x)
    BY <2>1 DEF CasesOf
  <2>3. CASE x # s
    <3>1. LeftAlone(x)
      BY <1>0, <2>1, <2>2, <2>3 DEF LeftAlone
    <3> QED  BY <1>0, <2>1, <3>1, LeftAloneFits
  <2>4. CASE x = s
    <3>1. \A c \in CasesOf(x) : Fits(x, c)' /\ c.status # "open"
      BY <1>0, <2>1, <2>4 DEF FitTogether, Fits, HasSeat, Active, OpenCases
    <3> HIDE DEF Fits
    <3> QED  BY <1>0, <2>1, <2>2, <2>4, <3>1 DEF FitTogether, HasSeat, Active
  <2> QED  BY <2>3, <2>4
<1>16. ASSUME NEW a \in Accounts, NEW day \in {d \in 0..clock : d >= clock - BanDelay},
              BanAccount(a, day)
       PROVE  FitTogether(x)'
  <2>0. PICK date : date = IF banned[a] = NoTime THEN day ELSE banned[a]
    OBVIOUS
  <2> DEFINE Opened(s) == [account |-> a, sub |-> s, day |-> date,
                           source |-> "account_ban", status |-> "open"]
             affected == {s \in Subs : Active(s) /\ HasSeat(s)
                                       /\ AccountOf[seatOf[s]] = a}
             kept == cases \ Superseded(affected)
             opened == {Opened(s) : s \in affected}
  <2>1. /\ UNCHANGED <<life, seatOf, deferred>> /\ banned' = [banned EXCEPT ![a] = date]
        /\ cases' = kept \cup {d \in opened : \A c \in kept : ~SameOccurrence(c, d)}
        /\ requestedAt' = [s \in Subs |-> IF s \in affected THEN NoTime
                                          ELSE requestedAt[s]]
        /\ \A s \in affected : ~deferred[s]
    BY <1>16, <2>0 DEF BanAccount, RenewalNotDeferred
  <2>2. date # NoTime /\ \A b \in Accounts : banned[b] # NoTime => banned'[b] = banned[b]
    BY <1>0, <2>0, <2>1 DEF NoTime, Time
  <2>3. \A c \in CasesOf(x) : c.source = "account_ban" => banned'[c.account] = c.day
    BY <1>0, <2>2 DEF FitTogether, Fits, CasesOf, NoTime
  <2>4. \A s : /\ Opened(s).sub = s /\ Opened(s).account = a /\ Opened(s).day = date
               /\ Opened(s).source = "account_ban" /\ Opened(s).status = "open"
    OBVIOUS
  <2>5. \A d \in opened : d.sub \in affected /\ d = Opened(d.sub)
    <3>1. \A s \in affected : Opened(s).sub \in affected /\ Opened(s) = Opened(Opened(s).sub)
      BY <2>4
    <3> HIDE DEF affected, Opened
    <3> QED  BY <3>1
  <2>6. (HasSeat(x)' <=> HasSeat(x)) /\ (Active(x)' <=> Active(x))
    BY <2>1 DEF HasSeat, Active
  <2>7. x \in affected <=> Active(x) /\ HasSeat(x) /\ AccountOf[seatOf[x]] = a
    OBVIOUS
  <2> HIDE DEF affected, Opened
  <2>8. {c \in kept : c.sub = x} = CasesOf(x) \ (IF x \in affected THEN CancellationOf(x) ELSE {})
    BY DEF Superseded, CancellationOf, OpenCases, CasesOf
  <2> HIDE DEF kept, opened
  <2>9. CASE x \notin affected
    <3>1. CasesOf(x)' = CasesOf(x) /\ requestedAt'[x] = requestedAt[x]
      BY <1>0, <2>1, <2>5, <2>8, <2>9 DEF CasesOf
    <3>2. \A c \in CasesOf(x) : Fits(x, c)'
      BY <1>0, <2>1, <2>3, <2>6, <3>1 DEF FitTogether, Fits
    <3>3. Active(x) /\ HasSeat(x) => banned'[AccountOf[seatOf[x]]] = banned[AccountOf[seatOf[x]]]
      BY <1>0, <2>1, <2>7, <2>9 DEF HasSeat
    <3> HIDE DEF Fits
    <3> QED  BY <1>0, <2>1, <2>6, <3>1, <3>2, <3>3 DEF FitTogether
  <2>10. CASE x \in affected
    <3> DEFINE old == CasesOf(x) \ CancellationOf(x)
    <3>1. CasesOf(x)' = old \cup {d \in {Opened(x)} : \A c \in kept : ~SameOccurrence(c, d)}
      <4>1. \A d \in opened : d.sub = x <=> d = Opened(x)
        BY <2>4, <2>5
      <4>2. Opened(x) \in opened
        BY <2>10 DEF opened
      <4> QED  BY <2>1, <2>8, <2>10, <4>1, <4>2 DEF CasesOf
    <3>2. /\ Active(x) /\ HasSeat(x) /\ AccountOf[seatOf[x]] = a /\ ~deferred[x]
          /\ requestedAt'[x] = NoTime
      BY <2>1, <2>7, <2>10
    <3>3. \A c \in old : /\ c \in CasesOf(x)
                         /\ c.status = "open" => /\ c.source = "account_ban"
                                                 /\ c.account = a /\ c.day = date
                         /\ c.status = "reassigned" => c.account # a
                         /\ c.status # "refunded"
      <4> SUFFICES ASSUME NEW c \in old
                   PROVE  /\ c.status = "open" => /\ c.source = "account_ban"
                                                  /\ c.account = a /\ c.day = date
                          /\ c.status = "reassigned" => c.account # a
                          /\ c.status # "refunded"
        OBVIOUS
      <4>1. c \in CasesOf(x) /\ c \notin CancellationOf(x) /\ Fits(x, c)
        BY <1>0 DEF FitTogether
      <4>2. c.source \in {"account_ban", "customer_cancellation"} /\ c.day \in Nat
        BY <1>0, <4>1 DEF CasesOf, Case, Sources
      <4>3. c.status = "open" => c.source = "account_ban"
        BY <4>1, <4>2 DEF Fits, CancellationOf, OpenCases
      <4>4. c.status = "open" => c.account = a /\ banned[a] = c.day
        BY <3>2, <4>1, <4>3 DEF Fits
      <4>5. c.status = "open" => c.day = date
        BY <2>0, <4>2, <4>4 DEF NoTime
      <4> QED  BY <3>2, <4>1, <4>3, <4>4, <4>5 DEF Fits
    <3>4. \A c \in old : Fits(x, c)'
      <4>1. \A c \in old : c.status = "open" => c.source # "customer_cancellation"
        BY <3>3
      <4> QED  BY <1>0, <2>1, <2>3, <2>6, <3>2, <3>3, <4>1 DEF FitTogether, Fits
    <3>5. Fits(x, Opened(x))'
      BY <1>0, <2>1, <2>4, <2>6, <3>2 DEF Fits, Active
    <3>6. \A c, d \in old : c.status = d.status /\ c.status \in {"open", "refunded"}
                            => c = d
      BY <1>0 DEF FitTogether
    <3>7. \A c \in kept : SameOccurrence(c, Opened(x)) => c \in old
      BY <2>4, <2>8, <2>10 DEF SameOccurrence
    <3> HIDE DEF Fits, old
    <3>8. CASE \E c \in kept : SameOccurrence(c, Opened(x))
      <4>1. PICK c \in old : c.account = a
        BY <2>4, <3>7, <3>8 DEF SameOccurrence
      <4>2. c.status = "open" /\ c.source = "account_ban"
        <5>1. c.status \in Statuses
          BY <1>0, <3>3 DEF CasesOf, Case
        <5> QED  BY <3>3, <4>1, <5>1 DEF Statuses
      <4>3. CasesOf(x)' = old
        BY <3>1, <3>8
      <4> QED  BY <2>1, <2>6, <3>2, <3>4, <3>6, <4>1, <4>2, <4>3 DEF FitTogether
    <3>9. CASE \A c \in kept : ~SameOccurrence(c, Opened(x))
      <4>1. CasesOf(x)' = old \cup {Opened(x)}
        BY <3>1, <3>9
      <4>2. \A c \in old : c.status # "open"
        <5>1. \A c \in old : c.sub = x /\ c \in kept
          BY <2>8, <2>10, <3>3 DEF old
        <5> QED  BY <2>4, <3>3, <3>9, <5>1 DEF SameOccurrence
      <4>3. \A c \in CasesOf(x)' : Fits(x, c)'
        BY <3>4, <3>5, <4>1
      <4>4. \A c, d \in CasesOf(x)' :
              c.status = d.status /\ c.status \in {"open", "refunded"} => c = d
        BY <2>4, <3>6, <4>1, <4>2
      <4> QED  BY <2>1, <2>4, <2>6, <3>2, <4>1, <4>3, <4>4 DEF FitTogether
    <3> QED  BY <3>8, <3>9
  <2> QED  BY <2>9, <2>10
<1> QED
  BY <1>1, <1>2, <1>3, <1>4, <1>5, <1>6, <1>7, <1>8, <1>9, <1>10, <1>11, <1>12,
     <1>13, <1>14, <1>15, <1>16 DEF Next, Operation

(* What fits together at first. *)
LEMMA FitInit == Init => RequestsServe /\ \A s \in Subs : FitTogether(s)
<1> SUFFICES ASSUME Init PROVE RequestsServe /\ \A s \in Subs : FitTogether(s)
  OBVIOUS
<1>1. RequestsServe
  BY DEF Init, RequestsServe, WellServed, Idle
<1>2. \A s \in Subs : FitTogether(s)
  BY DEF Init, FitTogether, CasesOf, Active
<1> QED  BY <1>1, <1>2

(* The invariant the theorems about cases and deferrals rest on. *)
CaseInv == TypeInv /\ RequestsServe /\ \A s \in Subs : FitTogether(s)
LEMMA CaseInvariant == RestartingSpec => []CaseInv
<1>1. Init => CaseInv
  BY TypeInit, FitInit DEF CaseInv
<1>2. CaseInv /\ [Next]_vars => CaseInv'
  BY TypeStep, RequestsServeStep, FitStep DEF CaseInv
<1> QED  BY <1>1, <1>2, PTL DEF RestartingSpec

(* Whatever is open about a customer can be settled, through every             *)
(* interleaving of bans, cancellations, refunds, reassignments, deferrals and  *)
(* restarts, for any accounts, seats, customers and requests.                  *)
THEOREM CasesStayInStep == RestartingSpec => []CasesMatchSubscriptions
<1>1. CaseInv => CasesMatchSubscriptions
  BY FitTogetherMatches DEF CaseInv
<1> QED  BY <1>1, CaseInvariant, PTL

-----------------------------------------------------------------------------
(* Steps.  A row that is archived in a step was archived by one of these.      *)
LEMMA ArchivedBy ==
  ASSUME CaseInv, [Next]_vars, NEW s \in Subs, Active(s), life'[s] = "archived"
  PROVE  \/ ArchiveSubscription(s)
         \/ \E h \in Handlers : CommitExpire(h) /\ s = req[h].subs[1]
         \/ \E h \in Handlers : /\ CommitCancellationRefund(h) \/ CommitBanRefund(h)
                                /\ s = req[h].subs[1]
         \/ \E h \in Handlers : CommitCompleteDeferred(h) /\ s \in Members(req[h])
<1> USE DEF accountVars, rowVars
<1>0. life \in [Subs -> Life]
  BY DEF CaseInv, TypeInv, TypeOK
<1>1. life'[s] # life[s]
  BY DEF Active
<1>2. ~UNCHANGED life
  BY <1>1
<1>3. ~\E r \in Subs : \/ DeleteMistakenTeamSubscription(r)
                      \/ SoftDeleteArchivedSubscription(r)
  BY <1>0, <1>1 DEF DeleteMistakenTeamSubscription, SoftDeleteArchivedSubscription, Active
<1>4. ~\E r \in Subs, t \in Seats \cup {NoSeat}, paid \in {0, 1} :
         CreateSubscription(r, t, paid)
  BY <1>0, <1>1 DEF CreateSubscription, Active
<1>5. ~\E c \in cases : UndoBanRefund(c)
  BY <1>0, <1>1 DEF UndoBanRefund, Active
<1>6. ASSUME NEW r \in Subs, ArchiveSubscription(r) PROVE s = r
  BY <1>0, <1>1, <1>6 DEF ArchiveSubscription, ArchiveRows
<1>7. ASSUME NEW h \in Handlers, CommitExpire(h) PROVE s = req[h].subs[1]
  BY <1>0, <1>1, <1>7 DEF CommitExpire, ArchiveRows
<1>8. ASSUME NEW h \in Handlers, CommitCancellationRefund(h) \/ CommitBanRefund(h)
      PROVE  s = req[h].subs[1]
  BY <1>0, <1>1, <1>8 DEF CommitCancellationRefund, CommitBanRefund, ArchiveRows
<1>9. ASSUME NEW h \in Handlers, CommitCompleteDeferred(h) PROVE s \in Members(req[h])
  BY <1>0, <1>1, <1>9 DEF CommitCompleteDeferred, ArchiveRows
<1>10. \/ \E r \in Subs : ArchiveSubscription(r)
       \/ \E h \in Handlers : \/ CommitExpire(h) \/ CommitCancellationRefund(h)
                              \/ CommitBanRefund(h) \/ CommitCompleteDeferred(h)
  <2>1. ~(\/ Tick \/ Restart \/ UNCHANGED vars \/ RestoreExpiredCancellationRequests
          \/ \E r \in Subs : \/ SetDuePaid(r) \/ DeleteBill(r)
                             \/ DeferSubscriptionRenewal(r)
                             \/ RestoreSubscriptionRenewal(r)
          \/ \E h \in Handlers : CommitCancel(h) \/ RollBack(h))
    BY <1>2 DEF Tick, Restart, vars, RestoreExpiredCancellationRequests, SetDuePaid,
       DeleteBill, DeferSubscriptionRenewal, RestoreSubscriptionRenewal, CommitCancel,
       RollBack
  <2>2. ~(\/ \E r \in Subs, t \in Seats : UpdateSubscription(r, t)
          \/ \E h \in Handlers, r \in Subs : BeginLeave(h, r)
          \/ \E h \in Handlers, c \in cases : BeginRefund(h, c)
          \/ \E c \in cases, t \in Seats : ReassignAfterSalesCase(c, t)
          \/ \E h \in Handlers, n \in 1..MaxBatch :
               \E batch \in [1..n -> {r \in Subs : deferred[r]}] :
                 BeginCompleteDeferred(h, batch)
          \/ \E a \in Accounts, v \in BOOLEAN : SetAccountPaused(a, v)
          \/ \E a \in Accounts, day \in {d \in 0..clock : d >= clock - BanDelay} :
               BanAccount(a, day)
          \/ \E r \in Subs, until \in clock..(clock + FreezeDays) :
               UpdateFrozenSubscriptionUntil(r, until))
    BY <1>2 DEF UpdateSubscription, BeginLeave, BeginRefund, ReassignAfterSalesCase,
       BeginCompleteDeferred, SetAccountPaused, BanAccount, UpdateFrozenSubscriptionUntil
  <2> QED  BY <1>3, <1>4, <1>5, <2>1, <2>2 DEF Next, Operation
<1> QED  BY <1>6, <1>7, <1>8, <1>9, <1>10

(* Nobody loses a paid period without a refund or the operator's own hand.     *)
THEOREM PaidTimeIsKept == RestartingSpec => PaidTimeIsRefunded
<1>1. ASSUME CaseInv, [Next]_vars, NEW s \in Subs, Active(s), life'[s] = "archived",
             bills[s] > 0, Due(s) > clock
      PROVE  \/ ArchiveSubscription(s)
             \/ \E c \in cases' : c.sub = s /\ c.status = "refunded"
  <2>0. clock \in Nat /\ Due(s) \in Int
    BY <1>1 DEF CaseInv, TypeInv, TypeOK, Due, Time, NoTime
  <2>1. ASSUME NEW h \in Handlers PROVE req[h].at \in Nat /\ req[h].at <= clock
    BY <1>1 DEF CaseInv, TypeInv, TypeOK, RequestsServe, WellServed, Request
  <2>2. ASSUME NEW h \in Handlers, CommitExpire(h), s = req[h].subs[1] PROVE FALSE
    <3>1. Due(s) <= req[h].at
      BY <1>1, <2>2 DEF CommitExpire, StillExpired
    <3> QED  BY <1>1, <2>0, <2>1, <3>1
  <2>3. ASSUME NEW h \in Handlers, CommitCompleteDeferred(h), s \in Members(req[h])
        PROVE  FALSE
    <3>1. Due(s) <= req[h].at
      BY <2>3 DEF CommitCompleteDeferred
    <3> QED  BY <1>1, <2>0, <2>1, <3>1
  <2>4. ASSUME NEW h \in Handlers, CommitCancellationRefund(h) \/ CommitBanRefund(h),
               s = req[h].subs[1]
        PROVE  \E c \in cases' : c.sub = s /\ c.status = "refunded"
    <3> DEFINE d == [req[h].case EXCEPT !.status = "refunded"]
    <3>1. req[h].case \in cases /\ req[h].op = "refund" /\ d \in cases'
      BY <2>4 DEF CommitCancellationRefund, CommitBanRefund, ArchiveRows
    <3>2. req[h].case \in Case /\ req[h].case.sub = s
      BY <1>1, <2>4, <3>1 DEF CaseInv, TypeInv, TypeOK, RequestsServe, WellServed
    <3>3. d.sub = s /\ d.status = "refunded"
      BY <3>2, SettledCase
    <3> QED  BY <3>1, <3>3
  <2> QED  BY <1>1, <2>2, <2>3, <2>4, ArchivedBy
<1>2. CaseInv /\ [Next]_vars =>
        [\A s \in Subs :
           Active(s) /\ life'[s] = "archived" /\ bills[s] > 0 /\ Due(s) > clock
           => \/ ArchiveSubscription(s)
              \/ \E c \in cases' : c.sub = s /\ c.status = "refunded"]_vars
  BY <1>1
<1> QED  BY <1>2, CaseInvariant, PTL DEF RestartingSpec, PaidTimeIsRefunded

(* What a step does to the seat and the life of a customer. *)
Rewrites(s) ==
  \/ life'[s] \in {life[s], "archived"} /\ seatOf'[s] = seatOf[s]
  \/ \E t \in Seats \cup {NoSeat}, paid \in {0, 1} : CreateSubscription(s, t, paid)
  \/ \E t \in Seats : UpdateSubscription(s, t)
  \/ DeleteMistakenTeamSubscription(s)
  \/ SoftDeleteArchivedSubscription(s)
  \/ \E c \in cases : UndoBanRefund(c) /\ s = c.sub
  \/ \E c \in cases, t \in Seats : ReassignAfterSalesCase(c, t) /\ s = c.sub
LEMMA RowStep == ASSUME TypeInv, [Next]_vars, NEW s \in Subs PROVE Rewrites(s)
<1> USE DEF accountVars, rowVars
<1>0. life \in [Subs -> Life] /\ seatOf \in [Subs -> Seats \cup {NoSeat}]
  BY DEF TypeInv, TypeOK
<1>1. UNCHANGED <<life, seatOf>> => Rewrites(s)
  BY DEF Rewrites
<1>2. CASE \/ Tick \/ Restart \/ UNCHANGED vars \/ RestoreExpiredCancellationRequests
           \/ \E r \in Subs : \/ SetDuePaid(r) \/ DeleteBill(r)
                              \/ DeferSubscriptionRenewal(r)
                              \/ RestoreSubscriptionRenewal(r)
           \/ \E h \in Handlers : CommitCancel(h) \/ RollBack(h)
  BY <1>1, <1>2 DEF Tick, Restart, vars, RestoreExpiredCancellationRequests, SetDuePaid,
     DeleteBill, DeferSubscriptionRenewal, RestoreSubscriptionRenewal, CommitCancel,
     RollBack
<1>3. CASE \/ \E h \in Handlers, r \in Subs : BeginLeave(h, r)
           \/ \E h \in Handlers, c \in cases : BeginRefund(h, c)
           \/ \E h \in Handlers, n \in 1..MaxBatch :
                \E batch \in [1..n -> {r \in Subs : deferred[r]}] :
                  BeginCompleteDeferred(h, batch)
           \/ \E a \in Accounts, v \in BOOLEAN : SetAccountPaused(a, v)
           \/ \E a \in Accounts, day \in {d \in 0..clock : d >= clock - BanDelay} :
                BanAccount(a, day)
           \/ \E r \in Subs, until \in clock..(clock + FreezeDays) :
                UpdateFrozenSubscriptionUntil(r, until)
  BY <1>1, <1>3 DEF BeginLeave, BeginRefund, BeginCompleteDeferred, SetAccountPaused,
     BanAccount, UpdateFrozenSubscriptionUntil
<1>4. CASE \/ \E r \in Subs : ArchiveSubscription(r)
           \/ \E h \in Handlers : \/ CommitExpire(h) \/ CommitCancellationRefund(h)
                                  \/ CommitBanRefund(h) \/ CommitCompleteDeferred(h)
  <2>1. ASSUME NEW S, NEW at, NEW until, NEW keep, ArchiveRows(S, at, until, keep)
        PROVE  life'[s] \in {life[s], "archived"} /\ seatOf'[s] = seatOf[s]
    BY <2>1 DEF ArchiveRows
  <2>2. ASSUME NEW h \in Handlers, CommitBanRefund(h)
        PROVE  life'[s] \in {life[s], "archived"} /\ seatOf'[s] = seatOf[s]
    BY <1>0, <2>2 DEF CommitBanRefund
  <2>3. CASE \E S, at, until, keep : ArchiveRows(S, at, until, keep)
    BY <2>1, <2>3 DEF Rewrites
  <2>4. (\E h \in Handlers : CommitBanRefund(h))
        \/ \E S, at, until, keep : ArchiveRows(S, at, until, keep)
    BY <1>4 DEF ArchiveSubscription, CommitExpire, CommitCancellationRefund,
       CommitCompleteDeferred
  <2> QED  BY <2>2, <2>3, <2>4 DEF Rewrites
<1>5. CASE \/ \E r \in Subs, t \in Seats \cup {NoSeat}, paid \in {0, 1} :
                CreateSubscription(r, t, paid)
           \/ \E r \in Subs, t \in Seats : UpdateSubscription(r, t)
           \/ \E r \in Subs : \/ DeleteMistakenTeamSubscription(r)
                              \/ SoftDeleteArchivedSubscription(r)
           \/ \E c \in cases : UndoBanRefund(c)
           \/ \E c \in cases, t \in Seats : ReassignAfterSalesCase(c, t)
  <2>1. ASSUME NEW r \in Subs, NEW t \in Seats \cup {NoSeat}, NEW paid \in {0, 1},
               CreateSubscription(r, t, paid), r # s
        PROVE  UNCHANGED <<life[s], seatOf[s]>>
    BY <1>0, <2>1 DEF CreateSubscription
  <2>2. ASSUME NEW r \in Subs, NEW t \in Seats, UpdateSubscription(r, t), r # s
        PROVE  UNCHANGED <<life[s], seatOf[s]>>
    BY <1>0, <2>2 DEF UpdateSubscription
  <2>3. ASSUME NEW r \in Subs, r # s, \/ DeleteMistakenTeamSubscription(r)
                                      \/ SoftDeleteArchivedSubscription(r)
        PROVE  UNCHANGED <<life[s], seatOf[s]>>
    BY <1>0, <2>3 DEF DeleteMistakenTeamSubscription, SoftDeleteArchivedSubscription
  <2>4. ASSUME NEW c \in cases, UndoBanRefund(c), c.sub # s
        PROVE  UNCHANGED <<life[s], seatOf[s]>>
    BY <1>0, <2>4 DEF UndoBanRefund
  <2>5. ASSUME NEW c \in cases, NEW t \in Seats, ReassignAfterSalesCase(c, t), c.sub # s
        PROVE  UNCHANGED <<life[s], seatOf[s]>>
    BY <1>0, <2>5 DEF ReassignAfterSalesCase
  <2> QED  BY <1>5, <2>1, <2>2, <2>3, <2>4, <2>5 DEF Rewrites
<1> QED  BY <1>2, <1>3, <1>4, <1>5 DEF Next, Operation

(* A paused account gets nobody new.                                           *)
THEOREM PauseIsRespected == RestartingSpec => PausedAccountGetsNobody
<1>1. ASSUME TypeInv, [Next]_vars, NEW s \in Subs, Active(s)', HasSeat(s)',
             ~Active(s) \/ seatOf'[s] # seatOf[s]
      PROVE  ~paused[AccountOf[seatOf'[s]]]
  <2>0. life \in [Subs -> Life] /\ seatOf \in [Subs -> Seats \cup {NoSeat}]
    BY <1>1 DEF TypeInv, TypeOK
  <2>1. CASE life'[s] \in {life[s], "archived"} /\ seatOf'[s] = seatOf[s]
    BY <1>1, <2>1 DEF Active
  <2>2. ASSUME NEW t \in Seats \cup {NoSeat}, NEW paid \in {0, 1},
               CreateSubscription(s, t, paid)
        PROVE  ~paused[AccountOf[seatOf'[s]]]
    BY <1>1, <2>0, <2>2 DEF CreateSubscription, Assignable, HasSeat
  <2>3. ASSUME NEW t \in Seats, UpdateSubscription(s, t)
        PROVE  ~paused[AccountOf[seatOf'[s]]]
    BY <1>1, <2>0, <2>3 DEF UpdateSubscription, Assignable
  <2>4. CASE DeleteMistakenTeamSubscription(s) \/ SoftDeleteArchivedSubscription(s)
    BY <1>1, <2>0, <2>4 DEF DeleteMistakenTeamSubscription,
       SoftDeleteArchivedSubscription, Active
  <2>5. ASSUME NEW c \in cases, UndoBanRefund(c), s = c.sub
        PROVE  ~paused[AccountOf[seatOf'[s]]]
    BY <2>5 DEF UndoBanRefund
  <2>6. ASSUME NEW c \in cases, NEW t \in Seats, ReassignAfterSalesCase(c, t), s = c.sub
        PROVE  ~paused[AccountOf[seatOf'[s]]]
    BY <2>0, <2>6 DEF ReassignAfterSalesCase, Assignable
  <2>7. Rewrites(s)
    BY <1>1, RowStep
  <2> QED  BY <2>1, <2>2, <2>3, <2>4, <2>5, <2>6, <2>7 DEF Rewrites
<1>2. TypeInv /\ [Next]_vars =>
        [\A s \in Subs :
           /\ Active(s)' /\ HasSeat(s)'
           /\ ~Active(s) \/ seatOf'[s] # seatOf[s]
           => ~paused[AccountOf[seatOf'[s]]]]_vars
  BY <1>1
<1> QED  BY <1>2, TypeInit, TypeStep, PTL DEF RestartingSpec, PausedAccountGetsNobody

(* While a renewal is deferred only the confirmed removal ends the rental.     *)
THEOREM DeferralKeepsSeat == RestartingSpec => DeferralIsRespected
<1>1. ASSUME CaseInv, [Next]_vars, NEW s \in Subs, deferred[s]
      PROVE  \/ life'[s] = "active" /\ seatOf'[s] = seatOf[s]
             \/ life'[s] = "removed"
             \/ \E h \in Handlers : /\ req[h].op = "batch" /\ s \in Members(req[h])
                                    /\ req'[h].op = "idle"
  <2>0. /\ life \in [Subs -> Life] /\ seatOf \in [Subs -> Seats \cup {NoSeat}]
        /\ req \in [Handlers -> Request]
        /\ Active(s) /\ \A c \in cases : c.sub = s => c.status # "open"
    BY <1>1 DEF CaseInv, TypeInv, TypeOK, FitTogether, CasesOf
  <2>1. CASE life'[s] = "archived"
    <3>1. ~ArchiveSubscription(s)
      BY <1>1 DEF ArchiveSubscription, RenewalNotDeferred
    <3>2. ASSUME NEW h \in Handlers, CommitExpire(h), s = req[h].subs[1] PROVE FALSE
      BY <1>1, <3>2 DEF CommitExpire, RenewalNotDeferred
    <3>3. ASSUME NEW h \in Handlers, CommitCancellationRefund(h) \/ CommitBanRefund(h),
                 s = req[h].subs[1]
          PROVE  FALSE
      <4>1. req[h].case \in cases /\ req[h].op = "refund"
        BY <3>3 DEF CommitCancellationRefund, CommitBanRefund
      <4>2. req[h].case.sub = s /\ req[h].case.status = "open"
        BY <1>1, <3>3, <4>1 DEF CaseInv, RequestsServe, WellServed
      <4> QED  BY <2>0, <4>1, <4>2
    <3>4. ASSUME NEW h \in Handlers, CommitCompleteDeferred(h)
          PROVE  req[h].op = "batch" /\ req'[h].op = "idle"
      <4>1. req[h].op = "batch" /\ req'[h] = Idle
        BY <3>4 DEF CommitCompleteDeferred, Touch
      <4> QED  BY <4>1 DEF Idle
    <3> QED  BY <1>1, <2>0, <2>1, <3>1, <3>2, <3>3, <3>4, ArchivedBy
  <2>2. CASE life'[s] = life[s] /\ seatOf'[s] = seatOf[s]
    BY <2>0, <2>2 DEF Active
  <2>3. ASSUME NEW t \in Seats, UpdateSubscription(s, t)
        PROVE  life'[s] = "active" /\ seatOf'[s] = seatOf[s]
    BY <1>1, <2>0, <2>3 DEF UpdateSubscription, Active
  <2>4. DeleteMistakenTeamSubscription(s) => life'[s] = "removed"
    BY <2>0 DEF DeleteMistakenTeamSubscription
  <2>5. /\ ~SoftDeleteArchivedSubscription(s)
        /\ \A t, paid : ~CreateSubscription(s, t, paid)
    BY <2>0 DEF SoftDeleteArchivedSubscription, CreateSubscription, Active
  <2>6. \A c \in cases : s = c.sub => ~UndoBanRefund(c)
    BY <2>0 DEF UndoBanRefund, Active
  <2>7. \A c \in cases, t \in Seats : s = c.sub => ~ReassignAfterSalesCase(c, t)
    BY <2>0 DEF ReassignAfterSalesCase
  <2>8. Rewrites(s)
    BY <1>1, RowStep DEF CaseInv
  <2> QED  BY <2>1, <2>2, <2>3, <2>4, <2>5, <2>6, <2>7, <2>8 DEF Rewrites
<1>2. CaseInv /\ [Next]_vars =>
        [\A s \in Subs : deferred[s] =>
           \/ life'[s] = "active" /\ seatOf'[s] = seatOf[s]
           \/ life'[s] = "removed"
           \/ \E h \in Handlers : /\ req[h].op = "batch" /\ s \in Members(req[h])
                                  /\ req'[h].op = "idle"]_vars
  BY <1>1
<1> QED  BY <1>2, CaseInvariant, PTL DEF RestartingSpec, DeferralIsRespected

-----------------------------------------------------------------------------
(* Cool-downs.  While the server runs only a departure or the operator's edit  *)
(* of a running cool-down writes a deadline.                                   *)
DeadlineStep(s) ==
  frozenUntil'[s] \in {frozenUntil[s], NoTime} \/ Active(s) \/ Frozen(s)
LEMMA DeadlinesWritten ==
  ASSUME TypeInv, [Operation]_vars, NEW s \in Subs PROVE DeadlineStep(s)
<1> USE DEF accountVars, rowVars
<1>0. frozenUntil \in [Subs -> Time]
  BY DEF TypeInv, TypeOK
<1>1. UNCHANGED frozenUntil => DeadlineStep(s)
  BY DEF DeadlineStep
<1>2. CASE \/ Tick \/ UNCHANGED vars
           \/ \E r \in Subs : \/ SetDuePaid(r) \/ DeleteBill(r)
                              \/ DeferSubscriptionRenewal(r)
                              \/ RestoreSubscriptionRenewal(r)
                              \/ DeleteMistakenTeamSubscription(r)
                              \/ SoftDeleteArchivedSubscription(r)
           \/ \E h \in Handlers : CommitCancel(h) \/ RollBack(h)
           \/ \E c \in cases : UndoBanRefund(c)
  BY <1>1, <1>2 DEF Tick, vars, SetDuePaid, DeleteBill, DeferSubscriptionRenewal,
     RestoreSubscriptionRenewal, DeleteMistakenTeamSubscription,
     SoftDeleteArchivedSubscription, CommitCancel, RollBack, UndoBanRefund
<1>3. CASE \/ \E h \in Handlers, r \in Subs : BeginLeave(h, r)
           \/ \E h \in Handlers, c \in cases : BeginRefund(h, c)
           \/ \E h \in Handlers, n \in 1..MaxBatch :
                \E batch \in [1..n -> {r \in Subs : deferred[r]}] :
                  BeginCompleteDeferred(h, batch)
           \/ \E a \in Accounts, v \in BOOLEAN : SetAccountPaused(a, v)
           \/ \E a \in Accounts, day \in {d \in 0..clock : d >= clock - BanDelay} :
                BanAccount(a, day)
           \/ \E r \in Subs, t \in Seats \cup {NoSeat}, paid \in {0, 1} :
                CreateSubscription(r, t, paid)
           \/ \E r \in Subs, t \in Seats : UpdateSubscription(r, t)
           \/ \E c \in cases, t \in Seats : ReassignAfterSalesCase(c, t)
  BY <1>1, <1>3 DEF BeginLeave, BeginRefund, BeginCompleteDeferred, SetAccountPaused,
     BanAccount, CreateSubscription, UpdateSubscription, ReassignAfterSalesCase
<1>4. CASE RestoreExpiredCancellationRequests
  BY <1>4 DEF RestoreExpiredCancellationRequests, DeadlineStep
<1>5. ASSUME NEW r \in Subs, ArchiveSubscription(r) PROVE DeadlineStep(s)
  BY <1>5 DEF ArchiveSubscription, ArchiveRows, DeadlineStep
<1>6. ASSUME NEW h \in Handlers, CommitExpire(h) \/ CommitCancellationRefund(h)
      PROVE  DeadlineStep(s)
  BY <1>6 DEF CommitExpire, CommitCancellationRefund, ArchiveRows, DeadlineStep
<1>7. ASSUME NEW h \in Handlers, CommitBanRefund(h) PROVE DeadlineStep(s)
  BY <1>0, <1>7 DEF CommitBanRefund, DeadlineStep
<1>8. ASSUME NEW h \in Handlers, CommitCompleteDeferred(h) PROVE DeadlineStep(s)
  BY <1>8 DEF CommitCompleteDeferred, ArchiveRows, Deferrable, DeadlineStep
<1>9. ASSUME NEW r \in Subs, NEW until \in clock..(clock + FreezeDays),
             UpdateFrozenSubscriptionUntil(r, until)
      PROVE  DeadlineStep(s)
  BY <1>0, <1>9 DEF UpdateFrozenSubscriptionUntil, DeadlineStep
<1> QED  BY <1>2, <1>3, <1>4, <1>5, <1>6, <1>7, <1>8, <1>9 DEF Operation

(* The clock never goes back. *)
LEMMA ClockStep == TypeInv /\ [Next]_vars => clock' \in Nat /\ clock' >= clock
<1> SUFFICES ASSUME TypeInv, [Next]_vars PROVE clock' \in Nat /\ clock' >= clock
  OBVIOUS
<1>1. clock \in Nat
  BY DEF TypeInv, TypeOK
<1>2. clock' = clock \/ clock' = clock + 1
  BY DEF Next, Operation, Tick, CreateSubscription, UpdateSubscription, SetDuePaid,
     DeleteBill, DeleteMistakenTeamSubscription, ArchiveSubscription,
     SoftDeleteArchivedSubscription, RestoreExpiredCancellationRequests, BeginLeave,
     CommitExpire, CommitCancel, BeginRefund, CommitCancellationRefund,
     CommitBanRefund, UndoBanRefund, ReassignAfterSalesCase, DeferSubscriptionRenewal,
     RestoreSubscriptionRenewal, BeginCompleteDeferred, CommitCompleteDeferred,
     RollBack, SetAccountPaused, BanAccount, UpdateFrozenSubscriptionUntil, Restart,
     vars
<1> QED  BY <1>1, <1>2

(* Nothing but archiving it once more takes the deadline from a departed row.   *)
LEMMA DeadlineErased ==
  ASSUME TypeInv, [Operation]_vars, NEW s \in Subs, ~Active(s),
         frozenUntil[s] # NoTime, frozenUntil'[s] = NoTime
  PROVE  ArchiveSubscription(s)
<1> USE DEF accountVars, rowVars
<1>0. frozenUntil \in [Subs -> Time] /\ clock \in Nat
  BY DEF TypeInv, TypeOK
<1>1. CASE \/ Tick \/ UNCHANGED vars
           \/ \E r \in Subs : \/ SetDuePaid(r) \/ DeleteBill(r)
                              \/ DeferSubscriptionRenewal(r)
                              \/ RestoreSubscriptionRenewal(r)
                              \/ DeleteMistakenTeamSubscription(r)
                              \/ SoftDeleteArchivedSubscription(r)
           \/ \E h \in Handlers : CommitCancel(h) \/ RollBack(h)
           \/ \E c \in cases : UndoBanRefund(c)
  BY <1>1, Zenon DEF Tick, vars, SetDuePaid, DeleteBill, DeferSubscriptionRenewal,
     RestoreSubscriptionRenewal, DeleteMistakenTeamSubscription,
     SoftDeleteArchivedSubscription, CommitCancel, RollBack, UndoBanRefund
<1>2. CASE \/ \E h \in Handlers, r \in Subs : BeginLeave(h, r)
           \/ \E h \in Handlers, c \in cases : BeginRefund(h, c)
           \/ \E h \in Handlers, n \in 1..MaxBatch :
                \E batch \in [1..n -> {r \in Subs : deferred[r]}] :
                  BeginCompleteDeferred(h, batch)
           \/ \E a \in Accounts, v \in BOOLEAN : SetAccountPaused(a, v)
           \/ \E a \in Accounts, day \in {d \in 0..clock : d >= clock - BanDelay} :
                BanAccount(a, day)
           \/ \E r \in Subs, t \in Seats \cup {NoSeat}, paid \in {0, 1} :
                CreateSubscription(r, t, paid)
           \/ \E r \in Subs, t \in Seats : UpdateSubscription(r, t)
           \/ \E c \in cases, t \in Seats : ReassignAfterSalesCase(c, t)
  BY <1>2 DEF BeginLeave, BeginRefund, BeginCompleteDeferred, SetAccountPaused,
     BanAccount, CreateSubscription, UpdateSubscription, ReassignAfterSalesCase
<1>3. CASE RestoreExpiredCancellationRequests
  BY <1>3 DEF RestoreExpiredCancellationRequests, Lapsed
<1>4. ASSUME NEW r \in Subs, ArchiveSubscription(r) PROVE ArchiveSubscription(s)
  <2>1. r # s => frozenUntil'[s] = frozenUntil[s]
    BY <1>4 DEF ArchiveSubscription, ArchiveRows
  <2> QED  BY <1>4, <2>1
<1>5. ASSUME NEW h \in Handlers, CommitExpire(h) \/ CommitCancellationRefund(h)
      PROVE  FALSE
  BY <1>5 DEF CommitExpire, CommitCancellationRefund, ArchiveRows
<1>6. ASSUME NEW h \in Handlers, CommitBanRefund(h) PROVE FALSE
  BY <1>0, <1>6 DEF CommitBanRefund
<1>7. ASSUME NEW h \in Handlers, CommitCompleteDeferred(h) PROVE FALSE
  BY <1>7 DEF CommitCompleteDeferred, ArchiveRows, Deferrable
<1>8. ASSUME NEW r \in Subs, NEW until \in clock..(clock + FreezeDays),
             UpdateFrozenSubscriptionUntil(r, until)
      PROVE  FALSE
  BY <1>0, <1>8 DEF UpdateFrozenSubscriptionUntil, NoTime
<1> QED  BY <1>1, <1>2, <1>3, <1>4, <1>5, <1>6, <1>7, <1>8, Zenon DEF Operation

-----------------------------------------------------------------------------
(* When rows departed.  archived_at is set as long as a row has departed, and  *)
(* no stamp lies ahead of the clock.                                           *)
StampsOK ==
  /\ \A s \in Subs : archivedAt[s] <= clock /\ (archivedAt[s] # NoTime <=> Departed(s))
  /\ \A h \in Handlers : req[h].at <= clock

(* A request that is being served was read before, or has just read the clock. *)
ReadsAt(h) ==
  \/ req'[h].op = req[h].op /\ req'[h].at = req[h].at
  \/ req'[h] = Idle
  \/ req'[h].at = clock' /\ clock' = clock + 1
LEMMA RequestTimes ==
  ASSUME TypeInv, [Next]_vars, NEW h \in Handlers
  PROVE  ReadsAt(h)
<1> USE DEF accountVars, rowVars
<1>0. req \in [Handlers -> Request]
  BY DEF TypeInv, RequestsOK
<1>1. ASSUME NEW S, req'[h] = Touch(S)[h] PROVE ReadsAt(h)
  <2>1. Touch(S)[h].op = req[h].op /\ Touch(S)[h].at = req[h].at
    BY <1>0 DEF Touch, Request
  <2> QED  BY <1>1, <2>1 DEF ReadsAt
<1>2. req'[h] = req[h] \/ req'[h] = Idle => ReadsAt(h)
  BY DEF ReadsAt, Idle
<1>3. ASSUME NEW S, NEW g \in Handlers, req' = [Touch(S) EXCEPT ![g] = Idle]
      PROVE  ReadsAt(h)
  <2>1. req'[h] = Touch(S)[h] \/ req'[h] = Idle
    BY <1>3 DEF Touch
  <2> QED  BY <1>1, <1>2, <2>1
<1>4. ASSUME NEW g \in Handlers, NEW r, req' = [req EXCEPT ![g] = r],
             r.at = clock + 1, clock' = clock + 1
      PROVE  ReadsAt(h)
  BY <1>0, <1>4 DEF ReadsAt
<1>5. CASE \/ Tick \/ UNCHANGED vars \/ Restart
           \/ \E a \in Accounts, v \in BOOLEAN : SetAccountPaused(a, v)
           \/ \E r \in Subs, t \in Seats \cup {NoSeat}, paid \in {0, 1} :
                CreateSubscription(r, t, paid)
  BY <1>2, <1>5 DEF Tick, vars, SetAccountPaused, CreateSubscription, Restart
<1>6. ASSUME NEW g \in Handlers, RollBack(g) PROVE ReadsAt(h)
  <2>1. req'[h] = req[h] \/ req'[h] = Idle
    BY <1>0, <1>6 DEF RollBack
  <2> QED  BY <1>2, <2>1
<1>7. CASE \/ \E g \in Handlers, r \in Subs : BeginLeave(g, r)
           \/ \E g \in Handlers, c \in cases : BeginRefund(g, c)
           \/ \E g \in Handlers, n \in 1..MaxBatch :
                \E batch \in [1..n -> {r \in Subs : deferred[r]}] :
                  BeginCompleteDeferred(g, batch)
  <2>1. \E g \in Handlers : \E r : req' = [req EXCEPT ![g] = r] /\ r.at = clock + 1
                               /\ clock' = clock + 1
    BY <1>7, Zenon DEF BeginLeave, BeginRefund, BeginCompleteDeferred
  <2> QED  BY <1>4, <2>1
<1>8. CASE \/ \E g \in Handlers : \/ CommitExpire(g) \/ CommitCancel(g)
                                  \/ CommitCancellationRefund(g) \/ CommitBanRefund(g)
                                  \/ CommitCompleteDeferred(g)
  <2>1. \E g \in Handlers : \E S : req' = [Touch(S) EXCEPT ![g] = Idle]
    BY <1>8, Zenon DEF CommitExpire, CommitCancel, CommitCancellationRefund,
       CommitBanRefund, CommitCompleteDeferred
  <2> QED  BY <1>3, <2>1
<1>9. CASE \/ \E r \in Subs, t \in Seats : UpdateSubscription(r, t)
           \/ \E r \in Subs : \/ SetDuePaid(r) \/ DeleteBill(r)
                              \/ DeleteMistakenTeamSubscription(r)
                              \/ ArchiveSubscription(r)
                              \/ SoftDeleteArchivedSubscription(r)
                              \/ DeferSubscriptionRenewal(r)
                              \/ RestoreSubscriptionRenewal(r)
           \/ RestoreExpiredCancellationRequests
           \/ \E c \in cases : UndoBanRefund(c)
           \/ \E c \in cases, t \in Seats : ReassignAfterSalesCase(c, t)
           \/ \E a \in Accounts, day \in {d \in 0..clock : d >= clock - BanDelay} :
                BanAccount(a, day)
           \/ \E r \in Subs, until \in clock..(clock + FreezeDays) :
                UpdateFrozenSubscriptionUntil(r, until)
  <2>1. \E S : req' = Touch(S)
    BY <1>9, Zenon DEF UpdateSubscription, SetDuePaid, DeleteBill,
       DeleteMistakenTeamSubscription, ArchiveSubscription,
       SoftDeleteArchivedSubscription, DeferSubscriptionRenewal,
       RestoreSubscriptionRenewal, RestoreExpiredCancellationRequests, UndoBanRefund,
       ReassignAfterSalesCase, BanAccount, UpdateFrozenSubscriptionUntil
  <2> QED  BY <1>1, <2>1
<1> QED  BY <1>5, <1>6, <1>7, <1>8, <1>9 DEF Next, Operation

(* A step leaves a departure alone, undoes it, or makes one: at the instant    *)
(* its request read, or now.                                                   *)
LeavesAt(s, at) ==
  /\ Active(s) /\ life'[s] = "archived" /\ archivedAt'[s] = at
  /\ \/ at = clock + 1 /\ clock' = clock + 1
     \/ \E h \in Handlers : req[h].op # "idle" /\ at = req[h].at
DepartureStep(s) ==
  \/ archivedAt'[s] = archivedAt[s] /\ (Departed(s)' <=> Departed(s))
  \/ \E at \in Nat : LeavesAt(s, at)
  \/ archivedAt'[s] = NoTime /\ life'[s] = "active"
LEMMA DepartureTimes ==
  ASSUME TypeInv, StampsOK, [Next]_vars, NEW s \in Subs
  PROVE  DepartureStep(s)
<1> USE DEF accountVars, rowVars
<1>0. /\ life \in [Subs -> Life] /\ archivedAt \in [Subs -> Time] /\ clock \in Nat
      /\ clock + 1 \in Nat /\ RequestsOK
      /\ archivedAt[s] # NoTime <=> Departed(s)
  BY DEF TypeInv, TypeOK, StampsOK
<1>1. UNCHANGED <<archivedAt, life>> => DepartureStep(s)
  BY DEF DepartureStep, Departed
<1>2. CASE \/ Tick \/ Restart \/ UNCHANGED vars \/ RestoreExpiredCancellationRequests
           \/ \E r \in Subs : \/ SetDuePaid(r) \/ DeleteBill(r)
                              \/ DeferSubscriptionRenewal(r)
                              \/ RestoreSubscriptionRenewal(r)
           \/ \E h \in Handlers : CommitCancel(h) \/ RollBack(h)
  BY <1>1, <1>2, Zenon DEF Tick, Restart, vars, RestoreExpiredCancellationRequests, SetDuePaid,
     DeleteBill, DeferSubscriptionRenewal, RestoreSubscriptionRenewal, CommitCancel,
     RollBack
<1>3. CASE \/ \E h \in Handlers, r \in Subs : BeginLeave(h, r)
           \/ \E h \in Handlers, c \in cases : BeginRefund(h, c)
           \/ \E h \in Handlers, n \in 1..MaxBatch :
                \E batch \in [1..n -> {r \in Subs : deferred[r]}] :
                  BeginCompleteDeferred(h, batch)
           \/ \E a \in Accounts, v \in BOOLEAN : SetAccountPaused(a, v)
           \/ \E a \in Accounts, day \in {d \in 0..clock : d >= clock - BanDelay} :
                BanAccount(a, day)
           \/ \E r \in Subs, until \in clock..(clock + FreezeDays) :
                UpdateFrozenSubscriptionUntil(r, until)
           \/ \E r \in Subs, t \in Seats : UpdateSubscription(r, t)
           \/ \E c \in cases, t \in Seats : ReassignAfterSalesCase(c, t)
  BY <1>1, <1>3 DEF BeginLeave, BeginRefund, BeginCompleteDeferred, SetAccountPaused,
     BanAccount, UpdateFrozenSubscriptionUntil, UpdateSubscription,
     ReassignAfterSalesCase
<1>4. ASSUME NEW S, NEW at \in Nat, NEW until, NEW keep, ArchiveRows(S, at, until, keep),
             s \in S => Active(s) \/ life[s] = "archived",
             \/ at = clock + 1 /\ clock' = clock + 1
             \/ \E h \in Handlers : req[h].op # "idle" /\ at = req[h].at
      PROVE  DepartureStep(s)
  <2>1. CASE s \in S /\ Active(s)
    <3>1. archivedAt[s] = NoTime
      BY <1>0, <2>1 DEF Active, Departed
    <3>2. LeavesAt(s, at)
      BY <1>4, <2>1, <3>1 DEF ArchiveRows, LeavesAt
    <3> QED  BY <3>2 DEF DepartureStep
  <2>2. CASE s \in S /\ life[s] = "archived"
    BY <1>0, <1>4, <2>2 DEF ArchiveRows, DepartureStep, Departed
  <2>3. CASE s \notin S
    BY <1>0, <1>4, <2>3 DEF ArchiveRows, DepartureStep, Departed
  <2> QED  BY <1>4, <2>1, <2>2, <2>3
<1>5. ASSUME NEW r \in Subs, ArchiveSubscription(r) PROVE DepartureStep(s)
  <2>1. ArchiveRows({r}, clock + 1, [q \in {r} |-> NoTime], {}) /\ clock' = clock + 1
        /\ (s \in {r} => Active(s) \/ life[s] = "archived")
    BY <1>5 DEF ArchiveSubscription
  <2> QED  BY <1>0, <1>4, <2>1
<1>6. ASSUME NEW h \in Handlers, CommitExpire(h) \/ CommitCancellationRefund(h)
      PROVE  DepartureStep(s)
  <2>1. /\ req[h].op \in {"expire", "refund"}
        /\ \E until, keep : ArchiveRows({req[h].subs[1]}, req[h].at, until, keep)
        /\ Active(req[h].subs[1])
    BY <1>6 DEF CommitExpire, CommitCancellationRefund
  <2>2. req[h].at \in Nat
    BY <1>0, <2>1, ServedCustomer
  <2> QED  BY <1>4, <2>1, <2>2
<1>7. ASSUME NEW h \in Handlers, CommitCompleteDeferred(h) PROVE DepartureStep(s)
  <2>1. /\ req[h].op = "batch"
        /\ \E until, keep : ArchiveRows(Members(req[h]), req[h].at, until, keep)
        /\ \A r \in Members(req[h]) : Active(r)
    BY <1>7 DEF CommitCompleteDeferred, Deferrable
  <2>2. req[h].at \in Nat
    BY <1>0 DEF RequestsOK, Request
  <2> QED  BY <1>4, <2>1, <2>2
<1>8. ASSUME NEW h \in Handlers, CommitBanRefund(h) PROVE DepartureStep(s)
  <2>1. req[h].op = "refund" /\ req[h].at \in Nat
    BY <1>0, <1>8, ServedCustomer DEF CommitBanRefund
  <2>2. CASE s = req[h].subs[1]
    <3>1. LeavesAt(s, req[h].at)
      BY <1>0, <1>8, <2>1, <2>2 DEF CommitBanRefund, LeavesAt
    <3> QED  BY <2>1, <3>1 DEF DepartureStep
  <2>3. CASE s # req[h].subs[1]
    BY <1>0, <1>8, <2>3 DEF CommitBanRefund, DepartureStep, Departed
  <2> QED  BY <2>2, <2>3
<1>9. ASSUME NEW c \in cases, UndoBanRefund(c) PROVE DepartureStep(s)
  BY <1>0, <1>9 DEF UndoBanRefund, DepartureStep, Departed
<1>10. ASSUME NEW r \in Subs, \/ DeleteMistakenTeamSubscription(r)
                              \/ SoftDeleteArchivedSubscription(r)
       PROVE  DepartureStep(s)
  BY <1>0, <1>10 DEF DeleteMistakenTeamSubscription, SoftDeleteArchivedSubscription,
     DepartureStep, Departed, Active
<1>11. ASSUME NEW r \in Subs, NEW t \in Seats \cup {NoSeat}, NEW paid \in {0, 1},
              CreateSubscription(r, t, paid)
       PROVE  DepartureStep(s)
  BY <1>0, <1>11 DEF CreateSubscription, DepartureStep, Departed
<1> QED  BY <1>2, <1>3, <1>5, <1>6, <1>7, <1>8, <1>9, <1>10, <1>11, Zenon
         DEF Next, Operation

LEMMA StampsStep == TypeInv /\ TypeInv' /\ StampsOK /\ [Next]_vars => StampsOK'
<1> SUFFICES ASSUME TypeInv, TypeInv', StampsOK, [Next]_vars PROVE StampsOK'
  OBVIOUS
<1>1. clock \in Nat /\ clock' \in Nat /\ clock' >= clock
  BY ClockStep DEF TypeInv, TypeOK
<1>2. ASSUME NEW h \in Handlers PROVE req'[h].at <= clock'
  <2>0. req[h].at \in Nat /\ req'[h].at \in Nat /\ req[h].at <= clock
    BY DEF TypeInv, RequestsOK, Request, StampsOK
  <2> QED  BY <1>1, <2>0, RequestTimes DEF ReadsAt, Idle
<1>3. ASSUME NEW s \in Subs
      PROVE  archivedAt'[s] <= clock' /\ (archivedAt'[s] # NoTime <=> Departed(s)')
  <2>0. /\ archivedAt[s] \in Int /\ archivedAt[s] <= clock
        /\ archivedAt[s] # NoTime <=> Departed(s)
        /\ \A h \in Handlers : req[h].at <= clock
    BY DEF TypeInv, TypeOK, Time, NoTime, StampsOK
  <2>1. CASE archivedAt'[s] = archivedAt[s] /\ (Departed(s)' <=> Departed(s))
    BY <1>1, <2>0, <2>1
  <2>2. ASSUME NEW at \in Nat, LeavesAt(s, at)
        PROVE  archivedAt'[s] <= clock' /\ (archivedAt'[s] # NoTime <=> Departed(s)')
    <3>1. at <= clock'
      BY <1>1, <2>0, <2>2 DEF LeavesAt
    <3>2. at # NoTime
      BY DEF NoTime
    <3> QED  BY <2>2, <3>1, <3>2 DEF LeavesAt, Departed
  <2>3. CASE archivedAt'[s] = NoTime /\ life'[s] = "active"
    BY <1>1, <2>3 DEF NoTime, Departed
  <2> QED  BY <2>1, <2>2, <2>3, DepartureTimes DEF DepartureStep
<1> QED  BY <1>2, <1>3 DEF StampsOK

(* A row that has departed keeps its seat number.                              *)
LEMMA DepartedSeat ==
  ASSUME TypeInv, [Next]_vars, NEW s \in Subs, Departed(s), Departed(s)'
  PROVE  seatOf'[s] = seatOf[s]
<1>0. life \in [Subs -> Life] /\ seatOf \in [Subs -> Seats \cup {NoSeat}]
  BY DEF TypeInv, TypeOK
<1>1. /\ \A t, paid : ~CreateSubscription(s, t, paid)
      /\ \A t : ~UpdateSubscription(s, t)
      /\ ~DeleteMistakenTeamSubscription(s)
  BY DEF CreateSubscription, UpdateSubscription, DeleteMistakenTeamSubscription, Active,
     Departed
<1>2. SoftDeleteArchivedSubscription(s) => seatOf'[s] = seatOf[s]
  BY DEF SoftDeleteArchivedSubscription
<1>3. \A c \in cases : s = c.sub => ~UndoBanRefund(c)
  BY <1>0 DEF UndoBanRefund, Departed
<1>4. \A c \in cases, t \in Seats : s = c.sub => ~ReassignAfterSalesCase(c, t)
  BY DEF ReassignAfterSalesCase, Active, Departed
<1> QED  BY <1>1, <1>2, <1>3, <1>4, RowStep DEF Rewrites

(* Once a row has departed with less than the allowance before it, and no      *)
(* request holds an earlier instant, nothing adds departures before it: no     *)
(* later restart finds it over the allowance.                                  *)
Settled(s) ==
  HasSeat(s) => /\ Cardinality(EarlierDepartures(s)) < Allowance
                /\ \A h \in Handlers : req[h].op # "idle" => req[h].at > archivedAt[s]
LEMMA SettledStays ==
  ASSUME TypeInv, TypeInv', StampsOK, [Next]_vars, NEW s \in Subs,
         life[s] = "archived", life'[s] = "archived", Settled(s)
  PROVE  Settled(s)'
<1>0. /\ seatOf'[s] = seatOf[s] /\ clock \in Nat /\ clock' \in Nat /\ clock' >= clock
      /\ archivedAt \in [Subs -> Time] /\ archivedAt' \in [Subs -> Time]
      /\ archivedAt[s] \in Int /\ archivedAt[s] <= clock /\ archivedAt[s] # NoTime
  <2>1. \A r \in Subs : Departed(r) /\ Departed(r)' => seatOf'[r] = seatOf[r]
    BY DepartedSeat
  <2> QED  BY <2>1, ClockStep DEF Departed, StampsOK, TypeInv, TypeOK, Time, NoTime
<1>1. SUFFICES ASSUME HasSeat(s)
               PROVE  /\ Cardinality(EarlierDepartures(s)') < Allowance
                      /\ \A h \in Handlers :
                           req'[h].op # "idle" => req'[h].at > archivedAt'[s]
  BY <1>0 DEF Settled, HasSeat
<1>2. archivedAt'[s] = archivedAt[s]
  <2>1. DepartureStep(s)
    BY DepartureTimes
  <2> QED  BY <2>1 DEF DepartureStep, LeavesAt, Active
<1>3. /\ Cardinality(EarlierDepartures(s)) < Allowance
      /\ \A h \in Handlers : req[h].op # "idle" => req[h].at > archivedAt[s]
  BY <1>1 DEF Settled
<1>4. ASSUME NEW h \in Handlers, req'[h].op # "idle"
      PROVE  req'[h].at > archivedAt'[s]
  BY <1>0, <1>2, <1>3, <1>4, RequestTimes DEF ReadsAt, Idle
<1>5. EarlierDepartures(s)' \subseteq EarlierDepartures(s)
  <2> SUFFICES ASSUME NEW r \in Subs \ {s}, r \in EarlierDepartures(s)'
               PROVE  r \in EarlierDepartures(s)
    BY DEF EarlierDepartures
  <2>0. /\ Departed(r)' /\ HasSeat(r)'
        /\ AccountOf[seatOf'[r]] = AccountOf[seatOf'[s]]
        /\ archivedAt'[r] >= archivedAt'[s] - Window
        /\ archivedAt'[r] < archivedAt'[s] \/ (archivedAt'[r] = archivedAt'[s] /\ r < s)
    BY DEF EarlierDepartures
  <2>1. archivedAt[r] \in Int /\ archivedAt'[r] \in Int /\ archivedAt'[r] <= archivedAt[s]
    BY <1>0, <1>2, <2>0 DEF Time, NoTime
  <2>2. ASSUME NEW at \in Nat, LeavesAt(r, at) PROVE FALSE
    <3>1. CASE \E h \in Handlers : req[h].op # "idle" /\ at = req[h].at
      BY <1>0, <1>3, <2>1, <2>2, <3>1 DEF LeavesAt
    <3>2. CASE at = clock + 1
      BY <1>0, <2>1, <2>2, <3>2 DEF LeavesAt
    <3> QED  BY <2>2, <3>1, <3>2 DEF LeavesAt
  <2>3. archivedAt'[r] = archivedAt[r] /\ Departed(r)
    <3>1. DepartureStep(r)
      BY DepartureTimes
    <3> QED  BY <2>0, <2>2, <3>1 DEF DepartureStep, Departed
  <2>4. seatOf'[r] = seatOf[r]
    BY <2>0, <2>3, DepartedSeat
  <2> QED  BY <1>0, <1>2, <2>0, <2>3, <2>4 DEF EarlierDepartures, HasSeat
<1>6. IsFiniteSet(EarlierDepartures(s))
  BY FS_Subset DEF EarlierDepartures
<1>7. Cardinality(EarlierDepartures(s)') <= Cardinality(EarlierDepartures(s))
  BY <1>5, <1>6, FS_Subset
<1>8. /\ Cardinality(EarlierDepartures(s)) \in Nat
      /\ Cardinality(EarlierDepartures(s)') \in Nat
  BY <1>5, <1>6, FS_CardinalityType, FS_Subset
<1> QED  BY <1>3, <1>4, <1>7, <1>8

(* What the memory knows of the rows: a cool-down that ended has its deadline  *)
(* in the past, or none and the row is settled.                                *)
MemoryOK ==
  \A s \in over \ erased :
    /\ s \in Subs /\ life[s] = "archived" /\ ~Frozen(s)
    /\ frozenUntil[s] = NoTime => Settled(s)
ReleaseInv == TypeInv /\ StampsOK /\ MemoryOK

LEMMA MemoryStep ==
  ReleaseInv /\ TypeInv' /\ [Next]_vars /\ (Remember \/ UNCHANGED releaseVars)
  => MemoryOK'
<1> SUFFICES ASSUME ReleaseInv, TypeInv', [Next]_vars, Remember \/ UNCHANGED releaseVars,
                    NEW s \in over' \ erased'
             PROVE  /\ s \in Subs /\ life'[s] = "archived" /\ ~Frozen(s)'
                    /\ frozenUntil'[s] = NoTime => Settled(s)'
  BY DEF MemoryOK
<1>1. CASE UNCHANGED releaseVars
  BY <1>1 DEF releaseVars, vars, accountVars, rowVars, ReleaseInv, MemoryOK, Frozen,
     Settled, HasSeat, EarlierDepartures, Departed
<1>2. CASE Remember
  <2>0. s \in Subs /\ life'[s] = "archived" /\ (s \in over \/ Ended(s)')
    BY <1>2 DEF Remember
  <2>1. CASE s \in over
    <3>1. s \notin erased /\ ~Erases(s)
      BY <1>2, <2>0, <2>1 DEF Remember
    <3>2. /\ life[s] = "archived" /\ ~Frozen(s)
          /\ frozenUntil[s] = NoTime => Settled(s)
          /\ TypeInv /\ StampsOK
      BY <2>1, <3>1 DEF ReleaseInv, MemoryOK
    <3>3. /\ clock \in Nat /\ clock' \in Nat /\ clock' >= clock
          /\ frozenUntil[s] \in Int /\ frozenUntil[s] <= clock
      BY <2>0, <3>2, ClockStep DEF TypeInv, TypeOK, Time, NoTime, Frozen
    <3>4. CASE [Operation]_vars
      <4>1. frozenUntil'[s] \in {frozenUntil[s], NoTime}
        BY <2>0, <3>2, <3>4, DeadlinesWritten DEF DeadlineStep, Active
      <4>2. frozenUntil'[s] = NoTime => frozenUntil[s] = NoTime
        BY <2>0, <3>1, <3>2, <3>4, DeadlineErased DEF Active, Erases
      <4>3. frozenUntil'[s] = NoTime => Settled(s)'
        BY <2>0, <3>2, <4>2, SettledStays
      <4> QED  BY <2>0, <3>3, <4>1, <4>3 DEF Frozen, NoTime
    <3>5. CASE Restart
      <4>1. /\ frozenUntil'[s] = ReconciledFreeze(s) /\ clock' = clock
            /\ \A h \in Handlers : req'[h] = Idle
        BY <2>0, <3>5 DEF Restart
      <4>2. EarlierDepartures(s)' = EarlierDepartures(s) /\ HasSeat(s)' = HasSeat(s)
        BY <3>5 DEF Restart, EarlierDepartures, HasSeat, Departed
      <4>3. IsFiniteSet(EarlierDepartures(s))
        BY FS_Subset DEF EarlierDepartures
      <4>4. Cardinality(EarlierDepartures(s)) \in Nat
        BY <4>3, FS_CardinalityType
      <4>5. CASE ~HasSeat(s)
        BY <2>0, <3>3, <4>1, <4>2, <4>5 DEF ReconciledFreeze, Frozen, Settled
      <4>6. CASE HasSeat(s) /\ Cardinality(EarlierDepartures(s)) < Allowance
        <5>1. frozenUntil'[s] = NoTime
          BY <3>2, <4>1, <4>4, <4>6 DEF ReconciledFreeze, Departed
        <5>2. Settled(s)'
          BY <4>1, <4>2, <4>6 DEF Settled, Idle
        <5> QED  BY <2>0, <3>3, <5>1, <5>2 DEF Frozen, NoTime
      <4>7. CASE HasSeat(s) /\ Cardinality(EarlierDepartures(s)) >= Allowance
        <5>1. frozenUntil[s] # NoTime
          BY <3>2, <4>4, <4>7 DEF Settled
        <5>2. frozenUntil'[s] = frozenUntil[s]
          BY <3>2, <4>1, <4>7, <5>1 DEF ReconciledFreeze, Departed
        <5> QED  BY <2>0, <3>3, <4>1, <5>1, <5>2 DEF Frozen
      <4> QED  BY <4>4, <4>5, <4>6, <4>7
    <3> QED  BY <3>4, <3>5 DEF Next
  <2>2. CASE Ended(s)'
    BY <2>0, <2>2 DEF Ended
  <2> QED  BY <2>0, <2>1, <2>2
<1> QED  BY <1>1, <1>2

(* A cool-down that was released or ran out is not started again: not by a     *)
(* restart, and not after any number of further steps, unless the row was      *)
(* archived a second time.                                                     *)
THEOREM ReleasesAreFinal == RememberingSpec => []ReleasedCoolDownStaysReleased
<1>1. RememberingInit => ReleaseInv
  <2> SUFFICES ASSUME RememberingInit PROVE ReleaseInv
    OBVIOUS
  <2>1. TypeInv /\ MemoryOK
    BY TypeInit DEF RememberingInit, MemoryOK
  <2>2. StampsOK
    BY DEF RememberingInit, Init, StampsOK, Departed, NoTime, Idle
  <2> QED  BY <2>1, <2>2 DEF ReleaseInv
<1>2. ReleaseInv /\ [RememberingNext]_releaseVars => ReleaseInv'
  <2> SUFFICES ASSUME ReleaseInv, [RememberingNext]_releaseVars PROVE ReleaseInv'
    OBVIOUS
  <2>1. [Next]_vars /\ (Remember \/ UNCHANGED releaseVars)
    BY DEF RememberingNext, releaseVars
  <2>2. TypeInv'
    BY <2>1, TypeStep DEF ReleaseInv
  <2>3. StampsOK'
    BY <2>1, <2>2, StampsStep DEF ReleaseInv
  <2>4. MemoryOK'
    BY <2>1, <2>2, MemoryStep
  <2> QED  BY <2>2, <2>3, <2>4 DEF ReleaseInv
<1>3. ReleaseInv => ReleasedCoolDownStaysReleased
  BY DEF ReleaseInv, MemoryOK, ReleasedCoolDownStaysReleased
<1> QED  BY <1>1, <1>2, <1>3, PTL DEF RememberingSpec

-----------------------------------------------------------------------------
(* The promise of SeatOccupancy.  A row whose ban was refunded never cools     *)
(* down, so that undoing the refund seats the customer on an empty seat.       *)
BanRefundsRelease ==
  \A c \in cases : c.source = "account_ban" /\ c.status = "refunded"
                 => frozenUntil[c.sub] = NoTime
LEMMA BanRefundsReleaseStep ==
  CaseInv /\ BanRefundsRelease /\ [Operation]_vars => BanRefundsRelease'
<1> SUFFICES ASSUME CaseInv, BanRefundsRelease, [Operation]_vars, NEW d \in cases',
                    d.source = "account_ban", d.status = "refunded"
             PROVE  frozenUntil'[d.sub] = NoTime
  BY DEF BanRefundsRelease
<1> USE DEF accountVars, rowVars
<1>0. /\ TypeInv /\ cases \in SUBSET Case /\ frozenUntil \in [Subs -> Time] /\ clock \in Nat
  BY DEF CaseInv, TypeInv, TypeOK
<1>1. CASE d \in cases
  <2>1. d.sub \in Subs /\ d \in CasesOf(d.sub)
    BY <1>0, <1>1 DEF Case, CasesOf
  <2>2. ~Active(d.sub)
    BY <2>1 DEF CaseInv, FitTogether, Fits
  <2>3. frozenUntil[d.sub] = NoTime /\ ~Frozen(d.sub)
    BY <1>0, <1>1 DEF BanRefundsRelease, Frozen, NoTime
  <2> QED  BY <1>0, <2>1, <2>2, <2>3, DeadlinesWritten DEF DeadlineStep
<1>2. CASE d \notin cases
  <2>1. ASSUME NEW h \in Handlers, CommitBanRefund(h)
        PROVE  frozenUntil'[d.sub] = NoTime
    <3>1. d = [req[h].case EXCEPT !.status = "refunded"] /\ req[h].case \in Case
          /\ req[h].op = "refund"
      BY <1>0, <1>2, <2>1 DEF CommitBanRefund
    <3>2. d.sub = req[h].subs[1]
      BY <3>1, SettledCase DEF CaseInv, RequestsServe, WellServed
    <3>3. d.sub \in Subs
      BY <3>1, SettledCase DEF Case
    <3> QED  BY <1>0, <2>1, <3>2, <3>3 DEF CommitBanRefund
  <2>2. ASSUME NEW S, NEW at, NEW until, NEW keep \in SUBSET Case,
               ArchiveRows(S, at, until, keep),
               \A c \in keep : c.source = "customer_cancellation"
        PROVE  FALSE
    <3>1. PICK c \in keep : d = [c EXCEPT !.status = "refunded"]
      BY <1>2, <2>2 DEF ArchiveRows
    <3> QED  BY <2>2, <3>1, SettledCase
  <2>3. ~\E r \in Subs : ArchiveSubscription(r)
    BY <2>2 DEF ArchiveSubscription
  <2>4. ~\E h \in Handlers : CommitExpire(h) \/ CommitCompleteDeferred(h)
    <3> SUFFICES ASSUME NEW h \in Handlers, CommitExpire(h) \/ CommitCompleteDeferred(h)
                 PROVE  FALSE
      OBVIOUS
    <3>1. \E S, at, until : ArchiveRows(S, at, until, {})
      BY DEF CommitExpire, CommitCompleteDeferred
    <3> QED  BY <2>2, <3>1
  <2>5. ~\E h \in Handlers : CommitCancellationRefund(h)
    <3> SUFFICES ASSUME NEW h \in Handlers, CommitCancellationRefund(h) PROVE FALSE
      OBVIOUS
    <3>1. /\ {req[h].case} \in SUBSET Case /\ req[h].case.source = "customer_cancellation"
          /\ \E S, at, until : ArchiveRows(S, at, until, {req[h].case})
      BY <1>0 DEF CommitCancellationRefund
    <3> QED  BY <2>2, <3>1
  <2>6. ~\E h \in Handlers : CommitCancel(h)
    <3> SUFFICES ASSUME NEW h \in Handlers, CommitCancel(h) PROVE FALSE
      OBVIOUS
    <3>1. \E a, s, at : d = [account |-> a, sub |-> s, day |-> at,
                           source |-> "customer_cancellation", status |-> "open"]
      BY <1>2 DEF CommitCancel
    <3> QED  BY <3>1
  <2>7. ~\E c \in cases : UndoBanRefund(c)
    <3> SUFFICES ASSUME NEW c \in cases, UndoBanRefund(c) PROVE FALSE
      OBVIOUS
    <3>1. d = [c EXCEPT !.status = "open"]
      BY <1>2 DEF UndoBanRefund
    <3> QED  BY <1>0, <3>1, SettledCase
  <2>8. ~\E c \in cases, t \in Seats : ReassignAfterSalesCase(c, t)
    <3> SUFFICES ASSUME NEW c \in cases, NEW t \in Seats, ReassignAfterSalesCase(c, t)
                 PROVE  FALSE
      OBVIOUS
    <3>1. d = [c EXCEPT !.status = "reassigned"]
      BY <1>2 DEF ReassignAfterSalesCase
    <3> QED  BY <1>0, <3>1, SettledCase
  <2>9. ~\E a \in Accounts, day \in {e \in 0..clock : e >= clock - BanDelay} :
           BanAccount(a, day)
    <3> SUFFICES ASSUME NEW a, NEW day, BanAccount(a, day) PROVE FALSE
      OBVIOUS
    <3>1. \E s, at : d = [account |-> a, sub |-> s, day |-> at,
                        source |-> "account_ban", status |-> "open"]
      BY <1>2 DEF BanAccount
    <3> QED  BY <3>1
  <2>10. ~UNCHANGED cases
    BY <1>2
  <2>11. ~(\/ Tick \/ UNCHANGED vars \/ RestoreExpiredCancellationRequests
           \/ \E r \in Subs : \/ SetDuePaid(r) \/ DeleteBill(r)
                              \/ DeferSubscriptionRenewal(r)
                              \/ RestoreSubscriptionRenewal(r)
                              \/ DeleteMistakenTeamSubscription(r)
                              \/ SoftDeleteArchivedSubscription(r)
           \/ \E h \in Handlers : RollBack(h))
    BY <1>2, <2>10 DEF Tick, vars, RestoreExpiredCancellationRequests, SetDuePaid,
       DeleteBill, DeferSubscriptionRenewal, RestoreSubscriptionRenewal,
       DeleteMistakenTeamSubscription, SoftDeleteArchivedSubscription, RollBack
  <2>12. ~(\/ \E h \in Handlers, r \in Subs : BeginLeave(h, r)
           \/ \E h \in Handlers, c \in cases : BeginRefund(h, c)
           \/ \E h \in Handlers, n \in 1..MaxBatch :
                \E batch \in [1..n -> {r \in Subs : deferred[r]}] :
                  BeginCompleteDeferred(h, batch)
           \/ \E a \in Accounts, v \in BOOLEAN : SetAccountPaused(a, v)
           \/ \E r \in Subs, t \in Seats \cup {NoSeat}, paid \in {0, 1} :
                CreateSubscription(r, t, paid)
           \/ \E r \in Subs, t \in Seats : UpdateSubscription(r, t)
           \/ \E r \in Subs, until \in clock..(clock + FreezeDays) :
                UpdateFrozenSubscriptionUntil(r, until))
    BY <2>10 DEF BeginLeave, BeginRefund, BeginCompleteDeferred, SetAccountPaused,
       CreateSubscription, UpdateSubscription, UpdateFrozenSubscriptionUntil
  <2> QED  BY <2>1, <2>3, <2>4, <2>5, <2>6, <2>7, <2>8, <2>9, <2>11, <2>12 DEF Operation
<1> QED  BY <1>1, <1>2

(* Who sits where, in the words of SeatOccupancy. *)
LEMMA SoleIs ==
  ASSUME NEW S \in SUBSET Subs, \A r, s \in S : r = s
  PROVE  /\ S = {} => Sole(S) = NoSeat
         /\ S # {} => Sole(S) \in S
BY Zenon DEF Sole
MapOK == \A t \in Seats :
  /\ Occupants[t] # NoSeat =>
       \E s \in Subs : Occupants[t] = s /\ seatOf[s] = t /\ Active(s)
  /\ CoolingFor[t] # NoSeat =>
       \E s \in Subs : CoolingFor[t] = s /\ seatOf[s] = t /\ Frozen(s)
  /\ \A s \in Subs : seatOf[s] = t /\ Active(s) => Occupants[t] = s
  /\ \A s \in Subs : seatOf[s] = t /\ Frozen(s) => CoolingFor[t] = s
LEMMA Mapping == OneHolderPerSeat => MapOK
<1> SUFFICES ASSUME OneHolderPerSeat, NEW t \in Seats
             PROVE  /\ Occupants[t] # NoSeat =>
                         \E s \in Subs : Occupants[t] = s /\ seatOf[s] = t /\ Active(s)
                    /\ CoolingFor[t] # NoSeat =>
                         \E s \in Subs : CoolingFor[t] = s /\ seatOf[s] = t /\ Frozen(s)
                    /\ \A s \in Subs : seatOf[s] = t /\ Active(s) => Occupants[t] = s
                    /\ \A s \in Subs : seatOf[s] = t /\ Frozen(s) => CoolingFor[t] = s
  BY DEF MapOK
<1> DEFINE A == {s \in Subs : seatOf[s] = t /\ Active(s)}
           F == {s \in Subs : seatOf[s] = t /\ Frozen(s)}
<1>1. /\ \A r, s \in A : r = s
      /\ \A r, s \in F : r = s
  BY DEF OneHolderPerSeat, Present, HasSeat
<1>2. Occupants[t] = Sole(A) /\ CoolingFor[t] = Sole(F)
  BY DEF Occupants, CoolingFor
<1>3. A \in SUBSET Subs /\ F \in SUBSET Subs
  OBVIOUS
<1>4. /\ \A s : s \in A <=> s \in Subs /\ seatOf[s] = t /\ Active(s)
      /\ \A s : s \in F <=> s \in Subs /\ seatOf[s] = t /\ Frozen(s)
  OBVIOUS
<1> HIDE DEF A, F
<1>5. /\ A = {} => Sole(A) = NoSeat
      /\ A # {} => Sole(A) \in A
      /\ F = {} => Sole(F) = NoSeat
      /\ F # {} => Sole(F) \in F
  BY <1>1, <1>3, SoleIs
<1> QED  BY <1>1, <1>2, <1>4, <1>5

(* Two seats of a map are written at once. *)
LEMMA MovedMap ==
  ASSUME NEW f, NEW g, f = [t \in Seats |-> f[t]], g = [t \in Seats |-> g[t]],
         NEW u \in Seats, NEW t \in Seats, u # t, NEW x, NEW y, g[u] = x, g[t] = y,
         \A v \in Seats : v # t /\ v # u => g[v] = f[v]
  PROVE  g = [f EXCEPT ![u] = x, ![t] = y]
OBVIOUS

SeatInv == CaseInv /\ BanRefundsRelease /\ OneHolderPerSeat
LEMMA SeatInvStep == SeatInv /\ [Operation]_vars => SeatInv'
BY TypeStep, RequestsServeStep, FitStep, BanRefundsReleaseStep, SeatStepOfOperation,
   OneHolderStep DEF SeatInv, CaseInv, Next

(* Customers who leave, and cool-downs that start or end. *)
LEMMA LeavingStep ==
  ASSUME MapOK, MapOK', TypeInv', \A r \in Subs : Keeps(r)
  PROVE  Occupancy!Next
<1> USE NullAssumption
<1>0. \A s \in Subs : s # NoSeat
  OBVIOUS
<1> DEFINE gone == {t \in Seats : Occupants[t] # NoSeat /\ Occupants'[t] # Occupants[t]}
           kept == {t \in Seats : CoolingFor'[t] # NoSeat /\ CoolingFor'[t] # CoolingFor[t]}
           released == {t \in Seats : CoolingFor[t] # NoSeat /\ CoolingFor'[t] = NoSeat}
<1>1. ASSUME NEW t \in Seats PROVE Occupants'[t] \in {Occupants[t], NoSeat}
  BY DEF MapOK, Keeps
<1>2. ASSUME NEW t \in Seats, CoolingFor'[t] # NoSeat, CoolingFor'[t] # CoolingFor[t]
      PROVE  CoolingFor'[t] = Occupants[t] /\ Occupants'[t] # Occupants[t]
  <2>1. PICK s \in Subs : CoolingFor'[t] = s /\ seatOf'[s] = t /\ Frozen(s)'
    BY <1>2 DEF MapOK
  <2>2. seatOf[s] = t /\ Present(s) /\ ~Frozen(s)
    BY <1>2, <2>1 DEF Keeps, MapOK
  <2>3. Occupants[t] = s
    BY <2>1, <2>2 DEF MapOK, Present
  <2>4. Occupants'[t] # s
    BY <1>0, <2>1 DEF MapOK, Frozen, Active
  <2> QED  BY <2>1, <2>3, <2>4
<1>3. Occupants' = [t \in Seats |-> IF t \in gone THEN NoSeat ELSE Occupants[t]]
  BY <1>1 DEF Occupants
<1>4. CoolingFor' = [t \in Seats |-> IF t \in kept THEN Occupants[t]
                                     ELSE IF t \in released THEN NoSeat
                                     ELSE CoolingFor[t]]
  BY <1>2 DEF CoolingFor
<1>5. /\ gone \in SUBSET {t \in Seats : Occupants[t] # NoSeat}
      /\ kept \in SUBSET gone
      /\ released \in SUBSET {t \in Seats : CoolingFor[t] # NoSeat}
  BY <1>2
<1> HIDE DEF gone, kept, released
<1> QED  BY <1>3, <1>4, <1>5 DEF Occupancy!Next, Occupancy!Leave

(* A customer who boards, moves or comes back. *)
LEMMA TakingStep ==
  ASSUME SeatInv, MapOK, MapOK', TypeInv', NEW s \in Subs, Takes(s)
  PROVE  [Occupancy!Next]_(Occupancy!vars)
<1> USE NullAssumption
<1>0. /\ \A r \in Subs : r # NoSeat
      /\ seatOf'[s] \in Seats \cup {NoSeat} /\ seatOf[s] \in Seats \cup {NoSeat}
      /\ cases \in SUBSET Case
  BY DEF SeatInv, CaseInv, TypeInv, TypeOK
<1>1. /\ Active(s)' /\ ~Frozen(s)'
      /\ HasSeat(s)' => Holders(seatOf'[s]) \subseteq {s}
      /\ HasSeat(s)' \/ ~Present(s)
      /\ \A r \in Subs \ {s} : Still(r)
  BY DEF Takes, Frozen, Active
<1>2. ~Frozen(s)
  <2>1. ASSUME NEW c \in cases, UndoBanRefund(c), c.sub = s PROVE ~Frozen(s)
    BY <1>0, <2>1 DEF UndoBanRefund, SeatInv, CaseInv, TypeInv, TypeOK,
       BanRefundsRelease, Frozen, NoTime
  <2> QED  BY <2>1 DEF Takes
<1>3. ASSUME NEW t \in Seats PROVE CoolingFor'[t] = CoolingFor[t]
  <2>1. \A r \in Subs : /\ Frozen(r)' <=> Frozen(r)
                        /\ Frozen(r) => seatOf'[r] = seatOf[r]
    BY <1>1, <1>2 DEF Still
  <2> QED  BY <1>0, <2>1 DEF MapOK
<1>4. CoolingFor' = CoolingFor
  BY <1>3 DEF CoolingFor
<1>5. ASSUME NEW t \in Seats, t # seatOf'[s], t # seatOf[s] \/ ~Active(s)
      PROVE  Occupants'[t] = Occupants[t]
  <2>1. \A r \in Subs : seatOf'[r] = t /\ Active(r)' <=> seatOf[r] = t /\ Active(r)
    BY <1>1, <1>5 DEF Still
  <2> QED  BY <1>0, <2>1 DEF MapOK
<1>6. CASE ~HasSeat(s)'
  <2>1. \A t \in Seats : Occupants'[t] = Occupants[t]
    BY <1>0, <1>1, <1>5, <1>6 DEF Present, HasSeat
  <2>2. Occupants' = Occupants
    BY <2>1 DEF Occupants
  <2> QED  BY <1>4, <2>2 DEF Occupancy!vars
<1>7. CASE HasSeat(s)' /\ Active(s) /\ seatOf[s] = seatOf'[s]
  <2>1. \A r \in Subs : /\ Active(r)' <=> Active(r)
                        /\ seatOf'[r] = seatOf[r]
    BY <1>1, <1>7 DEF Still
  <2>2. \A t \in Seats : Occupants'[t] = Occupants[t]
    BY <1>0, <2>1 DEF MapOK
  <2>3. Occupants' = Occupants
    BY <2>2 DEF Occupants
  <2> QED  BY <1>4, <2>3 DEF Occupancy!vars
<1>8. CASE HasSeat(s)' /\ ~(Active(s) /\ seatOf[s] = seatOf'[s])
  <2> DEFINE t == seatOf'[s]
  <2>1. t \in Seats /\ Holders(t) = {}
    BY <1>0, <1>1, <1>2, <1>8 DEF HasSeat, Holders
  <2>2. Occupants[t] = NoSeat /\ CoolingFor[t] = NoSeat
    BY <2>1 DEF MapOK, Holders
  <2>3. Occupants'[t] = s
    BY <1>1, <2>1 DEF MapOK
  <2> HIDE DEF t
  <2>4. CASE Active(s) /\ HasSeat(s)
    <3> DEFINE u == seatOf[s]
    <3>1. u \in Seats /\ u # t /\ Occupants[u] = s
      BY <1>0, <1>8, <2>4 DEF MapOK, HasSeat, t
    <3>2. Occupants'[u] = NoSeat
      <4>1. \A r \in Subs : ~(seatOf'[r] = u /\ Active(r)')
        BY <1>1, <3>1 DEF Still, MapOK, t
      <4> QED  BY <3>1, <4>1 DEF MapOK
    <3>3. \A v \in Seats : v # t /\ v # u => Occupants'[v] = Occupants[v]
      BY <1>5 DEF t
    <3> HIDE DEF u
    <3>4. Occupants' = [Occupants EXCEPT ![u] = NoSeat, ![t] = Occupants[u]]
      <4>1. /\ Occupants = [v \in Seats |-> Occupants[v]]
            /\ Occupants' = [v \in Seats |-> Occupants'[v]]
        BY DEF Occupants
      <4> QED  BY <2>1, <2>3, <3>1, <3>2, <3>3, <4>1, MovedMap
    <3>5. Occupancy!Move(u, t)
      BY <1>0, <1>4, <2>2, <3>1, <3>4 DEF Occupancy!Move, Occupancy!Empty
    <3> QED  BY <2>1, <3>1, <3>5 DEF Occupancy!Next
  <2>5. CASE ~(Active(s) /\ HasSeat(s))
    <3>1. \A v \in Seats : v # t => Occupants'[v] = Occupants[v]
      BY <1>0, <1>5, <2>5 DEF t, HasSeat
    <3>2. Occupants' = [Occupants EXCEPT ![t] = s]
      BY <2>1, <2>3, <3>1 DEF Occupants
    <3>3. \A v \in Seats : Occupants[v] # s /\ CoolingFor[v] # s
      BY <1>0, <1>2, <2>5 DEF MapOK, HasSeat
    <3>4. Occupancy!Board(s, t)
      BY <1>4, <2>2, <3>2, <3>3 DEF Occupancy!Board, Occupancy!Empty, Occupancy!Seated
    <3> QED  BY <2>1, <3>4 DEF Occupancy!Next
  <2> QED  BY <2>4, <2>5
<1> QED  BY <1>6, <1>7, <1>8

(* Every step of the server is a step of SeatOccupancy, or leaves the seats as *)
(* they are: an occupied seat is one customer's, a seat that cools down is     *)
(* handed to nobody, and only a departure starts a cool-down.                  *)
THEOREM SeatsKeepTheirPromise == Spec => ImplementsSeatOccupancy
<1>1. Init => SeatInv /\ Occupancy!Init
  <2> SUFFICES ASSUME Init PROVE SeatInv /\ Occupancy!Init
    OBVIOUS
  <2>1. SeatInv
    BY TypeInit, FitInit DEF Init, SeatInv, CaseInv, BanRefundsRelease, OneHolderPerSeat,
       Present, Active, Frozen
  <2>2. MapOK /\ \A s \in Subs : ~Active(s) /\ ~Frozen(s)
    BY <2>1, Mapping DEF SeatInv, Init, Active, Frozen
  <2>3. \A t \in Seats : Occupants[t] = NoSeat /\ CoolingFor[t] = NoSeat
    BY <2>2 DEF MapOK
  <2>4. Occupants = [t \in Seats |-> NoSeat] /\ CoolingFor = [t \in Seats |-> NoSeat]
    BY <2>3 DEF Occupants, CoolingFor
  <2> QED  BY <2>1, <2>4 DEF Occupancy!Init
<1>2. SeatInv /\ [Operation]_vars => SeatInv'
  BY SeatInvStep
<1>3. SeatInv => MapOK /\ TypeInv
  BY Mapping DEF SeatInv, CaseInv
<1>4. SeatInv /\ MapOK /\ MapOK' /\ TypeInv' /\ [Operation]_vars
      => [Occupancy!Next]_(Occupancy!vars)
  <2> SUFFICES ASSUME SeatInv, MapOK, MapOK', TypeInv', [Operation]_vars
               PROVE  [Occupancy!Next]_(Occupancy!vars)
    OBVIOUS
  <2>1. SeatStep
    BY SeatStepOfOperation DEF SeatInv, CaseInv
  <2> QED  BY <2>1, LeavingStep, TakingStep DEF SeatStep
<1> QED  BY <1>1, <1>2, <1>3, <1>4, PTL DEF Spec, ImplementsSeatOccupancy, Occupancy!Spec

-----------------------------------------------------------------------------
(* Counting departures. *)
LEMMA FewerThan ==
  ASSUME NEW T, IsFiniteSet(T), NEW S \in SUBSET T, NEW x \in T, x \notin S
  PROVE  /\ Cardinality(S) \in Nat /\ Cardinality(T) \in Nat
         /\ Cardinality(S) < Cardinality(T)
<1>1. /\ IsFiniteSet(S) /\ Cardinality(S) <= Cardinality(T)
      /\ Cardinality(S) = Cardinality(T) => S = T
  <2>1. Cardinality(T) = Cardinality(S) => S = T
    BY FS_Subset
  <2> QED  BY <2>1, FS_Subset
<1>2. Cardinality(S) \in Nat /\ Cardinality(T) \in Nat
  BY <1>1, FS_CardinalityType
<1>3. S # T
  OBVIOUS
<1> QED  BY <1>1, <1>2, <1>3

LEMMA UpTo ==
  ASSUME NEW n \in Nat
  PROVE  IsFiniteSet(0..(n - 1)) /\ Cardinality(0..(n - 1)) = n
<1> DEFINE b == n - 1
<1>1. b \in Int /\ 0 \in Int /\ (IF 0 > b THEN 0 ELSE b - 0 + 1) = n
  OBVIOUS
<1> HIDE DEF b
<1>2. IsFiniteSet(0..b) /\ Cardinality(0..b) = IF 0 > b THEN 0 ELSE b - 0 + 1
  BY <1>1, FS_Interval
<1> QED  BY <1>1, <1>2 DEF b

(* A line: everyone in it has a place of his own, and nobody is further back   *)
(* than the line is long; its first n are those with fewer than n in front.    *)
InLine(L, place) == /\ IsFiniteSet(L) /\ place \in [L -> Nat]
                    /\ \A r, s \in L : place[r] = place[s] => r = s
                    /\ \A s \in L : place[s] < Cardinality(L)
FirstOf(L, place, n) == {s \in L : place[s] < n}
LEMMA FirstInLine ==
  ASSUME NEW L, NEW place, InLine(L, place), NEW n \in Nat
  PROVE  Cardinality(FirstOf(L, place, n))
           = IF n < Cardinality(L) THEN n ELSE Cardinality(L)
<1> USE DEF InLine, FirstOf
<1> DEFINE m == Cardinality(L)
           F == FirstOf(L, place, n)
<1>1. m \in Nat
  BY FS_CardinalityType
<1>2. CASE n >= m
  <2>1. F = L
    BY <1>1, <1>2
  <2> QED  BY <1>1, <1>2, <2>1
<1>3. CASE n < m
  <2>1. place \in Injection(L, 0..(m - 1))
    <3>1. place \in [L -> 0..(m - 1)]
      BY <1>1
    <3> QED  BY <3>1, Fun_IsInj
  <2>2. IsFiniteSet(0..(m - 1)) /\ Cardinality(0..(m - 1)) = m
    BY <1>1, UpTo
  <2>3. place \in Surjection(L, 0..(m - 1))
    BY <2>1, <2>2, FS_Injection
  <2>4. \A k \in 0..(m - 1) : \E s \in L : place[s] = k
    BY <2>3 DEF Surjection
  <2> DEFINE f == [s \in F |-> place[s]]
  <2>5. f \in Bijection(F, 0..(n - 1))
    <3>1. f \in [F -> 0..(n - 1)]
      OBVIOUS
    <3>2. \A r, s \in F : f[r] = f[s] => r = s
      OBVIOUS
    <3>3. \A k \in 0..(n - 1) : \E s \in F : f[s] = k
      BY <1>1, <1>3, <2>4
    <3> QED  BY <3>1, <3>2, <3>3, Fun_IsBij
  <2>6. IsFiniteSet(F)
    BY FS_Subset
  <2>7. Cardinality(0..(n - 1)) = Cardinality(F)
    BY <2>5, <2>6, FS_Bijection DEF ExistsBijection
  <2>8. Cardinality(0..(n - 1)) = n
    BY UpTo
  <2> QED  BY <1>3, <2>7, <2>8
<1> QED  BY <1>1, <1>2, <1>3

(* When a deadline is set for a customer who leaves after `ahead`: the seats    *)
(* that departures of the account took from the allowance, before and in the   *)
(* same transaction, are counted once.                                         *)
LEMMA DeadlineCounts ==
  ASSUME TypeInv, NEW a \in Accounts, NEW at \in Nat, NEW s \in SeatsOf(a), Active(s),
         NEW ahead \in SUBSET Subs, \A r \in ahead : Active(r),
         \A r \in Committed(a, at) : archivedAt[r] <= at
  PROVE  /\ Cardinality(Committed(a, at)) \in Nat
         /\ Cardinality(ahead \cap SeatsOf(a)) \in Nat
         /\ FreezeDeadline(s, at, ahead) = NoTime <=>
              Cardinality(Committed(a, at)) + Cardinality(ahead \cap SeatsOf(a)) < Allowance
<1> DEFINE C == Committed(a, at)
           A == ahead \cap SeatsOf(a)
           B == {r \in ahead : HasSeat(r) /\ AccountOf[seatOf[r]] = AccountOf[seatOf[s]]}
<1>1. C \in SUBSET Subs /\ A \in SUBSET Subs /\ IsFiniteSet(Subs)
  BY DEF Committed, SeatsOf
<1>2. IsFiniteSet(C) /\ IsFiniteSet(A) /\ Cardinality(C) \in Nat /\ Cardinality(A) \in Nat
  BY <1>1, FS_Subset, FS_CardinalityType
<1>3. C \cap A = {}
  BY DEF Committed, Departed, Active
<1>4. Cardinality(C \cup A) = Cardinality(C) + Cardinality(A)
  <2> HIDE DEF C, A
  <2>1. Cardinality(C \cup A) = Cardinality(C) + Cardinality(A) - Cardinality(C \cap A)
    BY <1>2, FS_Union
  <2>2. Cardinality(C \cap A) = 0
    BY <1>3, FS_EmptySet
  <2> QED  BY <1>2, <2>1, <2>2
<1>5. s \in Subs /\ HasSeat(s) /\ AccountOf[seatOf[s]] = a
  BY DEF SeatsOf
<1>6. RecentDepartures(s, at) = C
  BY <1>5 DEF RecentDepartures, Committed, SeatsOf, Departed, Active
<1>7. B = A
  BY <1>5 DEF SeatsOf
<1>8. FreezeDeadline(s, at, ahead) = IF Cardinality(C \cup A) >= Allowance
                                     THEN at + FreezeDays ELSE NoTime
  BY <1>5, <1>6, <1>7 DEF FreezeDeadline
<1>9. at + FreezeDays # NoTime
  BY DEF NoTime
<1> QED  BY <1>2, <1>4, <1>8, <1>9

(* Customers of a batch have places in it. *)
Ahead(batch, s) == {batch[j] : j \in {i \in DOMAIN batch :
                      \E k \in DOMAIN batch : i < k /\ batch[k] = s}}
LEMMA AheadOf ==
  ASSUME NEW n \in Nat, NEW batch \in [1..n -> Subs],
         \A i, j \in 1..n : batch[i] = batch[j] => i = j,
         NEW k \in 1..n, NEW l \in 1..n
  PROVE  /\ batch[k] \notin Ahead(batch, batch[k])
         /\ k < l => /\ Ahead(batch, batch[k]) \subseteq Ahead(batch, batch[l])
                     /\ batch[k] \in Ahead(batch, batch[l])
BY DEF Ahead

(* Customers who leave together at an instant no earlier than the departures   *)
(* of their account before them, and what they get: the seats the allowance    *)
(* leaves are released, the others cool down.                                  *)
LeaveTogether(a, at, n, batch) ==
  /\ batch \in [1..n -> Subs]
  /\ \A i, j \in 1..n : batch[i] = batch[j] => i = j
  /\ \A i \in 1..n : Active(batch[i])
  /\ \A r \in Committed(a, at) : archivedAt[r] <= at
ReleaseRest(a, at, n, batch) ==
  LET room == Room(Cardinality(Committed(a, at)))
      L == {batch[i] : i \in 1..n} \cap SeatsOf(a) IN
  Cardinality({s \in L : FreezeDeadline(s, at, Ahead(batch, s)) = NoTime})
    = IF room < Cardinality(L) THEN room ELSE Cardinality(L)
LEMMA BatchReleases ==
  ASSUME TypeInv, NEW a \in Accounts, NEW at \in Nat, NEW n \in Nat, NEW batch,
         LeaveTogether(a, at, n, batch)
  PROVE  ReleaseRest(a, at, n, batch)
<1>0. /\ batch \in [1..n -> Subs]
      /\ \A i, j \in 1..n : batch[i] = batch[j] => i = j
      /\ \A i \in 1..n : Active(batch[i])
      /\ \A r \in Committed(a, at) : archivedAt[r] <= at
  BY DEF LeaveTogether
<1> DEFINE L == {batch[i] : i \in 1..n} \cap SeatsOf(a)
           before == Cardinality(Committed(a, at))
           front(s) == Ahead(batch, s) \cap SeatsOf(a)
           place == [s \in L |-> Cardinality(front(s))]
<1>1. L \in SUBSET Subs /\ IsFiniteSet(L)
  BY <1>0, FS_Subset DEF SeatsOf
<1>2. ASSUME NEW s \in L
      PROVE  /\ before \in Nat /\ place[s] \in Nat /\ place[s] < Cardinality(L)
             /\ FreezeDeadline(s, at, Ahead(batch, s)) = NoTime
                  <=> before + place[s] < Allowance
  <2>1. PICK k \in 1..n : s = batch[k]
    OBVIOUS
  <2>2. Ahead(batch, s) \in SUBSET Subs /\ \A r \in Ahead(batch, s) : Active(r)
    BY <1>0 DEF Ahead
  <2>3. s \in SeatsOf(a) /\ Active(s)
    BY <1>0, <2>1
  <2>4. /\ before \in Nat /\ Cardinality(front(s)) \in Nat
        /\ FreezeDeadline(s, at, Ahead(batch, s)) = NoTime
             <=> before + Cardinality(front(s)) < Allowance
    BY <1>0, <2>2, <2>3, DeadlineCounts
  <2>5. front(s) \in SUBSET L /\ s \notin front(s)
    BY <1>0, <2>1, AheadOf DEF Ahead
  <2>6. Cardinality(front(s)) < Cardinality(L)
    BY <1>1, <2>5, FewerThan
  <2> QED  BY <2>4, <2>6
<1>3. ASSUME NEW k \in 1..n, NEW l \in 1..n, k < l, batch[k] \in L, batch[l] \in L
      PROVE  place[batch[k]] # place[batch[l]]
  <2>1. /\ front(batch[k]) \in SUBSET front(batch[l])
        /\ batch[k] \in front(batch[l]) /\ batch[k] \notin front(batch[k])
    BY <1>0, <1>3, AheadOf
  <2>2. IsFiniteSet(front(batch[l]))
    <3>1. front(batch[l]) \in SUBSET Subs
      BY <1>0 DEF Ahead
    <3> QED  BY <3>1, FS_Subset
  <2>3. Cardinality(front(batch[k])) < Cardinality(front(batch[l]))
        /\ Cardinality(front(batch[k])) \in Nat /\ Cardinality(front(batch[l])) \in Nat
    <3> HIDE DEF front
    <3> QED  BY <2>1, <2>2, FewerThan
  <2> QED  BY <1>3, <2>3
<1>4. \A r, s \in L : place[r] = place[s] => r = s
  <2> SUFFICES ASSUME NEW r \in L, NEW s \in L, place[r] = place[s] PROVE r = s
    OBVIOUS
  <2> HIDE DEF place
  <2>1. PICK k \in 1..n : r = batch[k]
    OBVIOUS
  <2>2. PICK l \in 1..n : s = batch[l]
    OBVIOUS
  <2>3. ~(k < l) /\ ~(l < k)
    BY <1>3, <2>1, <2>2
  <2> QED  BY <2>1, <2>2, <2>3
<1>5. place \in [L -> Nat]
  BY <1>2
<1> HIDE DEF place, front, L
<1>6. before \in Nat
  BY FS_Subset, FS_CardinalityType DEF Committed, SeatsOf
<1> HIDE DEF before
<1>7. PICK room \in Nat : /\ room = Room(before)
                         /\ \A p \in Nat : before + p < Allowance <=> p < room
  BY <1>6 DEF Room
<1>8. CASE L # {}
  <2>1. \A s \in L : FreezeDeadline(s, at, Ahead(batch, s)) = NoTime <=> place[s] < room
    BY <1>2, <1>7
  <2>2. \A s \in L : place[s] < Cardinality(L)
    BY <1>2
  <2>3. InLine(L, place)
    BY <1>1, <1>4, <1>5, <2>2 DEF InLine
  <2>4. Cardinality(FirstOf(L, place, room))
          = IF room < Cardinality(L) THEN room ELSE Cardinality(L)
    BY <1>7, <2>3, FirstInLine, Zenon
  <2>5. {s \in L : FreezeDeadline(s, at, Ahead(batch, s)) = NoTime}
          = FirstOf(L, place, room)
    BY <2>1 DEF FirstOf
  <2> QED  BY <1>7, <2>4, <2>5 DEF before, L, ReleaseRest
<1>9. CASE L = {}
  <2>1. Cardinality(L) = 0
    BY <1>9, FS_EmptySet
  <2>2. {s \in L : FreezeDeadline(s, at, Ahead(batch, s)) = NoTime} = L
    BY <1>9
  <2>3. ~(room < 0)
    BY <1>7
  <2>4. room = Room(Cardinality(Committed(a, at)))
    BY <1>7 DEF before
  <2> QED  BY <2>1, <2>2, <2>3, <2>4 DEF L, ReleaseRest
<1> QED  BY <1>8, <1>9 DEF L, ReleaseRest

(* A request that makes customers leave under the cool-down policy archives    *)
(* all it names, each with the deadline that counts those ahead of him.        *)
Departs(r) ==
  /\ \E n \in Nat : r.subs \in [1..n -> Subs]
  /\ \A i, j \in DOMAIN r.subs : r.subs[i] = r.subs[j] => i = j
  /\ \A s \in Members(r) : /\ Active(s) /\ life'[s] = "archived"
                            /\ frozenUntil'[s] = FreezeDeadline(s, r.at, Ahead(r.subs, s))
LEMMA LeavingTogether ==
  ASSUME CaseInv, [Next]_vars, NEW h \in Handlers, Governed(req[h]), req'[h] = Idle,
         NEW s \in Members(req[h]), Active(s), life'[s] = "archived"
  PROVE  Departs(req[h])
<1>0. /\ req \in [Handlers -> Request] /\ req[h] \in Request /\ WellServed(req[h])
      /\ life \in [Subs -> Life] /\ frozenUntil \in [Subs -> Time]
      /\ Single(req[h]) /\ req[h].op \in {"expire", "refund", "batch"}
  BY DEF CaseInv, TypeInv, TypeOK, RequestsServe, RequestsOK, Governed
<1>1. \E n \in Nat : req[h].subs \in [1..n -> Subs]
  BY <1>0 DEF Request, Batches
<1>2. s \in Subs
  BY <1>1 DEF Members
<1>3. ASSUME NEW g \in Handlers, NEW S, g # h \/ req' = Touch(S),
             req' = Touch(S) \/ req' = [Touch(S) EXCEPT ![g] = Idle]
      PROVE  FALSE
  <2>1. req'[h] = [req[h] EXCEPT !.fresh = req[h].fresh /\ Members(req[h]) \cap S = {}]
    BY <1>3 DEF Touch
  <2>2. req'[h].op = req[h].op
    BY <1>0, <2>1 DEF Request
  <2> QED  BY <1>0, <2>2 DEF Idle
<1>4. ~ArchiveSubscription(s)
  BY <1>3 DEF ArchiveSubscription
<1>5. ASSUME NEW g \in Handlers,
             \/ CommitExpire(g) \/ CommitCancellationRefund(g) \/ CommitBanRefund(g)
             \/ CommitCompleteDeferred(g)
      PROVE  g = h
  BY <1>3, <1>5 DEF CommitExpire, CommitCancellationRefund, CommitBanRefund,
     CommitCompleteDeferred
<1>6. ASSUME DOMAIN req[h].subs = {1}, s = req[h].subs[1],
             frozenUntil'[s] = FreezeDeadline(s, req[h].at, {})
      PROVE  Departs(req[h])
  <2>1. Members(req[h]) = {s} /\ Ahead(req[h].subs, s) = {}
    BY <1>6 DEF Members, Ahead
  <2> QED  BY <1>1, <1>6, <2>1 DEF Departs
<1>7. CASE CommitExpire(h) /\ s = req[h].subs[1]
  <2>1. DOMAIN req[h].subs = {1}
    BY <1>0, <1>7 DEF CommitExpire, Single
  <2>2. frozenUntil'[s] = FreezeDeadline(s, req[h].at, {})
    BY <1>2, <1>7 DEF CommitExpire, ArchiveRows
  <2> QED  BY <1>6, <1>7, <2>1, <2>2
<1>8. CASE (CommitCancellationRefund(h) \/ CommitBanRefund(h)) /\ s = req[h].subs[1]
  <2>1. CommitCancellationRefund(h) /\ req[h].op = "refund"
    BY <1>0, <1>8 DEF CommitCancellationRefund, CommitBanRefund, Governed
  <2>2. DOMAIN req[h].subs = {1}
    BY <1>0, <2>1 DEF Single
  <2>3. frozenUntil'[s] = FreezeDeadline(s, req[h].at, {})
    BY <1>2, <1>8, <2>1 DEF CommitCancellationRefund, ArchiveRows
  <2> QED  BY <1>6, <1>8, <2>2, <2>3
<1>9. CASE CommitCompleteDeferred(h)
  <2>1. \A i, j \in DOMAIN req[h].subs : req[h].subs[i] = req[h].subs[j] => i = j
    BY <1>0, <1>9 DEF CommitCompleteDeferred, WellServed
  <2>2. ASSUME NEW r \in Members(req[h])
        PROVE  /\ r \in Subs /\ Active(r) /\ life'[r] = "archived"
               /\ frozenUntil'[r] = FreezeDeadline(r, req[h].at, Ahead(req[h].subs, r))
    <3>1. r \in Subs /\ Deferrable(r)
      BY <1>1, <1>9, <2>2 DEF CommitCompleteDeferred, Members
    <3> QED  BY <1>9, <2>2, <3>1 DEF CommitCompleteDeferred, ArchiveRows, Deferrable, Ahead
  <2> QED  BY <1>1, <2>1, <2>2 DEF Departs
<1> QED  BY <1>2, <1>4, <1>5, <1>7, <1>8, <1>9, ArchivedBy

(* As long as departures commit in the order of their instants, a step         *)
(* releases exactly the seats the rolling allowance leaves, alone or in a      *)
(* batch of any size: teamSeatFreezeDeadline counts no departure twice and     *)
(* forgets none.                                                               *)
THEOREM AllowanceIsKept == RestartingSpec => AllowanceIsExact
<1>1. ASSUME CaseInv, [Next]_vars, NEW h \in Handlers, NEW a \in Accounts,
             Leaving(h, a) # {},
             \A r \in Committed(a, req[h].at) : archivedAt[r] <= req[h].at
      PROVE  LET left == Leaving(h, a)
                 room == Room(Cardinality(Committed(a, req[h].at))) IN
             Released(left) = IF room < Cardinality(left) THEN room
                              ELSE Cardinality(left)
  <2> DEFINE at == req[h].at
             batch == req[h].subs
             L == Members(req[h]) \cap SeatsOf(a)
  <2>1. Departs(req[h]) /\ Governed(req[h]) /\ req'[h] = Idle
    BY <1>1, LeavingTogether DEF Leaving
  <2>2. at \in Nat /\ TypeInv
    BY <1>1 DEF CaseInv, TypeInv, TypeOK, Request
  <2>3. PICK n \in Nat : batch \in [1..n -> Subs]
    BY <2>1 DEF Departs
  <2>4. /\ \A i, j \in 1..n : batch[i] = batch[j] => i = j
        /\ \A i \in 1..n : Active(batch[i])
        /\ Members(req[h]) = {batch[i] : i \in 1..n}
    BY <2>1, <2>3 DEF Departs, Members
  <2>5. Leaving(h, a) = L
    BY <2>1 DEF Leaving, Departs
  <2>6. {s \in L : frozenUntil'[s] = NoTime}
          = {s \in L : FreezeDeadline(s, at, Ahead(batch, s)) = NoTime}
    BY <2>1 DEF Departs
  <2> HIDE DEF at, batch
  <2>7. \A r \in Committed(a, at) : archivedAt[r] <= at
    BY <1>1 DEF at
  <2>8. ReleaseRest(a, at, n, batch)
    <3>1. LeaveTogether(a, at, n, batch)
      BY <2>3, <2>4, <2>7 DEF LeaveTogether
    <3> QED  BY <2>2, <3>1, BatchReleases
  <2>9. L = {batch[i] : i \in 1..n} \cap SeatsOf(a)
    BY <2>4
  <2> QED  BY <2>5, <2>6, <2>8, <2>9 DEF Released, ReleaseRest, at
<1>2. CaseInv /\ [Next]_vars =>
        [\A h \in Handlers, a \in Accounts :
           LET left == Leaving(h, a)
               before == Committed(a, req[h].at)
               room == Room(Cardinality(before)) IN
           left # {} /\ (\A r \in before : archivedAt[r] <= req[h].at)
           => Released(left) = IF room < Cardinality(left) THEN room
                               ELSE Cardinality(left)]_vars
  BY <1>1
<1> QED  BY <1>2, CaseInvariant, PTL DEF RestartingSpec, AllowanceIsExact
=============================================================================
