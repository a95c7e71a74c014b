----------------------- MODULE DueNotificationsProofs -----------------------
(* What holds of DueNotifications for all customers, schedules, back-offs and *)
(* numbers of events, proved by induction over the steps.                     *)
EXTENDS DueNotifications, WellFoundedInduction, FiniteSetTheorems, TLAPS

(* A number of whole days has no fewer slots than days. *)
LEMMA Multiple ==
  ASSUME NEW x \in Nat, NEW y \in Nat \ {0}
  PROVE  x * y \in Nat /\ x * y >= x
<1>1. \A a \in Nat, b \in Nat \ {0} : a * b \in Nat /\ a * b >= a
  OBVIOUS
<1> QED  BY <1>1

LEMMA PairIsFinite ==
  ASSUME NEW a, NEW b
  PROVE  IsFiniteSet({a, b})
<1>1. IsFiniteSet({a}) /\ IsFiniteSet({b})
  BY FS_Singleton
<1>2. {a, b} = {a} \cup {b}
  OBVIOUS
<1>3. IsFiniteSet({a} \cup {b})
  BY <1>1, FS_Union
<1> QED  BY <1>2, <1>3

LEMMA Quotient ==
  ASSUME NEW x \in Nat, NEW y \in Nat \ {0}
  PROVE  x \div y \in Nat /\ x \div y <= x
<1> DEFINE q == x \div y
           r == x % y
<1>1. q \in Nat
  OBVIOUS
<1>2. r \in Nat
  OBVIOUS
<1>3. x = y * q + r
  OBVIOUS
<1> HIDE DEF q, r
<1>4. q * y \in Nat /\ q * y >= q
  BY <1>1, Multiple
<1>5. y * q = q * y
  BY <1>1
<1>6. q <= x
  <2>1. ASSUME NEW m \in Nat, x = m + r, m >= q
        PROVE  q <= x
    BY <1>1, <1>2, <2>1
  <2> QED  BY <1>3, <1>4, <1>5, <2>1
<1> QED  BY <1>1, <1>6 DEF q

LEMMA Consed ==
  ASSUME NEW S, NEW x \in S, NEW tail \in Seq(S)
  PROVE  /\ <<x>> \o tail \in Seq(S)
         /\ DOMAIN (<<x>> \o tail) = 1..(Len(tail) + 1)
         /\ (<<x>> \o tail)[1] = x
         /\ \A n \in 2..(Len(tail) + 1) : (<<x>> \o tail)[n] = tail[n - 1]
<1> DEFINE one == <<x>>
<1>1. one \in Seq(S) /\ Len(one) = 1 /\ one[1] = x /\ Len(tail) \in Nat
  OBVIOUS
<1> HIDE DEF one
<1> QED  BY <1>1 DEF one

LEMMA NoneIsNoRecord ==
  None \notin [at : Nat, days : Nat] /\ None \notin Run
BY NoneAssumption

USE SizesAssumption, SubsAssumption

PeriodsOf(s) == 1..Len(FirstDues[s])
(* With one extension at a time, the due dates are those of the schedule,      *)
(* moved from the extended period on.                                         *)
Shifted(s, c) ==
  \A j \in PeriodsOf(s) :
    c.due[j] = FirstDues[s][j] +
                 IF c.ext # None /\ j >= c.ext.at THEN c.ext.days ELSE 0
DuesAreShifted == \A s \in Subs : Shifted(s, subs[s])
(* There is always a period to come. *)
LastIsUnpaid == \A s \in Subs : Len(FirstDues[s]) \notin subs[s].paid

LogOK == Rows \subseteq Keys /\ \A k \in Rows : log[k] \in Row

TypeInv == TypeOK /\ DuesAreShifted /\ LastIsUnpaid

(* What a run holds back was to be sent on the day it began, and what it is    *)
(* sending was checked and waits for an answer or for its result to be written. *)
Checked(k) == \E t \in RunTime : Current(k, t)
RunInv ==
  run # None =>
    /\ run.at \in Start..now
    /\ run.ready = {} => run.answer = "none"
    /\ run.planned => run.groups = <<>>
    /\ \A k \in run.ready : Is(k, "pending") /\ Checked(k) /\ InWindow(k, run.at)
    /\ \A n \in DOMAIN run.groups : \A k \in run.groups[n] : InWindow(k, run.at)
(* What a channel confirmed is recorded or about to be. *)
Recorded(k) ==
  \/ Is(k, "success")
  \/ run # None /\ k \in run.ready /\ run.answer = "ok"
ToldInv == \A k \in told : Recorded(k)

Inv == TypeInv /\ DeferredIsSilent /\ RunInv /\ ToldInv

-----------------------------------------------------------------------------
(* Every set of numbers that is not empty has a least one, and within 1..n a   *)
(* greatest.                                                                  *)
LEMMA Least ==
  ASSUME NEW S, S \subseteq Nat, S # {}
  PROVE  Min(S) \in S /\ \A y \in S : Min(S) <= y
<1>1. PICK x \in S : \A y \in S : ~ (<<y, x>> \in OpToRel(<, Nat))
  BY NatLessThanWellFounded, WFMin
<1>2. ASSUME NEW y \in S, y < x
      PROVE  <<y, x>> \in OpToRel(<, Nat)
  BY <1>2 DEF OpToRel
<1>3. \A y \in S : x <= y
  <2>1. \A y \in S : ~ (y < x)
    BY <1>1, <1>2
  <2>2. \A y \in S : x \in Nat /\ y \in Nat
    OBVIOUS
  <2> QED  BY <2>1, <2>2
<1> QED  BY <1>3 DEF Min

LEMMA Greatest ==
  ASSUME NEW n \in Nat, NEW S \in SUBSET (1..n), S # {}
  PROVE  Max(S) \in S
<1> DEFINE T == {n - i : i \in S}
<1>1. T \subseteq Nat
  OBVIOUS
<1>2. T # {}
  OBVIOUS
<1> HIDE DEF T
<1>3. Min(T) \in T /\ \A u \in T : Min(T) <= u
  BY <1>1, <1>2, Least
<1> USE DEF T
<1>4. PICK x \in S : Min(T) = n - x
  BY <1>3
<1>5. \A y \in S : n - y \in T
  OBVIOUS
<1> HIDE DEF T
<1>6. \A y \in S : x >= y
  BY <1>3, <1>4, <1>5
<1> QED  BY <1>6 DEF Max

-----------------------------------------------------------------------------
(* What the planner reads of a customer *)

LEMMA CustomerFields ==
  ASSUME TypeInv, NEW s \in Subs
  PROVE  /\ subs[s] \in Customer(s)
         /\ Len(FirstDues[s]) \in Nat /\ Len(FirstDues[s]) > 1
         /\ Periods(subs[s]) = PeriodsOf(s)
         /\ \A j \in PeriodsOf(s) : FirstDues[s][j] \in Nat
<1>1. subs[s] \in Customer(s)
  BY DEF TypeInv, TypeOK
<1>2. FirstDues[s] \in Seq(Nat)
  OBVIOUS
<1>3. Len(FirstDues[s]) \in Nat /\ Len(FirstDues[s]) > 1
  BY <1>2
<1>4. Periods(subs[s]) = PeriodsOf(s)
  BY <1>1 DEF Customer, Periods, PeriodsOf
<1> QED  BY <1>1, <1>2, <1>3, <1>4 DEF PeriodsOf

(* The slots between Start and End are numbers, and their days no greater. *)
LEMMA SlotsAreDays ==
  ASSUME NEW t \in Start..End
  PROVE  t \in Nat /\ t <= End /\ DayOf(t) \in Nat /\ DayOf(t) <= t
BY Quotient DEF DayOf

(* The last due date of a schedule is ahead of every slot. *)
LEMMA LastIsAhead ==
  ASSUME TypeInv, NEW s \in Subs, NEW t \in Start..End
  PROVE  /\ Len(FirstDues[s]) \in PeriodsOf(s) \ Passed(subs[s], t)
         /\ subs[s].due[Len(FirstDues[s])] > DayOf(t)
<1> DEFINE c == subs[s]
           n == Len(FirstDues[s])
<1>1. n \in PeriodsOf(s)
  BY CustomerFields DEF PeriodsOf
<1>2. c.due[n] \in Nat /\ c.due[n] > End
  <2>1. c \in Customer(s) /\ FirstDues[s][n] > End /\ FirstDues[s][n] \in Nat
    BY <1>1, CustomerFields
  <2>2. /\ c.due[n] \in Nat
        /\ c.ext # None => c.ext.days \in Nat
    <3>1. c.due \in [PeriodsOf(s) -> Nat]
      BY <2>1 DEF Customer, PeriodsOf
    <3>2. c.ext \in {None} \cup [at : PeriodsOf(s), days : 1..MaxShift]
      BY <2>1 DEF Customer, PeriodsOf
    <3>3. 1..MaxShift \subseteq Nat
      OBVIOUS
    <3> QED  BY <1>1, <3>1, <3>2, <3>3
  <2>3. c.due[n] = FirstDues[s][n] + IF c.ext # None /\ n >= c.ext.at
                                     THEN c.ext.days ELSE 0
    BY <1>1 DEF TypeInv, DuesAreShifted, Shifted
  <2>4. CASE c.ext # None /\ n >= c.ext.at
    <3>1. c.due[n] = FirstDues[s][n] + c.ext.days /\ c.ext.days \in Nat
      BY <2>2, <2>3, <2>4
    <3> HIDE DEF c, n
    <3>2. ASSUME NEW f \in Nat, NEW e \in Nat, f > End
          PROVE  f + e \in Nat /\ f + e > End
      BY <3>2
    <3> QED  BY <2>1, <3>1, <3>2
  <2>5. CASE ~ (c.ext # None /\ n >= c.ext.at)
    <3>1. c.due[n] = FirstDues[s][n] + 0
      BY <2>3, <2>5
    <3>2. \A f \in Nat : f + 0 = f
      OBVIOUS
    <3> QED  BY <2>1, <3>1, <3>2
  <2> QED  BY <2>4, <2>5
<1>3. c.due[n] * Slots \in Nat /\ c.due[n] * Slots >= c.due[n]
  BY <1>2, Multiple
<1>4. ~ (c.due[n] * Slots + Trigger <= t)
  <2>1. ASSUME NEW d \in Nat, NEW m \in Nat, m >= d, d > End
        PROVE  ~ (m + Trigger <= t)
    BY <2>1, SlotsAreDays
  <2> QED  BY <1>2, <1>3, <2>1
<1>5. c.due[n] > DayOf(t)
  <2>1. t \in Nat /\ t <= End /\ DayOf(t) \in Nat /\ DayOf(t) <= t
    BY SlotsAreDays
  <2>2. End \in Nat
    OBVIOUS
  <2>3. ASSUME NEW d \in Nat, NEW e \in Nat, d > End, e <= t
        PROVE  d > e
    BY <2>1, <2>2, <2>3
  <2> QED  BY <1>2, <2>1, <2>3
<1> QED  BY <1>1, <1>4, <1>5 DEF Passed

(* So the next due date exists, and the last one is a period if there is one. *)
LEMMA DuesArePeriods ==
  ASSUME TypeInv, NEW s \in Subs, NEW t \in Start..End
  PROVE  /\ NextDue(subs[s], t) \in PeriodsOf(s)
         /\ LastDue(subs[s], t) \subseteq PeriodsOf(s)
<1> DEFINE c == subs[s]
           n == Len(FirstDues[s])
<1>1. n \in Nat /\ PeriodsOf(s) = 1..n /\ Periods(c) = PeriodsOf(s)
  BY CustomerFields DEF PeriodsOf
<1>2. NextDue(c, t) \in PeriodsOf(s)
  <2>1. Periods(c) \ Passed(c, t) \subseteq Nat
    BY <1>1
  <2>2. n \in Periods(c) \ Passed(c, t)
    BY <1>1, LastIsAhead
  <2>3. Min(Periods(c) \ Passed(c, t)) \in Periods(c) \ Passed(c, t)
    BY <2>1, <2>2, Least
  <2> QED  BY <1>1, <2>3 DEF NextDue
<1>3. LastDue(c, t) \subseteq PeriodsOf(s)
  <2>1. Passed(c, t) \in SUBSET (1..n)
    BY <1>1 DEF Passed
  <2>2. Passed(c, t) # {} => Max(Passed(c, t)) \in Passed(c, t)
    BY <1>1, <2>1, Greatest
  <2> QED  BY <1>1, <2>1, <2>2 DEF LastDue
<1> QED  BY <1>2, <1>3

(* A customer always has a first unpaid period. *)
LEMMA FirstUnpaidIsPeriod ==
  ASSUME TypeInv, NEW s \in Subs, NEW t \in Start..End
  PROVE  FirstUnpaid(subs[s], t) \in PeriodsOf(s) \ subs[s].paid
<1> DEFINE c == subs[s]
           n == Len(FirstDues[s])
           pins == IF c.pin # 0 THEN {c.pin}
                   ELSE IF c.paid = {} /\ c.since # 0 THEN {c.since} ELSE {}
           bills == IF c.paid = {} THEN {} ELSE c.paid \cup LastDue(c, t)
           starts == {NextDue(c, t)} \cup bills \cup pins
           open == {i \in Periods(c) : i >= Min(starts) /\ i \notin c.paid}
<1>1. n \in Nat /\ PeriodsOf(s) = 1..n /\ Periods(c) = PeriodsOf(s)
  BY CustomerFields DEF PeriodsOf
<1>2. /\ c.paid \subseteq PeriodsOf(s)
      /\ c.pin \in {0} \cup PeriodsOf(s) /\ c.since \in {0} \cup PeriodsOf(s)
  BY CustomerFields DEF Customer, PeriodsOf
<1>3. pins \subseteq PeriodsOf(s)
  BY <1>2
<1>4. bills \subseteq PeriodsOf(s)
  BY <1>2, DuesArePeriods
<1>5. starts \subseteq PeriodsOf(s) /\ starts # {}
  BY <1>3, <1>4, DuesArePeriods
<1> HIDE DEF starts
<1>6. Min(starts) \in 1..n
  <2>1. starts \subseteq Nat
    BY <1>1, <1>5
  <2> QED  BY <1>1, <1>5, <2>1, Least
<1>7. n \in PeriodsOf(s) /\ n \notin c.paid
  BY LastIsAhead DEF TypeInv, LastIsUnpaid
<1>8. n \in open /\ open \subseteq Nat
  BY <1>1, <1>6, <1>7
<1>9. Min(open) \in open
  BY <1>8, Least
<1>10. FirstUnpaid(c, t) = Min(open)
  BY DEF FirstUnpaid, starts
<1> QED  BY <1>1, <1>9, <1>10

-----------------------------------------------------------------------------
(* Types *)

LEMMA InitTypeInv == Init => TypeInv
<1> SUFFICES ASSUME Init PROVE TypeInv
  OBVIOUS
<1>1. ASSUME NEW s \in Subs
      PROVE  /\ subs[s] \in Customer(s) /\ Shifted(s, subs[s])
             /\ Len(FirstDues[s]) \notin subs[s].paid
  <2>1. /\ FirstDues[s] \in Seq(Nat) /\ Len(FirstDues[s]) \in Nat
        /\ Len(FirstDues[s]) > 1
    OBVIOUS
  <2>2. FirstDues[s] \in [PeriodsOf(s) -> Nat]
    BY <2>1 DEF PeriodsOf
  <2>3. \A j \in PeriodsOf(s) : FirstDues[s][j] \in Nat
    BY <2>2
  <2>4. subs[s] = [due |-> FirstDues[s], paid |-> IF s \in Billed THEN {1} ELSE {},
          deferred |-> FALSE, since |-> 0, ext |-> None, pin |-> 0,
          price |-> 0, applied |-> 0, status |-> "active"]
    BY DEF Init
  <2>5. (IF s \in Billed THEN {1} ELSE {}) \in SUBSET PeriodsOf(s)
    BY <2>1 DEF PeriodsOf
  <2>6. subs[s] \in Customer(s)
    BY <2>2, <2>4, <2>5 DEF Customer, PeriodsOf
  <2>7. Shifted(s, subs[s])
    BY <2>3, <2>4 DEF Shifted
  <2>8. Len(FirstDues[s]) \notin subs[s].paid
    <3>1. subs[s].paid \subseteq {1}
      BY <2>4
    <3> QED  BY <2>1, <3>1
  <2> QED  BY <2>6, <2>7, <2>8
<1>2. TypeOK
  <2>1. Rows = {}
    <3>1. log = <<>>
      BY DEF Init
    <3> QED  BY <3>1 DEF Rows
  <2>2. DOMAIN subs = Subs
    BY DEF Init
  <2>3. now \in Start..End /\ events \in 0..MaxEvents
    BY DEF Init
  <2>4. run = None /\ told = {}
    BY DEF Init
  <2> QED  BY <1>1, <2>1, <2>2, <2>3, <2>4 DEF TypeOK
<1> QED  BY <1>1, <1>2 DEF TypeInv, DuesAreShifted, LastIsUnpaid

(* Cancelling changes the status of rows, and only of those cancelled. *)
LEMMA CancelRows ==
  ASSUME TypeInv, NEW K
  PROVE  /\ DOMAIN Cancel(K) = Rows
         /\ \A k \in Rows : /\ Cancel(K)[k] \in Row
                            /\ k \in K => Cancel(K)[k].status = "canceled"
                            /\ k \notin K => Cancel(K)[k] = log[k]
<1>1. Len(BackOff) \in Nat
  OBVIOUS
<1>2. Over("canceled") \in Row /\ Over("canceled").status = "canceled"
  BY <1>1 DEF Over, Row
<1> QED  BY <1>2 DEF Cancel, TypeInv, TypeOK

LEMMA CancelKeepsLogOK ==
  ASSUME TypeInv, NEW K, log' = Cancel(K)
  PROVE  LogOK'
BY CancelRows DEF LogOK, TypeInv, TypeOK, Rows

LEMMA SameLogIsOK ==
  ASSUME TypeInv, UNCHANGED log
  PROVE  LogOK'
BY DEF LogOK, TypeInv, TypeOK, Rows

(* A change to a customer that leaves him a schedule, shifted by his extension *)
(* if he has one, and a period to come.                                       *)
LEMMA ChangeKeepsTypeInv ==
  ASSUME TypeInv, NEW s \in Subs, NEW c \in Customer(s), Change(s, c), LogOK',
         Shifted(s, c), Len(FirstDues[s]) \notin c.paid
  PROVE  TypeInv'
<1>1. /\ DOMAIN subs' = Subs /\ subs'[s] = c
      /\ \A q \in Subs \ {s} : subs'[q] = subs[q]
  BY DEF Change, TypeInv, TypeOK
<1>2. events' \in 0..MaxEvents
  <2>1. MaxEvents \in Nat /\ events \in 0..MaxEvents
    BY DEF TypeInv, TypeOK
  <2> QED  BY <2>1 DEF Change
<1>3. TypeOK'
  BY <1>1, <1>2 DEF Change, TypeInv, TypeOK, LogOK
<1>4. \A q \in Subs : /\ Shifted(q, subs'[q])
                      /\ Len(FirstDues[q]) \notin subs'[q].paid
  BY <1>1 DEF TypeInv, DuesAreShifted, LastIsUnpaid
<1> QED  BY <1>3, <1>4 DEF TypeInv, DuesAreShifted, LastIsUnpaid

(* In particular one that leaves due dates, bills and extension alone. *)
LEMMA SameDuesKeepTypeInv ==
  ASSUME TypeInv, NEW s \in Subs, NEW c \in Customer(s), Change(s, c), LogOK',
         c.due = subs[s].due, c.ext = subs[s].ext, c.paid \subseteq subs[s].paid
  PROVE  TypeInv'
<1>1. Shifted(s, c)
  BY DEF TypeInv, DuesAreShifted, Shifted
<1>2. Len(FirstDues[s]) \notin c.paid
  BY DEF TypeInv, LastIsUnpaid
<1> QED  BY <1>1, <1>2, ChangeKeepsTypeInv

LEMMA PayKeepsTypeInv ==
  ASSUME TypeInv, NEW s \in Subs, NEW i, Pay(s, i)
  PROVE  TypeInv'
<1> DEFINE c == subs[s]
           applies == c.price # 0 /\ c.price <= i
           d == [c EXCEPT !.paid = @ \cup {i}, !.deferred = FALSE, !.since = 0,
                   !.price = IF applies THEN 0 ELSE @,
                   !.applied = IF applies THEN c.due[c.price] ELSE @]
<1>1. c \in Customer(s) /\ Periods(c) = PeriodsOf(s)
  BY CustomerFields
<1>2. i \in PeriodsOf(s) /\ i # Len(FirstDues[s])
  BY <1>1, CustomerFields DEF Pay
<1>3. applies => c.due[c.price] \in Nat
  BY <1>1 DEF Customer
<1>4. d \in Customer(s)
  BY <1>1, <1>2, <1>3 DEF Customer, PeriodsOf
<1>5. Shifted(s, d)
  BY <1>1 DEF TypeInv, DuesAreShifted, Shifted, Customer
<1>6. Len(FirstDues[s]) \notin d.paid
  BY <1>1, <1>2 DEF TypeInv, LastIsUnpaid, Customer
<1>7. Change(s, d) /\ LogOK'
  BY SameLogIsOK DEF Pay
<1> QED  BY <1>4, <1>5, <1>6, <1>7, ChangeKeepsTypeInv

(* The changes after which the due dates are what they were. *)
LEMMA DeleteBillKeepsTypeInv ==
  ASSUME TypeInv, NEW s \in Subs, NEW i, DeleteBill(s, i)
  PROVE  TypeInv'
<1> DEFINE d == [subs[s] EXCEPT !.paid = @ \ {i}, !.deferred = FALSE, !.since = 0]
<1>1. subs[s] \in Customer(s)
  BY CustomerFields
<1>2. d \in Customer(s)
  BY <1>1 DEF Customer
<1>3. d.due = subs[s].due /\ d.ext = subs[s].ext /\ d.paid \subseteq subs[s].paid
  BY <1>1 DEF Customer
<1>4. Change(s, d) /\ LogOK'
  BY SameLogIsOK DEF DeleteBill
<1> QED  BY <1>2, <1>3, <1>4, SameDuesKeepTypeInv

LEMMA DeferKeepsTypeInv ==
  ASSUME TypeInv, NEW s \in Subs, Defer(s)
  PROVE  TypeInv'
<1> DEFINE d == [subs[s] EXCEPT !.deferred = TRUE, !.since = FirstUnpaid(subs[s], now)]
<1>1. subs[s] \in Customer(s)
  BY CustomerFields
<1>2. FirstUnpaid(subs[s], now) \in PeriodsOf(s)
  BY FirstUnpaidIsPeriod DEF TypeInv, TypeOK
<1>3. d \in Customer(s)
  BY <1>1, <1>2 DEF Customer, PeriodsOf
<1>4. d.due = subs[s].due /\ d.ext = subs[s].ext /\ d.paid \subseteq subs[s].paid
  BY <1>1 DEF Customer
<1>5. Change(s, d) /\ LogOK'
  BY CancelKeepsLogOK DEF Defer
<1> QED  BY <1>3, <1>4, <1>5, SameDuesKeepTypeInv

LEMMA SetNextPriceKeepsTypeInv ==
  ASSUME TypeInv, NEW s \in Subs, SetNextPrice(s)
  PROVE  TypeInv'
<1> DEFINE c == subs[s]
           unpaid == {i \in Periods(c) \ c.paid : c.due[i] >= DayOf(now)}
           d == [c EXCEPT !.price = Min(unpaid)]
<1>1. /\ c \in Customer(s) /\ Periods(c) = PeriodsOf(s)
      /\ now \in Start..End
  BY CustomerFields DEF TypeInv, TypeOK
<1>2. Len(FirstDues[s]) \in unpaid
  <2>1. /\ Len(FirstDues[s]) \in PeriodsOf(s)
        /\ c.due[Len(FirstDues[s])] > DayOf(now)
    BY <1>1, LastIsAhead
  <2>2. Len(FirstDues[s]) \notin c.paid
    BY DEF TypeInv, LastIsUnpaid
  <2>3. c.due[Len(FirstDues[s])] \in Nat /\ DayOf(now) \in Nat
    BY <1>1, <2>1, SlotsAreDays DEF Customer, PeriodsOf
  <2>4. \A x \in Nat, y \in Nat : x > y => x >= y
    OBVIOUS
  <2> QED  BY <1>1, <2>1, <2>2, <2>3, <2>4
<1>3. unpaid \subseteq PeriodsOf(s)
  BY <1>1
<1>4. PeriodsOf(s) \subseteq Nat
  BY CustomerFields DEF PeriodsOf
<1> HIDE DEF unpaid
<1>5. Min(unpaid) \in PeriodsOf(s)
  BY <1>2, <1>3, <1>4, Least
<1>6. d \in Customer(s)
  BY <1>1, <1>5 DEF Customer, PeriodsOf
<1>7. d.due = c.due /\ d.ext = c.ext /\ d.paid \subseteq c.paid
  BY <1>1 DEF Customer
<1>8. Change(s, d) /\ LogOK'
  BY SameLogIsOK DEF SetNextPrice, unpaid
<1> QED  BY <1>6, <1>7, <1>8, SameDuesKeepTypeInv

LEMMA RestoreRenewalKeepsTypeInv ==
  ASSUME TypeInv, NEW s \in Subs, RestoreRenewal(s)
  PROVE  TypeInv'
<1> DEFINE d == [subs[s] EXCEPT !.deferred = FALSE]
<1>1. subs[s] \in Customer(s)
  BY CustomerFields
<1>2. /\ d \in Customer(s)
      /\ d.due = subs[s].due /\ d.ext = subs[s].ext /\ d.paid \subseteq subs[s].paid
  BY <1>1 DEF Customer
<1> QED  BY <1>2, SameLogIsOK, SameDuesKeepTypeInv DEF RestoreRenewal

LEMMA ClearNextPriceKeepsTypeInv ==
  ASSUME TypeInv, NEW s \in Subs, ClearNextPrice(s)
  PROVE  TypeInv'
<1> DEFINE d == [subs[s] EXCEPT !.price = 0]
<1>1. subs[s] \in Customer(s)
  BY CustomerFields
<1>2. /\ d \in Customer(s)
      /\ d.due = subs[s].due /\ d.ext = subs[s].ext /\ d.paid \subseteq subs[s].paid
  BY <1>1 DEF Customer
<1> QED  BY <1>2, SameLogIsOK, SameDuesKeepTypeInv DEF ClearNextPrice

(* A change of status. *)
LEMMA StatusKeepsTypeInv ==
  ASSUME TypeInv, NEW s \in Subs, NEW status \in {"active", "case", "archived"},
         Change(s, [subs[s] EXCEPT !.status = status]), LogOK'
  PROVE  TypeInv'
<1> DEFINE d == [subs[s] EXCEPT !.status = status]
<1>1. subs[s] \in Customer(s)
  BY CustomerFields
<1>2. /\ d \in Customer(s)
      /\ d.due = subs[s].due /\ d.ext = subs[s].ext /\ d.paid \subseteq subs[s].paid
  BY <1>1 DEF Customer
<1> QED  BY <1>2, SameDuesKeepTypeInv

(* The first extension moves the due dates of the schedule itself. *)
LEMMA ExtendKeepsTypeInv ==
  ASSUME TypeInv, NEW s \in Subs, NEW days \in 1..MaxShift, Extend(s, days)
  PROVE  TypeInv'
<1> DEFINE c == subs[s]
           i == FirstUnpaid(c, now)
           dues == ShiftedDues(c, i, days)
           pin == IF c.pin = 0 THEN i ELSE SmallerOf(c.pin, i)
           d == [c EXCEPT !.due = dues, !.ext = [at |-> i, days |-> days],
                          !.pin = IF @ = 0 THEN i ELSE SmallerOf(@, i)]
<1>1. c \in Customer(s) /\ Periods(c) = PeriodsOf(s)
  BY CustomerFields
<1>2. i \in PeriodsOf(s)
  BY FirstUnpaidIsPeriod DEF TypeInv, TypeOK
<1> HIDE DEF i
<1>3. days \in Nat /\ PeriodsOf(s) \subseteq Nat
  BY CustomerFields DEF PeriodsOf
<1>4. /\ c.due \in [PeriodsOf(s) -> Nat] /\ c.paid \in SUBSET PeriodsOf(s)
      /\ c.pin \in {0} \cup PeriodsOf(s)
  BY <1>1 DEF Customer, PeriodsOf
<1>5. dues \in [PeriodsOf(s) -> Nat]
  <2>1. ASSUME NEW j \in PeriodsOf(s)
        PROVE  c.due[j] + (IF j >= i THEN days ELSE 0) \in Nat
    <3>1. c.due[j] \in Nat
      BY <1>4
    <3>2. \A x \in Nat : x + (IF j >= i THEN days ELSE 0) \in Nat
      BY <1>3
    <3> QED  BY <3>1, <3>2
  <2> QED  BY <1>1, <2>1 DEF ShiftedDues
<1>6. pin \in {0} \cup PeriodsOf(s)
  BY <1>2, <1>4 DEF SmallerOf
<1>7. [at |-> i, days |-> days] \in [at : PeriodsOf(s), days : 1..MaxShift]
  BY <1>2
<1>8. /\ d.due = dues /\ d.ext = [at |-> i, days |-> days] /\ d.pin = pin
      /\ d.paid = c.paid
  BY <1>1 DEF Customer
<1>9. d \in Customer(s)
  BY <1>1, <1>5, <1>6, <1>7 DEF Customer, PeriodsOf
<1>10. c.ext = None /\ \A j \in PeriodsOf(s) : c.due[j] = FirstDues[s][j] + 0
  BY DEF Extend, TypeInv, DuesAreShifted, Shifted
<1>11. Shifted(s, d)
  <2>1. [at |-> i, days |-> days] # None
    BY <1>2, <1>3, NoneIsNoRecord
  <2>2. SUFFICES ASSUME NEW j \in PeriodsOf(s)
        PROVE dues[j] = FirstDues[s][j] + IF j >= i THEN days ELSE 0
    BY <1>8, <2>1, <2>2 DEF Shifted
  <2>3. dues[j] = c.due[j] + IF j >= i THEN days ELSE 0
    BY <1>1 DEF ShiftedDues
  <2>4. FirstDues[s][j] \in Nat
    BY CustomerFields
  <2>5. c.due[j] = FirstDues[s][j]
    BY <1>10, <2>4
  <2> QED  BY <2>3, <2>5
<1>12. Len(FirstDues[s]) \notin d.paid
  BY <1>8 DEF TypeInv, LastIsUnpaid
<1>13. Change(s, d) /\ LogOK'
  BY CancelKeepsLogOK DEF Extend, i
<1> QED  BY <1>9, <1>11, <1>12, <1>13, ChangeKeepsTypeInv

(* Revising or revoking it moves them by the difference. *)
LEMMA ReviseKeepsTypeInv ==
  ASSUME TypeInv, NEW s \in Subs, NEW days \in 0..MaxShift, Revise(s, days)
  PROVE  TypeInv'
<1> DEFINE c == subs[s]
           dues == ShiftedDues(c, c.ext.at, days - c.ext.days)
           ext == IF days = 0 THEN None ELSE [c.ext EXCEPT !.days = days]
           d == [c EXCEPT !.due = dues,
                   !.ext = IF days = 0 THEN None ELSE [@ EXCEPT !.days = days]]
<1>1. c \in Customer(s) /\ Periods(c) = PeriodsOf(s) /\ c.ext # None
  BY CustomerFields DEF Revise
<1>2. days \in Nat /\ PeriodsOf(s) \subseteq Nat
  BY CustomerFields DEF PeriodsOf
<1>3. c.ext \in [at : PeriodsOf(s), days : 1..MaxShift]
  BY <1>1 DEF Customer, PeriodsOf
<1>4. c.ext.at \in Nat /\ c.ext.days \in Nat
  <2>1. 1..MaxShift \subseteq Nat
    OBVIOUS
  <2> QED  BY <1>2, <1>3, <2>1
<1>5. ASSUME NEW j \in PeriodsOf(s)
      PROVE  /\ dues[j] \in Nat
             /\ dues[j] = FirstDues[s][j] + IF j >= c.ext.at THEN days ELSE 0
  <2>1. FirstDues[s][j] \in Nat /\ j \in Nat
    BY <1>2, CustomerFields
  <2>2. dues[j] = c.due[j] + IF j >= c.ext.at THEN days - c.ext.days ELSE 0
    BY <1>1 DEF ShiftedDues
  <2>3. c.due[j] = FirstDues[s][j] + IF j >= c.ext.at THEN c.ext.days ELSE 0
    BY <1>1 DEF TypeInv, DuesAreShifted, Shifted
  <2> HIDE DEF dues, c
  <2>4. \A f \in Nat, e \in Nat : f + e + (days - e) = f + days
    BY <1>2
  <2>5. CASE j >= c.ext.at
    <3>1. dues[j] = FirstDues[s][j] + c.ext.days + (days - c.ext.days)
      BY <2>2, <2>3, <2>5
    <3>2. dues[j] = FirstDues[s][j] + days
      BY <1>4, <2>1, <2>4, <3>1
    <3>3. \A f \in Nat : f + days \in Nat
      BY <1>2
    <3>4. dues[j] \in Nat
      BY <2>1, <3>2, <3>3
    <3> QED  BY <2>5, <3>2, <3>4
  <2>6. CASE ~ (j >= c.ext.at)
    <3>1. dues[j] = FirstDues[s][j] + 0 + 0
      BY <2>2, <2>3, <2>6
    <3>2. \A f \in Nat : f + 0 + 0 = f /\ f + 0 = f
      OBVIOUS
    <3>3. dues[j] = FirstDues[s][j] /\ FirstDues[s][j] = FirstDues[s][j] + 0
      BY <2>1, <3>1, <3>2
    <3> QED  BY <2>1, <2>6, <3>3
  <2> QED  BY <2>5, <2>6
<1>6. dues \in [PeriodsOf(s) -> Nat]
  <2>1. dues = [j \in PeriodsOf(s) |-> dues[j]]
    BY <1>1 DEF ShiftedDues
  <2> QED  BY <1>5, <2>1
<1>7. /\ ext \in {None} \cup [at : PeriodsOf(s), days : 1..MaxShift]
      /\ days # 0 => ext.at = c.ext.at /\ ext.days = days /\ ext # None
  <2>1. CASE days = 0
    BY <2>1
  <2>2. CASE days # 0
    <3>1. days \in 1..MaxShift
      BY <1>2, <2>2
    <3>2. ext \in [at : PeriodsOf(s), days : 1..MaxShift]
      BY <1>3, <2>2, <3>1
    <3>3. ext.at = c.ext.at /\ ext.days = days
      BY <1>3, <2>2
    <3>4. ext \in [at : Nat, days : Nat]
      BY <1>2, <3>1, <3>2
    <3> QED  BY <3>2, <3>3, <3>4, NoneIsNoRecord
  <2> QED  BY <2>1, <2>2
<1>8. d.due = dues /\ d.ext = ext /\ d.paid = c.paid
  BY <1>1 DEF Customer
<1>9. d \in Customer(s)
  BY <1>1, <1>6, <1>7 DEF Customer, PeriodsOf
<1>10. Shifted(s, d)
  <2> HIDE DEF dues, ext, d
  <2>1. CASE days = 0
    <3>1. d.ext = None
      BY <1>8, <2>1 DEF ext
    <3>2. SUFFICES ASSUME NEW j \in PeriodsOf(s)
          PROVE  dues[j] = FirstDues[s][j] + 0
      BY <1>8, <3>1, <3>2 DEF Shifted
    <3>3. FirstDues[s][j] \in Nat
      BY CustomerFields
    <3> QED  BY <1>5, <2>1, <3>3
  <2>2. CASE days # 0
    BY <1>5, <1>7, <1>8, <2>2 DEF Shifted
  <2> QED  BY <2>1, <2>2
<1>11. Len(FirstDues[s]) \notin d.paid
  BY <1>8 DEF TypeInv, LastIsUnpaid
<1>12. Change(s, d) /\ LogOK'
  BY CancelKeepsLogOK DEF Revise
<1> QED  BY <1>9, <1>10, <1>11, <1>12, ChangeKeepsTypeInv

(* What is planned are rows of the table, to be sent on this day. *)
LEMMA ScheduledKeys ==
  ASSUME TypeInv, NEW s \in Subs, NEW t \in Start..End
  PROVE  \A k \in Schedule(s, subs[s], t) :
           /\ k \in Keys /\ k.sub = s /\ SendAtPassed(k, t)
           /\ IF k.kind = "price" THEN ~ (DayOf(t) >= k.day)
              ELSE ~ (SendDay(k) < DayOf(t))
<1> DEFINE c == subs[s]
           key(i, kind) == [sub |-> s, day |-> c.due[i], kind |-> kind]
           candidates == (LastDue(c, t) \cup {NextDue(c, t)}) \ c.paid
           kinds == IF s \in Plus THEN {"due"} ELSE {"due", "ahead"}
           today == {k \in {key(i, kind) : i \in candidates, kind \in kinds} :
                       SendDay(k) = DayOf(t)}
           notices == {k \in {key(i, "price") : i \in {c.price} \ {0}} :
                         k.day - DayOf(t) >= Late}
<1>1. c.due \in [PeriodsOf(s) -> Nat] /\ c.price \in {0} \cup PeriodsOf(s)
  BY CustomerFields DEF Customer, PeriodsOf
<1>2. DayOf(t) \in Nat
  BY SlotsAreDays
<1>3. \A i \in PeriodsOf(s), kind \in {"due", "ahead", "price"} : key(i, kind) \in Keys
  BY <1>1 DEF Keys
<1>4. candidates \subseteq PeriodsOf(s)
  BY DuesArePeriods
<1>5. ASSUME NEW k \in today
      PROVE  k \in Keys /\ k.sub = s /\ k.kind # "price" /\ ~ (SendDay(k) < DayOf(t))
  <2>1. PICK i \in candidates, kind \in kinds : k = key(i, kind)
    OBVIOUS
  <2>2. i \in PeriodsOf(s) /\ kind \in {"due", "ahead"}
    BY <1>4
  <2>3. k \in Keys
    <3> HIDE DEF key
    <3> QED  BY <1>3, <2>1, <2>2
  <2>4. SendDay(k) = DayOf(t) /\ ~ (DayOf(t) < DayOf(t))
    BY <1>2
  <2> QED  BY <2>1, <2>2, <2>3, <2>4
<1>6. ASSUME NEW k \in notices
      PROVE  k \in Keys /\ k.sub = s /\ k.kind = "price" /\ ~ (DayOf(t) >= k.day)
  <2>1. k = key(c.price, "price") /\ c.price \in PeriodsOf(s)
    BY <1>1
  <2>2. k \in Keys /\ k.day \in Nat
    BY <1>1, <1>3, <2>1
  <2>3. k.day - DayOf(t) >= Late
    OBVIOUS
  <2>4. Late \in Nat /\ Late > 0
    OBVIOUS
  <2> HIDE DEF notices, key
  <2>5. ~ (DayOf(t) >= k.day)
    BY <1>2, <2>2, <2>3, <2>4
  <2> QED  BY <2>1, <2>2, <2>5 DEF key
<1>7. Schedule(s, c, t) = {k \in today \cup notices : SendAtPassed(k, t)}
  BY DEF Schedule
<1> HIDE DEF today, notices
<1> QED  BY <1>5, <1>6, <1>7

LEMMA PlannedKeys ==
  ASSUME TypeInv, NEW s \in Subs, NEW t \in Start..End
  PROVE  \A k \in Planned(s, t) : k \in Keys /\ k.sub = s /\ ~ subs[s].deferred
BY ScheduledKeys DEF Planned, PlannedFor

(* Planning and waiting leave a row what it was, but for its wait. *)
LEMMA OlderRows ==
  ASSUME TypeInv, NEW k \in Keys
  PROVE  /\ Upsert(k) \in Row
         /\ \A row \in Row : Older(row) \in Row /\ Older(row).status = row.status
<1>1. Len(BackOff) \in Nat
  OBVIOUS
<1>2. Upsert(k) \in Row
  BY <1>1 DEF Upsert, Fresh, Over, Row, TypeInv, TypeOK
<1>3. ASSUME NEW row \in Row
      PROVE  Older(row) \in Row /\ Older(row).status = row.status
  <2>1. row.left \in Nat
    BY DEF Row
  <2>2. (IF row.left = 0 THEN 0 ELSE row.left - 1) \in Nat
    BY <2>1
  <2> QED  BY <2>2 DEF Older, Row
<1> QED  BY <1>2, <1>3

LEMMA NextSlot ==
  ASSUME TypeInv
  PROVE  SmallerOf(now + 1, End) \in now..End /\ now \in Start..End
<1>1. now \in Start..End
  BY DEF TypeInv, TypeOK
<1> QED  BY <1>1 DEF SmallerOf

(* The steps of a run leave customers, slot and events alone. *)
LEMMA RunStepKeepsTypeInv ==
  ASSUME TypeInv, UNCHANGED <<subs, now, events>>, LogOK',
         run' = None \/ run' \in Run, told' \in SUBSET Keys
  PROVE  TypeInv'
<1>1. TypeOK'
  BY DEF TypeInv, TypeOK, LogOK
<1>2. DuesAreShifted' /\ LastIsUnpaid'
  BY DEF TypeInv, DuesAreShifted, LastIsUnpaid, Shifted
<1> QED  BY <1>1, <1>2 DEF TypeInv

LEMMA NewRunType ==
  ASSUME TypeInv
  PROVE  [NewRun EXCEPT !.held = Held] \in Run
<1>1. Held \subseteq Subs
  BY DEF Held
<1>2. <<>> \in Seq(SUBSET Keys)
  OBVIOUS
<1>3. now \in Nat
  BY NextSlot
<1>4. {k \in DOMAIN log : log[k].left > 0} \in SUBSET Keys
  BY DEF TypeInv, TypeOK, Rows
<1>5. NewRun \in Run
  BY <1>2, <1>3, <1>4 DEF NewRun, Run
<1> QED  BY <1>1, <1>5 DEF Run

(* What the log is when a run has planned. *)
LEMMA PlannedLog ==
  ASSUME TypeInv, BeginRun
  PROVE  \E planned \in SUBSET Keys :
           /\ planned = UNION {Planned(s, now) : s \in Subs}
           /\ Rows' = Rows \cup planned
           /\ \A k \in planned : log'[k] = Upsert(k)
           /\ \A k \in Rows \ planned : log'[k] = log[k]
<1> DEFINE planned == UNION {Planned(s, now) : s \in Subs}
<1>1. planned \in SUBSET Keys
  BY NextSlot, PlannedKeys
<1>2. log' = [k \in Rows \cup planned |-> IF k \in planned THEN Upsert(k) ELSE log[k]]
  BY DEF BeginRun
<1> HIDE DEF planned
<1>3. Rows' = Rows \cup planned
  BY <1>2 DEF Rows
<1>4. /\ \A k \in planned : log'[k] = Upsert(k)
      /\ \A k \in Rows \ planned : log'[k] = log[k]
  BY <1>2
<1> QED  BY <1>1, <1>3, <1>4 DEF planned

LEMMA BeginRunKeepsTypeInv ==
  ASSUME TypeInv, BeginRun
  PROVE  TypeInv' /\ run' \in Run
<1>1. PICK planned \in SUBSET Keys :
        /\ Rows' = Rows \cup planned
        /\ \A k \in planned : log'[k] = Upsert(k)
        /\ \A k \in Rows \ planned : log'[k] = log[k]
  BY PlannedLog
<1>2. LogOK'
  BY <1>1, OlderRows DEF LogOK, TypeInv, TypeOK
<1>3. run' \in Run
  BY NewRunType DEF BeginRun
<1>4. TypeInv'
  BY <1>2, <1>3, RunStepKeepsTypeInv DEF BeginRun, TypeInv, TypeOK
<1> QED  BY <1>3, <1>4

LEMMA CollectKeepsTypeInv ==
  ASSUME TypeInv, Collect
  PROVE  TypeInv' /\ run' \in Run
<1> DEFINE rows == {k \in Retryable : InWindow(k, run.at)}
           iyuu == {k \in rows : Digest(k)}
           groups == {iyuu, rows \ iyuu} \ {{}}
<1>1. PICK order \in [1..Cardinality(groups) -> groups] :
        run' = [run EXCEPT !.planned = FALSE, !.groups = order, !.held = @ \cup Held]
  BY DEF Collect
<1>2. groups \subseteq SUBSET Keys
  BY DEF Retryable, TypeInv, TypeOK
<1>3. Cardinality(groups) \in Nat
  <2>1. IsFiniteSet({iyuu, rows \ iyuu})
    BY PairIsFinite
  <2>2. IsFiniteSet(groups)
    BY <2>1, FS_Subset
  <2> QED  BY <2>2, FS_CardinalityType
<1>4. order \in Seq(SUBSET Keys)
  <2> HIDE DEF groups
  <2>1. order \in [1..Cardinality(groups) -> SUBSET Keys]
    BY <1>2
  <2>2. \A n \in Nat : [1..n -> SUBSET Keys] \subseteq Seq(SUBSET Keys)
    OBVIOUS
  <2> QED  BY <1>3, <2>1, <2>2
<1>5. run \in Run
  BY DEF Collect, TypeInv, TypeOK
<1>6. run' \in Run
  BY <1>1, <1>4, <1>5 DEF Run, Held
<1>7. LogOK'
  BY CancelKeepsLogOK DEF Collect
<1>8. TypeInv'
  BY <1>6, <1>7, RunStepKeepsTypeInv DEF Collect, TypeInv, TypeOK
<1> QED  BY <1>6, <1>8

(* Striking rows settles those that are not owed and leaves the others alone. *)
LEMMA StrikeEffect ==
  ASSUME TypeInv, NEW K, log' = Strike(K), \A k \in K : Is(k, "pending")
  PROVE  /\ LogOK' /\ Rows' = Rows
         /\ \A k \in Rows : ~ (k \in K /\ ~ Owed(k)) => log'[k] = log[k]
         /\ \A k : Is(k, "pending")' <=> Is(k, "pending") /\ ~ (k \in K /\ ~ Owed(k))
         /\ \A k : Is(k, "success") => Is(k, "success")'
<1>1. Len(BackOff) \in Nat
  OBVIOUS
<1>2. \A status \in {"failed", "canceled"} :
        Over(status) \in Row /\ Over(status).status = status
  BY <1>1 DEF Over, Row
<1>3. /\ Rows' = Rows
      /\ \A k \in Rows : ~ (k \in K /\ ~ Owed(k)) => log'[k] = log[k]
      /\ \A k \in Rows : k \in K /\ ~ Owed(k) =>
           \E status \in {"failed", "canceled"} : log'[k] = Over(status)
  BY DEF Strike, Rows
<1>4. Rows \subseteq Keys /\ \A k \in Rows : log[k] \in Row
  BY DEF TypeInv, TypeOK
<1>5. LogOK'
  BY <1>2, <1>3, <1>4 DEF LogOK
<1>6. \A k : Is(k, "pending")' <=> Is(k, "pending") /\ ~ (k \in K /\ ~ Owed(k))
  BY <1>2, <1>3 DEF Is
<1>7. \A k : Is(k, "success") => Is(k, "success")'
  <2>1. \A k \in K : ~ Is(k, "success")
    BY DEF Is
  <2> QED  BY <1>3, <2>1 DEF Is
<1> QED  BY <1>3, <1>5, <1>6, <1>7

LEMMA CheckKeepsTypeInv ==
  ASSUME TypeInv, Check
  PROVE  TypeInv' /\ run' \in Run
<1> DEFINE group == Head(run.groups)
<1>1. run \in Run /\ run.groups \in Seq(SUBSET Keys) /\ run.groups # <<>>
  BY DEF Check, TypeInv, TypeOK, Run
<1>2. group \in SUBSET Keys /\ Tail(run.groups) \in Seq(SUBSET Keys)
  BY <1>1
<1>3. PICK K \in {{k} : k \in {x \in group : ~ Digest(x)}} \cup
                 ({{x \in group : Digest(x)}} \ {{}}) :
        /\ log' = Strike({q \in K : Is(q, "pending")})
        /\ run' = [run EXCEPT !.ready = {k \in {q \in K : Is(q, "pending")} : Owed(k)},
                     !.groups = IF K = group THEN Tail(@)
                                ELSE <<group \ K>> \o Tail(@)]
  BY DEF Check
<1>4. K \in SUBSET Keys
  BY <1>2
<1>5. <<group \ K>> \o Tail(run.groups) \in Seq(SUBSET Keys)
  BY <1>2
<1>6. run' \in Run
  BY <1>1, <1>2, <1>3, <1>4, <1>5 DEF Run
<1>7. LogOK'
  BY <1>3, StrikeEffect
<1>8. TypeInv'
  BY <1>6, <1>7, RunStepKeepsTypeInv DEF Check, TypeInv, TypeOK
<1> QED  BY <1>6, <1>8

LEMMA FinishKeepsTypeInv ==
  ASSUME TypeInv, run # None, NEW k \in run.ready, Finish(k)
  PROVE  TypeInv' /\ run' \in Run
<1>1. run \in Run /\ k \in Keys
  BY DEF TypeInv, TypeOK, Run
<1>2. run' \in Run
  BY <1>1 DEF Finish, Run
<1>3. Len(BackOff) \in Nat /\ BackOff \in [1..Len(BackOff) -> Nat \ {0}]
  OBVIOUS
<1>4. LogOK'
  <2>1. CASE ~ Is(k, "pending")
    BY <2>1, SameLogIsOK DEF Finish
  <2>2. CASE Is(k, "pending") /\ (run.answer = "ok" \/ log[k].attempt + 1 > Len(BackOff))
    <3>1. PICK status \in {"success", "failed"} : log' = [log EXCEPT ![k] = Over(status)]
      BY <2>2 DEF Finish
    <3>2. Over(status) \in Row
      BY <1>3 DEF Over, Row
    <3> QED  BY <3>1, <3>2 DEF LogOK, Rows, TypeInv, TypeOK
  <2>3. CASE Is(k, "pending") /\ ~ (run.answer = "ok" \/ log[k].attempt + 1 > Len(BackOff))
    <3> DEFINE attempt == log[k].attempt + 1
    <3>1. PICK missed \in {0, 1} :
            log' = [log EXCEPT ![k].attempt = attempt,
                               ![k].left = BackOff[attempt] + missed]
      BY <2>3 DEF Finish
    <3>2. log[k] \in Row /\ k \in Rows
      BY <2>3 DEF Is, TypeInv, TypeOK
    <3>3. attempt \in 1..Len(BackOff)
      <4>1. log[k].attempt \in 0..Len(BackOff)
        BY <3>2 DEF Row
      <4>2. ~ (attempt > Len(BackOff))
        BY <2>3
      <4>3. ASSUME NEW a \in 0..Len(BackOff), ~ (a + 1 > Len(BackOff))
            PROVE  a + 1 \in 1..Len(BackOff)
        BY <1>3, <4>3
      <4> QED  BY <4>1, <4>2, <4>3
    <3> HIDE DEF attempt
    <3>4. BackOff[attempt] + missed \in Nat
      <4>1. BackOff[attempt] \in Nat
        BY <1>3, <3>3
      <4> QED  BY <4>1
    <3>5. [log[k] EXCEPT !.attempt = attempt, !.left = BackOff[attempt] + missed] \in Row
      <4>1. attempt \in 0..Len(BackOff)
        BY <1>3, <3>3
      <4> QED  BY <3>2, <3>4, <4>1 DEF Row
    <3>6. log' = [log EXCEPT ![k] = [log[k] EXCEPT !.attempt = attempt,
                                       !.left = BackOff[attempt] + missed]]
      BY <3>1, <3>2 DEF Rows
    <3> QED  BY <3>2, <3>5, <3>6 DEF LogOK, Rows, TypeInv, TypeOK
  <2> QED  BY <2>1, <2>2, <2>3
<1>5. TypeInv'
  BY <1>2, <1>4, RunStepKeepsTypeInv DEF Finish, TypeInv, TypeOK
<1> QED  BY <1>2, <1>5

(* Time leaves all but the wait of the rows alone. *)
LEMMA TickedRows ==
  ASSUME TypeInv, Tick
  PROVE  /\ LogOK' /\ Rows' = Rows
         /\ \A k \in Rows : log'[k] = Older(log[k])
         /\ \A k, x : Is(k, x)' <=> Is(k, x)
<1>1. log' = [k \in Rows |-> Older(log[k])]
  BY DEF Tick
<1>2. Rows' = Rows /\ \A k \in Rows : log'[k] = Older(log[k])
  BY <1>1 DEF Rows
<1>3. Rows \subseteq Keys /\ \A k \in Rows : log[k] \in Row
  BY DEF TypeInv, TypeOK
<1>4. \A k \in Rows : log'[k] \in Row /\ log'[k].status = log[k].status
  BY <1>2, <1>3, OlderRows
<1> QED  BY <1>2, <1>3, <1>4 DEF LogOK, Is

LEMMA TickKeepsTypeInv ==
  ASSUME TypeInv, Tick
  PROVE  TypeInv'
<1>1. LogOK'
  BY TickedRows
<1>2. now' \in Start..End
  BY NextSlot DEF Tick
<1>3. TypeOK'
  BY <1>1, <1>2 DEF Tick, TypeInv, TypeOK, LogOK
<1>4. DuesAreShifted' /\ LastIsUnpaid'
  BY DEF Tick, TypeInv, DuesAreShifted, LastIsUnpaid, Shifted
<1> QED  BY <1>3, <1>4 DEF TypeInv

LEMMA CrashKeepsTypeInv ==
  ASSUME TypeInv, Crash
  PROVE  TypeInv'
<1>1. events' \in 0..MaxEvents
  <2>1. MaxEvents \in Nat /\ events \in 0..MaxEvents
    BY DEF TypeInv, TypeOK
  <2> QED  BY <2>1 DEF Crash
<1>2. LogOK'
  BY SameLogIsOK DEF Crash
<1>3. TypeOK'
  BY <1>1, <1>2 DEF Crash, TypeInv, TypeOK, LogOK
<1>4. DuesAreShifted' /\ LastIsUnpaid'
  BY DEF Crash, TypeInv, DuesAreShifted, LastIsUnpaid, Shifted
<1> QED  BY <1>3, <1>4 DEF TypeInv

-----------------------------------------------------------------------------
(* What changes without the mutex does not decide what is current. *)

LEMMA FirstUnpaidIgnoresStatus ==
  ASSUME NEW s \in Subs, NEW c \in Customer(s), NEW d \in Customer(s), NEW t,
         d.due = c.due, d.paid = c.paid, d.since = c.since, d.pin = c.pin
  PROVE  FirstUnpaid(d, t) = FirstUnpaid(c, t)
<1>1. Periods(d) = Periods(c) /\ Passed(d, t) = Passed(c, t)
  BY DEF Periods, Passed
<1>2. NextDue(d, t) = NextDue(c, t) /\ LastDue(d, t) = LastDue(c, t)
  BY <1>1 DEF NextDue, LastDue
<1> DEFINE start(x) == Min({NextDue(x, t)} \cup
                           (IF x.paid = {} THEN {} ELSE x.paid \cup LastDue(x, t)) \cup
                           (IF x.pin # 0 THEN {x.pin}
                            ELSE IF x.paid = {} /\ x.since # 0 THEN {x.since} ELSE {}))
           open(x) == {i \in Periods(x) : i >= start(x) /\ i \notin x.paid}
<1>3. start(d) = start(c)
  BY <1>2
<1> HIDE DEF start
<1>4. open(d) = open(c)
  BY <1>1, <1>3
<1>5. FirstUnpaid(d, t) = Min(open(d)) /\ FirstUnpaid(c, t) = Min(open(c))
  BY DEF FirstUnpaid, start
<1> QED  BY <1>4, <1>5

LEMMA CurrentIgnoresStatus ==
  ASSUME TypeInv, NEW s \in Subs, NEW status \in {"active", "case", "archived"},
         Change(s, [subs[s] EXCEPT !.status = status]), NEW k \in Keys, NEW t
  PROVE  Current(k, t)' <=> Current(k, t)
<1> DEFINE q == k.sub
           c == subs[q]
           d == subs'[q]
<1>1. q \in Subs
  BY DEF Keys
<1>2. c \in Customer(q) /\ d \in Customer(q)
  <2>1. c \in Customer(q)
    BY <1>1, CustomerFields
  <2>2. subs[s] \in Customer(s)
    BY CustomerFields
  <2>3. [subs[s] EXCEPT !.status = status] \in Customer(s)
    BY <2>2 DEF Customer
  <2>4. subs' = [subs EXCEPT ![s] = [subs[s] EXCEPT !.status = status]]
    BY DEF Change
  <2>5. DOMAIN subs = Subs
    BY DEF TypeInv, TypeOK
  <2> QED  BY <1>1, <2>1, <2>3, <2>4, <2>5
<1>3. /\ d.due = c.due /\ d.paid = c.paid /\ d.since = c.since /\ d.pin = c.pin
      /\ d.deferred = c.deferred /\ d.price = c.price
  <2>1. subs[s] \in Customer(s) /\ DOMAIN subs = Subs
    BY CustomerFields DEF TypeInv, TypeOK
  <2>2. d = c \/ d = [c EXCEPT !.status = status]
    BY <1>1, <2>1 DEF Change
  <2> HIDE DEF c, d
  <2>3. CASE d = c
    BY <2>3
  <2>4. CASE d = [c EXCEPT !.status = status]
    BY <1>2, <2>4 DEF Customer
  <2> QED  BY <2>2, <2>3, <2>4
<1> HIDE DEF c, d, q
<1>4. FirstUnpaid(d, t) = FirstUnpaid(c, t)
  BY <1>1, <1>2, <1>3, FirstUnpaidIgnoresStatus
<1>5. Paid(d, k.day) <=> Paid(c, k.day)
  BY <1>3 DEF Paid
<1>6. PriceApplies(d, k.day) <=> PriceApplies(c, k.day)
  BY <1>3 DEF PriceApplies, Periods
<1>7. IsCurrentFirstUnpaidDueDate(d, k.day, t)
        <=> IsCurrentFirstUnpaidDueDate(c, k.day, t)
  BY <1>3, <1>4 DEF IsCurrentFirstUnpaidDueDate, Periods, Anchored
<1>8. Matches(d, k, t) <=> Matches(c, k, t)
  BY <1>3, <1>6, <1>7 DEF Matches
<1> QED  BY <1>1, <1>5, <1>8 DEF Current, Unpaid, c, d, q

-----------------------------------------------------------------------------
(* Changes that hold the mutex *)

(* Cancelling rows that are not sent leaves the sent ones sent, and adds no    *)
(* pending ones.                                                              *)
LEMMA CancelEffect ==
  ASSUME TypeInv, NEW K, log' = Cancel(K)
  PROVE  /\ \A k : Is(k, "pending")' <=> Is(k, "pending") /\ k \notin K
         /\ \A k : Is(k, "success") /\ k \notin K => Is(k, "success")'
<1>1. Rows' = Rows
  BY CancelRows DEF Rows
<1>2. \A k \in Rows : log'[k] = IF k \in K THEN Over("canceled") ELSE log[k]
  BY DEF Cancel
<1>3. Over("canceled").status = "canceled"
  BY DEF Over
<1> QED  BY <1>1, <1>2, <1>3 DEF Is

(* A change that keeps what is sent and leaves nothing pending of a customer   *)
(* who is deferred after it.                                                  *)
LEMMA MutexChange ==
  ASSUME Inv, MutexFree, NEW s \in Subs, NEW c \in Customer(s), Change(s, c),
         TypeInv',
         \A k : Is(k, "success") => Is(k, "success")',
         \A k : Is(k, "pending")' => Is(k, "pending"),
         c.deferred => subs[s].deferred \/ \A k \in PendingOf(s) : ~ Is(k, "pending")'
  PROVE  Inv'
<1>1. run' = None /\ RunInv'
  BY DEF MutexFree, Change, RunInv
<1>2. ToldInv'
  BY <1>1 DEF Inv, ToldInv, Recorded, MutexFree, Change
<1>3. ASSUME NEW q \in Subs, subs'[q].deferred, NEW k \in PendingOf(q)'
      PROVE  FALSE
  <2>1. k.sub = q /\ Is(k, "pending")' /\ Is(k, "pending")
    BY <1>3 DEF PendingOf
  <2>2. k \in PendingOf(q)
    BY <2>1 DEF PendingOf, Is
  <2>3. subs'[q] = IF q = s THEN c ELSE subs[q]
    BY DEF Change, Inv, TypeInv, TypeOK
  <2> QED  BY <1>3, <2>1, <2>2, <2>3 DEF Inv, DeferredIsSilent
<1>4. DeferredIsSilent'
  BY <1>3 DEF DeferredIsSilent
<1> QED  BY <1>1, <1>2, <1>4 DEF Inv

(* Most of them touch no row. *)
LEMMA QuietChange ==
  ASSUME Inv, MutexFree, NEW s \in Subs, NEW c, Change(s, c), UNCHANGED log,
         TypeInv', c.deferred => subs[s].deferred
  PROVE  Inv'
<1>1. c \in Customer(s)
  <2>1. subs'[s] = c
    BY DEF Change, Inv, TypeInv, TypeOK
  <2> QED  BY <2>1 DEF TypeInv, TypeOK
<1>2. \A k, status : Is(k, status)' <=> Is(k, status)
  BY DEF Is, Rows
<1> QED  BY <1>1, <1>2, MutexChange

LEMMA CancelChange ==
  ASSUME Inv, MutexFree, NEW s \in Subs, NEW c, Change(s, c), NEW K, log' = Cancel(K),
         \A k \in K : ~ Is(k, "success"), TypeInv',
         c.deferred => subs[s].deferred \/ PendingOf(s) \subseteq K
  PROVE  Inv'
<1>1. c \in Customer(s)
  <2>1. subs'[s] = c
    BY DEF Change, Inv, TypeInv, TypeOK
  <2> QED  BY <2>1 DEF TypeInv, TypeOK
<1>2. /\ \A k : Is(k, "pending")' <=> Is(k, "pending") /\ k \notin K
      /\ \A k : Is(k, "success") => Is(k, "success")'
  BY CancelEffect DEF Inv
<1> QED  BY <1>1, <1>2, MutexChange

LEMMA PendingAreUnsent ==
  \A s \in Subs : \A k \in PendingOf(s) : ~ Is(k, "success")
BY DEF PendingOf, Is

LEMMA MutexSteps ==
  ASSUME Inv, NEW s \in Subs,
         \/ \E i \in Periods(subs[s]) : Pay(s, i) \/ DeleteBill(s, i)
         \/ Defer(s) \/ RestoreRenewal(s) \/ CompleteDeferred(s)
         \/ \E days \in 1..MaxShift : Extend(s, days)
         \/ \E days \in 0..MaxShift : Revise(s, days)
         \/ SetNextPrice(s) \/ ClearNextPrice(s)
  PROVE  Inv'
<1> DEFINE c == subs[s]
<1>1. TypeInv /\ c \in Customer(s)
  BY CustomerFields DEF Inv
<1>2. ASSUME NEW i, Pay(s, i)
      PROVE  Inv'
  <2> DEFINE d == [c EXCEPT !.paid = @ \cup {i}, !.deferred = FALSE, !.since = 0,
                   !.price = IF c.price # 0 /\ c.price <= i THEN 0 ELSE @,
                   !.applied = IF c.price # 0 /\ c.price <= i
                               THEN c.due[c.price] ELSE @]
  <2>1. ~ d.deferred
    BY <1>1 DEF Customer
  <2> QED  BY <1>1, <1>2, <2>1, PayKeepsTypeInv, QuietChange DEF Pay
<1>3. ASSUME NEW i, DeleteBill(s, i)
      PROVE  Inv'
  <2> DEFINE d == [c EXCEPT !.paid = @ \ {i}, !.deferred = FALSE, !.since = 0]
  <2>1. ~ d.deferred
    BY <1>1 DEF Customer
  <2> QED  BY <1>1, <1>3, <2>1, DeleteBillKeepsTypeInv, QuietChange DEF DeleteBill
<1>4. ASSUME Defer(s)
      PROVE  Inv'
  BY <1>1, <1>4, DeferKeepsTypeInv, CancelChange, PendingAreUnsent DEF Defer
<1>5. ASSUME RestoreRenewal(s)
      PROVE  Inv'
  <2>1. ~ [c EXCEPT !.deferred = FALSE].deferred
    BY <1>1 DEF Customer
  <2> QED  BY <1>1, <1>5, <2>1, RestoreRenewalKeepsTypeInv, QuietChange
           DEF RestoreRenewal
<1>6. ASSUME CompleteDeferred(s)
      PROVE  Inv'
  <2>1. TypeInv'
    BY <1>1, <1>6, StatusKeepsTypeInv, CancelKeepsLogOK DEF CompleteDeferred
  <2> QED  BY <1>6, <2>1, CancelChange, PendingAreUnsent DEF CompleteDeferred
<1>7. ASSUME NEW days \in 1..MaxShift, Extend(s, days)
      PROVE  Inv'
  <2> DEFINE i == FirstUnpaid(c, now)
             d == [c EXCEPT !.due = ShiftedDues(c, i, days),
                     !.ext = [at |-> i, days |-> days],
                     !.pin = IF @ = 0 THEN i ELSE SmallerOf(@, i)]
             K == Invalid(s, d, c.due[i])
  <2>1. /\ MutexFree /\ ~ c.deferred /\ Change(s, d) /\ log' = Cancel(K)
    BY <1>7 DEF Extend
  <2>2. \A k \in K : ~ Is(k, "success")
    BY DEF Invalid
  <2>3. d.deferred = c.deferred
    BY <1>1 DEF Customer
  <2>4. TypeInv'
    BY <1>1, <1>7, ExtendKeepsTypeInv
  <2> HIDE DEF d, K
  <2> QED  BY <2>1, <2>2, <2>3, <2>4, CancelChange
<1>8. ASSUME NEW days \in 0..MaxShift, Revise(s, days)
      PROVE  Inv'
  <2> DEFINE before == c.due[c.ext.at] - c.ext.days
             d == [c EXCEPT !.due = ShiftedDues(c, c.ext.at, days - c.ext.days),
                     !.ext = IF days = 0 THEN None ELSE [@ EXCEPT !.days = days]]
             K == Invalid(s, d, before)
  <2>1. /\ MutexFree /\ ~ c.deferred /\ Change(s, d) /\ log' = Cancel(K)
    BY <1>8 DEF Revise
  <2>2. \A k \in K : ~ Is(k, "success")
    BY DEF Invalid
  <2>3. d.deferred = c.deferred
    BY <1>1 DEF Customer
  <2>4. TypeInv'
    BY <1>1, <1>8, ReviseKeepsTypeInv
  <2> HIDE DEF d, K
  <2> QED  BY <2>1, <2>2, <2>3, <2>4, CancelChange
<1>9. ASSUME SetNextPrice(s)
      PROVE  Inv'
  <2> DEFINE d == [c EXCEPT !.price = Min({i \in Periods(c) \ c.paid :
                                             c.due[i] >= DayOf(now)})]
  <2>1. d.deferred = c.deferred
    BY <1>1 DEF Customer
  <2>2. MutexFree /\ Change(s, d) /\ UNCHANGED log
    BY <1>9 DEF SetNextPrice
  <2>3. TypeInv'
    BY <1>1, <1>9, SetNextPriceKeepsTypeInv
  <2> HIDE DEF d
  <2> QED  BY <2>1, <2>2, <2>3, QuietChange
<1>10. ASSUME ClearNextPrice(s)
       PROVE  Inv'
  <2>1. [c EXCEPT !.price = 0].deferred = c.deferred
    BY <1>1 DEF Customer
  <2> QED  BY <1>1, <1>10, <2>1, ClearNextPriceKeepsTypeInv, QuietChange
           DEF ClearNextPrice
<1> QED  BY <1>2, <1>3, <1>4, <1>5, <1>6, <1>7, <1>8, <1>9, <1>10

-----------------------------------------------------------------------------
(* Changes that do not hold it: they find a run under way, but what it has     *)
(* checked they do not touch.                                                 *)
LEMMA StatusStep ==
  ASSUME Inv, NEW s \in Subs, OpenCase(s) \/ Archive(s) \/
         (\E status \in {"active", "archived"} : CloseCase(s, status))
  PROVE  Inv'
<1>1. PICK status \in {"active", "case", "archived"} :
        Change(s, [subs[s] EXCEPT !.status = status])
  BY DEF OpenCase, CloseCase, Archive
<1>2. UNCHANGED <<log, now, run, told>>
  BY DEF OpenCase, CloseCase, Archive, Change
<1>3. TypeInv'
  BY <1>1, <1>2, SameLogIsOK, StatusKeepsTypeInv DEF Inv
<1>4. \A k \in Keys : Checked(k)' <=> Checked(k)
  <2>1. \A k \in Keys : \A t : Current(k, t)' <=> Current(k, t)
    BY <1>1, CurrentIgnoresStatus DEF Inv
  <2> QED  BY <1>2, <2>1 DEF Checked, RunTime
<1>5. \A k, x : Is(k, x)' <=> Is(k, x)
  BY <1>2 DEF Is, Rows
<1>7. RunInv'
  <2>1. ASSUME run # None
        PROVE  /\ run.ready \subseteq Keys
               /\ \A n \in DOMAIN run.groups : run.groups[n] \subseteq Keys
    <3>1. run \in Run
      BY <2>1 DEF Inv, TypeInv, TypeOK
    <3>2. run.ready \subseteq Keys /\ run.groups \in Seq(SUBSET Keys)
      BY <3>1 DEF Run
    <3> QED  BY <3>2
  <2> QED  BY <1>2, <1>4, <1>5, <2>1 DEF Inv, RunInv
<1>8. ToldInv'
  BY <1>2, <1>5 DEF Inv, ToldInv, Recorded
<1>9. DeferredIsSilent'
  <2>1. subs[s] \in Customer(s) /\ DOMAIN subs = Subs
    BY CustomerFields DEF Inv, TypeInv, TypeOK
  <2>2. \A q \in Subs : subs'[q].deferred = subs[q].deferred
    BY <1>1, <2>1 DEF Change, Customer
  <2>3. \A q \in Subs : PendingOf(q)' \subseteq PendingOf(q)
    BY <1>2, <1>5 DEF PendingOf, Rows
  <2> QED  BY <2>2, <2>3 DEF Inv, DeferredIsSilent
<1> QED  BY <1>3, <1>7, <1>8, <1>9 DEF Inv

-----------------------------------------------------------------------------
(* The steps of a run *)

LEMMA BeginRunStep ==
  ASSUME Inv, BeginRun
  PROVE  Inv'
<1>1. TypeInv /\ TypeInv' /\ run' \in Run
  BY BeginRunKeepsTypeInv DEF Inv
<1>2. PICK planned \in SUBSET Keys :
        /\ planned = UNION {Planned(s, now) : s \in Subs}
        /\ Rows' = Rows \cup planned
        /\ \A k \in planned : log'[k] = Upsert(k)
        /\ \A k \in Rows \ planned : log'[k] = log[k]
  BY <1>1, PlannedLog
<1>3. \A k \in planned : ~ subs[k.sub].deferred
  BY <1>1, <1>2, NextSlot, PlannedKeys
<1>4. \A k : Is(k, "success") => Is(k, "success")'
  BY <1>2 DEF Is, Upsert
<1>5. /\ run = None /\ run' # None /\ run'.ready = {} /\ run'.answer = "none"
      /\ run'.groups = <<>> /\ run'.at = now /\ UNCHANGED <<subs, now, told>>
  <2>1. run = None /\ run' = [NewRun EXCEPT !.held = Held] /\ UNCHANGED <<subs, now, told>>
    BY DEF BeginRun
  <2> QED  BY <1>1, <2>1, NoneIsNoRecord DEF NewRun
<1>6. RunInv'
  <2>1. now \in Start..now
    BY <1>1, NextSlot
  <2> QED  BY <1>5, <2>1 DEF RunInv
<1>7. ToldInv'
  <2>1. ASSUME NEW k, Recorded(k)
        PROVE  Recorded(k)'
    <3>1. Is(k, "success")'
      BY <1>4, <1>5, <2>1 DEF Recorded
    <3> QED  BY <3>1 DEF Recorded
  <2> QED  BY <1>5, <2>1 DEF Inv, ToldInv
<1>8. DeferredIsSilent'
  <2>1. SUFFICES ASSUME NEW s \in Subs, subs[s].deferred, NEW k \in PendingOf(s)'
        PROVE  FALSE
    BY <1>5, <2>1 DEF DeferredIsSilent
  <2>2. k.sub = s /\ k \in Rows' /\ log'[k].status = "pending"
    BY <2>1 DEF PendingOf, Is
  <2>3. k \in Rows \ planned
    BY <1>2, <1>3, <2>1, <2>2
  <2> QED  BY <1>2, <2>1, <2>2, <2>3 DEF Inv, DeferredIsSilent, PendingOf, Is
<1> QED  BY <1>1, <1>6, <1>7, <1>8 DEF Inv

(* As long as no row becomes pending, the silence stays. *)
LEMMA SilenceStays ==
  ASSUME Inv, UNCHANGED subs, \A k : Is(k, "pending")' => Is(k, "pending")
  PROVE  DeferredIsSilent'
<1>1. \A s \in Subs : PendingOf(s)' \subseteq PendingOf(s)
  BY DEF PendingOf, Is
<1> QED  BY <1>1 DEF Inv, DeferredIsSilent

(* As long as the customers stay what they are, what was checked stays so. *)
LEMMA CheckedStays ==
  ASSUME UNCHANGED subs, run'.at = run.at, now' \in Int, now \in Int, run.at \in Int,
         now' >= now, NEW k, Checked(k)
  PROVE  Checked(k)'
<1>1. PICK t \in RunTime : Current(k, t)
  BY DEF Checked
<1>2. Current(k, t)'
  BY <1>1 DEF Current, Unpaid
<1>3. t \in RunTime'
  BY DEF RunTime
<1> QED  BY <1>2, <1>3 DEF Checked

(* In a step of a run the clock stands still. *)
LEMMA CheckedInRun ==
  ASSUME Inv, run # None, UNCHANGED <<subs, now>>, run'.at = run.at
  PROVE  \A k : Checked(k) => Checked(k)'
<1>1. now \in Int /\ run.at \in Int /\ now >= now
  BY DEF Inv, TypeInv, TypeOK, Run
<1> QED  BY <1>1, CheckedStays

LEMMA TickStep ==
  ASSUME Inv, Tick
  PROVE  Inv'
<1>1. TypeInv /\ TypeInv'
  BY TickKeepsTypeInv DEF Inv
<1>2. /\ UNCHANGED <<subs, run, told>> /\ \A k, x : Is(k, x)' <=> Is(k, x)
  BY <1>1, TickedRows DEF Tick
<1>3. now' \in Int /\ now \in Int /\ now' >= now
  BY <1>1, NextSlot DEF Tick
<1>4. RunInv'
  <2>1. ASSUME run # None
        PROVE  run.at \in Int /\ run.at \in Start..now'
    BY <1>3, <2>1 DEF Inv, RunInv
  <2>2. ASSUME run # None
        PROVE  \A k : Checked(k) => Checked(k)'
    BY <1>2, <1>3, <2>1, <2>2, CheckedStays
  <2> QED  BY <1>2, <2>1, <2>2 DEF Inv, RunInv
<1>5. ToldInv'
  BY <1>2 DEF Inv, ToldInv, Recorded
<1>6. DeferredIsSilent'
  BY <1>2, SilenceStays
<1> QED  BY <1>1, <1>4, <1>5, <1>6 DEF Inv

LEMMA CollectStep ==
  ASSUME Inv, Collect
  PROVE  Inv'
<1> DEFINE K == {k \in Retryable : Expired(k, run.at)}
           rows == {k \in Retryable : InWindow(k, run.at)}
           iyuu == {k \in rows : Digest(k)}
           groups == {iyuu, rows \ iyuu} \ {{}}
<1>1. TypeInv /\ TypeInv'
  BY CollectKeepsTypeInv DEF Inv
<1>2. PICK order \in [1..Cardinality(groups) -> groups] :
        run' = [run EXCEPT !.planned = FALSE, !.groups = order, !.held = @ \cup Held]
  BY DEF Collect
<1>3. log' = Cancel(K) /\ run # None /\ UNCHANGED <<subs, now, told>>
  BY DEF Collect
<1>4. run \in Run
  BY <1>1, <1>3 DEF TypeInv, TypeOK
<1>5. run'.ready = run.ready /\ run'.answer = run.answer /\ run'.groups = order
      /\ run'.at = run.at /\ ~ run'.planned
  BY <1>2, <1>4 DEF Run
<1>6. run' # None
  BY CollectKeepsTypeInv, NoneIsNoRecord DEF Inv
<1>7. \A k : Is(k, "pending")' <=> Is(k, "pending") /\ k \notin K
  BY <1>1, <1>3, CancelEffect
<1>8. \A k : Is(k, "success") => Is(k, "success")'
  <2>1. \A k \in K : ~ Is(k, "success")
    BY DEF Retryable, Is
  <2> QED  BY <1>1, <1>3, <2>1, CancelEffect
<1>9. \A k : Checked(k) => Checked(k)'
  BY <1>3, <1>5, CheckedInRun
<1>10. \A g \in groups : \A k \in g : InWindow(k, run.at)
  OBVIOUS
<1>11. RunInv'
  <2>1. DOMAIN order = 1..Cardinality(groups) /\ \A n \in DOMAIN order : order[n] \in groups
    OBVIOUS
  <2>2. \A n \in DOMAIN order : \A k \in order[n] : InWindow(k, run.at)
    BY <1>10, <2>1
  <2>3. /\ run.ready = {} => run.answer = "none"
        /\ run.at \in Start..now
        /\ \A k \in run.ready : Is(k, "pending") /\ Checked(k) /\ InWindow(k, run.at)
    BY <1>3 DEF Inv, RunInv
  <2>4. \A k \in run.ready : k \notin K
    BY <2>3 DEF InWindow
  <2> HIDE DEF K, groups
  <2> QED  BY <1>3, <1>5, <1>7, <1>9, <2>2, <2>3, <2>4 DEF RunInv
<1>12. ToldInv'
  <2>1. \A k : Recorded(k) => Recorded(k)'
    BY <1>5, <1>6, <1>8 DEF Recorded
  <2> QED  BY <1>3, <2>1 DEF Inv, ToldInv
<1>13. DeferredIsSilent'
  BY <1>3, <1>7, SilenceStays
<1> QED  BY <1>1, <1>11, <1>12, <1>13 DEF Inv

LEMMA CheckStep ==
  ASSUME Inv, Check
  PROVE  Inv'
<1> DEFINE group == Head(run.groups)
<1>1. TypeInv /\ TypeInv' /\ run' \in Run /\ run' # None
  BY CheckKeepsTypeInv, NoneIsNoRecord DEF Inv
<1>2. /\ run \in Run /\ run.groups \in Seq(SUBSET Keys) /\ run.groups # <<>>
      /\ run # None /\ run.ready = {} /\ UNCHANGED <<subs, now, told>>
  BY <1>1 DEF Check, TypeInv, TypeOK, Run
<1>3. PICK K \in {{k} : k \in {x \in group : ~ Digest(x)}} \cup
                 ({{x \in group : Digest(x)}} \ {{}}) :
        /\ log' = Strike({q \in K : Is(q, "pending")})
        /\ run' = [run EXCEPT !.ready = {k \in {q \in K : Is(q, "pending")} : Owed(k)},
                     !.groups = IF K = group THEN Tail(@)
                                ELSE <<group \ K>> \o Tail(@)]
  BY DEF Check
<1> DEFINE open == {q \in K : Is(q, "pending")}
           rest == IF K = group THEN Tail(run.groups)
                   ELSE <<group \ K>> \o Tail(run.groups)
<1>4. /\ run'.ready = {k \in {q \in K : Is(q, "pending")} : Owed(k)}
      /\ run'.groups = rest /\ run'.answer = run.answer /\ run'.at = run.at
      /\ ~ run'.planned
  BY <1>2, <1>3 DEF Run, Inv, RunInv
<1>5. /\ \A k : Is(k, "pending")' <=> Is(k, "pending") /\ ~ (k \in open /\ ~ Owed(k))
      /\ \A k : Is(k, "success") => Is(k, "success")'
  <2>1. \A k \in open : Is(k, "pending")
    OBVIOUS
  <2>2. log' = Strike(open)
    BY <1>3
  <2> HIDE DEF open
  <2> QED  BY <1>1, <2>1, <2>2, StrikeEffect
<1>6. \A k : Owed(k) => Checked(k)'
  <2>1. now \in run.at..now
    <3>1. run.at \in Start..now /\ now \in Start..End
      BY <1>1, <1>2, NextSlot DEF Inv, RunInv
    <3> QED  BY <3>1
  <2>2. \A k : Owed(k) => Current(k, now)'
    BY <1>2 DEF Owed, Current, Unpaid
  <2> QED  BY <1>2, <1>4, <2>1, <2>2 DEF Checked, RunTime
<1>7. /\ run.answer = "none" /\ run.at \in Start..now
      /\ \A n \in DOMAIN run.groups : \A k \in run.groups[n] : InWindow(k, run.at)
  BY <1>2 DEF Inv, RunInv
<1>8. K \subseteq group
  OBVIOUS
<1>9. \A k \in group : InWindow(k, run.at)
  <2>1. group = run.groups[1] /\ 1 \in DOMAIN run.groups
    BY <1>2
  <2> QED  BY <1>7, <2>1
<1>10. \A n \in DOMAIN rest : \A k \in rest[n] : InWindow(k, run.at)
  <2> DEFINE tail == Tail(run.groups)
  <2>1. /\ tail \in Seq(SUBSET Keys) /\ Len(tail) = Len(run.groups) - 1
        /\ \A n \in 1..Len(tail) : tail[n] = run.groups[n + 1]
    BY <1>2
  <2>2. Len(run.groups) \in Nat \ {0}
    BY <1>2
  <2>3. \A n \in 1..Len(tail) : n + 1 \in DOMAIN run.groups
    BY <1>2, <2>1, <2>2
  <2>4. \A n \in 1..Len(tail) : \A k \in tail[n] : InWindow(k, run.at)
    BY <1>7, <2>1, <2>3
  <2>5. CASE K = group
    BY <2>1, <2>4, <2>5
  <2>6. CASE K # group
    <3> DEFINE whole == <<group \ K>> \o tail
    <3>1. group \ K \in SUBSET Keys
      BY <1>2
    <3> HIDE DEF tail, group
    <3>2. /\ DOMAIN whole = 1..(Len(tail) + 1) /\ whole[1] = group \ K
          /\ \A n \in 2..(Len(tail) + 1) : whole[n] = tail[n - 1]
      <4>1. tail \in Seq(SUBSET Keys)
        BY <2>1
      <4> QED  BY <3>1, <4>1, Consed
    <3>3. \A n \in 2..(Len(tail) + 1) : n - 1 \in 1..Len(tail)
      <4>1. Len(tail) \in Nat
        BY <2>1
      <4> QED  BY <4>1
    <3>4. \A n \in 1..(Len(tail) + 1) : n = 1 \/ n \in 2..(Len(tail) + 1)
      BY <2>1
    <3>5. \A n \in DOMAIN whole : \A k \in whole[n] : InWindow(k, run.at)
      BY <1>9, <2>4, <3>2, <3>3, <3>4
    <3> QED  BY <2>6, <3>5 DEF tail, group
  <2> QED  BY <2>5, <2>6
<1>11. RunInv'
  <2> HIDE DEF rest, group
  <2> QED  BY <1>2, <1>4, <1>5, <1>6, <1>7, <1>8, <1>9, <1>10 DEF RunInv
<1>12. ToldInv'
  <2>1. \A k : Recorded(k) => Recorded(k)'
    BY <1>2, <1>5 DEF Recorded
  <2> QED  BY <1>2, <2>1 DEF Inv, ToldInv
<1>13. DeferredIsSilent'
  BY <1>2, <1>5, SilenceStays
<1> QED  BY <1>1, <1>11, <1>12, <1>13 DEF Inv

(* The channel answers. *)
LEMMA AnswerStep ==
  ASSUME Inv, Confirm \/ Fail
  PROVE  Inv'
<1>1. PICK answer \in {"ok", "error"} :
        /\ run' = [run EXCEPT !.answer = answer]
        /\ told' = IF answer = "ok" THEN told \cup run.ready ELSE told
  BY DEF Confirm, Fail
<1>2. /\ UNCHANGED <<subs, log, now, events>>
      /\ run # None /\ run.ready # {} /\ run.answer = "none"
  BY DEF Confirm, Fail
<1>3. TypeInv /\ run \in Run
  BY <1>2 DEF Inv, TypeInv, TypeOK
<1>4. run' \in Run /\ run' # None
  BY <1>1, <1>3, NoneIsNoRecord DEF Run
<1>5. run'.ready = run.ready /\ run'.groups = run.groups /\ run'.answer = answer
      /\ run'.at = run.at /\ run'.planned = run.planned
  BY <1>1, <1>3 DEF Run
<1>6. TypeInv'
  <2>1. told' \in SUBSET Keys
    BY <1>1, <1>3 DEF TypeInv, TypeOK, Run
  <2> QED  BY <1>2, <1>3, <1>4, <2>1, SameLogIsOK, RunStepKeepsTypeInv
<1>7. /\ \A k, x : Is(k, x)' <=> Is(k, x)
      /\ \A k : Checked(k) => Checked(k)'
  BY <1>2, <1>5, CheckedInRun DEF Is, Rows
<1>8. RunInv'
  BY <1>2, <1>5, <1>7 DEF Inv, RunInv
<1>9. ToldInv'
  <2>1. \A k : Recorded(k) => Recorded(k)'
    BY <1>2, <1>7 DEF Recorded
  <2>2. answer = "ok" => \A k \in run.ready : Recorded(k)'
    BY <1>4, <1>5 DEF Recorded
  <2> QED  BY <1>1, <1>2, <2>1, <2>2 DEF Inv, ToldInv
<1>10. DeferredIsSilent'
  BY <1>2, <1>7 DEF Inv, DeferredIsSilent, PendingOf, Rows
<1> QED  BY <1>6, <1>8, <1>9, <1>10 DEF Inv

(* What a step of Finish does to the row of k, and that it does nothing else. *)
LEMMA FinishStep ==
  ASSUME Inv, run # None, NEW k \in run.ready, Finish(k)
  PROVE  Inv'
<1>1. TypeInv /\ TypeInv' /\ run' \in Run /\ run' # None
  BY FinishKeepsTypeInv, NoneIsNoRecord DEF Inv
<1>2. /\ run \in Run /\ Is(k, "pending") /\ UNCHANGED <<subs, now, told>>
      /\ run.answer # "none"
  BY <1>1 DEF Inv, RunInv, TypeInv, TypeOK, Finish
<1>3. /\ run'.ready = run.ready \ {k} /\ run'.groups = run.groups /\ run'.at = run.at
      /\ run'.planned = run.planned
      /\ run'.answer = IF run.ready \ {k} = {} THEN "none" ELSE run.answer
  BY <1>2 DEF Finish, Run
<1>4. /\ Rows' = Rows
      /\ \A q \in Rows \ {k} : log'[q] = log[q]
      /\ run.answer = "ok" => log'[k].status = "success"
  <2>1. CASE run.answer = "ok"
    <3>1. log' = [log EXCEPT ![k] = Over("success")]
      BY <1>2, <2>1 DEF Finish
    <3> QED  BY <1>2, <3>1 DEF Rows, Is, Over
  <2>2. CASE run.answer # "ok" /\ log[k].attempt + 1 > Len(BackOff)
    <3>1. log' = [log EXCEPT ![k] = Over("failed")]
      BY <1>2, <2>2 DEF Finish
    <3> QED  BY <2>2, <3>1 DEF Rows
  <2>3. CASE run.answer # "ok" /\ ~ (log[k].attempt + 1 > Len(BackOff))
    <3>1. PICK missed \in {0, 1} :
            log' = [log EXCEPT ![k].attempt = log[k].attempt + 1,
                      ![k].left = BackOff[log[k].attempt + 1] + missed]
      BY <1>2, <2>3 DEF Finish
    <3> QED  BY <2>3, <3>1 DEF Rows
  <2> QED  BY <2>1, <2>2, <2>3
<1>5. \A q, x : q # k => (Is(q, x)' <=> Is(q, x))
  BY <1>4 DEF Is
<1>6. \A q : Checked(q) => Checked(q)'
  BY <1>2, <1>3, CheckedInRun
<1>7. RunInv'
  BY <1>2, <1>3, <1>5, <1>6 DEF Inv, RunInv
<1>8. ToldInv'
  <2>1. run.answer = "ok" => Is(k, "success")'
    BY <1>2, <1>4 DEF Is
  <2>2. ~ Is(k, "success")
    BY <1>2 DEF Is
  <2>3. ASSUME NEW q, Recorded(q)
        PROVE  Recorded(q)'
    <3>1. CASE Is(q, "success")
      <4>1. Is(q, "success")'
        BY <1>5, <2>2, <3>1
      <4> QED  BY <4>1 DEF Recorded
    <3>2. CASE q = k /\ run.answer = "ok"
      BY <2>1, <3>2 DEF Recorded
    <3>3. CASE q # k /\ q \in run.ready /\ run.answer = "ok"
      BY <1>1, <1>3, <3>3 DEF Recorded
    <3> QED  BY <2>3, <3>1, <3>2, <3>3 DEF Recorded
  <2> QED  BY <1>2, <2>3 DEF Inv, ToldInv
<1>9. DeferredIsSilent'
  <2>1. \A q : Is(q, "pending")' => Is(q, "pending")
    BY <1>2, <1>5
  <2>2. \A s \in Subs : PendingOf(s)' \subseteq PendingOf(s)
    BY <1>4, <2>1 DEF PendingOf
  <2> QED  BY <1>2, <2>2 DEF Inv, DeferredIsSilent
<1> QED  BY <1>1, <1>7, <1>8, <1>9 DEF Inv

(* The run is over, by itself or with the server. *)
LEMMA EndStep ==
  ASSUME Inv, EndRun \/ Crash
  PROVE  Inv'
<1>1. TypeInv /\ TypeInv'
  <2>1. CASE EndRun
    BY <2>1, SameLogIsOK, RunStepKeepsTypeInv DEF EndRun, Inv, TypeInv, TypeOK
  <2>2. CASE Crash
    BY <2>2, CrashKeepsTypeInv DEF Inv
  <2> QED  BY <2>1, <2>2 DEF Inv
<1>2. run # None /\ run' = None /\ UNCHANGED <<subs, log>> /\ told' = told \ run.ready
  BY DEF EndRun, Crash
<1>3. RunInv'
  BY <1>2 DEF RunInv
<1>4. \A k, x : Is(k, x)' <=> Is(k, x)
  BY <1>2 DEF Is, Rows
<1>5. ToldInv'
  BY <1>2, <1>4 DEF Inv, ToldInv, Recorded
<1>6. DeferredIsSilent'
  BY <1>2, <1>4, SilenceStays
<1> QED  BY <1>1, <1>3, <1>5, <1>6 DEF Inv

-----------------------------------------------------------------------------
LEMMA InitInv == Init => Inv
<1> SUFFICES ASSUME Init PROVE Inv
  OBVIOUS
<1>1. log = <<>>
  BY DEF Init
<1>2. Rows = {}
  BY <1>1 DEF Rows
<1>3. DeferredIsSilent
  BY <1>2 DEF DeferredIsSilent, PendingOf
<1> QED  BY <1>3, InitTypeInv DEF Init, Inv, RunInv, ToldInv

LEMMA StepKeepsInv == Inv /\ [Next]_vars => Inv'
<1> SUFFICES ASSUME Inv, [Next]_vars PROVE Inv'
  OBVIOUS
<1>1. CASE UNCHANGED vars
  <2>1. UNCHANGED <<subs, log, now, run, told, events>>
    BY <1>1 DEF vars
  <2>2. TypeInv'
    BY <2>1 DEF Inv, TypeInv, TypeOK, DuesAreShifted, LastIsUnpaid, Shifted, Rows
  <2>3. /\ \A k, x : Is(k, x)' <=> Is(k, x)
        /\ \A k : Checked(k)' <=> Checked(k)
    BY <2>1 DEF Is, Rows, Checked, RunTime, Current, Unpaid
  <2>4. RunInv'
    BY <2>1, <2>3 DEF Inv, RunInv
  <2>5. ToldInv'
    BY <2>1, <2>3 DEF Inv, ToldInv, Recorded
  <2>6. DeferredIsSilent'
    BY <2>1, <2>3 DEF Inv, DeferredIsSilent, PendingOf, Rows
  <2> QED  BY <2>2, <2>4, <2>5, <2>6 DEF Inv
<1>2. ASSUME NEW s \in Subs, Operate(s)
      PROVE  Inv'
  BY <1>2, MutexSteps, StatusStep DEF Operate
<1>3. CASE Process
  BY <1>3, AnswerStep, EndStep, CheckStep, CollectStep, BeginRunStep, FinishStep
     DEF Process
<1>4. CASE Tick \/ Crash
  BY <1>4, TickStep, EndStep
<1>5. Touched \subseteq Subs
  OBVIOUS
<1> QED  BY <1>1, <1>2, <1>3, <1>4, <1>5 DEF Next

LEMMA InvHolds == Spec => []Inv
BY InitInv, StepKeepsInv, PTL DEF Spec

(* The fields keep their types: in particular there is always a first unpaid  *)
(* period, and no attempt is counted beyond the last.                         *)
THEOREM RemindersTypeCorrect == Spec => []TypeOK
<1>1. Inv => TypeOK
  BY DEF Inv, TypeInv
<1> QED  BY <1>1, InvHolds, PTL

(* What is being sent was current at a moment of this run, for the customer as *)
(* he is now: no payment, deferral, extension or price slips in between the    *)
(* check of a reminder and the answer to it, whatever time passes.            *)
THEOREM SendingIsOwed == Spec => []ReadyIsOwed
<1>1. Inv => ReadyIsOwed
  BY DEF Inv, RunInv, ReadyIsOwed, Checked
<1> QED  BY <1>1, InvHolds, PTL

(* While a renewal is deferred, no reminder of it waits to be sent. *)
THEOREM DeferralSilences == Spec => []DeferredIsSilent
<1>1. Inv => DeferredIsSilent
  BY DEF Inv
<1> QED  BY <1>1, InvHolds, PTL

(* A reminder that its channel confirmed is not sent again, unless the server *)
(* died before it wrote that result.                                          *)
THEOREM NoSecondReminder == Spec => ConfirmedOnce
<1>1. Inv /\ [Next]_vars => [Confirm => told \cap run.ready = {}]_vars
  <2> SUFFICES ASSUME Inv, NEW k \in told, Confirm, k \in run.ready
               PROVE  FALSE
    OBVIOUS
  <2>1. run # None /\ run.answer = "none"
    BY DEF Confirm
  <2>2. Is(k, "success")
    BY <2>1 DEF Inv, ToldInv, Recorded
  <2>3. Is(k, "pending")
    BY <2>1 DEF Inv, RunInv
  <2> QED  BY <2>2, <2>3 DEF Is
<1> QED  BY <1>1, InvHolds, PTL DEF Spec, ConfirmedOnce

-----------------------------------------------------------------------------
(* Nothing that is owed is left out *)

(* A row that was never tried, or that is over, waits for nothing. *)
FreshRow(row) == row.attempt = 0 \/ row.status # "pending" => row.left = 0
FreshRows == \A k \in Rows : FreshRow(log[k])

InGroups(groups, k) == \E n \in DOMAIN groups : k \in groups[n]
(* What is still to come of the run: it will collect k, or it holds it. *)
Pursued(k) == \/ run.planned /\ k \notin run.waiting
              \/ k \in run.ready
              \/ InGroups(run.groups, k)
Awaited(k) == Is(k, "pending") /\ Pursued(k)
Served(k) == Tried(k) \/ Awaited(k)
Wanted(k) == ~ Gone(k) /\ \A t \in RunTime : Current(k, t)
OwedInv ==
  run # None =>
    \A s \in Subs \ run.held : \A k \in Schedule(s, subs[s], run.at) :
      Wanted(k) => Served(k)

(* Whatever the answer was, its row counts the attempt. *)
LEMMA FinishIsTry ==
  ASSUME Inv, run # None, NEW k \in run.ready, Finish(k)
  PROVE  /\ Tried(k)' /\ Rows' = Rows /\ \A q \in Rows \ {k} : log'[q] = log[q]
         /\ FreshRow(log'[k])
<1>1. k \in Rows /\ log[k] \in Row /\ log[k].attempt \in Nat /\ run.answer # "none"
      /\ Is(k, "pending")
  <2>1. Len(BackOff) \in Nat
    OBVIOUS
  <2>2. Is(k, "pending") /\ run.answer # "none"
    BY DEF Inv, RunInv, Finish
  <2> QED  BY <2>1, <2>2 DEF Is, Row, Inv, TypeInv, TypeOK
<1>2. Rows' = Rows /\ \A q \in Rows \ {k} : log'[q] = log[q]
  BY <1>1 DEF Finish, Rows
<1>3. CASE run.answer = "ok" \/ log[k].attempt + 1 > Len(BackOff)
  <2>1. log'[k] \in {Over("success"), Over("failed")}
    BY <1>1, <1>3 DEF Finish, Rows
  <2> QED  BY <1>1, <1>2, <2>1 DEF Tried, Is, Over, FreshRow
<1>4. CASE ~ (run.answer = "ok" \/ log[k].attempt + 1 > Len(BackOff))
  <2>1. PICK missed \in {0, 1} :
          log' = [log EXCEPT ![k].attempt = log[k].attempt + 1,
                             ![k].left = BackOff[log[k].attempt + 1] + missed]
    BY <1>1, <1>4 DEF Finish
  <2>2. log'[k].attempt = log[k].attempt + 1 /\ log'[k].status = "pending"
    BY <1>1, <2>1 DEF Rows, Row, Is
  <2> QED  BY <1>1, <1>2, <2>2 DEF Tried, FreshRow
<1> QED  BY <1>2, <1>3, <1>4

LEMMA FreshStep ==
  ASSUME Inv, FreshRows, [Next]_vars
  PROVE  FreshRows'
<1>1. ASSUME UNCHANGED log
      PROVE  FreshRows'
  BY <1>1 DEF FreshRows, Rows
<1>2. \A status : FreshRow(Over(status))
  BY DEF Over, FreshRow
<1>3. ASSUME NEW K, log' = Cancel(K)
      PROVE  FreshRows'
  BY <1>2, <1>3 DEF FreshRows, Cancel, Rows
<1>4. \A k \in Rows : log[k] \in Row
  BY DEF Inv, TypeInv, TypeOK
<1>5. ASSUME BeginRun
      PROVE  FreshRows'
  <2>1. PICK planned \in SUBSET Keys :
          /\ Rows' = Rows \cup planned
          /\ \A k \in planned : log'[k] = Upsert(k)
          /\ \A k \in Rows \ planned : log'[k] = log[k]
    BY <1>5, PlannedLog DEF Inv
  <2>2. \A k \in Rows' : FreshRow(log'[k])
    BY <1>2, <2>1 DEF FreshRows, Upsert, Fresh
  <2> QED  BY <2>2 DEF FreshRows
<1>6. ASSUME Tick
      PROVE  FreshRows'
  <2>1. Rows' = Rows /\ \A k \in Rows : log'[k] = Older(log[k])
    BY <1>6, TickedRows DEF Inv
  <2>2. \A row \in Row : FreshRow(row) => FreshRow(Older(row))
    BY DEF Older, Row, FreshRow
  <2> QED  BY <1>4, <2>1, <2>2 DEF FreshRows
<1>7. ASSUME run # None, NEW k \in run.ready, Finish(k)
      PROVE  FreshRows'
  <2>1. FreshRow(log'[k]) /\ Rows' = Rows /\ \A q \in Rows \ {k} : log'[q] = log[q]
    BY <1>7, FinishIsTry
  <2> QED  BY <2>1 DEF FreshRows
<1>8. ASSUME NEW s \in Subs, Operate(s)
      PROVE  FreshRows'
  <2>1. CASE UNCHANGED log
    BY <1>1, <2>1
  <2>2. CASE Defer(s) \/ CompleteDeferred(s)
    BY <1>3, <2>2 DEF Defer, CompleteDeferred
  <2>3. ASSUME NEW days, Extend(s, days)
        PROVE  FreshRows'
    BY <1>3, <2>3 DEF Extend
  <2>4. ASSUME NEW days, Revise(s, days)
        PROVE  FreshRows'
    BY <1>3, <2>4 DEF Revise
  <2> QED  BY <1>8, <2>1, <2>2, <2>3, <2>4
           DEF Operate, Pay, DeleteBill, RestoreRenewal, SetNextPrice, ClearNextPrice,
               OpenCase, Archive, CloseCase
<1>9. ASSUME Collect
      PROVE  FreshRows'
  BY <1>3, <1>9 DEF Collect
<1>10. ASSUME Check
       PROVE  FreshRows'
  <2>1. PICK K : log' = Strike(K)
    BY <1>10 DEF Check
  <2> QED  BY <1>2, <2>1 DEF FreshRows, Strike, Rows
<1>11. Touched \subseteq Subs
  OBVIOUS
<1> QED  BY <1>1, <1>5, <1>6, <1>7, <1>8, <1>9, <1>10, <1>11
         DEF Next, Process, vars, Fail, Confirm, EndRun, Crash

LEMMA ScheduleIgnoresStatus ==
  ASSUME NEW s, NEW c, NEW d, NEW t, d.due = c.due, d.paid = c.paid, d.price = c.price
  PROVE  Schedule(s, d, t) = Schedule(s, c, t)
<1>1. Passed(d, t) = Passed(c, t) /\ Periods(d) = Periods(c)
  BY DEF Passed, Periods
<1>2. NextDue(d, t) = NextDue(c, t) /\ LastDue(d, t) = LastDue(c, t)
  BY <1>1 DEF NextDue, LastDue
<1> QED  BY <1>2 DEF Schedule

(* A step of a run may hold more customers, and serves what is owed further.   *)
LEMMA RunGoesOn ==
  ASSUME Inv, OwedInv, run # None, UNCHANGED <<subs, now>>, run'.at = run.at,
         run.held \subseteq run'.held,
         \A s \in Subs \ run'.held : \A k \in Schedule(s, subs[s], run.at) :
           Wanted(k) /\ Served(k) => Served(k)'
  PROVE  OwedInv'
<1>1. \A k : Wanted(k)' <=> Wanted(k)
  BY DEF Wanted, Gone, RunTime, Current, Unpaid
<1> QED  BY <1>1 DEF OwedInv

(* The slot in which the run read the clock is one of the model's. *)
LEMMA RunBegan ==
  ASSUME Inv, run # None
  PROVE  run.at \in Start..End /\ run \in Run /\ now \in RunTime
<1>1. run.at \in Start..now /\ now \in Start..End /\ run \in Run
  BY DEF Inv, RunInv, TypeInv, TypeOK
<1> QED  BY <1>1 DEF RunTime

LEMMA OwedCollect ==
  ASSUME Inv, OwedInv, Collect
  PROVE  OwedInv'
<1> DEFINE K == {k \in Retryable : Expired(k, run.at)}
           rows == {k \in Retryable : InWindow(k, run.at)}
           iyuu == {k \in rows : Digest(k)}
           groups == {iyuu, rows \ iyuu} \ {{}}
<1>1. PICK order \in [1..Cardinality(groups) -> groups] :
        /\ \A g \in groups : \E n \in DOMAIN order : order[n] = g
        /\ run' = [run EXCEPT !.planned = FALSE, !.groups = order, !.held = @ \cup Held]
  BY DEF Collect
<1>2. log' = Cancel(K) /\ run # None /\ run.planned /\ UNCHANGED <<subs, now>>
  BY DEF Collect
<1>3. TypeInv /\ run \in Run /\ run.at \in Start..End
  BY <1>2, RunBegan DEF Inv
<1>4. run'.ready = run.ready /\ run'.groups = order /\ run'.held = run.held \cup Held
      /\ run'.at = run.at
  BY <1>1, <1>3 DEF Run
<1>5. ASSUME NEW s \in Subs \ run'.held, NEW k \in Schedule(s, subs[s], run.at), Served(k)
      PROVE  Served(k)'
  <2>1. k \in Keys /\ k.sub = s /\ InWindow(k, run.at)
    BY <1>3, <1>5, ScheduledKeys DEF InWindow, Expired
  <2>2. subs[s].status = "active"
    BY <1>4, <1>5 DEF Held
  <2>3. Rows' = Rows /\ (k \in Rows => log'[k] = log[k])
    BY <1>2, <2>1 DEF Cancel, Rows, InWindow
  <2>4. CASE Tried(k)
    BY <2>3, <2>4 DEF Served, Tried, Is
  <2>5. CASE Awaited(k) /\ k \in run.ready
    BY <1>4, <2>3, <2>5 DEF Served, Awaited, Pursued, Is
  <2>6. CASE Awaited(k) /\ k \notin run.ready
    <3>1. k \notin run.waiting
      BY <1>2, <2>6 DEF Awaited, Pursued, InGroups, Inv, RunInv
    <3>2. k \in rows
      BY <2>1, <2>2, <2>6, <3>1 DEF Retryable, Awaited, Is
    <3>3. PICK g \in groups : k \in g
      BY <3>2
    <3>4. InGroups(order, k)
      BY <1>1, <3>3 DEF InGroups
    <3> QED  BY <1>4, <2>3, <2>6, <3>4 DEF Served, Awaited, Pursued, Is
  <2> QED  BY <1>5, <2>4, <2>5, <2>6 DEF Served
<1> QED  BY <1>2, <1>4, <1>5, RunGoesOn

LEMMA OwedCheck ==
  ASSUME Inv, OwedInv, Check
  PROVE  OwedInv'
<1> DEFINE group == Head(run.groups)
           tail == Tail(run.groups)
<1>1. /\ run \in Run /\ run.groups \in Seq(SUBSET Keys) /\ run.groups # <<>>
      /\ run # None /\ run.ready = {} /\ UNCHANGED <<subs, now>>
  BY DEF Check, Inv, TypeInv, TypeOK, Run
<1>2. PICK K \in {{k} : k \in {x \in group : ~ Digest(x)}} \cup
                 ({{x \in group : Digest(x)}} \ {{}}) :
        /\ log' = Strike({q \in K : Is(q, "pending")})
        /\ run' = [run EXCEPT !.ready = {k \in {q \in K : Is(q, "pending")} : Owed(k)},
                     !.groups = IF K = group THEN Tail(@)
                                ELSE <<group \ K>> \o Tail(@)]
  BY DEF Check
<1>3. /\ run'.ready = {k \in {q \in K : Is(q, "pending")} : Owed(k)}
      /\ run'.groups = IF K = group THEN tail ELSE <<group \ K>> \o tail
      /\ run'.held = run.held /\ run'.at = run.at /\ ~ run.planned
  BY <1>1, <1>2 DEF Run, Inv, RunInv
<1>4. group \in SUBSET Keys /\ tail \in Seq(SUBSET Keys)
  BY <1>1
<1>5. \A k : InGroups(run.groups, k) => k \in group \/ InGroups(tail, k)
  <2>1. Len(run.groups) \in Nat \ {0} /\ DOMAIN run.groups = 1..Len(run.groups)
        /\ group = run.groups[1]
    BY <1>1
  <2>2. DOMAIN tail = 1..(Len(run.groups) - 1)
        /\ \A n \in DOMAIN tail : tail[n] = run.groups[n + 1]
    BY <1>1
  <2> HIDE DEF group, tail
  <2>3. ASSUME NEW k, NEW n \in DOMAIN run.groups, k \in run.groups[n], k \notin group
        PROVE  InGroups(tail, k)
    <3>1. n - 1 \in DOMAIN tail
      <4>1. n \in 1..Len(run.groups) /\ n # 1
        BY <2>1, <2>3
      <4>2. n - 1 \in 1..(Len(run.groups) - 1)
        BY <2>1, <4>1
      <4> QED  BY <2>2, <4>2
    <3>2. tail[n - 1] = run.groups[n]
      <4>1. tail[n - 1] = run.groups[(n - 1) + 1]
        BY <2>2, <3>1
      <4>2. (n - 1) + 1 = n
        BY <2>1
      <4> QED  BY <4>1, <4>2
    <3> QED  BY <2>3, <3>1, <3>2 DEF InGroups
  <2> QED  BY <2>3 DEF InGroups
<1> HIDE DEF group, tail
<1>6. \A k : k \in group \ K \/ InGroups(tail, k) => InGroups(<<group \ K>> \o tail, k)
  <2> DEFINE whole == <<group \ K>> \o tail
  <2>1. group \ K \in SUBSET Keys
    BY <1>4
  <2>2. /\ DOMAIN whole = 1..(Len(tail) + 1) /\ whole[1] = group \ K
        /\ \A n \in 2..(Len(tail) + 1) : whole[n] = tail[n - 1]
    BY <1>4, <2>1, Consed
  <2>3. DOMAIN tail = 1..Len(tail) /\ Len(tail) \in Nat
    BY <1>4
  <2> HIDE DEF whole
  <2>4. ASSUME NEW k \in group \ K
        PROVE  InGroups(whole, k)
    <3>1. 1 \in DOMAIN whole
      BY <2>2, <2>3
    <3> QED  BY <2>2, <2>4, <3>1 DEF InGroups
  <2>5. ASSUME NEW k, NEW n \in DOMAIN tail, k \in tail[n]
        PROVE  InGroups(whole, k)
    <3>1. n + 1 \in 2..(Len(tail) + 1) /\ n + 1 \in DOMAIN whole /\ (n + 1) - 1 = n
      BY <2>2, <2>3
    <3>2. whole[n + 1] = tail[n]
      BY <2>2, <3>1
    <3> QED  BY <2>5, <3>1, <3>2 DEF InGroups
  <2> QED  BY <2>4, <2>5 DEF InGroups, whole
<1>7. ASSUME NEW k, Wanted(k), Served(k)
      PROVE  Served(k)'
  <2> DEFINE open == {q \in K : Is(q, "pending")}
  <2>0. Owed(k)
    BY <1>1, <1>7, RunBegan DEF Owed, Wanted
  <2>1. Rows' = Rows /\ (k \in Rows => log'[k] = log[k])
    <3>1. \A q \in open : Is(q, "pending")
      OBVIOUS
    <3>2. log' = Strike(open)
      BY <1>2
    <3> HIDE DEF open
    <3> QED  BY <2>0, <3>1, <3>2, StrikeEffect DEF Inv
  <2>2. CASE Tried(k)
    BY <2>1, <2>2 DEF Served, Tried, Is
  <2>3. CASE Awaited(k)
    <3>1. Is(k, "pending") /\ InGroups(run.groups, k)
      BY <1>1, <1>3, <2>3 DEF Awaited, Pursued
    <3>2. Pursued(k)'
      <4>2. CASE k \in K
        BY <1>3, <2>0, <3>1, <4>2 DEF Pursued
      <4>3. CASE InGroups(run.groups, k) /\ k \notin K
        BY <1>3, <1>5, <1>6, <4>3 DEF Pursued
      <4> QED  BY <3>1, <4>2, <4>3
    <3> QED  BY <2>1, <2>3, <3>2 DEF Served, Awaited, Is
  <2> QED  BY <1>7, <2>2, <2>3 DEF Served
<1> QED  BY <1>1, <1>3, <1>7, RunGoesOn

LEMMA OwedAnswer ==
  ASSUME Inv, OwedInv, Confirm \/ Fail
  PROVE  OwedInv'
<1>1. /\ UNCHANGED <<subs, log, now>> /\ run # None
      /\ \E answer \in {"ok", "error"} : run' = [run EXCEPT !.answer = answer]
  BY DEF Confirm, Fail
<1>2. run'.ready = run.ready /\ run'.groups = run.groups /\ run'.planned = run.planned
      /\ run'.held = run.held /\ run'.at = run.at /\ run'.waiting = run.waiting
  BY <1>1 DEF Inv, TypeInv, TypeOK, Run
<1>3. \A k : Served(k) => Served(k)'
  BY <1>1, <1>2 DEF Served, Tried, Awaited, Pursued, Is, Rows
<1> QED  BY <1>1, <1>2, <1>3, RunGoesOn

LEMMA OwedFinish ==
  ASSUME Inv, OwedInv, run # None, NEW k \in run.ready, Finish(k)
  PROVE  OwedInv'
<1>1. UNCHANGED <<subs, now>> /\ run'.ready = run.ready \ {k} /\ run'.groups = run.groups
      /\ run'.planned = run.planned /\ run'.held = run.held /\ run'.at = run.at
      /\ run'.waiting = run.waiting
  BY DEF Finish, Inv, TypeInv, TypeOK, Run
<1>2. Tried(k)' /\ Rows' = Rows /\ \A q \in Rows \ {k} : log'[q] = log[q]
  BY FinishIsTry
<1>3. ASSUME NEW q, Served(q)
      PROVE  Served(q)'
  <2>1. CASE q = k
    BY <1>2, <2>1 DEF Served
  <2>2. CASE q # k
    <3>1. q \in Rows /\ log'[q] = log[q]
      BY <1>2, <1>3, <2>2 DEF Served, Tried, Awaited, Is
    <3>2. Pursued(q) => Pursued(q)'
      BY <1>1, <2>2 DEF Pursued
    <3> QED  BY <1>2, <1>3, <3>1, <3>2 DEF Served, Tried, Awaited, Is
  <2> QED  BY <2>1, <2>2
<1> QED  BY <1>1, <1>3, RunGoesOn

(* A run that begins plans all that is owed, also what was cancelled before.   *)
LEMMA OwedBegin ==
  ASSUME Inv, FreshRows, BeginRun
  PROVE  OwedInv'
<1>1. now \in Start..End /\ TypeInv
  BY NextSlot DEF Inv
<1>2. PICK planned \in SUBSET Keys :
        /\ planned = UNION {Planned(s, now) : s \in Subs}
        /\ Rows' = Rows \cup planned
        /\ \A k \in planned : log'[k] = Upsert(k)
  BY <1>1, PlannedLog
<1>3. /\ run' = [NewRun EXCEPT !.held = Held] /\ run' \in Run /\ UNCHANGED <<subs, now>>
  BY <1>1, NewRunType DEF BeginRun
<1>4. /\ run'.planned /\ run'.held = Held /\ run'.at = now
      /\ run'.waiting = {k \in Rows : log[k].left > 0}
  BY <1>3 DEF NewRun, Rows
<1>5. ASSUME NEW s \in Subs \ Held, NEW k \in Schedule(s, subs[s], now), Wanted(k)'
      PROVE  Served(k)'
  <2>1. k \in Keys /\ k.sub = s
    BY <1>1, <1>5, ScheduledKeys
  <2>2. Current(k, now)'
    <3>1. now \in now..now
      BY <1>1
    <3> QED  BY <1>3, <1>4, <1>5, <3>1 DEF Wanted, RunTime
  <2>3. PlannedFor(subs[s])
    BY <1>3, <1>5, <2>1, <2>2 DEF Current, Matches, PlannedFor, Held
  <2>4. k \in planned
    BY <1>2, <1>5, <2>3 DEF Planned
  <2>5. k \in Rows' /\ log'[k] = Upsert(k)
    BY <1>2, <2>4
  <2>6. CASE k \notin Rows \/ Is(k, "canceled")
    <3>1. log'[k].status = "pending"
      BY <2>5, <2>6 DEF Upsert, Fresh, Over
    <3>2. ASSUME k \in Rows
          PROVE  log[k].left = 0
      BY <2>6, <3>2 DEF FreshRows, FreshRow, Is
    <3>3. k \notin run'.waiting
      BY <1>4, <3>2
    <3> QED  BY <1>4, <2>5, <3>1, <3>3 DEF Served, Awaited, Pursued, Is
  <2>7. CASE k \in Rows /\ ~ Is(k, "canceled")
    <3>1. log'[k] = log[k] /\ log[k] \in Row
      BY <1>1, <2>5, <2>7 DEF Upsert, TypeInv, TypeOK
    <3>2. log[k].attempt \in Nat
      <4>1. Len(BackOff) \in Nat
        OBVIOUS
      <4> QED  BY <3>1, <4>1 DEF Row
    <3>3. CASE log[k].status # "pending" \/ log[k].attempt > 0
      BY <2>5, <2>7, <3>1, <3>3 DEF Served, Tried, Is, Row
    <3>4. CASE log[k].status = "pending" /\ log[k].attempt = 0
      <4>1. log[k].left = 0
        BY <2>7, <3>4 DEF FreshRows, FreshRow
      <4>2. k \notin run'.waiting
        BY <1>4, <4>1
      <4> QED  BY <1>4, <2>5, <3>1, <3>4, <4>2 DEF Served, Awaited, Pursued, Is
    <3> QED  BY <3>2, <3>3, <3>4
  <2> QED  BY <2>6, <2>7
<1> QED  BY <1>3, <1>4, <1>5 DEF OwedInv

(* Time passes: what was owed all along until then is no less served. *)
LEMMA OwedTick ==
  ASSUME Inv, OwedInv, Tick
  PROVE  OwedInv'
<1>1. /\ UNCHANGED <<subs, run>> /\ Rows' = Rows /\ \A k, x : Is(k, x)' <=> Is(k, x)
      /\ \A k \in Rows : log'[k] = Older(log[k])
  BY TickedRows DEF Tick, Inv
<1>2. \A k \in Rows : log'[k].attempt = log[k].attempt
  <2>1. \A row \in Row : Older(row).attempt = row.attempt
    BY DEF Older, Row
  <2> QED  BY <1>1, <2>1 DEF Inv, TypeInv, TypeOK
<1>3. \A k : Served(k) => Served(k)'
  BY <1>1, <1>2 DEF Served, Tried, Awaited, Pursued
<1>4. ASSUME run # None, NEW k, Wanted(k)'
      PROVE  Wanted(k)
  <2>1. now \in Int /\ now' \in Int /\ now' >= now
    BY NextSlot DEF Tick, Inv
  <2>2. run.at \in Int
    BY <1>4, RunBegan
  <2>3. \A t \in RunTime : t \in RunTime'
    BY <1>1, <2>1, <2>2 DEF RunTime
  <2>4. \A t : Current(k, t)' <=> Current(k, t)
    BY <1>1 DEF Current, Unpaid
  <2> QED  BY <1>1, <1>4, <2>3, <2>4 DEF Wanted, Gone
<1> QED  BY <1>1, <1>3, <1>4 DEF OwedInv

(* Cases open and close during a run, but do not decide what is owed. *)
LEMMA OwedStatus ==
  ASSUME Inv, OwedInv, NEW s \in Subs, NEW status \in {"active", "case", "archived"},
         Change(s, [subs[s] EXCEPT !.status = status]), UNCHANGED log,
         subs[s].status # "archived"
  PROVE  OwedInv'
<1>1. UNCHANGED <<now, run, log>>
  BY DEF Change
<1>2. ASSUME NEW q \in Subs
      PROVE  /\ \A t : Schedule(q, subs'[q], t) = Schedule(q, subs[q], t)
             /\ subs'[q].status # "archived" => subs[q].status # "archived"
  <2>1. subs[s] \in Customer(s) /\ DOMAIN subs = Subs
    BY CustomerFields DEF Inv, TypeInv, TypeOK
  <2>2. /\ subs'[q].due = subs[q].due /\ subs'[q].paid = subs[q].paid
        /\ subs'[q].price = subs[q].price
        /\ q # s => subs'[q] = subs[q]
    BY <2>1 DEF Change, Customer
  <2>3. ASSUME NEW t
        PROVE  Schedule(q, subs'[q], t) = Schedule(q, subs[q], t)
    <3> DEFINE c == subs[q]
               d == subs'[q]
    <3>1. d.due = c.due /\ d.paid = c.paid /\ d.price = c.price
      BY <2>2
    <3> HIDE DEF c, d
    <3>2. Schedule(q, d, t) = Schedule(q, c, t)
      BY <3>1, ScheduleIgnoresStatus
    <3> QED  BY <3>2 DEF c, d
  <2>4. subs'[q].status # "archived" => subs[q].status # "archived"
    BY <2>2
  <2> QED  BY <2>3, <2>4
<1>3. ASSUME NEW k \in Keys, Wanted(k)'
      PROVE  Wanted(k)
  <2>1. \A t : Current(k, t)' <=> Current(k, t)
    BY CurrentIgnoresStatus DEF Inv
  <2>2. k.sub \in Subs
    BY DEF Keys
  <2> QED  BY <1>1, <1>2, <1>3, <2>1, <2>2 DEF Wanted, RunTime, Gone
<1>4. \A k : Served(k)' <=> Served(k)
  BY <1>1 DEF Served, Tried, Awaited, Pursued, Is, Rows
<1>5. run # None => \A q \in Subs : \A k \in Schedule(q, subs[q], run.at) : k \in Keys
  BY RunBegan, ScheduledKeys DEF Inv
<1> QED  BY <1>1, <1>2, <1>3, <1>4, <1>5 DEF OwedInv

LEMMA OwedStep ==
  ASSUME Inv, FreshRows, OwedInv, [Next]_vars
  PROVE  OwedInv'
<1>1. CASE UNCHANGED vars
  BY <1>1 DEF vars, OwedInv, Wanted, Gone, RunTime, Current, Unpaid, Served, Tried,
              Awaited, Pursued, Is, Rows
<1>2. ASSUME NEW s \in Subs, OpenCase(s) \/ Archive(s) \/
             (\E status \in {"active", "archived"} : CloseCase(s, status))
      PROVE  OwedInv'
  <2>1. /\ subs[s].status # "archived"
        /\ \E status \in {"active", "case", "archived"} :
             Change(s, [subs[s] EXCEPT !.status = status])
    BY <1>2 DEF OpenCase, CloseCase, Archive
  <2>2. UNCHANGED log
    BY <1>2 DEF OpenCase, CloseCase, Archive
  <2> QED  BY <2>1, <2>2, OwedStatus
<1>3. ASSUME NEW s \in Subs, Operate(s), run' = None
      PROVE  OwedInv'
  BY <1>3 DEF OwedInv
<1>4. ASSUME NEW s \in Subs, Operate(s)
      PROVE  OwedInv'
  <2>1. CASE OpenCase(s) \/ Archive(s) \/
             (\E status \in {"active", "archived"} : CloseCase(s, status))
    BY <1>2, <2>1
  <2>2. CASE ~ (OpenCase(s) \/ Archive(s) \/
                (\E status \in {"active", "archived"} : CloseCase(s, status)))
    <3>1. run' = None
      BY <1>4, <2>2 DEF Operate, Pay, DeleteBill, Defer, RestoreRenewal, CompleteDeferred,
                        Extend, Revise, SetNextPrice, ClearNextPrice, Change, MutexFree
    <3> QED  BY <1>3, <1>4, <3>1
  <2> QED  BY <2>1, <2>2
<1>5. ASSUME EndRun \/ Crash
      PROVE  OwedInv'
  BY <1>5 DEF EndRun, Crash, OwedInv
<1>6. Touched \subseteq Subs
  OBVIOUS
<1> QED  BY <1>1, <1>4, <1>5, <1>6, OwedAnswer, OwedCheck, OwedCollect, OwedBegin,
            OwedFinish, OwedTick DEF Next, Process

(* A run does not end before it has tried, now or earlier, every reminder that *)
(* it planned and that was owed all along, unless a case held the customer     *)
(* back: for any number of customers, channels and back-offs, and however long *)
(* the run took.                                                              *)
THEOREM OwedRemindersAreTried == Spec => OwedIsTried
<1>1. Init => FreshRows /\ OwedInv
  BY DEF Init, FreshRows, Rows, OwedInv
<1>2. Inv /\ FreshRows /\ OwedInv /\ [Next]_vars => FreshRows' /\ OwedInv'
  BY FreshStep, OwedStep
<1>3. Inv /\ OwedInv =>
        (EndRun => \A s \in Subs \ run.held : \A k \in Planned(s, run.at) :
                     ~ Gone(k) /\ (\A t \in RunTime : Current(k, t)) => Tried(k))
  <2> SUFFICES ASSUME Inv, OwedInv, EndRun, NEW s \in Subs \ run.held,
                      NEW k \in Planned(s, run.at), Wanted(k)
               PROVE  Tried(k)
    BY DEF Wanted
  <2>1. k \in Schedule(s, subs[s], run.at)
    BY DEF Planned
  <2>2. Served(k)
    BY <2>1 DEF OwedInv, EndRun
  <2>3. ~ Pursued(k)
    BY DEF EndRun, Pursued, InGroups
  <2> QED  BY <2>2, <2>3 DEF Served, Awaited
<1> QED  BY <1>1, <1>2, <1>3, InvHolds, PTL DEF Spec, OwedIsTried
=============================================================================
