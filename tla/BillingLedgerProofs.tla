------------------------ MODULE BillingLedgerProofs ------------------------
(* What holds of BillingLedger for all prices, calendars, tabs and cases,     *)
(* proved by induction over the steps.                                        *)
EXTENDS BillingLedger, WellFoundedInduction, FiniteSetTheorems, TLAPS

USE CentsAssumption, CalendarAssumption, RowsAssumption

(* The payment being served is for a period that has no bill yet: the mutex   *)
(* keeps every other writer of bills out until it is answered.                *)
PaysOpenPeriod == pay # None => pay.due \in Dues(schedule) \ Billed
(* The strengthening of the invariants that a step preserves. *)
LedgerInv ==
  TypeOK /\ BillsAreOnSchedule /\ PaysOpenPeriod /\ ReferencedBillIsImmutable

-----------------------------------------------------------------------------
(* The calendar *)

(* Every set of numbers that is not empty has a least one. *)
LEMMA Least ==
  ASSUME NEW S, S \subseteq Nat, S # {}
  PROVE  \E x \in S : \A y \in S : x <= y
<1>1. PICK x \in S : \A y \in S : ~ (<<y, x>> \in OpToRel(<, Nat))
  BY NatLessThanWellFounded, WFMin
<1>2. ASSUME NEW y \in S, y < x
      PROVE  <<y, x>> \in OpToRel(<, Nat)
  BY <1>2 DEF OpToRel
<1>3. \A y \in S : x <= y
  <2>1. \A y \in S : ~ (y < x)
    BY <1>1, <1>2
  <2>2. \A y \in S : x \in Nat /\ y \in Nat
    OBVIOUS
  <2> QED  BY <2>1, <2>2
<1> QED  BY <1>3

(* A set of days that is not empty has a first and a last. *)
LEMMA FirstDay ==
  ASSUME NEW S, S \subseteq Days, S # {}
  PROVE  Min(S) \in S /\ \A d \in S : Min(S) <= d
<1>1. S \subseteq Nat
  BY DEF Days
<1>2. \E x \in S : \A y \in S : x <= y
  BY <1>1, Least
<1> QED  BY <1>2 DEF Min

LEMMA LastDay ==
  ASSUME NEW S, S \subseteq Days, S # {}
  PROVE  Max(S) \in S /\ \A d \in S : Max(S) >= d
<1> DEFINE T == {Horizon - d : d \in S}
<1>1. Horizon \in Nat /\ \A d \in S : d \in 0..Horizon
  BY DEF Days
<1>2. T \subseteq Nat
  <2>1. \A d \in 0..Horizon : Horizon - d \in Nat
    BY <1>1
  <2> QED  BY <1>1, <2>1
<1>3. T # {}
  OBVIOUS
<1> HIDE DEF T
<1>4. PICK t \in T : \A u \in T : t <= u
  BY <1>2, <1>3, Least
<1>5. PICK x \in S : t = Horizon - x
  BY DEF T
<1>6. \A d \in S : x >= d
  <2>1. \A d \in S : Horizon - x <= Horizon - d
    BY <1>4, <1>5 DEF T
  <2> QED  BY <1>1, <2>1
<1> QED  BY <1>6 DEF Max

LEMMA DuesAreDays == \A sc : Dues(sc) \subseteq Days
BY DEF Dues
(* A schedule is due on its boarding day. *)
LEMMA StartIsDue ==
  ASSUME NEW sc \in Schedules
  PROVE  sc.start \in Dues(sc)
<1>1. sc.start \in 0..Horizon /\ sc.every \in Nat \ {0}
  BY DEF Schedules
<1>2. sc.start - sc.start = 0 /\ 0 % sc.every = 0
  BY <1>1
<1> QED  BY <1>1, <1>2 DEF Dues, Days
LEMMA CurrentPeriodIsDue ==
  ASSUME NEW sc \in Schedules
  PROVE  CurrentPeriod(sc) \in Dues(sc)
<1> DEFINE begun == {d \in Dues(sc) : d <= today}
<1>1. begun # {} => Max(begun) \in begun
  BY LastDay, DuesAreDays
<1> QED  BY <1>1, StartIsDue DEF CurrentPeriod

(* A promised refund is an amount. *)
LEMMA ProratedType ==
  ASSUME NEW paid \in Nat, NEW remaining \in Nat, NEW period \in Nat \ {0}
  PROVE  Prorated(paid, remaining, period) \in Nat
<1>1. paid \div period \in Nat /\ paid % period \in Nat /\ period \div 2 \in Nat
  OBVIOUS
<1>2. \A m, n \in Nat : m * n \in Nat /\ m + n \in Nat
  OBVIOUS
<1>3. ((paid % period) * remaining + period \div 2) \div period \in Nat
  <2>1. (paid % period) * remaining + period \div 2 \in Nat
    BY <1>1, <1>2
  <2>2. \A m \in Nat : m \div period \in Nat
    OBVIOUS
  <2> QED  BY <2>1, <2>2
<1>4. (paid \div period) * remaining \in Nat
  BY <1>1, <1>2
<1> QED  BY <1>2, <1>3, <1>4 DEF Prorated

-----------------------------------------------------------------------------
(* Rows *)

(* A snapshot that is touched keeps everything but its freshness. *)
LEMMA TouchedForms ==
  ASSUME TypeOK, TouchForms
  PROVE  form' \in [Browsers -> Form \cup {None}]
<1>1. \A b \in Browsers : Touched(form[b]) \in Form \cup {None}
  BY DEF TypeOK, Touched, Form
<1> QED  BY <1>1 DEF TouchForms
LEMMA TouchedPayment ==
  ASSUME TypeOK, pay' = Touched(pay)
  PROVE  /\ pay' \in Payment \cup {None}
         /\ pay' # None => pay # None /\ pay'.due = pay.due
BY DEF TypeOK, Touched, Payment

(* A bill that is there has an amount. *)
LEMMA BilledAmounts ==
  ASSUME TypeOK
  PROVE  \A d \in Days : d \in Billed <=> bills[d] \in Cents
<1>1. None \notin Cents
  OBVIOUS
<1>2. \A d \in Days : bills[d] \in Cents \/ bills[d] = None
  BY DEF TypeOK
<1> QED  BY <1>1, <1>2 DEF Billed

(* The bill a case refers to is there. *)
LEMMA ReferencedIsBilled ==
  ASSUME TypeOK, ReferencedBillIsImmutable,
         NEW c \in Live, cases[c].bill # None
  PROVE  cases[c].bill \in Billed
<1>1. cases[c] \in Case
  BY DEF TypeOK, Live
<1>2. cases[c].bill \in Days /\ cases[c].paid \in Nat
  BY <1>1 DEF Case
<1>3. bills[cases[c].bill] = cases[c].paid
  BY DEF ReferencedBillIsImmutable
<1> QED  BY <1>2, <1>3 DEF Billed

(* A bill that no case refers to is free to change. *)
LEMMA UnreferencedChange ==
  ASSUME TypeOK, ReferencedBillIsImmutable, UNCHANGED cases,
         NEW d \in Days, Unreferenced(d), NEW x,
         bills' = [bills EXCEPT ![d] = x]
  PROVE  ReferencedBillIsImmutable'
<1> SUFFICES ASSUME NEW c \in Live, cases[c].bill # None
             PROVE  bills'[cases[c].bill] = cases[c].paid
  BY DEF ReferencedBillIsImmutable, Live
<1>1. cases[c].bill \in Days
  BY ReferencedIsBilled DEF Billed
<1>2. cases[c].bill # d
  BY DEF Unreferenced
<1> QED  BY <1>1, <1>2 DEF TypeOK, ReferencedBillIsImmutable

(* A new case refers to a bill and snapshots it, or refers to none. *)
LEMMA NewCase ==
  ASSUME TypeOK, NEW day \in Nat, NEW source \in Sources,
         NEW period \in Nat \ {0}
  PROVE  LET c == CaseOf(day, source, period) IN
         /\ c \in Case
         /\ c.bill # None => c.bill \in Days /\ bills[c.bill] = c.paid
         /\ c.status = "open"
<1> DEFINE until == {d \in Billed : d <= day}
           bill == Max(until)
<1>1. CASE until = {}
  BY <1>1 DEF CaseOf, Case, Statuses
<1>2. CASE until # {}
  <2>1. until \subseteq Days
    BY DEF Billed
  <2>2. bill \in until
    BY <1>2, <2>1, LastDay
  <2>3. bill \in Days /\ bill \in Billed /\ bill <= day
    BY <2>1, <2>2
  <2> HIDE DEF bill
  <2>4. bills[bill] \in Nat
    BY <2>3, BilledAmounts
  <2>5. Unused(day, bill, period) \in Nat
    BY <2>3 DEF Unused, Days
  <2>6. Prorated(bills[bill], Unused(day, bill, period), period) \in Nat
    BY <2>4, <2>5, ProratedType
  <2>7. CaseOf(day, source, period) =
          [day |-> day, source |-> source, status |-> "open", bill |-> bill,
           paid |-> bills[bill],
           refund |-> Prorated(bills[bill], Unused(day, bill, period), period)]
    BY <1>2 DEF CaseOf, bill
  <2>8. "open" \in Statuses
    BY DEF Statuses
  <2> QED  BY <2>3, <2>4, <2>6, <2>7, <2>8 DEF Case
<1> QED  BY <1>1, <1>2
(* A case inserted over deleted rows keeps the references of the others. *)
LEMMA InsertedCase ==
  ASSUME TypeOK, ReferencedBillIsImmutable, UNCHANGED bills,
         NEW c \in Case, c.bill # None => bills[c.bill] = c.paid,
         NEW S, cases' = Inserted(c, S)
  PROVE  /\ cases' \in [CaseIds -> Case \cup {None}]
         /\ ReferencedBillIsImmutable'
<1>1. \A i \in CaseIds : cases'[i] \in {c, None, cases[i]}
  BY DEF Inserted
<1>2. \A i \in CaseIds : cases[i] \in Case \cup {None}
  BY DEF TypeOK
<1>3. cases' \in [CaseIds -> Case \cup {None}]
  BY <1>2 DEF Inserted
<1>4. ReferencedBillIsImmutable'
  <2> SUFFICES ASSUME NEW i \in CaseIds, cases'[i] # None,
                      cases'[i].bill # None
               PROVE  bills[cases'[i].bill] = cases'[i].paid
    BY DEF ReferencedBillIsImmutable, Live
  <2>1. CASE cases'[i] = c
    BY <2>1
  <2>2. CASE cases'[i] = cases[i]
    BY <2>2 DEF ReferencedBillIsImmutable, Live
  <2> QED  BY <1>1, <2>1, <2>2
<1> QED  BY <1>3, <1>4

(* An edit leaves bills of the schedule it saves, and those cases refer to. *)
LEMMA EditKeepsBills ==
  ASSUME LedgerInv, NEW sc \in Schedules, NEW p \in Cents,
         sc # schedule => Correctable(sc),
         schedule' = sc, bills' = EditedBills(sc, p), UNCHANGED cases
  PROVE  /\ bills' \in [Days -> Cents \cup {None}]
         /\ BillsAreOnSchedule'
         /\ ReferencedBillIsImmutable'
<1> USE DEF LedgerInv
<1> DEFINE from == IF sc = schedule THEN CurrentPeriod(sc) ELSE schedule.start
           to == IF sc = schedule THEN from ELSE sc.start
           follows == sc # schedule \/ p # price
           amount == IF follows /\ Unreferenced(from) THEN p ELSE bills[from]
<1>1. CASE from \notin Billed
  <2>1. UNCHANGED bills
    BY <1>1 DEF EditedBills
  <2>2. sc = schedule \/ Billed = {}
    BY <1>1 DEF Correctable
  <2> QED  BY <2>1, <2>2 DEF TypeOK, BillsAreOnSchedule, Billed,
           ReferencedBillIsImmutable, Live
<1>2. CASE from \in Billed
  <2>1. bills' = [d \in Days |-> IF d = to THEN amount
                               ELSE IF d = from THEN None ELSE bills[d]]
    BY <1>2 DEF EditedBills
  <2>2. from \in Days /\ bills[from] \in Cents
    BY <1>2, BilledAmounts DEF Billed
  <2>3. amount \in Cents
    BY <2>2
  <2>4. to \in Dues(sc)
    BY CurrentPeriodIsDue, StartIsDue
  <2>5. sc # schedule => Billed = {from}
    BY <1>2 DEF Correctable
  <2>6. \A c \in Live : cases[c].bill = from => to = from /\ amount = bills[from]
    <3>1. \A c \in Live : cases[c].bill = from => ~ Unreferenced(from)
      BY DEF Unreferenced
    <3>2. ~ Unreferenced(from) => to = from
      BY <1>2 DEF Correctable, Billed
    <3> QED  BY <3>1, <3>2
  <2> HIDE DEF from, to, amount
  <2>7. bills' \in [Days -> Cents \cup {None}]
    BY <2>1, <2>3 DEF TypeOK
  <2>8. BillsAreOnSchedule'
    <3> SUFFICES ASSUME NEW d \in Days, bills'[d] # None
                 PROVE  d \in Dues(sc)
      BY DEF BillsAreOnSchedule, Billed, Dues
    <3>1. CASE d = to
      BY <3>1, <2>4
    <3>2. CASE d # to
      <4>1. d # from /\ d \in Billed
        BY <3>2, <2>1 DEF Billed
      <4>2. sc = schedule
        BY <4>1, <2>5
      <4> QED  BY <4>1, <4>2 DEF BillsAreOnSchedule
    <3> QED  BY <3>1, <3>2
  <2>9. ReferencedBillIsImmutable'
    <3> SUFFICES ASSUME NEW c \in Live, cases[c].bill # None
                 PROVE  bills'[cases[c].bill] = cases[c].paid
      BY DEF ReferencedBillIsImmutable, Live
    <3> DEFINE d == cases[c].bill
    <3>1. d \in Billed /\ bills[d] = cases[c].paid
      BY ReferencedIsBilled DEF ReferencedBillIsImmutable
    <3>2. d \in Days
      BY <3>1 DEF Billed
    <3> HIDE DEF d
    <3>3. CASE d = from
      BY <3>1, <3>2, <3>3, <2>1, <2>6 DEF d
    <3>4. CASE d # from
      <4>1. sc = schedule
        BY <3>1, <3>4, <2>5
      <4>2. to = from
        BY <4>1 DEF to
      <4> QED  BY <3>1, <3>2, <3>4, <4>2, <2>1 DEF d
    <3> QED  BY <3>3, <3>4 DEF d
  <2> QED  BY <2>7, <2>8, <2>9
<1> QED  BY <1>1, <1>2
(* A step that writes cases, and perhaps ends the subscription, keeps the rest. *)
LEMMA CaseStep ==
  ASSUME LedgerInv,
         UNCHANGED <<today, pricing, bills, changes>>,
         active' \in BOOLEAN,
         Touch \/ UNCHANGED <<form, pay>>,
         cases' \in [CaseIds -> Case \cup {None}],
         ReferencedBillIsImmutable'
  PROVE  LedgerInv'
<1> USE DEF LedgerInv
<1>1. form' \in [Browsers -> Form \cup {None}]
  BY TouchedForms DEF Touch, TypeOK
<1>2. /\ pay' \in Payment \cup {None}
      /\ pay' # None => pay # None /\ pay'.due = pay.due
  BY TouchedPayment DEF Touch, TypeOK
<1>3. TypeOK'
  BY <1>1, <1>2 DEF TypeOK, pricing
<1>4. BillsAreOnSchedule' /\ PaysOpenPeriod'
  BY <1>2 DEF BillsAreOnSchedule, PaysOpenPeriod, Billed, pricing
<1> QED  BY <1>3, <1>4

(* A case that is settled or corrected still refers to the same bill. *)
LEMMA SettledCase ==
  ASSUME TypeOK, ReferencedBillIsImmutable, UNCHANGED bills, NEW c \in Live,
         \/ \E s \in Statuses : cases' = [cases EXCEPT ![c].status = s]
         \/ \E n \in Nat : cases' = [cases EXCEPT ![c].refund = n]
  PROVE  /\ cases' \in [CaseIds -> Case \cup {None}]
         /\ ReferencedBillIsImmutable'
<1>1. c \in CaseIds /\ cases[c] \in Case
  BY DEF TypeOK, Live
<1>2. cases' \in [CaseIds -> Case \cup {None}]
  <2>1. \A s \in Statuses : [cases[c] EXCEPT !.status = s] \in Case
    BY <1>1 DEF Case
  <2>2. \A n \in Nat : [cases[c] EXCEPT !.refund = n] \in Case
    BY <1>1 DEF Case
  <2> QED  BY <1>1, <2>1, <2>2 DEF TypeOK
<1>3. ReferencedBillIsImmutable'
  <2> SUFFICES ASSUME NEW i \in CaseIds, cases'[i] # None,
                      cases'[i].bill # None
               PROVE  bills[cases'[i].bill] = cases'[i].paid
    BY DEF ReferencedBillIsImmutable, Live
  <2>1. CASE i # c
    BY <2>1 DEF TypeOK, ReferencedBillIsImmutable, Live
  <2>2. CASE i = c
    <3>1. cases'[i].bill = cases[c].bill /\ cases'[i].paid = cases[c].paid
      BY <1>1, <2>2 DEF TypeOK, Case
    <3> QED  BY <3>1 DEF ReferencedBillIsImmutable
  <2> QED  BY <2>1, <2>2
<1> QED  BY <1>2, <1>3

-----------------------------------------------------------------------------
(* The induction *)

LEMMA LedgerInit == Init => LedgerInv
<1> SUFFICES ASSUME Init
             PROVE  LedgerInv
  OBVIOUS
<1>1. TypeOK
  BY DEF Init, TypeOK
<1>2. BillsAreOnSchedule
  BY StartIsDue DEF Init, BillsAreOnSchedule
<1>3. PaysOpenPeriod /\ ReferencedBillIsImmutable
  BY DEF Init, PaysOpenPeriod, ReferencedBillIsImmutable, Live
<1> QED  BY <1>1, <1>2, <1>3 DEF LedgerInv

LEMMA LedgerStep == LedgerInv /\ [Next]_vars => LedgerInv'
<1> SUFFICES ASSUME LedgerInv, [Next]_vars
             PROVE  LedgerInv'
  OBVIOUS
<1> USE DEF LedgerInv
<1>1. CASE Tick
  BY <1>1 DEF Tick, pricing, TypeOK, BillsAreOnSchedule, PaysOpenPeriod,
     ReferencedBillIsImmutable, Billed, Live
<1>2. ASSUME NEW d \in Days, BeginPay(d)
      PROVE  LedgerInv'
  <2>1. AmountFor(d) \in Cents
    BY DEF AmountFor, TypeOK, NextPrice
  <2>2. pay' \in Payment
    BY <1>2, <2>1 DEF BeginPay, Payment
  <2> QED  BY <1>2, <2>2 DEF BeginPay, pricing, TypeOK, BillsAreOnSchedule,
           PaysOpenPeriod, ReferencedBillIsImmutable, Billed, Live
<1>3. CASE CommitPay
  <2>1. pay \in Payment /\ pay.due \in Dues(schedule) \ Billed
    BY <1>3 DEF CommitPay, TypeOK, PaysOpenPeriod
  <2>2. pay.due \in Days /\ pay.amount \in Cents
    BY <2>1 DEF Payment
  <2>3. bills' = [bills EXCEPT ![pay.due] = pay.amount]
    BY <1>3 DEF CommitPay
  <2>4. bills' \in [Days -> Cents \cup {None}]
    BY <2>2, <2>3 DEF TypeOK
  <2>5. price' \in Cents /\ next' \in NextPrice \cup {None}
        /\ changes' \subseteq Days
    BY <1>3 DEF CommitPay, TypeOK, NextPrice
  <2>6. form' \in [Browsers -> Form \cup {None}]
    BY <1>3, TouchedForms DEF CommitPay
  <2>7. TypeOK'
    BY <1>3, <2>4, <2>5, <2>6 DEF CommitPay, TypeOK
  <2>8. BillsAreOnSchedule'
    BY <1>3, <2>1, <2>3 DEF CommitPay, TypeOK, BillsAreOnSchedule, Billed
  <2>9. ReferencedBillIsImmutable'
    <3>1. Unreferenced(pay.due)
      <4> SUFFICES ASSUME NEW c \in Live, cases[c].bill = pay.due
                   PROVE  FALSE
        BY DEF Unreferenced
      <4>1. cases[c].bill # None
        BY <2>2 DEF Days
      <4> QED  BY <4>1, <2>1, ReferencedIsBilled
    <3> QED  BY <1>3, <2>2, <2>3, <3>1, UnreferencedChange DEF CommitPay
  <2> QED  BY <1>3, <2>7, <2>8, <2>9 DEF CommitPay, PaysOpenPeriod
<1>4. CASE RefusePay
  BY <1>4 DEF RefusePay, pricing, TypeOK, BillsAreOnSchedule, PaysOpenPeriod,
     ReferencedBillIsImmutable, Billed, Live
<1>5. ASSUME NEW d \in Days, NEW cents \in Cents, UpdateBill(d, cents)
      PROVE  LedgerInv'
  <2>1. bills' = [bills EXCEPT ![d] = cents] /\ d \in Billed
    BY <1>5 DEF UpdateBill
  <2>2. form' \in [Browsers -> Form \cup {None}] /\ pay' = None
    BY <1>5, TouchedForms DEF UpdateBill, Touch, MutexFree, Touched
  <2>3. TypeOK'
    BY <1>5, <2>1, <2>2 DEF UpdateBill, pricing, TypeOK
  <2>4. BillsAreOnSchedule'
    BY <1>5, <2>1 DEF UpdateBill, pricing, TypeOK, BillsAreOnSchedule, Billed
  <2>5. ReferencedBillIsImmutable'
    BY <1>5, <2>1, UnreferencedChange DEF UpdateBill
  <2> QED  BY <2>2, <2>3, <2>4, <2>5 DEF PaysOpenPeriod
<1>6. ASSUME NEW d \in Days, DeleteBill(d)
      PROVE  LedgerInv'
  <2>1. bills' = [bills EXCEPT ![d] = None] /\ d \in Billed
    BY <1>6 DEF DeleteBill
  <2>2. form' \in [Browsers -> Form \cup {None}] /\ pay' = None
    BY <1>6, TouchedForms DEF DeleteBill, Touch, MutexFree, Touched
  <2>3. TypeOK'
    BY <1>6, <2>1, <2>2 DEF DeleteBill, pricing, TypeOK
  <2>4. BillsAreOnSchedule'
    BY <1>6, <2>1 DEF DeleteBill, pricing, TypeOK, BillsAreOnSchedule, Billed
  <2>5. ReferencedBillIsImmutable'
    BY <1>6, <2>1, UnreferencedChange DEF DeleteBill
  <2> QED  BY <2>2, <2>3, <2>4, <2>5 DEF PaysOpenPeriod
<1>7. ASSUME NEW b \in Browsers, OpenForm(b)
      PROVE  LedgerInv'
  <2>1. form' \in [Browsers -> Form \cup {None}]
    BY <1>7 DEF OpenForm, TypeOK, Form
  <2> QED  BY <1>7, <2>1 DEF OpenForm, pricing, TypeOK, BillsAreOnSchedule,
           PaysOpenPeriod, ReferencedBillIsImmutable, Billed, Live
<1>8. ASSUME NEW b \in Browsers, NEW sc \in Schedules, NEW p \in Cents,
             NEW n \in Cents \cup {None}, UpdateSubscription(b, sc, p, n)
      PROVE  LedgerInv'
  <2>1. /\ sc # schedule => Correctable(sc)
        /\ schedule' = sc /\ price' = p /\ bills' = EditedBills(sc, p)
        /\ UNCHANGED <<today, rental, changes, active, cases, pay>>
    BY <1>8 DEF UpdateSubscription
  <2>2. pay' = None
    BY <1>8 DEF UpdateSubscription, MutexFree
  <2>3. /\ bills' \in [Days -> Cents \cup {None}]
        /\ BillsAreOnSchedule'
        /\ ReferencedBillIsImmutable'
    BY <2>1, EditKeepsBills
  <2>4. EffectiveFrom(sc, p, n) \subseteq Days \/ next # None
    BY DuesAreDays DEF EffectiveFrom, NextUnpaid
  <2>5. next # None => next.from \in Days
    BY DEF TypeOK, NextPrice
  <2>6. EffectiveFrom(sc, p, n) \subseteq Days
    BY <2>5, DuesAreDays DEF EffectiveFrom, NextUnpaid
  <2>7. next' \in NextPrice \cup {None}
    <3>1. CASE n = None
      BY <1>8, <3>1 DEF UpdateSubscription
    <3>2. CASE n # None
      <4>1. /\ EffectiveFrom(sc, p, n) # {}
            /\ next' = [cents |-> n, from |-> Min(EffectiveFrom(sc, p, n))]
        BY <1>8, <3>2 DEF UpdateSubscription
      <4>2. Min(EffectiveFrom(sc, p, n)) \in Days
        BY <4>1, <2>6, FirstDay
      <4> QED  BY <3>2, <4>1, <4>2 DEF NextPrice
    <3> QED  BY <3>1, <3>2
  <2>8. form' \in [Browsers -> Form \cup {None}]
    <3>1. \A c \in Browsers : Touched(form[c]) \in Form \cup {None}
      BY DEF TypeOK, Touched, Form
    <3> QED  BY <1>8, <3>1 DEF UpdateSubscription
  <2> QED  BY <2>1, <2>2, <2>3, <2>7, <2>8 DEF TypeOK, PaysOpenPeriod
<1>9. ASSUME NEW n \in Cents, UpdateNextPrice(n)
      PROVE  LedgerInv'
  <2>1. Min(NextUnpaid(schedule)) \in Days
    <3>1. NextUnpaid(schedule) \subseteq Days /\ NextUnpaid(schedule) # {}
      BY <1>9, DuesAreDays DEF UpdateNextPrice, NextUnpaid
    <3> QED  BY <3>1, FirstDay
  <2>2. next' \in NextPrice
    BY <1>9, <2>1 DEF UpdateNextPrice, NextPrice
  <2>3. form' \in [Browsers -> Form \cup {None}] /\ pay' = None
    BY <1>9, TouchedForms DEF UpdateNextPrice, Touch, MutexFree, Touched
  <2> QED  BY <1>9, <2>2, <2>3 DEF UpdateNextPrice, TypeOK, BillsAreOnSchedule,
           PaysOpenPeriod, ReferencedBillIsImmutable, Billed, Live
<1>10. CASE Restart
  <2>1. next' \in NextPrice \cup {None}
    <3> DEFINE due == NextUnpaid(schedule)
    <3>1. due # {} => Min(due) \in Days
      <4>1. due \subseteq Days
        BY DuesAreDays DEF NextUnpaid
      <4> QED  BY <4>1, FirstDay
    <3> QED  BY <1>10, <3>1 DEF Restart, TypeOK, NextPrice
  <2>2. form' \in [Browsers -> Form \cup {None}]
    BY <1>10, TouchedForms DEF Restart, TypeOK
  <2> QED  BY <1>10, <2>1, <2>2 DEF Restart, TypeOK, BillsAreOnSchedule,
           PaysOpenPeriod, ReferencedBillIsImmutable, Billed, Live<1>11. CASE RequestCancellation
  <2> DEFINE period == IF rental = "plus" THEN schedule.every ELSE Warranty
             c == CaseOf(today, "customer_cancellation", period)
  <2>1. today \in Nat /\ period \in Nat \ {0}
        /\ "customer_cancellation" \in Sources
    BY DEF TypeOK, Schedules, Sources
  <2> HIDE DEF period
  <2>2. c \in Case /\ (c.bill # None => bills[c.bill] = c.paid)
    BY <2>1, NewCase
  <2>3. cases' = Inserted(c, {}) /\ Touch
        /\ UNCHANGED <<today, pricing, bills, changes, active>>
    BY <1>11 DEF RequestCancellation, period
  <2> HIDE DEF c
  <2>4. cases' \in [CaseIds -> Case \cup {None}] /\ ReferencedBillIsImmutable'
    BY <2>2, <2>3, InsertedCase
  <2> QED  BY <2>3, <2>4, CaseStep DEF TypeOK
<1>12. CASE RestoreCancellation
  <2>1. \A i \in CaseIds : cases'[i] \in {None, cases[i]}
    BY <1>12 DEF RestoreCancellation
  <2>2. cases' \in [CaseIds -> Case \cup {None}]
    BY <1>12 DEF RestoreCancellation, TypeOK
  <2>3. ReferencedBillIsImmutable'
    BY <1>12, <2>1 DEF RestoreCancellation, ReferencedBillIsImmutable, Live
  <2> QED  BY <1>12, <2>2, <2>3, CaseStep DEF RestoreCancellation, TypeOK
<1>13. ASSUME NEW day \in 0..today, BanAccount(day)
       PROVE  LedgerInv'
  <2> DEFINE c == CaseOf(day, "account_ban", Warranty)
             S == OpenFrom("customer_cancellation")
  <2>1. day \in Nat /\ "account_ban" \in Sources
    BY DEF TypeOK, Sources
  <2>2. c \in Case /\ (c.bill # None => bills[c.bill] = c.paid)
    BY <2>1, NewCase
  <2>3. cases' = Inserted(c, S)
        /\ UNCHANGED <<today, pricing, bills, changes, active>>
        /\ (Touch \/ UNCHANGED <<form, pay>>)
    BY <1>13 DEF BanAccount
  <2> HIDE DEF c, S
  <2>4. cases' \in [CaseIds -> Case \cup {None}] /\ ReferencedBillIsImmutable'
    BY <2>2, <2>3, InsertedCase
  <2> QED  BY <2>3, <2>4, CaseStep DEF TypeOK
<1>14. ASSUME NEW c \in CaseIds, NEW cents \in Cents, UpdateCase(c, cents)
       PROVE  LedgerInv'
  <2>1. c \in Live /\ cents \in Nat
    BY <1>14 DEF UpdateCase, Open
  <2>2. cases' \in [CaseIds -> Case \cup {None}] /\ ReferencedBillIsImmutable'
    BY <1>14, <2>1, SettledCase DEF UpdateCase
  <2> QED  BY <1>14, <2>2, CaseStep DEF UpdateCase, TypeOK
<1>15. ASSUME NEW c \in CaseIds,
              RefundCase(c) \/ UndoRefund(c) \/ ReassignCase(c)
       PROVE  LedgerInv'
  <2>1. /\ c \in Live /\ Touch /\ UNCHANGED <<today, pricing, bills, changes>>
        /\ active' \in BOOLEAN
        /\ \E s \in Statuses : cases' = [cases EXCEPT ![c].status = s]
    BY <1>15 DEF RefundCase, UndoRefund, ReassignCase, Open, OpenFrom, Statuses,
       TypeOK
  <2>2. cases' \in [CaseIds -> Case \cup {None}] /\ ReferencedBillIsImmutable'
    BY <2>1, SettledCase DEF pricing
  <2> QED  BY <2>1, <2>2, CaseStep
<1>16. CASE ArchiveSubscription
  <2>1. ReferencedBillIsImmutable'
    BY <1>16 DEF ArchiveSubscription, ReferencedBillIsImmutable, Live
  <2>2. cases' \in [CaseIds -> Case \cup {None}]
    BY <1>16 DEF ArchiveSubscription, TypeOK
  <2> QED  BY <1>16, <2>1, <2>2, CaseStep DEF ArchiveSubscription
<1>17. CASE UNCHANGED vars
  BY <1>17 DEF vars, pricing, TypeOK, BillsAreOnSchedule, PaysOpenPeriod,
     ReferencedBillIsImmutable, Billed, Live
<1> QED  BY <1>1, <1>2, <1>3, <1>4, <1>5, <1>6, <1>7, <1>8, <1>9, <1>10,
         <1>11, <1>12, <1>13, <1>14, <1>15, <1>16, <1>17 DEF Next

LEMMA LedgerInvariant == Spec => []LedgerInv
<1> QED  BY LedgerInit, LedgerStep, PTL DEF Spec
(* Whatever is paid, edited, scheduled, refunded or restarted, every column   *)
(* keeps a value of its type: an effective date is a day, a case snapshot is  *)
(* a row with the amounts its bill and its period give.                       *)
THEOREM LedgerTypeCorrect == Spec => []TypeOK
<1>1. LedgerInv => TypeOK
  BY DEF LedgerInv
<1> QED  BY <1>1, LedgerInvariant, PTL

(* The bill that an after-sales case refers to stays what the case says was   *)
(* paid (ensureBillUnreferenced, the foreign key and the synchronisation in   *)
(* Update), for every schedule, price and history of cases.                   *)
THEOREM ReferencedBillsStay == Spec => []ReferencedBillIsImmutable
<1>1. LedgerInv => ReferencedBillIsImmutable
  BY DEF LedgerInv
<1> QED  BY <1>1, LedgerInvariant, PTL

(* No correction of the boarding day or of the interval leaves a receipt      *)
(* between two periods, and no payment that was read before it is recorded    *)
(* off the calendar after it.                                                 *)
THEOREM BillsStayOnSchedule == Spec => []BillsAreOnSchedule
<1>1. LedgerInv => BillsAreOnSchedule
  BY DEF LedgerInv
<1> QED  BY <1>1, LedgerInvariant, PTL

-----------------------------------------------------------------------------
(* Refunds *)

(* A step that refunds a case ends the subscription, and one that makes it    *)
(* active again takes the only refund back.                                   *)
LEMMA RefundStep ==
  TypeOK /\ RefundEndsSubscription /\ [Next]_vars => RefundEndsSubscription'
<1> SUFFICES ASSUME TypeOK, RefundEndsSubscription, [Next]_vars
             PROVE  RefundEndsSubscription'
  OBVIOUS
<1> DEFINE Refunded(c) == c \in Live /\ cases[c].status = "refunded"
<1>1. \A c \in CaseIds : Refunded(c) =>
        ~ active /\ \A e \in CaseIds : Refunded(e) => e = c
  BY DEF RefundEndsSubscription, Live
<1>2. ASSUME UNCHANGED active \/ ~ active',
             \A c \in CaseIds : Refunded(c)' => Refunded(c)
      PROVE  RefundEndsSubscription'
  BY <1>1, <1>2 DEF RefundEndsSubscription, Live, TypeOK
<1>3. \A c \in CaseIds : c \in Live => cases[c] \in Case
  BY DEF Live, TypeOK
<1>4. CASE UNCHANGED cases /\ (UNCHANGED active \/ ~ active')
  BY <1>2, <1>4 DEF Live
<1>5. ASSUME NEW c, c.status = "open", NEW S, cases' = Inserted(c, S),
             UNCHANGED active
      PROVE  RefundEndsSubscription'
  <2>1. \A i \in CaseIds : cases'[i] \in {c, None, cases[i]}
    BY <1>5 DEF Inserted
  <2>2. \A i \in CaseIds : Refunded(i)' => Refunded(i)
    BY <1>5, <2>1 DEF Live
  <2> QED  BY <1>2, <1>5, <2>2
<1>6. CASE RequestCancellation
  <2> DEFINE period == IF rental = "plus" THEN schedule.every ELSE Warranty
             c == CaseOf(today, "customer_cancellation", period)
  <2>1. c.status = "open" /\ cases' = Inserted(c, {}) /\ UNCHANGED active
    BY <1>6 DEF RequestCancellation, CaseOf
  <2> QED  BY <1>5, <2>1
<1>7. ASSUME NEW day, BanAccount(day)
      PROVE  RefundEndsSubscription'
  <2> DEFINE c == CaseOf(day, "account_ban", Warranty)
             S == OpenFrom("customer_cancellation")
  <2>1. c.status = "open" /\ cases' = Inserted(c, S) /\ UNCHANGED active
    BY <1>7 DEF BanAccount, CaseOf
  <2> QED  BY <1>5, <2>1
<1>8. CASE RestoreCancellation
  <2>1. \A i \in CaseIds : cases'[i] \in {None, cases[i]}
    BY <1>8 DEF RestoreCancellation
  <2>2. \A i \in CaseIds : Refunded(i)' => Refunded(i)
    BY <2>1 DEF Live
  <2> QED  BY <1>2, <1>8, <2>2 DEF RestoreCancellation
<1>9. ASSUME NEW c \in CaseIds, NEW cents, UpdateCase(c, cents)
      PROVE  RefundEndsSubscription'
  <2>1. c \in Live /\ cases' = [cases EXCEPT ![c].refund = cents]
    BY <1>9 DEF UpdateCase, Open
  <2>2. \A i \in CaseIds : Refunded(i)' => Refunded(i)
    BY <1>3, <2>1 DEF TypeOK, Live, Case
  <2> QED  BY <1>2, <1>9, <2>2 DEF UpdateCase
<1>10. ASSUME NEW c \in CaseIds, RefundCase(c)
       PROVE  RefundEndsSubscription'
  <2>1. active /\ ~ active' /\ cases' = [cases EXCEPT ![c].status = "refunded"]
    BY <1>10 DEF RefundCase
  <2>2. \A i \in CaseIds : ~ Refunded(i)
    BY <1>1, <2>1
  <2>3. \A i \in CaseIds : i # c => ~ Refunded(i)'
    BY <2>1, <2>2 DEF TypeOK, Live
  <2> QED  BY <2>1, <2>3 DEF RefundEndsSubscription, Live
<1>11. ASSUME NEW c \in CaseIds, UndoRefund(c)
       PROVE  RefundEndsSubscription'
  <2>1. Refunded(c) /\ cases' = [cases EXCEPT ![c].status = "open"]
    BY <1>11 DEF UndoRefund, RefundedBan
  <2>2. \A i \in CaseIds : ~ Refunded(i)'
    BY <1>1, <1>3, <2>1 DEF TypeOK, Live, Case
  <2> QED  BY <2>2 DEF RefundEndsSubscription, Live
<1>12. ASSUME NEW c \in CaseIds, ReassignCase(c)
       PROVE  RefundEndsSubscription'
  <2>1. c \in Live /\ cases' = [cases EXCEPT ![c].status = "reassigned"]
    BY <1>12 DEF ReassignCase, OpenFrom, Open
  <2>2. \A i \in CaseIds : Refunded(i)' => Refunded(i)
    BY <1>3, <2>1 DEF TypeOK, Live, Case
  <2> QED  BY <1>2, <1>12, <2>2 DEF ReassignCase
<1> QED
  BY <1>4, <1>6, <1>7, <1>8, <1>9, <1>10, <1>11, <1>12
  DEF Next, vars, Tick, BeginPay, CommitPay, RefusePay, UpdateBill, DeleteBill,
      OpenForm, UpdateSubscription, UpdateNextPrice, Restart,
      ArchiveSubscription

(* Through undone refunds, second bans and payments between them, a customer  *)
(* is refunded at most once, and then the subscription is no longer active    *)
(* (CompleteCancellationRefund, SetAfterSalesCaseRefunded).                   *)
THEOREM RefundsEndSubscriptions == Spec => []RefundEndsSubscription
<1>1. Init => RefundEndsSubscription
  BY DEF Init, RefundEndsSubscription, Live
<1> QED  BY <1>1, RefundStep, LedgerTypeCorrect, PTL DEF Spec

(* While a case is open no receipt appears, not even that of a payment which  *)
(* was read before the ban or the cancellation: the transaction of setDuePaid *)
(* asks again.                                                                *)
THEOREM NoReceiptsDuringAfterSales == Spec => NoReceiptDuringAfterSales
<1> DEFINE Quiet == \A d \in Days :
                      Open # {} /\ d \notin Billed => bills'[d] = None
<1>1. TypeOK /\ [Next]_vars => Quiet
  <2> SUFFICES ASSUME TypeOK, [Next]_vars, Open # {},
                      NEW d \in Days, d \notin Billed
               PROVE  bills'[d] = None
    OBVIOUS
  <2>1. bills[d] = None
    BY DEF Billed
  <2>2. ~ CommitPay
    BY DEF CommitPay, Payable
  <2>3. ASSUME NEW e \in Billed, NEW x, bills' = [bills EXCEPT ![e] = x]
        PROVE  bills'[d] = None
    BY <2>1, <2>3 DEF TypeOK
  <2>4. ASSUME NEW e \in Days, DeleteBill(e) \/ \E cents \in Cents : UpdateBill(e, cents)
        PROVE  bills'[d] = None
    BY <2>3, <2>4 DEF DeleteBill, UpdateBill
  <2>5. ASSUME NEW b \in Browsers, NEW sc \in Schedules, NEW p \in Cents,
               NEW n \in Cents \cup {None}
        PROVE  ~ UpdateSubscription(b, sc, p, n)
    BY DEF UpdateSubscription
  <2> QED
    BY <2>1, <2>2, <2>4, <2>5
    DEF Next, vars, Tick, BeginPay, RefusePay, OpenForm, UpdateNextPrice,
        Restart, RequestCancellation, RestoreCancellation, BanAccount,
        UpdateCase, RefundCase, UndoRefund, ReassignCase, ArchiveSubscription
<1>2. TypeOK /\ [Next]_vars => [Quiet]_vars
  BY <1>1
<1>3. Spec => [][Quiet]_vars
  BY <1>2, LedgerTypeCorrect, PTL DEF Spec
<1> QED  BY <1>3 DEF NoReceiptDuringAfterSales

-----------------------------------------------------------------------------
(* Prices *)

(* An edit leaves the periods after the first bill unpaid. *)
LEMMA EditKeepsNext ==
  ASSUME LedgerInv, ScheduledPriceIsAhead, NEW sc \in Schedules, NEW p \in Cents,
         NEW n, sc # schedule => Correctable(sc), bills' = EditedBills(sc, p),
         NEW d \in EffectiveFrom(sc, p, n)
  PROVE  d \in Dues(sc) /\ d \notin Billed'
<1> USE DEF LedgerInv
<1>0. None \notin Cents /\ bills \in [Days -> Cents \cup {None}]
  BY DEF TypeOK
<1>1. CASE sc = schedule
  <2>1. Billed' \subseteq Billed
    BY <1>0, <1>1, CurrentPeriodIsDue, DuesAreDays DEF EditedBills, Billed
  <2>2. d \in Dues(sc) \ Billed
    BY <1>1 DEF EffectiveFrom, ScheduledPriceIsAhead, NextUnpaid
  <2> QED  BY <2>1, <2>2
<1>2. CASE sc # schedule /\ Billed = {}
  <2>1. bills' = bills
    BY <1>2 DEF EditedBills
  <2>2. d \in Dues(sc)
    BY <1>2 DEF EffectiveFrom, NextUnpaid
  <2> QED  BY <1>2, <2>1, <2>2 DEF Billed
<1>3. CASE sc # schedule /\ Billed = {schedule.start}
  <2>1. Cardinality(Billed) = 1
    BY <1>3, FS_Singleton
  <2>2. d \in Dues(sc) /\ d > sc.start
    BY <1>3, <2>1 DEF EffectiveFrom
  <2>3. Billed' \subseteq {sc.start}
    BY <1>3 DEF EditedBills, Billed
  <2>4. sc.start \in Nat /\ d \in Nat
    <3>1. sc.start \in 0..Horizon
      BY DEF Schedules
    <3>2. d \in 0..Horizon
      BY <2>2 DEF Dues, Days
    <3> QED  BY <3>1, <3>2
  <2> QED  BY <2>2, <2>3, <2>4
<1> QED  BY <1>1, <1>2, <1>3 DEF Correctable

LEMMA ScheduledStep ==
  LedgerInv /\ ScheduledPriceIsAhead /\ [Next]_vars => ScheduledPriceIsAhead'
<1> SUFFICES ASSUME LedgerInv, ScheduledPriceIsAhead, [Next]_vars
             PROVE  ScheduledPriceIsAhead'
  OBVIOUS
<1> USE DEF LedgerInv
<1>1. ASSUME UNCHANGED <<schedule, price, next>>, Billed' \subseteq Billed
      PROVE  ScheduledPriceIsAhead'
  BY <1>1 DEF ScheduledPriceIsAhead, Dues
<1>2. ASSUME NEW S, S \subseteq Dues(schedule) \ Billed, S # {}, NEW n,
             next' = [cents |-> n, from |-> Min(S)], n # price,
             UNCHANGED <<schedule, price, bills>>
      PROVE  ScheduledPriceIsAhead'
  <2>1. Min(S) \in Dues(schedule) \ Billed
    BY <1>2, FirstDay, DuesAreDays
  <2> HIDE DEF LedgerInv
  <2>2. next'.from = Min(S) /\ next'.cents = n
    BY <1>2
  <2> QED  BY <1>2, <2>1, <2>2 DEF ScheduledPriceIsAhead, Dues, Billed
<1>3. NextUnpaid(schedule) \subseteq Dues(schedule) \ Billed
  BY DEF NextUnpaid
<1>4. CASE CommitPay
  <2> SUFFICES ASSUME next' # None
               PROVE  /\ next'.from \in Dues(schedule') \ Billed'
                      /\ next'.cents # price'
    BY DEF ScheduledPriceIsAhead
  <2>1. next' = next /\ price' = price /\ schedule' = schedule /\ ~(next.from <= pay.due)
        /\ bills' = [bills EXCEPT ![pay.due] = pay.amount]
    BY <1>4 DEF CommitPay
  <2>2. pay.due \in Nat
    BY <1>4 DEF CommitPay, TypeOK, Payment, Days
  <2>3. next.from # pay.due
    BY <2>1, <2>2
  <2>4. Billed' \subseteq Billed \cup {pay.due}
    BY <2>1 DEF TypeOK, Billed
  <2> QED  BY <2>1, <2>3, <2>4 DEF ScheduledPriceIsAhead, Dues
<1>5. ASSUME NEW d \in Days, NEW x, d \in Billed, bills' = [bills EXCEPT ![d] = x],
             UNCHANGED pricing
      PROVE  ScheduledPriceIsAhead'
  <2>1. Billed' \subseteq Billed
    BY <1>5 DEF TypeOK, Billed
  <2> QED  BY <1>1, <1>5, <2>1 DEF pricing
<1>6. ASSUME NEW d \in Days, DeleteBill(d) \/ \E cents \in Cents : UpdateBill(d, cents)
      PROVE  ScheduledPriceIsAhead'
  BY <1>5, <1>6 DEF DeleteBill, UpdateBill
<1>7. ASSUME NEW b \in Browsers, NEW sc \in Schedules, NEW p \in Cents,
             NEW n \in Cents \cup {None}, UpdateSubscription(b, sc, p, n)
      PROVE  ScheduledPriceIsAhead'
  <2> DEFINE S == EffectiveFrom(sc, p, n)
  <2>1. CASE n = None
    BY <1>7, <2>1 DEF UpdateSubscription, ScheduledPriceIsAhead
  <2>2. CASE n # None
    <3>1. /\ n # p /\ S # {} /\ next' = [cents |-> n, from |-> Min(S)]
          /\ sc # schedule => Correctable(sc)
          /\ schedule' = sc /\ price' = p /\ bills' = EditedBills(sc, p)
      BY <1>7, <2>2 DEF UpdateSubscription
    <3>2. \A d \in S : d \in Dues(sc) /\ d \notin Billed'
      BY <3>1, EditKeepsNext
    <3>3. Min(S) \in S
      BY <3>1, <3>2, FirstDay, DuesAreDays
    <3> HIDE DEF S
    <3>4. next'.from = Min(S) /\ next'.cents = n
      BY <3>1
    <3> QED  BY <3>1, <3>2, <3>3, <3>4 DEF ScheduledPriceIsAhead, Dues
  <2> QED  BY <2>1, <2>2
<1>8. ASSUME NEW n \in Cents, UpdateNextPrice(n)
      PROVE  ScheduledPriceIsAhead'
  BY <1>2, <1>3, <1>8 DEF UpdateNextPrice
<1>9. CASE Restart
  <2>1. CASE UNCHANGED next
    BY <1>1, <1>9, <2>1 DEF Restart, Billed
  <2>2. CASE ~UNCHANGED next
    <3>1. /\ next # None /\ NextUnpaid(schedule) # {}
          /\ next' = [next EXCEPT !.from = Min(NextUnpaid(schedule))]
          /\ UNCHANGED <<schedule, price, bills>>
      BY <1>9, <2>2 DEF Restart
    <3>2. next \in NextPrice /\ next.cents # price
      BY <3>1 DEF TypeOK, ScheduledPriceIsAhead
    <3>3. next' = [cents |-> next.cents, from |-> Min(NextUnpaid(schedule))]
      BY <3>1, <3>2 DEF NextPrice
    <3> QED  BY <1>2, <1>3, <3>1, <3>2, <3>3
  <2> QED  BY <2>1, <2>2
<1>10. CASE UNCHANGED <<schedule, price, next, bills>>
  BY <1>1, <1>10 DEF Billed
<1> QED
  BY <1>4, <1>6, <1>7, <1>8, <1>9, <1>10
  DEF Next, vars, pricing, Tick, BeginPay, RefusePay, OpenForm, RequestCancellation,
      RestoreCancellation, BanAccount, UpdateCase, RefundCase, UndoRefund,
      ReassignCase, ArchiveSubscription

(* A scheduled price starts with a period that nobody has paid: for every      *)
(* calendar and price, no edit, payment or restart makes it retroactive.       *)
THEOREM ScheduledPricesStayAhead == Spec => []ScheduledPriceIsAhead
<1>1. Init => ScheduledPriceIsAhead
  BY DEF Init, ScheduledPriceIsAhead, NextUnpaid
<1> QED  BY <1>1, ScheduledStep, LedgerInvariant, PTL DEF Spec

-----------------------------------------------------------------------------
(* Forms and payments *)

(* A form that is still fresh shows the row as it is. *)
FormsAreCurrent ==
  \A b \in Browsers : form[b] # None /\ form[b].fresh =>
    form[b].schedule = schedule /\ form[b].price = price /\ form[b].next = next
(* A payment being served has the amount that applies to its period. *)
PaysAsPriced == pay # None => pay.amount = AmountFor(pay.due)

LEMMA FormsStep ==
  LedgerInv /\ FormsAreCurrent /\ [Next]_vars => FormsAreCurrent'
<1> SUFFICES ASSUME LedgerInv, FormsAreCurrent, [Next]_vars
             PROVE  FormsAreCurrent'
  OBVIOUS
<1>0. form \in [Browsers -> Form \cup {None}]
  BY DEF LedgerInv, TypeOK
<1>1. ASSUME NEW b \in Browsers, form'[b] # None, form'[b] = Touched(form[b])
      PROVE  ~form'[b].fresh
  <2>1. form[b] \in Form
    BY <1>0, <1>1 DEF Touched
  <2> QED  BY <1>1, <2>1 DEF Touched, Form
<1>2. CASE TouchForms
  BY <1>1, <1>2 DEF FormsAreCurrent, TouchForms
<1>3. CASE UNCHANGED <<schedule, price, next, form>>
  BY <1>3 DEF FormsAreCurrent
<1>4. ASSUME NEW b \in Browsers, OpenForm(b)
      PROVE  FormsAreCurrent'
  BY <1>0, <1>4 DEF OpenForm, FormsAreCurrent, pricing
<1>5. ASSUME NEW b \in Browsers, NEW sc \in Schedules, NEW p \in Cents,
             NEW n \in Cents \cup {None}, UpdateSubscription(b, sc, p, n)
      PROVE  FormsAreCurrent'
  <2>1. \A c \in Browsers : form'[c] = None \/ form'[c] = Touched(form[c])
    BY <1>5 DEF UpdateSubscription
  <2> QED  BY <1>1, <2>1 DEF FormsAreCurrent
<1> QED
  BY <1>2, <1>3, <1>4, <1>5
  DEF Next, vars, pricing, Touch, Tick, BeginPay, CommitPay, RefusePay, UpdateBill,
      DeleteBill, UpdateNextPrice, Restart, RequestCancellation, RestoreCancellation,
      BanAccount, UpdateCase, RefundCase, UndoRefund, ReassignCase, ArchiveSubscription

LEMMA PricedStep ==
  LedgerInv /\ PaysAsPriced /\ [Next]_vars => PaysAsPriced'
<1> SUFFICES ASSUME LedgerInv, PaysAsPriced, [Next]_vars, pay' # None
             PROVE  (pay.amount = AmountFor(pay.due))'
  BY DEF PaysAsPriced
<1>0. pay \in Payment \cup {None}
  BY DEF LedgerInv, TypeOK
<1>1. ASSUME NEW d \in Days, BeginPay(d)
      PROVE  (pay.amount = AmountFor(pay.due))'
  BY <1>1 DEF BeginPay, AmountFor, pricing
<1>2. CASE UNCHANGED <<price, next>> /\ pay' \in {pay, Touched(pay)}
  <2>1. pay \in Payment
    BY <1>0, <1>2 DEF Touched
  <2>2. pay'.amount = pay.amount /\ pay'.due = pay.due
    BY <1>2, <2>1 DEF Touched, Payment
  <2>3. pay # None
    BY <1>2 DEF Touched
  <2> QED  BY <1>2, <2>2, <2>3 DEF AmountFor, PaysAsPriced
<1>3. MutexFree => pay = None /\ Touched(pay) = None
  BY DEF MutexFree, Touched
<1>4. ASSUME NEW b \in Browsers, NEW sc \in Schedules, NEW p \in Cents,
             NEW n \in Cents \cup {None}
      PROVE  ~UpdateSubscription(b, sc, p, n)
  BY <1>3 DEF UpdateSubscription
<1>5. ASSUME NEW d \in Days, NEW n \in Cents PROVE ~UpdateBill(d, n)
  BY <1>3 DEF UpdateBill, Touch
<1>6. ~CommitPay /\ ~RefusePay /\ ~Restart
  BY DEF CommitPay, RefusePay, Restart
<1>7. ASSUME NEW d \in Days PROVE ~DeleteBill(d)
  BY <1>3 DEF DeleteBill, Touch
<1>8. ASSUME \/ Tick \/ RequestCancellation \/ RestoreCancellation \/ ArchiveSubscription
             \/ UNCHANGED vars
             \/ \E b \in Browsers : OpenForm(b)
             \/ \E day : BanAccount(day)
             \/ \E c \in CaseIds : RefundCase(c) \/ UndoRefund(c) \/ ReassignCase(c)
             \/ \E c \in CaseIds, cents \in Cents : UpdateCase(c, cents)
      PROVE  UNCHANGED <<price, next>> /\ pay' \in {pay, Touched(pay)}
  BY <1>8 DEF vars, pricing, Touch, Tick, OpenForm, RequestCancellation,
     RestoreCancellation, BanAccount, UpdateCase, RefundCase, UndoRefund, ReassignCase,
     ArchiveSubscription
<1>9. ASSUME NEW n \in Cents PROVE ~UpdateNextPrice(n)
  BY <1>3 DEF UpdateNextPrice, Touch
<1> QED
  BY <1>1, <1>2, <1>4, <1>5, <1>6, <1>7, <1>8, <1>9 DEF Next

(* What OpenForm shows is a form. *)
LEMMA OpenedForm ==
  ASSUME TypeOK
  PROVE  [fresh |-> TRUE, schedule |-> schedule, price |-> price, next |-> next] # None
<1>1. [fresh |-> TRUE, schedule |-> schedule, price |-> price, next |-> next] \in Form
  BY DEF TypeOK, Form
<1> QED  BY <1>1, NullAssumption

(* A form that is saved shows what it overwrites, whichever tab, payment,      *)
(* schedule or restart changed the row while it was open.                      *)
THEOREM UpdatesAreNotLost == Spec => NoLostUpdate
<1>1. Init => FormsAreCurrent
  BY DEF Init, FormsAreCurrent
<1>2. LedgerInv /\ FormsAreCurrent /\ [Next]_vars =>
        [\A b \in Browsers : form[b] # None /\ form'[b] = None =>
           /\ form[b].schedule = schedule
           /\ form[b].price = price
           /\ form[b].next = next]_vars
  <2> SUFFICES ASSUME LedgerInv, FormsAreCurrent, [Next]_vars, NEW b \in Browsers,
                      form[b] # None, form'[b] = None
               PROVE  form[b].fresh
    BY DEF FormsAreCurrent
  <2>0. form \in [Browsers -> Form \cup {None}]
    BY DEF LedgerInv, TypeOK
  <2>1. Touched(form[b]) # None
    BY <2>0, NullAssumption DEF Touched, Form
  <2>2. ~TouchForms /\ ~UNCHANGED form
    BY <2>1 DEF TouchForms
  <2>3. ASSUME NEW c \in Browsers PROVE ~OpenForm(c)
    BY <2>0, OpenedForm DEF OpenForm, LedgerInv
  <2>4. ASSUME NEW c \in Browsers, NEW sc \in Schedules, NEW p \in Cents,
               NEW n \in Cents \cup {None}, UpdateSubscription(c, sc, p, n)
        PROVE  form[b].fresh
    BY <2>1, <2>4 DEF UpdateSubscription
  <2> QED
    BY <2>2, <2>3, <2>4
    DEF Next, vars, Touch, Tick, BeginPay, CommitPay, RefusePay, UpdateBill,
        DeleteBill, UpdateNextPrice, Restart, RequestCancellation,
        RestoreCancellation, BanAccount, UpdateCase, RefundCase, UndoRefund,
        ReassignCase, ArchiveSubscription
<1> QED  BY <1>1, <1>2, FormsStep, LedgerInvariant, PTL DEF Spec, NoLostUpdate

(* A payment is recorded at the price that applies from then on, although the  *)
(* amount was read in an earlier step: nobody who changes prices comes between *)
(* without the mutex.                                                          *)
THEOREM PaymentsFollowPrices == Spec => PaymentAgreesWithPrice
<1>1. Init => PaysAsPriced
  BY DEF Init, PaysAsPriced
<1>2. LedgerInv /\ PaysAsPriced /\ [Next]_vars =>
        [\A d \in Days :
           pay # None /\ d \notin Billed /\ bills'[d] # None =>
             /\ bills'[d] = price'
             /\ next' # None => next' = next /\ d < next.from]_vars
  <2> SUFFICES ASSUME LedgerInv, PaysAsPriced, [Next]_vars, NEW d \in Days,
                      pay # None, d \notin Billed, bills'[d] # None
               PROVE  /\ bills'[d] = price'
                      /\ next' # None => next' = next /\ d < next.from
    OBVIOUS
  <2>0. /\ bills \in [Days -> Cents \cup {None}] /\ pay \in Payment
        /\ next \in NextPrice \cup {None}
    BY DEF LedgerInv, TypeOK
  <2>1. bills' # bills
    BY <2>0 DEF Billed
  <2>2. CommitPay
    BY <2>1 DEF Next, vars, MutexFree, Tick, BeginPay, CommitPay, RefusePay, UpdateBill,
       DeleteBill, OpenForm, UpdateSubscription, UpdateNextPrice, Restart,
       RequestCancellation, RestoreCancellation, BanAccount, UpdateCase, RefundCase,
       UndoRefund, ReassignCase, ArchiveSubscription
  <2>3. bills'[d] = pay.amount /\ d = pay.due
    BY <2>0, <2>2 DEF CommitPay, Billed
  <2>4. d \in Nat /\ (next # None => next.from \in Nat)
    <3>1. \A e \in Days : e \in Nat
      BY DEF Days
    <3> QED  BY <2>0, <3>1 DEF NextPrice
  <2>5. CASE next # None /\ next.from <= d
    BY <2>2, <2>3, <2>4, <2>5 DEF CommitPay, PaysAsPriced, AmountFor
  <2>6. CASE ~(next # None /\ next.from <= d)
    BY <2>2, <2>3, <2>4, <2>6 DEF CommitPay, PaysAsPriced, AmountFor
  <2> QED  BY <2>5, <2>6
<1> QED  BY <1>1, <1>2, PricedStep, LedgerInvariant, PTL DEF Spec, PaymentAgreesWithPrice

-----------------------------------------------------------------------------
(* Refunds within payments *)

(* Half a period, rounded up or down, adds less than a cent to what is left.   *)
LEMMA DivBelow ==
  ASSUME NEW x \in Nat, NEW k \in Nat, NEW q \in Nat \ {0}, x < k * q
  PROVE  x \div q < k
<1> DEFINE d == x \div q
           m == x % q
<1>1. d \in Nat /\ m \in Nat /\ x = q * d + m
  OBVIOUS
<1> HIDE DEF d, m
<1>2. SUFFICES ASSUME d >= k PROVE FALSE
  BY <1>1 DEF d
<1>3. q * d >= q * k
  BY <1>1, <1>2
<1>4. q * k = k * q /\ q * d \in Nat /\ q * k \in Nat
  BY <1>1
<1> QED  BY <1>1, <1>3, <1>4

(* A prorated refund is at most what was paid. *)
LEMMA ProratedWithin ==
  ASSUME NEW paid \in Nat, NEW remaining \in Nat, NEW period \in Nat \ {0}
  PROVE  Prorated(paid, remaining, period) <= paid
<1> DEFINE q == paid \div period
           r == paid % period
           half == period \div 2
<1>1. /\ q \in Nat /\ r \in Nat /\ half \in Nat
      /\ paid = period * q + r /\ half < period /\ half + half <= period
  OBVIOUS
<1>2. CASE remaining >= period
  BY <1>2 DEF Prorated
<1>3. CASE remaining < period
  <2> DEFINE extra == (r * remaining + half) \div period
  <2>1. Prorated(paid, remaining, period) = q * remaining + extra
    BY <1>3 DEF Prorated
  <2> HIDE DEF q, r, half
  <2>2. q * remaining <= q * period /\ q * period = period * q
        /\ q * remaining \in Nat /\ q * period \in Nat
    BY <1>1, <1>3
  <2>3. r * remaining + half < (r + 1) * period
    <3>1. r * remaining <= r * period /\ r * remaining \in Nat /\ r * period \in Nat
      BY <1>1, <1>3
    <3>2. (r + 1) * period = r * period + period
      BY <1>1
    <3> QED  BY <1>1, <3>1, <3>2
  <2>4. extra < r + 1
    <3> DEFINE x == r * remaining + half
    <3>1. x \in Nat /\ r + 1 \in Nat /\ x < (r + 1) * period
      BY <1>1, <2>3
    <3> HIDE DEF x
    <3>2. x \div period < r + 1
      BY <3>1, DivBelow
    <3> QED  BY <3>2 DEF x
  <2>5. extra \in Int
    BY <1>1
  <2> HIDE DEF extra
  <2> QED  BY <1>1, <2>1, <2>2, <2>4, <2>5
<1> QED  BY <1>2, <1>3

(* Nothing was refunded of a bill of which no case is refunded. *)
LEMMA NothingRefunded ==
  ASSUME NEW d, NEW C, \A c \in C : cases[c].status # "refunded"
  PROVE  RefundedOf(d, C) = 0
<1>1. {c \in C : cases[c].bill = d /\ cases[c].status = "refunded"} = {}
  OBVIOUS
<1> QED  BY <1>1 DEF RefundedOf, MapThenSumSet, MapThenFoldSet

(* Cases are settled one at a time: there is one open case at most, and none   *)
(* once the subscription has ended.                                            *)
SettledInTurn ==
  /\ \A c, e \in Open : c = e
  /\ ~active => Open = {}
(* A case refunds, or promises, no more than it says was paid. *)
PromiseWithinPayment ==
  \A c \in Live : /\ cases[c].bill # None
                  /\ cases[c].status \in {"open", "refunded"}
                  => cases[c].refund <= cases[c].paid
MoneyInv == LedgerInv /\ RefundEndsSubscription /\ SettledInTurn /\ PromiseWithinPayment

(* No two cases of one bill are refunded or may still be, so what each of them *)
(* refunds is all that is refunded of the bill.                                *)
LEMMA PromisesSuffice == MoneyInv => RefundWithinPayment
<1> SUFFICES ASSUME MoneyInv, NEW d \in Days, NEW c \in Live, cases[c].bill = d,
                    cases[c].status \in {"open", "refunded"}
             PROVE  /\ d \in Billed
                    /\ RefundedOf(d, Live \ {c}) + cases[c].refund <= bills[d]
  BY DEF RefundWithinPayment
<1>1. d # None /\ cases[c] \in Case
  <2>1. \A e \in Days : e \in Nat
    BY DEF Days
  <2> QED  BY <2>1 DEF MoneyInv, LedgerInv, TypeOK, Live
<1>2. d \in Billed /\ bills[d] = cases[c].paid
  BY <1>1, ReferencedIsBilled DEF MoneyInv, LedgerInv, ReferencedBillIsImmutable
<1>3. \A e \in Live \ {c} : cases[e].status # "refunded"
  BY DEF MoneyInv, RefundEndsSubscription, SettledInTurn, Open
<1>4. RefundedOf(d, Live \ {c}) = 0
  BY <1>3, NothingRefunded
<1>5. cases[c].refund <= cases[c].paid /\ cases[c].refund \in Nat
  BY <1>1 DEF MoneyInv, PromiseWithinPayment, Case
<1> QED  BY <1>2, <1>4, <1>5

(* The only case that is not settled is the one that was just opened. *)
LEMMA OpenedAlone ==
  ASSUME MoneyInv, active, NEW c, c.status = "open",
         c.bill # None => c.refund <= c.paid,
         NEW S, Open \subseteq S, cases' = Inserted(c, S), UNCHANGED active
  PROVE  SettledInTurn' /\ PromiseWithinPayment'
<1> DEFINE i0 == Min({i \in CaseIds : cases[i] = None \/ i \in S})
<1>1. \A i \in CaseIds : IF i = i0 THEN cases'[i] = c
                         ELSE cases'[i] = IF i \in S THEN None ELSE cases[i]
  BY DEF Inserted
<1>2. \A i \in CaseIds : i # i0 /\ cases'[i] # None =>
        i \in Live /\ cases'[i] = cases[i] /\ i \notin Open
  BY <1>1 DEF Live
<1> HIDE DEF i0
<1>3. \A i \in Live' : i # i0 => cases'[i].status \notin {"open", "refunded"}
  BY <1>2 DEF Live, Open, MoneyInv, RefundEndsSubscription, LedgerInv, TypeOK
<1>4. \A i \in Open' : i = i0
  BY <1>3 DEF Open
<1>5. SettledInTurn'
  BY <1>4 DEF SettledInTurn
<1>6. PromiseWithinPayment'
  BY <1>1, <1>3 DEF PromiseWithinPayment, Live
<1> QED  BY <1>5, <1>6

(* What a new case promises is at most what it says was paid. *)
LEMMA NewPromise ==
  ASSUME TypeOK, NEW day \in Nat, NEW source \in Sources, NEW period \in Nat \ {0}
  PROVE  LET c == CaseOf(day, source, period) IN
         c.status = "open" /\ (c.bill # None => c.refund <= c.paid)
<1> DEFINE until == {d \in Billed : d <= day}
           bill == Max(until)
<1>1. CASE until = {}
  BY <1>1 DEF CaseOf
<1>2. CASE until # {}
  <2>1. until \subseteq Days
    BY DEF Billed
  <2>2. bill \in until
    BY <1>2, <2>1, LastDay
  <2>3. bill \in Days /\ bill \in Billed /\ bill <= day
    BY <2>1, <2>2
  <2> HIDE DEF bill
  <2>4. bills[bill] \in Nat
    BY <2>3, BilledAmounts
  <2>5. Unused(day, bill, period) \in Nat
    BY <2>3 DEF Unused, Days
  <2>6. Prorated(bills[bill], Unused(day, bill, period), period) <= bills[bill]
    BY <2>4, <2>5, ProratedWithin
  <2>7. CaseOf(day, source, period) =
          [day |-> day, source |-> source, status |-> "open", bill |-> bill,
           paid |-> bills[bill],
           refund |-> Prorated(bills[bill], Unused(day, bill, period), period)]
    BY <1>2 DEF CaseOf, bill
  <2> QED  BY <2>6, <2>7
<1> QED  BY <1>1, <1>2

LEMMA MoneyStep == MoneyInv /\ [Next]_vars => SettledInTurn' /\ PromiseWithinPayment'
<1> SUFFICES ASSUME MoneyInv, [Next]_vars
             PROVE  SettledInTurn' /\ PromiseWithinPayment'
  OBVIOUS
<1>0. TypeOK /\ cases \in [CaseIds -> Case \cup {None}]
  BY DEF MoneyInv, LedgerInv, TypeOK
<1>1. CASE UNCHANGED cases /\ (UNCHANGED active \/ Open = {})
  BY <1>1 DEF MoneyInv, SettledInTurn, PromiseWithinPayment, Open, Live
<1>2. CASE RequestCancellation
  <2> DEFINE period == IF rental = "plus" THEN schedule.every ELSE Warranty
             c == CaseOf(today, "customer_cancellation", period)
  <2>1. today \in Nat /\ period \in Nat \ {0} /\ "customer_cancellation" \in Sources
    BY <1>0 DEF TypeOK, Schedules, Sources
  <2> HIDE DEF period
  <2>2. c.status = "open" /\ (c.bill # None => c.refund <= c.paid)
    BY <1>0, <2>1, NewPromise
  <2>3. cases' = Inserted(c, {}) /\ active /\ Open = {} /\ UNCHANGED active
    BY <1>2 DEF RequestCancellation, period
  <2> HIDE DEF c
  <2> QED  BY <2>2, <2>3, OpenedAlone
<1>3. ASSUME NEW day \in 0..today, BanAccount(day)
      PROVE  SettledInTurn' /\ PromiseWithinPayment'
  <2> DEFINE c == CaseOf(day, "account_ban", Warranty)
             S == OpenFrom("customer_cancellation")
  <2>1. day \in Nat /\ "account_ban" \in Sources
    BY <1>0 DEF TypeOK, Sources
  <2>2. c.status = "open" /\ (c.bill # None => c.refund <= c.paid)
    BY <1>0, <2>1, NewPromise
  <2>3. cases' = Inserted(c, S) /\ active /\ UNCHANGED active
    BY <1>3 DEF BanAccount
  <2>4. Open \subseteq S
    BY <1>0, <1>3 DEF BanAccount, OpenFrom, Open, Live, Case, Sources
  <2> HIDE DEF c, S
  <2> QED  BY <2>2, <2>3, <2>4, OpenedAlone
<1>4. CASE RestoreCancellation
  <2>1. (\A i \in CaseIds : cases'[i] \in {None, cases[i]}) /\ active /\ UNCHANGED active
    BY <1>4 DEF RestoreCancellation
  <2>2. \A i \in Live' : i \in Live /\ cases'[i] = cases[i]
    BY <2>1 DEF Live
  <2> QED  BY <2>1, <2>2 DEF MoneyInv, SettledInTurn, PromiseWithinPayment, Open, Live
<1>5. ASSUME NEW c \in CaseIds, NEW cents \in Cents, UpdateCase(c, cents)
      PROVE  SettledInTurn' /\ PromiseWithinPayment'
  <2>1. c \in Open /\ c \in Live /\ active /\ cases[c] \in Case
        /\ cases' = [cases EXCEPT ![c].refund = cents] /\ UNCHANGED active
    BY <1>0, <1>5 DEF UpdateCase, Open, Live, MoneyInv, SettledInTurn
  <2>2. \A e \in Live \ {c} : cases[e].status # "refunded"
    BY <2>1 DEF MoneyInv, RefundEndsSubscription
  <2>3. RefundedOf(cases[c].bill, Live \ {c}) = 0
    BY <2>2, NothingRefunded
  <2>4. cases[c].bill # None => cents <= cases[c].paid
    BY <1>5, <2>3 DEF UpdateCase, WithinPayment
  <2>5. /\ cases'[c].refund = cents /\ cases'[c].bill = cases[c].bill
        /\ cases'[c].paid = cases[c].paid /\ cases'[c].status = cases[c].status
    BY <1>0, <2>1 DEF Case
  <2>6. \A i \in CaseIds \ {c} : cases'[i] = cases[i]
    BY <1>0, <2>1
  <2>7. PromiseWithinPayment'
    BY <2>1, <2>4, <2>5, <2>6 DEF MoneyInv, PromiseWithinPayment, Live
  <2>8. \A i \in Open' : i \in Open
    BY <2>1, <2>5, <2>6 DEF Open, Live
  <2> QED  BY <2>1, <2>7, <2>8 DEF MoneyInv, SettledInTurn
<1>6. ASSUME NEW c \in CaseIds, NEW s \in Statuses,
             cases' = [cases EXCEPT ![c].status = s], c \in Live,
             cases[c].status # "reassigned", \A e \in Open : e = c,
             s = "open" => active'
      PROVE  SettledInTurn' /\ PromiseWithinPayment'
  <2>1. /\ cases'[c].refund = cases[c].refund /\ cases'[c].bill = cases[c].bill
        /\ cases'[c].paid = cases[c].paid /\ cases'[c].status = s
        /\ cases'[c] # None /\ cases[c].status \in {"open", "refunded"}
    <3>1. cases[c] \in Case
      BY <1>0, <1>6 DEF Live
    <3>2. cases'[c] \in Case
      BY <1>0, <1>6, <3>1 DEF Case
    <3> QED  BY <1>0, <1>6, <3>1, <3>2, NullAssumption DEF Case, Statuses
  <2>2. \A i \in CaseIds \ {c} : cases'[i] = cases[i]
    BY <1>0, <1>6
  <2>3. PromiseWithinPayment'
    BY <1>6, <2>1, <2>2 DEF MoneyInv, PromiseWithinPayment, Live
  <2>4. \A i \in Open' : i = c /\ s = "open"
    BY <1>6, <2>1, <2>2 DEF Open, Live
  <2> QED  BY <1>6, <2>3, <2>4 DEF SettledInTurn
<1>7. ASSUME NEW c \in CaseIds, RefundCase(c) \/ UndoRefund(c) \/ ReassignCase(c)
      PROVE  SettledInTurn' /\ PromiseWithinPayment'
  <2>1. CASE RefundCase(c)
    BY <1>6, <2>1 DEF RefundCase, Open, MoneyInv, SettledInTurn, Statuses
  <2>2. CASE UndoRefund(c)
    BY <1>6, <2>2 DEF UndoRefund, RefundedBan, MoneyInv, SettledInTurn, Statuses
  <2>3. CASE ReassignCase(c)
    BY <1>6, <2>3 DEF ReassignCase, OpenFrom, Open, MoneyInv, SettledInTurn, Statuses
  <2> QED  BY <1>7, <2>1, <2>2, <2>3
<1> QED
  BY <1>1, <1>2, <1>3, <1>4, <1>5, <1>7
  DEF Next, vars, Tick, BeginPay, CommitPay, RefusePay, UpdateBill, DeleteBill,
      OpenForm, UpdateSubscription, UpdateNextPrice, Restart, ArchiveSubscription

(* No refund exceeds its payment: for every history of bans, cancellations,    *)
(* corrections and undone refunds, a bill is refunded by one case at a time,   *)
(* and proratedRefundCents, rounding included, stays within the bill.          *)
THEOREM RefundsStayWithinPayments == Spec => []RefundWithinPayment
<1>1. Init => MoneyInv
  BY LedgerInit DEF Init, MoneyInv, RefundEndsSubscription, SettledInTurn,
     PromiseWithinPayment, Live, Open
<1>2. MoneyInv /\ [Next]_vars => MoneyInv'
  BY LedgerStep, RefundStep, MoneyStep DEF MoneyInv, LedgerInv
<1> QED  BY <1>1, <1>2, PromisesSuffice, PTL DEF Spec
=============================================================================
