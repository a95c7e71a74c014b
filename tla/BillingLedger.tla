--------------------------- MODULE BillingLedger ---------------------------
(* The money of one subscription: its bills, its price and the price that is  *)
(* scheduled to follow, the edits that rewrite them, and the refunds that      *)
(* after-sales cases promise against a bill.                                   *)
(*                                                                            *)
(* State: the pricing and schedule columns of the row in subscriptions, its   *)
(* rows in bills, subscription_price_changes and after_sales_cases, the edit   *)
(* forms that are open in browsers, and a payment that is being served.       *)
(*                                                                            *)
(* Edits, payments and price scheduling hold dueNotificationMu; refunds, bans *)
(* and cancellations do not, so they may come between the read and the        *)
(* transaction of a payment.  Every transaction is one step.                  *)
EXTENDS Integers, FiniteSets, FiniteSetsExt

CONSTANTS
  Cents,        \* the prices, amounts and refunds an operator types
  Starts,       \* boarding days
  Intervals,    \* billing intervals (the interval form of cron_expr)
  Rentals,      \* business types: "team", "plus"
  Warranty,     \* days a Team payment is refunded over, 30 in the code
  Grace,        \* days until a cancellation request lapses, 1 in the code
  BanDelay,     \* bound: how many days back a ban may be dated
  MaxDay,       \* bound: the last day
  Horizon,      \* bound: the last due date
  CaseIds,      \* bound: the rows of after_sales_cases, 1..n
  Browsers,     \* browser tabs in which an edit form can be open
  None          \* NULL, or no row

ASSUME CentsAssumption == Cents \subseteq Nat
ASSUME CalendarAssumption ==
  /\ Starts \subseteq 0..Horizon
  /\ Intervals \subseteq Nat \ {0}
  /\ Warranty \in Nat \ {0}
  /\ Rentals \subseteq {"team", "plus"}
  /\ {Grace, BanDelay, MaxDay, Horizon} \subseteq Nat
  /\ MaxDay <= Horizon
ASSUME RowsAssumption ==
  /\ CaseIds \subseteq Nat
  /\ IsFiniteSet(CaseIds)
  /\ None \notin Nat

VARIABLES
  today,      \* the date of the wall clock
  rental,     \* subscriptions.business_type
  schedule,   \* subscriptions.boarded_at and cron_expr
  price,      \* subscriptions.price_per_person_cents
  next,       \* next_price_cents and next_price_effective_due_date
  bills,      \* per due date: bills.amount_cents
  changes,    \* the effective due dates in subscription_price_changes
  active,     \* neither archived nor deleted
  cases,      \* per id: after_sales_cases
  form,       \* per tab: what its edit form shows, and whether it is current
  pay         \* the payment between its read and its transaction

pricing == <<rental, schedule, price, next>>
vars == <<today, pricing, bills, changes, active, cases, form, pay>>

-----------------------------------------------------------------------------
(* Rows *)

Days == 0..Horizon
Schedules == [start : Starts, every : Intervals]
NextPrice == [cents : Cents, from : Days]
Sources == {"account_ban", "customer_cancellation"}
Statuses == {"open", "refunded", "reassigned"}
                              \* open stands for pending and for review
Case == [bill : Days \cup {None}, paid : Nat, refund : Nat, day : Nat,
         source : Sources, status : Statuses]
Form == [fresh : BOOLEAN, schedule : Schedules, price : Cents,
         next : NextPrice \cup {None}]
Payment == [due : Days, amount : Cents, fresh : BOOLEAN]
ASSUME NullAssumption == None \notin NextPrice \cup Case \cup Form \cup Payment

Billed == {d \in Days : bills[d] # None}
Live == {c \in CaseIds : cases[c] # None}
Open == {c \in Live : cases[c].status = "open"}
OpenFrom(source) == {c \in Open : cases[c].source = source}
NoReference(d) == TRUE                                              \* mutant
(* ensureBillUnreferenced *)
Unreferenced(d) == \A c \in Live : cases[c].bill # d

(* What the cases in C have refunded of the bill of day d. *)
RefundedOf(d, C) ==
  MapThenSumSet(LAMBDA c : cases[c].refund,
                {c \in C : cases[c].bill = d /\ cases[c].status = "refunded"})

(* nextWriteTime: updated_at moves on, so every snapshot is stale. *)
Touched(r) == IF r = None THEN None ELSE [r EXCEPT !.fresh = FALSE]
KeepForms == UNCHANGED form                                         \* mutant
TouchForms == form' = [b \in Browsers |-> Touched(form[b])]
Touch == TouchForms /\ pay' = Touched(pay)
MutexFree == pay = None                                \* dueNotificationMu

-----------------------------------------------------------------------------
(* The calendar *)

Dues(sc) ==
  {d \in Days : d >= sc.start /\ (d - sc.start) % sc.every = 0}
(* nextPriceEffectiveDueDate: the period a scheduled price starts with. *)
NextUnpaid(sc) == {d \in Dues(sc) : d >= today /\ d \notin Billed}
(* LastDue, or the first due date of a schedule that has not begun. *)
CurrentPeriod(sc) ==
  LET begun == {d \in Dues(sc) : d <= today} IN
  IF begun = {} THEN sc.start ELSE Max(begun)

(* The days of the period that `day` leaves unused. *)
Unused(day, due, period) ==
  IF day - due > period THEN 0 ELSE period - (day - due)
(* proratedRefundCents: rounded half up. *)
Prorated(paid, remaining, period) ==
  IF remaining >= period THEN paid
  ELSE (paid \div period) * remaining
       + ((paid % period) * remaining + period \div 2) \div period

-----------------------------------------------------------------------------
(* A new subscription with the first period billed or not, and perhaps with a *)
(* price that an older version scheduled for a later period than the next.    *)
Init ==
  /\ today = 0
  /\ rental \in Rentals
  /\ schedule \in Schedules
  /\ price \in Cents
  /\ bills \in [Days -> Cents \cup {None}]
  /\ Billed \subseteq {schedule.start}
  /\ \A d \in Billed : bills[d] = price
  /\ next \in NextPrice \cup {None}
  /\ next # None => /\ rental = "team"
                    /\ next.cents # price
                    /\ next.from \in NextUnpaid(schedule)
  /\ changes = {}
  /\ active = TRUE
  /\ cases = [c \in CaseIds |-> None]
  /\ form = [b \in Browsers |-> None]
  /\ pay = None

Tick ==
  /\ today < MaxDay
  /\ today' = today + 1
  /\ UNCHANGED <<pricing, bills, changes, active, cases, form, pay>>

-----------------------------------------------------------------------------
(* Payments *)

AmountFromNext(d) ==                                                \* mutant
  IF next # None /\ d > next.from THEN next.cents ELSE price
(* billAmountCentsForDueDate *)
AmountFor(d) == IF next # None /\ d >= next.from THEN next.cents ELSE price

(* SetDuePaid reads the row, asks for the amount and then writes. *)
BeginPay(d) ==
  /\ MutexFree
  /\ Open = {}
  /\ d \in Dues(schedule) \ Billed
  /\ pay' = [due |-> d, amount |-> AmountFor(d), fresh |-> TRUE]
  /\ UNCHANGED <<today, pricing, bills, changes, active, cases, form>>

PayAsRead == active                                                 \* mutant
(* What the transaction of setDuePaid checks again. *)
Payable == active /\ Open = {} /\ pay.fresh

(* The bill is inserted; a scheduled price that covers it becomes the price,  *)
(* and the change is recorded unless that due date has a record.              *)
CommitPay ==
  LET d == pay.due
      applies == next # None /\ next.from <= d IN
  /\ pay # None
  /\ Payable
  /\ bills' = [bills EXCEPT ![d] = pay.amount]
  /\ IF applies
     THEN /\ price' = next.cents
          /\ next' = None
          /\ changes' = IF next.cents # price THEN changes \cup {next.from}
                        ELSE changes
     ELSE UNCHANGED <<price, next, changes>>
  /\ TouchForms
  /\ pay' = None
  /\ UNCHANGED <<today, rental, schedule, active, cases>>

RefusePay ==
  /\ pay # None
  /\ pay' = None
  /\ UNCHANGED <<today, pricing, bills, changes, active, cases, form>>

(* UpdateBill *)
UpdateBill(d, cents) ==
  /\ MutexFree
  /\ d \in Billed /\ Unreferenced(d)
  /\ bills' = [bills EXCEPT ![d] = cents]
  /\ Touch
  /\ UNCHANGED <<today, pricing, changes, active, cases>>

(* deleteBillIfUnreferenced, for a deleted bill or a payment taken back. *)
DeleteBill(d) ==
  /\ MutexFree
  /\ d \in Billed /\ Unreferenced(d)
  /\ bills' = [bills EXCEPT ![d] = None]
  /\ Touch
  /\ UNCHANGED <<today, pricing, changes, active, cases>>

-----------------------------------------------------------------------------
(* Prices and schedules *)

(* An operator opens an edit form, in place of the one open in that tab. *)
OpenForm(b) ==
  /\ active
  /\ form' = [form EXCEPT ![b] = [fresh |-> TRUE, schedule |-> schedule,
                                  price |-> price, next |-> next]]
  /\ UNCHANGED <<today, pricing, bills, changes, active, cases, pay>>

AsScheduled(sc, p, n) ==                                            \* mutant
  IF next # None /\ next.cents = n THEN {next.from}
  ELSE NextUnpaid(sc)
(* configureNextPrice: the candidates for the period in which price n starts. *)
EffectiveFrom(sc, p, n) ==
  IF sc = schedule /\ next # None /\ next.cents = n THEN {next.from}
  ELSE IF sc # schedule /\ Cardinality(Billed) = 1
  THEN {d \in Dues(sc) : d >= today /\ d > sc.start}
  ELSE NextUnpaid(sc)

(* A schedule is only corrected before the second bill, and moves the first.  *)
Correctable(sc) ==
  \/ Billed = {}
  \/ /\ Billed = {schedule.start}
     /\ sc.start # schedule.start => Unreferenced(schedule.start)

(* What an edit does to the bills: the first one moves with a corrected       *)
(* schedule, else the current period's follows a corrected price; a bill that *)
(* a case refers to keeps its amount.                                         *)
EditedBills(sc, p) ==
  LET from == IF sc = schedule THEN CurrentPeriod(sc) ELSE schedule.start
      to == IF sc = schedule THEN from ELSE sc.start
      follows == sc # schedule \/ p # price
      amount == IF follows /\ Unreferenced(from) THEN p ELSE bills[from] IN
  IF from \notin Billed THEN bills
  ELSE [d \in Days |-> IF d = to THEN amount
                       ELSE IF d = from THEN None ELSE bills[d]]

(* Update saves the form: a new schedule, price and next price.  The version  *)
(* the form was opened with is checked before and inside the transaction.     *)
UpdateSubscription(b, sc, p, n) ==
  /\ MutexFree
  /\ form[b] # None /\ form[b].fresh
  /\ active /\ Open = {}
  /\ sc # schedule => Correctable(sc)
  /\ IF n = None THEN next' = None
     ELSE /\ n # p
          /\ EffectiveFrom(sc, p, n) # {}
          /\ next' = [cents |-> n, from |-> Min(EffectiveFrom(sc, p, n))]
  /\ schedule' = sc
  /\ price' = p
  /\ bills' = EditedBills(sc, p)
  /\ form' = [c \in Browsers |-> IF c = b THEN None ELSE Touched(form[c])]
  /\ UNCHANGED <<today, rental, changes, active, cases, pay>>

(* ScheduleBulkNextPrice and ScheduleManualNextPrices, for one Team seat. *)
UpdateNextPrice(n) ==
  /\ MutexFree
  /\ rental = "team"
  /\ active /\ Open = {}
  /\ next = None
  /\ n # price
  /\ NextUnpaid(schedule) # {}
  /\ next' = [cents |-> n, from |-> Min(NextUnpaid(schedule))]
  /\ Touch
  /\ UNCHANGED <<today, rental, schedule, price, bills, changes, active, cases>>

(* A restart loses the payment being served and then moves a postponed price  *)
(* to the next period (NormalizeScheduledNextPriceEffectiveDates).            *)
Restart ==
  LET due == NextUnpaid(schedule)
      postponed == active /\ next # None /\ due # {} /\ next.from > Min(due) IN
  /\ IF postponed
     THEN next' = [next EXCEPT !.from = Min(due)] /\ TouchForms
     ELSE UNCHANGED <<next, form>>
  /\ pay' = None
  /\ UNCHANGED <<today, rental, schedule, price, bills, changes, active, cases>>

-----------------------------------------------------------------------------
(* After-sales cases *)

(* ensureNoFuturePaidBills *)
NoReceiptAfter(day) ==
  \A d \in Billed : d > day => bills[d] <= RefundedOf(d, Live)

(* The case of an event on `day`: it snapshots the last bill until then and   *)
(* promises the unused share of the period that started with it.              *)
CaseOf(day, source, period) ==
  LET until == {d \in Billed : d <= day}
      bill == Max(until) IN
  [day |-> day, source |-> source, status |-> "open",
   bill |-> IF until = {} THEN None ELSE bill,
   paid |-> IF until = {} THEN 0 ELSE bills[bill],
   refund |-> IF until = {} THEN 0 ELSE
              Prorated(bills[bill], Unused(day, bill, period), period)]

(* An INSERT in the first free row, after the rows in S were deleted. *)
Inserted(c, S) ==
  LET free == {i \in CaseIds : cases[i] = None \/ i \in S} IN
  [i \in CaseIds |-> IF i = Min(free) THEN c
                     ELSE IF i \in S THEN None ELSE cases[i]]
Room(S) == Live \ S # CaseIds

(* RequestSubscriptionCancellation *)
RequestCancellation ==
  /\ active /\ Open = {}
  /\ NoReceiptAfter(today)
  /\ Room({})
  /\ cases' = Inserted(CaseOf(today, "customer_cancellation",
                              IF rental = "plus" THEN schedule.every ELSE Warranty), {})
  /\ Touch
  /\ UNCHANGED <<today, pricing, bills, changes, active>>

(* RestoreExpiredCancellationRequests *)
RestoreCancellation ==
  LET S == {c \in OpenFrom("customer_cancellation") :
              cases[c].day + Grace <= today} IN
  /\ active /\ S # {}
  /\ cases' = [c \in CaseIds |-> IF c \in S THEN None ELSE cases[c]]
  /\ Touch
  /\ UNCHANGED <<today, pricing, bills, changes, active>>

(* BanAccountAndCreateAfterSalesCases for the account of this subscription;   *)
(* a ban that is repeated finds its case and changes nothing.                 *)
BanAccount(day) ==
  LET superseded == OpenFrom("customer_cancellation") IN
  /\ rental = "team"
  /\ active /\ OpenFrom("account_ban") = {}
  /\ NoReceiptAfter(day)
  /\ Room(superseded)
  /\ cases' = Inserted(CaseOf(day, "account_ban", Warranty), superseded)
  /\ IF superseded # {} THEN Touch ELSE UNCHANGED <<form, pay>>
  /\ UNCHANGED <<today, pricing, bills, changes, active>>

AnyRefund(c, cents) == TRUE                                         \* mutant
(* ensureAfterSalesRefundWithinPayment *)
WithinPayment(c, cents) ==
  /\ NoReceiptAfter(cases[c].day)
  /\ cases[c].bill # None =>
       cents + RefundedOf(cases[c].bill, Live \ {c}) <= cases[c].paid

(* UpdateAfterSalesCase *)
UpdateCase(c, cents) ==
  /\ c \in Open
  /\ WithinPayment(c, cents)
  /\ cases' = [cases EXCEPT ![c].refund = cents]
  /\ UNCHANGED <<today, pricing, bills, changes, active, form, pay>>

(* CompleteCancellationRefund and SetAfterSalesCaseRefunded: the refund ends  *)
(* the subscription.                                                          *)
RefundCase(c) ==
  /\ c \in Open
  /\ active
  /\ WithinPayment(c, cases[c].refund)
  /\ cases' = [cases EXCEPT ![c].status = "refunded"]
  /\ active' = FALSE
  /\ Touch
  /\ UNCHANGED <<today, pricing, bills, changes>>

(* The cases whose completion SetAfterSalesCaseRefunded takes back. *)
RefundedBan(c) ==
  cases[c].source = "account_ban" /\ cases[c].status = "refunded"

(* The customer is active again, if the seat allows it. *)
UndoRefund(c) ==
  /\ c \in Live /\ RefundedBan(c)
  /\ ~active
  /\ cases' = [cases EXCEPT ![c].status = "open"]
  /\ active' = TRUE
  /\ Touch
  /\ UNCHANGED <<today, pricing, bills, changes>>

ReassignCase(c) ==
  /\ c \in OpenFrom("account_ban")
  /\ active
  /\ cases' = [cases EXCEPT ![c].status = "reassigned"]
  /\ Touch
  /\ UNCHANGED <<today, pricing, bills, changes, active>>

(* The subscription ends without a refund: expiry, removal or by hand. *)
ArchiveSubscription ==
  /\ active /\ Open = {}
  /\ active' = FALSE
  /\ Touch
  /\ UNCHANGED <<today, pricing, bills, changes, cases>>

-----------------------------------------------------------------------------
Next ==
  \/ Tick
  \/ \E d \in Days : BeginPay(d)
  \/ CommitPay
  \/ RefusePay
  \/ \E d \in Days, cents \in Cents : UpdateBill(d, cents)
  \/ \E d \in Days : DeleteBill(d)
  \/ \E b \in Browsers : OpenForm(b)
  \/ \E b \in Browsers, sc \in Schedules, p \in Cents, n \in Cents \cup {None} :
       UpdateSubscription(b, sc, p, n)
  \/ \E n \in Cents : UpdateNextPrice(n)
  \/ Restart
  \/ RequestCancellation
  \/ RestoreCancellation
  \/ \E day \in {d \in 0..today : d >= today - BanDelay} : BanAccount(day)
  \/ \E c \in CaseIds, cents \in Cents : UpdateCase(c, cents)
  \/ \E c \in CaseIds : RefundCase(c)
  \/ \E c \in CaseIds : UndoRefund(c)
  \/ \E c \in CaseIds : ReassignCase(c)
  \/ ArchiveSubscription

Spec == Init /\ [][Next]_vars

-----------------------------------------------------------------------------
(* Invariants *)

(* Every column holds a value its type allows. *)
TypeOK ==
  /\ today \in Nat
  /\ rental \in Rentals
  /\ schedule \in Schedules
  /\ price \in Cents
  /\ next \in NextPrice \cup {None}
  /\ bills \in [Days -> Cents \cup {None}]
  /\ changes \in SUBSET Days
  /\ active \in BOOLEAN
  /\ cases \in [CaseIds -> Case \cup {None}]
  /\ form \in [Browsers -> Form \cup {None}]
  /\ pay \in Payment \cup {None}

(* A bill that a case refers to is immutable history: whatever is edited,     *)
(* moved, synchronised, deleted or paid, it still is what the case snapshot   *)
(* says was paid.                                                             *)
ReferencedBillIsImmutable ==
  \A c \in Live : cases[c].bill # None => bills[cases[c].bill] = cases[c].paid

(* No refund exceeds its payment: what was refunded of a bill, together with  *)
(* what an open case may still refund, is at most the amount of the bill,     *)
(* through undone refunds, corrections and second bans of the same period.    *)
RefundWithinPayment ==
  \A d \in Days : \A c \in Live :
    cases[c].bill = d /\ cases[c].status \in {"open", "refunded"}
    => d \in Billed
       /\ RefundedOf(d, Live \ {c}) + cases[c].refund <= bills[d]

(* A customer is refunded once, and the refund ended the subscription. *)
RefundEndsSubscription ==
  \A c \in Live : cases[c].status = "refunded" =>
    /\ ~active
    /\ \A e \in Live : cases[e].status = "refunded" => e = c

(* Every bill is a period of the schedule as it is now: correcting the        *)
(* boarding day or the interval never leaves a receipt between two periods.   *)
BillsAreOnSchedule == Billed \subseteq Dues(schedule)

(* A scheduled price waits for a period of the schedule that nobody has paid:  *)
(* no edit, payment or restart makes it retroactive or lets it miss.          *)
ScheduledPriceIsAhead ==
  next # None => /\ next.from \in Dues(schedule) \ Billed
                 /\ next.cents # price

-----------------------------------------------------------------------------
(* What a step may never do *)

(* A form that is saved shows the schedule and the prices it overwrites: a     *)
(* payment, a restart, a goal or another tab that changed them refuses it.     *)
NoLostUpdate ==
  [][\A b \in Browsers : form[b] # None /\ form'[b] = None =>
       /\ form[b].schedule = schedule
       /\ form[b].price = price
       /\ form[b].next = next]_vars

(* The receipt and the price agree: a payment is recorded at the price that    *)
(* applies to the subscription from that moment on, unless it is for a period *)
(* before the scheduled one, which leaves price and schedule alone.            *)
PaymentAgreesWithPrice ==
  [][\A d \in Days :
       pay # None /\ d \notin Billed /\ bills'[d] # None =>
         /\ bills'[d] = price'
         /\ next' # None => next' = next /\ d < next.from]_vars

(* While a case is open no receipt is added to the subscription, even by a     *)
(* payment that was being served when the ban or the cancellation came.        *)
NoReceiptDuringAfterSales ==
  [][\A d \in Days : Open # {} /\ d \notin Billed => bills'[d] = None]_vars

(* store.go:3073-3075 says that the price transition is recorded first and     *)
(* that neither it nor the new price "can succeed without the other".          *)
PriceChangeIsRecorded ==
  [][pay # None /\ price' # price =>
       next.from \in changes' \ changes]_vars

=============================================================================
