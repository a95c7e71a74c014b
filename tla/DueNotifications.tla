-------------------------- MODULE DueNotifications --------------------------
(* The reminders before and on a due date and the advance notice of a new     *)
(* price: planned, tried, retried and cancelled by ProcessDueNotifications,   *)
(* which the scheduler calls once a minute.                                   *)
(*                                                                            *)
(* State: what the planner reads of each subscription, the table              *)
(* notification_log, the run under way and what the channels have confirmed.  *)
(*                                                                            *)
(* A run holds dueNotificationMu from its first statement to its last.  So do *)
(* payments, deferrals, extensions and new prices; bans, leave requests,      *)
(* refunds and archiving do not.  Nor does time: a run reads the clock once,  *)
(* at its start, and what it sends may go out when that day is over.          *)
EXTENDS Integers, FiniteSets, Sequences, FiniteSetsExt

CONSTANTS
  Subs,        \* subscriptions
  Plus,        \* those that rent a Plus account: no mail, no deferral
  Billed,      \* those with a bill for their first period
  Touched,     \* bound: those that operators and customers change
  FirstDues,   \* per subscription, its due dates at first; the last is beyond End
  Slots,       \* slots of a day; the first is before 09:00
  Trigger,     \* the slot in which a due date's schedule fires
  Start, End,  \* bounds: the slots between which time passes
  Ahead,       \* days a customer's reminder comes before the due date
  Notice,      \* days a price notice comes before it, 30 in the code
  Late,        \* fewest days before it that one is still planned, 14 in the code
  BackOff,     \* slots until the next attempt; the attempt after it is final:
               \* 1, 2, 4, 8 minutes in the code
  MaxShift,    \* bound: days of an extension, 365 in the code
  MaxEvents,   \* bound: changes and crashes together
  MaxLag,      \* bound: slots that pass while one run is under way
  None

ASSUME SizesAssumption ==
  /\ {Trigger, Start, End, Ahead, Notice, MaxEvents, MaxLag} \subseteq Nat
  /\ {Slots, Late, MaxShift} \subseteq Nat \ {0}
  /\ Start <= End
  /\ BackOff \in Seq(Nat \ {0})
ASSUME SubsAssumption ==
  /\ IsFiniteSet(Subs) /\ {Plus, Billed, Touched} \subseteq SUBSET Subs
  /\ FirstDues \in [Subs -> Seq(Nat)]
  /\ \A s \in Subs : /\ Len(FirstDues[s]) > 1
                     /\ FirstDues[s][Len(FirstDues[s])] > End

VARIABLES
  subs,     \* per subscription, see Customer
  log,      \* notification_log, by its unique key
  now,      \* the slot: the clock of the service
  run,      \* the run of ProcessDueNotifications
  told,     \* reminders that a channel confirmed, save those it told a program
            \* that died before it had written them down
  events

vars == <<subs, log, now, run, told, events>>

-----------------------------------------------------------------------------
Keys == [sub : Subs, day : Nat, kind : {"due", "ahead", "price"}]
(* The operator gets the reminder of the due day by IYUU, in one message for   *)
(* all customers; each customer gets the other two by mail.                   *)
Digest(k) == k.kind = "due"

(* due: the effective due dates, in order; a period is known by its index.    *)
(* paid: the periods with a bill.  deferred: renewal_deferred_at is set;       *)
(* since: the period in renewal_deferred_due_date, or 0.  ext: the active      *)
(* extension (bound: one at a time); pin: the first period ever extended, or   *)
(* 0.  price: the period in which the next price starts, or 0; applied: the    *)
(* latest due date in subscription_price_changes, or 0.                       *)
Customer(s) ==
  LET periods == 1..Len(FirstDues[s]) IN
  [due : [periods -> Nat], paid : SUBSET periods, deferred : BOOLEAN,
   since : {0} \cup periods, ext : {None} \cup [at : periods, days : 1..MaxShift],
   pin : {0} \cup periods, price : {0} \cup periods, applied : Nat,
   status : {"active", "case", "archived"}]
(* left counts the slots until next_retry_at. *)
Row == [status : {"pending", "success", "failed", "canceled"},
        attempt : 0..Len(BackOff), left : Nat]
(* at: the slot in which the run read the clock; waiting: the rows whose       *)
(* next_retry_at was still to come then; groups: the rows still to be tried,   *)
(* by channel; ready: the rows of the message being sent; answer: what its     *)
(* sender returned; held, for a property: the subscriptions that were passed   *)
(* over when it planned or collected.                                          *)
Run == [at : Nat, waiting : SUBSET Keys, planned : BOOLEAN,
        groups : Seq(SUBSET Keys), ready : SUBSET Keys,
        answer : {"none", "ok", "error"}, held : SUBSET Subs]

ASSUME NoneAssumption == None \notin [at : Nat, days : Nat] \cup Run

NewRun == [at |-> now, waiting |-> {k \in DOMAIN log : log[k].left > 0},
           planned |-> TRUE, groups |-> <<>>, ready |-> {},
           answer |-> "none", held |-> {}]

NoMutex == TRUE                                                     \* mutant
MutexFree == run = None                                \* dueNotificationMu

DayOf(t) == t \div Slots
SmallerOf(a, b) == IF a < b THEN a ELSE b
Rows == DOMAIN log
Is(k, status) == k \in Rows /\ log[k].status = status

Init ==
  /\ subs = [s \in Subs |->
       [due |-> FirstDues[s], paid |-> IF s \in Billed THEN {1} ELSE {},
        deferred |-> FALSE, since |-> 0, ext |-> None, pin |-> 0,
        price |-> 0, applied |-> 0, status |-> "active"]]
  /\ log = <<>>
  /\ now = Start
  /\ run = None
  /\ told = {}
  /\ events = 0

-----------------------------------------------------------------------------
(* Periods of a customer c *)

Periods(c) == DOMAIN c.due
Passed(c, t) == {i \in Periods(c) : c.due[i] * Slots + Trigger <= t}
NextDue(c, t) == Min(Periods(c) \ Passed(c, t))
LastDue(c, t) == IF Passed(c, t) = {} THEN {} ELSE {Max(Passed(c, t))}

(* The period a bill, an extension or a deferral has left on record as unpaid; *)
(* without one, only membership in the schedule counts.                       *)
Anchored(c) == c.paid # {} \/ c.pin # 0 \/ c.since # 0
FirstUnpaid(c, t) ==
  LET pins == IF c.pin # 0 THEN {c.pin}
              ELSE IF c.paid = {} /\ c.since # 0 THEN {c.since} ELSE {}
      bills == IF c.paid = {} THEN {} ELSE c.paid \cup LastDue(c, t)
      start == Min({NextDue(c, t)} \cup bills \cup pins)
  IN Min({i \in Periods(c) : i >= start /\ i \notin c.paid})

IsCurrentFirstUnpaidDueDate(c, day, t) ==
  /\ \E i \in Periods(c) : c.due[i] = day
  /\ Anchored(c) => day = c.due[FirstUnpaid(c, t)]

(* priceChangeAppliesForDueDate *)
PriceApplies(c, day) ==
  c.price # 0 /\ \E i \in Periods(c) : c.due[i] = day /\ i >= c.price

(* notificationMatchesCurrentBoundary *)
Matches(c, k, t) ==
  /\ ~ c.deferred
  /\ IF k.kind = "price" THEN PriceApplies(c, k.day)
     ELSE IsCurrentFirstUnpaidDueDate(c, k.day, t)

Paid(c, day) == \E i \in c.paid : c.due[i] = day

-----------------------------------------------------------------------------
(* Rows of notification_log *)

(* Nobody reads the attempts of a row that is over; a reopened one starts anew. *)
Over(status) == [status |-> status, attempt |-> 0, left |-> 0]
Fresh == Over("pending")
Cancel(K) == [k \in Rows |-> IF k \in K THEN Over("canceled") ELSE log[k]]
PendingOf(s) == {k \in Rows : k.sub = s /\ Is(k, "pending")}

(* cancelInvalidDueNotifications, for s whose due dates are now those of c. *)
Invalid(s, c, from) ==
  {k \in Rows :
     /\ k.sub = s /\ k.day >= from
     /\ ~ Is(k, "success")
     /\ ~ IF k.kind = "price"
          THEN c.price # 0 /\ k.day = c.due[c.price]
          ELSE k.day = c.due[FirstUnpaid(c, now)]}

-----------------------------------------------------------------------------
(* Changes that hold the mutex *)

Change(s, c) ==
  /\ events < MaxEvents
  /\ events' = events + 1
  /\ subs' = [subs EXCEPT ![s] = c]
  /\ UNCHANGED <<now, run, told>>

(* setDuePaid; the next price becomes the price. *)
Pay(s, i) ==
  LET c == subs[s]
      applies == c.price # 0 /\ c.price <= i IN
  /\ MutexFree
  /\ c.status = "active" /\ i \in Periods(c) \ c.paid
  /\ i < Len(FirstDues[s])                             \* bound, as End is
  /\ Change(s, [c EXCEPT !.paid = @ \cup {i}, !.deferred = FALSE, !.since = 0,
                  !.price = IF applies THEN 0 ELSE @,
                  !.applied = IF applies THEN c.due[c.price] ELSE @])
  /\ UNCHANGED log

DeleteBill(s, i) ==
  /\ MutexFree
  /\ subs[s].status = "active" /\ i \in subs[s].paid
  /\ Change(s, [subs[s] EXCEPT !.paid = @ \ {i}, !.deferred = FALSE, !.since = 0])
  /\ UNCHANGED log

(* DeferSubscriptionRenewal, from the first unpaid period on. *)
Defer(s) ==
  LET c == subs[s]
      i == FirstUnpaid(c, now) IN
  /\ MutexFree
  /\ s \notin Plus
  /\ c.status = "active" /\ ~ c.deferred
  /\ c.due[i] <= DayOf(now)
  /\ Change(s, [c EXCEPT !.deferred = TRUE, !.since = i])
  /\ log' = Cancel(PendingOf(s))

RestoreRenewal(s) ==
  /\ MutexFree
  /\ subs[s].status = "active" /\ subs[s].deferred
  /\ Change(s, [subs[s] EXCEPT !.deferred = FALSE])
  /\ UNCHANGED log

(* CompleteDeferredSubscriptions *)
CompleteDeferred(s) ==
  LET c == subs[s] IN
  /\ MutexFree
  /\ c.status = "active" /\ c.deferred
  /\ FirstUnpaid(c, now) = c.since
  /\ Change(s, [c EXCEPT !.status = "archived"])
  /\ log' = Cancel(PendingOf(s))

ShiftedDues(c, i, days) ==
  [j \in Periods(c) |-> c.due[j] + IF j >= i THEN days ELSE 0]

(* applyDueExtension *)
Extend(s, days) ==
  LET c == subs[s]
      i == FirstUnpaid(c, now)
      d == [c EXCEPT !.due = ShiftedDues(c, i, days),
                     !.ext = [at |-> i, days |-> days],
                     !.pin = IF @ = 0 THEN i ELSE SmallerOf(@, i)] IN
  /\ MutexFree
  /\ s \notin Plus
  /\ c.status = "active" /\ ~ c.deferred
  /\ c.ext = None                                      \* bound
  /\ \A j \in c.paid : c.due[j] < c.due[i]
  /\ Change(s, d)
  /\ log' = Cancel(Invalid(s, d, c.due[i]))

(* ReviseCustomerBenefitExtension; 0 days revoke it. *)
Revise(s, days) ==
  LET c == subs[s]
      before == c.due[c.ext.at] - c.ext.days
      d == [c EXCEPT !.due = ShiftedDues(c, c.ext.at, days - c.ext.days),
                     !.ext = IF days = 0 THEN None ELSE [@ EXCEPT !.days = days]]
  IN
  /\ MutexFree
  /\ c.status = "active" /\ ~ c.deferred
  /\ c.ext # None /\ days # c.ext.days
  /\ \A j \in c.paid : c.due[j] < before
  /\ \A k \in Rows : k.sub = s /\ k.day >= before => ~ Is(k, "success")
  /\ c.applied < before
  /\ Change(s, d)
  /\ log' = Cancel(Invalid(s, d, before))

(* A new price from the next unpaid period on, as the pricing pages set it. *)
SetNextPrice(s) ==
  LET c == subs[s]
      unpaid == {i \in Periods(c) \ c.paid : c.due[i] >= DayOf(now)} IN
  /\ MutexFree
  /\ s \notin Plus
  /\ c.status = "active" /\ c.price = 0
  /\ Change(s, [c EXCEPT !.price = Min(unpaid)])
  /\ UNCHANGED log

ClearNextPrice(s) ==
  /\ MutexFree
  /\ subs[s].status = "active" /\ subs[s].price # 0
  /\ Change(s, [subs[s] EXCEPT !.price = 0])
  /\ UNCHANGED log

-----------------------------------------------------------------------------
(* Changes that do not hold it *)

(* A ban or a leave request opens a case. *)
OpenCase(s) ==
  /\ subs[s].status = "active" /\ ~ subs[s].deferred
  /\ Change(s, [subs[s] EXCEPT !.status = "case"])
  /\ UNCHANGED log

(* The case ends, and the subscription with it or not. *)
CloseCase(s, status) ==
  /\ subs[s].status = "case"
  /\ Change(s, [subs[s] EXCEPT !.status = status])
  /\ UNCHANGED log

Archive(s) ==
  /\ subs[s].status = "active" /\ ~ subs[s].deferred
  /\ Change(s, [subs[s] EXCEPT !.status = "archived"])
  /\ UNCHANGED log

-----------------------------------------------------------------------------
(* The run *)

SendDay(k) == k.day - CASE k.kind = "due"   -> 0
                        [] k.kind = "ahead" -> Ahead
                        [] k.kind = "price" -> Notice
(* Its SendAt, 09:00 on its day, is over. *)
SendAtPassed(k, t) == SendDay(k) * Slots + 1 <= t

PlannedFor(c) == c.status = "active" /\ ~ c.deferred

(* planSubscription, at slot t: a price notice from its day on, but not late;  *)
(* a reminder of the last or the next due date on its day only.               *)
Schedule(s, c, t) ==
  LET key(i, kind) == [sub |-> s, day |-> c.due[i], kind |-> kind]
      candidates == (LastDue(c, t) \cup {NextDue(c, t)}) \ c.paid
      kinds == IF s \in Plus THEN {"due"} ELSE {"due", "ahead"}
      today == {k \in {key(i, kind) : i \in candidates, kind \in kinds} :
                  SendDay(k) = DayOf(t)}
      notices == {k \in {key(i, "price") : i \in {c.price} \ {0}} :
                    k.day - DayOf(t) >= Late} IN
  {k \in today \cup notices : SendAtPassed(k, t)}
Planned(s, t) == IF PlannedFor(subs[s]) THEN Schedule(s, subs[s], t) ELSE {}

Sticky(k) == IF k \in Rows THEN log[k] ELSE Fresh                   \* mutant
(* UpsertPendingNotification *)
Upsert(k) == IF k \in Rows /\ ~ Is(k, "canceled") THEN log[k] ELSE Fresh

NeverDue(row) == row                                                \* mutant
Older(row) == [row EXCEPT !.left = IF @ = 0 THEN 0 ELSE @ - 1]

Held == {s \in Subs : subs[s].status # "active"}

(* Time passes, between runs and while one is under way. *)
Tick ==
  /\ run # None => now < run.at + MaxLag
  /\ now' = SmallerOf(now + 1, End)
  /\ log' = [k \in Rows |-> Older(log[k])]
  /\ UNCHANGED <<subs, run, told, events>>

(* The scheduler ticks: the run reads the clock and plans. *)
BeginRun ==
  LET planned == UNION {Planned(s, now) : s \in Subs} IN
  /\ run = None
  /\ log' = [k \in Rows \cup planned |-> IF k \in planned THEN Upsert(k) ELSE log[k]]
  /\ run' = [NewRun EXCEPT !.held = Held]
  /\ UNCHANGED <<subs, now, told, events>>

(* notificationWindowExpired, on the day of slot t *)
Expired(k, t) == IF k.kind = "price" THEN DayOf(t) >= k.day
                 ELSE SendDay(k) < DayOf(t)
InWindow(k, t) == SendAtPassed(k, t) /\ ~ Expired(k, t)

(* ListRetryableNotifications *)
Retryable == {k \in Rows \ run.waiting : /\ Is(k, "pending")
                                        /\ subs[k.sub].status = "active"}

(* The rows whose day is over are cancelled, the others grouped by channel. *)
Collect ==
  LET retryable == Retryable
      rows == {k \in retryable : InWindow(k, run.at)}
      iyuu == {k \in rows : Digest(k)}
      groups == {iyuu, rows \ iyuu} \ {{}} IN
  /\ run # None /\ run.planned
  /\ log' = Cancel({k \in retryable : Expired(k, run.at)})
  /\ \E order \in [1..Cardinality(groups) -> groups] :
       /\ \A g \in groups : \E n \in DOMAIN order : order[n] = g
       /\ run' = [run EXCEPT !.planned = FALSE, !.groups = order,
            !.held = @ \cup Held]
  /\ UNCHANGED <<subs, now, told, events>>

(* What attemptCustomerEmailSends and attemptDigestSend check of a row, in     *)
(* this order: the bill, GetSubscription, which finds no archived row, and the *)
(* boundary, by the clock of that moment.                                      *)
Unpaid(k) == ~ Paid(subs[k.sub], k.day)
Gone(k) == subs[k.sub].status = "archived"
Current(k, t) == Unpaid(k) /\ Matches(subs[k.sub], k, t)
Owed(k) == ~ Gone(k) /\ Current(k, now)

(* The rows of K that stay are tried; those of archived customers have failed  *)
(* for good, unless they are paid, and the others are cancelled.               *)
Strike(K) ==
  [k \in Rows |-> IF k \in K /\ ~ Owed(k)
                  THEN Over(IF Unpaid(k) /\ Gone(k) THEN "failed" ELSE "canceled")
                  ELSE log[k]]

(* The next message: a mail has one row, the digest the rest of its group.    *)
Check ==
  /\ run # None /\ run.ready = {} /\ run.groups # <<>>
  /\ LET group == Head(run.groups) IN
     \E K \in {{k} : k \in {x \in group : ~ Digest(x)}} \cup
              ({{x \in group : Digest(x)}} \ {{}}) :
       LET open == {k \in K : Is(k, "pending")} IN
       /\ log' = Strike(open)
       /\ run' = [run EXCEPT !.ready = {k \in open : Owed(k)},
                    !.groups = IF K = group THEN Tail(@)
                               ELSE <<group \ K>> \o Tail(@)]
  /\ UNCHANGED <<subs, now, told, events>>

(* The channel takes the message and says so. *)
Confirm ==
  /\ run # None /\ run.ready # {} /\ run.answer = "none"
  /\ run' = [run EXCEPT !.answer = "ok"]
  /\ told' = told \cup run.ready
  /\ UNCHANGED <<subs, log, now, events>>

(* It does not, or the answer is lost; a missing sender or template fails too. *)
Fail ==
  /\ run # None /\ run.ready # {} /\ run.answer = "none"
  /\ run' = [run EXCEPT !.answer = "error"]
  /\ UNCHANGED <<subs, log, now, told, events>>

(* MarkNotificationSuccess, or failWithRetry: the last attempt is final.  The  *)
(* retry may just miss a tick, for it counts from the end of the attempt.     *)
Finish(k) ==
  LET attempt == log[k].attempt + 1
      rest == run.ready \ {k} IN
  /\ run.answer # "none"
  /\ run' = [run EXCEPT !.ready = rest,
                        !.answer = IF rest = {} THEN "none" ELSE @]
  /\ IF ~ Is(k, "pending") THEN UNCHANGED log
     ELSE IF run.answer = "ok" THEN log' = [log EXCEPT ![k] = Over("success")]
     ELSE IF attempt > Len(BackOff)
     THEN log' = [log EXCEPT ![k] = Over("failed")]
     ELSE \E missed \in {0, 1} :
            log' = [log EXCEPT ![k].attempt = attempt,
                               ![k].left = BackOff[attempt] + missed]
  /\ UNCHANGED <<subs, now, told, events>>

EndRun ==
  /\ run # None /\ ~ run.planned /\ run.groups = <<>> /\ run.ready = {}
  /\ run' = None
  /\ UNCHANGED <<subs, log, now, told, events>>

(* The server dies in a run; it comes back and runs again at once or later. *)
Crash ==
  /\ run # None
  /\ events < MaxEvents
  /\ events' = events + 1
  /\ run' = None
  /\ told' = told \ run.ready
  /\ UNCHANGED <<subs, log, now>>

-----------------------------------------------------------------------------
Operate(s) ==
  \/ \E i \in Periods(subs[s]) : Pay(s, i) \/ DeleteBill(s, i)
  \/ Defer(s) \/ RestoreRenewal(s) \/ CompleteDeferred(s)
  \/ \E days \in 1..MaxShift : Extend(s, days)
  \/ \E days \in 0..MaxShift : Revise(s, days)
  \/ SetNextPrice(s) \/ ClearNextPrice(s)
  \/ OpenCase(s) \/ Archive(s)
  \/ \E status \in {"active", "archived"} : CloseCase(s, status)

Process ==
  \/ Fail \/ Confirm \/ EndRun \/ Check \/ Collect \/ BeginRun
  \/ run # None /\ \E k \in run.ready : Finish(k)

Next ==
  \/ \E s \in Touched : Operate(s)
  \/ Process
  \/ Tick \/ Crash

Spec == Init /\ [][Next]_vars

(* Time passes, the scheduler ticks for ever, and senders return, by a timeout *)
(* if need be.                                                                 *)
FairSpec == Spec /\ WF_run(Process) /\ WF_<<now, log>>(Tick)

-----------------------------------------------------------------------------
TypeOK ==
  /\ \A s \in Subs : subs[s] \in Customer(s)
  /\ DOMAIN subs = Subs
  /\ Rows \subseteq Keys /\ \A k \in Rows : log[k] \in Row
  /\ now \in Start..End
  /\ run = None \/ run \in Run
  /\ told \in SUBSET Keys
  /\ events \in 0..MaxEvents

(* The slots of the run under way. *)
RunTime == run.at..now

(* What is being sent is pending, and for the customer as he is now its period *)
(* was unpaid, current and not deferred (or its price change stood) when it    *)
(* was checked; the run began after nine on its day.  No payment, deferral,    *)
(* extension or new price slips in between the check and the answer, however  *)
(* long the send lasts, past midnight too; only the clock may have moved on.  *)
ReadyIsOwed ==
  run # None /\ run.answer = "none" =>
    \A k \in run.ready : /\ Is(k, "pending")
                         /\ \E t \in RunTime : Current(k, t)
                         /\ InWindow(k, run.at)

(* README.md:35: while a renewal is deferred nothing waits to be sent. *)
DeferredIsSilent ==
  \A s \in Subs : subs[s].deferred => PendingOf(s) = {}

(* A reminder that its channel confirmed is not sent again, unless the program *)
(* died before it wrote that very result.                                     *)
ConfirmedOnce ==
  [][Confirm => told \cap run.ready = {}]_vars

Tried(k) == \/ Is(k, "success") \/ Is(k, "failed")
            \/ k \in Rows /\ log[k].attempt > 0
(* A run does not end before it has tried, now or earlier, every reminder of   *)
(* the day it began on that was owed all along, unless a case was open when it *)
(* planned or collected: also one that was cancelled before and is owed again. *)
OwedIsTried ==
  [][EndRun => \A s \in Subs \ run.held : \A k \in Planned(s, run.at) :
       ~ Gone(k) /\ (\A t \in RunTime : Current(k, t)) => Tried(k)]_vars

(* No row of a customer without a case waits for ever: again and again all of  *)
(* them are sent, failed for good, or cancelled because their day is over.    *)
PendingSettles ==
  []<>(\A k \in Rows : Is(k, "pending") => subs[k.sub].status # "active")
=============================================================================
