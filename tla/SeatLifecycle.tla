--------------------------- MODULE SeatLifecycle ---------------------------
(* The life of a subscription on a seat: who occupies which seat of which    *)
(* parent account, from boarding to departure, through account bans, customer *)
(* cancellations, deferred renewals, refunds, reassignments and restarts.     *)
(*                                                                            *)
(* State: the rows of the tables accounts, subscriptions and after_sales_cases *)
(* (internal/db/store.go), and the requests that are being served.  The store *)
(* has one SQLite connection, so a transaction is one step.  Three handlers   *)
(* read the clock and some rows before their transaction starts (leaving by   *)
(* request, completing a refund, completing deferred removals): these are two *)
(* steps, Begin... and Commit..., with any other step in between.             *)
(*                                                                            *)
(* Time: `clock` counts instants in days.  A step that reads the clock to     *)
(* stamp a departure takes an instant of its own, as two requests never see   *)
(* the same time.Now(); the members of one batch do share one.                *)
EXTENDS Integers, FiniteSets

CONSTANTS
  Accounts,       \* parent accounts (accounts.id)
  Seats,          \* seats (seats.id)
  AccountOf,      \* seats.account_id
  Owner,          \* the owner mailbox that links accounts into a pause group
  Subs,           \* subscription ids 1..n, handed out in insertion order
  Plus,           \* the ids whose business_type is plus: they rent no seat
  Handlers,       \* request goroutines that can be between read and commit
  NoSeat,         \* seat_id IS NULL
  NoAccount,      \* account_id IS NULL
  NoCase,         \* a request that names no after-sales case
  Allowance,      \* departures that release a seat at once, 4 in the code
  Window,         \* days the allowance is counted over, 30 in the code
  FreezeDays,     \* the seat_freeze_days setting, 7 by default
  Grace,          \* days until a cancellation request lapses, 1 in the code
  Period,         \* days between two due dates
  MaxTime,        \* bound: the last instant
  MaxBills,       \* bound: paid periods of one subscription
  BanDelay,       \* bound: how many days back a ban may be dated
  MaxBatch        \* bound: removals confirmed in one request, 1000 in the code

ASSUME SeatAssumption ==
  /\ AccountOf \in [Seats -> Accounts]
  /\ NoSeat \notin Seats
  /\ NoAccount \notin Accounts
ASSUME SubsAssumption ==
  /\ Subs \subseteq Nat
  /\ IsFiniteSet(Subs)
  /\ Plus \subseteq Subs
ASSUME NullAssumption == NoSeat \notin Subs
ASSUME TimeAssumption ==
  /\ {Allowance, Window, FreezeDays, Grace, Period} \subseteq Nat
  /\ MaxTime \in Nat
  /\ MaxBills \in Nat
  /\ BanDelay \in Nat
  /\ MaxBatch \in Nat \ {0}

VARIABLES
  clock,        \* the wall clock
  paused,       \* accounts.paused
  banned,       \* accounts.banned_at
  life,         \* where the subscription row is between INSERT and removal
  seatOf,       \* subscriptions.seat_id
  archivedAt,   \* subscriptions.archived_at
  frozenUntil,  \* subscriptions.seat_frozen_until
  boardedAt,    \* the first due date of the schedule
  bills,        \* how many consecutive periods have a bill
  deferred,     \* subscriptions.renewal_deferred_at IS NOT NULL
  requestedAt,  \* subscriptions.cancellation_requested_at
  cases,        \* after_sales_cases
  req           \* per handler: the request between its read and its commit

accountVars == <<paused, banned>>
rowVars == <<life, seatOf, archivedAt, frozenUntil, boardedAt, bills,
             deferred, requestedAt>>
vars == <<clock, accountVars, rowVars, cases, req>>

-----------------------------------------------------------------------------
(* Rows *)

NoTime == -1                  \* a NULL timestamp
Time == Nat \cup {NoTime}
Life == {"absent", "active", "archived", "deleted", "removed"}
                              \* deleted: deleted_at is set; removed: no row left
Sources == {"account_ban", "customer_cancellation"}
Statuses == {"open", "refunded", "reassigned"}
                              \* open stands for pending and for review
Case == [account : Accounts \cup {NoAccount}, sub : Subs, day : Nat,
         source : Sources, status : Statuses]

Batches == UNION {[1..n -> Subs] : n \in 0..MaxBatch}
Request == [op : {"idle", "expire", "cancel", "refund", "batch"},
            subs : Batches, case : Case \cup {NoCase}, at : Nat,
            fresh : BOOLEAN]
Idle == [op |-> "idle", subs |-> <<>>, case |-> NoCase, at |-> 0,
         fresh |-> FALSE]
Members(r) == {r.subs[i] : i \in DOMAIN r.subs}

Active(s) == life[s] = "active"
Departed(s) == life[s] \in {"archived", "deleted"}
Frozen(s) == life[s] = "archived" /\ frozenUntil[s] > clock
HasSeat(s) == seatOf[s] # NoSeat

(* The subscriptions that make a seat unavailable in the occupancy triggers. *)
HoldersInCoolDown(t) == {s \in Subs : seatOf[s] = t /\ Frozen(s)}   \* mutant
HoldersOnBoard(t) == {s \in Subs : seatOf[s] = t /\ Active(s)}      \* mutant
Holders(t) == {s \in Subs : seatOf[s] = t /\ (Active(s) \/ Frozen(s))}

(* ensureSeatAccountAvailable *)
AssignableUnlessBanned(t) == banned[AccountOf[t]] = NoTime          \* mutant
Assignable(t) == ~paused[AccountOf[t]] /\ banned[AccountOf[t]] = NoTime

CasesOf(s) == {c \in cases : c.sub = s}
OpenCases(s) == {c \in CasesOf(s) : c.status = "open"}
(* The case subscriptions.cancellation_case_id points to. *)
CancellationOf(s) ==
  {c \in OpenCases(s) : c.source = "customer_cancellation"
                        /\ c.day = requestedAt[s]}

(* ensureRenewalNotDeferred *)
NeverDeferred(s) == TRUE                                            \* mutant
RenewalNotDeferred(s) == ~deferred[s]

(* The first due date without a bill, and bills for a period not begun. *)
Due(s) == boardedAt[s] + Period * bills[s]
Prepaid(s, day) == bills[s] > 0 /\ Due(s) - Period > day

(* updated_at of these rows changes: a snapshot taken earlier is stale.  Only *)
(* expiries and batches compare versions, the others are never fresh.         *)
Touch(S) ==
  [h \in Handlers |-> [req[h] EXCEPT !.fresh = @ /\ Members(req[h]) \cap S = {}]]
MutexFree == \A h \in Handlers : req[h].op # "batch"   \* dueNotificationMu

-----------------------------------------------------------------------------
(* The rolling allowance of immediate releases *)

(* Departures counted by teamSeatFreezeDeadline for one leaving at `at`. *)
RecentDepartures(s, at) ==
  {r \in Subs \ {s} :
     /\ Departed(r)
     /\ HasSeat(r)
     /\ AccountOf[seatOf[r]] = AccountOf[seatOf[s]]
     /\ archivedAt[r] >= at - Window
     /\ archivedAt[r] <= at}

UncountedBatch(s, at, ahead) ==                                     \* mutant
  IF HasSeat(s) /\ Cardinality(RecentDepartures(s, at)) >= Allowance
  THEN at + FreezeDays ELSE NoTime
(* `ahead` left earlier in the same transaction and at the same instant. *)
FreezeDeadline(s, at, ahead) ==
  IF /\ HasSeat(s)
     /\ Cardinality(RecentDepartures(s, at)
                      \cup {r \in ahead : HasSeat(r) /\ AccountOf[seatOf[r]]
                                                = AccountOf[seatOf[s]]})
          >= Allowance
  THEN at + FreezeDays
  ELSE NoTime

(* archiveSubscriptionInTransaction for every member of S; `keep` is the     *)
(* cancellation case the transaction itself completes.                       *)
ArchiveRows(S, at, until, keep) ==
  /\ life' = [s \in Subs |-> IF s \in S THEN "archived" ELSE life[s]]
  /\ archivedAt' = [s \in Subs |-> IF s \in S /\ archivedAt[s] = NoTime
                                   THEN at ELSE archivedAt[s]]
  /\ frozenUntil' = [s \in Subs |-> IF s \in S THEN until[s] ELSE frozenUntil[s]]
  /\ deferred' = [s \in Subs |-> deferred[s] /\ s \notin S]
  /\ requestedAt' = [s \in Subs |-> IF s \in S THEN NoTime ELSE requestedAt[s]]
  /\ cases' = (cases \ (keep \cup UNION {CancellationOf(s) : s \in S}))
              \cup {[c EXCEPT !.status = "refunded"] : c \in keep}
  /\ UNCHANGED <<seatOf, boardedAt, bills>>

-----------------------------------------------------------------------------
Init ==
  /\ clock = 0
  /\ paused = [a \in Accounts |-> FALSE]
  /\ banned = [a \in Accounts |-> NoTime]
  /\ life = [s \in Subs |-> "absent"]
  /\ seatOf = [s \in Subs |-> NoSeat]
  /\ archivedAt = [s \in Subs |-> NoTime]
  /\ frozenUntil = [s \in Subs |-> NoTime]
  /\ boardedAt = [s \in Subs |-> NoTime]
  /\ bills = [s \in Subs |-> 0]
  /\ deferred = [s \in Subs |-> FALSE]
  /\ requestedAt = [s \in Subs |-> NoTime]
  /\ cases = {}
  /\ req = [h \in Handlers |-> Idle]

Tick ==
  /\ clock < MaxTime
  /\ clock' = clock + 1
  /\ UNCHANGED <<accountVars, rowVars, cases, req>>

-----------------------------------------------------------------------------
(* Boarding and editing *)

(* An INSERT: a new registration, a copy, or a redemption that was invited,   *)
(* with the first period already billed or not.                               *)
CreateSubscription(s, t, paid) ==
  /\ life[s] = "absent"
  /\ \A r \in Subs : r < s => life[r] # "absent"
  /\ paid <= MaxBills
  /\ IF s \in Plus THEN t = NoSeat
     ELSE t \in Seats /\ Assignable(t) /\ Holders(t) = {}
  /\ life' = [life EXCEPT ![s] = "active"]
  /\ seatOf' = [seatOf EXCEPT ![s] = t]
  /\ boardedAt' = [boardedAt EXCEPT ![s] = clock]
  /\ bills' = [bills EXCEPT ![s] = paid]
  /\ UNCHANGED <<clock, accountVars, archivedAt, frozenUntil, deferred,
                 requestedAt, cases, req>>

(* An edit, which may move the customer to another seat. *)
UpdateSubscription(s, t) ==
  /\ MutexFree
  /\ Active(s) /\ HasSeat(s)
  /\ OpenCases(s) = {}
  /\ t # seatOf[s] => ~deferred[s] /\ Assignable(t)
  /\ Holders(t) \subseteq {s}
  /\ seatOf' = [seatOf EXCEPT ![s] = t]
  /\ req' = Touch({s})
  /\ UNCHANGED <<clock, accountVars, life, archivedAt, frozenUntil, boardedAt,
                 bills, deferred, requestedAt, cases>>

(* The first unpaid period is recorded as paid. *)
SetDuePaid(s) ==
  /\ MutexFree
  /\ Active(s)
  /\ OpenCases(s) = {}
  /\ bills[s] < MaxBills
  /\ bills' = [bills EXCEPT ![s] = @ + 1]
  /\ deferred' = [deferred EXCEPT ![s] = FALSE]
  /\ req' = Touch({s})
  /\ UNCHANGED <<clock, accountVars, life, seatOf, archivedAt, frozenUntil,
                 boardedAt, requestedAt, cases>>

(* The last payment is taken back, unless a case may refer to its bill. *)
DeleteBill(s) ==
  /\ MutexFree
  /\ bills[s] > 0
  /\ CasesOf(s) = {}
  /\ bills' = [bills EXCEPT ![s] = @ - 1]
  /\ deferred' = [deferred EXCEPT ![s] = FALSE]
  /\ req' = Touch({s})
  /\ UNCHANGED <<clock, accountVars, life, seatOf, archivedAt, frozenUntil,
                 boardedAt, requestedAt, cases>>

(* A registration entered by mistake disappears with everything it owns. *)
DeleteMistakenTeamSubscription(s) ==
  /\ MutexFree
  /\ Active(s) /\ s \notin Plus
  /\ CasesOf(s) = {}
  /\ life' = [life EXCEPT ![s] = "removed"]
  /\ seatOf' = [seatOf EXCEPT ![s] = NoSeat]
  /\ bills' = [bills EXCEPT ![s] = 0]
  /\ deferred' = [deferred EXCEPT ![s] = FALSE]
  /\ req' = Touch({s})
  /\ UNCHANGED <<clock, accountVars, archivedAt, frozenUntil, boardedAt,
                 requestedAt, cases>>

-----------------------------------------------------------------------------
(* Leaving *)

(* The operator archives by hand.  Neither the store nor the service asks     *)
(* whether the row is archived already.                                       *)
ArchiveSubscription(s) ==
  /\ clock < MaxTime
  /\ Active(s) \/ life[s] = "archived"
  /\ RenewalNotDeferred(s)
  /\ OpenCases(s) = {}
  /\ clock' = clock + 1
  /\ ArchiveRows({s}, clock + 1, [r \in {s} |-> NoTime], {})
  /\ req' = Touch({s})
  /\ UNCHANGED accountVars

SoftDeleteArchivedSubscription(s) ==
  /\ life[s] = "archived" /\ ~Frozen(s)
  /\ CasesOf(s) = {} /\ bills[s] = 0
  /\ life' = [life EXCEPT ![s] = "deleted"]
  /\ req' = Touch({s})
  /\ UNCHANGED <<clock, accountVars, seatOf, archivedAt, frozenUntil, boardedAt,
                 bills, deferred, requestedAt, cases>>

(* Cancellations past their grace period are withdrawn. *)
Lapsed(s) == Active(s) /\ requestedAt[s] # NoTime
             /\ requestedAt[s] + Grace <= clock
RestoreExpiredCancellationRequests ==
  LET S == {s \in Subs : Lapsed(s)} IN
  /\ S # {}
  /\ cases' = cases \ UNION {CancellationOf(s) : s \in S}
  /\ requestedAt' = [s \in Subs |-> IF s \in S THEN NoTime ELSE requestedAt[s]]
  /\ frozenUntil' = [s \in Subs |-> IF s \in S THEN NoTime ELSE frozenUntil[s]]
  /\ req' = Touch(S)
  /\ UNCHANGED <<clock, accountVars, life, seatOf, archivedAt, boardedAt, bills,
                 deferred>>

(* A leave request: lapsed requests are restored first, then the clock and the *)
(* row are read.  A period that is over ends naturally, any other cancels.     *)
BeginLeave(h, s) ==
  /\ req[h].op = "idle"
  /\ clock < MaxTime
  /\ \A r \in Subs : ~Lapsed(r)
  /\ Active(s) /\ RenewalNotDeferred(s)
  /\ clock' = clock + 1
  /\ req' = [req EXCEPT ![h] =
               [op |-> IF Due(s) <= clock + 1 THEN "expire" ELSE "cancel",
                subs |-> <<s>>, case |-> NoCase, at |-> clock + 1,
                fresh |-> Due(s) <= clock + 1]]
  /\ UNCHANGED <<accountVars, rowVars, cases>>

(* The snapshot and the unpaid boundary are checked again in the transaction   *)
(* that archives.  Without a bill there is no boundary.                        *)
ExpiryAsRead(h, s) == TRUE                                          \* mutant
StillExpired(h, s) ==
  /\ req[h].fresh
  /\ ~Prepaid(s, req[h].at)
  /\ bills[s] > 0 => Due(s) <= req[h].at

(* ArchiveExpiredSubscription *)
CommitExpire(h) ==
  LET s == req[h].subs[1]
      at == req[h].at IN
  /\ req[h].op = "expire"
  /\ StillExpired(h, s)
  /\ Active(s) /\ RenewalNotDeferred(s)
  /\ OpenCases(s) = {}
  /\ ArchiveRows({s}, at, [r \in {s} |-> FreezeDeadline(s, at, {})], {})
  /\ req' = [Touch({s}) EXCEPT ![h] = Idle]
  /\ UNCHANGED <<clock, accountVars>>

(* The columns of the unique key of after_sales_cases. *)
SameOccurrence(c, d) ==
  c.account = d.account /\ c.sub = d.sub /\ c.day = d.day

(* RequestSubscriptionCancellation: the case is opened, the seat is kept. *)
CommitCancel(h) ==
  LET s == req[h].subs[1]
      at == req[h].at
      opened == [account |-> IF s \in Plus THEN NoAccount
                             ELSE AccountOf[seatOf[s]],
                 sub |-> s, day |-> at, source |-> "customer_cancellation",
                 status |-> "open"] IN
  /\ req[h].op = "cancel"
  /\ Active(s) /\ RenewalNotDeferred(s)
  /\ requestedAt[s] = NoTime
  /\ OpenCases(s) = {}
  /\ ~Prepaid(s, at)
  /\ opened.account # NoAccount => \A c \in cases : ~SameOccurrence(c, opened)
  /\ cases' = cases \cup {opened}
  /\ requestedAt' = [requestedAt EXCEPT ![s] = at]
  /\ req' = [Touch({s}) EXCEPT ![h] = Idle]
  /\ UNCHANGED <<clock, accountVars, life, seatOf, archivedAt, frozenUntil,
                 boardedAt, bills, deferred>>

-----------------------------------------------------------------------------
(* After-sales: refunds, undoing a refund, reassignment *)

BeginRefund(h, c) ==
  /\ req[h].op = "idle"
  /\ clock < MaxTime
  /\ c.status = "open"
  /\ clock' = clock + 1
  /\ req' = [req EXCEPT ![h] = [op |-> "refund", subs |-> <<c.sub>>, case |-> c,
                                at |-> clock + 1, fresh |-> FALSE]]
  /\ UNCHANGED <<accountVars, rowVars, cases>>

(* CompleteCancellationRefund *)
CommitCancellationRefund(h) ==
  LET s == req[h].subs[1]
      c == req[h].case
      at == req[h].at IN
  /\ req[h].op = "refund"
  /\ c \in cases
  /\ c.source = "customer_cancellation" /\ requestedAt[s] = c.day
  /\ Active(s)
  /\ ~Prepaid(s, c.day)
  /\ ArchiveRows({s}, at, [r \in {s} |-> FreezeDeadline(s, at, {})], {c})
  /\ req' = [Touch({s}) EXCEPT ![h] = Idle]
  /\ UNCHANGED <<clock, accountVars>>

(* SetAfterSalesCaseRefunded for a case of an account ban: no cool-down. *)
CommitBanRefund(h) ==
  LET s == req[h].subs[1]
      c == req[h].case
      at == req[h].at IN
  /\ req[h].op = "refund"
  /\ c \in cases
  /\ c.source = "account_ban"
  /\ Active(s)
  /\ ~Prepaid(s, c.day)
  /\ life' = [life EXCEPT ![s] = "archived"]
  /\ archivedAt' = [archivedAt EXCEPT ![s] = at]
  /\ frozenUntil' = [frozenUntil EXCEPT ![s] = NoTime]
  /\ requestedAt' = [requestedAt EXCEPT ![s] = NoTime]
  /\ cases' = (cases \ ({c} \cup CancellationOf(s)))
              \cup {[c EXCEPT !.status = "refunded"]}
  /\ req' = [Touch({s}) EXCEPT ![h] = Idle]
  /\ UNCHANGED <<clock, accountVars, seatOf, boardedAt, bills, deferred>>

(* The refund of a ban is taken back: the customer sits on the seat again. *)
UndoBanRefund(c) ==
  LET s == c.sub IN
  /\ c.source = "account_ban" /\ c.status = "refunded"
  /\ life[s] = "archived" /\ HasSeat(s)
  /\ ~paused[AccountOf[seatOf[s]]]
  /\ Holders(seatOf[s]) \subseteq {s}
  /\ cases' = (cases \ {c}) \cup {[c EXCEPT !.status = "open"]}
  /\ life' = [life EXCEPT ![s] = "active"]
  /\ archivedAt' = [archivedAt EXCEPT ![s] = NoTime]
  /\ req' = Touch({s})
  /\ UNCHANGED <<clock, accountVars, seatOf, frozenUntil, boardedAt, bills,
                 deferred, requestedAt>>

ReassignAfterSalesCase(c, t) ==
  LET s == c.sub IN
  /\ c.source = "account_ban" /\ c.status = "open"
  /\ Active(s)
  /\ Assignable(t)
  /\ t # seatOf[s] /\ Holders(t) = {}
  /\ seatOf' = [seatOf EXCEPT ![s] = t]
  /\ cases' = (cases \ {c}) \cup {[c EXCEPT !.status = "reassigned"]}
  /\ req' = Touch({s})
  /\ UNCHANGED <<clock, accountVars, life, archivedAt, frozenUntil, boardedAt,
                 bills, deferred, requestedAt>>

-----------------------------------------------------------------------------
(* Deferred renewals *)

(* readDeferrableSubscription *)
Deferrable(s) ==
  Active(s) /\ s \notin Plus /\ requestedAt[s] = NoTime /\ OpenCases(s) = {}

DeferSubscriptionRenewal(s) ==
  /\ MutexFree
  /\ Deferrable(s) /\ ~deferred[s]
  /\ Due(s) <= clock
  /\ deferred' = [deferred EXCEPT ![s] = TRUE]
  /\ req' = Touch({s})
  /\ UNCHANGED <<clock, accountVars, life, seatOf, archivedAt, frozenUntil,
                 boardedAt, bills, requestedAt, cases>>

RestoreSubscriptionRenewal(s) ==
  /\ MutexFree
  /\ Deferrable(s) /\ deferred[s]
  /\ deferred' = [deferred EXCEPT ![s] = FALSE]
  /\ req' = Touch({s})
  /\ UNCHANGED <<clock, accountVars, life, seatOf, archivedAt, frozenUntil,
                 boardedAt, bills, requestedAt, cases>>

(* The operator confirms that these customers were removed by hand. *)
BeginCompleteDeferred(h, batch) ==
  /\ MutexFree
  /\ req[h].op = "idle"
  /\ clock < MaxTime
  /\ \A i, j \in DOMAIN batch : batch[i] = batch[j] => i = j
  /\ \A i \in DOMAIN batch : deferred[batch[i]]
  /\ clock' = clock + 1
  /\ req' = [req EXCEPT ![h] = [op |-> "batch", subs |-> batch, case |-> NoCase,
                                at |-> clock + 1, fresh |-> TRUE]]
  /\ UNCHANGED <<accountVars, rowVars, cases>>

(* One transaction, all members or none, counted in the order of the request. *)
CommitCompleteDeferred(h) ==
  LET batch == req[h].subs
      at == req[h].at
      Before(s) == {batch[j] : j \in {i \in DOMAIN batch :
                      \E k \in DOMAIN batch : i < k /\ batch[k] = s}} IN
  /\ req[h].op = "batch"
  /\ req[h].fresh
  /\ \A s \in Members(req[h]) : Deferrable(s) /\ deferred[s] /\ Due(s) <= at
  /\ ArchiveRows(Members(req[h]), at,
       [s \in Members(req[h]) |-> FreezeDeadline(s, at, Before(s))], {})
  /\ req' = [Touch(Members(req[h])) EXCEPT ![h] = Idle]
  /\ UNCHANGED <<clock, accountVars>>

(* A transaction that refuses or fails is rolled back and answers an error. *)
RollBack(h) ==
  /\ req[h].op # "idle"
  /\ req' = [req EXCEPT ![h] = Idle]
  /\ UNCHANGED <<clock, accountVars, rowVars, cases>>

-----------------------------------------------------------------------------
(* Accounts and cool-downs *)

SetAccountPaused(a, v) ==
  /\ paused[a] # v
  /\ paused' = [b \in Accounts |-> IF b = a \/ Owner[b] = Owner[a]
                                   THEN v ELSE paused[b]]
  /\ UNCHANGED <<clock, banned, rowVars, cases, req>>

(* The pending cancellations of the customers a ban affects. *)
NothingSuperseded(S) == {}                                          \* mutant
Superseded(S) == UNION {CancellationOf(s) : s \in S}

(* A ban opens a case for every occupant and supersedes their cancellations; *)
(* one deferred or prepaid occupant refuses the whole ban.                    *)
BanAccount(a, day) ==
  LET date == IF banned[a] = NoTime THEN day ELSE banned[a]
      affected == {s \in Subs : Active(s) /\ HasSeat(s)
                                /\ AccountOf[seatOf[s]] = a}
      opened == {[account |-> a, sub |-> s, day |-> date,
                  source |-> "account_ban", status |-> "open"] : s \in affected}
  IN
  /\ \A s \in affected : RenewalNotDeferred(s) /\ ~Prepaid(s, date)
  /\ banned' = [banned EXCEPT ![a] = date]
  /\ cases' = LET kept == cases \ Superseded(affected) IN
              kept \cup {d \in opened : \A c \in kept : ~SameOccurrence(c, d)}
  /\ requestedAt' = [s \in Subs |-> IF s \in affected THEN NoTime
                                    ELSE requestedAt[s]]
  /\ req' = Touch({s \in affected : requestedAt[s] # NoTime})
  /\ UNCHANGED <<clock, paused, life, seatOf, archivedAt, frozenUntil, boardedAt,
                 bills, deferred>>

(* UpdateSeatFreeze, and ReleaseSeatFreeze when `until` is now. *)
UpdateAnyDeadline(s, until) ==                                      \* mutant
  /\ life[s] = "archived" /\ HasSeat(s) /\ until >= clock
  /\ frozenUntil' = [frozenUntil EXCEPT ![s] = until]
  /\ req' = Touch({s})
  /\ UNCHANGED <<clock, accountVars, life, seatOf, archivedAt, boardedAt, bills,
                 deferred, requestedAt, cases>>
UpdateFrozenSubscriptionUntil(s, until) ==
  /\ Frozen(s) /\ HasSeat(s)
  /\ until >= clock
  /\ frozenUntil' = [frozenUntil EXCEPT ![s] = until]
  /\ req' = Touch({s})
  /\ UNCHANGED <<clock, accountVars, life, seatOf, archivedAt, boardedAt, bills,
                 deferred, requestedAt, cases>>

-----------------------------------------------------------------------------
(* A crash loses the requests being served; opening the database reconciles   *)
(* the cool-downs.  Departures of one instant count in the order of their ids. *)

EarlierDepartures(s) ==
  {r \in Subs \ {s} :
     /\ Departed(r)
     /\ HasSeat(r)
     /\ AccountOf[seatOf[r]] = AccountOf[seatOf[s]]
     /\ archivedAt[r] >= archivedAt[s] - Window
     /\ archivedAt[r] < archivedAt[s] \/ (archivedAt[r] = archivedAt[s] /\ r < s)}

RestartedFreeze(s) ==                                               \* mutant
  IF Departed(s) /\ HasSeat(s) /\ frozenUntil[s] # NoTime
     /\ Cardinality(EarlierDepartures(s)) >= Allowance
  THEN clock + FreezeDays ELSE frozenUntil[s]
ReconciledFreeze(s) ==
  LET late == Cardinality(EarlierDepartures(s)) >= Allowance
      refunded == \E c \in CasesOf(s) : c.source = "customer_cancellation"
                                        /\ c.status = "refunded"
  IN IF ~(Departed(s) /\ HasSeat(s)) THEN frozenUntil[s]
     ELSE IF ~late THEN NoTime
     ELSE IF frozenUntil[s] = NoTime /\ life[s] = "archived" /\ refunded
     THEN archivedAt[s] + FreezeDays
     ELSE frozenUntil[s]

Restart ==
  /\ frozenUntil' = [s \in Subs |-> ReconciledFreeze(s)]
  /\ req' = [h \in Handlers |-> Idle]
  /\ UNCHANGED <<clock, accountVars, life, seatOf, archivedAt, boardedAt, bills,
                 deferred, requestedAt, cases>>

-----------------------------------------------------------------------------
(* The server while it runs, and with restarts. *)

Operation ==
  \/ Tick
  \/ \E s \in Subs, t \in Seats \cup {NoSeat}, paid \in {0, 1} :
       CreateSubscription(s, t, paid)
  \/ \E s \in Subs, t \in Seats : UpdateSubscription(s, t)
  \/ \E s \in Subs : SetDuePaid(s)
  \/ \E s \in Subs : DeleteBill(s)
  \/ \E s \in Subs : DeleteMistakenTeamSubscription(s)
  \/ \E s \in Subs : ArchiveSubscription(s)
  \/ \E s \in Subs : SoftDeleteArchivedSubscription(s)
  \/ RestoreExpiredCancellationRequests
  \/ \E h \in Handlers, s \in Subs : BeginLeave(h, s)
  \/ \E h \in Handlers : CommitExpire(h)
  \/ \E h \in Handlers : CommitCancel(h)
  \/ \E h \in Handlers, c \in cases : BeginRefund(h, c)
  \/ \E h \in Handlers : CommitCancellationRefund(h)
  \/ \E h \in Handlers : CommitBanRefund(h)
  \/ \E c \in cases : UndoBanRefund(c)
  \/ \E c \in cases, t \in Seats : ReassignAfterSalesCase(c, t)
  \/ \E s \in Subs : DeferSubscriptionRenewal(s)
  \/ \E s \in Subs : RestoreSubscriptionRenewal(s)
  \/ \E h \in Handlers, n \in 1..MaxBatch :
       \E batch \in [1..n -> {s \in Subs : deferred[s]}] :
         BeginCompleteDeferred(h, batch)
  \/ \E h \in Handlers : CommitCompleteDeferred(h)
  \/ \E h \in Handlers : RollBack(h)
  \/ \E a \in Accounts, v \in BOOLEAN : SetAccountPaused(a, v)
  \/ \E a \in Accounts, day \in {d \in 0..clock : d >= clock - BanDelay} :
       BanAccount(a, day)
  \/ \E s \in Subs, until \in clock..(clock + FreezeDays) :
       UpdateFrozenSubscriptionUntil(s, until)

Next == Operation \/ Restart

Spec == Init /\ [][Operation]_vars
RestartingSpec == Init /\ [][Next]_vars

-----------------------------------------------------------------------------
(* Invariants *)

(* Every column holds a value its type allows. *)
TypeOK ==
  /\ clock \in Nat
  /\ paused \in [Accounts -> BOOLEAN]
  /\ banned \in [Accounts -> Time]
  /\ life \in [Subs -> Life]
  /\ seatOf \in [Subs -> Seats \cup {NoSeat}]
  /\ archivedAt \in [Subs -> Time]
  /\ frozenUntil \in [Subs -> Time]
  /\ boardedAt \in [Subs -> Time]
  /\ bills \in [Subs -> Nat]
  /\ deferred \in [Subs -> BOOLEAN]
  /\ requestedAt \in [Subs -> Time]
  /\ cases \in SUBSET Case
  /\ req \in [Handlers -> Request]

(* A seat never has two active subscriptions, whatever inserts, moves,        *)
(* reassignments and undone refunds race for it.                              *)
OneOccupantPerSeat ==
  \A r, s \in Subs :
    Active(r) /\ Active(s) /\ HasSeat(r) /\ seatOf[r] = seatOf[s] => r = s

(* Nor does a seat that cools down for one customer hold another.  The        *)
(* triggers see only boarding; this relates it to every write of              *)
(* seat_frozen_until while the server runs.                                   *)
CoolDownKeepsSeatEmpty ==
  \A r, s \in Subs :
    /\ Active(r) \/ Frozen(r)
    /\ Frozen(s)
    /\ HasSeat(s)
    /\ seatOf[r] = seatOf[s]
    => r = s

(* An open case always finds its subscription active, so that it can be       *)
(* refunded or reassigned, and is the only open case of that subscription: a  *)
(* cancellation, a ban and an expiry cannot strand each other.                *)
OpenCaseCanBeSettled ==
  \A c, d \in cases :
    /\ c.status = "open" => Active(c.sub)
    /\ c.status = "open" /\ d.status = "open" /\ c.sub = d.sub => c = d

(* cancellation_case_id and the case it names live and die together, across   *)
(* expiry of the grace period, refunds, archiving and account bans.           *)
CancellationPointerIntact ==
  \A s \in Subs :
    LET asked == {c \in OpenCases(s) : c.source = "customer_cancellation"} IN
    IF requestedAt[s] = NoTime THEN asked = {}
    ELSE Active(s) /\ asked # {} /\ asked = CancellationOf(s)

(* No customer is forgotten on a banned account: whoever sits there has an    *)
(* open case against that account, however the ban, moves, cancellations and  *)
(* undone refunds interleave.                                                 *)
NobodyStrandedOnBannedAccount ==
  \A s \in Subs :
    Active(s) /\ HasSeat(s) /\ banned[AccountOf[seatOf[s]]] # NoTime
    => \E c \in OpenCases(s) : /\ c.source = "account_ban"
                               /\ c.account = AccountOf[seatOf[s]]

(* A deferred renewal is a quiet customer: seated, with no cancellation and no *)
(* case that could end the subscription behind the deferral.                   *)
DeferredIsQuiet ==
  \A s \in Subs :
    deferred[s] => Active(s) /\ requestedAt[s] = NoTime /\ OpenCases(s) = {}

(* Cases, cancellations, bans and deferrals always fit together: whatever is  *)
(* still open about a subscription can be settled, and none of them ends or   *)
(* hides another behind its back.                                             *)
CasesMatchSubscriptions ==
  /\ OpenCaseCanBeSettled
  /\ CancellationPointerIntact
  /\ NobodyStrandedOnBannedAccount
  /\ DeferredIsQuiet

-----------------------------------------------------------------------------
(* What a step may never do *)

SeatsOf(a) == {s \in Subs : HasSeat(s) /\ AccountOf[seatOf[s]] = a}
(* The departures the cool-down policy governs: expiries, customer            *)
(* cancellations and confirmed removals, not bans nor archiving by hand.      *)
Governed(r) ==
  \/ r.op \in {"expire", "batch"}
  \/ r.op = "refund" /\ r.case.source = "customer_cancellation"
Leaving(h, a) ==
  {s \in Members(req[h]) \cap SeatsOf(a) :
     Governed(req[h]) /\ req'[h] = Idle /\ Active(s) /\ life'[s] = "archived"}
(* Departures of the account that were committed before, inside the window.   *)
Committed(a, at) ==
  {r \in SeatsOf(a) : Departed(r) /\ archivedAt[r] >= at - Window}
Room(n) == IF n < Allowance THEN Allowance - n ELSE 0
Released(S) == Cardinality({s \in S : frozenUntil'[s] = NoTime})

(* As long as departures commit in the order of their instants, a step        *)
(* releases exactly the seats the rolling allowance leaves, and every further *)
(* seat cools down: also when several customers leave in one batch.           *)
AllowanceIsExact ==
  [][\A h \in Handlers, a \in Accounts :
       LET left == Leaving(h, a)
           before == Committed(a, req[h].at)
           room == Room(Cardinality(before)) IN
       left # {} /\ (\A r \in before : archivedAt[r] <= req[h].at)
       => Released(left) = IF room < Cardinality(left) THEN room
                           ELSE Cardinality(left)]_vars

(* store.go:2891 says that "concurrent departures cannot consume the same     *)
(* allowance slot": whatever the order of the instants, a step releases no    *)
(* more seats than the departures committed before it leave.                  *)
NoSlotConsumedTwice ==
  [][\A h \in Handlers, a \in Accounts :
       Released(Leaving(h, a)) <= Room(Cardinality(Committed(a, req[h].at)))]_vars

(* Nobody loses a paid period without a refund case: a subscription that ends *)
(* before its first unpaid day ends by hand or with a case that was refunded, *)
(* never by an expiry or a removal decided before the payment.                *)
PaidTimeIsRefunded ==
  [][\A s \in Subs :
       Active(s) /\ life'[s] = "archived" /\ bills[s] > 0 /\ Due(s) > clock
       => \/ ArchiveSubscription(s)
          \/ \E c \in cases' : c.sub = s /\ c.status = "refunded"]_vars

(* An account that is paused gets nobody new: not by registration, edit,      *)
(* reassignment or by undoing a refund.                                       *)
PausedAccountGetsNobody ==
  [][\A s \in Subs :
       /\ Active(s)' /\ HasSeat(s)'
       /\ ~Active(s) \/ seatOf'[s] # seatOf[s]
       => ~paused[AccountOf[seatOf'[s]]]]_vars

(* While a renewal is deferred the customer keeps the seat, and only the       *)
(* confirmed removal archives the subscription.                                *)
DeferralIsRespected ==
  [][\A s \in Subs : deferred[s] =>
       \/ life'[s] = "active" /\ seatOf'[s] = seatOf[s]
       \/ life'[s] = "removed"
       \/ \E h \in Handlers : /\ req[h].op = "batch" /\ s \in Members(req[h])
                              /\ req'[h].op = "idle"]_vars

(* store.go:2789 says of ArchiveSubscription that "already-archived is a       *)
(* no-op success".                                                             *)
ArchivingTwiceIsNoOp ==
  [][\A s \in Subs : life[s] = "archived" /\ ArchiveSubscription(s)
       => UNCHANGED rowVars]_vars

(* README.md:23 says that from the fifth departure in the window a seat cools  *)
(* down: an account whose departures exceed the allowance and that has a seat  *)
(* cooling down still has one after a restart.                                 *)
RestartKeepsCoolDown ==
  [][\A a \in Accounts :
       /\ Restart
       /\ Cardinality(Committed(a, clock)) > Allowance
       /\ \E s \in SeatsOf(a) : Frozen(s)
       => \E s \in SeatsOf(a) : Frozen(s)']_vars

-----------------------------------------------------------------------------
(* The promise to the operator: an occupied seat is one customer's, a seat that *)
(* cools down is handed to nobody, and only a departure starts a cool-down.     *)

Sole(S) == IF S = {} THEN NoSeat ELSE CHOOSE s \in S : TRUE
Occupants ==
  [t \in Seats |-> Sole({s \in Subs : seatOf[s] = t /\ Active(s)})]
CoolingFor ==
  [t \in Seats |-> Sole({s \in Subs : seatOf[s] = t /\ Frozen(s)})]
Occupancy == INSTANCE SeatOccupancy WITH
  Customers <- Subs,
  Nobody <- NoSeat,
  occupant <- Occupants,
  cooling <- CoolingFor
ImplementsSeatOccupancy == Occupancy!Spec

=============================================================================
