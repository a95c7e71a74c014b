------------------------ MODULE BusinessEmailOutbox ------------------------
(* The mails that confirm payments and announce benefits: written in the      *)
(* transaction of the change they report, and sent afterwards by the          *)
(* scheduler, once a minute, with retries.                                    *)
(*                                                                            *)
(* State: the rows of bills that a confirmation refers to, the table          *)
(* business_email_outbox, the SMTP setting, the run of ProcessBusinessEmails  *)
(* that is under way, and what the mail server has accepted.                  *)
(*                                                                            *)
(* Every change that writes bills or mails holds dueNotificationMu, and so    *)
(* does the run, from its first statement to its last.                        *)
EXTENDS Integers, FiniteSets, Sequences, Functions

CONSTANTS
  Subs,           \* subscriptions
  Undeliverable,  \* those whose address the mail server always refuses
  Facts,          \* amount and due date of a bill, as a confirmation states them
  Limit,          \* mails of a batch, 8 in the code
  BackOff,        \* minutes until the next attempt after each failure:
                  \* 1, 2, 4, ..., 64 in the code, then 64 for ever
  Retention,      \* minutes that sent and cancelled mails are kept, 24 h
  MaxMails,       \* bound: rows ever inserted into the outbox
  MaxBills,       \* bound: rows ever inserted into bills
  MaxCrashes,     \* bound: crashes of the server
  None            \* no row, no run, no mail

ASSUME SizesAssumption ==
  /\ {MaxMails, MaxBills, MaxCrashes} \subseteq Nat
  /\ {Limit, Retention} \subseteq Nat \ {0}
  /\ BackOff \in Seq(Nat \ {0}) /\ BackOff # <<>>
ASSUME SubsAssumption == IsFiniteSet(Subs) /\ Undeliverable \subseteq Subs

VARIABLES
  bills,      \* per subscription: its current bill
  outbox,     \* business_email_outbox
  nextMail,   \* the next id of either table (AUTOINCREMENT)
  nextBill,
  known,      \* subscriptions that were not deleted as mistaken
  smtp,       \* SMTP is configured
  run,        \* the run of ProcessBusinessEmails
  latest,     \* per subscription: the last mail the mail server took, or 0
  crashes

business == <<bills, nextMail, nextBill, known>>
vars == <<business, outbox, smtp, run, latest, crashes>>

-----------------------------------------------------------------------------
Mails == 1..MaxMails
BillIds == 1..MaxBills
Bill == [id : BillIds, fact : Facts]
NoBill == 0
(* left counts the minutes until next_retry_at of a pending mail, and until    *)
(* the clean-up of one that was sent or cancelled.                            *)
Mail == [sub : Subs, bill : BillIds \cup {NoBill}, fact : Facts \cup {None},
         status : {"pending", "success", "cancelled"},
         attempt : 0..Len(BackOff), left : Nat]
(* Per mail of the batch, where its goroutine is. *)
Work == {"idle", "ready", "accepted", "error"}
Run == [work : [Mails -> Work], failed : BOOLEAN, expired : BOOLEAN]

ASSUME NoneAssumption == None \notin Bill /\ None \notin Mail /\ None \notin Run

Rows == {m \in Mails : outbox[m] # None}
Pending == {m \in Rows : outbox[m].status = "pending"}
PendingOf(s) == {m \in Pending : outbox[m].sub = s}

MutexFree == run = None                                \* dueNotificationMu
NewRun == [work |-> [m \in Mails |-> "idle"], failed |-> FALSE, expired |-> FALSE]
Busy == {m \in Mails : run.work[m] # "idle"}

Init ==
  /\ bills = [s \in Subs |-> None]
  /\ outbox = [m \in Mails |-> None]
  /\ nextMail = 1
  /\ nextBill = 1
  /\ known = Subs
  /\ smtp \in BOOLEAN
  /\ run = None
  /\ latest = [s \in Subs |-> 0]
  /\ crashes = 0

-----------------------------------------------------------------------------
(* Changes and the mails they leave in their transaction *)

(* Nobody reads the attempts of a mail that is over. *)
Settled(r, status) ==
  [r EXCEPT !.status = status, !.attempt = 0, !.left = Retention]
KeepMails(b) == outbox                                              \* mutant
(* The trigger cancel_stale_bill_confirmations. *)
Cancelled(b) ==
  [m \in Mails |->
     IF m \in Pending /\ outbox[m].bill = b
     THEN Settled(outbox[m], "cancelled") ELSE outbox[m]]

(* queueBusinessEmailBatches: nothing is queued without SMTP. *)
Letter(s, b, f) ==
  [sub |-> s, bill |-> b, fact |-> f, status |-> "pending", attempt |-> 0,
   left |-> 0]
Queue(rows, letters) ==
  LET new == IF smtp THEN letters ELSE <<>> IN
  /\ nextMail + Len(new) - 1 <= MaxMails
  /\ nextMail' = nextMail + Len(new)
  /\ outbox' = [m \in Mails |-> IF m - nextMail + 1 \in DOMAIN new
                               THEN new[m - nextMail + 1] ELSE rows[m]]

(* setDuePaid; a period that is paid already queues no second confirmation. *)
Pay(s, f) ==
  /\ MutexFree
  /\ s \in known /\ bills[s] = None
  /\ nextBill \in BillIds
  /\ bills' = [bills EXCEPT ![s] = [id |-> nextBill, fact |-> f]]
  /\ nextBill' = nextBill + 1
  /\ Queue(outbox, <<Letter(s, nextBill, f)>>)
  /\ UNCHANGED <<known, smtp, run, latest, crashes>>

(* An edit of the bill, or of the price or the schedule that it follows; the   *)
(* latter may announce a lower price.                                         *)
CorrectBill(s, f, announced) ==
  /\ MutexFree
  /\ bills[s] # None
  /\ f # bills[s].fact
  /\ bills' = [bills EXCEPT ![s].fact = f]
  /\ Queue(Cancelled(bills[s].id),
           IF announced THEN <<Letter(s, NoBill, None)>> ELSE <<>>)
  /\ UNCHANGED <<nextBill, known, smtp, run, latest, crashes>>

(* deleteBillIfUnreferenced cancels the mails itself: the trigger does not    *)
(* see a deletion.                                                            *)
DeleteBill(s) ==
  /\ MutexFree
  /\ bills[s] # None
  /\ bills' = [bills EXCEPT ![s] = None]
  /\ outbox' = Cancelled(bills[s].id)
  /\ UNCHANGED <<nextMail, nextBill, known, smtp, run, latest, crashes>>

(* An extension, its revision or revocation, or a lower next price, for the   *)
(* customers S in one transaction.                                            *)
GrantBenefits(S) ==
  /\ MutexFree
  /\ S \subseteq known /\ S # {}
  /\ \E order \in Injection(1..Cardinality(S), S) :
       Queue(outbox, [i \in 1..Cardinality(S) |-> Letter(order[i], NoBill, None)])
  /\ UNCHANGED <<bills, nextBill, known, smtp, run, latest, crashes>>

(* DeleteMistakenTeamSubscription *)
DeleteMistaken(s) ==
  /\ MutexFree
  /\ s \in known
  /\ known' = known \ {s}
  /\ bills' = [bills EXCEPT ![s] = None]
  /\ outbox' = [m \in Mails |->
                  IF m \in Rows /\ outbox[m].sub = s THEN None ELSE outbox[m]]
  /\ UNCHANGED <<nextMail, nextBill, smtp, run, latest, crashes>>

(* The operator edits the SMTP settings, also during a run. *)
ConfigureSmtp ==
  /\ smtp' = ~ smtp
  /\ UNCHANGED <<business, outbox, run, latest, crashes>>

-----------------------------------------------------------------------------
(* The run *)

(* One minute later: the mail is a minute closer to its next attempt, or      *)
(* DeleteExpiredBusinessEmailHistory removes it.                              *)
Older(r) ==
  IF r = None \/ (r.status # "pending" /\ r.left <= 1) THEN None
  ELSE [r EXCEPT !.left = IF @ = 0 THEN 0 ELSE @ - 1]

(* The scheduler ticks.  A run takes 25 seconds at most, so it is over when   *)
(* the next minute comes.                                                     *)
BeginRun ==
  /\ run = None
  /\ outbox' = [m \in Mails |-> Older(outbox[m])]
  /\ run' = IF smtp THEN NewRun ELSE None
  /\ UNCHANGED <<business, smtp, latest, crashes>>

Overtaking == {m \in Pending : outbox[m].left = 0 /\
                \A n \in PendingOf(outbox[m].sub) : outbox[n].left = 0 => m <= n}
                                                                    \* mutant
(* PendingBusinessEmails: the oldest mail of each subscription, if it is due. *)
Due == {m \in Pending : /\ outbox[m].left = 0
                        /\ \A n \in PendingOf(outbox[m].sub) : m <= n}
Batch == {m \in Due : Cardinality({n \in Due : n < m}) < Limit}

Fetch ==
  /\ run # None /\ Busy = {}
  /\ ~ run.failed /\ ~ run.expired
  /\ Due # {}
  /\ run' = [run EXCEPT !.work = [m \in Mails |-> IF m \in Batch THEN "ready"
                                                  ELSE "idle"]]
  /\ UNCHANGED <<business, outbox, smtp, latest, crashes>>

EndRun ==
  /\ run # None /\ Busy = {}
  /\ run.failed \/ run.expired \/ Due = {}
  /\ run' = None
  /\ UNCHANGED <<business, outbox, smtp, latest, crashes>>

(* The 25 seconds are over, or the server begins to shut down.  They are not   *)
(* over before the first query; between two batches is as good as in the first. *)
Expire ==
  /\ run # None /\ ~ run.expired
  /\ Busy # {}
  /\ run' = [run EXCEPT !.expired = TRUE]
  /\ UNCHANGED <<business, outbox, smtp, latest, crashes>>

At(m, w) == run # None /\ run.work[m] = w

(* A goroutine that starts too late leaves its mail for the next run. *)
Skip(m) ==
  /\ At(m, "ready") /\ run.expired
  /\ run' = [run EXCEPT !.work[m] = "idle"]
  /\ UNCHANGED <<business, outbox, smtp, latest, crashes>>

(* The mail server accepts the mail; the answer may come too late. *)
Accept(m, inTime) ==
  /\ At(m, "ready") /\ ~ run.expired
  /\ outbox[m].sub \notin Undeliverable
  /\ latest' = [latest EXCEPT ![outbox[m].sub] = m]
  /\ run' = [run EXCEPT !.work[m] = IF inTime THEN "accepted" ELSE "error"]
  /\ UNCHANGED <<business, outbox, smtp, crashes>>

(* The mail is refused, or the attempt times out before it is accepted. *)
Refuse(m) ==
  /\ At(m, "ready")
  /\ run' = [run EXCEPT !.work[m] = "error"]
  /\ UNCHANGED <<business, outbox, smtp, latest, crashes>>

LowerOf(a, b) == IF a < b THEN a ELSE b
ConstantDelay(attempt) == 1                                         \* mutant
(* The minutes until the next attempt; the count saturates at the last delay. *)
Delay(attempt) == BackOff[attempt]

SentInTime(m) ==                                                    \* mutant
  /\ At(m, "accepted")
  /\ IF m \in Pending /\ ~ run.expired
     THEN outbox' = [outbox EXCEPT ![m] = Settled(@, "success")]
     ELSE UNCHANGED outbox
  /\ run' = [run EXCEPT !.work[m] = "idle", !.failed = @ \/ m \notin Pending]
  /\ UNCHANGED <<business, smtp, latest, crashes>>
(* FinishBusinessEmail *)
FinishSent(m) ==
  /\ At(m, "accepted")
  /\ IF m \in Pending
     THEN outbox' = [outbox EXCEPT ![m] = Settled(@, "success")]
     ELSE UNCHANGED outbox
  /\ run' = [run EXCEPT !.work[m] = "idle", !.failed = @ \/ m \notin Pending]
  /\ UNCHANGED <<business, smtp, latest, crashes>>

(* The retry may just miss a tick, for it counts from the end of the attempt. *)
FinishFailed(m) ==
  LET attempt == LowerOf(outbox[m].attempt + 1, Len(BackOff)) IN
  /\ At(m, "error")
  /\ IF m \in Pending
     THEN \E late \in {0, 1} :
            outbox' = [outbox EXCEPT ![m].attempt = attempt,
                                     ![m].left = Delay(attempt) + late]
     ELSE UNCHANGED outbox
  /\ run' = [run EXCEPT !.work[m] = "idle", !.failed = TRUE]
  /\ UNCHANGED <<business, smtp, latest, crashes>>

(* The server dies and comes back: the run is lost, the tables are not. *)
Crash ==
  /\ crashes < MaxCrashes
  /\ crashes' = crashes + 1
  /\ run' = None
  /\ UNCHANGED <<business, outbox, smtp, latest>>

-----------------------------------------------------------------------------
Next ==
  \/ \E s \in Subs, f \in Facts : Pay(s, f)
  \/ \E s \in Subs, f \in Facts, announced \in BOOLEAN :
       CorrectBill(s, f, announced)
  \/ \E s \in Subs : DeleteBill(s)
  \/ \E S \in SUBSET Subs : GrantBenefits(S)
  \/ \E s \in Subs : DeleteMistaken(s)
  \/ ConfigureSmtp
  \/ BeginRun
  \/ Fetch
  \/ EndRun
  \/ Expire
  \/ \E m \in Mails : Skip(m)
  \/ \E m \in Mails, inTime \in BOOLEAN : Accept(m, inTime)
  \/ \E m \in Mails : Refuse(m)
  \/ \E m \in Mails : FinishSent(m)
  \/ \E m \in Mails : FinishFailed(m)
  \/ Crash

Spec == Init /\ [][Next]_vars

(* What the scheduler and its goroutines do by themselves. *)
Proceed ==
  \/ BeginRun \/ Fetch \/ EndRun
  \/ \E m \in Mails : \/ Skip(m) \/ Refuse(m) \/ FinishSent(m) \/ FinishFailed(m)
                      \/ \E inTime \in BOOLEAN : Accept(m, inTime)

(* What the mail server answers when all goes well: it takes a mail to an      *)
(* address that works and refuses the others.                                 *)
Answer(m) ==
  Accept(m, TRUE) \/ (Refuse(m) /\ outbox[m].sub \in Undeliverable)

(* The scheduler ticks for ever and every attempt ends, by its timeout if not  *)
(* before.  A mail that is tried again and again gets an answer some time.     *)
Fairness == WF_vars(Proceed) /\ \A m \in Mails : SF_vars(Answer(m))

FairSpec == Spec /\ Fairness

-----------------------------------------------------------------------------
(* Every column and every goroutine is in a state its type allows. *)
TypeOK ==
  /\ bills \in [Subs -> Bill \cup {None}]
  /\ outbox \in [Mails -> Mail \cup {None}]
  /\ nextMail \in 1..(MaxMails + 1)
  /\ nextBill \in 1..(MaxBills + 1)
  /\ known \in SUBSET Subs
  /\ smtp \in BOOLEAN
  /\ run \in Run \cup {None}
  /\ latest \in [Subs -> 0..MaxMails]
  /\ crashes \in 0..MaxCrashes

(* A mail that is being sent is the oldest pending mail of its subscription,  *)
(* from the query that read it to the write of the result: nothing changes or  *)
(* removes its row while a goroutine holds its recipient and its text.        *)
BatchIsPending ==
  run # None => \A m \in Busy :
    /\ m \in Pending
    /\ \A n \in PendingOf(outbox[m].sub) : m <= n

(* A confirmation that waits, or is being sent, states the bill as it is now:  *)
(* every edit, move or removal of the bill has cancelled it.                  *)
ConfirmationIsTrue ==
  \A m \in Pending : outbox[m].bill # NoBill =>
    LET bill == bills[outbox[m].sub] IN
    /\ bill # None
    /\ bill.id = outbox[m].bill
    /\ bill.fact = outbox[m].fact

(* README.md:73: the clean-up keeps what waits or is to be tried again; only   *)
(* the deletion of a mistaken registration removes it.                        *)
PendingIsKept ==
  [][\A m \in Pending : outbox'[m] = None => outbox[m].sub \notin known']_vars

(* A customer gets a mail twice only if an attempt failed after the server    *)
(* took it, or the program died before it wrote the result.                   *)
TwiceOnlyAfterFailure ==
  [][\A m \in Pending :
       latest[outbox[m].sub] = m /\ (\E inTime \in BOOLEAN : Accept(m, inTime)) =>
         outbox[m].attempt > 0 \/ crashes > 0]_vars

(* While SMTP stays configured, every mail to an address that works leaves    *)
(* the queue, although others fail for ever and are older.                    *)
EveryMailSettles ==
  \A m \in Mails :
    (smtp /\ m \in Pending /\ outbox[m].sub \notin Undeliverable)
    ~> (~ smtp \/ m \notin Pending)

(* The rows implement the queues of MailDelivery. *)
Delivery == INSTANCE MailDelivery WITH
  queue <- [s \in Subs |-> PendingOf(s)]
ImplementsMailDelivery == Delivery!Spec

=============================================================================
