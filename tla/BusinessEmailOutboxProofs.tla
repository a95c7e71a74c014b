--------------------- MODULE BusinessEmailOutboxProofs ---------------------
(* What holds of BusinessEmailOutbox for all customers, batch sizes, back-offs *)
(* and numbers of crashes, proved by induction over the steps.                *)
EXTENDS BusinessEmailOutbox, FiniteSetTheorems, TLAPS

USE SizesAssumption, SubsAssumption, NoneAssumption

Letters == {r \in Mail : r.status = "pending"}
(* The invariants are inductive together: a goroutine may rely on its row      *)
(* because nobody else writes it, and nobody does because of the mutex.        *)
OutboxInv == TypeOK /\ BatchIsPending /\ ConfirmationIsTrue

-----------------------------------------------------------------------------
(* Rows *)

LEMMA LetterType ==
  ASSUME NEW s \in Subs, NEW b \in BillIds \cup {NoBill}, NEW f \in Facts \cup {None}
  PROVE  Letter(s, b, f) \in Letters
<1>1. Len(BackOff) \in Nat
  OBVIOUS
<1> QED  BY <1>1 DEF Letter, Letters, Mail

LEMMA SettledType ==
  ASSUME NEW r \in Mail, NEW status \in {"success", "cancelled"}
  PROVE  /\ Settled(r, status) \in Mail
         /\ Settled(r, status).status = status
<1>1. 0 \in 0..Len(BackOff) /\ Retention \in Nat
  OBVIOUS
<1> QED  BY <1>1 DEF Settled, Mail

LEMMA OlderType ==
  ASSUME NEW r \in Mail, Older(r) # None
  PROVE  /\ Older(r) \in Mail
         /\ Older(r).status = r.status
         /\ Older(r).sub = r.sub
         /\ Older(r).bill = r.bill
         /\ Older(r).fact = r.fact
<1>1. r.left \in Nat
  BY DEF Mail
<1> DEFINE left == IF r.left = 0 THEN 0 ELSE r.left - 1
<1>2. left \in Nat
  BY <1>1
<1>3. Older(r) = [r EXCEPT !.left = left]
  BY DEF Older
<1> HIDE DEF left
<1> QED  BY <1>2, <1>3 DEF Mail

(* A correction keeps every row, but the pending ones of the bill are over. *)
LEMMA CancelledRows ==
  ASSUME TypeOK, NEW b \in BillIds
  PROVE  /\ Cancelled(b) \in [Mails -> Mail \cup {None}]
         /\ \A m \in Mails :
              LET r == Cancelled(b)[m] IN
              r # None /\ r.status = "pending" =>
                r = outbox[m] /\ m \in Pending /\ r.bill # b
         /\ \A m \in Pending : Cancelled(b)[m] # None
<1>1. \A m \in Pending : outbox[m] \in Mail
  BY DEF TypeOK, Pending, Rows
<1>2. \A m \in Pending : /\ Settled(outbox[m], "cancelled") \in Mail
                         /\ Settled(outbox[m], "cancelled").status = "cancelled"
  BY <1>1, SettledType
<1>3. Cancelled(b) \in [Mails -> Mail \cup {None}]
  BY <1>2 DEF TypeOK, Cancelled
<1>4. ASSUME NEW m \in Mails, Cancelled(b)[m] # None,
             Cancelled(b)[m].status = "pending"
      PROVE  /\ Cancelled(b)[m] = outbox[m]
             /\ m \in Pending
             /\ Cancelled(b)[m].bill # b
  <2>1. Cancelled(b)[m] = IF m \in Pending /\ outbox[m].bill = b
                          THEN Settled(outbox[m], "cancelled") ELSE outbox[m]
    BY DEF Cancelled
  <2>2. ~ (m \in Pending /\ outbox[m].bill = b)
    BY <1>2, <1>4, <2>1
  <2> QED  BY <1>4, <2>1, <2>2 DEF Pending, Rows
<1>5. \A m \in Pending : Cancelled(b)[m] # None
  BY <1>1, <1>2 DEF Cancelled, Pending, Rows
<1> QED  BY <1>3, <1>4, <1>5

(* After a transaction every row is a row it kept or a letter it wrote. *)
LEMMA QueuedRows ==
  ASSUME TypeOK, NEW rows \in [Mails -> Mail \cup {None}],
         NEW letters \in Seq(Letters), Queue(rows, letters)
  PROVE  /\ outbox' \in [Mails -> Mail \cup {None}]
         /\ nextMail' \in 1..(MaxMails + 1)
         /\ \A m \in Mails : \/ outbox'[m] = rows[m]
                             \/ \E i \in DOMAIN letters : outbox'[m] = letters[i]
<1> DEFINE new == IF smtp THEN letters ELSE <<>>
<1>1. new \in Seq(Letters) /\ Len(new) \in Nat
  OBVIOUS
<1>2. /\ nextMail + Len(new) - 1 <= MaxMails
      /\ nextMail' = nextMail + Len(new)
      /\ outbox' = [m \in Mails |-> IF m - nextMail + 1 \in DOMAIN new
                                    THEN new[m - nextMail + 1] ELSE rows[m]]
  BY DEF Queue
<1>3. \A i \in DOMAIN new : new[i] \in Letters /\ i \in DOMAIN letters
                            /\ new[i] = letters[i]
  BY <1>1
<1> HIDE DEF new
<1>4. outbox' \in [Mails -> Mail \cup {None}]
  BY <1>2, <1>3 DEF Letters
<1>5. nextMail' \in 1..(MaxMails + 1)
  <2>1. nextMail \in Nat /\ nextMail >= 1 /\ MaxMails \in Nat
    BY DEF TypeOK
  <2>2. Len(new) \in Nat /\ nextMail + Len(new) - 1 <= MaxMails
    BY <1>1, <1>2
  <2> QED  BY <1>2, <2>1, <2>2
<1>6. \A m \in Mails : \/ outbox'[m] = rows[m]
                       \/ \E i \in DOMAIN letters : outbox'[m] = letters[i]
  BY <1>2, <1>3
<1> QED  BY <1>4, <1>5, <1>6

-----------------------------------------------------------------------------
(* The induction *)

LEMMA OutboxInit == Init => OutboxInv
<1> SUFFICES ASSUME Init
             PROVE  OutboxInv
  OBVIOUS
<1>1. TypeOK
  BY DEF Init, TypeOK
<1>2. BatchIsPending /\ ConfirmationIsTrue
  BY DEF Init, BatchIsPending, ConfirmationIsTrue, Pending, Rows
<1> QED  BY <1>1, <1>2 DEF OutboxInv

(* Nothing new is pending: every mail that waits has waited before. *)
SameLetters ==
  \A m \in Pending' : /\ m \in Pending
                      /\ outbox'[m].sub = outbox[m].sub
                      /\ outbox'[m].bill = outbox[m].bill
                      /\ outbox'[m].fact = outbox[m].fact

(* No mail that waits is lost, except with its customer. *)
RowsKept ==
  \A m \in Pending : outbox'[m] = None => outbox[m].sub \notin known'

LEMMA ConfirmationsKept ==
  ASSUME ConfirmationIsTrue, SameLetters, bills' = bills
  PROVE  ConfirmationIsTrue'
<1> SUFFICES ASSUME NEW m \in Pending', outbox'[m].bill # NoBill
             PROVE  LET bill == bills'[outbox'[m].sub] IN
                    /\ bill # None
                    /\ bill.id = outbox'[m].bill
                    /\ bill.fact = outbox'[m].fact
  BY DEF ConfirmationIsTrue
<1> QED  BY DEF ConfirmationIsTrue, SameLetters

(* Goroutines that go on rely on their rows if these stay as they are. *)
LEMMA BatchKept ==
  ASSUME BatchIsPending, SameLetters,
         run' # None => run # None /\ Busy' \subseteq Busy,
         run' # None => \A m \in Busy' : outbox'[m] = outbox[m]
  PROVE  BatchIsPending'
<1> SUFFICES ASSUME run' # None, NEW m \in Busy'
             PROVE  /\ m \in Pending'
                    /\ \A n \in Pending' : outbox'[n].sub = outbox'[m].sub => m <= n
  BY DEF BatchIsPending, PendingOf
<1>1. /\ m \in Pending
      /\ \A n \in Pending : outbox[n].sub = outbox[m].sub => m <= n
      /\ outbox'[m] = outbox[m]
  BY DEF BatchIsPending, PendingOf
<1>2. m \in Pending'
  BY <1>1 DEF Pending, Rows
<1>3. \A n \in Pending' : outbox'[n].sub = outbox'[m].sub => m <= n
  BY <1>1 DEF SameLetters
<1> QED  BY <1>2, <1>3

LEMMA ChangeStep ==
  ASSUME OutboxInv,
         \/ \E s \in Subs, f \in Facts : Pay(s, f)
         \/ \E s \in Subs, f \in Facts, announced \in BOOLEAN :
              CorrectBill(s, f, announced)
         \/ \E s \in Subs : DeleteBill(s)
         \/ \E S \in SUBSET Subs : GrantBenefits(S)
         \/ \E s \in Subs : DeleteMistaken(s)
  PROVE  OutboxInv' /\ RowsKept
<1> USE DEF OutboxInv
<1>1. run' = None
  BY DEF Pay, CorrectBill, DeleteBill, GrantBenefits, DeleteMistaken, MutexFree
<1>2. BatchIsPending'
  BY <1>1 DEF BatchIsPending
<1>3. ASSUME NEW s \in Subs, NEW f \in Facts, Pay(s, f)
      PROVE  TypeOK' /\ ConfirmationIsTrue' /\ RowsKept
  <2> DEFINE letters == <<Letter(s, nextBill, f)>>
  <2>1. nextBill \in BillIds /\ bills[s] = None
        /\ bills' = [bills EXCEPT ![s] = [id |-> nextBill, fact |-> f]]
        /\ nextBill' = nextBill + 1
        /\ Queue(outbox, letters)
        /\ UNCHANGED <<known, smtp, run, latest, crashes>>
    BY <1>3 DEF Pay
  <2>2. letters \in Seq(Letters)
    BY <2>1, LetterType
  <2>3. /\ outbox' \in [Mails -> Mail \cup {None}]
        /\ nextMail' \in 1..(MaxMails + 1)
        /\ \A m \in Mails : \/ outbox'[m] = outbox[m]
                            \/ \E i \in DOMAIN letters : outbox'[m] = letters[i]
    BY <2>1, <2>2, QueuedRows DEF TypeOK
  <2>4. bills' \in [Subs -> Bill \cup {None}] /\ nextBill' \in 1..(MaxBills + 1)
    <3>1. [id |-> nextBill, fact |-> f] \in Bill
      BY <2>1 DEF Bill
    <3>2. bills' \in [Subs -> Bill \cup {None}]
      BY <2>1, <3>1 DEF TypeOK
    <3>3. nextBill' \in 1..(MaxBills + 1)
      BY <2>1 DEF BillIds
    <3> QED  BY <3>2, <3>3
  <2>5. TypeOK'
    BY <2>1, <2>3, <2>4 DEF TypeOK
  <2>6. ConfirmationIsTrue'
    <3> SUFFICES ASSUME NEW m \in Mails, outbox'[m] # None,
                        outbox'[m].status = "pending", outbox'[m].bill # NoBill
                 PROVE  LET bill == bills'[outbox'[m].sub] IN
                        /\ bill # None
                        /\ bill.id = outbox'[m].bill
                        /\ bill.fact = outbox'[m].fact
      BY DEF ConfirmationIsTrue, Pending, Rows
    <3>1. CASE outbox'[m] = outbox[m]
      <4>1. m \in Pending /\ outbox[m] \in Mail
        BY <3>1 DEF Pending, Rows, TypeOK
      <4>2. bills[outbox[m].sub] # None
        BY <3>1, <4>1 DEF ConfirmationIsTrue
      <4>3. bills'[outbox[m].sub] = bills[outbox[m].sub]
        BY <2>1, <4>1, <4>2 DEF TypeOK, Mail
      <4> QED  BY <3>1, <4>1, <4>3 DEF ConfirmationIsTrue
    <3>2. CASE \E i \in DOMAIN letters : outbox'[m] = letters[i]
      <4>1. outbox'[m] = Letter(s, nextBill, f)
        BY <3>2
      <4>2. bills'[s] = [id |-> nextBill, fact |-> f]
        BY <2>1 DEF TypeOK
      <4>3. bills'[s] # None
        BY <4>2, <2>1 DEF Bill
      <4> QED  BY <4>1, <4>2, <4>3 DEF Letter
    <3> QED  BY <2>3, <3>1, <3>2
  <2>7. RowsKept
    <3>1. \A i \in DOMAIN letters : letters[i] # None
      BY LetterType, <2>1 DEF Letters
    <3> HIDE DEF letters
    <3> QED  BY <2>3, <3>1 DEF RowsKept, Pending, Rows
  <2> QED  BY <2>7, <2>5, <2>6
<1>4. ASSUME NEW s \in Subs, NEW f \in Facts, NEW announced \in BOOLEAN,
             CorrectBill(s, f, announced)
      PROVE  TypeOK' /\ ConfirmationIsTrue' /\ RowsKept
  <2> DEFINE letters == IF announced THEN <<Letter(s, NoBill, None)>> ELSE <<>>
             rows == Cancelled(bills[s].id)
  <2>1. /\ bills[s] # None
        /\ bills' = [bills EXCEPT ![s].fact = f]
        /\ Queue(rows, letters)
        /\ UNCHANGED <<nextBill, known, smtp, run, latest, crashes>>
    BY <1>4 DEF CorrectBill
  <2>2. bills[s] \in Bill /\ bills[s].id \in BillIds
    BY <2>1 DEF TypeOK, Bill
  <2>3. letters \in Seq(Letters)
    <3>1. Letter(s, NoBill, None) \in Letters
      BY LetterType
    <3> QED  BY <3>1
  <2>4. /\ rows \in [Mails -> Mail \cup {None}]
        /\ \A m \in Mails :
             rows[m] # None /\ rows[m].status = "pending" =>
               rows[m] = outbox[m] /\ m \in Pending /\ rows[m].bill # bills[s].id
    BY <2>2, CancelledRows
  <2>5. \A i \in DOMAIN letters : letters[i].bill = NoBill
    BY DEF Letter
  <2> HIDE DEF letters, rows
  <2>6. /\ outbox' \in [Mails -> Mail \cup {None}]
        /\ nextMail' \in 1..(MaxMails + 1)
        /\ \A m \in Mails : \/ outbox'[m] = rows[m]
                            \/ \E i \in DOMAIN letters : outbox'[m] = letters[i]
    BY <2>1, <2>3, <2>4, QueuedRows
  <2>7. bills' \in [Subs -> Bill \cup {None}]
    BY <2>1, <2>2 DEF TypeOK, Bill
  <2>8. TypeOK'
    BY <2>1, <2>6, <2>7 DEF TypeOK
  <2>9. ConfirmationIsTrue'
    <3> SUFFICES ASSUME NEW m \in Mails, outbox'[m] # None,
                        outbox'[m].status = "pending", outbox'[m].bill # NoBill
                 PROVE  LET bill == bills'[outbox'[m].sub] IN
                        /\ bill # None
                        /\ bill.id = outbox'[m].bill
                        /\ bill.fact = outbox'[m].fact
      BY DEF ConfirmationIsTrue, Pending, Rows
    <3>1. outbox'[m] = rows[m]
      BY <2>5, <2>6
    <3>2. outbox'[m] = outbox[m] /\ m \in Pending /\ outbox[m].bill # bills[s].id
      BY <2>4, <3>1
    <3>3. /\ bills[outbox[m].sub] # None
          /\ bills[outbox[m].sub].id = outbox[m].bill
          /\ bills[outbox[m].sub].fact = outbox[m].fact
      BY <3>2 DEF ConfirmationIsTrue
    <3>4. bills'[outbox[m].sub] = bills[outbox[m].sub]
      BY <2>1, <3>2, <3>3, <2>6 DEF TypeOK, Mail
    <3> QED  BY <3>2, <3>3, <3>4
  <2>10. RowsKept
    <3>1. \A i \in DOMAIN letters : letters[i] # None
      BY <2>3 DEF Letters
    <3>2. \A m \in Pending : rows[m] # None
      BY <2>2, CancelledRows DEF rows
    <3> QED  BY <2>6, <3>1, <3>2 DEF RowsKept, Pending, Rows
  <2> QED  BY <2>10, <2>8, <2>9
<1>5. ASSUME NEW s \in Subs, DeleteBill(s)
      PROVE  TypeOK' /\ ConfirmationIsTrue' /\ RowsKept
  <2>1. /\ bills[s] # None
        /\ bills' = [bills EXCEPT ![s] = None]
        /\ outbox' = Cancelled(bills[s].id)
        /\ UNCHANGED <<nextMail, nextBill, known, smtp, run, latest, crashes>>
    BY <1>5 DEF DeleteBill
  <2>2. bills[s] \in Bill /\ bills[s].id \in BillIds
    BY <2>1 DEF TypeOK, Bill
  <2>3. /\ outbox' \in [Mails -> Mail \cup {None}]
        /\ \A m \in Mails :
             outbox'[m] # None /\ outbox'[m].status = "pending" =>
               outbox'[m] = outbox[m] /\ m \in Pending /\ outbox'[m].bill # bills[s].id
    BY <2>1, <2>2, CancelledRows
  <2>4. TypeOK'
    BY <2>1, <2>3 DEF TypeOK
  <2>5. ConfirmationIsTrue'
    <3> SUFFICES ASSUME NEW m \in Mails, outbox'[m] # None,
                        outbox'[m].status = "pending", outbox'[m].bill # NoBill
                 PROVE  LET bill == bills'[outbox'[m].sub] IN
                        /\ bill # None
                        /\ bill.id = outbox'[m].bill
                        /\ bill.fact = outbox'[m].fact
      BY DEF ConfirmationIsTrue, Pending, Rows
    <3>1. outbox'[m] = outbox[m] /\ m \in Pending /\ outbox[m].bill # bills[s].id
      BY <2>3
    <3>2. /\ bills[outbox[m].sub] # None
          /\ bills[outbox[m].sub].id = outbox[m].bill
          /\ bills[outbox[m].sub].fact = outbox[m].fact
      BY <3>1 DEF ConfirmationIsTrue
    <3>3. bills'[outbox[m].sub] = bills[outbox[m].sub]
      BY <2>1, <3>1, <3>2, <2>3 DEF TypeOK, Mail
    <3> QED  BY <3>1, <3>2, <3>3
  <2>6. RowsKept
    BY <2>1, <2>2, CancelledRows DEF RowsKept
  <2> QED  BY <2>6, <2>4, <2>5
<1>6. ASSUME NEW S \in SUBSET Subs, GrantBenefits(S)
      PROVE  TypeOK' /\ ConfirmationIsTrue' /\ RowsKept
  <2>1. PICK order \in Injection(1..Cardinality(S), S) :
          Queue(outbox, [i \in 1..Cardinality(S) |-> Letter(order[i], NoBill, None)])
    BY <1>6 DEF GrantBenefits
  <2> DEFINE letters == [i \in 1..Cardinality(S) |-> Letter(order[i], NoBill, None)]
  <2>2. UNCHANGED <<bills, nextBill, known, smtp, run, latest, crashes>>
    BY <1>6 DEF GrantBenefits
  <2>3. Cardinality(S) \in Nat
    BY FS_Subset, FS_CardinalityType
  <2>4. \A i \in 1..Cardinality(S) : order[i] \in Subs
    BY DEF Injection
  <2>5. letters \in Seq(Letters)
    <3>1. \A i \in 1..Cardinality(S) : Letter(order[i], NoBill, None) \in Letters
      BY <2>4, LetterType
    <3>2. letters \in [1..Cardinality(S) -> Letters]
      BY <3>1
    <3>3. \A n \in Nat : [1..n -> Letters] \subseteq Seq(Letters)
      OBVIOUS
    <3> HIDE DEF letters
    <3> QED  BY <2>3, <3>2, <3>3
  <2>6. \A i \in DOMAIN letters : letters[i].bill = NoBill
    BY DEF Letter
  <2>7. Queue(outbox, letters)
    BY <2>1
  <2> HIDE DEF letters
  <2>8. /\ outbox' \in [Mails -> Mail \cup {None}]
        /\ nextMail' \in 1..(MaxMails + 1)
        /\ \A m \in Mails : \/ outbox'[m] = outbox[m]
                            \/ \E i \in DOMAIN letters : outbox'[m] = letters[i]
    BY <2>5, <2>7, QueuedRows DEF TypeOK
  <2>9. TypeOK'
    BY <2>2, <2>8 DEF TypeOK
  <2>10. ConfirmationIsTrue'
    <3> SUFFICES ASSUME NEW m \in Mails, outbox'[m] # None,
                        outbox'[m].status = "pending", outbox'[m].bill # NoBill
                 PROVE  LET bill == bills'[outbox'[m].sub] IN
                        /\ bill # None
                        /\ bill.id = outbox'[m].bill
                        /\ bill.fact = outbox'[m].fact
      BY DEF ConfirmationIsTrue, Pending, Rows
    <3>1. outbox'[m] = outbox[m]
      BY <2>6, <2>8
    <3> QED  BY <2>2, <3>1 DEF ConfirmationIsTrue, Pending, Rows
  <2>11. RowsKept
    BY <2>5, <2>8 DEF RowsKept, Pending, Rows, Letters
  <2> QED  BY <2>11, <2>9, <2>10
<1>7. ASSUME NEW s \in Subs, DeleteMistaken(s)
      PROVE  TypeOK' /\ ConfirmationIsTrue' /\ RowsKept
  <2>1. /\ known' = known \ {s}
        /\ bills' = [bills EXCEPT ![s] = None]
        /\ outbox' = [m \in Mails |->
                        IF m \in Rows /\ outbox[m].sub = s THEN None ELSE outbox[m]]
        /\ UNCHANGED <<nextMail, nextBill, smtp, run, latest, crashes>>
    BY <1>7 DEF DeleteMistaken
  <2>2. TypeOK'
    BY <2>1 DEF TypeOK
  <2>3. ConfirmationIsTrue'
    <3> SUFFICES ASSUME NEW m \in Mails, outbox'[m] # None,
                        outbox'[m].status = "pending", outbox'[m].bill # NoBill
                 PROVE  LET bill == bills'[outbox'[m].sub] IN
                        /\ bill # None
                        /\ bill.id = outbox'[m].bill
                        /\ bill.fact = outbox'[m].fact
      BY DEF ConfirmationIsTrue, Pending, Rows
    <3>1. outbox'[m] = outbox[m] /\ m \in Pending /\ outbox[m].sub # s
      BY <2>1 DEF Pending, Rows
    <3>2. bills'[outbox[m].sub] = bills[outbox[m].sub]
      BY <2>1, <3>1 DEF TypeOK, Mail, Pending, Rows
    <3> QED  BY <3>1, <3>2 DEF ConfirmationIsTrue
  <2>4. RowsKept
    BY <2>1 DEF RowsKept, Pending, Rows
  <2> QED  BY <2>4, <2>2, <2>3
<1> QED  BY <1>2, <1>3, <1>4, <1>5, <1>6, <1>7

LEMMA BeginStep ==
  ASSUME OutboxInv, BeginRun
  PROVE  OutboxInv'
<1> USE DEF OutboxInv
<1>1. /\ outbox' = [m \in Mails |-> Older(outbox[m])]
      /\ run' = IF smtp THEN NewRun ELSE None
      /\ UNCHANGED <<business, smtp, latest, crashes>>
  BY DEF BeginRun
<1>2. \A m \in Mails : outbox[m] = None => Older(outbox[m]) = None
  BY DEF Older
<1>3. \A m \in Mails : outbox'[m] # None =>
        /\ outbox[m] \in Mail /\ outbox'[m] \in Mail
        /\ outbox'[m].status = outbox[m].status
        /\ outbox'[m].sub = outbox[m].sub
        /\ outbox'[m].bill = outbox[m].bill
        /\ outbox'[m].fact = outbox[m].fact
  BY <1>1, <1>2, OlderType DEF TypeOK
<1>4. outbox' \in [Mails -> Mail \cup {None}]
  BY <1>1, <1>3
<1>5. run' \in Run \cup {None}
  BY <1>1 DEF NewRun, Run, Work
<1>6. TypeOK'
  BY <1>1, <1>4, <1>5 DEF TypeOK, business
<1>7. SameLetters
  BY <1>1, <1>3 DEF SameLetters, Pending, Rows
<1>8. ConfirmationIsTrue'
  BY <1>1, <1>7, ConfirmationsKept DEF business
<1>9. BatchIsPending'
  <2>1. run' # None => Busy' = {}
    BY <1>1 DEF Busy, NewRun
  <2> QED  BY <2>1 DEF BatchIsPending
<1> QED  BY <1>6, <1>8, <1>9

LEMMA FetchStep ==
  ASSUME OutboxInv, Fetch
  PROVE  OutboxInv'
<1> USE DEF OutboxInv
<1>1. /\ run # None /\ Busy = {}
      /\ run' = [run EXCEPT !.work = [m \in Mails |-> IF m \in Batch THEN "ready"
                                                       ELSE "idle"]]
      /\ UNCHANGED <<business, outbox, smtp, latest, crashes>>
  BY DEF Fetch
<1>2. run' \in Run
  BY <1>1 DEF TypeOK, Run, Work
<1>3. TypeOK'
  BY <1>1, <1>2 DEF TypeOK, business
<1>4. SameLetters
  BY <1>1 DEF SameLetters, Pending, Rows
<1>5. ConfirmationIsTrue'
  BY <1>1, <1>4, ConfirmationsKept DEF business
<1>6. \A m \in Batch : m \in Pending /\ \A n \in PendingOf(outbox[m].sub) : m <= n
  BY DEF Batch, Due
<1>7. Busy' \subseteq Batch
  BY <1>1 DEF TypeOK, Run, Busy
<1>8. BatchIsPending'
  BY <1>1, <1>6, <1>7 DEF BatchIsPending, Pending, PendingOf, Rows
<1> QED  BY <1>3, <1>5, <1>8

(* A goroutine that does not write to the database. *)
LEMMA GoroutineStep ==
  ASSUME OutboxInv, NEW m \in Mails,
         Skip(m) \/ Refuse(m) \/ \E inTime \in BOOLEAN : Accept(m, inTime)
  PROVE  OutboxInv'
<1> USE DEF OutboxInv
<1>1. /\ run \in Run /\ m \in Busy
      /\ \E w \in Work : run' = [run EXCEPT !.work[m] = w]
      /\ UNCHANGED <<business, outbox, smtp, crashes>>
  BY DEF Skip, Refuse, Accept, At, Busy, TypeOK, Work
<1>2. m \in Pending /\ outbox[m] \in Mail
  BY <1>1 DEF BatchIsPending, TypeOK, Pending, Rows
<1>3. latest' \in [Subs -> 0..MaxMails]
  <2>1. latest' = latest \/ latest' = [latest EXCEPT ![outbox[m].sub] = m]
    BY DEF Skip, Refuse, Accept
  <2>2. m \in 0..MaxMails
    BY DEF Mails
  <2>3. latest \in [Subs -> 0..MaxMails]
    BY DEF TypeOK
  <2> QED  BY <2>1, <2>2, <2>3
<1>4. run' \in Run
  <2>1. PICK w \in Work : run' = [run EXCEPT !.work[m] = w]
    BY <1>1
  <2> QED  BY <1>1, <2>1 DEF Run
<1>5. TypeOK'
  BY <1>1, <1>3, <1>4 DEF TypeOK, business
<1>6. SameLetters
  BY <1>1 DEF SameLetters, Pending, Rows
<1>7. ConfirmationIsTrue'
  BY <1>1, <1>6, ConfirmationsKept DEF business
<1>8. Busy' \subseteq Busy
  BY <1>1 DEF Run, Busy
<1>9. BatchIsPending'
  BY <1>1, <1>6, <1>8, BatchKept
<1> QED  BY <1>5, <1>7, <1>9

(* Only the status and the retry of a row change with its result. *)
LEMMA FinishedRow ==
  ASSUME NEW m \in Pending, outbox[m] \in Mail, FinishSent(m) \/ FinishFailed(m)
  PROVE  \E r \in Mail : /\ outbox' = [outbox EXCEPT ![m] = r]
                         /\ r.sub = outbox[m].sub
                         /\ r.bill = outbox[m].bill
                         /\ r.fact = outbox[m].fact
<1>1. CASE FinishSent(m)
  <2>1. outbox' = [outbox EXCEPT ![m] = Settled(outbox[m], "success")]
    BY <1>1 DEF FinishSent
  <2>2. Settled(outbox[m], "success") \in Mail
    BY SettledType
  <2> QED  BY <2>1, <2>2 DEF Settled, Mail
<1>2. CASE FinishFailed(m)
  <2> DEFINE attempt == LowerOf(outbox[m].attempt + 1, Len(BackOff))
  <2>1. Len(BackOff) \in Nat \ {0}
    OBVIOUS
  <2>2. attempt \in 1..Len(BackOff)
    BY <2>1 DEF LowerOf, Mail
  <2>3. Delay(attempt) \in Nat
    BY <2>2 DEF Delay
  <2>4. PICK late \in {0, 1} :
          outbox' = [outbox EXCEPT ![m].attempt = attempt,
                                   ![m].left = Delay(attempt) + late]
    BY <1>2 DEF FinishFailed
  <2> HIDE DEF attempt
  <2> DEFINE r == [outbox[m] EXCEPT !.attempt = attempt,
                                    !.left = Delay(attempt) + late]
  <2>5. r \in Mail
    <3>1. attempt \in 0..Len(BackOff) /\ Delay(attempt) + late \in Nat
      BY <2>1, <2>2, <2>3
    <3> QED  BY <3>1 DEF Mail
  <2>6. outbox' = [outbox EXCEPT ![m] = r]
    BY <2>4
  <2>7. r.sub = outbox[m].sub /\ r.bill = outbox[m].bill /\ r.fact = outbox[m].fact
    BY DEF Mail
  <2> HIDE DEF r
  <2> QED  BY <2>5, <2>6, <2>7
<1> QED  BY <1>1, <1>2

(* A goroutine that writes its result touches its own row only. *)
LEMMA FinishStep ==
  ASSUME OutboxInv, NEW m \in Mails, FinishSent(m) \/ FinishFailed(m)
  PROVE  OutboxInv'
<1> USE DEF OutboxInv
<1>1. /\ run \in Run /\ m \in Busy
      /\ \E failed \in BOOLEAN :
           run' = [run EXCEPT !.work[m] = "idle", !.failed = failed]
      /\ UNCHANGED <<business, smtp, latest, crashes>>
  <2>1. run \in Run /\ m \in Busy
    BY DEF FinishSent, FinishFailed, At, Busy, TypeOK
  <2>2. (run.failed \/ m \notin Pending) \in BOOLEAN
    BY <2>1 DEF Run
  <2> QED  BY <2>1, <2>2 DEF FinishSent, FinishFailed
<1>2. m \in Pending /\ outbox[m] \in Mail
  BY <1>1 DEF BatchIsPending, TypeOK, Pending, Rows
<1>3. \E r \in Mail : /\ outbox' = [outbox EXCEPT ![m] = r]
                      /\ r.sub = outbox[m].sub
                      /\ r.bill = outbox[m].bill
                      /\ r.fact = outbox[m].fact
  BY <1>2, FinishedRow
<1>4. TypeOK'
  <2>1. run' \in Run
    <3>1. PICK failed \in BOOLEAN :
            run' = [run EXCEPT !.work[m] = "idle", !.failed = failed]
      BY <1>1
    <3>2. "idle" \in Work
      BY DEF Work
    <3> QED  BY <1>1, <3>1, <3>2 DEF Run
  <2>2. outbox' \in [Mails -> Mail \cup {None}]
    BY <1>3 DEF TypeOK
  <2> QED  BY <1>1, <2>1, <2>2 DEF TypeOK, business
<1>5. \A n \in Mails : n # m => outbox'[n] = outbox[n]
  BY <1>3 DEF TypeOK
<1>6. /\ outbox'[m].sub = outbox[m].sub
      /\ outbox'[m].bill = outbox[m].bill
      /\ outbox'[m].fact = outbox[m].fact
  BY <1>3 DEF TypeOK
<1>7. SameLetters
  BY <1>2, <1>5, <1>6 DEF SameLetters, Pending, Rows
<1>8. ConfirmationIsTrue'
  BY <1>1, <1>7, ConfirmationsKept DEF business
<1>9. Busy' \subseteq Busy \ {m}
  BY <1>1 DEF Run, Busy
<1>10. BatchIsPending'
  BY <1>1, <1>5, <1>7, <1>9, BatchKept DEF Busy
<1> QED  BY <1>4, <1>8, <1>10

(* The steps that leave every row as it is. *)
LEMMA QuietStep ==
  ASSUME OutboxInv, ConfigureSmtp \/ EndRun \/ Expire \/ Crash \/ UNCHANGED vars
  PROVE  OutboxInv'
<1> USE DEF OutboxInv
<1>1. /\ UNCHANGED <<bills, nextMail, nextBill, known, outbox, latest>>
      /\ run' \in {None, run} \/ (run # None /\ run' = [run EXCEPT !.expired = TRUE])
      /\ smtp' \in BOOLEAN /\ crashes' \in 0..MaxCrashes
  <2>1. CASE ConfigureSmtp
    BY <2>1 DEF ConfigureSmtp, business, TypeOK
  <2>2. CASE EndRun \/ Expire
    BY <2>2 DEF EndRun, Expire, business, TypeOK
  <2>3. CASE Crash
    BY <2>3 DEF Crash, business, TypeOK
  <2>4. CASE UNCHANGED vars
    BY <2>4 DEF vars, business, TypeOK
  <2> QED  BY <2>1, <2>2, <2>3, <2>4
<1>2. run' \in Run \cup {None}
  BY <1>1 DEF TypeOK, Run
<1>3. TypeOK'
  BY <1>1, <1>2 DEF TypeOK
<1>4. SameLetters
  BY <1>1 DEF SameLetters, Pending, Rows
<1>5. ConfirmationIsTrue'
  BY <1>1, <1>4, ConfirmationsKept
<1>6. run' # None => run # None /\ Busy' = Busy
  BY <1>1 DEF Busy, TypeOK, Run
<1>7. BatchIsPending'
  BY <1>1, <1>4, <1>6, BatchKept
<1> QED  BY <1>3, <1>5, <1>7

LEMMA OutboxStep == OutboxInv /\ [Next]_vars => OutboxInv'
<1> SUFFICES ASSUME OutboxInv, [Next]_vars
             PROVE  OutboxInv'
  OBVIOUS
<1> QED  BY ChangeStep, BeginStep, FetchStep, GoroutineStep, FinishStep, QuietStep
         DEF Next

LEMMA OutboxInvariant == Spec => []OutboxInv
<1> QED  BY OutboxInit, OutboxStep, PTL DEF Spec

-----------------------------------------------------------------------------
(* Results *)

(* Rows, goroutines and counters keep their types under every interleaving of *)
(* changes, runs, answers of the mail server and crashes.                     *)
THEOREM OutboxTypeCorrect == Spec => []TypeOK
<1>1. OutboxInv => TypeOK
  BY DEF OutboxInv
<1> QED  BY <1>1, OutboxInvariant, PTL

(* However many goroutines a batch has, each holds the oldest pending mail of *)
(* its subscription until it has written its result.                          *)
THEOREM BatchStaysPending == Spec => []BatchIsPending
<1>1. OutboxInv => BatchIsPending
  BY DEF OutboxInv
<1> QED  BY <1>1, OutboxInvariant, PTL

(* A payment confirmation that waits or is on its way states the bill as it is *)
(* in the ledger, whatever was edited, moved or taken back meanwhile.         *)
THEOREM ConfirmationsStayTrue == Spec => []ConfirmationIsTrue
<1>1. OutboxInv => ConfirmationIsTrue
  BY DEF OutboxInv
<1> QED  BY <1>1, OutboxInvariant, PTL

(* No step but the deletion of a mistaken registration removes a mail that     *)
(* waits or is to be tried again: the clean-up cannot race a retry.           *)
THEOREM PendingMailIsKept == Spec => PendingIsKept
<1>1. ASSUME OutboxInv, [Next]_vars
      PROVE  RowsKept
  <2>1. CASE UNCHANGED outbox
    BY <2>1 DEF RowsKept, Pending, Rows
  <2>2. CASE BeginRun
    <3>1. \A m \in Pending : /\ outbox[m] # None /\ outbox[m] \in Mail
                             /\ outbox[m].status = "pending"
      BY <1>1 DEF OutboxInv, TypeOK, Pending, Rows
    <3>2. \A m \in Pending : Older(outbox[m]) = [outbox[m] EXCEPT
              !.left = IF outbox[m].left = 0 THEN 0 ELSE outbox[m].left - 1]
      BY <3>1 DEF Older
    <3>3. \A m \in Pending : Older(outbox[m]) \in Mail
      <4> SUFFICES ASSUME NEW m \in Pending
                   PROVE  Older(outbox[m]) \in Mail
        OBVIOUS
      <4> DEFINE left == IF outbox[m].left = 0 THEN 0 ELSE outbox[m].left - 1
      <4>1. left \in Nat
        BY <3>1 DEF Mail
      <4>2. Older(outbox[m]) = [outbox[m] EXCEPT !.left = left]
        BY <3>2
      <4> HIDE DEF left
      <4> QED  BY <3>1, <4>1, <4>2 DEF Mail
    <3> QED  BY <2>2, <3>3 DEF BeginRun, RowsKept, Pending, Rows
  <2>3. ASSUME NEW m \in Mails, FinishSent(m) \/ FinishFailed(m)
        PROVE  RowsKept
    <3>1. m \in Pending /\ outbox[m] \in Mail
      BY <1>1, <2>3 DEF OutboxInv, FinishSent, FinishFailed, At, Busy,
                        BatchIsPending, TypeOK, Pending, Rows
    <3>2. PICK r \in Mail : outbox' = [outbox EXCEPT ![m] = r]
      BY <2>3, <3>1, FinishedRow
    <3> QED  BY <1>1, <3>2 DEF OutboxInv, TypeOK, RowsKept, Pending, Rows
  <2> QED  BY <1>1, <2>1, <2>2, <2>3, ChangeStep
           DEF Next, vars, ConfigureSmtp, Fetch, EndRun, Expire, Skip, Accept,
               Refuse, Crash
<1> QED  BY <1>1, OutboxInvariant, PTL DEF Spec, PendingIsKept, RowsKept

-----------------------------------------------------------------------------
(* What the mail server has taken *)

(* A mail that is the last its customer got, and that still waits, is one     *)
(* whose goroutine has not written its result, or one of which a failure or a *)
(* crash is on record; numbers grow with time, so no new mail looks taken.    *)
Unanswered(m) == At(m, "accepted") \/ At(m, "error")
TakenInv ==
  /\ \A m \in Rows : m < nextMail
  /\ \A s \in Subs : latest[s] < nextMail
  /\ \A m \in Mails : At(m, "accepted") => latest[outbox[m].sub] = m
  /\ \A m \in Pending :
       latest[outbox[m].sub] = m =>
         Unanswered(m) \/ outbox[m].attempt > 0 \/ crashes > 0

(* A transaction writes its letters, in their order, on numbers never used. *)
LEMMA QueuedNumbers ==
  ASSUME TypeOK, NEW rows \in [Mails -> Mail \cup {None}],
         NEW letters \in Seq(Letters), Queue(rows, letters)
  PROVE  /\ nextMail' \in Int /\ nextMail <= nextMail'
         /\ \A m \in Mails :
              \/ outbox'[m] = rows[m]
              \/ /\ nextMail <= m /\ m < nextMail'
                 /\ m - nextMail + 1 \in DOMAIN letters
                 /\ outbox'[m] = letters[m - nextMail + 1]
<1> DEFINE new == IF smtp THEN letters ELSE <<>>
<1>1. new \in Seq(Letters) /\ Len(new) \in Nat /\ DOMAIN new = 1..Len(new)
  OBVIOUS
<1>2. /\ nextMail' = nextMail + Len(new)
      /\ outbox' = [m \in Mails |-> IF m - nextMail + 1 \in DOMAIN new
                                    THEN new[m - nextMail + 1] ELSE rows[m]]
  BY DEF Queue
<1>3. \A i \in DOMAIN new : i \in DOMAIN letters /\ new[i] = letters[i]
  BY <1>1
<1> HIDE DEF new
<1>4. nextMail \in Int
  BY DEF TypeOK
<1>5. nextMail' \in Int /\ nextMail <= nextMail'
  BY <1>1, <1>2, <1>4
<1>6. ASSUME NEW m \in Mails, m - nextMail + 1 \in DOMAIN new
      PROVE  /\ nextMail <= m /\ m < nextMail'
             /\ m - nextMail + 1 \in DOMAIN letters
             /\ outbox'[m] = letters[m - nextMail + 1]
  <2>1. m \in Int /\ m - nextMail + 1 \in 1..Len(new)
    BY <1>1, <1>6 DEF Mails
  <2>2. nextMail <= m /\ m < nextMail'
    BY <1>1, <1>2, <1>4, <2>1
  <2> QED  BY <1>2, <1>3, <1>6, <2>2
<1> QED  BY <1>2, <1>5, <1>6

(* A step that changes the ledger: no mail that waits is new but those that    *)
(* take the next numbers, one for a customer.                                 *)
NewMails ==
  /\ nextMail \in Int /\ nextMail' \in Int /\ nextMail <= nextMail'
  /\ \A m \in Rows' : m \in Rows \/ (nextMail <= m /\ m < nextMail')
  /\ \A m \in Pending' : \/ m \in Pending /\ outbox'[m] = outbox[m]
                         \/ nextMail <= m /\ m < nextMail'
  /\ \A m, n \in Pending' : nextMail <= m /\ nextMail <= n
                            /\ outbox'[m].sub = outbox'[n].sub => m = n
  /\ latest' = latest /\ crashes' = crashes /\ run = None /\ run' = None

LEMMA ChangeNumbers ==
  ASSUME OutboxInv, TakenInv,
         \/ \E s \in Subs, f \in Facts : Pay(s, f)
         \/ \E s \in Subs, f \in Facts, announced \in BOOLEAN :
              CorrectBill(s, f, announced)
         \/ \E s \in Subs : DeleteBill(s)
         \/ \E S \in SUBSET Subs : GrantBenefits(S)
         \/ \E s \in Subs : DeleteMistaken(s)
  PROVE  NewMails
<1> USE DEF OutboxInv
<1>1. /\ run = None /\ run' = None /\ latest' = latest /\ crashes' = crashes
      /\ nextMail \in Int
  <2>1. run = None /\ run' = None /\ latest' = latest /\ crashes' = crashes
    BY DEF Pay, CorrectBill, DeleteBill, GrantBenefits, DeleteMistaken, MutexFree
  <2>2. nextMail \in Int
    BY DEF TypeOK
  <2> QED  BY <2>1, <2>2
<1>2. \A m \in Mails : m \in Int
  BY DEF Mails
(* The rows a transaction starts from, and the letters it adds. *)
<1>3. ASSUME NEW rows \in [Mails -> Mail \cup {None}],
             NEW letters \in Seq(Letters), Queue(rows, letters),
             \A m \in Mails : rows[m] # None => m \in Rows,
             \A m \in Mails : rows[m] # None /\ rows[m].status = "pending" =>
                                rows[m] = outbox[m],
             \A i, j \in DOMAIN letters : letters[i].sub = letters[j].sub => i = j
      PROVE  NewMails
  <2>1. /\ nextMail' \in Int /\ nextMail <= nextMail'
        /\ \A m \in Mails :
             \/ outbox'[m] = rows[m]
             \/ /\ nextMail <= m /\ m < nextMail'
                /\ m - nextMail + 1 \in DOMAIN letters
                /\ outbox'[m] = letters[m - nextMail + 1]
    BY <1>3, QueuedNumbers
  <2>2. \A m \in Rows' : m \in Rows \/ (nextMail <= m /\ m < nextMail')
    BY <1>3, <2>1 DEF Rows
  <2>3. \A m \in Pending' : \/ m \in Pending /\ outbox'[m] = outbox[m]
                            \/ nextMail <= m /\ m < nextMail'
    BY <1>3, <2>1 DEF Pending, Rows
  <2>4. ASSUME NEW m \in Pending', NEW n \in Pending', nextMail <= m, nextMail <= n,
               outbox'[m].sub = outbox'[n].sub
        PROVE  m = n
    <3>1. m \in Mails /\ n \in Mails /\ m \in Int /\ n \in Int
      BY <1>2 DEF Pending, Rows
    <3>2. outbox'[m] # rows[m] /\ outbox'[n] # rows[n]
      <4>1. m \notin Rows /\ n \notin Rows
        BY <1>1, <2>4, <3>1 DEF TakenInv
      <4> QED  BY <1>3, <3>1, <4>1 DEF Pending, Rows
    <3>3. /\ m - nextMail + 1 \in DOMAIN letters
          /\ n - nextMail + 1 \in DOMAIN letters
          /\ outbox'[m] = letters[m - nextMail + 1]
          /\ outbox'[n] = letters[n - nextMail + 1]
      BY <2>1, <3>1, <3>2
    <3>4. m - nextMail + 1 = n - nextMail + 1
      BY <1>3, <2>4, <3>3
    <3> QED  BY <1>1, <3>1, <3>4
  <2> QED  BY <1>1, <2>1, <2>2, <2>3, <2>4 DEF NewMails
<1>4. ASSUME NEW s \in Subs, NEW f \in Facts, Pay(s, f)
      PROVE  NewMails
  <2> DEFINE letters == <<Letter(s, nextBill, f)>>
  <2>1. nextBill \in BillIds /\ Queue(outbox, letters)
    BY <1>4 DEF Pay
  <2>2. letters \in Seq(Letters)
    BY <2>1, LetterType
  <2>3. \A i, j \in DOMAIN letters : letters[i].sub = letters[j].sub => i = j
    OBVIOUS
  <2>4. outbox \in [Mails -> Mail \cup {None}]
    BY DEF TypeOK
  <2> HIDE DEF letters
  <2> QED  BY <1>3, <2>1, <2>2, <2>3, <2>4 DEF Rows
<1>5. ASSUME NEW s \in Subs, NEW f \in Facts, NEW announced \in BOOLEAN,
             CorrectBill(s, f, announced)
      PROVE  NewMails
  <2> DEFINE letters == IF announced THEN <<Letter(s, NoBill, None)>> ELSE <<>>
             rows == Cancelled(bills[s].id)
  <2>1. bills[s] # None /\ Queue(rows, letters)
    BY <1>5 DEF CorrectBill
  <2>2. bills[s].id \in BillIds
    BY <2>1 DEF TypeOK, Bill
  <2>3. letters \in Seq(Letters)
    <3>1. Letter(s, NoBill, None) \in Letters
      BY LetterType
    <3> QED  BY <3>1
  <2>4. \A i, j \in DOMAIN letters : letters[i].sub = letters[j].sub => i = j
    OBVIOUS
  <2>5. /\ rows \in [Mails -> Mail \cup {None}]
        /\ \A m \in Mails : rows[m] # None /\ rows[m].status = "pending" =>
                              rows[m] = outbox[m]
    BY <2>2, CancelledRows
  <2>6. \A m \in Mails : rows[m] # None => m \in Rows
    BY DEF Cancelled, Rows, Pending
  <2> HIDE DEF letters, rows
  <2> QED  BY <1>3, <2>1, <2>3, <2>4, <2>5, <2>6
<1>6. ASSUME NEW s \in Subs, DeleteBill(s)
      PROVE  NewMails
  <2>1. /\ bills[s] # None /\ outbox' = Cancelled(bills[s].id) /\ nextMail' = nextMail
    BY <1>6 DEF DeleteBill
  <2>2. bills[s].id \in BillIds
    BY <2>1 DEF TypeOK, Bill
  <2>3. \A m \in Mails :
          outbox'[m] # None /\ outbox'[m].status = "pending" =>
            outbox'[m] = outbox[m] /\ m \in Pending
    BY <2>1, <2>2, CancelledRows
  <2>4. \A m \in Mails : outbox'[m] # None => m \in Rows
    BY <2>1 DEF Cancelled, Rows, Pending
  <2>5. \A m \in Pending' : m \in Pending /\ outbox'[m] = outbox[m]
    BY <2>3 DEF Pending, Rows
  <2>6. \A m \in Pending : m < nextMail
    BY DEF TakenInv, Pending
  <2>7. \A m \in Pending' : ~(nextMail <= m)
    BY <1>1, <1>2, <2>5, <2>6 DEF Pending, Rows
  <2> QED  BY <1>1, <2>1, <2>4, <2>5, <2>7 DEF NewMails, Rows
<1>7. ASSUME NEW S \in SUBSET Subs, GrantBenefits(S)
      PROVE  NewMails
  <2>1. PICK order \in Injection(1..Cardinality(S), S) :
          Queue(outbox, [i \in 1..Cardinality(S) |-> Letter(order[i], NoBill, None)])
    BY <1>7 DEF GrantBenefits
  <2> DEFINE letters == [i \in 1..Cardinality(S) |-> Letter(order[i], NoBill, None)]
  <2>2. Cardinality(S) \in Nat
    BY FS_Subset, FS_CardinalityType
  <2>3. /\ \A i \in 1..Cardinality(S) : order[i] \in Subs
        /\ \A i, j \in 1..Cardinality(S) : order[i] = order[j] => i = j
    BY DEF Injection, IsInjective
  <2>4. letters \in Seq(Letters)
    <3>1. \A i \in 1..Cardinality(S) : Letter(order[i], NoBill, None) \in Letters
      BY <2>3, LetterType
    <3>2. letters \in [1..Cardinality(S) -> Letters]
      BY <3>1
    <3>3. \A n \in Nat : [1..n -> Letters] \subseteq Seq(Letters)
      OBVIOUS
    <3> HIDE DEF letters
    <3> QED  BY <2>2, <3>2, <3>3
  <2>5. \A i, j \in DOMAIN letters : letters[i].sub = letters[j].sub => i = j
    BY <2>3 DEF Letter
  <2>6. Queue(outbox, letters)
    BY <2>1
  <2>7. outbox \in [Mails -> Mail \cup {None}]
    BY DEF TypeOK
  <2> HIDE DEF letters
  <2> QED  BY <1>3, <2>4, <2>5, <2>6, <2>7 DEF Rows
<1>8. ASSUME NEW s \in Subs, DeleteMistaken(s)
      PROVE  NewMails
  <2>1. /\ outbox' = [m \in Mails |->
                        IF m \in Rows /\ outbox[m].sub = s THEN None ELSE outbox[m]]
        /\ nextMail' = nextMail
    BY <1>8 DEF DeleteMistaken
  <2>2. \A m \in Mails : outbox'[m] # None => m \in Rows /\ outbox'[m] = outbox[m]
    BY <2>1 DEF Rows
  <2>3. \A m \in Pending' : m \in Pending /\ outbox'[m] = outbox[m]
    BY <2>2 DEF Pending, Rows
  <2>4. \A m \in Pending : m < nextMail
    BY DEF TakenInv, Pending
  <2>5. \A m \in Pending' : ~(nextMail <= m)
    BY <1>1, <1>2, <2>3, <2>4 DEF Pending, Rows
  <2>6. nextMail' = nextMail
    BY <2>1
  <2>7. \A m \in Rows' : m \in Rows
    BY <2>2 DEF Rows
  <2> QED  BY <1>1, <2>3, <2>5, <2>6, <2>7 DEF NewMails
<1> QED  BY <1>4, <1>5, <1>6, <1>7, <1>8

LEMMA TakenInit == Init => TakenInv
<1> SUFFICES ASSUME Init PROVE TakenInv
  OBVIOUS
<1> QED  BY DEF Init, TakenInv, Rows, Pending, At, Mails

(* The steps of the server between two changes: nothing waits that did not,    *)
(* and every mail that waits keeps its customer and its failures.             *)
SameMails ==
  /\ nextMail' = nextMail
  /\ \A m \in Rows' : m \in Rows /\ outbox'[m].sub = outbox[m].sub
  /\ \A m \in Pending' : m \in Pending
                         /\ (outbox'[m].attempt = outbox[m].attempt
                             \/ outbox'[m].attempt > 0)

LEMMA ChangeTaken ==
  ASSUME OutboxInv, OutboxInv', TakenInv, NewMails
  PROVE  TakenInv'
<1>1. nextMail \in Int /\ nextMail' \in Int /\ nextMail <= nextMail'
  BY DEF NewMails
<1>2. \A m \in Mails : m \in Int
  BY DEF Mails
<1>3. \A s \in Subs : latest[s] \in Int
  BY DEF OutboxInv, TypeOK
<1>4. \A m \in Rows' : m < nextMail'
  <2> SUFFICES ASSUME NEW m \in Rows' PROVE m < nextMail'
    OBVIOUS
  <2>1. m \in Mails /\ (m \in Rows \/ m < nextMail')
    BY DEF NewMails, Rows
  <2>2. m \in Rows => m < nextMail
    BY DEF TakenInv
  <2> QED  BY <1>1, <1>2, <2>1, <2>2
<1>5. \A s \in Subs : latest'[s] < nextMail'
  BY <1>1, <1>3 DEF TakenInv, NewMails
<1>6. \A m \in Mails : ~At(m, "accepted")'
  BY DEF NewMails, At
<1>7. ASSUME NEW m \in Pending', latest'[outbox'[m].sub] = m
      PROVE  outbox'[m].attempt > 0 \/ crashes' > 0
  <2>1. m \in Mails /\ outbox'[m].sub \in Subs
    <3>1. m \in Mails /\ outbox'[m] \in Mail
      BY <1>7 DEF OutboxInv, TypeOK, Pending, Rows
    <3> QED  BY <3>1 DEF Mail
  <2>2. ~(nextMail <= m)
    BY <1>1, <1>2, <1>3, <1>7, <2>1 DEF TakenInv, NewMails
  <2>3. m \in Pending /\ outbox'[m] = outbox[m] /\ latest' = latest /\ crashes' = crashes
        /\ ~Unanswered(m)
    BY <2>2 DEF NewMails, Unanswered, At
  <2> QED  BY <1>7, <2>3 DEF TakenInv
<1> QED  BY <1>4, <1>5, <1>6, <1>7 DEF TakenInv

LEMMA QuietTaken ==
  ASSUME OutboxInv, TakenInv, SameMails, latest' = latest,
         \A m \in Mails : At(m, "accepted")' => At(m, "accepted"),
         \A m \in Pending' : Unanswered(m) =>
                               Unanswered(m)' \/ outbox'[m].attempt > 0 \/ crashes' > 0,
         crashes' \in Int, crashes <= crashes',
         run' # None => \A m \in Mails : At(m, "accepted")' => m \in Rows'
  PROVE  TakenInv'
<1>1. crashes \in Int
  BY DEF OutboxInv, TypeOK
<1>2. (\A m \in Rows : m < nextMail)' /\ (\A s \in Subs : latest[s] < nextMail)'
  BY DEF SameMails, TakenInv
<1>3. (\A m \in Mails : At(m, "accepted") => latest[outbox[m].sub] = m)'
  BY DEF SameMails, TakenInv, At
<1>4. ASSUME NEW m \in Pending', (latest[outbox[m].sub] = m)'
      PROVE  (Unanswered(m) \/ outbox[m].attempt > 0 \/ crashes > 0)'
  <2>1. m \in Pending /\ outbox'[m].sub = outbox[m].sub
        /\ (outbox'[m].attempt = outbox[m].attempt \/ outbox'[m].attempt > 0)
    BY DEF SameMails, Pending
  <2>2. Unanswered(m) \/ outbox[m].attempt > 0 \/ crashes > 0
    BY <1>4, <2>1 DEF TakenInv
  <2>3. CASE Unanswered(m)
    BY <2>3
  <2>4. CASE outbox[m].attempt > 0
    BY <2>1, <2>4
  <2>5. CASE crashes > 0
    BY <1>1, <2>5
  <2> QED  BY <2>2, <2>3, <2>4, <2>5
<1> QED  BY <1>2, <1>3, <1>4 DEF TakenInv

(* Every step but those that change the ledger and those of a goroutine. *)
LEMMA OwnTaken ==
  ASSUME OutboxInv, TakenInv,
         BeginRun \/ Fetch \/ ConfigureSmtp \/ EndRun \/ Expire \/ Crash \/ UNCHANGED vars
  PROVE  TakenInv'
<1> USE DEF OutboxInv
<1>1. SameMails /\ latest' = latest
  <2>1. CASE BeginRun
    <3>1. /\ outbox' = [m \in Mails |-> Older(outbox[m])]
          /\ nextMail' = nextMail /\ latest' = latest
      BY <2>1 DEF BeginRun, business
    <3>2. \A m \in Mails : outbox[m] = None => Older(outbox[m]) = None
      BY DEF Older
    <3>3. \A m \in Mails : outbox'[m] # None =>
            /\ outbox[m] # None /\ outbox[m] \in Mail
            /\ outbox'[m].status = outbox[m].status
            /\ outbox'[m].sub = outbox[m].sub
            /\ outbox'[m].attempt = outbox[m].attempt
      <4> SUFFICES ASSUME NEW m \in Mails, outbox'[m] # None
                   PROVE  /\ outbox[m] # None /\ outbox[m] \in Mail
                          /\ outbox'[m].status = outbox[m].status
                          /\ outbox'[m].sub = outbox[m].sub
                          /\ outbox'[m].attempt = outbox[m].attempt
        OBVIOUS
      <4>1. outbox'[m] = Older(outbox[m]) /\ outbox[m] # None /\ outbox[m] \in Mail
        BY <3>1, <3>2 DEF TypeOK
      <4>2. Older(outbox[m]) = [outbox[m] EXCEPT !.left = IF @ = 0 THEN 0 ELSE @ - 1]
        BY <4>1 DEF Older
      <4> QED  BY <4>1, <4>2 DEF Mail
    <3> QED  BY <3>1, <3>3 DEF SameMails, Pending, Rows
  <2>2. CASE Fetch \/ ConfigureSmtp \/ EndRun \/ Expire \/ Crash \/ UNCHANGED vars
    <3>1. outbox' = outbox /\ nextMail' = nextMail /\ latest' = latest
      BY <2>2 DEF Fetch, ConfigureSmtp, EndRun, Expire, Crash, vars, business
    <3> QED  BY <3>1 DEF SameMails, Pending, Rows
  <2> QED  BY <2>1, <2>2
<1>2. crashes' \in Int /\ crashes <= crashes'
  <2>1. crashes \in Int
    BY DEF TypeOK
  <2>2. crashes' = crashes \/ crashes' = crashes + 1
    BY DEF BeginRun, Fetch, ConfigureSmtp, EndRun, Expire, Crash, vars
  <2> QED  BY <2>1, <2>2
<1>3. \A m \in Mails : At(m, "accepted")' => At(m, "accepted") /\ outbox' = outbox
  <2>1. CASE BeginRun
    BY <2>1 DEF BeginRun, At, NewRun
  <2>2. CASE Fetch
    BY <2>2 DEF Fetch, At, TypeOK, Run
  <2>3. CASE ConfigureSmtp \/ EndRun \/ Crash \/ UNCHANGED vars
    BY <2>3 DEF ConfigureSmtp, EndRun, Crash, vars, At
  <2>4. CASE Expire
    BY <2>4 DEF Expire, At, TypeOK, Run
  <2> QED  BY <2>1, <2>2, <2>3, <2>4
<1>4. \A m \in Mails : At(m, "accepted") => m \in Rows
  BY DEF At, BatchIsPending, Busy, Pending
<1>5. \A m \in Mails : Unanswered(m) => Unanswered(m)' \/ crashes' > 0
  <2> SUFFICES ASSUME NEW m \in Mails, Unanswered(m)
               PROVE  Unanswered(m)' \/ crashes' > 0
    OBVIOUS
  <2>1. run # None /\ m \in Busy /\ run \in Run
    BY DEF Unanswered, At, Busy, TypeOK
  <2>2. ~BeginRun /\ ~Fetch /\ ~EndRun
    BY <2>1 DEF BeginRun, Fetch, EndRun
  <2>3. CASE ConfigureSmtp \/ UNCHANGED vars
    BY <2>3 DEF ConfigureSmtp, vars, Unanswered, At
  <2>4. CASE Expire
    BY <2>1, <2>4 DEF Expire, Unanswered, At, Run
  <2>5. CASE Crash
    BY <2>5 DEF Crash, TypeOK
  <2> QED  BY <2>2, <2>3, <2>4, <2>5
<1>6. \A m \in Mails : At(m, "accepted")' => m \in Rows'
  BY <1>3, <1>4 DEF Rows
<1>7. \A m \in Pending' : m \in Mails
  BY DEF Pending, Rows
<1> HIDE DEF OutboxInv
<1> QED  BY <1>1, <1>2, <1>3, <1>5, <1>6, <1>7, QuietTaken

(* Where the other goroutines are does not change. *)
OthersStay(m) ==
  /\ run # None /\ run' # None
  /\ \A n \in Mails : n # m => run'.work[n] = run.work[n]

LEMMA WorkerTaken ==
  ASSUME OutboxInv, TakenInv, NEW m \in Mails,
         Skip(m) \/ Refuse(m) \/ FinishSent(m) \/ FinishFailed(m)
  PROVE  TakenInv'
<1>1. run \in Run /\ run # None /\ m \in Busy /\ m \in Pending /\ outbox[m] \in Mail
      /\ outbox[m] # None /\ outbox \in [Mails -> Mail \cup {None}]
  BY DEF Skip, Refuse, FinishSent, FinishFailed, At, Busy, OutboxInv, TypeOK,
         BatchIsPending, Pending, Rows
<1>2. nextMail' = nextMail /\ latest' = latest /\ crashes' = crashes
  BY DEF Skip, Refuse, FinishSent, FinishFailed, business
<1>3. OthersStay(m) /\ run'.work[m] \in {"idle", "error"}
  <2>1. PICK w \in {"idle", "error"}, f \in BOOLEAN :
          run' = [run EXCEPT !.work[m] = w, !.failed = f]
    <3>1. Skip(m) => run' = [run EXCEPT !.work[m] = "idle", !.failed = run.failed]
      BY <1>1 DEF Skip, Run
    <3>2. Refuse(m) => run' = [run EXCEPT !.work[m] = "error", !.failed = run.failed]
      BY <1>1 DEF Refuse, Run
    <3>3. FinishSent(m) => run' = [run EXCEPT !.work[m] = "idle",
                                              !.failed = run.failed \/ m \notin Pending]
      BY DEF FinishSent
    <3>4. FinishFailed(m) => run' = [run EXCEPT !.work[m] = "idle", !.failed = TRUE]
      BY DEF FinishFailed
    <3>5. run.failed \in BOOLEAN /\ (run.failed \/ m \notin Pending) \in BOOLEAN
      BY <1>1 DEF Run
    <3> QED  BY <3>1, <3>2, <3>3, <3>4, <3>5
  <2>2. run'.work[m] = w /\ \A n \in Mails : n # m => run'.work[n] = run.work[n]
    BY <1>1, <2>1 DEF Run
  <2>3. run' # None
    <3>1. w \in Work
      BY DEF Work
    <3>2. run' \in Run
      BY <1>1, <2>1, <3>1 DEF Run
    <3> QED  BY <3>2
  <2> QED  BY <1>1, <2>2, <2>3 DEF OthersStay
(* Nothing but its own row changes, and that is settled or counts a failure. *)
<1>4. \A n \in Mails : n # m => outbox'[n] = outbox[n]
  BY <1>1 DEF Skip, Refuse, FinishSent, FinishFailed
<1>5. \/ outbox' = outbox /\ ~FinishSent(m) /\ ~FinishFailed(m)
      \/ FinishSent(m) /\ outbox'[m] = Settled(outbox[m], "success")
      \/ FinishFailed(m) /\ outbox'[m].attempt > 0
  <2>1. CASE ~FinishSent(m) /\ ~FinishFailed(m)
    BY <2>1 DEF Skip, Refuse
  <2>2. CASE FinishSent(m)
    BY <1>1, <2>2 DEF FinishSent
  <2>3. CASE FinishFailed(m)
    <3> DEFINE attempt == LowerOf(outbox[m].attempt + 1, Len(BackOff))
    <3>1. attempt > 0
      <4>1. Len(BackOff) \in Nat \ {0}
        OBVIOUS
      <4>2. outbox[m].attempt \in Nat
        BY <1>1, <4>1 DEF Mail
      <4> QED  BY <4>1, <4>2 DEF LowerOf
    <3>2. PICK late \in {0, 1} :
            outbox' = [outbox EXCEPT ![m].attempt = attempt,
                                     ![m].left = Delay(attempt) + late]
      BY <1>1, <2>3 DEF FinishFailed
    <3> HIDE DEF attempt
    <3>3. outbox'[m].attempt = attempt
      BY <1>1, <3>2 DEF Mail
    <3> QED  BY <2>3, <3>1, <3>3
  <2> QED  BY <2>1, <2>2, <2>3
<1>6. \A n \in Mails : outbox'[n] # None => n \in Rows /\ outbox'[n].sub = outbox[n].sub
  <2>1. outbox'[m].sub = outbox[m].sub
    <3>1. CASE FinishSent(m) \/ FinishFailed(m)
      <4>1. PICK r \in Mail : outbox' = [outbox EXCEPT ![m] = r] /\ r.sub = outbox[m].sub
        BY <1>1, <3>1, FinishedRow
      <4> QED  BY <1>1, <4>1
    <3>2. CASE outbox' = outbox
      BY <3>2
    <3> QED  BY <1>5, <3>1, <3>2
  <2> QED  BY <1>1, <1>4, <2>1 DEF Rows, Pending
<1>7. \A n \in Mails : outbox'[n] # None /\ outbox'[n].status = "pending" =>
        /\ n \in Pending
        /\ outbox'[n].attempt = outbox[n].attempt \/ outbox'[n].attempt > 0
        /\ n = m => ~FinishSent(m)
  <2> SUFFICES ASSUME NEW n \in Mails, outbox'[n] # None, outbox'[n].status = "pending"
               PROVE  /\ n \in Pending
                      /\ \/ outbox'[n].attempt = outbox[n].attempt
                         \/ outbox'[n].attempt > 0
                      /\ n = m => ~FinishSent(m)
    OBVIOUS
  <2>1. Settled(outbox[m], "success").status = "success"
    BY <1>1, SettledType
  <2>2. CASE n # m
    BY <1>4, <2>2 DEF Rows, Pending
  <2>3. CASE n = m
    <3>1. ~(outbox'[m] = Settled(outbox[m], "success"))
      BY <2>1, <2>3
    <3>2. FinishSent(m) => outbox'[m] = Settled(outbox[m], "success")
      BY <1>1 DEF FinishSent
    <3> QED  BY <1>1, <1>5, <2>3, <3>1, <3>2
  <2> QED  BY <2>2, <2>3
<1>8. SameMails
  BY <1>2, <1>6, <1>7 DEF SameMails, Rows, Pending
<1>9. \A n \in Mails : At(n, "accepted")' => At(n, "accepted")
  BY <1>3 DEF At, OthersStay
<1>10. ASSUME NEW n \in Pending', Unanswered(n)
       PROVE  Unanswered(n)' \/ outbox'[n].attempt > 0 \/ crashes' > 0
  <2>1. n \in Mails /\ outbox'[n] # None /\ outbox'[n].status = "pending"
    BY DEF Rows, Pending
  <2>2. CASE n # m
    BY <1>3, <1>10, <2>1, <2>2 DEF Unanswered, At, OthersStay
  <2>3. CASE n = m
    <3>1. ~FinishSent(m)
      BY <1>7, <2>1, <2>3
    <3>2. ~Skip(m) /\ ~Refuse(m)
      BY <1>10, <2>3 DEF Skip, Refuse, Unanswered, At
    <3>3. FinishFailed(m)
      BY <3>1, <3>2
    <3> QED  BY <1>5, <2>3, <3>1, <3>3
  <2> QED  BY <2>2, <2>3
<1>11. \A n \in Mails : At(n, "accepted")' => n \in Rows'
  <2> SUFFICES ASSUME NEW n \in Mails, At(n, "accepted")' PROVE n \in Rows'
    OBVIOUS
  <2>1. n # m
    BY <1>3 DEF At
  <2>2. n \in Pending
    BY <1>9 DEF At, OutboxInv, BatchIsPending, Busy
  <2> QED  BY <1>4, <2>1, <2>2 DEF Rows, Pending
<1>12. crashes' \in Int /\ crashes <= crashes'
  BY <1>2 DEF OutboxInv, TypeOK
<1> QED  BY <1>2, <1>8, <1>9, <1>10, <1>11, <1>12, QuietTaken

LEMMA AcceptTaken ==
  ASSUME OutboxInv, TakenInv, NEW m \in Mails, NEW inTime \in BOOLEAN,
         Accept(m, inTime)
  PROVE  TakenInv'
<1>1. run \in Run /\ run # None /\ m \in Busy /\ m \in Pending /\ outbox[m] \in Mail
      /\ \A n \in PendingOf(outbox[m].sub) : m <= n
  BY DEF Accept, At, Busy, OutboxInv, TypeOK, BatchIsPending, Pending, Rows
<1>2. /\ outbox' = outbox /\ nextMail' = nextMail /\ crashes' = crashes
      /\ latest' = [latest EXCEPT ![outbox[m].sub] = m]
  BY DEF Accept, business
<1>3. run' # None
  <2>1. run' \in Run
    BY <1>1 DEF Accept, Run, Work
  <2> QED  BY <2>1
<1>4. /\ run'.work[m] \in {"accepted", "error"}
      /\ \A n \in Mails : n # m => run'.work[n] = run.work[n]
  BY <1>1 DEF Accept, Run
<1>5. latest \in [Subs -> 0..MaxMails] /\ outbox[m].sub \in Subs
  BY <1>1 DEF OutboxInv, TypeOK, Mail
<1>6. /\ \A n \in Rows' : n < nextMail'
      /\ \A s \in Subs : latest'[s] < nextMail'
  BY <1>1, <1>2, <1>5 DEF TakenInv, Rows, Pending
<1>7. ASSUME NEW n \in Mails, At(n, "accepted")'
      PROVE  latest'[outbox'[n].sub] = n
  <2>1. CASE n = m
    BY <1>2, <1>5, <2>1
  <2>2. CASE n # m
    <3>1. At(n, "accepted")
      BY <1>1, <1>3, <1>4, <1>7, <2>2 DEF At
    <3>2. n \in Pending /\ outbox[n] \in Mail /\ latest[outbox[n].sub] = n
          /\ \A k \in PendingOf(outbox[n].sub) : n <= k
      BY <3>1 DEF At, Busy, OutboxInv, TypeOK, BatchIsPending, Pending, Rows, TakenInv
    <3>3. outbox[n].sub # outbox[m].sub
      <4> SUFFICES ASSUME outbox[n].sub = outbox[m].sub PROVE FALSE
        OBVIOUS
      <4>1. n <= m /\ m <= n
        BY <1>1, <3>2 DEF PendingOf
      <4> QED  BY <2>2, <4>1 DEF Mails
    <3> QED  BY <1>2, <1>5, <3>2, <3>3 DEF Mail
  <2> QED  BY <2>1, <2>2
<1>8. ASSUME NEW n \in Pending', latest'[outbox'[n].sub] = n
      PROVE  (Unanswered(n) \/ outbox[n].attempt > 0 \/ crashes > 0)'
  <2>0. n \in Pending /\ n \in Mails /\ outbox[n] \in Mail
    <3>1. n \in Mails /\ outbox[n] # None /\ outbox[n].status = "pending"
      BY <1>2 DEF Pending, Rows
    <3> QED  BY <3>1 DEF Pending, Rows, OutboxInv, TypeOK
  <2>1. CASE n = m
    BY <1>3, <1>4, <2>1 DEF Unanswered, At
  <2>2. CASE n # m
    <3>1. latest[outbox[n].sub] = n
      BY <1>2, <1>5, <1>8, <2>0, <2>2 DEF Mail
    <3>2. Unanswered(n) \/ outbox[n].attempt > 0 \/ crashes > 0
      BY <2>0, <3>1 DEF TakenInv
    <3>3. Unanswered(n) => Unanswered(n)'
      BY <1>3, <1>4, <2>0, <2>2 DEF Unanswered, At
    <3> QED  BY <1>2, <3>2, <3>3
  <2> QED  BY <2>1, <2>2
<1> QED  BY <1>6, <1>7, <1>8 DEF TakenInv

LEMMA TakenStep == OutboxInv /\ OutboxInv' /\ TakenInv /\ [Next]_vars => TakenInv'
<1> SUFFICES ASSUME OutboxInv, OutboxInv', TakenInv, [Next]_vars
             PROVE  TakenInv'
  OBVIOUS
<1> QED  BY ChangeNumbers, ChangeTaken, OwnTaken, WorkerTaken, AcceptTaken DEF Next

LEMMA TakenInvariant == Spec => []TakenInv
<1> QED  BY TakenInit, TakenStep, OutboxInvariant, PTL DEF Spec

(* A customer gets a mail a second time only if an earlier attempt is on       *)
(* record as failed, or the program died before it wrote the result: within a *)
(* run, and between runs, a mail the server took is settled before it could   *)
(* be read again.                                                             *)
THEOREM SentOnceUnlessFailed == Spec => TwiceOnlyAfterFailure
<1>1. ASSUME OutboxInv, TakenInv
      PROVE  \A m \in Pending :
               latest[outbox[m].sub] = m /\ (\E inTime \in BOOLEAN : Accept(m, inTime))
                 => outbox[m].attempt > 0 \/ crashes > 0
  BY <1>1 DEF TakenInv, Unanswered, At, Accept
<1> QED  BY <1>1, OutboxInvariant, TakenInvariant, PTL DEF Spec, TwiceOnlyAfterFailure

(* Every step is a step of MailDelivery or leaves the queues as they are: the *)
(* mails of a customer are handed over in the order of the changes they        *)
(* report, and none leaves the queue as sent before the server took it.        *)
THEOREM QueuesAreDelivered == Spec => ImplementsMailDelivery
<1>1. Init => Delivery!Init
  BY DEF Init, Delivery!Init, PendingOf, Pending, Rows
<1>2. ASSUME OutboxInv, OutboxInv', TakenInv, [Next]_vars
      PROVE  [Delivery!Next]_(Delivery!vars)
  <2> USE <1>2
  <2> DEFINE Wait == [s \in Subs |-> PendingOf(s)]
  <2>1. ASSUME NewMails
        PROVE  Delivery!Change
    <3>1. ASSUME NEW s \in Subs
          PROVE  Wait'[s] \ Wait[s] \in {{}} \cup {{m} : m \in Delivery!Newer(s)}
      <4>1. \A m \in Wait'[s] \ Wait[s] : nextMail <= m /\ m \in Pending'
                                         /\ outbox'[m].sub = s /\ m \in Mails
        BY <2>1 DEF NewMails, PendingOf, Pending, Rows
      <4>2. \A m, n \in Wait'[s] \ Wait[s] : m = n
        BY <2>1, <4>1 DEF NewMails
      <4>3. \A m \in Wait'[s] \ Wait[s] : m \in Delivery!Newer(s)
        <5> SUFFICES ASSUME NEW m \in Wait'[s] \ Wait[s] PROVE m \in Delivery!Newer(s)
          OBVIOUS
        <5>1. nextMail \in Int /\ m \in Mails /\ m \in Int /\ nextMail <= m
              /\ latest[s] \in Int /\ latest[s] < nextMail
          BY <4>1 DEF OutboxInv, TypeOK, Mails, TakenInv
        <5>2. \A n \in Wait[s] : n \in Int /\ n < nextMail
          BY DEF PendingOf, Pending, Rows, Mails, TakenInv
        <5> QED  BY <5>1, <5>2 DEF Delivery!Newer
      <4>4. CASE Wait'[s] \ Wait[s] = {}
        BY <4>4
      <4>5. CASE Wait'[s] \ Wait[s] # {}
        <5>1. PICK m : m \in Wait'[s] \ Wait[s]
          BY <4>5
        <5>2. Wait'[s] \ Wait[s] = {m}
          BY <4>2, <5>1
        <5> QED  BY <4>3, <5>1, <5>2
      <4> QED  BY <4>4, <4>5
    <3> QED  BY <2>1, <3>1 DEF NewMails, Delivery!Change
  <2>2. ASSUME NEW m \in Mails, NEW inTime \in BOOLEAN, Accept(m, inTime)
        PROVE  \E s \in Subs : Delivery!Deliver(s, m)
    <3>1. m \in Pending /\ outbox[m] \in Mail
          /\ \A n \in PendingOf(outbox[m].sub) : m <= n
      BY <2>2 DEF Accept, At, Busy, OutboxInv, TypeOK, BatchIsPending, Pending, Rows
    <3>2. outbox[m].sub \in Subs
      BY <3>1 DEF Mail
    <3>3. /\ latest' = [latest EXCEPT ![outbox[m].sub] = m]
          /\ outbox' = outbox
      BY <2>2 DEF Accept
    <3>4. Wait' = Wait
      BY <3>3 DEF PendingOf, Pending, Rows
    <3> QED  BY <3>1, <3>2, <3>3, <3>4 DEF Delivery!Deliver, Delivery!IsFirst, PendingOf
  <2>3. ASSUME NEW m \in Mails, FinishSent(m)
        PROVE  \E s \in Subs : Delivery!Acknowledge(s)
    <3>1. m \in Pending /\ outbox[m] \in Mail /\ latest[outbox[m].sub] = m
          /\ \A n \in PendingOf(outbox[m].sub) : m <= n
      <4>1. run # None /\ m \in Busy /\ At(m, "accepted")
        BY <2>3 DEF FinishSent, At, Busy
      <4>2. m \in Pending /\ \A n \in PendingOf(outbox[m].sub) : m <= n
        BY <4>1 DEF OutboxInv, BatchIsPending
      <4>3. outbox[m] \in Mail
        BY <4>2 DEF OutboxInv, TypeOK, Pending, Rows
      <4> QED  BY <4>1, <4>2, <4>3 DEF TakenInv
    <3>2. outbox[m].sub \in Subs
      BY <3>1 DEF Mail
    <3>3. /\ outbox' = [outbox EXCEPT ![m] = Settled(outbox[m], "success")]
          /\ latest' = latest
      BY <2>3, <3>1 DEF FinishSent
    <3>4. Settled(outbox[m], "success").status # "pending"
      BY <3>1, SettledType
    <3>5. m \notin Pending' /\ \A n \in Mails : n # m => outbox'[n] = outbox[n]
      BY <3>3, <3>4 DEF OutboxInv, TypeOK, Pending, Rows
    <3>6. \A s \in Subs : PendingOf(s)' = PendingOf(s) \ {m}
      BY <3>5 DEF PendingOf, Pending, Rows
    <3>7. \A s \in Subs : s # outbox[m].sub => m \notin PendingOf(s)
      BY DEF PendingOf
    <3>8. Wait' = [Wait EXCEPT ![outbox[m].sub] = @ \ {m}]
      <4> DEFINE w1 == [s \in Subs |-> PendingOf(s)'] c == outbox[m].sub
      <4>1. \A s \in Subs : w1[s] = [Wait EXCEPT ![c] = @ \ {m}][s]
        BY <3>2, <3>6, <3>7
      <4>2. w1 = [s \in Subs |-> w1[s]]
            /\ [Wait EXCEPT ![c] = @ \ {m}]
                 = [s \in Subs |-> [Wait EXCEPT ![c] = @ \ {m}][s]]
        OBVIOUS
      <4> QED  BY <4>1, <4>2
    <3> HIDE DEF Wait
    <3>9. Delivery!IsFirst(m, outbox[m].sub)
      BY <3>1, <3>2 DEF Delivery!IsFirst, PendingOf, Wait
    <3> QED  BY <3>1, <3>2, <3>3, <3>8, <3>9 DEF Delivery!Acknowledge, Wait
  <2>4. ASSUME \A n \in Mails : (n \in Pending') = (n \in Pending),
               \A n \in Pending : outbox'[n].sub = outbox[n].sub, latest' = latest
        PROVE  UNCHANGED Delivery!vars
    <3>1. \A s \in Subs : PendingOf(s)' = PendingOf(s)
      BY <2>4 DEF PendingOf, Pending, Rows
    <3> QED  BY <2>4, <3>1 DEF Delivery!vars
  <2>5. ASSUME UNCHANGED <<outbox, latest>>
        PROVE  UNCHANGED Delivery!vars
    BY <2>4, <2>5 DEF Pending, Rows
  <2>6. ASSUME NEW m \in Mails, FinishFailed(m)
        PROVE  UNCHANGED Delivery!vars
    <3>1. m \in Pending /\ outbox[m] \in Mail /\ latest' = latest
      BY <2>6 DEF FinishFailed, At, Busy, OutboxInv, TypeOK, BatchIsPending, Pending, Rows
    <3>2. PICK attempt, left :
            outbox' = [outbox EXCEPT ![m].attempt = attempt, ![m].left = left]
      BY <2>6, <3>1 DEF FinishFailed
    <3>3. \A n \in Mails : n # m => outbox'[n] = outbox[n]
      BY <3>2 DEF OutboxInv, TypeOK
    <3>4. outbox'[m].sub = outbox[m].sub /\ outbox'[m].status = outbox[m].status
          /\ outbox'[m] # None
      <4>1. PICK r \in Mail : outbox' = [outbox EXCEPT ![m] = r] /\ r.sub = outbox[m].sub
        BY <2>6, <3>1, FinishedRow
      <4>2. m \in Mails /\ outbox \in [Mails -> Mail \cup {None}]
        BY DEF OutboxInv, TypeOK
      <4>3. outbox'[m] \in Mail
        BY <4>1, <4>2
      <4>4. outbox'[m].sub = outbox[m].sub /\ outbox'[m].status = outbox[m].status
        BY <3>1, <3>2, <4>2 DEF Mail
      <4> QED  BY <4>3, <4>4
    <3> QED  BY <2>4, <3>1, <3>3, <3>4 DEF Pending, Rows
  <2>7. ASSUME BeginRun
        PROVE  UNCHANGED Delivery!vars
    <3>1. outbox' = [m \in Mails |-> Older(outbox[m])] /\ latest' = latest
      BY <2>7 DEF BeginRun
    <3>2. \A m \in Mails : outbox[m] = None => Older(outbox[m]) = None
      BY DEF Older
    <3>3. \A m \in Mails : outbox'[m] # None =>
            /\ outbox[m] # None
            /\ outbox'[m].status = outbox[m].status
            /\ outbox'[m].sub = outbox[m].sub
      BY <3>1, <3>2, OlderType DEF OutboxInv, TypeOK
    <3>4. \A m \in Pending : outbox'[m] # None
      <4> SUFFICES ASSUME NEW m \in Pending PROVE outbox'[m] # None
        OBVIOUS
      <4>1. outbox[m] \in Mail /\ outbox[m].status = "pending" /\ outbox[m] # None
            /\ m \in Mails
        BY DEF OutboxInv, TypeOK, Pending, Rows
      <4> DEFINE left == IF outbox[m].left = 0 THEN 0 ELSE outbox[m].left - 1
      <4>2. left \in Nat
        BY <4>1 DEF Mail
      <4>3. outbox'[m] = [outbox[m] EXCEPT !.left = left]
        BY <3>1, <4>1 DEF Older
      <4> HIDE DEF left
      <4>4. outbox'[m] \in Mail
        BY <4>1, <4>2, <4>3 DEF Mail
      <4> QED  BY <4>4
    <3> QED  BY <2>4, <3>1, <3>3, <3>4 DEF Pending, Rows
  <2>8. CASE \/ \E s \in Subs, f \in Facts : Pay(s, f)
             \/ \E s \in Subs, f \in Facts, announced \in BOOLEAN :
                  CorrectBill(s, f, announced)
             \/ \E s \in Subs : DeleteBill(s)
             \/ \E S \in SUBSET Subs : GrantBenefits(S)
             \/ \E s \in Subs : DeleteMistaken(s)
    BY <2>1, <2>8, ChangeNumbers DEF Delivery!Next
  <2>9. CASE \/ ConfigureSmtp \/ Fetch \/ EndRun \/ Expire \/ Crash \/ UNCHANGED vars
             \/ \E m \in Mails : Skip(m) \/ Refuse(m)
    BY <2>5, <2>9 DEF ConfigureSmtp, Fetch, EndRun, Expire, Crash, Skip, Refuse, vars
  <2> QED  BY <2>2, <2>3, <2>6, <2>7, <2>8, <2>9 DEF Next, Delivery!Next
<1> QED  BY <1>1, <1>2, OutboxInvariant, TakenInvariant, PTL
         DEF Spec, ImplementsMailDelivery, Delivery!Spec
=============================================================================
