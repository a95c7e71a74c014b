---------------------------- MODULE MailDelivery ----------------------------
(* What the outbox promises a customer: the mails of one subscription form a  *)
(* queue in the order of the changes they report.  Only its first is ever     *)
(* handed to the mail server, perhaps several times; it leaves the queue once *)
(* the server took it, and a mail that became untrue may be withdrawn from    *)
(* any place.                                                                 *)
EXTENDS Integers

CONSTANTS
  Subs,     \* subscriptions
  Mails     \* mails, numbered in the order of the changes they report

VARIABLES
  queue,    \* per subscription: the mails that wait, in the order of their numbers
  latest    \* per subscription: the last mail the mail server took, or 0

vars == <<queue, latest>>

Init ==
  /\ queue = [s \in Subs |-> {}]
  /\ latest = [s \in Subs |-> 0]

(* Mails that report a change made after everything in the queue of s. *)
Newer(s) == {m \in Mails : m > latest[s] /\ \A n \in queue[s] : m > n}
IsFirst(m, s) == m \in queue[s] /\ \A n \in queue[s] : m <= n

(* A change withdraws the mails it makes untrue and reports itself, perhaps   *)
(* to several customers, but only once to each.                               *)
Change ==
  /\ DOMAIN queue' = Subs
  /\ \A s \in Subs :
       queue'[s] \ queue[s] \in {{}} \cup {{m} : m \in Newer(s)}
  /\ UNCHANGED latest

Deliver(s, m) ==
  /\ IsFirst(m, s)
  /\ latest' = [latest EXCEPT ![s] = m]
  /\ UNCHANGED queue

Acknowledge(s) ==
  /\ IsFirst(latest[s], s)
  /\ queue' = [queue EXCEPT ![s] = @ \ {latest[s]}]
  /\ UNCHANGED latest

Next ==
  \/ Change
  \/ \E s \in Subs, m \in Mails : Deliver(s, m)
  \/ \E s \in Subs : Acknowledge(s)

Spec == Init /\ [][Next]_vars
=============================================================================
