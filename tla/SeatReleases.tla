---------------------------- MODULE SeatReleases ----------------------------
(* SeatLifecycle with a memory: the cool-downs that ended, by the operator's   *)
(* release or because they ran out, and among them those whose record was lost *)
(* since.  Rows, operations and restarts are those of SeatLifecycle; the two   *)
(* variables are only written, so that a property can speak of a release made  *)
(* many steps ago, after its deadline has gone from the row.                   *)
EXTENDS SeatLifecycle

VARIABLES
  over,    \* archived rows whose cool-down ended since they departed
  erased   \* those that were archived a second time after it ended

releaseVars == <<vars, over, erased>>

(* The row still tells that its cool-down is over: a deadline in the past.     *)
Ended(s) == life[s] = "archived" /\ frozenUntil[s] # NoTime /\ ~Frozen(s)
(* The deadline of a row that is archived already is overwritten by NULL.      *)
Erases(s) == frozenUntil[s] # NoTime /\ ArchiveSubscription(s)

Remember ==
  /\ over' = {s \in Subs : life'[s] = "archived" /\ (s \in over \/ Ended(s)')}
  /\ erased' = {s \in Subs : life'[s] = "archived"
                             /\ (s \in erased \/ (s \in over /\ Erases(s)))}

RememberingInit == Init /\ over = {} /\ erased = {}
RememberingNext == Next /\ Remember
RememberingSpec == RememberingInit /\ [][RememberingNext]_releaseVars

(* A cool-down that was released by hand or ran out is over for good: whatever *)
(* happens to the row, to the departures around it and however often the       *)
(* server restarts, the seat is not held for that departure again.  A row that *)
(* is archived a second time after its cool-down ended is left out: that loses *)
(* the record of the release.                                                  *)
ReleasedCoolDownStaysReleased == \A s \in over \ erased : ~Frozen(s)

(* store.go:651-652 says that "an explicitly released freeze keeps its         *)
(* non-null, expired deadline and is not restarted", with no such exception.   *)
ReleaseIsNeverLost == \A s \in over : ~Frozen(s)
=============================================================================
