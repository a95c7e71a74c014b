-------------------------- MODULE WebConsoleProofs --------------------------
(* What the pages of the console keep, for all customers, accounts, tabs and  *)
(* bounds.  Each page has an invariant of its own; a behaviour of the console *)
(* is one of a page, so the invariant holds as long as that page is shown.    *)
EXTENDS WebConsole, TLAPS, FiniteSetTheorems, WellFoundedInduction

-----------------------------------------------------------------------------
(* THE SESSION *)
Logins == 0 .. MaxSessions
Numbers == 0 .. MaxRequests
BrowserRows ==
  [cookie : Logins, last : Logins, revoked : Logins, epoch : 0..1,
   storage : Nat, made : Nat, sent : Numbers]
TokenRows == [session : Logins, epoch : 0..1]
TabRows ==
  [mode : Nat, login : BOOLEAN, token : TokenRows, asking : BOOLEAN,
   data : Nat \cup {Session!Unread}, leaving : BOOLEAN]
RequestRows ==
  [id : Nat, tab : Tabs, owned : BOOLEAN, kind : {"write", "logout", "reset"},
   path : {"live", "sandbox"}, from : Nat \cup {Session!Unread}, late : BOOLEAN,
   step : {"token", "waiting", "sent", "401", "403", "done"}, forced : BOOLEAN,
   token : TokenRows, session : Logins, runs : 0..1, in : {"nowhere", "live", "sandbox"}]

(* A request runs when it is done and not before, where its path says, and    *)
(* the path of a write was chosen by a tab that had read what it writes.      *)
Sound(q) ==
  /\ q \in RequestRows
  /\ q.step # "done" => q.runs = 0
  /\ q.in \in {"nowhere", q.path}
  /\ (q.kind = "write" /\ ~q.late) => q.path = Session!Side(q.from)

(* A tab rehearses only when there is a sandbox, and until it leaves shows    *)
(* data of the side it works on.                                              *)
Placed(r, made) ==
  /\ r.mode # Session!Live => made # Session!Live
  /\ (r.data # Session!Unread /\ ~r.leaving) => Session!Side(r.data) = Session!Side(r.mode)

Asked(q) == (q.owned /\ q.step = "waiting") => desk[q.tab].asking

(* The strengthening of the invariants that a step preserves.                 *)
SessionInv ==
  /\ server \in BrowserRows
  /\ server.storage # Session!Live => server.made # Session!Live
  /\ desk \in [Tabs -> TabRows]
  /\ \A t \in Tabs : Placed(desk[t], server.made)
  /\ \A q \in calls : Sound(q) /\ Asked(q)

-----------------------------------------------------------------------------
LEMMA SessionBounds ==
  /\ MaxSessions \in Nat \ {0} /\ MaxRequests \in Nat
  /\ 0 \in Logins /\ 1 \in Logins /\ 0 \in Numbers
BY PageAssumptions DEF Logins, Numbers

LEMMA NoTokenIsToken == Session!NoToken \in TokenRows
BY SessionBounds DEF Session!NoToken, TokenRows

LEMMA SessionFacts ==
  ASSUME SessionInv
  PROVE  /\ server \in BrowserRows /\ server.storage \in Nat /\ server.made \in Nat
         /\ server.cookie \in Logins /\ server.epoch \in 0..1 /\ server.sent \in Numbers
         /\ server.last \in Logins /\ server.revoked \in Logins
         /\ \A t \in Tabs : desk[t] \in TabRows /\ desk[t].token \in TokenRows
         /\ \A q \in calls : q \in RequestRows /\ q.tab \in Tabs
BY DEF SessionInv, BrowserRows, TabRows, RequestRows, Sound

(* A step of one tab.                                                         *)
LEMMA TabMoves ==
  ASSUME SessionInv, NEW t \in Tabs, NEW r \in TabRows, desk' = [desk EXCEPT ![t] = r],
         server' \in BrowserRows, server'.storage # Session!Live => server'.made # Session!Live,
         server.made # Session!Live => server'.made # Session!Live,
         Placed(r, server'.made),
         \A q \in calls' : Sound(q),
         \A q \in calls' : (q.owned /\ q.step = "waiting") =>
            IF q.tab = t THEN r.asking ELSE q \in calls
  PROVE  SessionInv'
<1>1. desk' \in [Tabs -> TabRows]
  BY DEF SessionInv
<1>2. \A u \in Tabs : desk'[u] = IF u = t THEN r ELSE desk[u]
  BY DEF SessionInv
<1>3. \A u \in Tabs : Placed(desk'[u], server'.made)
  BY <1>2 DEF SessionInv, Placed
<1>4. \A q \in calls' : Asked(q)'
  BY <1>2 DEF SessionInv, Asked, Sound, RequestRows
<1> QED  BY <1>1, <1>3, <1>4 DEF SessionInv

(* A step in which no tab changes.                                            *)
LEMMA TabsRest ==
  ASSUME SessionInv, desk' = desk,
         server' \in BrowserRows, server'.storage # Session!Live => server'.made # Session!Live,
         server.made # Session!Live => server'.made # Session!Live,
         \A q \in calls' : Sound(q),
         \A q \in calls' : (q.owned /\ q.step = "waiting") => q \in calls
  PROVE  SessionInv'
<1>1. \A u \in Tabs : Placed(desk'[u], server'.made)
  BY DEF SessionInv, Placed
<1>2. \A q \in calls' : Asked(q)'
  BY DEF SessionInv, Asked
<1> QED  BY <1>1, <1>2 DEF SessionInv

LEMMA SessionStart ==
  ASSUME Session!Init
  PROVE  SessionInv
<1>1. server \in BrowserRows /\ server.storage = Session!Live /\ server.made = Session!Live
  BY SessionBounds DEF Session!Init, BrowserRows, Session!Live
<1>2. Session!Fresh \in TabRows /\ Session!Fresh.mode = Session!Live /\ Session!Fresh.data = Session!Unread
  BY <1>1, NoTokenIsToken DEF Session!Fresh, TabRows, Session!Unread, Session!Authenticated, Session!Live
<1>3. desk = [t \in Tabs |-> Session!Fresh] /\ calls = {}
  BY DEF Session!Init
<1> HIDE DEF Session!Fresh
<1> QED  BY <1>1, <1>2, <1>3 DEF SessionInv, Placed

-----------------------------------------------------------------------------
(* The steps of a tab *)

LEMMA Reloading ==
  ASSUME SessionInv, NEW t \in Tabs, Session!Reload(t)
  PROVE  SessionInv'
<1>1. /\ Session!Fresh \in TabRows
      /\ Session!Fresh.mode = server.storage /\ Session!Fresh.data = Session!Unread
  BY SessionFacts, NoTokenIsToken DEF Session!Fresh, TabRows, Session!Authenticated
<1>2. Placed(Session!Fresh, server.made)
  BY <1>1 DEF Placed, SessionInv
<1>3. desk' = [desk EXCEPT ![t] = Session!Fresh] /\ calls' = Session!Dropped(t) /\ server' = server
  BY DEF Session!Reload
<1>4. ASSUME NEW q \in Session!Dropped(t)
      PROVE  /\ Sound(q)
             /\ (q.owned /\ q.step = "waiting") => (q \in calls /\ q.tab # t)
  <2>1. CASE q \in calls \ Session!Of(t)
    BY <2>1 DEF SessionInv, Session!Of
  <2>2. CASE q \in {[c EXCEPT !.owned = FALSE] : c \in {b \in Session!Of(t) : b.step = "sent"}}
    <3>1. PICK c \in calls : c.step = "sent" /\ q = [c EXCEPT !.owned = FALSE]
      BY <2>2 DEF Session!Of
    <3>2. Sound(c)
      BY DEF SessionInv
    <3> QED  BY <3>1, <3>2 DEF Sound, RequestRows
  <2> QED  BY <1>4, <2>1, <2>2 DEF Session!Dropped
<1> HIDE DEF Session!Fresh
<1>5. \A q \in calls' : (q.owned /\ q.step = "waiting") =>
         IF q.tab = t THEN Session!Fresh.asking ELSE q \in calls
  BY <1>3, <1>4
<1> QED  BY <1>1, <1>2, <1>3, <1>4, <1>5, TabMoves DEF SessionInv

LEMMA Submitting ==
  ASSUME SessionInv, NEW t \in Tabs, NEW kind \in {"write", "logout", "reset"}, Session!Submit(t, kind)
  PROVE  SessionInv'
<1> DEFINE q == [id |-> server.sent + 1, tab |-> t, owned |-> TRUE, kind |-> kind, path |-> Session!Path(t),
                 from |-> IF kind = "write" THEN desk[t].data ELSE Session!Unread,
                 late |-> kind = "write" /\ desk[t].leaving, step |-> "token", forced |-> FALSE,
                 token |-> Session!NoToken, session |-> 0, runs |-> 0, in |-> "nowhere"]
<1>1. calls' = calls \cup {q} /\ desk' = desk /\ server' = [server EXCEPT !.sent = @ + 1]
  BY DEF Session!Submit
<1>2. q \in RequestRows
  BY SessionFacts, SessionBounds, NoTokenIsToken DEF RequestRows, TabRows, Session!Path, Numbers
<1>3. (kind = "write" /\ ~desk[t].leaving) => Session!Path(t) = Session!Side(desk[t].data)
  BY DEF Session!Submit, SessionInv, Placed, Session!Path, Session!Side
<1>4. Sound(q) /\ q.step # "waiting"
  BY <1>2, <1>3 DEF Sound
<1> HIDE DEF q
<1>5. server' \in BrowserRows /\ server'.storage = server.storage /\ server'.made = server.made
  <2>1. server.sent + 1 \in Numbers
    BY SessionFacts, SessionBounds DEF Session!Submit, Numbers
  <2> QED  BY <1>1, <2>1, SessionFacts DEF BrowserRows
<1> QED  BY <1>1, <1>4, <1>5, TabsRest DEF SessionInv

LEMMA Switching ==
  ASSUME SessionInv, NEW t \in Tabs, NEW world \in Nat, world # Session!Live => server.made # Session!Live,
         Session!Switch(t, world)
  PROVE  SessionInv'
<1> DEFINE r == [desk[t] EXCEPT !.mode = world, !.leaving = TRUE]
<1>1. desk' = [desk EXCEPT ![t] = r] /\ calls' = calls /\ server' = [server EXCEPT !.storage = world]
  BY DEF Session!Switch, SessionInv
<1>2. r \in TabRows /\ r.asking = desk[t].asking /\ Placed(r, server.made)
  BY SessionFacts DEF TabRows, Placed
<1>3. server' \in BrowserRows /\ server'.storage = world /\ server'.made = server.made
  BY <1>1, SessionFacts DEF BrowserRows
<1>4. \A q \in calls' : (q.owned /\ q.step = "waiting") => IF q.tab = t THEN r.asking ELSE q \in calls
  BY <1>1, <1>2 DEF SessionInv, Asked
<1> HIDE DEF r
<1> QED  BY <1>1, <1>2, <1>3, <1>4, TabMoves DEF SessionInv

LEMMA TabSteps ==
  ASSUME SessionInv, NEW t \in Tabs, Session!Tab(t)
  PROVE  SessionInv'
<1>0. /\ desk[t] \in TabRows /\ desk[t].mode \in Nat /\ Placed(desk[t], server.made)
      /\ \A q \in calls : Sound(q) /\ Asked(q)
  BY SessionFacts DEF SessionInv, TabRows
<1>1. CASE Session!Leave(t) \/ Session!ReloadByHand(t) \/ Session!StorageEvent(t)
  BY <1>1, Reloading DEF Session!Leave, Session!ReloadByHand, Session!StorageEvent
<1>2. CASE Session!Write(t) \/ Session!Logout(t) \/ Session!ResetSandbox(t)
  BY <1>2, Submitting DEF Session!Write, Session!Logout, Session!ResetSandbox
<1>3. CASE Session!EnterSandbox(t) \/ Session!ExitSandbox(t)
  BY <1>3, Switching, SessionFacts DEF Session!EnterSandbox, Session!ExitSandbox, Session!Live
<1>4. CASE Session!ReadData(t)
  <2> DEFINE r == [desk[t] EXCEPT !.data = IF desk[t].mode = Session!Live THEN Session!Live ELSE server.made]
  <2>1. desk' = [desk EXCEPT ![t] = r] /\ calls' = calls /\ server' = server
    BY <1>4 DEF Session!ReadData, SessionInv
  <2>2. r \in TabRows /\ r.asking = desk[t].asking
    BY <1>0, SessionFacts DEF TabRows, Session!Live
  <2>3. Placed(r, server.made)
    BY <1>0 DEF Placed, TabRows, Session!Side
  <2> HIDE DEF r
  <2>4. \A q \in calls' : (q.owned /\ q.step = "waiting") => IF q.tab = t THEN r.asking ELSE q \in calls
    BY <1>0, <2>1, <2>2 DEF Asked
  <2> QED  BY <2>1, <2>2, <2>3, <2>4, TabMoves DEF SessionInv
<1>5. CASE Session!Login(t)
  <2> DEFINE r == [desk[t] EXCEPT !.login = TRUE]
  <2>1. /\ desk' = [desk EXCEPT ![t] = r] /\ calls' = calls
        /\ server' = [server EXCEPT !.last = @ + 1, !.cookie = server.last + 1]
    BY <1>5 DEF Session!Login, SessionInv
  <2>2. r \in TabRows /\ r.asking = desk[t].asking /\ Placed(r, server.made)
    BY <1>0 DEF TabRows, Placed
  <2>5. server.last + 1 \in Logins
    BY <1>5, SessionFacts, SessionBounds DEF Session!Login, Logins
  <2> DEFINE n == server.last + 1
  <2>6. server' = [server EXCEPT !.last = server.last + 1, !.cookie = server.last + 1]
    BY <2>1, SessionFacts DEF BrowserRows
  <2>7. server' = [server EXCEPT !.last = n, !.cookie = n] /\ n \in Logins
    BY <2>5, <2>6
  <2> HIDE DEF n
  <2>3. server' \in BrowserRows /\ server'.storage = server.storage /\ server'.made = server.made
    BY <2>7, SessionFacts DEF BrowserRows
  <2> HIDE DEF r
  <2>4. \A q \in calls' : (q.owned /\ q.step = "waiting") => IF q.tab = t THEN r.asking ELSE q \in calls
    BY <1>0, <2>1, <2>2 DEF Asked
  <2> QED  BY <2>1, <2>2, <2>3, <2>4, TabMoves DEF SessionInv
<1>6. CASE Session!TokenArrives(t)
  <2> DEFINE token == [session |-> server.cookie, epoch |-> server.epoch]
  <2> DEFINE r == [desk[t] EXCEPT !.token = token, !.asking = FALSE]
  <2>1. /\ desk' = [desk EXCEPT ![t] = r] /\ server' = server
        /\ calls' = (calls \ Session!Waiting(t)) \cup {Session!Departs(q, token) : q \in Session!Waiting(t)}
    BY <1>6 DEF Session!TokenArrives, SessionInv
  <2>2. token \in TokenRows
    BY SessionFacts DEF TokenRows
  <2>3. r \in TabRows /\ Placed(r, server.made)
    BY <1>0, <2>2 DEF TabRows, Placed
  <2> HIDE DEF token, r
  <2>4. ASSUME NEW q \in calls'
        PROVE  Sound(q) /\ ((q.owned /\ q.step = "waiting") => (q \in calls /\ q.tab # t))
    <3>1. CASE q \in calls \ Session!Waiting(t)
      BY <1>0, <3>1 DEF Session!Waiting, Session!Of
    <3>2. CASE q \in {Session!Departs(c, token) : c \in Session!Waiting(t)}
      <4>1. PICK c \in calls : c.step = "waiting" /\ q = Session!Departs(c, token)
        BY <3>2 DEF Session!Waiting, Session!Of
      <4>2. Sound(c)
        BY <1>0
      <4> QED  BY <2>2, <4>1, <4>2, SessionFacts DEF Sound, RequestRows, Session!Departs
    <3> QED  BY <2>1, <2>4, <3>1, <3>2
  <2>5. \A q \in calls' : (q.owned /\ q.step = "waiting") => IF q.tab = t THEN r.asking ELSE q \in calls
    BY <2>4
  <2> QED  BY <2>1, <2>3, <2>4, <2>5, TabMoves DEF SessionInv
<1>7. CASE Session!TokenRefused(t)
  <2>1. calls' = calls \ Session!Waiting(t) /\ server' = server
    BY <1>7 DEF Session!TokenRefused
  <2>2. \A q \in calls' : Sound(q) /\ ((q.owned /\ q.step = "waiting") => (q \in calls /\ q.tab # t))
    BY <1>0, <2>1 DEF Session!Waiting, Session!Of
  <2>3. \E r \in TabRows : desk' = [desk EXCEPT ![t] = r] /\ Placed(r, server.made)
    <3> DEFINE r == [desk[t] EXCEPT !.token = Session!NoToken, !.asking = FALSE, !.login = FALSE]
    <3> DEFINE s == [desk[t] EXCEPT !.asking = FALSE]
    <3>1. desk' = [desk EXCEPT ![t] = r] \/ desk' = [desk EXCEPT ![t] = s]
      BY <1>7 DEF Session!TokenRefused, SessionInv
    <3>2. r \in TabRows /\ s \in TabRows /\ Placed(r, server.made) /\ Placed(s, server.made)
      BY <1>0, NoTokenIsToken DEF TabRows, Placed
    <3> HIDE DEF r, s
    <3> QED  BY <3>1, <3>2
  <2>4. PICK r \in TabRows : desk' = [desk EXCEPT ![t] = r] /\ Placed(r, server.made)
    BY <2>3
  <2>5. \A q \in calls' : (q.owned /\ q.step = "waiting") => IF q.tab = t THEN r.asking ELSE q \in calls
    BY <2>2
  <2> QED  BY <2>1, <2>2, <2>4, <2>5, TabMoves DEF SessionInv
<1> QED  BY <1>1, <1>2, <1>3, <1>4, <1>5, <1>6, <1>7 DEF Session!Tab

-----------------------------------------------------------------------------
(* The steps of a write *)

LEMMA Answers ==
  ASSUME NEW q, Sound(q), q.runs = 0 \/ q.step = "done",
         NEW step \in {"401", "403", "done"}, q.step = "sent"
  PROVE  /\ Sound(Session!Answered(q, step)) /\ Session!Answered(q, step).step = step
         /\ Session!Answered(q, step).runs = 0 /\ Session!Answered(q, step).path = q.path
BY SessionBounds, NoTokenIsToken DEF Sound, RequestRows, Session!Answered

LEMMA LoggingOut ==
  ASSUME SessionInv, NEW t \in Tabs
  PROVE  \E r \in TabRows : /\ Session!LoggedOut(t) = [desk EXCEPT ![t] = r] /\ Placed(r, server.made)
                            /\ r.asking = desk[t].asking
<1> DEFINE r == [desk[t] EXCEPT !.token = Session!NoToken, !.data = Session!Unread, !.login = FALSE]
<1>1. Session!LoggedOut(t) = [desk EXCEPT ![t] = r]
  BY DEF Session!LoggedOut, SessionInv
<1>2. desk[t] \in TabRows /\ Placed(desk[t], server.made)
  BY DEF SessionInv
<1>3. r \in TabRows /\ Placed(r, server.made) /\ r.asking = desk[t].asking
  BY <1>2, NoTokenIsToken DEF TabRows, Placed
<1> HIDE DEF r
<1> QED  BY <1>1, <1>3

(* A write that has ended: its tab keeps what it knows of the token it waits  *)
(* for, and the others do not change.                                         *)
LEMMA Ending ==
  ASSUME SessionInv, NEW q \in calls, calls' = calls \ {q},
         NEW r \in TabRows, desk' = [desk EXCEPT ![q.tab] = r], r.asking = desk[q.tab].asking,
         server' \in BrowserRows, server'.storage # Session!Live => server'.made # Session!Live,
         server'.made = server.made, Placed(r, server.made)
  PROVE  SessionInv'
<1>1. q.tab \in Tabs
  BY SessionFacts
<1>2. \A p \in calls' :
        /\ Sound(p)
        /\ (p.owned /\ p.step = "waiting") => IF p.tab = q.tab THEN r.asking ELSE p \in calls
  BY DEF SessionInv, Asked
<1> QED  BY <1>1, <1>2, TabMoves

LEMMA SameTab ==
  ASSUME SessionInv, NEW t \in Tabs
  PROVE  desk = [desk EXCEPT ![t] = desk[t]] /\ desk[t] \in TabRows /\ Placed(desk[t], server.made)
BY DEF SessionInv

LEMMA Serving ==
  ASSUME SessionInv, NEW q \in calls, Session!Serve(q)
  PROVE  SessionInv'
<1>0. Sound(q) /\ q.step = "sent" /\ q.runs = 0 /\ desk' = desk /\ server \in BrowserRows
  BY SessionFacts DEF SessionInv, Session!Serve, Sound
<1>1. ASSUME NEW r, Sound(r), r.step # "waiting", calls' = (calls \ {q}) \cup {r},
             server' \in BrowserRows, server'.storage # Session!Live => server'.made # Session!Live,
             server.made # Session!Live => server'.made # Session!Live
      PROVE  SessionInv'
  BY <1>0, <1>1, TabsRest DEF SessionInv
<1>2. ASSUME NEW step \in {"401", "403"}, Session!To(q, Session!Answered(q, step)), server' = server
      PROVE  SessionInv'
  <2>1. Sound(Session!Answered(q, step)) /\ Session!Answered(q, step).step = step
    BY <1>0, Answers
  <2> QED  BY <1>0, <1>1, <1>2, <2>1 DEF Session!To, SessionInv
<1>3. ASSUME Session!To(q, [Session!Answered(q, "done") EXCEPT !.runs = @ + 1, !.in = q.path]),
             server' = IF q.kind = "logout" THEN [server EXCEPT !.cookie = 0]
                        ELSE IF q.kind = "reset" THEN [server EXCEPT !.made = @ + 1]
                        ELSE server
      PROVE  SessionInv'
  <2> DEFINE a == Session!Answered(q, "done")
  <2> DEFINE r == [a EXCEPT !.runs = @ + 1, !.in = q.path]
  <2>1. Sound(a) /\ a.step = "done" /\ a.runs = 0 /\ a.path = q.path
    BY <1>0, Answers
  <2> HIDE DEF a
  <2>2. r = [a EXCEPT !.runs = 1, !.in = q.path]
    BY <2>1 DEF Sound, RequestRows
  <2>3. q.path \in {"live", "sandbox"}
    BY <1>0 DEF Sound, RequestRows
  <2> HIDE DEF r
  <2>4. Sound(r) /\ r.step = "done"
    <3>1. a \in RequestRows
      BY <2>1 DEF Sound
    <3>2. r \in RequestRows
      <4>1. 1 \in 0..1 /\ q.path \in {"nowhere", "live", "sandbox"}
        BY <2>3
      <4>2. [a EXCEPT !.runs = 1] \in RequestRows
        BY <3>1, <4>1 DEF RequestRows
      <4>3. r = [[a EXCEPT !.runs = 1] EXCEPT !.in = q.path]
        BY <2>2, <3>1 DEF RequestRows
      <4> QED  BY <4>1, <4>2, <4>3 DEF RequestRows
    <3>3. /\ r.in = q.path /\ r.path = a.path /\ r.step = a.step
          /\ r.kind = a.kind /\ r.late = a.late /\ r.from = a.from
      BY <2>2, <3>1 DEF RequestRows
    <3> QED  BY <2>1, <3>2, <3>3 DEF Sound
  <2>5. calls' = (calls \ {q}) \cup {r}
    BY <1>3 DEF Session!To, r, a
  <2>6. /\ server' \in BrowserRows /\ server'.storage = server.storage
        /\ server.made # Session!Live => server'.made # Session!Live
    <3>1. CASE server' = server
      BY <1>0, <3>1
    <3>2. CASE server' = [server EXCEPT !.cookie = 0]
      BY <1>0, <3>2, SessionBounds DEF BrowserRows
    <3>3. CASE server' = [server EXCEPT !.made = @ + 1]
      <4>1. server.made + 1 \in Nat /\ server.made + 1 # Session!Live
        BY SessionFacts DEF Session!Live
      <4> QED  BY <1>0, <3>3, <4>1 DEF BrowserRows
    <3> QED  BY <1>3, <3>1, <3>2, <3>3
  <2> QED  BY <1>1, <2>4, <2>5, <2>6 DEF SessionInv
<1> QED  BY <1>2, <1>3 DEF Session!Serve

LEMMA RequestSteps ==
  ASSUME SessionInv, NEW q \in calls, Session!Request(q)
  PROVE  SessionInv'
<1>0. /\ Sound(q) /\ q.tab \in Tabs /\ desk[q.tab] \in TabRows /\ Placed(desk[q.tab], server.made)
      /\ desk = [desk EXCEPT ![q.tab] = desk[q.tab]]
      /\ server \in BrowserRows /\ (server.storage # Session!Live => server.made # Session!Live)
      /\ \A p \in calls : Sound(p) /\ Asked(p)
  BY SessionFacts, SameTab DEF SessionInv
<1>1. CASE Session!UseToken(q)
  <2> DEFINE r == Session!Departs(q, desk[q.tab].token)
  <2>1. calls' = (calls \ {q}) \cup {r} /\ server' = server /\ desk' = desk
    BY <1>1 DEF Session!UseToken, Session!To
  <2>2. Sound(r) /\ r.step = "sent"
    BY <1>0, <1>1, SessionFacts DEF Session!UseToken, Sound, RequestRows, Session!Departs
  <2> HIDE DEF r
  <2> QED  BY <1>0, <2>1, <2>2, TabsRest
<1>2. CASE Session!FetchToken(q)
  <2> DEFINE r == [q EXCEPT !.step = "waiting"]
  <2> DEFINE u == [desk[q.tab] EXCEPT !.asking = TRUE]
  <2>1. /\ calls' = (calls \ {q}) \cup {r} /\ server' = server
        /\ desk' = [desk EXCEPT ![q.tab] = u]
    BY <1>0, <1>2 DEF Session!FetchToken, Session!To
  <2>2. Sound(r) /\ r.tab = q.tab
    BY <1>0, <1>2 DEF Session!FetchToken, Sound, RequestRows
  <2>3. u \in TabRows /\ u.asking = TRUE /\ Placed(u, server.made)
    BY <1>0 DEF TabRows, Placed
  <2> HIDE DEF r, u
  <2>4. \A p \in calls' : (p.owned /\ p.step = "waiting") =>
           IF p.tab = q.tab THEN u.asking ELSE p \in calls
    BY <2>1, <2>2, <2>3
  <2>5. \A p \in calls' : Sound(p)
    BY <1>0, <2>1, <2>2
  <2> QED  BY <1>0, <2>1, <2>3, <2>4, <2>5, TabMoves
<1>3. CASE Session!Serve(q)
  BY <1>3, Serving
<1>4. CASE Session!Retry(q)
  <2> DEFINE r == [q EXCEPT !.step = "token", !.forced = TRUE]
  <2> DEFINE u == [desk[q.tab] EXCEPT !.token = Session!NoToken]
  <2>1. /\ calls' = (calls \ {q}) \cup {r} /\ server' = server
        /\ desk' = [desk EXCEPT ![q.tab] = u]
    BY <1>0, <1>4 DEF Session!Retry, Session!Answer, Session!To
  <2>2. Sound(r) /\ r.step = "token"
    BY <1>0, <1>4 DEF Session!Retry, Session!Answer, Sound, RequestRows
  <2>3. u \in TabRows /\ u.asking = desk[q.tab].asking /\ Placed(u, server.made)
    BY <1>0, NoTokenIsToken DEF TabRows, Placed
  <2> HIDE DEF r, u
  <2>4. \A p \in calls' : (p.owned /\ p.step = "waiting") =>
           IF p.tab = q.tab THEN u.asking ELSE p \in calls
    BY <1>0, <2>1, <2>2, <2>3 DEF Asked
  <2>5. \A p \in calls' : Sound(p)
    BY <1>0, <2>1, <2>2
  <2> QED  BY <1>0, <2>1, <2>3, <2>4, <2>5, TabMoves
<1>5. CASE Session!GiveUp(q)
  <2>1. /\ calls' = calls \ {q} /\ server' = server
        /\ desk' = Session!LoggedOut(q.tab) \/ desk' = desk
    BY <1>5 DEF Session!GiveUp, Session!Answer
  <2> QED  BY <1>0, <2>1, LoggingOut, Ending
<1>6. CASE Session!Unauthorized(q)
  <2> DEFINE u == [desk[q.tab] EXCEPT !.token = Session!NoToken, !.login = FALSE]
  <2>1. /\ calls' = calls \ {q} /\ server' = server
        /\ desk' = Session!LoggedOut(q.tab) \/ desk' = [desk EXCEPT ![q.tab] = u]
    BY <1>0, <1>6 DEF Session!Unauthorized, Session!Answer, SessionInv
  <2>2. u \in TabRows /\ u.asking = desk[q.tab].asking /\ Placed(u, server.made)
    BY <1>0, NoTokenIsToken DEF TabRows, Placed
  <2> HIDE DEF u
  <2> QED  BY <1>0, <2>1, <2>2, LoggingOut, Ending
<1>7. CASE Session!Lost(q)
  <2>1. /\ calls' = calls \ {q} /\ server' = server
        /\ desk' = Session!LoggedOut(q.tab) \/ desk' = desk
    BY <1>7 DEF Session!Lost
  <2> QED  BY <1>0, <2>1, LoggingOut, Ending
<1>8. CASE Session!Succeeded(q)
  <2> DEFINE b == [server EXCEPT !.storage = server.made]
  <2>0. calls' = calls \ {q}
    BY <1>8 DEF Session!Succeeded
  <2>1. /\ server' \in BrowserRows /\ server'.made = server.made
        /\ server'.storage # Session!Live => server'.made # Session!Live
    <3>1. b \in BrowserRows /\ b.made = server.made /\ b.storage = server.made
      BY <1>0, SessionFacts DEF BrowserRows
    <3>2. server' = b \/ server' = server
      BY <1>8 DEF Session!Succeeded
    <3> QED  BY <1>0, <3>1, <3>2
  <2>2. CASE desk' = Session!LoggedOut(q.tab)
    BY <1>0, <2>0, <2>1, <2>2, LoggingOut, Ending
  <2>3. CASE desk' = desk
    BY <1>0, <2>0, <2>1, <2>3, Ending
  <2>4. CASE desk' = [desk EXCEPT ![q.tab].data = Session!Unread]
    <3> DEFINE u == [desk[q.tab] EXCEPT !.data = Session!Unread]
    <3>1. desk' = [desk EXCEPT ![q.tab] = u]
      BY <1>0, <2>4
    <3>2. u \in TabRows /\ u.asking = desk[q.tab].asking /\ Placed(u, server.made)
      BY <1>0 DEF TabRows, Placed
    <3> HIDE DEF u
    <3> QED  BY <2>0, <2>1, <3>1, <3>2, Ending
  <2>5. CASE desk[q.tab].mode # Session!Live /\ desk' = [desk EXCEPT ![q.tab].mode = server.made]
    <3> DEFINE u == [desk[q.tab] EXCEPT !.mode = server.made]
    <3>1. desk' = [desk EXCEPT ![q.tab] = u]
      BY <1>0, <2>5
    <3>2. u \in TabRows /\ u.asking = desk[q.tab].asking /\ Placed(u, server.made)
      BY <1>0, <2>5, SessionFacts DEF TabRows, Placed, Session!Side
    <3> HIDE DEF u
    <3> QED  BY <2>0, <2>1, <3>1, <3>2, Ending
  <2> QED  BY <1>8, <2>2, <2>3, <2>4, <2>5 DEF Session!Succeeded
<1>9. CASE Session!Forgotten(q)
  BY <1>0, <1>9, TabsRest DEF Session!Forgotten
<1> QED  BY <1>1, <1>2, <1>3, <1>4, <1>5, <1>6, <1>7, <1>8, <1>9 DEF Session!Request

LEMMA SessionStep ==
  ASSUME SessionInv, [Session!Next]_<<server, desk, calls>>
  PROVE  SessionInv'
<1>1. CASE UNCHANGED <<server, desk, calls>>
  BY <1>1, TabsRest DEF SessionInv
<1>2. CASE Session!TokensExpire \/ Session!PasswordChanged
  <2>1. server \in BrowserRows /\ server.last \in Logins
    BY SessionFacts
  <2>2. server' = [server EXCEPT !.epoch = 1] \/ server' = [server EXCEPT !.revoked = server.last]
    BY <1>2 DEF Session!TokensExpire, Session!PasswordChanged
  <2>3. server' \in BrowserRows /\ server'.storage = server.storage /\ server'.made = server.made
    BY <2>1, <2>2 DEF BrowserRows
  <2>4. UNCHANGED <<desk, calls>>
    BY <1>2 DEF Session!TokensExpire, Session!PasswordChanged
  <2> QED  BY <2>3, <2>4, TabsRest DEF SessionInv
<1> QED  BY <1>1, <1>2, TabSteps, RequestSteps DEF Session!Next

-----------------------------------------------------------------------------
LEMMA SessionAlways == Spec => [](page = "session" => SessionInv)
<1>1. Init => (page = "session" => SessionInv)
  BY SessionStart DEF Init
<1>2. (page = "session" => SessionInv) /\ [Next]_vars => (page = "session" => SessionInv)'
  BY SessionStep DEF Next, vars
<1> QED  BY <1>1, <1>2, PTL DEF Spec

(* A write is carried out at most once, and on the side its data was read     *)
(* from, whatever tabs switch, log in, reset the sandbox or are loaded anew   *)
(* while it waits (apiFetch chooses the path before it waits for the token,   *)
(* and renews a refused token once).                                          *)
THEOREM WritesRunOnceOnTheirSide == Spec => []RunsOnceOnItsOwnSide
<1>1. (page = "session" => SessionInv) => RunsOnceOnItsOwnSide
  BY DEF SessionInv, Sound, RequestRows, RunsOnceOnItsOwnSide, Session!RunsOnceOnItsOwnSide
<1> QED  BY <1>1, SessionAlways, PTL

(* Whoever waits for a token waits for a request that was made: no write      *)
(* hangs because another one of its tab was logged out, lost or given up.     *)
THEOREM WaitersHaveARequest == Spec => []WaitersAreAnswered
<1>1. (page = "session" => SessionInv) => WaitersAreAnswered
  BY DEF SessionInv, Asked, WaitersAreAnswered, Session!WaitersAreAnswered, Session!Waiting, Session!Of
<1> QED  BY <1>1, SessionAlways, PTL

-----------------------------------------------------------------------------
(* The worlds of the session: no tab works in a sandbox that was not made,    *)
(* and no more are made than may be.  A reset that is under way counts: its   *)
(* tab looked at how many there are before it sent it.                        *)
Due(Q) == {q \in Q : q.kind = "reset" /\ q.step # "done"}

WorldsInv ==
  /\ server.storage <= server.made
  /\ \A t \in Tabs : desk[t].mode <= server.made /\ desk[t].data <= server.made
  /\ IsFiniteSet(calls)
  /\ server.made + Cardinality(Due(calls)) <= MaxResets

(* What a step leaves of the calls came from the calls before it.             *)
LEMMA Carried ==
  ASSUME IsFiniteSet(calls), NEW f, calls' \subseteq {f[x] : x \in calls},
         \A x \in calls : f[x].kind = x.kind /\ (f[x].step # "done" => x.step # "done")
  PROVE  IsFiniteSet(calls') /\ Cardinality(Due(calls)') <= Cardinality(Due(calls))
<1>1. ASSUME NEW S, IsFiniteSet(S), NEW T, T \subseteq {f[x] : x \in S}
      PROVE  IsFiniteSet(T) /\ Cardinality(T) <= Cardinality(S)
  <2> DEFINE I == {f[x] : x \in S}
             g == [x \in S |-> f[x]]
  <2>1. g \in Surjection(S, I)
    BY DEF Surjection
  <2>2. IsFiniteSet(I) /\ Cardinality(I) <= Cardinality(S)
    BY <1>1, <2>1, FS_Surjection
  <2>3. IsFiniteSet(T) /\ Cardinality(T) <= Cardinality(I)
    BY <1>1, <2>2, FS_Subset
  <2>4. Cardinality(T) \in Int /\ Cardinality(I) \in Int /\ Cardinality(S) \in Int
    BY <1>1, <2>2, <2>3, FS_CardinalityType
  <2> HIDE DEF I
  <2> QED  BY <2>2, <2>3, <2>4
<1>2. IsFiniteSet(Due(calls))
  BY FS_Subset DEF Due
<1>3. Due(calls)' \subseteq {f[x] : x \in Due(calls)}
  BY DEF Due
<1> QED  BY <1>1, <1>2, <1>3

(* A call is replaced by one of its kind.                                     *)
LEMMA CallReplaced ==
  ASSUME IsFiniteSet(calls), NEW q \in calls, NEW r, r.kind = q.kind, r.step # "done" => q.step # "done",
         calls' \subseteq (calls \ {q}) \cup {r}
  PROVE  IsFiniteSet(calls') /\ Cardinality(Due(calls)') <= Cardinality(Due(calls))
<1> DEFINE f == [x \in calls |-> IF x = q THEN r ELSE x]
<1>1. calls' \subseteq {f[x] : x \in calls}
  <2>1. f[q] = r /\ \A x \in calls \ {q} : f[x] = x
    OBVIOUS
  <2> HIDE DEF f
  <2> QED  BY <2>1
<1>2. \A x \in calls : f[x].kind = x.kind /\ (f[x].step # "done" => x.step # "done")
  OBVIOUS
<1> HIDE DEF f
<1> QED  BY <1>1, <1>2, Carried

(* Some calls are replaced by what becomes of them.                           *)
LEMMA CallsMoved ==
  ASSUME IsFiniteSet(calls), NEW W, NEW m, \A x \in W : m[x].kind = x.kind /\ x.step # "done",
         calls' \subseteq (calls \ W) \cup {m[x] : x \in W}, W \subseteq calls
  PROVE  IsFiniteSet(calls') /\ Cardinality(Due(calls)') <= Cardinality(Due(calls))
<1> DEFINE f == [x \in calls |-> IF x \in W THEN m[x] ELSE x]
<1>1. calls' \subseteq {f[x] : x \in calls}
  <2>1. (\A x \in W : f[x] = m[x]) /\ \A x \in calls \ W : f[x] = x
    OBVIOUS
  <2> HIDE DEF f
  <2> QED  BY <2>1
<1>2. \A x \in calls : f[x].kind = x.kind /\ (f[x].step # "done" => x.step # "done")
  OBVIOUS
<1> HIDE DEF f
<1> QED  BY <1>1, <1>2, Carried

Counted == IsFiniteSet(calls) /\ server.made + Cardinality(Due(calls)) <= MaxResets

LEMMA CountKept ==
  ASSUME SessionInv, WorldsInv, server'.made = server.made, IsFiniteSet(calls'),
         Cardinality(Due(calls)') <= Cardinality(Due(calls))
  PROVE  Counted'
<1>1. IsFiniteSet(Due(calls)) /\ IsFiniteSet(Due(calls'))
  BY FS_Subset DEF Due, WorldsInv
<1>2. Cardinality(Due(calls)) \in Int /\ Cardinality(Due(calls')) \in Int
  BY <1>1, FS_CardinalityType
<1>3. server.made \in Int /\ MaxResets \in Int
  BY SessionFacts, PageAssumptions
<1>4. Due(calls)' = Due(calls')
  BY DEF Due
<1> QED  BY <1>2, <1>3, <1>4 DEF WorldsInv, Counted

LEMMA FewerCalls ==
  ASSUME SessionInv, WorldsInv, calls' \subseteq calls
  PROVE  IsFiniteSet(calls') /\ Cardinality(Due(calls)') <= Cardinality(Due(calls))
<1>1. IsFiniteSet(calls') /\ IsFiniteSet(Due(calls))
  BY FS_Subset DEF Due, WorldsInv
<1>2. Due(calls)' \subseteq Due(calls)
  BY DEF Due
<1> QED  BY <1>1, <1>2, FS_Subset

LEMMA TabCounts ==
  ASSUME SessionInv, WorldsInv, NEW t \in Tabs, Session!Tab(t)
  PROVE  Counted' /\ server'.made = server.made
<1>1. server \in BrowserRows /\ IsFiniteSet(calls) /\ \A q \in calls : q \in RequestRows
  BY SessionFacts DEF WorldsInv
<1>2. server'.made = server.made
  <2>1. /\ \A n : [server EXCEPT !.sent = n].made = server.made
             /\ [server EXCEPT !.storage = n].made = server.made
        /\ \A n, m : [server EXCEPT !.last = n, !.cookie = m].made = server.made
    BY <1>1 DEF BrowserRows
  <2>2. \/ server' = server
        \/ server' = [server EXCEPT !.sent = @ + 1]
        \/ \E world : server' = [server EXCEPT !.storage = world]
        \/ server' = [server EXCEPT !.last = @ + 1, !.cookie = server.last + 1]
    BY DEF Session!Tab, Session!Leave, Session!ReloadByHand, Session!StorageEvent, Session!Reload,
           Session!ReadData, Session!Login, Session!Write, Session!Logout, Session!ResetSandbox,
           Session!Submit,
           Session!TokenArrives, Session!TokenRefused, Session!EnterSandbox, Session!ExitSandbox,
           Session!Switch
  <2> QED  BY <1>1, <2>1, <2>2 DEF BrowserRows
<1>3. CASE Session!Reload(t)
  <2> DEFINE W == {c \in Session!Of(t) : c.step = "sent"}
             m == [c \in W |-> [c EXCEPT !.owned = FALSE]]
  <2>1. W \subseteq Session!Of(t) /\ Session!Of(t) \subseteq calls
    BY DEF Session!Of
  <2>2. \A c \in W : m[c] = [c EXCEPT !.owned = FALSE] /\ c.step # "done" /\ c \in RequestRows
    BY <1>1, <2>1
  <2>3. \A c \in W : m[c].kind = c.kind /\ c.step # "done"
    BY <2>2 DEF RequestRows
  <2>4. calls' = (calls \ Session!Of(t)) \cup {[c EXCEPT !.owned = FALSE] : c \in W}
    BY <1>3 DEF Session!Reload, Session!Dropped
  <2> HIDE DEF W, m
  <2>5. calls' \subseteq (calls \ W) \cup {m[c] : c \in W} /\ W \subseteq calls
    BY <2>1, <2>2, <2>4
  <2> QED  BY <1>1, <1>2, <2>3, <2>5, CallsMoved, CountKept
<1>4. CASE Session!TokenArrives(t)
  <2> DEFINE token == [session |-> server.cookie, epoch |-> server.epoch]
             W == Session!Waiting(t)
             m == [c \in W |-> Session!Departs(c, token)]
  <2>1. W \subseteq calls /\ \A c \in W : c.step = "waiting"
    BY DEF Session!Waiting, Session!Of
  <2>2. \A c \in W : m[c] = Session!Departs(c, token) /\ c \in RequestRows
    BY <1>1, <2>1
  <2>3. \A c \in W : m[c].kind = c.kind /\ c.step # "done"
    BY <2>1, <2>2 DEF RequestRows, Session!Departs
  <2>4. calls' = (calls \ W) \cup {Session!Departs(c, token) : c \in W}
    BY <1>4 DEF Session!TokenArrives
  <2> HIDE DEF W, m, token
  <2>5. calls' \subseteq (calls \ W) \cup {m[c] : c \in W}
    BY <2>2, <2>4
  <2> QED  BY <1>1, <1>2, <2>1, <2>3, <2>5, CallsMoved, CountKept
<1>5. CASE \/ Session!TokenRefused(t) \/ Session!ReadData(t) \/ Session!Login(t)
           \/ Session!EnterSandbox(t) \/ Session!ExitSandbox(t)
  <2>1. calls' \subseteq calls
    BY <1>5 DEF Session!TokenRefused, Session!ReadData, Session!Login, Session!EnterSandbox,
       Session!ExitSandbox,
                Session!Switch
  <2> QED  BY <1>2, <2>1, FewerCalls, CountKept
<1>6. ASSUME NEW kind \in {"write", "logout", "reset"}, Session!Submit(t, kind),
             kind = "reset" => server.made + Session!Cardinality(Session!Resets) < MaxResets
      PROVE  Counted'
  <2>1. PICK q : calls' = calls \cup {q} /\ q.kind = kind
    <3> DEFINE q == [id |-> server.sent + 1, tab |-> t, owned |-> TRUE, kind |-> kind,
                 path |-> Session!Path(t),
                     from |-> IF kind = "write" THEN desk[t].data ELSE Session!Unread,
                     late |-> kind = "write" /\ desk[t].leaving, step |-> "token", forced |-> FALSE,
                     token |-> Session!NoToken, session |-> 0, runs |-> 0, in |-> "nowhere"]
    <3>1. calls' = calls \cup {q}
      BY <1>6, Zenon DEF Session!Submit
    <3>2. q.kind = kind
      OBVIOUS
    <3> HIDE DEF q
    <3> QED  BY <3>1, <3>2
  <2>2. IsFiniteSet(calls')
    BY <1>1, <2>1, FS_AddElement
  <2>3. CASE kind # "reset"
    <3>1. Due(calls)' \subseteq Due(calls)
      BY <2>1, <2>3 DEF Due
    <3>2. IsFiniteSet(Due(calls))
      BY <1>1, FS_Subset DEF Due
    <3> QED  BY <1>2, <2>2, <3>1, <3>2, FS_Subset, CountKept
  <2>4. CASE kind = "reset"
    <3> DEFINE resets == {c \in calls : c.kind = "reset"}
    <3>1. server.made + Cardinality(resets) < MaxResets
      BY <1>6, <2>4 DEF Session!Resets, Session!Cardinality, Cardinality
    <3>2. IsFiniteSet(resets) /\ IsFiniteSet(resets \cup {q})
      BY <1>1, FS_Subset, FS_AddElement
    <3>3. Cardinality(resets \cup {q}) <= Cardinality(resets) + 1 /\ Cardinality(resets) \in Nat
      BY <3>2, FS_AddElement, FS_CardinalityType
    <3>4. Due(calls') \subseteq resets \cup {q}
      BY <2>1 DEF Due
    <3> HIDE DEF resets
    <3>5. IsFiniteSet(Due(calls')) /\ Cardinality(Due(calls')) <= Cardinality(resets \cup {q})
      BY <3>2, <3>4, FS_Subset
    <3>6. Cardinality(Due(calls')) \in Nat /\ Cardinality(resets \cup {q}) \in Nat
      BY <3>2, <3>5, FS_CardinalityType
    <3>7. server.made \in Nat /\ MaxResets \in Nat
      BY SessionFacts, PageAssumptions
    <3>8. server.made + Cardinality(Due(calls')) <= MaxResets
      BY <3>1, <3>3, <3>5, <3>6, <3>7
    <3> QED  BY <1>2, <2>2, <3>8 DEF Counted, Due
  <2> QED  BY <2>3, <2>4
<1>7. CASE Session!Write(t) \/ Session!Logout(t) \/ Session!ResetSandbox(t)
  <2>1. CASE Session!Write(t) \/ Session!Logout(t)
    <3>1. PICK kind \in {"write", "logout"} : Session!Submit(t, kind)
      BY <2>1, Zenon DEF Session!Write, Session!Logout
    <3> QED  BY <1>2, <1>6, <3>1
  <2>2. CASE Session!ResetSandbox(t)
    <3>1. Session!Submit(t, "reset") /\ server.made + Session!Cardinality(Session!Resets) < MaxResets
      BY <2>2, Zenon DEF Session!ResetSandbox
    <3> QED  BY <1>2, <1>6, <3>1
  <2> QED  BY <1>7, <2>1, <2>2
<1>8. CASE Session!Leave(t) \/ Session!ReloadByHand(t) \/ Session!StorageEvent(t)
  BY <1>3, <1>8 DEF Session!Leave, Session!ReloadByHand, Session!StorageEvent
<1>9. Counted'
  BY <1>4, <1>5, <1>7, <1>8 DEF Session!Tab
<1> QED  BY <1>2, <1>9

LEMMA RequestCounts ==
  ASSUME SessionInv, WorldsInv, NEW q \in calls, Session!Request(q)
  PROVE  Counted' /\ server'.made \in {server.made, server.made + 1}
<1>1. server \in BrowserRows /\ IsFiniteSet(calls) /\ q \in RequestRows
  BY SessionFacts DEF WorldsInv
<1>2. CASE Session!Serve(q) /\ server'.made # server.made
  <2>1. q.kind = "reset" /\ q.step = "sent" /\ server' = [server EXCEPT !.made = @ + 1]
        /\ Session!To(q, [Session!Answered(q, "done") EXCEPT !.runs = @ + 1, !.in = q.path])
    BY <1>1, <1>2 DEF Session!Serve, BrowserRows
  <2>2. [Session!Answered(q, "done") EXCEPT !.runs = @ + 1, !.in = q.path].step = "done"
    BY <1>1 DEF RequestRows, Session!Answered
  <2>3. PICK r : calls' = (calls \ {q}) \cup {r} /\ r.step = "done"
    BY <2>1, <2>2 DEF Session!To
  <2>4. Due(calls') \subseteq Due(calls) \ {q} /\ q \in Due(calls)
    BY <2>1, <2>3 DEF Due
  <2>5. IsFiniteSet(calls') /\ IsFiniteSet(Due(calls)) /\ IsFiniteSet(calls \ {q})
    BY <1>1, <2>3, FS_Subset, FS_RemoveElement, FS_AddElement DEF Due
  <2>6. IsFiniteSet(Due(calls) \ {q}) /\ Cardinality(Due(calls) \ {q}) = Cardinality(Due(calls)) - 1
    BY <2>4, <2>5, FS_RemoveElement
  <2>7. IsFiniteSet(Due(calls')) /\ Cardinality(Due(calls')) <= Cardinality(Due(calls) \ {q})
    BY <2>4, <2>6, FS_Subset
  <2>8. Cardinality(Due(calls')) \in Int /\ Cardinality(Due(calls)) \in Int /\ server.made \in Int
        /\ MaxResets \in Int /\ server'.made = server.made + 1
    BY <1>1, <2>1, <2>5, <2>7, SessionFacts, FS_CardinalityType, PageAssumptions DEF BrowserRows
  <2>9. server.made + 1 + Cardinality(Due(calls')) <= MaxResets
    BY <2>6, <2>7, <2>8 DEF WorldsInv
  <2> QED  BY <2>5, <2>8, <2>9 DEF Counted, Due
<1>3. CASE Session!Serve(q) /\ server'.made = server.made
  <2>1. \E r : r.kind = q.kind /\ calls' = (calls \ {q}) \cup {r}
    BY <1>1, <1>3 DEF Session!Serve, Session!To, Session!Answered, RequestRows
  <2> QED  BY <1>1, <1>3, <2>1, CallReplaced, CountKept DEF Session!Serve
<1>4. CASE Session!UseToken(q) \/ Session!FetchToken(q) \/ Session!Retry(q)
  <2>1. \E r : r.kind = q.kind /\ calls' = (calls \ {q}) \cup {r}
    BY <1>1, <1>4 DEF Session!UseToken, Session!FetchToken, Session!Retry, Session!To, Session!Departs,
       RequestRows
  <2>2. server' = server /\ q.step # "done"
    BY <1>4 DEF Session!UseToken, Session!FetchToken, Session!Retry, Session!Answer
  <2> QED  BY <1>1, <2>1, <2>2, CallReplaced, CountKept
<1>5. CASE \/ Session!GiveUp(q) \/ Session!Unauthorized(q) \/ Session!Lost(q)
           \/ Session!Succeeded(q) \/ Session!Forgotten(q)
  <2>1. calls' \subseteq calls
    BY <1>5 DEF Session!GiveUp, Session!Unauthorized, Session!Lost, Session!Succeeded, Session!Forgotten
  <2>2. server' = server \/ server' = [server EXCEPT !.storage = server.made]
    BY <1>5 DEF Session!GiveUp, Session!Unauthorized, Session!Lost, Session!Succeeded, Session!Forgotten,
       Session!Answer
  <2>3. server'.made = server.made
    BY <1>1, <2>2 DEF BrowserRows
  <2> QED  BY <2>1, <2>3, FewerCalls, CountKept
<1> QED  BY <1>2, <1>3, <1>4, <1>5 DEF Session!Request, Session!Serve

(* Where a step takes the tabs.                                               *)
LEMMA TabsGo ==
  ASSUME SessionInv, [Session!Next]_<<server, desk, calls>>
  PROVE  /\ \A u \in Tabs : /\ desk'[u].mode \in {desk[u].mode, server.storage, server.made, Session!Live}
                            /\ desk'[u].data \in {desk[u].data, server.made, Session!Live, Session!Unread}
         /\ server'.storage \in {server.storage, server.made, Session!Live}
         /\ server'.made \in {server.made, server.made + 1}
<1> DEFINE Goes(r, o) ==
      /\ r.mode \in {o.mode, server.storage, server.made, Session!Live}
      /\ r.data \in {o.data, server.made, Session!Live, Session!Unread}
<1>1. server \in BrowserRows /\ \A u \in Tabs : desk[u] \in TabRows
  BY SessionFacts
<1>2. ASSUME NEW t \in Tabs, NEW r, desk' = [desk EXCEPT ![t] = r], Goes(r, desk[t])
      PROVE  \A u \in Tabs : Goes(desk'[u], desk[u])
  BY <1>2 DEF SessionInv
<1>3. ASSUME desk' = desk
      PROVE  \A u \in Tabs : Goes(desk'[u], desk[u])
  BY <1>3
<1>4. ASSUME NEW r \in TabRows, NEW token, NEW a, NEW login
      PROVE  /\ Goes([r EXCEPT !.login = login], r) /\ Goes([r EXCEPT !.token = token, !.asking = a], r)
             /\ Goes([r EXCEPT !.token = token, !.asking = a, !.login = login], r)
             /\ Goes([r EXCEPT !.asking = a], r) /\ Goes([r EXCEPT !.token = token], r)
             /\ Goes([r EXCEPT !.token = token, !.login = login], r)
             /\ Goes([r EXCEPT !.token = token, !.data = Session!Unread, !.login = login], r)
             /\ \A d \in {server.made, Session!Live, Session!Unread} : Goes([r EXCEPT !.data = d], r)
             /\ \A m \in {server.made, Session!Live} : /\ Goes([r EXCEPT !.mode = m], r)
                                                       /\ Goes([r EXCEPT !.mode = m, !.leaving = a], r)
  BY DEF TabRows
<1>5. \A u \in Tabs : Goes(desk'[u], desk[u])
  <2>1. CASE desk' = desk
    BY <1>3, <2>1, Zenon
  <2>2. CASE \E t \in Tabs : desk' = Session!LoggedOut(t)
    <3>1. PICK t \in Tabs : desk' = Session!LoggedOut(t)
      BY <2>2
    <3>2. desk' = [desk EXCEPT ![t] = [desk[t] EXCEPT !.token = Session!NoToken, !.data = Session!Unread,
            !.login = FALSE]]
      BY <3>1 DEF Session!LoggedOut, SessionInv
    <3> HIDE DEF Goes
    <3> QED  BY <1>1, <1>2, <1>4, <3>2, ZenonT(40)
  <2>3. CASE \E t \in Tabs : Session!Reload(t)
    <3>1. Session!Fresh.mode = server.storage /\ Session!Fresh.data = Session!Unread
      BY DEF Session!Fresh
    <3>2. PICK t \in Tabs : desk' = [desk EXCEPT ![t] = Session!Fresh]
      BY <2>3, Zenon DEF Session!Reload
    <3> HIDE DEF Session!Fresh
    <3>3. Goes(Session!Fresh, desk[t])
      BY <3>1
    <3> HIDE DEF Goes
    <3> QED  BY <1>2, <3>2, <3>3
  <2>4. ASSUME NEW t \in Tabs, Session!ReadData(t)
        PROVE  \A u \in Tabs : Goes(desk'[u], desk[u])
    <3>1. PICK d \in {server.made, Session!Live} : desk' = [desk EXCEPT ![t].data = d]
      BY <2>4, Zenon DEF Session!ReadData
    <3>2. desk' = [desk EXCEPT ![t] = [desk[t] EXCEPT !.data = d]]
      BY <1>1, <3>1 DEF SessionInv
    <3> HIDE DEF Goes
    <3> QED  BY <1>1, <1>2, <1>4, <3>2, Zenon
  <2>5. ASSUME NEW t \in Tabs, Session!Login(t)
        PROVE  \A u \in Tabs : Goes(desk'[u], desk[u])
    <3>1. desk' = [desk EXCEPT ![t] = [desk[t] EXCEPT !.login = TRUE]]
      BY <2>5 DEF Session!Login, SessionInv
    <3> HIDE DEF Goes
    <3> QED  BY <1>1, <1>2, <1>4, <3>1, Zenon
  <2>6. ASSUME NEW t \in Tabs, Session!TokenArrives(t) \/ Session!TokenRefused(t)
        PROVE  \A u \in Tabs : Goes(desk'[u], desk[u])
    <3> DEFINE token == [session |-> server.cookie, epoch |-> server.epoch]
    <3>1. \/ desk' = [desk EXCEPT ![t].token = token, ![t].asking = FALSE]
          \/ desk' = [desk EXCEPT ![t].token = Session!NoToken, ![t].asking = FALSE, ![t].login = FALSE]
          \/ desk' = [desk EXCEPT ![t].asking = FALSE]
      BY <2>6, Zenon DEF Session!TokenArrives, Session!TokenRefused
    <3> HIDE DEF token, Goes
    <3>2. CASE desk' = [desk EXCEPT ![t].token = token, ![t].asking = FALSE]
      <4>1. desk' = [desk EXCEPT ![t] = [desk[t] EXCEPT !.token = token, !.asking = FALSE]]
        BY <3>2, Zenon DEF SessionInv
      <4> QED  BY <1>1, <1>2, <1>4, <4>1, Zenon
    <3>3. CASE desk' = [desk EXCEPT ![t].token = Session!NoToken, ![t].asking = FALSE, ![t].login = FALSE]
      <4>1. desk' = [desk EXCEPT ![t] = [desk[t] EXCEPT !.token = Session!NoToken, !.asking = FALSE,
              !.login = FALSE]]
        BY <3>3, Zenon DEF SessionInv
      <4> QED  BY <1>1, <1>2, <1>4, <4>1, ZenonT(40)
    <3>4. CASE desk' = [desk EXCEPT ![t].asking = FALSE]
      <4>1. desk' = [desk EXCEPT ![t] = [desk[t] EXCEPT !.asking = FALSE]]
        BY <3>4 DEF SessionInv
      <4> QED  BY <1>1, <1>2, <1>4, <4>1, ZenonT(40)
    <3> QED  BY <3>1, <3>2, <3>3, <3>4
  <2>7. ASSUME NEW t \in Tabs, Session!EnterSandbox(t) \/ Session!ExitSandbox(t)
        PROVE  \A u \in Tabs : Goes(desk'[u], desk[u])
    <3>1. PICK m \in {server.made, Session!Live} :
             desk' = [desk EXCEPT ![t] = [desk[t] EXCEPT !.mode = m, !.leaving = TRUE]]
      BY <2>7 DEF Session!EnterSandbox, Session!ExitSandbox, Session!Switch, SessionInv
    <3> HIDE DEF Goes
    <3> QED  BY <1>1, <1>2, <1>4, <3>1, Zenon
  <2>8. ASSUME NEW q \in calls, Session!Request(q), ~ \E t \in Tabs : desk' = Session!LoggedOut(t),
                 desk' # desk
        PROVE  \A u \in Tabs : Goes(desk'[u], desk[u])
    <3>0. q.tab \in Tabs
      BY SessionFacts
    <3>1. \/ desk' = [desk EXCEPT ![q.tab].asking = TRUE]
          \/ desk' = [desk EXCEPT ![q.tab].token = Session!NoToken]
          \/ desk' = [desk EXCEPT ![q.tab].token = Session!NoToken, ![q.tab].login = FALSE]
          \/ desk' = [desk EXCEPT ![q.tab].mode = server.made]
          \/ desk' = [desk EXCEPT ![q.tab].data = Session!Unread]
      BY <2>8, <3>0 DEF Session!Request, Session!UseToken, Session!FetchToken, Session!Serve,
         Session!Retry, Session!GiveUp,
         Session!Unauthorized, Session!Lost, Session!Succeeded, Session!Forgotten
    <3>2. \/ desk' = [desk EXCEPT ![q.tab] = [desk[q.tab] EXCEPT !.asking = TRUE]]
          \/ desk' = [desk EXCEPT ![q.tab] = [desk[q.tab] EXCEPT !.token = Session!NoToken]]
          \/ desk' = [desk EXCEPT ![q.tab] = [desk[q.tab] EXCEPT !.token = Session!NoToken, !.login = FALSE]]
          \/ desk' = [desk EXCEPT ![q.tab] = [desk[q.tab] EXCEPT !.mode = server.made]]
          \/ desk' = [desk EXCEPT ![q.tab] = [desk[q.tab] EXCEPT !.data = Session!Unread]]
      BY <3>0, <3>1 DEF SessionInv
    <3> HIDE DEF Goes
    <3>3. desk[q.tab] \in TabRows
      BY <1>1, <3>0, Zenon
    <3>4. CASE desk' = [desk EXCEPT ![q.tab] = [desk[q.tab] EXCEPT !.asking = TRUE]]
      BY <1>2, <1>4, <3>0, <3>3, <3>4, ZenonT(40)
    <3>5. CASE desk' = [desk EXCEPT ![q.tab] = [desk[q.tab] EXCEPT !.token = Session!NoToken]]
      BY <1>2, <1>4, <3>0, <3>3, <3>5, ZenonT(40)
    <3>6. CASE desk' = [desk EXCEPT ![q.tab] = [desk[q.tab] EXCEPT !.token = Session!NoToken,
                 !.login = FALSE]]
      BY <1>2, <1>4, <3>0, <3>3, <3>6, ZenonT(40)
    <3>7. CASE desk' = [desk EXCEPT ![q.tab] = [desk[q.tab] EXCEPT !.mode = server.made]]
      BY <1>2, <1>4, <3>0, <3>3, <3>7, ZenonT(40)
    <3>8. CASE desk' = [desk EXCEPT ![q.tab] = [desk[q.tab] EXCEPT !.data = Session!Unread]]
      BY <1>2, <1>4, <3>0, <3>3, <3>8, Zenon
    <3> QED  BY <3>2, <3>4, <3>5, <3>6, <3>7, <3>8
  <2> HIDE DEF Goes
  <2>9. ASSUME NEW t \in Tabs, Session!Tab(t), desk' # desk, ~Session!Reload(t)
        PROVE  \A u \in Tabs : Goes(desk'[u], desk[u])
    <3>1. \/ Session!ReadData(t) \/ Session!Login(t) \/ Session!TokenArrives(t) \/ Session!TokenRefused(t)
          \/ Session!EnterSandbox(t) \/ Session!ExitSandbox(t)
      BY <2>9 DEF Session!Tab, Session!Leave, Session!ReloadByHand, Session!StorageEvent, Session!Write,
                  Session!Logout, Session!ResetSandbox, Session!Submit
    <3> QED  BY <2>4, <2>5, <2>6, <2>7, <3>1
  <2>10. CASE UNCHANGED <<server, desk, calls>> \/ Session!TokensExpire \/ Session!PasswordChanged
    BY <2>1, <2>10 DEF Session!TokensExpire, Session!PasswordChanged
  <2> QED  BY <2>1, <2>2, <2>3, <2>8, <2>9, <2>10 DEF Session!Next
<1>6. /\ server'.storage \in {server.storage, server.made, Session!Live}
      /\ server'.made \in {server.made, server.made + 1}
  <2>1. ASSUME NEW n, NEW m
        PROVE  /\ [server EXCEPT !.sent = n].storage = server.storage
                    /\ [server EXCEPT !.sent = n].made = server.made
               /\ [server EXCEPT !.epoch = n].storage = server.storage
                    /\ [server EXCEPT !.epoch = n].made = server.made
               /\ [server EXCEPT !.revoked = n].storage = server.storage
                    /\ [server EXCEPT !.revoked = n].made = server.made
               /\ [server EXCEPT !.cookie = n].storage = server.storage
                    /\ [server EXCEPT !.cookie = n].made = server.made
               /\ [server EXCEPT !.last = n, !.cookie = m].storage = server.storage
               /\ [server EXCEPT !.last = n, !.cookie = m].made = server.made
               /\ [server EXCEPT !.made = n].storage = server.storage /\ [server EXCEPT !.made = n].made = n
               /\ [server EXCEPT !.storage = n].storage = n
                    /\ [server EXCEPT !.storage = n].made = server.made
    BY <1>1 DEF BrowserRows
  <2>2. \/ server' = server
        \/ \E n : server' = [server EXCEPT !.sent = n] \/ server' = [server EXCEPT !.epoch = n]
                  \/ server' = [server EXCEPT !.revoked = n] \/ server' = [server EXCEPT !.cookie = n]
        \/ \E n, m : server' = [server EXCEPT !.last = n, !.cookie = m]
        \/ server' = [server EXCEPT !.made = server.made + 1]
        \/ \E n \in {server.made, Session!Live} : server' = [server EXCEPT !.storage = n]
    <3>1. ASSUME NEW t \in Tabs, Session!Tab(t)
          PROVE  \/ server' = server
                 \/ \E n : server' = [server EXCEPT !.sent = n]
                 \/ \E n, m : server' = [server EXCEPT !.last = n, !.cookie = m]
                 \/ \E n \in {server.made, Session!Live} : server' = [server EXCEPT !.storage = n]
      <4>1. CASE Session!Write(t) \/ Session!Logout(t) \/ Session!ResetSandbox(t)
        BY <1>1, <4>1 DEF Session!Write, Session!Logout, Session!ResetSandbox, Session!Submit, BrowserRows
      <4>2. CASE Session!Login(t)
        BY <1>1, <4>2 DEF Session!Login, BrowserRows
      <4>3. CASE Session!EnterSandbox(t) \/ Session!ExitSandbox(t)
        BY <4>3 DEF Session!EnterSandbox, Session!ExitSandbox, Session!Switch
      <4> QED  BY <3>1, <4>1, <4>2, <4>3
               DEF Session!Tab, Session!Leave, Session!ReloadByHand, Session!StorageEvent, Session!Reload,
                   Session!ReadData, Session!TokenArrives, Session!TokenRefused
    <3>2. ASSUME NEW q \in calls, Session!Request(q)
          PROVE  \/ server' = server \/ server' = [server EXCEPT !.cookie = 0]
                 \/ server' = [server EXCEPT !.made = server.made + 1]
                 \/ server' = [server EXCEPT !.storage = server.made]
      <4>1. CASE Session!Serve(q)
        BY <1>1, <4>1 DEF Session!Serve, BrowserRows
      <4> QED  BY <3>2, <4>1
               DEF Session!Request, Session!UseToken, Session!FetchToken, Session!Retry, Session!GiveUp,
                   Session!Unauthorized, Session!Lost, Session!Succeeded, Session!Forgotten, Session!Answer
    <3> QED  BY <3>1, <3>2 DEF Session!Next, Session!TokensExpire, Session!PasswordChanged
  <2>3. server.storage \in Nat /\ server.made \in Nat
    BY SessionFacts
  <2>4. CASE server' = server
    BY <2>4
  <2>5. CASE \E n : server' = [server EXCEPT !.sent = n] \/ server' = [server EXCEPT !.epoch = n]
                    \/ server' = [server EXCEPT !.revoked = n] \/ server' = [server EXCEPT !.cookie = n]
    <3>0. PICK n : \/ server' = [server EXCEPT !.sent = n] \/ server' = [server EXCEPT !.epoch = n]
                   \/ server' = [server EXCEPT !.revoked = n] \/ server' = [server EXCEPT !.cookie = n]
      BY <2>5, Zenon
    <3>1. server'.storage = server.storage /\ server'.made = server.made
      <4>1. CASE server' = [server EXCEPT !.sent = n]
        BY <1>1, <4>1 DEF BrowserRows
      <4>2. CASE server' = [server EXCEPT !.epoch = n]
        BY <1>1, <4>2 DEF BrowserRows
      <4>3. CASE server' = [server EXCEPT !.revoked = n]
        BY <1>1, <4>3 DEF BrowserRows
      <4>4. CASE server' = [server EXCEPT !.cookie = n]
        BY <1>1, <4>4 DEF BrowserRows
      <4> QED  BY <3>0, <4>1, <4>2, <4>3, <4>4
    <3> QED  BY <3>1
  <2>6. CASE \E n, m : server' = [server EXCEPT !.last = n, !.cookie = m]
    <3>1. server'.storage = server.storage /\ server'.made = server.made
      BY <2>1, <2>6
    <3> QED  BY <3>1
  <2>7. CASE server' = [server EXCEPT !.made = server.made + 1]
    <3>1. server'.storage = server.storage /\ server'.made = server.made + 1
      BY <2>1, <2>7
    <3> QED  BY <3>1
  <2>8. CASE \E n \in {server.made, Session!Live} : server' = [server EXCEPT !.storage = n]
    <3>1. PICK n \in {server.made, Session!Live} : server' = [server EXCEPT !.storage = n]
      BY <2>8
    <3>2. server'.storage = n /\ server'.made = server.made
      BY <2>1, <3>1
    <3> QED  BY <3>1, <3>2
  <2> QED  BY <2>2, <2>4, <2>5, <2>6, <2>7, <2>8
<1> QED  BY <1>5, <1>6

LEMMA WorldsStart ==
  ASSUME Session!Init
  PROVE  WorldsInv
<1>1. server.storage = 0 /\ server.made = 0 /\ calls = {}
  BY DEF Session!Init, Session!Live
<1>2. Session!Fresh.mode = server.storage /\ Session!Fresh.data = Session!Unread
  BY DEF Session!Fresh
<1>3. \A t \in Tabs : desk[t].mode = 0 /\ desk[t].data = Session!Unread
  BY <1>1, <1>2 DEF Session!Init
<1>4. Due(calls) = {} /\ IsFiniteSet(calls) /\ Cardinality(Due(calls)) = 0
  BY <1>1, FS_EmptySet DEF Due
<1> QED  BY <1>1, <1>3, <1>4, PageAssumptions DEF WorldsInv, Session!Unread

LEMMA WorldsStep ==
  ASSUME SessionInv, WorldsInv, [Session!Next]_<<server, desk, calls>>
  PROVE  WorldsInv'
<1>1. server'.made \in {server.made, server.made + 1} /\ server.made \in Nat
  BY TabsGo, SessionFacts
<1>2. Counted'
  <2>1. CASE \E t \in Tabs : Session!Tab(t)
    BY <2>1, TabCounts
  <2>2. CASE \E q \in calls : Session!Request(q)
    BY <2>2, RequestCounts
  <2>3. CASE UNCHANGED <<server, desk, calls>> \/ Session!TokensExpire \/ Session!PasswordChanged
    <3>1. server'.made = server.made /\ calls' \subseteq calls
      BY <2>3, SessionFacts DEF Session!TokensExpire, Session!PasswordChanged, BrowserRows
    <3> QED  BY <3>1, FewerCalls, CountKept
  <2> QED  BY <2>1, <2>2, <2>3 DEF Session!Next
<1>3. server.storage \in Nat /\ server'.storage <= server'.made
  BY <1>1, TabsGo, SessionFacts DEF WorldsInv, Session!Live
<1>4. ASSUME NEW t \in Tabs
      PROVE  desk'[t].mode <= server'.made /\ desk'[t].data <= server'.made
  <2>1. desk[t].mode \in Nat /\ desk[t].data \in Nat \cup {-1}
    BY SessionFacts DEF TabRows, Session!Unread
  <2>2. desk[t].mode <= server.made /\ desk[t].data <= server.made /\ server.storage <= server.made
    BY DEF WorldsInv
  <2>3. /\ desk'[t].mode \in {desk[t].mode, server.storage, server.made, 0}
        /\ desk'[t].data \in {desk[t].data, server.made, 0, -1}
    BY TabsGo DEF Session!Live, Session!Unread
  <2> QED  BY <1>1, <1>3, <2>1, <2>2, <2>3
<1> QED  BY <1>2, <1>3, <1>4 DEF WorldsInv, Counted

LEMMA SessionTypes ==
  ASSUME SessionInv, WorldsInv
  PROVE  Session!TypeOK
<1>1. server.made \in Session!Worlds /\ server.storage \in Session!Worlds
  <2>1. IsFiniteSet(Due(calls))
    BY FS_Subset DEF Due, WorldsInv
  <2>2. Cardinality(Due(calls)) \in Nat /\ server.made \in Nat /\ server.storage \in Nat /\ MaxResets \in Nat
    BY <2>1, FS_CardinalityType, SessionFacts, PageAssumptions
  <2> QED  BY <2>2 DEF WorldsInv, Session!Worlds
<1>2. ASSUME NEW t \in Tabs
      PROVE  desk[t] \in [mode : Session!Worlds, login : BOOLEAN, token : Session!Tokens, asking : BOOLEAN,
                          data : Session!Worlds \cup {Session!Unread}, leaving : BOOLEAN]
  <2>1. desk[t] \in TabRows /\ desk[t].mode <= server.made /\ desk[t].data <= server.made
    BY SessionFacts DEF WorldsInv
  <2>2. desk[t].mode \in Session!Worlds /\ desk[t].data \in Session!Worlds \cup {Session!Unread}
    BY <1>1, <2>1, PageAssumptions DEF TabRows, Session!Worlds, Session!Unread
  <2> QED  BY <2>1, <2>2 DEF TabRows, TokenRows, Session!Tokens, Logins
<1>3. \A q \in calls : /\ q.tab \in Tabs /\ q.token \in Session!Tokens
                       /\ q.step \in {"token", "waiting", "sent", "401", "403", "done"}
  BY SessionFacts DEF RequestRows, TokenRows, Session!Tokens, Logins
<1>4. server \in BrowserRows /\ desk \in [Tabs -> TabRows]
  BY DEF SessionInv
<1>5. server \in [cookie : 0 .. MaxSessions, last : 0 .. MaxSessions, revoked : 0 .. MaxSessions,
                  epoch : 0 .. 1, storage : Session!Worlds, made : Session!Worlds, sent : 0 .. MaxRequests]
  BY <1>1, <1>4 DEF BrowserRows, Logins, Numbers
<1> QED  BY <1>2, <1>3, <1>4, <1>5 DEF Session!TypeOK

LEMMA WorldsAlways == Spec => [](page = "session" => SessionInv /\ WorldsInv)
<1>1. Init => (page = "session" => WorldsInv)
  BY WorldsStart DEF Init
<1>2. (page = "session" => SessionInv) /\ (page = "session" => WorldsInv) /\ [Next]_vars
        => (page = "session" => WorldsInv)'
  <2> SUFFICES ASSUME page = "session", SessionInv, WorldsInv, [Next]_vars
               PROVE  WorldsInv'
    BY DEF Next, vars
  <2>1. [Session!Next]_<<server, desk, calls>>
    BY DEF Next, vars
  <2> QED  BY <2>1, WorldsStep
<1> QED  BY <1>1, <1>2, SessionAlways, PTL DEF Spec

-----------------------------------------------------------------------------
(* THE SETTINGS *)

DraftRows == [head : {"standard", "own"}, rows : SUBSET (Fields \cup {DueField}),
              closing : {"standard", "own", ""}]
Steps == 0 .. MaxSteps
RestRows == [plain : Steps, notice : Steps, qr : Steps]
Contents == [draft : DraftRows, mail : Settings!Mails, rest : RestRows]
Texts == DraftRows \cup Settings!Mails
Previews == [kind : {"none", "reminder", "benefit"}, req : Nat,
             status : {"loading", "ok", "error"}, text : Texts]
Forms == [draft : DraftRows, mail : Settings!Mails, secret : Nat, base : Nat, touched : BOOLEAN,
          told : SUBSET Nat, replacing : BOOLEAN, raw : BOOLEAN, preview : Previews,
          rest : RestRows, upload : [rest : RestRows]]
Files == [by : Nat, secret : Nat]
Stored == [by : Nat, draft : DraftRows, mail : Settings!Mails, rest : RestRows]
Servers == [file : Files, used : Files, backup : Files, split : BOOLEAN, rows : Stored]
Sendings == [kind : {"save", "preview"}, by : Nat, req : Nat, of : {"none", "reminder", "benefit"},
             text : Texts, content : Contents, secret : Nat, base : Nat, touched : BOOLEAN,
             owned : BOOLEAN, state : {"sent", "filed", "done", "refused"}]

SettingsTypes ==
  /\ server \in Servers
  /\ shown \in [rows : Stored]
  /\ desk \in Forms
  /\ calls \subseteq Sendings
  /\ changes \in Nat /\ changes <= MaxSteps

(* Edits, saves and previews are numbered, so that what is new has a number   *)
(* that nothing else has.                                                     *)
Numbered ==
  /\ server.file.by <= changes /\ server.backup.by <= changes
  /\ server.rows.by <= changes /\ shown.rows.by <= changes /\ desk.base <= changes
  /\ desk.secret <= changes /\ desk.preview.req <= changes
  /\ \A n \in desk.told : n <= changes
  /\ \A q \in calls : q.by <= changes /\ q.req <= changes /\ q.secret <= changes /\ q.base <= changes

(* While a preview is on screen the form under it cannot be edited, and the   *)
(* one that is on its way has the text of the form.                           *)
PreviewKept ==
  /\ desk.preview.kind # "none" => ~desk.replacing
  /\ (desk.preview.kind # "none" /\ desk.preview.status = "ok") =>
       desk.preview.text = Settings!TextOf(desk.preview.kind)
  /\ \A q \in calls :
       (q.kind = "preview" /\ desk.preview.kind # "none" /\ q.req = desk.preview.req) =>
          q.text = Settings!TextOf(desk.preview.kind)
  /\ \A q \in calls : q.kind = "preview" => q.state = "sent" /\ q.secret = 0

(* One save is written at a time, and what it puts back is what was in use,   *)
(* unless an earlier one could not be put back.                               *)
OneWriter ==
  /\ \A p, q \in calls : p.state = "filed" /\ q.state = "filed" => p = q
  /\ \A q \in calls : q.state = "filed" =>
       /\ server.file.by = q.by
       /\ ~server.split => (server.backup.by = server.rows.by /\ server.used = server.backup)
  /\ ((\A q \in calls : q.state # "filed") /\ ~server.split) =>
       server.file.by = server.rows.by /\ server.used = server.file

(* A secret that a form was told was saved is on its way nowhere, and one     *)
(* that is on its way twice was not typed twice.                              *)
SecretsAreNew ==
  /\ desk.secret # 0 => desk.secret \notin desk.told
  /\ \A q \in calls : q.secret # 0 => q.secret \notin desk.told
  /\ \A q \in calls : q.secret # 0 /\ q.secret = desk.secret => q.owned
  /\ \A p, q \in calls : p.secret # 0 /\ p.secret = q.secret => p = q

(* Nobody knows of a save before its rows are written.                        *)
Unwritten(q) == q.kind = "save" /\ q.state \in {"sent", "filed"}
SavesAreNew ==
  /\ \A p, q \in calls : p.kind = "save" /\ q.kind = "save" /\ p.by = q.by => p = q
  /\ \A p, q \in calls : p.kind = "save" /\ q.kind = "save" /\ p.owned /\ q.owned => p = q
  /\ \A q \in calls : Unwritten(q) =>
       /\ q.by # server.rows.by /\ q.by # shown.rows.by /\ q.by # desk.base
       /\ \A p \in calls : p.base # q.by

(* What is stored, on screen and on its way, as far as it goes back to what   *)
(* is stored now.                                                             *)
PartsAreKept ==
  /\ shown.rows.by = server.rows.by => shown.rows = server.rows
  /\ (desk.base = server.rows.by /\ ~desk.touched) => Settings!Kept(server.rows, Settings!Sent)
  /\ \A q \in calls : (Unwritten(q) /\ q.base = server.rows.by /\ ~q.touched) =>
       Settings!Kept(server.rows, q.content)
  /\ \A q \in calls : (q.kind = "save" /\ q.owned /\ ~desk.touched) => Settings!Sent = q.content
  /\ \A q \in calls : (q.kind = "save" /\ q.state = "done" /\ server.rows.by = q.by) =>
       /\ server.rows.draft = q.content.draft /\ server.rows.mail = q.content.mail
       /\ server.rows.rest = q.content.rest

SettingsInv ==
  /\ SettingsTypes /\ Numbered /\ PreviewKept /\ OneWriter
  /\ SecretsAreNew /\ SavesAreNew /\ PartsAreKept

LEMMA StepBounds == MaxSteps \in Nat /\ 0 \in Steps /\ \A n \in Nat : n < MaxSteps => n + 1 \in Steps
BY PageAssumptions DEF Steps

LEMMA SettingsFields ==
  ASSUME SettingsTypes
  PROVE  /\ server.file \in Files /\ server.used \in Files /\ server.backup \in Files
         /\ server.file.by \in Nat /\ server.backup.by \in Nat /\ server.split \in BOOLEAN
         /\ server.rows \in Stored /\ server.rows.by \in Nat /\ shown.rows \in Stored /\ shown.rows.by \in Nat
         /\ desk.base \in Nat /\ desk.secret \in Nat /\ desk.preview \in Previews
         /\ desk.preview.req \in Nat /\ desk.told \subseteq Nat /\ desk.draft \in DraftRows
         /\ desk.mail \in Settings!Mails /\ desk.rest \in RestRows /\ desk.touched \in BOOLEAN
         /\ Settings!Sent \in Contents
         /\ \A q \in calls : /\ q \in Sendings /\ q.by \in Nat /\ q.req \in Nat /\ q.secret \in Nat
                             /\ q.base \in Nat /\ q.content \in Contents /\ q.text \in Texts
BY DEF SettingsTypes, Servers, Files, Stored, Forms, Previews, Sendings, Settings!Sent, Contents

LEMMA SettingsStart ==
  ASSUME Settings!Init
  PROVE  SettingsInv
<1> DEFINE file == [by |-> 0, secret |-> 0]
<1> DEFINE rows == [by |-> 0, draft |-> Settings!Standard, mail |-> Opaque, rest |-> Settings!NoRest]
<1>1. /\ server = [file |-> file, used |-> file, backup |-> file, split |-> FALSE, rows |-> rows]
      /\ shown = [rows |-> server.rows] /\ desk = Settings!Mounted(shown) /\ calls = {} /\ changes = 0
  BY DEF Settings!Init, Settings!View
<1>2. file \in Files /\ rows \in Stored /\ rows.by = 0
  BY StepBounds DEF Files, Stored, Settings!Standard, DraftRows, Settings!Mails, Settings!NoRest, RestRows
<1> HIDE DEF rows, file
<1>3. /\ server.rows = rows /\ shown.rows = rows /\ server.file = file /\ server.used = file
      /\ server.backup = file
  BY <1>1
<1>4. desk \in Forms
  BY <1>1, <1>2, <1>3, StepBounds DEF Settings!Mounted, Forms, Stored, Settings!DraftFromTemplate,
     DraftRows,
     Settings!Closed, Previews, Texts, Settings!Mails, Settings!Unread, Settings!NoRest, RestRows
<1>5. /\ desk.base = 0 /\ desk.secret = 0 /\ desk.told = {} /\ desk.preview.kind = "none"
      /\ desk.preview.req = 0 /\ ~desk.touched
      /\ Settings!Sent = [draft |-> Settings!DraftFromTemplate(rows.draft),
                           mail |-> rows.mail, rest |-> rows.rest]
  BY <1>1, <1>2, <1>3 DEF Settings!Mounted, Settings!Closed, Settings!Sent
<1>6. Settings!Kept(rows, Settings!Sent)
  BY <1>5, <1>2 DEF Settings!Kept, Settings!DraftFromTemplate, Stored, DraftRows
<1>7. file.by = 0
  BY DEF file
<1>8. SettingsTypes
  BY <1>1, <1>2, <1>4, StepBounds DEF SettingsTypes, Servers
<1> QED  BY <1>1, <1>2, <1>3, <1>5, <1>6, <1>7, <1>8 DEF SettingsInv, Numbered, PreviewKept, OneWriter,
            SecretsAreNew, SavesAreNew, PartsAreKept

(* An edit: the form is touched, and no preview is open.                      *)
LEMMA Editing ==
  ASSUME SettingsInv, NEW d \in Forms, Settings!Edited(d),
         d.base = desk.base, d.told = desk.told, d.preview = desk.preview,
         d.replacing = desk.replacing, d.secret \in {desk.secret, changes + 1}
  PROVE  SettingsInv'
<1> DEFINE e == [d EXCEPT !.touched = TRUE]
<1>1. /\ desk' = e /\ changes' = changes + 1 /\ UNCHANGED <<server, shown, calls>>
      /\ desk.preview.kind = "none" /\ changes < MaxSteps
  BY DEF Settings!Edited, Settings!Modal
<1>2. /\ e \in Forms /\ e.base = desk.base /\ e.told = desk.told /\ e.preview = desk.preview
      /\ e.replacing = desk.replacing /\ e.secret \in {desk.secret, changes + 1} /\ e.touched = TRUE
  BY DEF Forms
<1> HIDE DEF e
<1>3. SettingsTypes'
  BY <1>1, <1>2, StepBounds DEF SettingsInv, SettingsTypes
<1>4. Numbered'
  BY <1>1, <1>2, SettingsFields DEF SettingsInv, Numbered, SettingsTypes
<1>5. PreviewKept' /\ OneWriter'
  BY <1>1, <1>2 DEF SettingsInv, PreviewKept, OneWriter
<1>6. SecretsAreNew'
  BY <1>1, <1>2, SettingsFields DEF SettingsInv, SecretsAreNew, Numbered, SettingsTypes
<1>7. SavesAreNew' /\ PartsAreKept'
  BY <1>1, <1>2 DEF SettingsInv, SavesAreNew, PartsAreKept, Unwritten
<1> QED  BY <1>3, <1>4, <1>5, <1>6, <1>7 DEF SettingsInv

LEMMA FormEdits ==
  ASSUME SettingsInv,
         \/ Settings!EditReminder \/ Settings!EditMail \/ Settings!EditRawMail \/ Settings!OpenRaw
         \/ Settings!TypeSecret \/ Settings!EditChannels \/ Settings!EditOperations
         \/ Settings!EditRedeemPage \/ Settings!ChooseQr
  PROVE  SettingsInv'
<1>0. /\ desk \in Forms /\ changes + 1 \in Nat /\ desk.draft \in DraftRows /\ desk.rest \in RestRows
      /\ desk.mail \in Settings!Mails
  BY SettingsFields DEF SettingsInv, SettingsTypes
<1>1. CASE Settings!EditReminder
  <2>1. ASSUME NEW d, d \in DraftRows, Settings!Edited([desk EXCEPT !.draft = d])
        PROVE  SettingsInv'
    <3>1. [desk EXCEPT !.draft = d] \in Forms
      BY <1>0, <2>1 DEF Forms
    <3> QED  BY <1>0, <2>1, <3>1, Editing DEF Forms
  <2>2. CASE Settings!Edited([desk EXCEPT !.draft.head = "own"])
    <3>1. [desk.draft EXCEPT !.head = "own"] \in DraftRows
      BY <1>0 DEF DraftRows
    <3>2. [desk EXCEPT !.draft.head = "own"] = [desk EXCEPT !.draft = [desk.draft EXCEPT !.head = "own"]]
      BY <1>0 DEF Forms
    <3> QED  BY <2>1, <2>2, <3>1, <3>2
  <2>3. CASE \E f \in Fields :
               Settings!Edited([desk EXCEPT !.draft.rows = IF f \in @ THEN @ \ {f} ELSE @ \cup {f}])
    <3>1. PICK f \in Fields :
            Settings!Edited([desk EXCEPT !.draft.rows = IF f \in @ THEN @ \ {f} ELSE @ \cup {f}])
      BY <2>3
    <3> DEFINE rows == IF f \in desk.draft.rows THEN desk.draft.rows \ {f} ELSE desk.draft.rows \cup {f}
    <3>2. [desk.draft EXCEPT !.rows = rows] \in DraftRows
      BY <1>0 DEF DraftRows
    <3>3. [desk EXCEPT !.draft.rows = IF f \in @ THEN @ \ {f} ELSE @ \cup {f}]
            = [desk EXCEPT !.draft = [desk.draft EXCEPT !.rows = rows]]
      BY <1>0 DEF Forms, DraftRows
    <3> QED  BY <2>1, <3>1, <3>2, <3>3
  <2>4. CASE \E closing \in {"own", ""} : Settings!Edited([desk EXCEPT !.draft.closing = closing])
    <3>1. PICK closing \in {"own", ""} : Settings!Edited([desk EXCEPT !.draft.closing = closing])
      BY <2>4
    <3>2. [desk.draft EXCEPT !.closing = closing] \in DraftRows
      BY <1>0 DEF DraftRows
    <3>3. [desk EXCEPT !.draft.closing = closing]
            = [desk EXCEPT !.draft = [desk.draft EXCEPT !.closing = closing]]
      BY <1>0 DEF Forms
    <3> QED  BY <2>1, <3>1, <3>2, <3>3
  <2> QED  BY <1>1, <2>2, <2>3, <2>4 DEF Settings!EditReminder
<1>2. CASE Settings!EditMail \/ Settings!EditRawMail
  <2>1. ASSUME NEW m \in Settings!Mails, Settings!Edited([desk EXCEPT !.mail = m])
        PROVE  SettingsInv'
    <3>1. [desk EXCEPT !.mail = m] \in Forms
      BY <1>0 DEF Forms
    <3> QED  BY <1>0, <2>1, <3>1, Editing DEF Forms
  <2>2. CASE Settings!EditMail
    <3>1. PICK s \in Scenarios : desk.mail # Opaque /\ Settings!Edited([desk EXCEPT !.mail[s] = "own"])
      BY <2>2 DEF Settings!EditMail
    <3>2. [desk.mail EXCEPT ![s] = "own"] \in Settings!Mails
      BY <1>0, <3>1 DEF Settings!Mails
    <3>3. [desk EXCEPT !.mail[s] = "own"] = [desk EXCEPT !.mail = [desk.mail EXCEPT ![s] = "own"]]
      BY <1>0 DEF Forms
    <3> QED  BY <2>1, <3>1, <3>2, <3>3
  <2> QED  BY <1>2, <2>1, <2>2 DEF Settings!EditRawMail
<1>3. CASE Settings!OpenRaw
  <2>1. [desk EXCEPT !.raw = TRUE] \in Forms
    BY <1>0 DEF Forms
  <2> QED  BY <1>0, <1>3, <2>1, Editing DEF Settings!OpenRaw, Forms
<1>4. CASE Settings!TypeSecret
  <2>1. [desk EXCEPT !.secret = changes + 1] \in Forms
    BY <1>0 DEF Forms
  <2> QED  BY <1>0, <1>4, <2>1, Editing DEF Settings!TypeSecret, Forms
<1>5. CASE Settings!EditChannels \/ Settings!EditOperations \/ Settings!EditRedeemPage
  <2>1. ASSUME NEW r \in RestRows, Settings!Edited([desk EXCEPT !.rest = r])
        PROVE  SettingsInv'
    <3>1. [desk EXCEPT !.rest = r] \in Forms
      BY <1>0 DEF Forms
    <3> QED  BY <1>0, <2>1, <3>1, Editing DEF Forms
  <2>0. changes < MaxSteps
    BY <1>5 DEF Settings!EditChannels, Settings!EditOperations, Settings!EditRedeemPage, Settings!Edited
  <2>a. changes + 1 \in Steps
    BY <2>0, StepBounds DEF SettingsInv, SettingsTypes
  <2>2. /\ [desk.rest EXCEPT !.plain = changes + 1] \in RestRows
        /\ [desk.rest EXCEPT !.notice = changes + 1] \in RestRows
    BY <1>0, <2>a DEF RestRows
  <2>3. /\ [desk EXCEPT !.rest.plain = changes + 1]
              = [desk EXCEPT !.rest = [desk.rest EXCEPT !.plain = changes + 1]]
        /\ [desk EXCEPT !.rest.notice = changes + 1]
              = [desk EXCEPT !.rest = [desk.rest EXCEPT !.notice = changes + 1]]
    BY <1>0 DEF Forms
  <2> QED  BY <1>5, <2>1, <2>2, <2>3
           DEF Settings!EditChannels, Settings!EditOperations, Settings!EditRedeemPage
<1>6. CASE Settings!ChooseQr
  <2> DEFINE u == [rest |-> [desk.rest EXCEPT !.qr = changes + 1]]
  <2>2. Settings!Edited([desk EXCEPT !.upload = u]) /\ changes < MaxSteps
    BY <1>6 DEF Settings!ChooseQr, Settings!Edited
  <2>a. changes + 1 \in Steps
    BY <2>2, StepBounds DEF SettingsInv, SettingsTypes
  <2>1. u \in [rest : RestRows]
    BY <1>0, <2>a DEF RestRows
  <2> HIDE DEF u
  <2>3. [desk EXCEPT !.upload = u] \in Forms
    BY <1>0, <2>1 DEF Forms
  <2> QED  BY <1>0, <2>2, <2>3, Editing DEF Forms
<1> QED  BY <1>1, <1>2, <1>3, <1>4, <1>5, <1>6

(* What happens in the form beside edits.                                     *)
LEMMA FormMoves ==
  ASSUME SettingsInv, NEW d \in Forms, desk' = d, UNCHANGED <<server, shown, calls, changes>>,
         d.base = desk.base, d.told = desk.told, d.secret = desk.secret,
         d.preview.req = desk.preview.req,
         d.preview.kind # "none" =>
            /\ d.preview = desk.preview /\ ~d.replacing
            /\ d.draft = desk.draft /\ d.mail = desk.mail,
         ~d.touched => /\ ~desk.touched /\ d.draft = desk.draft /\ d.mail = desk.mail
                       /\ d.rest = desk.rest
  PROVE  SettingsInv'
<1>1. SettingsTypes' /\ Numbered'
  BY DEF SettingsInv, SettingsTypes, Numbered
<1>2. d.preview.kind # "none" => Settings!TextOf(d.preview.kind)' = Settings!TextOf(d.preview.kind)
  BY DEF Settings!TextOf
<1>3. PreviewKept'
  BY <1>2 DEF SettingsInv, PreviewKept
<1>4. OneWriter' /\ SecretsAreNew' /\ SavesAreNew'
  BY DEF SettingsInv, OneWriter, SecretsAreNew, SavesAreNew, Unwritten
<1>5. ~d.touched => Settings!Sent' = Settings!Sent
  BY DEF Settings!Sent
<1>6. PartsAreKept'
  BY <1>5 DEF SettingsInv, PartsAreKept, Unwritten
<1> QED  BY <1>1, <1>3, <1>4, <1>6 DEF SettingsInv

LEMMA FormSteps ==
  ASSUME SettingsInv,
         Settings!LeaveRaw \/ Settings!AnswerReplace \/ Settings!QrRead \/ Settings!ClosePreview
  PROVE  SettingsInv'
<1>0. /\ desk \in Forms /\ desk.rest \in RestRows /\ desk.preview \in Previews
      /\ desk.preview.kind # "none" => ~desk.replacing
  BY SettingsFields DEF SettingsInv, SettingsTypes, PreviewKept
<1>1. CASE Settings!LeaveRaw
  <2>1. [desk EXCEPT !.raw = FALSE] \in Forms /\ [desk EXCEPT !.replacing = TRUE] \in Forms
    BY <1>0 DEF Forms
  <2>2. desk.preview.kind = "none" /\ UNCHANGED <<server, shown, calls, changes>>
    BY <1>1 DEF Settings!LeaveRaw, Settings!Modal, Settings!StaysOnPage
  <2>3. CASE desk' = [desk EXCEPT !.raw = FALSE]
    BY <1>0, <2>1, <2>2, <2>3, FormMoves DEF Forms
  <2>4. CASE desk' = [desk EXCEPT !.replacing = TRUE]
    BY <1>0, <2>1, <2>2, <2>4, FormMoves DEF Forms
  <2> QED  BY <1>1, <2>3, <2>4 DEF Settings!LeaveRaw
<1>2. CASE Settings!AnswerReplace
  <2> DEFINE d == [desk EXCEPT !.mail = Settings!StandardMail, !.raw = FALSE, !.replacing = FALSE,
                                !.touched = TRUE]
  <2> DEFINE e == [desk EXCEPT !.replacing = FALSE]
  <2>1. d \in Forms /\ e \in Forms
    BY <1>0 DEF Forms, Settings!Mails, Settings!StandardMail
  <2>2. desk.preview.kind = "none" /\ UNCHANGED <<server, shown, calls, changes>> /\ desk' \in {d, e}
    BY <1>0, <1>2 DEF Settings!AnswerReplace, Settings!StaysOnPage
  <2>3. /\ d.base = desk.base /\ d.told = desk.told /\ d.secret = desk.secret /\ d.preview = desk.preview
        /\ e.base = desk.base /\ e.told = desk.told /\ e.secret = desk.secret /\ e.preview = desk.preview
        /\ d.touched /\ e.touched = desk.touched /\ e.draft = desk.draft /\ e.mail = desk.mail
        /\ e.rest = desk.rest
    BY <1>0 DEF Forms
  <2> HIDE DEF d, e
  <2> QED  BY <2>1, <2>2, <2>3, FormMoves
<1>3. CASE Settings!QrRead
  <2> DEFINE r == [desk.rest EXCEPT !.qr = desk.upload.rest.qr, !.notice = desk.upload.rest.notice]
  <2> DEFINE d == [desk EXCEPT !.rest = r, !.upload = Settings!Unread, !.touched = TRUE]
  <2>1. r \in RestRows /\ Settings!Unread \in [rest : RestRows]
    BY <1>0, StepBounds DEF Forms, RestRows, Settings!Unread, Settings!NoRest
  <2>2. desk' = d /\ UNCHANGED <<server, shown, calls, changes>>
    BY <1>0, <1>3 DEF Settings!QrRead, Settings!StaysOnPage, Forms
  <2> HIDE DEF r
  <2>3. d \in Forms
    BY <1>0, <2>1 DEF Forms
  <2>4. /\ d.base = desk.base /\ d.told = desk.told /\ d.secret = desk.secret /\ d.preview = desk.preview
        /\ d.touched /\ d.draft = desk.draft /\ d.mail = desk.mail /\ d.replacing = desk.replacing
    BY <1>0 DEF Forms
  <2> HIDE DEF d
  <2> QED  BY <1>0, <2>2, <2>3, <2>4, FormMoves
<1>4. CASE Settings!ClosePreview
  <2> DEFINE v == [desk.preview EXCEPT !.kind = "none"]
  <2> DEFINE d == [desk EXCEPT !.preview = v]
  <2>1. v \in Previews /\ v.req = desk.preview.req /\ v.kind = "none"
    BY <1>0 DEF Previews
  <2>2. desk' = d /\ UNCHANGED <<server, shown, calls, changes>>
    BY <1>0, <1>4 DEF Settings!ClosePreview, Settings!StaysOnPage, Forms
  <2> HIDE DEF v
  <2>3. d \in Forms
    BY <1>0, <2>1 DEF Forms
  <2>4. /\ d.base = desk.base /\ d.told = desk.told /\ d.secret = desk.secret /\ d.preview = v
        /\ d.touched = desk.touched /\ d.draft = desk.draft /\ d.mail = desk.mail
        /\ d.replacing = desk.replacing /\ d.rest = desk.rest
    BY <1>0 DEF Forms
  <2> HIDE DEF d
  <2> QED  BY <1>0, <2>1, <2>2, <2>3, <2>4, FormMoves
<1> QED  BY <1>1, <1>2, <1>3, <1>4

(* A call is added: what is saved or previewed is what is in the form.        *)
LEMMA NewCall ==
  ASSUME SettingsTypes, NEW kind \in {"save", "preview"}, NEW c, c = Settings!Call(kind)
  PROVE  /\ c \in Sendings /\ c.kind = kind /\ c.by = 0 /\ c.req = 0 /\ c.secret = 0 /\ c.base = desk.base
         /\ c.touched = desk.touched /\ c.owned = TRUE /\ c.state = "sent" /\ c.content = Settings!Sent
<1>1. desk.base \in Nat /\ desk.touched \in BOOLEAN /\ Settings!Sent \in Contents
      /\ Opaque \in Texts /\ 0 \in Nat
  BY SettingsFields DEF Texts, Settings!Mails
<1> QED  BY <1>1 DEF Settings!Call, Sendings

LEMMA Saving ==
  ASSUME SettingsInv, Settings!HandleSave
  PROVE  SettingsInv'
<1> DEFINE q == [Settings!Call("save") EXCEPT !.by = changes + 1, !.secret = desk.secret]
<1>1. /\ calls' = calls \cup {q} /\ changes' = changes + 1 /\ UNCHANGED <<server, shown, desk>>
      /\ desk.preview.kind = "none" /\ \A p \in calls : p.kind = "save" => ~p.owned
      /\ changes < MaxSteps
  BY DEF Settings!HandleSave, Settings!Modal, Settings!Saving
<1>2. desk \in Forms /\ changes \in Nat
  BY DEF SettingsInv, SettingsTypes
<1> DEFINE c == Settings!Call("save")
<1>a. /\ c \in Sendings /\ c.kind = "save" /\ c.req = 0 /\ c.base = desk.base
      /\ c.touched = desk.touched /\ c.owned = TRUE /\ c.state = "sent" /\ c.content = Settings!Sent
  BY NewCall DEF SettingsInv
<1>b. q = [c EXCEPT !.by = changes + 1, !.secret = desk.secret] /\ desk.secret \in Nat /\ changes + 1 \in Nat
  BY <1>2, SettingsFields DEF SettingsInv
<1> HIDE DEF c, q
<1>3. /\ q \in Sendings /\ q.kind = "save" /\ q.by = changes + 1
      /\ q.secret = desk.secret /\ q.base = desk.base
      /\ q.touched = desk.touched /\ q.owned = TRUE /\ q.state = "sent" /\ q.content = Settings!Sent
      /\ q.req = 0
  BY <1>a, <1>b DEF Sendings
<1>4. SettingsTypes' /\ Numbered'
  BY <1>1, <1>2, <1>3, SettingsFields, StepBounds DEF SettingsInv, SettingsTypes, Numbered
<1>5. PreviewKept' /\ OneWriter'
  BY <1>1, <1>3 DEF SettingsInv, PreviewKept, OneWriter
<1>6. SecretsAreNew'
  <2>1. \A p \in calls : p.secret # 0 => p.secret # q.secret
    BY <1>1, <1>3, SettingsFields DEF SettingsInv, SecretsAreNew, PreviewKept, Sendings
  <2> QED  BY <1>1, <1>3, <2>1 DEF SettingsInv, SecretsAreNew
<1>7. SavesAreNew'
  <2>1. /\ \A p \in calls : p.by # q.by /\ p.base # q.by
        /\ q.by # server.rows.by /\ q.by # shown.rows.by /\ q.by # desk.base
    BY <1>2, <1>3, SettingsFields DEF SettingsInv, Numbered
  <2> QED  BY <1>1, <1>3, <2>1 DEF SettingsInv, SavesAreNew, Unwritten
<1>8. PartsAreKept'
  BY <1>1, <1>3 DEF SettingsInv, PartsAreKept, Unwritten, Settings!Sent
<1> QED  BY <1>4, <1>5, <1>6, <1>7, <1>8 DEF SettingsInv

LEMMA Previewing ==
  ASSUME SettingsInv, Settings!OpenPreview
  PROVE  SettingsInv'
<1>0. PICK kind \in {"reminder", "benefit"} :
        /\ desk.preview.kind = "none" /\ ~desk.replacing
        /\ changes' = changes + 1
        /\ desk' = [desk EXCEPT !.preview = [kind |-> kind, req |-> changes + 1,
                                             status |-> "loading", text |-> Opaque]]
        /\ calls' = calls \cup {[Settings!Call("preview") EXCEPT !.req = changes + 1, !.of = kind,
                                                                 !.text = Settings!TextOf(kind)]}
        /\ UNCHANGED <<server, shown>> /\ changes < MaxSteps
  BY DEF Settings!OpenPreview, Settings!Modal
<1> DEFINE q == [Settings!Call("preview") EXCEPT !.req = changes + 1, !.of = kind,
                                                 !.text = Settings!TextOf(kind)]
<1> DEFINE v == [kind |-> kind, req |-> changes + 1, status |-> "loading", text |-> Opaque]
<1>1. calls' = calls \cup {q} /\ desk' = [desk EXCEPT !.preview = v]
  BY <1>0
<1>2. desk \in Forms /\ changes \in Nat /\ Settings!TextOf(kind) \in Texts
  BY <1>0, SettingsFields DEF SettingsInv, SettingsTypes, Settings!TextOf, Texts
<1> DEFINE c == Settings!Call("preview")
<1>a. /\ c \in Sendings /\ c.kind = "preview" /\ c.by = 0 /\ c.secret = 0
      /\ c.base = desk.base /\ c.state = "sent"
  BY NewCall DEF SettingsInv
<1> DEFINE n == changes + 1
<1>b. /\ q = [c EXCEPT !.req = n, !.of = kind, !.text = Settings!TextOf(kind)]
      /\ n \in Nat
  BY <1>2
<1> HIDE DEF c, q, n
<1>c. /\ q \in Sendings /\ q.kind = "preview" /\ q.by = 0 /\ q.secret = 0 /\ q.base = desk.base
      /\ q.state = "sent" /\ q.req = n /\ q.text = Settings!TextOf(kind)
  BY <1>a, <1>b, <1>0, <1>2 DEF Sendings
<1>3. /\ q \in Sendings /\ q.kind = "preview" /\ q.by = 0 /\ q.secret = 0 /\ q.base = desk.base
      /\ q.state = "sent" /\ q.req = changes + 1 /\ q.text = Settings!TextOf(kind)
  BY <1>c DEF n
<1>4. v \in Previews /\ v.kind = kind /\ v.req = changes + 1 /\ v.status = "loading"
  BY <1>0, <1>2 DEF Previews, Texts, Settings!Mails
<1> HIDE DEF v
<1>5. /\ desk' \in Forms /\ desk'.preview = v /\ desk'.replacing = desk.replacing /\ desk'.base = desk.base
      /\ desk'.secret = desk.secret /\ desk'.told = desk.told /\ desk'.touched = desk.touched
      /\ desk'.draft = desk.draft /\ desk'.mail = desk.mail /\ desk'.rest = desk.rest
  BY <1>1, <1>2, <1>4 DEF Forms
<1>6. SettingsTypes' /\ Numbered'
  BY <1>0, <1>1, <1>2, <1>3, <1>4, <1>5, SettingsFields, StepBounds DEF SettingsInv, SettingsTypes, Numbered
<1>7. PreviewKept'
  <2>1. Settings!TextOf(kind)' = Settings!TextOf(kind)
    BY <1>5 DEF Settings!TextOf
  <2>2. \A p \in calls : p.req # changes + 1
    BY <1>2, SettingsFields DEF SettingsInv, Numbered
  <2> QED  BY <1>0, <1>1, <1>3, <1>4, <1>5, <2>1, <2>2 DEF SettingsInv, PreviewKept
<1>8. OneWriter' /\ SecretsAreNew'
  BY <1>0, <1>1, <1>3, <1>5 DEF SettingsInv, OneWriter, SecretsAreNew
<1>9. SavesAreNew'
  BY <1>0, <1>1, <1>3, <1>5 DEF SettingsInv, SavesAreNew, Unwritten
<1>10. PartsAreKept'
  <2>1. Settings!Sent' = Settings!Sent
    BY <1>5 DEF Settings!Sent
  <2> QED  BY <1>0, <1>1, <1>3, <1>5, <2>1 DEF SettingsInv, PartsAreKept, Unwritten
<1> QED  BY <1>6, <1>7, <1>8, <1>9, <1>10 DEF SettingsInv

(* A call is answered.                                                        *)
LEMMA PreviewAnswers ==
  ASSUME SettingsInv, NEW q \in calls, Settings!PreviewAnswered(q)
  PROVE  SettingsInv'
<1>1. q.kind = "preview" /\ calls' = calls \ {q} /\ UNCHANGED <<server, shown, changes>> /\ q.state = "sent"
  BY DEF Settings!PreviewAnswered, SettingsInv, PreviewKept
<1>2. desk \in Forms /\ desk.preview \in Previews /\ q.text \in Texts
  BY SettingsFields DEF SettingsInv, SettingsTypes
<1>3. \E v \in Previews :
        /\ desk' = [desk EXCEPT !.preview = v]
        /\ v.req = desk.preview.req /\ v.kind = desk.preview.kind
        /\ v.status = "ok" => \/ v = desk.preview
                              \/ v.text = q.text /\ q.req = desk.preview.req
  <2> DEFINE v == [desk.preview EXCEPT !.status = "ok", !.text = q.text]
  <2> DEFINE w == [desk.preview EXCEPT !.status = "error"]
  <2>1. v \in Previews /\ w \in Previews
    BY <1>2 DEF Previews
  <2>2. /\ v.req = desk.preview.req /\ v.kind = desk.preview.kind /\ v.text = q.text
        /\ w.req = desk.preview.req /\ w.kind = desk.preview.kind /\ w.status = "error"
    BY <1>2 DEF Previews
  <2>3. \/ desk' = [desk EXCEPT !.preview = v] /\ q.req = desk.preview.req
        \/ desk' = [desk EXCEPT !.preview = w]
        \/ desk' = [desk EXCEPT !.preview = desk.preview]
    BY <1>2 DEF Settings!PreviewAnswered, Forms, Previews
  <2> HIDE DEF v, w
  <2> QED  BY <1>2, <2>1, <2>2, <2>3
<1>4. PICK v \in Previews :
        /\ desk' = [desk EXCEPT !.preview = v]
        /\ v.req = desk.preview.req /\ v.kind = desk.preview.kind
        /\ v.status = "ok" => \/ v = desk.preview
                              \/ v.text = q.text /\ q.req = desk.preview.req
  BY <1>3
<1>5. /\ desk' \in Forms /\ desk'.preview = v /\ desk'.replacing = desk.replacing /\ desk'.base = desk.base
      /\ desk'.secret = desk.secret /\ desk'.told = desk.told /\ desk'.touched = desk.touched
      /\ desk'.draft = desk.draft /\ desk'.mail = desk.mail /\ desk'.rest = desk.rest
  BY <1>2, <1>4 DEF Forms
<1>6. SettingsTypes' /\ Numbered'
  BY <1>1, <1>4, <1>5 DEF SettingsInv, SettingsTypes, Numbered
<1>7. PreviewKept'
  <2>1. Settings!TextOf(desk.preview.kind)' = Settings!TextOf(desk.preview.kind)
    BY <1>4, <1>5 DEF Settings!TextOf
  <2> QED  BY <1>1, <1>4, <1>5, <2>1 DEF SettingsInv, PreviewKept
<1>8. OneWriter' /\ SecretsAreNew'
  BY <1>1, <1>5 DEF SettingsInv, OneWriter, SecretsAreNew
<1>9. SavesAreNew'
  BY <1>1, <1>5 DEF SettingsInv, SavesAreNew, Unwritten
<1>10. PartsAreKept'
  <2>1. Settings!Sent' = Settings!Sent
    BY <1>5 DEF Settings!Sent
  <2> QED  BY <1>1, <1>5, <2>1 DEF SettingsInv, PartsAreKept, Unwritten
<1> QED  BY <1>6, <1>7, <1>8, <1>9, <1>10 DEF SettingsInv

(* A call that is gone takes nothing with it.                                 *)
LEMMA SaveAnswers ==
  ASSUME SettingsInv, NEW q \in calls, Settings!SaveAnswered(q)
  PROVE  SettingsInv'
<1>1. /\ q.kind = "save" /\ q.state \in {"done", "refused"}
      /\ calls' = calls \ {q} /\ UNCHANGED <<server, shown, changes>>
  BY DEF Settings!SaveAnswered
<1>2. desk \in Forms /\ q.by \in Nat /\ q.secret \in Nat
  BY SettingsFields DEF SettingsInv, SettingsTypes
<1>3. CASE ~(q.owned /\ q.state = "done")
  <2>1. desk' = desk /\ Settings!Sent' = Settings!Sent
    BY <1>3 DEF Settings!SaveAnswered, Settings!Sent
  <2>2. \A k : Settings!TextOf(k)' = Settings!TextOf(k)
    BY <2>1 DEF Settings!TextOf
  <2>3. SettingsTypes' /\ Numbered' /\ OneWriter' /\ SecretsAreNew' /\ SavesAreNew'
    BY <1>1, <2>1 DEF SettingsInv, SettingsTypes, Numbered, OneWriter, SecretsAreNew, SavesAreNew, Unwritten
  <2>4. PreviewKept' /\ PartsAreKept'
    BY <1>1, <2>1, <2>2 DEF SettingsInv, PreviewKept, PartsAreKept, Unwritten
  <2> QED  BY <2>3, <2>4 DEF SettingsInv
<1>4. CASE q.owned /\ q.state = "done"
  <2> DEFINE touched == desk.touched /\ Settings!Sent # q.content
  <2> DEFINE told == desk.told \cup {q.secret}
  <2>1. desk' = [desk EXCEPT !.secret = 0, !.base = q.by, !.touched = touched, !.told = told]
    BY <1>2, <1>4 DEF Settings!SaveAnswered, Forms
  <2>2. touched \in BOOLEAN /\ told \in SUBSET Nat
    BY <1>2 DEF Forms
  <2>3. /\ \A n \in told : n \in desk.told \/ n = q.secret
        /\ (~touched) => (~desk.touched \/ Settings!Sent = q.content)
    OBVIOUS
  <2> HIDE DEF touched, told
  <2>4. /\ desk' \in Forms /\ desk'.preview = desk.preview /\ desk'.replacing = desk.replacing
        /\ desk'.base = q.by /\ desk'.secret = 0 /\ desk'.told = told /\ desk'.touched = touched
        /\ desk'.draft = desk.draft /\ desk'.mail = desk.mail /\ desk'.rest = desk.rest
    BY <1>2, <2>1, <2>2 DEF Forms
  <2>5. SettingsTypes' /\ Numbered'
    BY <1>1, <1>2, <2>3, <2>4, SettingsFields DEF SettingsInv, SettingsTypes, Numbered
  <2>6. PreviewKept' /\ OneWriter'
    <3>1. \A k : Settings!TextOf(k)' = Settings!TextOf(k)
      BY <2>4 DEF Settings!TextOf
    <3> QED  BY <1>1, <2>4, <3>1 DEF SettingsInv, PreviewKept, OneWriter
  <2>7. SecretsAreNew'
    BY <1>1, <2>3, <2>4 DEF SettingsInv, SecretsAreNew
  <2>8. SavesAreNew'
    BY <1>1, <2>4 DEF SettingsInv, SavesAreNew, Unwritten
  <2>9. PartsAreKept'
    <3>1. Settings!Sent' = Settings!Sent
      BY <2>4 DEF Settings!Sent
    <3>2. (server.rows.by = q.by /\ ~touched) => Settings!Kept(server.rows, Settings!Sent)
      <4>1. ~touched => Settings!Sent = q.content
        BY <1>1, <1>4, <2>3 DEF SettingsInv, PartsAreKept
      <4> QED  BY <1>1, <1>4, <4>1 DEF SettingsInv, PartsAreKept, Settings!Kept
    <3>3. \A p \in calls' : ~(p.kind = "save" /\ p.owned)
      BY <1>1, <1>4 DEF SettingsInv, SavesAreNew
    <3> QED  BY <1>1, <2>4, <3>1, <3>2, <3>3 DEF SettingsInv, PartsAreKept, Unwritten
  <2> QED  BY <2>5, <2>6, <2>7, <2>8, <2>9 DEF SettingsInv
<1> QED  BY <1>3, <1>4

(* The server moves a save on.                                                *)
LEMMA Moved ==
  ASSUME SettingsInv, NEW q \in calls, q.kind = "save", NEW state \in {"filed", "done", "refused"},
         Settings!Settled(q, state)
  PROVE  \E r \in Sendings :
           /\ calls' = (calls \ {q}) \cup {r} /\ r.state = state
           /\ r.kind = q.kind /\ r.by = q.by /\ r.req = q.req /\ r.secret = q.secret /\ r.base = q.base
           /\ r.touched = q.touched /\ r.owned = q.owned /\ r.content = q.content
<1> DEFINE r == [q EXCEPT !.state = state]
<1>1. q \in Sendings
  BY SettingsFields DEF SettingsInv
<1>2. /\ r \in Sendings /\ r.state = state
      /\ r.kind = q.kind /\ r.by = q.by /\ r.req = q.req /\ r.secret = q.secret /\ r.base = q.base
      /\ r.touched = q.touched /\ r.owned = q.owned /\ r.content = q.content
  BY <1>1 DEF Sendings
<1>3. calls' = (calls \ {q}) \cup {r}
  BY DEF Settings!Settled
<1> HIDE DEF r
<1> QED  BY <1>2, <1>3

LEMMA ServerSteps ==
  ASSUME SettingsInv, NEW q \in calls,
         \/ Settings!WriteFile(q) \/ Settings!WriteRows(q) \/ Settings!RollBack(q)
         \/ Settings!RollBackFails(q) \/ Settings!StopsBeforeRows(q) \/ Settings!SaveFails(q)
  PROVE  SettingsInv'
<1>0. /\ q.kind = "save" /\ UNCHANGED <<shown, desk, changes>>
      /\ server \in Servers
      /\ q.by \in Nat /\ q.secret \in Nat /\ q.content \in Contents /\ q.by <= changes
      /\ server.file \in Files /\ server.backup \in Files /\ server.rows \in Stored /\ server.rows.by \in Nat
  <2>1. UNCHANGED <<shown, desk, changes>>
    BY DEF Settings!WriteFile, Settings!WriteRows, Settings!RollBack, Settings!RollBackFails,
           Settings!StopsBeforeRows, Settings!SaveFails
  <2>2. q.kind = "save"
    <3>1. q.kind = "save" \/ q.state = "filed"
      BY DEF Settings!WriteFile, Settings!WriteRows, Settings!RollBack, Settings!RollBackFails,
             Settings!StopsBeforeRows, Settings!SaveFails
    <3> QED  BY <3>1, SettingsFields DEF SettingsInv, PreviewKept, Sendings
  <2>3. q.by <= changes /\ server \in Servers
    BY DEF SettingsInv, SettingsTypes, Numbered
  <2> QED  BY <2>1, <2>2, <2>3, SettingsFields DEF SettingsInv
<1>a. Settings!Sent' = Settings!Sent /\ \A k : Settings!TextOf(k)' = Settings!TextOf(k)
  BY <1>0 DEF Settings!Sent, Settings!TextOf
<1>1. CASE Settings!WriteFile(q)
  <2>1. PICK r \in Sendings :
          /\ calls' = (calls \ {q}) \cup {r} /\ r.state = "filed"
          /\ r.kind = q.kind /\ r.by = q.by /\ r.req = q.req /\ r.secret = q.secret /\ r.base = q.base
          /\ r.touched = q.touched /\ r.owned = q.owned /\ r.content = q.content
    BY <1>0, <1>1, Moved DEF Settings!WriteFile
  <2>2. PICK file \in Files :
          /\ file.by = q.by /\ server' = [server EXCEPT !.file = file, !.backup = server.file]
    <3> DEFINE secret == IF q.secret = 0 THEN server.file.secret ELSE q.secret
    <3> DEFINE file == [by |-> q.by, secret |-> secret]
    <3>1. server' = [server EXCEPT !.file = file, !.backup = server.file]
      BY <1>0, <1>1 DEF Settings!WriteFile
    <3>2. secret \in Nat
      BY <1>0 DEF Files
    <3> HIDE DEF secret
    <3>3. file \in Files /\ file.by = q.by
      BY <1>0, <3>2 DEF Files
    <3> HIDE DEF file
    <3> QED  BY <3>1, <3>3
  <2>3. /\ server' \in Servers
        /\ server'.rows = server.rows /\ server'.file.by = q.by
        /\ server'.backup = server.file /\ server'.used = server.used
        /\ server'.split = server.split
    BY <1>0, <2>2 DEF Servers
  <2>4. /\ q.state = "sent" /\ \A p \in calls : p.state # "filed"
        /\ ~server.split => (server.file.by = server.rows.by /\ server.used = server.file)
    BY <1>1 DEF Settings!WriteFile, Settings!Busy, SettingsInv, OneWriter
  <2>5. SettingsTypes' /\ Numbered'
    BY <1>0, <2>1, <2>3 DEF SettingsInv, SettingsTypes, Numbered
  <2>6. PreviewKept' /\ SecretsAreNew'
    BY <1>0, <1>a, <2>1, <2>3 DEF SettingsInv, PreviewKept, SecretsAreNew
  <2>7. OneWriter'
    BY <2>1, <2>3, <2>4 DEF OneWriter
  <2>8. SavesAreNew' /\ PartsAreKept'
    BY <1>0, <1>a, <2>1, <2>3, <2>4 DEF SettingsInv, SavesAreNew, PartsAreKept, Unwritten
  <2> QED  BY <2>5, <2>6, <2>7, <2>8 DEF SettingsInv
<1>2. CASE Settings!WriteRows(q)
  <2>1. PICK r \in Sendings :
          /\ calls' = (calls \ {q}) \cup {r} /\ r.state = "done"
          /\ r.kind = q.kind /\ r.by = q.by /\ r.req = q.req /\ r.secret = q.secret /\ r.base = q.base
          /\ r.touched = q.touched /\ r.owned = q.owned /\ r.content = q.content
    BY <1>0, <1>2, Moved DEF Settings!WriteRows
  <2>2. PICK rows \in Stored :
          /\ server' = [server EXCEPT !.rows = rows, !.used = server.file, !.split = FALSE]
          /\ rows.by = q.by /\ rows.draft = q.content.draft /\ rows.mail = q.content.mail
          /\ rows.rest = q.content.rest
    <3> DEFINE rows == [by |-> q.by, draft |-> q.content.draft, mail |-> q.content.mail,
                       rest |-> q.content.rest]
    <3>1. server' = [server EXCEPT !.rows = rows, !.used = server.file, !.split = FALSE]
      BY <1>2 DEF Settings!WriteRows
    <3>2. rows \in Stored
      BY <1>0 DEF Stored, Contents
    <3> QED  BY <3>1, <3>2
  <2>3. /\ server' \in Servers
        /\ server'.rows = rows /\ server'.file = server.file /\ server'.used = server.file
        /\ server'.backup = server.backup
    BY <1>0, <2>2 DEF Servers
  <2>4. /\ q.state = "filed" /\ server.file.by = q.by
        /\ \A p \in calls : p.state = "filed" => p = q
        /\ Unwritten(q)
    BY <1>0, <1>2 DEF Settings!WriteRows, SettingsInv, OneWriter, Unwritten
  <2>5. SettingsTypes' /\ Numbered'
    BY <1>0, <2>1, <2>2, <2>3 DEF SettingsInv, SettingsTypes, Numbered
  <2>6. PreviewKept' /\ SecretsAreNew'
    BY <1>0, <1>a, <2>1, <2>3 DEF SettingsInv, PreviewKept, SecretsAreNew
  <2>7. OneWriter'
    BY <2>1, <2>2, <2>3, <2>4 DEF OneWriter
  <2>8. SavesAreNew'
    BY <1>0, <2>1, <2>2, <2>3 DEF SettingsInv, SavesAreNew, Unwritten
  <2>9. PartsAreKept'
    <3>1. /\ q.by # shown.rows.by /\ q.by # desk.base /\ \A p \in calls : p.base # q.by
          /\ \A p \in calls : p.kind = "save" /\ p.by = q.by => p = q
      BY <1>0, <2>4 DEF SettingsInv, SavesAreNew
    <3> QED  BY <1>0, <1>a, <2>1, <2>2, <2>3, <3>1 DEF SettingsInv, PartsAreKept, Unwritten
  <2> QED  BY <2>5, <2>6, <2>7, <2>8, <2>9 DEF SettingsInv
<1>3. CASE Settings!RollBack(q)
  <2>1. PICK r \in Sendings :
          /\ calls' = (calls \ {q}) \cup {r} /\ r.state = "refused"
          /\ r.kind = q.kind /\ r.by = q.by /\ r.req = q.req /\ r.secret = q.secret /\ r.base = q.base
          /\ r.touched = q.touched /\ r.owned = q.owned /\ r.content = q.content
    BY <1>0, <1>3, Moved DEF Settings!RollBack
  <2>3. /\ server' \in Servers
        /\ server'.rows = server.rows /\ server'.file = server.backup /\ server'.used = server.used
        /\ server'.backup = server.backup /\ server'.split = server.split
    BY <1>0, <1>3 DEF Settings!RollBack, Servers
  <2>4. /\ q.state = "filed" /\ \A p \in calls : p.state = "filed" => p = q
        /\ ~server.split => (server.backup.by = server.rows.by /\ server.used = server.backup)
    BY <1>3 DEF Settings!RollBack, SettingsInv, OneWriter
  <2>5. SettingsTypes' /\ Numbered'
    BY <1>0, <2>1, <2>3 DEF SettingsInv, SettingsTypes, Numbered
  <2>6. PreviewKept' /\ SecretsAreNew'
    BY <1>0, <1>a, <2>1, <2>3 DEF SettingsInv, PreviewKept, SecretsAreNew
  <2>7. OneWriter'
    BY <2>1, <2>3, <2>4 DEF OneWriter
  <2>8. SavesAreNew' /\ PartsAreKept'
    BY <1>0, <1>a, <2>1, <2>3 DEF SettingsInv, SavesAreNew, PartsAreKept, Unwritten
  <2> QED  BY <2>5, <2>6, <2>7, <2>8 DEF SettingsInv
<1>4. CASE Settings!SaveFails(q)
  <2>1. PICK r \in Sendings :
          /\ calls' = (calls \ {q}) \cup {r} /\ r.state = "refused"
          /\ r.kind = q.kind /\ r.by = q.by /\ r.req = q.req /\ r.secret = q.secret /\ r.base = q.base
          /\ r.touched = q.touched /\ r.owned = q.owned /\ r.content = q.content
    BY <1>0, <1>4, Moved DEF Settings!SaveFails
  <2>2. q.state \in {"sent", "done"} /\ server' = server
    BY <1>4 DEF Settings!SaveFails
  <2>5. SettingsTypes' /\ Numbered'
    BY <1>0, <2>1, <2>2 DEF SettingsInv, SettingsTypes, Numbered
  <2>6. PreviewKept' /\ SecretsAreNew'
    BY <1>0, <1>a, <2>1, <2>2 DEF SettingsInv, PreviewKept, SecretsAreNew
  <2>7. OneWriter'
    BY <2>1, <2>2 DEF SettingsInv, OneWriter
  <2>8. SavesAreNew' /\ PartsAreKept'
    BY <1>0, <1>a, <2>1, <2>2 DEF SettingsInv, SavesAreNew, PartsAreKept, Unwritten
  <2> QED  BY <2>5, <2>6, <2>7, <2>8 DEF SettingsInv
<1>5. CASE Settings!RollBackFails(q) \/ Settings!StopsBeforeRows(q)
  <2>1. PICK r \in Sendings :
          /\ calls' = (calls \ {q}) \cup {r} /\ r.state = "refused"
          /\ r.kind = q.kind /\ r.by = q.by /\ r.req = q.req /\ r.secret = q.secret /\ r.base = q.base
          /\ r.touched = q.touched /\ r.owned = q.owned /\ r.content = q.content
    BY <1>0, <1>5, Moved DEF Settings!RollBackFails, Settings!StopsBeforeRows
  <2>2. server.used \in Files
    BY SettingsFields DEF SettingsInv
  <2>3. /\ server' \in Servers /\ server'.rows = server.rows /\ server'.file = server.file
        /\ server'.backup = server.backup /\ server'.split = TRUE
    BY <1>0, <1>5, <2>2 DEF Settings!RollBackFails, Settings!StopsBeforeRows, Servers
  <2>4. q.state = "filed" /\ \A p \in calls : p.state = "filed" => p = q
    BY <1>5 DEF Settings!RollBackFails, Settings!StopsBeforeRows, SettingsInv, OneWriter
  <2>5. SettingsTypes' /\ Numbered'
    BY <1>0, <2>1, <2>3 DEF SettingsInv, SettingsTypes, Numbered
  <2>6. PreviewKept' /\ SecretsAreNew'
    BY <1>0, <1>a, <2>1, <2>3 DEF SettingsInv, PreviewKept, SecretsAreNew
  <2>7. OneWriter'
    BY <2>1, <2>3, <2>4 DEF OneWriter
  <2>8. SavesAreNew' /\ PartsAreKept'
    BY <1>0, <1>a, <2>1, <2>3, <2>4 DEF SettingsInv, SavesAreNew, PartsAreKept, Unwritten
  <2> QED  BY <2>5, <2>6, <2>7, <2>8 DEF SettingsInv
<1> QED  BY <1>1, <1>2, <1>3, <1>4, <1>5

(* A server that starts anew uses the file, which is that of the rows already *)
(* unless the two differ.                                                     *)
LEMMA Restarting ==
  ASSUME SettingsInv, Settings!Restart
  PROVE  SettingsInv'
<1>1. /\ UNCHANGED <<shown, desk, calls, changes>> /\ \A q \in calls : q.state # "filed"
      /\ server' = [server EXCEPT !.used = server.file]
  BY DEF Settings!Restart, Settings!Busy
<1>2. server \in Servers /\ server.file \in Files
  BY SettingsFields DEF SettingsInv, SettingsTypes
<1>3. /\ server' \in Servers /\ server'.rows = server.rows /\ server'.file = server.file
      /\ server'.backup = server.backup /\ server'.split = server.split /\ server'.used = server.file
  BY <1>1, <1>2 DEF Servers
<1>4. Settings!Sent' = Settings!Sent /\ \A k : Settings!TextOf(k)' = Settings!TextOf(k)
  BY <1>1 DEF Settings!Sent, Settings!TextOf
<1>5. SettingsTypes' /\ Numbered' /\ SecretsAreNew'
  BY <1>1, <1>3 DEF SettingsInv, SettingsTypes, Numbered, SecretsAreNew
<1>6. OneWriter'
  BY <1>1, <1>3 DEF SettingsInv, OneWriter
<1>7. PreviewKept' /\ SavesAreNew' /\ PartsAreKept'
  BY <1>1, <1>3, <1>4 DEF SettingsInv, PreviewKept, SavesAreNew, PartsAreKept, Unwritten
<1> QED  BY <1>5, <1>6, <1>7 DEF SettingsInv

Unowned(q) == [q EXCEPT !.owned = FALSE]
Disowned(p, q) ==
  /\ q.kind = "save" /\ p.kind = "save" /\ p = Unowned(q) /\ p.owned = FALSE
  /\ p.by = q.by /\ p.req = q.req /\ p.secret = q.secret /\ p.base = q.base
  /\ p.touched = q.touched /\ p.state = q.state /\ p.content = q.content

(* The page is left and opened again: its form is that of what was read last, *)
(* and nobody waits for what the old one has sent.                            *)
LEMMA Reopening ==
  ASSUME SettingsInv, Settings!Reopen
  PROVE  SettingsInv'
<1> DEFINE d == [Settings!Mounted(shown) EXCEPT !.told = desk.told]
<1>1. /\ desk' = d /\ UNCHANGED <<server, shown, changes>>
      /\ calls' = {[q EXCEPT !.owned = FALSE] : q \in {c \in calls : c.kind = "save"}}
  BY DEF Settings!Reopen
<1>2. shown.rows \in Stored /\ desk.told \in SUBSET Nat /\ shown.rows.by \in Nat
  BY SettingsFields DEF SettingsInv
<1>3. /\ d \in Forms
      /\ d.base = shown.rows.by /\ d.secret = 0 /\ d.told = desk.told /\ d.preview.kind = "none"
      /\ d.preview.req = 0 /\ d.touched = FALSE
      /\ d.draft = Settings!DraftFromTemplate(shown.rows.draft) /\ d.mail = shown.rows.mail
      /\ d.rest = shown.rows.rest
  BY <1>2, StepBounds DEF Settings!Mounted, Forms, Stored, Settings!DraftFromTemplate, DraftRows,
     Settings!Closed, Previews, Texts, Settings!Mails, Settings!Unread, Settings!NoRest, RestRows
<1> HIDE DEF d
<1>4. Settings!Kept(shown.rows, Settings!Sent)'
  <2>1. Settings!Sent' = [draft |-> Settings!DraftFromTemplate(shown.rows.draft), mail |-> shown.rows.mail,
                          rest |-> shown.rows.rest]
    BY <1>1, <1>3 DEF Settings!Sent
  <2>2. Settings!Kept(shown.rows, [draft |-> Settings!DraftFromTemplate(shown.rows.draft),
                                   mail |-> shown.rows.mail, rest |-> shown.rows.rest])
    BY <1>2 DEF Settings!Kept, Settings!DraftFromTemplate, Stored, DraftRows
  <2>3. Settings!Kept(shown.rows, Settings!Sent')
    BY <2>1, <2>2
  <2> QED  BY <1>1, <2>3 DEF Settings!Kept
<1>5. ASSUME NEW p \in calls'
      PROVE  p \in Sendings /\ \E q \in calls : Disowned(p, q)
  <2>1. PICK q \in calls : q.kind = "save" /\ p = [q EXCEPT !.owned = FALSE]
    BY <1>1
  <2>2. q \in Sendings
    BY SettingsFields DEF SettingsInv
  <2>3. p \in Sendings /\ Disowned(p, q)
    BY <2>1, <2>2 DEF Sendings, Disowned, Unowned
  <2> QED  BY <2>3
<1>6. SettingsTypes' /\ Numbered'
  <2>1. SettingsTypes'
    BY <1>1, <1>3, <1>5 DEF SettingsInv, SettingsTypes
  <2>2. \A q \in calls' : q.by <= changes /\ q.req <= changes /\ q.secret <= changes /\ q.base <= changes
    BY <1>5 DEF SettingsInv, Numbered, Disowned
  <2>3. shown.rows.by <= changes /\ 0 <= changes
    BY DEF SettingsInv, Numbered, SettingsTypes
  <2> QED  BY <1>1, <1>3, <2>1, <2>2, <2>3 DEF SettingsInv, Numbered
<1>7. PreviewKept'
  BY <1>1, <1>3, <1>5 DEF PreviewKept, Disowned
<1>8. OneWriter'
  <2>1. ASSUME NEW q \in calls, q.state = "filed"
        PROVE  \E p \in calls' : Disowned(p, q) /\ p.state = "filed"
    <3>1. q.kind = "save" /\ q \in Sendings
      BY <2>1, SettingsFields DEF SettingsInv, PreviewKept, Sendings
    <3>2. [q EXCEPT !.owned = FALSE] \in calls' /\ Disowned([q EXCEPT !.owned = FALSE], q)
      BY <1>1, <3>1 DEF Sendings, Disowned, Unowned
    <3> QED  BY <2>1, <3>2 DEF Disowned
  <2>2. (\A p \in calls' : p.state # "filed") => \A q \in calls : q.state # "filed"
    BY <2>1
  <2>3. ASSUME NEW p \in calls', NEW r \in calls', p.state = "filed", r.state = "filed"
        PROVE  p = r
    <3>1. PICK q \in calls : Disowned(p, q)
      BY <1>5
    <3>2. PICK t \in calls : Disowned(r, t)
      BY <1>5
    <3>3. q = t
      BY <2>3, <3>1, <3>2 DEF Disowned, SettingsInv, OneWriter
    <3> QED  BY <3>1, <3>2, <3>3 DEF Disowned
  <2>4. \A p \in calls' : p.state = "filed" =>
          /\ server.file.by = p.by
          /\ ~server.split => (server.backup.by = server.rows.by /\ server.used = server.backup)
    BY <1>5 DEF SettingsInv, OneWriter, Disowned
  <2> QED  BY <1>1, <2>2, <2>3, <2>4 DEF SettingsInv, OneWriter
<1>9. SecretsAreNew'
  <2>0. SecretsAreNew
    BY DEF SettingsInv
  <2>1. ASSUME NEW p \in calls', p.secret # 0
        PROVE  p.secret \notin desk.told
    <3>1. PICK q \in calls : Disowned(p, q)
      BY <1>5
    <3> QED  BY <2>0, <2>1, <3>1 DEF SecretsAreNew, Disowned
  <2>2. ASSUME NEW p \in calls', NEW r \in calls', p.secret # 0, p.secret = r.secret
        PROVE  p = r
    <3>1. PICK q \in calls : Disowned(p, q)
      BY <1>5
    <3>2. PICK t \in calls : Disowned(r, t)
      BY <1>5
    <3>3. q = t
      BY <2>0, <2>2, <3>1, <3>2 DEF Disowned, SecretsAreNew
    <3> QED  BY <3>1, <3>2, <3>3 DEF Disowned
  <2> QED  BY <1>1, <1>3, <2>1, <2>2 DEF SecretsAreNew
<1>10. SavesAreNew'
  <2>0. SavesAreNew
    BY DEF SettingsInv
  <2>1. ASSUME NEW p \in calls', NEW r \in calls', p.by = r.by
        PROVE  p = r
    <3>1. PICK q \in calls : Disowned(p, q)
      BY <1>5
    <3>2. PICK t \in calls : Disowned(r, t)
      BY <1>5
    <3>3. q = t
      BY <2>0, <2>1, <3>1, <3>2 DEF Disowned, SavesAreNew
    <3> QED  BY <3>1, <3>2, <3>3 DEF Disowned
  <2>2. \A p \in calls' : ~p.owned
    BY <1>5 DEF Disowned
  <2>3. ASSUME NEW p \in calls', Unwritten(p)
        PROVE  p.by # server.rows.by /\ p.by # shown.rows.by /\ \A r \in calls' : r.base # p.by
    <3>1. PICK q \in calls : Disowned(p, q)
      BY <1>5
    <3>2. /\ q.by # server.rows.by /\ q.by # shown.rows.by
          /\ \A t \in calls : t.base # q.by
      BY <2>0, <2>3, <3>1 DEF SavesAreNew, Disowned, Unwritten
    <3>3. ASSUME NEW r \in calls'
          PROVE  r.base # q.by
      BY <1>5, <3>2, Zenon DEF Disowned
    <3> QED  BY <3>1, <3>2, <3>3 DEF Disowned
  <2> QED  BY <1>1, <1>3, <2>1, <2>2, <2>3 DEF SavesAreNew
<1>11. PartsAreKept'
  <2>1. \A p \in calls' : ~p.owned
    BY <1>5 DEF Disowned
  <2>0. PartsAreKept
    BY DEF SettingsInv
  <2>2. ASSUME NEW p \in calls', Unwritten(p), p.base = server.rows.by, ~p.touched
        PROVE  Settings!Kept(server.rows, p.content)
    <3>1. PICK q \in calls : Disowned(p, q)
      BY <1>5
    <3>2. Settings!Kept(server.rows, q.content)
      BY <2>0, <2>2, <3>1 DEF PartsAreKept, Disowned, Unwritten
    <3> QED  BY <3>1, <3>2 DEF Disowned
  <2>3. \A p \in calls' : (p.kind = "save" /\ p.state = "done" /\ server.rows.by = p.by) =>
          /\ server.rows.draft = p.content.draft /\ server.rows.mail = p.content.mail
          /\ server.rows.rest = p.content.rest
    BY <1>5 DEF SettingsInv, PartsAreKept, Disowned
  <2>4. shown.rows.by = server.rows.by => shown.rows = server.rows
    BY DEF SettingsInv, PartsAreKept
  <2>5. Settings!Kept(shown.rows, Settings!Sent')
    BY <1>1, <1>4 DEF Settings!Kept
  <2> QED  BY <1>1, <1>3, <1>4, <2>1, <2>2, <2>3, <2>4, <2>5 DEF PartsAreKept
<1> QED  BY <1>6, <1>7, <1>8, <1>9, <1>10, <1>11 DEF SettingsInv

LEMMA Refetching ==
  ASSUME SettingsInv, Settings!Refetch
  PROVE  SettingsInv'
<1>1. /\ shown' = [rows |-> server.rows] /\ UNCHANGED <<server, desk, calls, changes>>
      /\ shown'.rows = server.rows /\ server.rows \in Stored
  BY SettingsFields DEF Settings!Refetch, Settings!View, SettingsInv
<1>2. Settings!Sent' = Settings!Sent /\ \A k : Settings!TextOf(k)' = Settings!TextOf(k)
  BY <1>1 DEF Settings!Sent, Settings!TextOf
<1>3. SettingsTypes' /\ Numbered' /\ OneWriter' /\ SecretsAreNew'
  BY <1>1 DEF SettingsInv, SettingsTypes, Numbered, OneWriter, SecretsAreNew
<1>4. PreviewKept' /\ SavesAreNew' /\ PartsAreKept'
  BY <1>1, <1>2 DEF SettingsInv, PreviewKept, SavesAreNew, PartsAreKept, Unwritten
<1> QED  BY <1>3, <1>4 DEF SettingsInv

LEMMA SavingElsewhere ==
  ASSUME SettingsInv, Settings!SavedElsewhere
  PROVE  SettingsInv'
<1>1. PICK own \in BOOLEAN :
        LET file == [by |-> changes + 1, secret |-> IF own THEN changes + 1 ELSE server.file.secret]
        IN  server' = [server EXCEPT !.file = file, !.used = file, !.split = FALSE,
                                     !.rows.by = changes + 1,
                                     !.rows.draft = [Settings!Standard EXCEPT !.head = "own", !.closing = ""]]
  BY DEF Settings!SavedElsewhere
<1>2. /\ changes' = changes + 1 /\ UNCHANGED <<shown, desk, calls>> /\ \A q \in calls : q.state # "filed"
      /\ changes < MaxSteps
  BY DEF Settings!SavedElsewhere, Settings!Busy
<1> DEFINE n == changes + 1
<1>3. n \in Nat /\ server \in Servers
      /\ server.file \in Files /\ server.rows \in Stored
  BY SettingsFields DEF SettingsInv, SettingsTypes
<1> DEFINE file == [by |-> n, secret |-> IF own THEN n ELSE server.file.secret]
<1> DEFINE draft == [Settings!Standard EXCEPT !.head = "own", !.closing = ""]
<1> DEFINE rows == [server.rows EXCEPT !.by = n, !.draft = draft]
<1>4. server' = [server EXCEPT !.file = file, !.used = file, !.split = FALSE, !.rows = rows]
  BY <1>1, <1>3 DEF Servers
<1>5. file \in Files /\ file.by = n
  BY <1>3 DEF Files
<1>6. draft \in DraftRows
  BY DEF Settings!Standard, DraftRows
<1> HIDE DEF file, draft
<1>7. rows \in Stored /\ rows.by = n
  BY <1>3, <1>6 DEF Stored
<1> HIDE DEF rows
<1>8. /\ server' \in Servers
      /\ server'.file = file /\ server'.used = file /\ server'.rows = rows
      /\ server'.backup = server.backup
  BY <1>3, <1>4, <1>5, <1>7 DEF Servers
<1>9. /\ shown.rows.by # n /\ desk.base # n /\ \A q \in calls : q.by # n /\ q.base # n
  BY SettingsFields DEF SettingsInv, SettingsTypes, Numbered
<1>10. Settings!Sent' = Settings!Sent /\ \A k : Settings!TextOf(k)' = Settings!TextOf(k)
  BY <1>2 DEF Settings!Sent, Settings!TextOf
<1>11. Numbered'
  BY <1>2, <1>5, <1>7, <1>8, SettingsFields DEF SettingsInv, SettingsTypes, Numbered
<1>a. changes' = n /\ n <= MaxSteps
  BY <1>2, StepBounds DEF SettingsInv, SettingsTypes
<1> HIDE DEF n
<1>12. SettingsTypes'
  BY <1>2, <1>3, <1>8, <1>a DEF SettingsInv, SettingsTypes
<1>13. OneWriter' /\ SecretsAreNew'
  BY <1>2, <1>5, <1>7, <1>8 DEF SettingsInv, OneWriter, SecretsAreNew
<1>14. PreviewKept'
  BY <1>2, <1>10 DEF SettingsInv, PreviewKept
<1>15. SavesAreNew' /\ PartsAreKept'
  BY <1>2, <1>7, <1>8, <1>9, <1>10 DEF SettingsInv, SavesAreNew, PartsAreKept, Unwritten
<1> QED  BY <1>11, <1>12, <1>13, <1>14, <1>15 DEF SettingsInv

LEMMA SettingsStep ==
  ASSUME SettingsInv, Settings!Next \/ UNCHANGED <<server, shown, desk, calls, changes>>
  PROVE  SettingsInv'
<1>1. CASE Settings!Operator
  <2>1. CASE \/ Settings!EditReminder \/ Settings!EditMail \/ Settings!EditRawMail \/ Settings!OpenRaw
             \/ Settings!TypeSecret \/ Settings!EditChannels \/ Settings!EditOperations
             \/ Settings!EditRedeemPage \/ Settings!ChooseQr
    BY <2>1, FormEdits
  <2>2. CASE Settings!LeaveRaw \/ Settings!AnswerReplace \/ Settings!QrRead \/ Settings!ClosePreview
    BY <2>2, FormSteps
  <2>3. CASE Settings!HandleSave
    BY <2>3, Saving
  <2>4. CASE Settings!OpenPreview
    BY <2>4, Previewing
  <2>5. CASE Settings!Refetch
    BY <2>5, Refetching
  <2>6. CASE Settings!Reopen
    BY <2>6, Reopening
  <2> QED  BY <1>1, <2>1, <2>2, <2>3, <2>4, <2>5, <2>6 DEF Settings!Operator
<1>2. CASE Settings!Server
  <2>1. CASE Settings!SavedElsewhere
    BY <2>1, SavingElsewhere
  <2>2. CASE \E q \in calls : \/ Settings!WriteFile(q) \/ Settings!WriteRows(q) \/ Settings!RollBack(q)
                              \/ Settings!RollBackFails(q) \/ Settings!StopsBeforeRows(q)
                              \/ Settings!SaveFails(q)
    BY <2>2, ServerSteps
  <2>5. CASE Settings!Restart
    BY <2>5, Restarting
  <2>3. CASE \E q \in calls : Settings!SaveAnswered(q)
    BY <2>3, SaveAnswers
  <2>4. CASE \E q \in calls : Settings!PreviewAnswered(q)
    BY <2>4, PreviewAnswers
  <2> QED  BY <1>2, <2>1, <2>2, <2>3, <2>4, <2>5 DEF Settings!Server
<1>3. CASE UNCHANGED <<server, shown, desk, calls, changes>>
  <2>1. Settings!Sent' = Settings!Sent /\ \A k : Settings!TextOf(k)' = Settings!TextOf(k)
    BY <1>3 DEF Settings!Sent, Settings!TextOf
  <2> QED  BY <1>3, <2>1 DEF SettingsInv, SettingsTypes, Numbered, PreviewKept, OneWriter,
           SecretsAreNew, SavesAreNew, PartsAreKept, Unwritten
<1> QED  BY <1>1, <1>2, <1>3 DEF Settings!Next

LEMMA SettingsAlways == Spec => [](page = "settings" => SettingsInv)
<1>1. Init => (page = "settings" => SettingsInv)
  BY SettingsStart DEF Init
<1>2. (page = "settings" => SettingsInv) /\ [Next]_vars => (page = "settings" => SettingsInv)'
  BY SettingsStep DEF Next, vars
<1> QED  BY <1>1, <1>2, PTL DEF Spec

(* A preview on screen is one of the text that is in the form now, whichever  *)
(* previews were asked for before and in whatever order their answers come    *)
(* (the request number of openPreview in SettingsPage.tsx).                   *)
THEOREM PreviewsAreOfTheForm == Spec => []PreviewIsOfThisText
<1>1. (page = "settings" => SettingsInv) => PreviewIsOfThisText
  BY DEF SettingsInv, PreviewKept, PreviewIsOfThisText, Settings!PreviewIsOfThisText
<1> QED  BY <1>1, SettingsAlways, PTL

(* Whenever no save is being written, the file, the rows and the              *)
(* configuration in use are those of one save, also after a save whose rows   *)
(* were refused and whose file was put back (putSettings): unless that failed *)
(* as well, or the server stopped between the two, and no later save has gone *)
(* through since.                                                             *)
THEOREM FileAndRowsAgree == Spec => []OneSaveEverywhere
<1>1. (page = "settings" => SettingsInv) => OneSaveEverywhere
  BY DEF SettingsInv, OneWriter, OneSaveEverywhere, Settings!OneSaveEverywhere, Settings!Busy
<1> QED  BY <1>1, SettingsAlways, PTL

LEMMA SavesKeepParts ==
  ASSUME SettingsInv, Settings!Next \/ UNCHANGED <<server, shown, desk, calls, changes>>
  PROVE  Settings!SaveStep
<1>1. Settings!SecretIsTakenOnce
  BY DEF SettingsInv, SecretsAreNew, Settings!SecretIsTakenOnce
<1>2. Settings!UntouchedPartsAreKept
  <2> SUFFICES ASSUME NEW q \in calls, q.state = "filed", server'.rows.by = q.by,
                      q.base = server.rows.by, ~q.touched
               PROVE  Settings!Kept(server.rows, server'.rows)
    BY DEF Settings!UntouchedPartsAreKept
  <2>1. /\ q.kind = "save" /\ Unwritten(q) /\ q.by # server.rows.by
        /\ server \in Servers
    BY SettingsFields DEF SettingsInv, PreviewKept, Sendings, Unwritten, SavesAreNew, SettingsTypes
  <2>2. Settings!Kept(server.rows, q.content)
    BY <2>1 DEF SettingsInv, PartsAreKept
  <2>3. ~Settings!SavedElsewhere /\ ~Settings!Restart
    BY DEF Settings!SavedElsewhere, Settings!Restart, Settings!Busy
  <2>4. ASSUME server'.rows = server.rows
        PROVE  FALSE
    BY <2>1, <2>4
  <2>5. ~Settings!Operator /\ ~UNCHANGED server
    BY <2>4, Zenon DEF Settings!Operator, Settings!Edited, Settings!EditReminder, Settings!EditMail,
       Settings!EditRawMail, Settings!OpenRaw, Settings!LeaveRaw, Settings!AnswerReplace,
       Settings!TypeSecret, Settings!EditChannels, Settings!EditOperations, Settings!EditRedeemPage,
       Settings!ChooseQr, Settings!QrRead, Settings!HandleSave, Settings!OpenPreview,
       Settings!ClosePreview, Settings!Refetch, Settings!Reopen, Settings!StaysOnPage
  <2>6. ASSUME NEW p \in calls
        PROVE  /\ ~Settings!WriteFile(p) /\ ~Settings!RollBack(p) /\ ~Settings!SaveFails(p)
               /\ ~Settings!RollBackFails(p) /\ ~Settings!StopsBeforeRows(p)
               /\ ~Settings!SaveAnswered(p) /\ ~Settings!PreviewAnswered(p)
    <3>1. \A file : server' = [server EXCEPT !.file = file] => server'.rows = server.rows
      BY <2>1 DEF Servers
    <3>2. \A used : server' = [server EXCEPT !.used = used, !.split = TRUE] => server'.rows = server.rows
      BY <2>1 DEF Servers
    <3>6. server' = [server EXCEPT !.split = TRUE] => server'.rows = server.rows
      BY <2>1 DEF Servers
    <3>7. ~Settings!RollBackFails(p) /\ ~Settings!StopsBeforeRows(p)
      BY <2>4, <3>2, <3>6 DEF Settings!RollBackFails, Settings!StopsBeforeRows
    <3>3. ~Settings!WriteFile(p)
      BY DEF Settings!WriteFile, Settings!Busy
    <3>4. ~Settings!RollBack(p)
      BY <2>4, <3>1 DEF Settings!RollBack
    <3>5. ~Settings!SaveFails(p) /\ ~Settings!SaveAnswered(p) /\ ~Settings!PreviewAnswered(p)
      BY <2>4 DEF Settings!SaveFails, Settings!SaveAnswered, Settings!PreviewAnswered
    <3> QED  BY <3>3, <3>4, <3>5, <3>7
  <2>7. PICK p \in calls : Settings!WriteRows(p)
    BY <2>3, <2>5, <2>6 DEF Settings!Next, Settings!Server
  <2>8. p = q
    BY <2>7 DEF Settings!WriteRows, SettingsInv, OneWriter
  <2>9. server'.rows = [by |-> q.by, draft |-> q.content.draft, mail |-> q.content.mail,
                        rest |-> q.content.rest]
    BY <2>1, <2>7, <2>8 DEF Settings!WriteRows, Servers
  <2>10. /\ server'.rows.draft = q.content.draft /\ server'.rows.mail = q.content.mail
         /\ server'.rows.rest = q.content.rest
    BY <2>9
  <2> QED  BY <2>2, <2>10 DEF Settings!Kept
<1> QED  BY <1>1, <1>2 DEF Settings!SaveStep

(* A save from a form that nobody touched since it was loaded from what is    *)
(* still stored keeps every row and every own closing, and no save takes a    *)
(* secret again that its form was told was saved.                             *)
THEOREM SavesKeepWhatWasThere == Spec => SavesKeepTheRest
<1>1. (page = "settings" => SettingsInv) /\ [Next]_vars => [page = "settings" => Settings!SaveStep]_vars
  BY SavesKeepParts DEF Next, vars
<1>2. Spec => [][page = "settings" => Settings!SaveStep]_vars
  BY <1>1, SettingsAlways, PTL DEF Spec
<1> QED  BY <1>2, PTL DEF SavesKeepTheRest

LEMMA SettingsRowTypes ==
  ASSUME SettingsInv
  PROVE  Settings!TypeOK
<1>1. /\ server.file \in Files /\ server.rows \in Stored /\ server.rows.by \in Nat
      /\ server.rows.by <= changes /\ changes <= MaxSteps /\ changes \in Nat /\ MaxSteps \in Nat
      /\ desk.draft \in DraftRows /\ desk.mail \in Settings!Mails /\ desk.preview \in Previews
      /\ \A q \in calls : q \in Sendings
  BY SettingsFields, StepBounds DEF SettingsInv, SettingsTypes, Numbered
<1>2. DraftRows = Settings!Drafts
  BY PageAssumptions DEF DraftRows, Settings!Drafts
<1>3. server.rows.by \in 0 .. MaxSteps
  BY <1>1
<1>4. ASSUME NEW x \in RestRows
      PROVE  x \in [{"plain", "notice", "qr"} -> 0 .. MaxSteps]
  BY DEF RestRows, Steps
<1>5. server.file.by \in Nat /\ server.file.by <= changes /\ server.split \in BOOLEAN
  BY SettingsFields DEF SettingsInv, Numbered
<1>6. server.file.by \in 0 .. MaxSteps
  BY <1>1, <1>5
<1>7. server.rows \in [by : 0 .. MaxSteps, draft : Settings!Drafts, mail : Settings!Mails,
                       rest : [{"plain", "notice", "qr"} -> 0 .. MaxSteps]]
  BY <1>1, <1>2, <1>3, <1>4 DEF Stored
<1> QED  BY <1>1, <1>2, <1>5, <1>6, <1>7 DEF Settings!TypeOK, Files, Previews, Sendings

-----------------------------------------------------------------------------
(* THE SUBSCRIPTION CARDS *)

CardVersions == 1 .. MaxVersion
CardDates == 1 .. CardDays
CardStates == {"active", "cancelling", "archived", "gone"}
CardRows == [state : CardStates, contact : Contacts \cup {Nobody}, price : CardPrices,
             paid : SUBSET Cards!Periods, deferred : Nat, version : CardVersions]
CardViews == [state : CardStates, contact : Contacts \cup {Nobody}, price : CardPrices, due : Nat,
              ended : BOOLEAN, deferred : BOOLEAN, version : Nat]
CardKinds == {"edit", "renew", "defer", "archive", "delete", "reminder"}
Dialogs == {"none", "edit", "renew", "defer", "archive", "delete", "reminder", "queued"}
CardDesks == [dialog : Dialogs, contact : Contacts \cup {Nobody}, price : CardPrices \cup {0}, due : Nat,
              version : Nat, offered : SUBSET Cards!Periods, period : Cards!Periods \cup {0}]
CardCalls == [kind : CardKinds, contact : Contacts \cup {Nobody}, price : CardPrices \cup {0}, due : Nat,
              period : Nat, version : Nat, state : {"sent", "done", "queued"}]

CardTypes ==
  /\ server \in [row : CardRows, day : CardDates]
  /\ shown \in CardViews
  /\ desk \in CardDesks /\ (desk.dialog = "edit" => desk.price \in CardPrices)
  /\ calls \subseteq CardCalls
  /\ \A q \in calls : /\ q.kind = "edit" => q.price \in CardPrices
                      /\ q.kind = "renew" => q.period \in Cards!Periods

CardsInv == CardTypes /\ Cards!DeferredAtFirstUnpaid

LEMMA PageBounds ==
  /\ Period \in Nat /\ MaxPeriods \in Nat
  /\ MaxVersion \in Nat /\ MaxVersion > 0 /\ CardDays \in Nat
BY PageAssumptions DEF Care!CareAssumption

LEMMA CardRanges ==
  /\ 1 \in CardVersions /\ 1 \in CardDates /\ CardVersions \subseteq Nat /\ CardDates \subseteq Nat
  /\ \A v \in CardVersions : v < MaxVersion => v + 1 \in CardVersions
  /\ \A d \in CardDates : d < CardDays => d + 1 \in CardDates
BY PageAssumptions DEF CardVersions, CardDates

(* A set of naturals has a least element.                                     *)
LEMMA LeastOf ==
  ASSUME NEW S \in SUBSET Nat, S # {}
  PROVE  \E n \in S : \A m \in S : n <= m
<1> DEFINE Before == {p \in Nat \X Nat : p[1] < p[2]}
<1>1. OpToRel(<, Nat) = Before
  BY DEF OpToRel
<1>2. IsWellFoundedOn(Before, Nat)
  BY <1>1, NatLessThanWellFounded
<1> HIDE DEF Before
<1>3. PICK n \in S : \A m \in S : <<m, n>> \notin Before
  BY <1>2, WFMin
<1>4. n \in Nat
  OBVIOUS
<1>5. ASSUME NEW m \in S
      PROVE  n <= m
  <2>1. m \in Nat /\ <<m, n>> \notin Before
    BY <1>3
  <2>2. ~(m < n)
    BY <1>4, <2>1 DEF Before
  <2> QED  BY <1>4, <2>1, <2>2
<1> QED  BY <1>5

(* There is a first period that is not paid, and it depends on nothing but    *)
(* what is paid.                                                              *)
Unpaid(P) == CHOOSE p \in 1 .. MaxPeriods + 1 : p \notin P /\ \A k \in 1 .. p - 1 : k \in P

LEMMA FirstOfUnpaid ==
  ASSUME NEW P, P \subseteq Cards!Periods
  PROVE  Unpaid(P) \in 1 .. MaxPeriods + 1
<1> DEFINE rest == {p \in Nat : p >= 1 /\ p \notin P}
<1>1. MaxPeriods + 1 \in rest
  BY PageBounds DEF Cards!Periods
<1>2. PICK n \in rest : \A m \in rest : n <= m
  BY <1>1, LeastOf
<1>3. n \in 1 .. MaxPeriods + 1 /\ n \notin P /\ \A k \in 1 .. n - 1 : k \in P
  BY <1>1, <1>2, PageBounds
<1> QED  BY <1>3 DEF Unpaid

LEMMA DueOfPaid ==
  ASSUME NEW r, r.paid \subseteq Cards!Periods
  PROVE  /\ Cards!Due(r) = Unpaid(r.paid) * Period
         /\ Cards!Due(r) \in Nat
<1>1. Cards!FirstUnpaid(r) = Unpaid(r.paid)
  BY DEF Cards!FirstUnpaid, Unpaid
<1>2. Unpaid(r.paid) \in Nat
  BY FirstOfUnpaid, PageBounds
<1>3. Cards!Due(r) = Unpaid(r.paid) * Period
  BY <1>1 DEF Cards!Due
<1> QED  BY <1>2, <1>3, PageBounds

LEMMA CardRead ==
  ASSUME server \in [row : CardRows, day : CardDates]
  PROVE  /\ Cards!View \in CardViews
         /\ server.row \in CardRows /\ server.day \in CardDates
<1>1. server.row \in CardRows /\ server.row.paid \subseteq Cards!Periods /\ server.day \in CardDates
        /\ server.row.version \in Nat
  BY CardRanges DEF CardRows
<1>2. Cards!Due(server.row) \in Nat
  BY <1>1, DueOfPaid
<1> QED  BY <1>1, <1>2 DEF Cards!View, CardViews, CardRows, Cards!Ended, Cards!None

LEMMA CardsStart ==
  ASSUME Cards!Init
  PROVE  CardsInv
<1>1. PICK c \in Contacts \cup {Nobody}, p \in CardPrices :
        server = [row |-> [state |-> "active", contact |-> c, price |-> p, paid |-> {}, deferred |-> 0,
                           version |-> 1], day |-> 1]
  BY DEF Cards!Init, Cards!None
<1>2. server \in [row : CardRows, day : CardDates] /\ server.row.deferred = 0
  BY <1>1, CardRanges DEF CardRows, CardStates, Cards!Periods
<1>3. shown \in CardViews /\ desk = Cards!Closed /\ calls = {}
  BY <1>2, CardRead DEF Cards!Init
<1>4. Cards!Closed \in CardDesks /\ Cards!Closed.dialog = "none"
  BY DEF Cards!Closed, CardDesks, Dialogs, Cards!None
<1> QED  BY <1>2, <1>3, <1>4 DEF CardsInv, CardTypes, Cards!DeferredAtFirstUnpaid, Cards!None

(* A write that keeps the deferral with what is paid, or ends it.             *)
LEMMA CardWritten ==
  ASSUME CardsInv, NEW r \in CardRows, Cards!Write(r), r.version = server.row.version,
         \/ r.deferred = 0
         \/ r.deferred = server.row.deferred /\ r.paid = server.row.paid
         \/ r.deferred = Cards!Due(server.row) /\ r.paid = server.row.paid
  PROVE  /\ server' \in [row : CardRows, day : CardDates]
         /\ Cards!DeferredAtFirstUnpaid'
<1> DEFINE t == [r EXCEPT !.version = @ + 1]
<1>1. server' = [server EXCEPT !.row = t] /\ server \in [row : CardRows, day : CardDates]
  BY DEF Cards!Write, CardsInv, CardTypes
<1>a. r.version \in CardVersions /\ r.version < MaxVersion
  BY DEF CardRows, Cards!Write
<1>b. r.version + 1 \in CardVersions
  BY <1>a, CardRanges
<1>2. t \in CardRows /\ t.deferred = r.deferred /\ t.paid = r.paid
  BY <1>b DEF CardRows
<1> HIDE DEF t
<1>3. server' \in [row : CardRows, day : CardDates] /\ server'.row = t
  BY <1>1, <1>2
<1>4. t.paid \subseteq Cards!Periods /\ server.row.paid \subseteq Cards!Periods
  BY <1>1, <1>2 DEF CardRows
<1>5. server.row.deferred # 0 => server.row.deferred = Unpaid(server.row.paid) * Period
  BY <1>4, DueOfPaid DEF CardsInv, Cards!DeferredAtFirstUnpaid, Cards!None
<1>6. t.deferred # 0 => t.deferred = Unpaid(t.paid) * Period
  BY <1>2, <1>4, <1>5, DueOfPaid
<1>7. t.deferred # 0 => t.deferred = Cards!Due(t)
  BY <1>4, <1>6, DueOfPaid
<1>8. Cards!Due(server.row)' = Cards!Due(t)
  BY <1>3 DEF Cards!Due, Cards!FirstUnpaid
<1> QED  BY <1>3, <1>7, <1>8 DEF Cards!DeferredAtFirstUnpaid, Cards!None

LEMMA CardSettled ==
  ASSUME CardsInv, NEW q \in calls,
         Cards!Settled(q, "done") \/ Cards!Settled(q, "queued") \/ calls' = calls \ {q},
         UNCHANGED <<shown, desk>>, server' \in [row : CardRows, day : CardDates]
  PROVE  CardTypes'
<1>1. q \in CardCalls
  BY DEF CardsInv, CardTypes
<1>2. ASSUME NEW state \in {"done", "queued"}, Cards!Settled(q, state)
      PROVE  CardTypes'
  <2> DEFINE p == [q EXCEPT !.state = state]
  <2>1. calls' = (calls \ {q}) \cup {p}
    BY <1>2 DEF Cards!Settled
  <2>2. p \in CardCalls /\ p.kind = q.kind /\ p.price = q.price /\ p.period = q.period
    BY <1>1, <1>2 DEF CardCalls
  <2> HIDE DEF p
  <2> QED  BY <2>1, <2>2 DEF CardsInv, CardTypes
<1>3. CASE calls' = calls \ {q}
  BY <1>3 DEF CardsInv, CardTypes
<1> QED  BY <1>2, <1>3

LEMMA CardServerSteps ==
  ASSUME CardsInv, NEW q \in calls,
         \/ Cards!UpdateSubscription(q) \/ Cards!SetDuePaid(q) \/ Cards!DeferRenewal(q)
         \/ Cards!RequestCancellation(q) \/ Cards!DeleteMistaken(q) \/ Cards!SendCustomerEmail(q)
  PROVE  CardsInv'
<1> DEFINE row == server.row
<1>0. /\ q \in CardCalls /\ row \in CardRows /\ server \in [row : CardRows, day : CardDates]
      /\ q.kind = "edit" => q.price \in CardPrices
      /\ q.kind = "renew" => q.period \in Cards!Periods
      /\ UNCHANGED <<shown, desk>>
      /\ row.paid \subseteq Cards!Periods
  BY CardRead DEF CardsInv, CardTypes, CardRows, Cards!UpdateSubscription, Cards!SetDuePaid,
     Cards!DeferRenewal,
     Cards!RequestCancellation, Cards!DeleteMistaken, Cards!SendCustomerEmail, Cards!Takes
<1>a. Cards!Due(row) \in Nat
  BY <1>0, DueOfPaid
<1>1. Cards!Settled(q, "done") \/ Cards!Settled(q, "queued") \/ calls' = calls \ {q}
  BY DEF Cards!UpdateSubscription, Cards!SetDuePaid, Cards!DeferRenewal,
     Cards!RequestCancellation, Cards!DeleteMistaken, Cards!SendCustomerEmail, Cards!Refuse
<1>2. \/ UNCHANGED server
      \/ \E r \in CardRows : Cards!Write(r) /\ r.version = row.version
                            /\ \/ r.deferred = 0
                               \/ r.deferred = row.deferred /\ r.paid = row.paid
                               \/ r.deferred = Cards!Due(row) /\ r.paid = row.paid
  <2>1. CASE Cards!UpdateSubscription(q)
    <3> DEFINE r == [row EXCEPT !.contact = q.contact, !.price = q.price]
    <3>1. q.kind = "edit" /\ (UNCHANGED server \/ Cards!Write(r))
      BY <2>1 DEF Cards!UpdateSubscription, Cards!Takes, Cards!Refuse
    <3>2. r \in CardRows /\ r.version = row.version /\ r.deferred = row.deferred /\ r.paid = row.paid
      BY <1>0, <3>1 DEF CardRows, CardCalls
    <3> QED  BY <3>1, <3>2
  <2>2. CASE Cards!SetDuePaid(q)
    <3> DEFINE r == Cards!FollowedUp([row EXCEPT !.paid = @ \cup {q.period}])
    <3>1. q.kind = "renew" /\ (UNCHANGED server \/ Cards!Write(r))
      BY <2>2 DEF Cards!SetDuePaid, Cards!Takes, Cards!Refuse
    <3>2. r \in CardRows /\ r.version = row.version /\ r.deferred = 0
      BY <1>0, <3>1 DEF CardRows, Cards!FollowedUp, Cards!None
    <3> QED  BY <3>1, <3>2
  <2>3. CASE Cards!DeferRenewal(q)
    <3> DEFINE r == [row EXCEPT !.deferred = Cards!Due(row)]
    <3>1. UNCHANGED server \/ Cards!Write(r)
      BY <2>3 DEF Cards!DeferRenewal, Cards!Refuse
    <3>2. r \in CardRows /\ r.version = row.version /\ r.deferred = Cards!Due(row) /\ r.paid = row.paid
      BY <1>0, <1>a DEF CardRows
    <3> QED  BY <3>1, <3>2
  <2>4. CASE Cards!RequestCancellation(q) \/ Cards!DeleteMistaken(q)
    <3>1. UNCHANGED server \/ \E state \in CardStates : Cards!Write([row EXCEPT !.state = state])
      BY <2>4 DEF Cards!RequestCancellation, Cards!DeleteMistaken, Cards!Refuse, CardStates
    <3>2. \A state \in CardStates : /\ [row EXCEPT !.state = state] \in CardRows
                                    /\ [row EXCEPT !.state = state].version = row.version
                                    /\ [row EXCEPT !.state = state].deferred = row.deferred
                                    /\ [row EXCEPT !.state = state].paid = row.paid
      BY <1>0 DEF CardRows
    <3> QED  BY <3>1, <3>2
  <2>5. CASE Cards!SendCustomerEmail(q)
    BY <2>5 DEF Cards!SendCustomerEmail, Cards!Refuse
  <2> QED  BY <2>1, <2>2, <2>3, <2>4, <2>5
<1>3. server' \in [row : CardRows, day : CardDates] /\ Cards!DeferredAtFirstUnpaid'
  <2>1. CASE UNCHANGED server
    BY <1>0, <2>1 DEF CardsInv, Cards!DeferredAtFirstUnpaid, Cards!Due, Cards!FirstUnpaid
  <2> QED  BY <1>2, <2>1, CardWritten
<1> QED  BY <1>0, <1>1, <1>3, CardSettled DEF CardsInv

LEMMA CardPageSteps ==
  ASSUME CardsInv, Cards!Operator
  PROVE  CardsInv'
<1>0. /\ server \in [row : CardRows, day : CardDates] /\ Cards!View \in CardViews /\ shown \in CardViews
      /\ desk \in CardDesks /\ (desk.dialog = "edit" => desk.price \in CardPrices)
      /\ shown.contact \in Contacts \cup {Nobody} /\ shown.price \in CardPrices
      /\ shown.due \in Nat /\ shown.version \in Nat
  BY CardRead DEF CardsInv, CardTypes, CardViews
<1>1. UNCHANGED server
  BY DEF Cards!Operator, Cards!OpenEdit, Cards!EditContact, Cards!EditPrice, Cards!OpenRenew,
     Cards!PeriodsArrive, Cards!PickPeriod, Cards!OpenDefer, Cards!OpenArchive, Cards!OpenDelete,
     Cards!OpenReminder, Cards!CloseDialog, Cards!Confirm, Cards!Refetch, Cards!Open, Cards!StaysOnPage
<1>2. Cards!DeferredAtFirstUnpaid'
  BY <1>1 DEF CardsInv, Cards!DeferredAtFirstUnpaid, Cards!Due, Cards!FirstUnpaid
<1>3. ASSUME NEW d \in CardDesks, desk' = d, UNCHANGED <<server, shown, calls>>,
             d.dialog = "edit" => d.price \in CardPrices
      PROVE  CardTypes'
  BY <1>3 DEF CardsInv, CardTypes
<1>4. CASE Cards!OpenEdit \/ Cards!OpenRenew \/ Cards!OpenDefer \/ Cards!OpenArchive
           \/ Cards!OpenDelete \/ Cards!OpenReminder
  <2>0. Cards!Closed \in CardDesks
    BY DEF Cards!Closed, CardDesks, Dialogs, Cards!None
  <2>1. PICK kind \in Dialogs, d \in CardDesks :
          Cards!Open(kind, d) /\ (kind = "edit" => d.price \in CardPrices)
    <3>1. CASE Cards!OpenEdit
      <4> DEFINE d == [Cards!Closed EXCEPT !.contact = shown.contact, !.price = shown.price,
                                           !.version = shown.version]
      <4>1. d \in CardDesks /\ d.price \in CardPrices
        BY <1>0 DEF Cards!Closed, CardDesks, Dialogs, Cards!None
      <4> QED  BY <3>1, <4>1 DEF Cards!OpenEdit, Dialogs
    <3>2. CASE Cards!OpenRenew
      <4>1. [Cards!Closed EXCEPT !.due = shown.due] \in CardDesks
        BY <1>0 DEF Cards!Closed, CardDesks, Dialogs, Cards!None
      <4> QED  BY <3>2, <4>1 DEF Cards!OpenRenew, Dialogs
    <3>3. CASE Cards!OpenDefer
      <4>1. [Cards!Closed EXCEPT !.due = shown.due, !.version = shown.version] \in CardDesks
        BY <1>0 DEF Cards!Closed, CardDesks, Dialogs, Cards!None
      <4> QED  BY <3>3, <4>1 DEF Cards!OpenDefer, Dialogs
    <3>4. CASE Cards!OpenArchive \/ Cards!OpenDelete \/ Cards!OpenReminder
      BY <2>0, <3>4 DEF Cards!OpenArchive, Cards!OpenDelete, Cards!OpenReminder, Dialogs
    <3> QED  BY <1>4, <3>1, <3>2, <3>3, <3>4
  <2>2. desk' = [d EXCEPT !.dialog = kind] /\ UNCHANGED <<server, shown, calls>>
    BY <2>1 DEF Cards!Open, Cards!StaysOnPage
  <2>3. [d EXCEPT !.dialog = kind] \in CardDesks /\ [d EXCEPT !.dialog = kind].dialog = kind
        /\ [d EXCEPT !.dialog = kind].price = d.price
    BY <2>1 DEF CardDesks
  <2> QED  BY <1>2, <1>3, <2>1, <2>2, <2>3 DEF CardsInv
<1>5. CASE Cards!EditContact \/ Cards!EditPrice \/ Cards!PeriodsArrive \/ Cards!PickPeriod
  <2>1. PICK d \in CardDesks : /\ desk' = d /\ d.dialog = desk.dialog
                               /\ d.price = desk.price \/ d.price \in CardPrices
    <3>1. CASE Cards!EditContact
      <4>1. \A c \in Contacts : [desk EXCEPT !.contact = c] \in CardDesks
        BY <1>0 DEF CardDesks
      <4> QED  BY <1>0, <3>1, <4>1 DEF Cards!EditContact, CardDesks
    <3>2. CASE Cards!EditPrice
      <4>1. \A p \in CardPrices : [desk EXCEPT !.price = p] \in CardDesks
        BY <1>0 DEF CardDesks
      <4> QED  BY <1>0, <3>2, <4>1 DEF Cards!EditPrice, CardDesks
    <3>3. CASE Cards!PeriodsArrive
      <4>1. [desk EXCEPT !.offered = Cards!Periods \ server.row.paid] \in CardDesks
        BY <1>0 DEF CardDesks
      <4> QED  BY <1>0, <3>3, <4>1 DEF Cards!PeriodsArrive, CardDesks
    <3>4. CASE Cards!PickPeriod
      <4>1. \A p \in desk.offered : [desk EXCEPT !.period = p] \in CardDesks
        BY <1>0 DEF CardDesks, Cards!Periods
      <4> QED  BY <1>0, <3>4, <4>1 DEF Cards!PickPeriod, CardDesks
    <3> QED  BY <1>5, <3>1, <3>2, <3>3, <3>4
  <2>2. UNCHANGED <<server, shown, calls>>
    BY <1>5 DEF Cards!EditContact, Cards!EditPrice, Cards!PeriodsArrive, Cards!PickPeriod, Cards!StaysOnPage
  <2> QED  BY <1>0, <1>2, <1>3, <2>1, <2>2 DEF CardsInv
<1>6. CASE Cards!CloseDialog
  <2>1. Cards!Closed \in CardDesks /\ Cards!Closed.dialog = "none"
    BY DEF Cards!Closed, CardDesks, Dialogs, Cards!None
  <2> QED  BY <1>2, <1>3, <1>6, <2>1 DEF Cards!CloseDialog, Cards!StaysOnPage, CardsInv
<1>7. CASE Cards!Confirm
  <2> DEFINE q == [kind |-> desk.dialog, contact |-> desk.contact, price |-> desk.price, due |-> desk.due,
                   period |-> Cards!Chosen, version |-> desk.version, state |-> "sent"]
  <2>1. calls' = calls \cup {q} /\ UNCHANGED <<server, shown, desk>>
        /\ (desk.dialog = "renew" => Cards!Chosen \in desk.offered)
    BY <1>7 DEF Cards!Confirm, Cards!Payable
  <2>2. desk.offered \subseteq Cards!Periods /\ desk.period \in Cards!Periods \cup {0}
          /\ desk.contact \in Contacts \cup {Nobody}
        /\ desk.price \in CardPrices \cup {0} /\ desk.due \in Nat /\ desk.version \in Nat
        /\ desk.dialog \in CardKinds
    BY <1>0, <1>7 DEF CardDesks, Cards!Confirm, CardKinds
  <2>3. Cards!Chosen \in Nat
    <3>1. Cards!Preferred \in Nat
      <4>1. CASE \E p \in desk.offered : p * Period = desk.due
        BY <2>2, <4>1 DEF Cards!Preferred, Cards!Periods
      <4>2. CASE ~(\E p \in desk.offered : p * Period = desk.due) /\ desk.offered # {}
        <5>1. desk.offered \in SUBSET Nat
          BY <2>2 DEF Cards!Periods
        <5>2. \E p \in desk.offered : \A k \in desk.offered : p <= k
          BY <4>2, <5>1, LeastOf
        <5>3. (CHOOSE p \in desk.offered : \A k \in desk.offered : p <= k) \in desk.offered
          BY <5>2
        <5> QED  BY <4>2, <5>1, <5>3 DEF Cards!Preferred
      <4>3. CASE ~(\E p \in desk.offered : p * Period = desk.due) /\ desk.offered = {}
        BY <4>3 DEF Cards!Preferred, Cards!None
      <4> QED  BY <4>1, <4>2, <4>3
    <3> QED  BY <2>2, <3>1 DEF Cards!Chosen, Cards!Periods
  <2>4. q \in CardCalls /\ (q.kind = "edit" => q.price \in CardPrices)
        /\ (q.kind = "renew" => q.period \in Cards!Periods)
    BY <1>0, <2>1, <2>2, <2>3 DEF CardCalls
  <2> HIDE DEF q
  <2> QED  BY <1>2, <2>1, <2>4 DEF CardsInv, CardTypes
<1>8. CASE Cards!Refetch
  BY <1>0, <1>2, <1>8 DEF Cards!Refetch, CardsInv, CardTypes
<1> QED  BY <1>4, <1>5, <1>6, <1>7, <1>8 DEF Cards!Operator

LEMMA CardElsewhere ==
  ASSUME CardsInv, NEW r \in CardRows, Cards!Elsewhere(r), r.version = server.row.version,
         r.deferred = 0 \/ (r.deferred = server.row.deferred /\ r.paid = server.row.paid)
  PROVE  CardsInv'
<1>1. Cards!Write(r) /\ UNCHANGED <<shown, desk, calls>>
  BY DEF Cards!Elsewhere
<1> QED  BY <1>1, CardWritten DEF CardsInv, CardTypes

LEMMA CardOtherSteps ==
  ASSUME CardsInv, Cards!OtherPages
  PROVE  CardsInv'
<1> DEFINE row == server.row
<1>0. row \in CardRows /\ row.paid \subseteq Cards!Periods /\ server \in [row : CardRows, day : CardDates]
  BY CardRead DEF CardsInv, CardTypes, CardRows
<1>1. CASE Cards!DayPasses
  <2>1. server' = [server EXCEPT !.day = @ + 1] /\ UNCHANGED <<shown, desk, calls>>
    BY <1>1 DEF Cards!DayPasses
  <2>a. server.day + 1 \in CardDates
    BY <1>0, <1>1, CardRanges DEF Cards!DayPasses
  <2>2. server' \in [row : CardRows, day : CardDates] /\ server'.row = row
    BY <1>0, <2>1, <2>a
  <2> QED  BY <2>1, <2>2 DEF CardsInv, CardTypes, Cards!DeferredAtFirstUnpaid, Cards!Due, Cards!FirstUnpaid
<1>2. CASE Cards!EditedElsewhere
  <2>1. \A c \in Contacts, p \in CardPrices :
          /\ [row EXCEPT !.contact = c, !.price = p] \in CardRows
          /\ [row EXCEPT !.contact = c, !.price = p].version = row.version
          /\ [row EXCEPT !.contact = c, !.price = p].deferred = row.deferred
          /\ [row EXCEPT !.contact = c, !.price = p].paid = row.paid
    BY <1>0 DEF CardRows
  <2> QED  BY <1>2, <2>1, CardElsewhere DEF Cards!EditedElsewhere
<1>3. CASE Cards!PaidElsewhere \/ Cards!BillRemoved \/ Cards!DeferralEnds
  <2>1. ASSUME NEW P \in SUBSET Cards!Periods
        PROVE  /\ Cards!FollowedUp([row EXCEPT !.paid = P]) \in CardRows
               /\ Cards!FollowedUp([row EXCEPT !.paid = P]).deferred = 0
               /\ Cards!FollowedUp([row EXCEPT !.paid = P]).version = row.version
    BY <1>0 DEF CardRows, Cards!FollowedUp, Cards!None
  <2>2. Cards!FollowedUp(row) \in CardRows /\ Cards!FollowedUp(row).deferred = 0
        /\ Cards!FollowedUp(row).version = row.version
    BY <1>0 DEF CardRows, Cards!FollowedUp, Cards!None
  <2>3. PICK r \in CardRows : r.deferred = 0 /\ r.version = row.version /\ Cards!Elsewhere(r)
    <3>1. CASE Cards!PaidElsewhere
      <4>1. PICK p \in Cards!Periods : Cards!Elsewhere(Cards!FollowedUp([row EXCEPT !.paid = @ \cup {p}]))
        BY <1>0, <3>1 DEF Cards!PaidElsewhere
      <4>2. [row EXCEPT !.paid = @ \cup {p}] = [row EXCEPT !.paid = row.paid \cup {p}]
        BY <1>0 DEF CardRows
      <4> QED  BY <1>0, <2>1, <4>1, <4>2
    <3>2. CASE Cards!BillRemoved
      <4>1. PICK p \in row.paid : Cards!Elsewhere(Cards!FollowedUp([row EXCEPT !.paid = @ \ {p}]))
        BY <1>0, <3>2 DEF Cards!BillRemoved
      <4>2. [row EXCEPT !.paid = @ \ {p}] = [row EXCEPT !.paid = row.paid \ {p}]
        BY <1>0 DEF CardRows
      <4> QED  BY <1>0, <2>1, <4>1, <4>2
    <3>3. CASE Cards!DeferralEnds
      BY <2>2, <3>3 DEF Cards!DeferralEnds
    <3> QED  BY <1>3, <3>1, <3>2, <3>3
  <2> QED  BY <2>3, CardElsewhere
<1>4. CASE Cards!CaseSettled \/ Cards!CancellationExpires
  <2>1. PICK state \in CardStates : Cards!Elsewhere([row EXCEPT !.state = state])
    BY <1>4 DEF Cards!CaseSettled, Cards!CancellationExpires, CardStates
  <2>2. /\ [row EXCEPT !.state = state] \in CardRows
        /\ [row EXCEPT !.state = state].version = row.version
        /\ [row EXCEPT !.state = state].deferred = row.deferred
        /\ [row EXCEPT !.state = state].paid = row.paid
    BY <1>0 DEF CardRows
  <2> QED  BY <2>1, <2>2, CardElsewhere
<1> QED  BY <1>1, <1>2, <1>3, <1>4 DEF Cards!OtherPages

LEMMA CardsStep ==
  ASSUME CardsInv, Cards!Next \/ UNCHANGED <<server, shown, desk, calls>>
  PROVE  CardsInv'
<1>1. CASE Cards!Operator
  BY <1>1, CardPageSteps
<1>2. CASE Cards!Server
  <2>1. PICK q \in calls :
          \/ Cards!UpdateSubscription(q) \/ Cards!SetDuePaid(q) \/ Cards!DeferRenewal(q)
          \/ Cards!RequestCancellation(q) \/ Cards!DeleteMistaken(q) \/ Cards!SendCustomerEmail(q)
          \/ Cards!CallAnswered(q) \/ Cards!CallFails(q)
    BY <1>2 DEF Cards!Server
  <2>2. CASE Cards!CallAnswered(q) \/ Cards!CallFails(q)
    <3>1. desk' = desk \/ desk' = Cards!Closed \/ desk' = [Cards!Closed EXCEPT !.dialog = "queued"]
      BY <2>2 DEF Cards!CallAnswered, Cards!CallFails
    <3>2. /\ Cards!Closed \in CardDesks /\ Cards!Closed.dialog = "none"
          /\ [Cards!Closed EXCEPT !.dialog = "queued"] \in CardDesks
          /\ [Cards!Closed EXCEPT !.dialog = "queued"].dialog = "queued"
      BY DEF Cards!Closed, CardDesks, Dialogs, Cards!None
    <3>3. calls' \subseteq calls /\ UNCHANGED <<server, shown>>
      BY <2>2 DEF Cards!CallAnswered, Cards!CallFails
    <3>4. CardTypes'
      BY <3>1, <3>2, <3>3 DEF CardsInv, CardTypes
    <3> QED  BY <3>3, <3>4 DEF CardsInv, Cards!DeferredAtFirstUnpaid, Cards!Due, Cards!FirstUnpaid
  <2> QED  BY <2>1, <2>2, CardServerSteps
<1>3. CASE Cards!OtherPages
  BY <1>3, CardOtherSteps
<1>4. CASE UNCHANGED <<server, shown, desk, calls>>
  BY <1>4 DEF CardsInv, CardTypes, Cards!DeferredAtFirstUnpaid, Cards!Due, Cards!FirstUnpaid
<1> QED  BY <1>1, <1>2, <1>3, <1>4 DEF Cards!Next

(* What is known of the cards gives them their type: a deferral is for a date *)
(* of the ledger.                                                             *)
LEMMA CardTypesKnown ==
  ASSUME CardsInv
  PROVE  Cards!TypeOK
<1> DEFINE row == server.row
<1>1. row \in CardRows /\ server.day \in CardDates /\ desk \in CardDesks /\ calls \subseteq CardCalls
  BY CardRead DEF CardsInv, CardTypes
<1>2. row.paid \subseteq Cards!Periods /\ row.deferred \in Nat
  BY <1>1 DEF CardRows
<1>3. row.deferred \in 0 .. (MaxPeriods + 1) * Period
  <2>1. CASE row.deferred = 0
    BY <2>1, PageBounds
  <2>2. CASE row.deferred # 0
    <3>1. row.deferred = Unpaid(row.paid) * Period
      BY <1>2, <2>2, DueOfPaid DEF CardsInv, Cards!DeferredAtFirstUnpaid, Cards!None
    <3>2. PICK n \in 1 .. MaxPeriods + 1 : row.deferred = n * Period
      BY <1>2, <3>1, FirstOfUnpaid
    <3>3. n * Period <= (MaxPeriods + 1) * Period
      BY <3>2, PageBounds
    <3> QED  BY <1>2, <3>2, <3>3, PageBounds
  <2> QED  BY <2>1, <2>2
<1>4. row \in [state : CardStates, contact : Contacts \cup {Nobody}, price : CardPrices,
               paid : SUBSET Cards!Periods, deferred : 0 .. (MaxPeriods + 1) * Period, version : CardVersions]
  BY <1>1, <1>3 DEF CardRows
<1>5. desk.dialog \in Dialogs /\ desk.offered \subseteq Cards!Periods
        /\ desk.period \in Cards!Periods \cup {0}
  BY <1>1 DEF CardDesks
<1>6. ASSUME NEW q \in calls
      PROVE  /\ q.kind \in CardKinds /\ q.state \in {"sent", "done", "queued"}
             /\ q.kind = "renew" => q.period \in Cards!Periods
  BY <1>1 DEF CardsInv, CardTypes, CardCalls
<1> QED  BY <1>1, <1>4, <1>5, <1>6 DEF Cards!TypeOK, CardStates, CardVersions, CardDates, Dialogs,
            CardKinds,
            Cards!None

LEMMA CardsAlways == Spec => [](page = "cards" => CardsInv)
<1>1. Init => (page = "cards" => CardsInv)
  BY CardsStart DEF Init
<1>2. (page = "cards" => CardsInv) /\ [Next]_vars => (page = "cards" => CardsInv)'
  BY CardsStep DEF Next, vars
<1> QED  BY <1>1, <1>2, PTL DEF Spec

(* Whoever is put aside is put aside for the date that is due now: every      *)
(* change of what is paid, on this page or another, ends the deferral         *)
(* (clearRenewalDeferral in SetDuePaid and in the removal of a bill).         *)
THEOREM DeferralsAreForTheFirstUnpaid == Spec => []DeferredAtFirstUnpaid
<1>1. (page = "cards" => CardsInv) => DeferredAtFirstUnpaid
  BY DEF CardsInv, DeferredAtFirstUnpaid
<1> QED  BY <1>1, CardsAlways, PTL

-----------------------------------------------------------------------------
(* CUSTOMER CARE *)

CareKeys == Care!Keys \cup {Care!NoKey}
CareChanges == 0 .. MaxChanges
Boundaries == Care!Boundaries
LastBoundary == MaxPeriods + 1
Schedules == [Boundaries -> Nat]
Customers == [at : Schedules, bills : SUBSET Nat, version : Nat, next : BOOLEAN, case : BOOLEAN]
EventRows == [kind : {"none", "extension", "price_discount"},
              base : Boundaries \cup {0}, from : Nat, days : Nat,
              state : {"none", "active", "revoked", "superseded"}]
CareViews == [due : Care!Snapshots, version : Care!Snapshots, selectable : SUBSET Accounts,
              revisable : [Care!Keys -> SUBSET Accounts]]
BenefitForms == [key : CareKeys, ids : SUBSET Accounts, due : Care!Snapshots, version : Care!Snapshots]
RevisionForms == [key : CareKeys, of : CareKeys, sub : SUBSET Accounts]
CareDesks == [ticked : SUBSET Accounts, form : BenefitForms, history : BOOLEAN,
              revision : RevisionForms, last : CareKeys]
CareCalls == [kind : {"extension", "price_discount", "revision"}, key : Care!Keys,
              ids : SUBSET Accounts, of : CareKeys, until : Nat, due : Care!Snapshots,
              version : Care!Snapshots, state : {"sent", "done", "refused"}]

CareServer == /\ server \in [Accounts -> Customers]
              /\ log \in [Care!Keys -> [Accounts -> EventRows]]
CarePage == /\ shown \in CareViews /\ desk \in CareDesks /\ changes \in CareChanges
            /\ desk.form.key = 0 \/ desk.form.key \in Care!Keys
            /\ desk.revision.key = 0 \/ (desk.revision.key \in Care!Keys /\ desk.revision.of \in Care!Keys)

(* A call for an extension asks for a later date than each it was made of,    *)
(* and one for a revision names an extension.                                 *)
CareWish(q) ==
  /\ q.kind = "extension" => q.until \in Care!Days /\ \A s \in q.ids : q.due[s] < q.until
  /\ q.kind = "revision" => q.of \in Care!Keys
CareWishes == calls \subseteq CareCalls /\ \A q \in calls : CareWish(q)

(* What a key has not recorded, it has recorded nothing of.                   *)
EventKept(e) == e.kind = "none" => e = Care!NoEvent
EventsKept == \A k \in Care!Keys, s \in Accounts : EventKept(log[k][s])

(* The boundaries of a schedule follow one another.                           *)
Spaced(at) == \A c, b \in Boundaries : c < b => at[c] < at[b]

(* What the extensions e of a customer have to do with the schedule.  The     *)
(* days of each are still in it: they end, from the date it was given for, no *)
(* later than its boundary is now; and they have a place, off[k] days after   *)
(* the boundary before, that the boundary leaves for them.                    *)
Room(at, e, off) ==
  \A k \in Care!Keys : e[k].state = "active" =>
    /\ e[k].days > 0 /\ e[k].base \in Boundaries
    /\ e[k].from + e[k].days <= at[e[k].base] /\ off[k] + e[k].days <= at[e[k].base]
    /\ \A c \in Boundaries : c < e[k].base => at[c] + off[k] + e[k].days < at[e[k].base]

(* Of one boundary they were given one after the other.                       *)
Precedes(e, off, k, l) == e[k].from + e[k].days <= e[l].from /\ off[k] + e[k].days <= off[l]
Apart(e, off) ==
  \A k, l \in Care!Keys :
    (k # l /\ e[k].state = "active" /\ e[l].state = "active" /\ e[k].base = e[l].base) =>
      Precedes(e, off, k, l) \/ Precedes(e, off, l, k)

Places == [Care!Keys -> Nat]
Fits(at, e) == \E off \in Places : Room(at, e, off) /\ Apart(e, off)

(* The last boundary is not paid.                                             *)
Scheduled(r, e) == Spaced(r.at) /\ r.at[LastBoundary] \notin r.bills /\ Fits(r.at, e)
EventsOf(s) == [k \in Care!Keys |-> log[k][s]]
SchedulesKept == \A s \in Accounts : Scheduled(server[s], EventsOf(s))

CareInv == CareServer /\ CarePage /\ CareWishes /\ EventsKept /\ SchedulesKept

LEMMA CareBounds == /\ MaxKeys \in Nat /\ CareDays \in Nat /\ MaxDays \in Nat /\ Period \in Nat /\ Period > 0
                    /\ Care!Keys \subseteq Nat /\ 0 \notin Care!Keys /\ Care!Days \subseteq Nat
                    /\ CareKeys \subseteq Nat /\ Care!Keys \subseteq CareKeys /\ 0 \in CareKeys
                    /\ 0 \in CareChanges /\ MaxChanges \in Nat
BY PageAssumptions DEF Care!CareAssumption, Care!Keys, Care!Days, CareKeys, CareChanges, Care!NoKey

LEMMA BoundaryRange ==
  /\ Boundaries \subseteq Nat /\ LastBoundary \in Boundaries
  /\ \A b \in Boundaries : /\ b >= 1 /\ b <= LastBoundary
                           /\ b # 1 => b - 1 \in Boundaries
BY PageAssumptions DEF Boundaries, Care!Boundaries, LastBoundary

-----------------------------------------------------------------------------
(* Schedules and the extensions in them.                                      *)

LEMMA ShiftedDates ==
  ASSUME NEW at \in Schedules, NEW b, NEW days
  PROVE  /\ Care!Shifted(at, b, days) = [c \in Boundaries |-> IF c >= b THEN at[c] + days ELSE at[c]]
         /\ \A c \in Boundaries :
              Care!Shifted(at, b, days)[c] = IF c >= b THEN at[c] + days ELSE at[c]
BY DEF Care!Shifted, Boundaries

(* What counts is what is in force.                                           *)
LEMMA SamePlaces ==
  ASSUME NEW at, NEW e, NEW f, Fits(at, e),
         \A k \in Care!Keys : f[k].state = "active" => f[k] = e[k]
  PROVE  Fits(at, f)
BY DEF Fits, Room, Apart, Precedes

(* An extension is given: it takes the days after those of its boundary.      *)
LEMMA ExtensionAdded ==
  ASSUME NEW at \in Schedules, Spaced(at), NEW e \in [Care!Keys -> EventRows], Fits(at, e),
         NEW b \in Boundaries, NEW days \in Nat, days > 0,
         NEW k \in Care!Keys, e[k].state # "active",
         NEW f \in [Care!Keys -> EventRows], \A l \in Care!Keys \ {k} : f[l] = e[l],
         f[k].base = b, f[k].from = at[b], f[k].days = days,
         NEW to, to = Care!Shifted(at, b, days)
  PROVE  to \in Schedules /\ Spaced(to) /\ Fits(to, f)
<1>1. PICK off \in Places : Room(at, e, off) /\ Apart(e, off)
  BY DEF Fits
<1> DEFINE place == IF b = 1 THEN at[b] ELSE (at[b] - at[b - 1]) - 1
           off2 == [off EXCEPT ![k] = place]
<1>2. /\ \A c \in Boundaries : at[c] \in Nat /\ c \in Nat
      /\ \A l \in Care!Keys : /\ off[l] \in Nat /\ e[l].from \in Nat /\ e[l].days \in Nat
  BY <1>1, BoundaryRange DEF Schedules, EventRows, Places
<1>3. \A c \in Boundaries : to[c] = IF c >= b THEN at[c] + days ELSE at[c]
  BY ShiftedDates
<1>4. to \in Schedules
  <2>1. \A c \in Boundaries : to[c] \in Nat
    BY <1>2, <1>3
  <2>2. to = [c \in Boundaries |-> IF c >= b THEN at[c] + days ELSE at[c]]
    BY ShiftedDates
  <2> QED  BY <2>1, <2>2 DEF Schedules
<1>5. Spaced(to)
  <2> SUFFICES ASSUME NEW c \in Boundaries, NEW d \in Boundaries, c < d
               PROVE  to[c] < to[d]
    BY DEF Spaced
  <2>1. at[c] < at[d]
    BY DEF Spaced
  <2> QED  BY <1>2, <1>3, <2>1
<1>6. /\ place \in Nat
      /\ b = 1 => place = at[b]
      /\ \A c \in Boundaries : c < b => at[c] + place < at[b]
      /\ b # 1 => b - 1 \in Boundaries /\ b - 1 < b /\ at[b - 1] + place = at[b] - 1
  <2>1. CASE b = 1
    BY <1>2, <2>1, BoundaryRange
  <2>2. CASE b # 1
    <3>1. b - 1 \in Boundaries /\ b - 1 < b /\ b \in Nat
      BY <2>2, BoundaryRange
    <3>2. at[b - 1] < at[b]
      BY <3>1 DEF Spaced
    <3>3. place = (at[b] - at[b - 1]) - 1
      BY <2>2
    <3>4. \A c \in Boundaries : c < b => at[c] <= at[b - 1]
      <4> SUFFICES ASSUME NEW c \in Boundaries, c < b
                   PROVE  at[c] <= at[b - 1]
        OBVIOUS
      <4>1. c = b - 1 \/ c < b - 1
        BY <1>2, <3>1
      <4> QED  BY <1>2, <3>1, <4>1 DEF Spaced
    <3>5. place \in Nat /\ at[b - 1] + place = at[b] - 1
      BY <1>2, <3>1, <3>2, <3>3
    <3> HIDE DEF place
    <3> QED  BY <1>2, <2>2, <3>1, <3>4, <3>5
  <2> QED  BY <2>1, <2>2
<1> HIDE DEF place
<1>7. off2 \in Places /\ off2[k] = place /\ \A l \in Care!Keys \ {k} : off2[l] = off[l]
  BY <1>6 DEF Places
<1> HIDE DEF off2
<1>8. Room(to, f, off2)
  <2> SUFFICES ASSUME NEW l \in Care!Keys, f[l].state = "active"
               PROVE  /\ f[l].days > 0 /\ f[l].base \in Boundaries
                      /\ f[l].from + f[l].days <= to[f[l].base] /\ off2[l] + f[l].days <= to[f[l].base]
                      /\ \A c \in Boundaries : c < f[l].base => to[c] + off2[l] + f[l].days < to[f[l].base]
    BY DEF Room
  <2>1. CASE l = k
    <3>1. place <= at[b]
      <4>1. CASE b = 1
        BY <1>2, <1>6, <4>1
      <4>2. CASE b # 1
        BY <1>2, <1>6, <4>2
      <4> QED  BY <4>1, <4>2
    <3>2. to[b] = at[b] + days
      BY <1>2, <1>3
    <3>3. \A c \in Boundaries : c < b => to[c] = at[c]
      BY <1>2, <1>3
    <3> QED  BY <1>2, <1>6, <1>7, <2>1, <3>1, <3>2, <3>3
  <2>2. CASE l # k
    <3> DEFINE d == e[l].base
    <3>1. /\ f[l] = e[l] /\ off2[l] = off[l] /\ e[l].days > 0 /\ d \in Boundaries
          /\ e[l].from + e[l].days <= at[d] /\ off[l] + e[l].days <= at[d]
          /\ \A c \in Boundaries : c < d => at[c] + off[l] + e[l].days < at[d]
      BY <1>1, <1>7, <2>2 DEF Room
    <3> HIDE DEF d
    <3>2. at[d] <= to[d] /\ \A c \in Boundaries : c < d => to[c] - at[c] <= to[d] - at[d]
      BY <1>2, <1>3, <3>1
    <3>3. to[d] \in Nat /\ \A c \in Boundaries : to[c] \in Nat
      BY <1>4, <3>1 DEF Schedules
    <3>4. f[l].base = d
      BY <3>1 DEF d
    <3> QED  BY <1>2, <3>1, <3>2, <3>3, <3>4
  <2> QED  BY <2>1, <2>2
<1>9. Apart(f, off2)
  <2>1. ASSUME NEW l \in Care!Keys, l # k, f[l].state = "active", f[l].base = b
        PROVE  Precedes(f, off2, l, k)
    <3>1. /\ f[l] = e[l] /\ off2[l] = off[l]
          /\ e[l].from + e[l].days <= at[b] /\ off[l] + e[l].days <= at[b]
          /\ \A c \in Boundaries : c < b => at[c] + off[l] + e[l].days < at[b]
      BY <1>1, <1>7, <2>1 DEF Room
    <3>2. off[l] + e[l].days <= place
      <4>1. CASE b = 1
        BY <1>6, <3>1, <4>1
      <4>2. CASE b # 1
        <5>1. at[b - 1] + off[l] + e[l].days < at[b] /\ at[b - 1] \in Nat /\ at[b] \in Nat
          BY <1>2, <1>6, <3>1, <4>2
        <5> QED  BY <1>2, <1>6, <4>2, <5>1
      <4> QED  BY <4>1, <4>2
    <3> QED  BY <1>7, <3>1, <3>2 DEF Precedes
  <2>2. ASSUME NEW l \in Care!Keys, NEW m \in Care!Keys, l # k, m # k, l # m,
               f[l].state = "active", f[m].state = "active", f[l].base = f[m].base
        PROVE  Precedes(f, off2, l, m) \/ Precedes(f, off2, m, l)
    BY <1>1, <1>7, <2>2 DEF Apart, Precedes
  <2> QED  BY <2>1, <2>2 DEF Apart
<1> QED  BY <1>4, <1>5, <1>7, <1>8, <1>9 DEF Fits

(* The last extension is changed: what takes its place has its place, and     *)
(* ends no earlier than what was given before it.                             *)
LEMMA ExtensionReplaced ==
  ASSUME NEW at \in Schedules, Spaced(at), NEW e \in [Care!Keys -> EventRows], Fits(at, e),
         NEW m \in Care!Keys, e[m].state = "active",
         \A l \in Care!Keys : e[l].state = "active" =>
            \/ e[l].base < e[m].base
            \/ e[l].base = e[m].base /\ e[l].from <= e[m].from,
         NEW until \in Nat, NEW k \in Care!Keys, k # m, e[k].state # "active",
         NEW f \in [Care!Keys -> EventRows], \A l \in Care!Keys \ {k, m} : f[l] = e[l],
         f[m].state # "active",
         f[k].state = "active" => /\ f[k].base = e[m].base /\ f[k].from = at[e[m].base] - e[m].days
                                  /\ f[k].days = until /\ until > 0,
         NEW to, to = Care!Shifted(at, e[m].base, until - e[m].days)
  PROVE  /\ to \in Schedules /\ Spaced(to) /\ Fits(to, f)
         /\ e[m].base \in Boundaries /\ e[m].days \in Nat /\ e[m].from \in Nat
         /\ e[m].from + e[m].days <= at[e[m].base] /\ e[m].from <= to[e[m].base]
<1> DEFINE b == e[m].base
           days == e[m].days
<1>1. PICK off \in Places : Room(at, e, off) /\ Apart(e, off)
  BY DEF Fits
<1>2. /\ \A c \in Boundaries : at[c] \in Nat /\ c \in Nat
      /\ \A l \in Care!Keys : /\ off[l] \in Nat /\ e[l].from \in Nat /\ e[l].days \in Nat
  BY <1>1, BoundaryRange DEF Schedules, EventRows, Places
<1>3. /\ b \in Boundaries /\ days \in Nat /\ days > 0 /\ e[m].from + days <= at[b] /\ off[m] + days <= at[b]
      /\ \A c \in Boundaries : c < b => at[c] + off[m] + days < at[b]
  BY <1>1, <1>2 DEF Room
<1>4. \A c \in Boundaries : to[c] = IF c >= b THEN at[c] + (until - days) ELSE at[c]
  BY ShiftedDates
<1>5. /\ \A c \in Boundaries : c >= b => at[b] <= at[c]
      /\ \A c \in Boundaries : ~(c >= b) => c < b
  <2> SUFFICES ASSUME NEW c \in Boundaries
               PROVE  (c >= b => at[b] <= at[c]) /\ (~(c >= b) => c < b)
    OBVIOUS
  <2>1. c = b \/ b < c \/ c < b
    BY <1>2, <1>3
  <2> QED  BY <1>2, <1>3, <2>1 DEF Spaced
<1> HIDE DEF b, days
<1>6. to \in Schedules
  <2>1. ASSUME NEW c \in Boundaries
        PROVE  to[c] \in Nat
    BY <1>2, <1>3, <1>4, <1>5
  <2>2. to = [c \in Boundaries |-> IF c >= b THEN at[c] + (until - days) ELSE at[c]]
    BY ShiftedDates DEF b, days
  <2> QED  BY <2>1, <2>2 DEF Schedules
<1>7. Spaced(to)
  <2> SUFFICES ASSUME NEW c \in Boundaries, NEW d \in Boundaries, c < d
               PROVE  to[c] < to[d]
    BY DEF Spaced
  <2>1. at[c] < at[d]
    BY DEF Spaced
  <2>2. CASE c < b /\ d >= b
    <3>1. at[c] + off[m] + days < at[b] /\ at[b] <= at[d]
      BY <1>3, <1>5, <2>2
    <3>2. to[c] = at[c] /\ to[d] = at[d] + (until - days)
      BY <1>2, <1>3, <1>4, <2>2
    <3> QED  BY <1>2, <1>3, <3>1, <3>2
  <2>3. CASE ~(c < b /\ d >= b)
    BY <1>2, <1>3, <1>4, <2>1, <2>3
  <2> QED  BY <2>2, <2>3
<1>8. to[b] = at[b] + (until - days) /\ \A c \in Boundaries : c < b => to[c] = at[c]
  BY <1>2, <1>3, <1>4
<1> DEFINE off2 == [off EXCEPT ![k] = off[m]]
<1>9. off2 \in Places /\ off2[k] = off[m] /\ \A l \in Care!Keys \ {k} : off2[l] = off[l]
  BY <1>2 DEF Places
<1> HIDE DEF off2
(* Whatever else is in force at the same boundary was given before.           *)
<1>10. ASSUME NEW l \in Care!Keys, l # m, e[l].state = "active", e[l].base = b
       PROVE  e[l].from + e[l].days <= e[m].from /\ off[l] + e[l].days <= off[m]
  <2>1. e[l].from <= e[m].from
    <3>1. \/ e[l].base < e[m].base
          \/ e[l].base = e[m].base /\ e[l].from <= e[m].from
      BY <1>10
    <3>2. ~(e[l].base < e[m].base)
      <4>1. e[l].base = b /\ e[m].base = b
        BY <1>10 DEF b
      <4>2. ~(b < b)
        BY <1>2, <1>3
      <4> QED  BY <4>1, <4>2
    <3> QED  BY <3>1, <3>2
  <2>2. Precedes(e, off, l, m) \/ Precedes(e, off, m, l)
    BY <1>1, <1>10 DEF Apart, b
  <2>3. ~Precedes(e, off, m, l)
    BY <1>2, <1>3, <2>1 DEF Precedes, days
  <2> QED  BY <2>2, <2>3 DEF Precedes
<1>11. ASSUME NEW l \in Care!Keys, l # m, e[l].state = "active"
       PROVE  e[l].base \in Boundaries /\ (e[l].base = b \/ e[l].base < b)
  BY <1>1, <1>11 DEF Room, b
<1>12. Room(to, f, off2)
  <2> SUFFICES ASSUME NEW l \in Care!Keys, f[l].state = "active"
               PROVE  /\ f[l].days > 0 /\ f[l].base \in Boundaries
                      /\ f[l].from + f[l].days <= to[f[l].base] /\ off2[l] + f[l].days <= to[f[l].base]
                      /\ \A c \in Boundaries : c < f[l].base => to[c] + off2[l] + f[l].days < to[f[l].base]
    BY DEF Room
  <2>1. CASE l = k
    <3>1. f[l].base = b /\ f[l].from = at[b] - days /\ f[l].days = until /\ until > 0 /\ off2[l] = off[m]
      BY <1>9, <2>1 DEF b, days
    <3> QED  BY <1>2, <1>3, <1>8, <3>1
  <2>2. CASE l # k
    <3>1. f[l] = e[l] /\ off2[l] = off[l] /\ l # m
      BY <1>9, <2>2
    <3>2. /\ e[l].days > 0
          /\ e[l].from + e[l].days <= at[e[l].base] /\ off[l] + e[l].days <= at[e[l].base]
          /\ \A c \in Boundaries : c < e[l].base => at[c] + off[l] + e[l].days < at[e[l].base]
      BY <1>1, <3>1 DEF Room
    <3>3. CASE e[l].base = b
      <4>1. e[l].from + e[l].days <= e[m].from /\ off[l] + e[l].days <= off[m]
        BY <1>10, <3>1, <3>3
      <4> QED  BY <1>2, <1>3, <1>8, <3>1, <3>2, <3>3, <4>1
    <3>4. CASE e[l].base < b
      <4>1. e[l].base \in Boundaries /\ to[e[l].base] = at[e[l].base]
        BY <1>8, <1>11, <3>1, <3>4
      <4>2. \A c \in Boundaries : c < e[l].base => to[c] = at[c]
        BY <1>2, <1>3, <1>8, <3>4, <4>1
      <4> QED  BY <3>1, <3>2, <4>1, <4>2
    <3> QED  BY <1>11, <3>1, <3>3, <3>4
  <2> QED  BY <2>1, <2>2
<1>13. Apart(f, off2)
  <2>1. ASSUME NEW l \in Care!Keys, l # k, f[l].state = "active", f[k].state = "active", f[l].base = f[k].base
        PROVE  Precedes(f, off2, l, k)
    <3>1. f[l] = e[l] /\ off2[l] = off[l] /\ l # m /\ e[l].base = b
      BY <1>9, <2>1 DEF b
    <3>2. e[l].from + e[l].days <= e[m].from /\ off[l] + e[l].days <= off[m]
      BY <1>10, <2>1, <3>1
    <3>3. f[k].from = at[b] - days /\ off2[k] = off[m]
      BY <1>9, <2>1 DEF b, days
    <3> QED  BY <1>2, <1>3, <3>1, <3>2, <3>3 DEF Precedes
  <2>2. ASSUME NEW l \in Care!Keys, NEW n \in Care!Keys, l # k, n # k, l # n,
               f[l].state = "active", f[n].state = "active", f[l].base = f[n].base
        PROVE  Precedes(f, off2, l, n) \/ Precedes(f, off2, n, l)
    <3>1. f[l] = e[l] /\ f[n] = e[n] /\ off2[l] = off[l] /\ off2[n] = off[n]
      BY <1>9, <2>2
    <3> QED  BY <1>1, <2>2, <3>1 DEF Apart, Precedes
  <2> QED  BY <2>1, <2>2 DEF Apart
<1>14. e[m].from <= to[b]
  BY <1>2, <1>3, <1>8
<1> QED  BY <1>2, <1>3, <1>6, <1>7, <1>9, <1>12, <1>13, <1>14 DEF Fits, b, days

(* What is due is the first boundary that is not paid.                        *)
LEMMA FirstBoundary ==
  ASSUME NEW r \in Customers, r.at[LastBoundary] \notin r.bills
  PROVE  /\ Care!FirstUnpaid(r) \in Care!Unpaid(r) /\ Care!FirstUnpaid(r) \in Boundaries
         /\ \A c \in Care!Unpaid(r) : Care!FirstUnpaid(r) <= c
         /\ Care!Due(r) = r.at[Care!FirstUnpaid(r)] /\ Care!Due(r) \in Nat
<1>1. LastBoundary \in Care!Unpaid(r) /\ Care!Unpaid(r) \subseteq Boundaries
  BY BoundaryRange DEF Care!Unpaid, Boundaries
<1>2. Care!Unpaid(r) \in SUBSET Nat /\ Care!Unpaid(r) # {}
  BY <1>1, BoundaryRange
<1>3. \E n \in Care!Unpaid(r) : \A m \in Care!Unpaid(r) : n <= m
  BY <1>2, LeastOf
<1>4. /\ Care!FirstUnpaid(r) \in Care!Unpaid(r)
      /\ \A c \in Care!Unpaid(r) : Care!FirstUnpaid(r) <= c
  BY <1>3 DEF Care!FirstUnpaid
<1>5. r.at[Care!FirstUnpaid(r)] \in Nat
  BY <1>1, <1>4 DEF Customers, Schedules
<1> QED  BY <1>1, <1>4, <1>5 DEF Care!Due

(* A shift of what is after every bill leaves what is paid where it is.       *)
LEMMA PaidStaysPut ==
  ASSUME NEW r \in Customers, NEW t \in Customers, Spaced(r.at), Spaced(t.at), NEW b \in Boundaries,
         NEW days \in Int, t.at = Care!Shifted(r.at, b, days), t.bills = r.bills,
         NEW day \in Nat, \A bill \in r.bills : bill < day, day <= r.at[b], day <= t.at[b],
         r.at[LastBoundary] \notin r.bills
  PROVE  /\ \A c \in Boundaries : r.at[c] \in r.bills => t.at[c] = r.at[c]
         /\ t.at[LastBoundary] \notin t.bills
         /\ Care!Due(t) = IF Care!FirstUnpaid(r) >= b THEN Care!Due(r) + days ELSE Care!Due(r)
<1>1. /\ r.at \in Schedules /\ t.at \in Schedules /\ r.bills \subseteq Nat
      /\ \A c \in Boundaries : t.at[c] = IF c >= b THEN r.at[c] + days ELSE r.at[c]
  BY ShiftedDates DEF Customers
<1>2. /\ b \in Nat
      /\ \A c \in Boundaries : c \in Nat /\ r.at[c] \in Nat /\ t.at[c] \in Nat
  BY <1>1, BoundaryRange DEF Schedules
<1>3. ASSUME NEW c \in Boundaries, c >= b
      PROVE  r.at[c] \notin r.bills /\ t.at[c] \notin r.bills
  <2>1. c = b \/ b < c
    BY <1>2, <1>3
  <2>2. r.at[b] <= r.at[c] /\ t.at[b] <= t.at[c]
    BY <1>2, <2>1 DEF Spaced
  <2>3. day <= r.at[c] /\ day <= t.at[c]
    BY <1>2, <2>2
  <2> QED  BY <1>1, <1>2, <2>3
<1>4. ASSUME NEW c \in Boundaries, ~(c >= b)
      PROVE  t.at[c] = r.at[c]
  BY <1>1, <1>4
<1>5. Care!Unpaid(t) = Care!Unpaid(r)
  BY <1>3, <1>4 DEF Care!Unpaid, Boundaries
<1>6. Care!FirstUnpaid(t) = Care!FirstUnpaid(r)
  BY <1>5 DEF Care!FirstUnpaid
<1>7. Care!FirstUnpaid(r) \in Boundaries /\ Care!Due(r) = r.at[Care!FirstUnpaid(r)]
  BY FirstBoundary
<1>8. Care!Due(t) = t.at[Care!FirstUnpaid(r)]
  BY <1>6 DEF Care!Due
<1>9. LastBoundary \in Boundaries /\ LastBoundary >= b
  BY BoundaryRange
<1> QED  BY <1>1, <1>3, <1>4, <1>7, <1>8, <1>9

-----------------------------------------------------------------------------
(* The page.                                                                  *)

LEMMA CareFields ==
  ASSUME CareInv, NEW s \in Accounts
  PROVE  /\ server[s] \in Customers /\ Scheduled(server[s], EventsOf(s)) /\ server[s].version \in Nat
         /\ Care!Due(server[s]) \in Nat /\ EventsOf(s) \in [Care!Keys -> EventRows]
         /\ \A k \in Care!Keys : /\ log[k][s] \in EventRows /\ EventKept(log[k][s])
                                 /\ EventsOf(s)[k] = log[k][s]
<1>1. server[s] \in Customers /\ Scheduled(server[s], EventsOf(s))
  BY DEF CareInv, CareServer, SchedulesKept
<1>2. ASSUME NEW k \in Care!Keys
      PROVE  log[k][s] \in EventRows /\ EventKept(log[k][s])
  BY DEF CareInv, CareServer, EventsKept
<1>3. Care!Due(server[s]) \in Nat
  BY <1>1, FirstBoundary DEF Scheduled
<1> QED  BY <1>1, <1>2, <1>3 DEF Customers, EventsOf

LEMMA CareRead ==
  ASSUME \A s \in Accounts : Care!Due(server[s]) \in Nat /\ server[s].version \in Nat
  PROVE  Care!View \in CareViews
<1>1. [s \in Accounts |-> Care!Due(server[s])] \in Care!Snapshots
      /\ [s \in Accounts |-> server[s].version] \in Care!Snapshots
  BY DEF Care!Snapshots
<1> QED  BY <1>1 DEF Care!View, CareViews

LEMMA BlankForms ==
  /\ Care!Blank \in Care!Snapshots
  /\ Care!NoForm \in BenefitForms /\ Care!NoForm.key = 0
  /\ Care!NoRevision \in RevisionForms /\ Care!NoRevision.key = 0
<1>1. Care!Blank \in Care!Snapshots
  BY DEF Care!Blank, Care!Snapshots
<1> QED  BY <1>1, CareBounds DEF Care!NoForm, BenefitForms, Care!NoRevision, RevisionForms, Care!NoKey

(* The original schedule.                                                     *)
LEMMA FirstSchedule ==
  ASSUME NEW at, at = [b \in Boundaries |-> 1 + (b - 1) * Period]
  PROVE  at \in Schedules /\ Spaced(at)
<1>1. \A p, n \in Nat : p * n \in Nat
  OBVIOUS
<1>2. ASSUME NEW b \in Boundaries
      PROVE  at[b] \in Nat /\ at[b] = 1 + (b - 1) * Period /\ b - 1 \in Nat
  <2>1. b - 1 \in Nat /\ at[b] = 1 + (b - 1) * Period
    BY BoundaryRange
  <2>2. (b - 1) * Period \in Nat
    BY <1>1, <2>1, CareBounds
  <2> QED  BY <2>1, <2>2
<1>3. ASSUME NEW c \in Boundaries, NEW b \in Boundaries, c < b
      PROVE  at[c] < at[b]
  <2> DEFINE p == c - 1
             n == b - c
  <2>1. p \in Nat /\ n \in Nat /\ n >= 1 /\ b - 1 = p + n
    BY <1>3, BoundaryRange
  <2>2. \A i, j \in Nat : j >= 1 => i * Period < (i + j) * Period
    <3> SUFFICES ASSUME NEW i \in Nat, NEW j \in Nat, j >= 1
                 PROVE  i * Period < (i + j) * Period
      OBVIOUS
    <3>1. (i + j) * Period = i * Period + j * Period /\ i * Period \in Nat
      BY CareBounds
    <3>2. j * Period >= Period /\ j * Period \in Nat
      BY CareBounds
    <3> QED  BY <3>1, <3>2, CareBounds
  <2>3. p * Period < (p + n) * Period
    BY <2>1, <2>2
  <2>4. at[c] = 1 + p * Period /\ at[b] = 1 + (p + n) * Period
    BY <1>2, <2>1
  <2>5. p * Period \in Nat /\ (p + n) * Period \in Nat
    BY <1>1, <2>1, CareBounds
  <2> HIDE DEF p, n
  <2> QED  BY <2>3, <2>4, <2>5
<1> QED  BY <1>2, <1>3 DEF Schedules, Spaced

LEMMA CareStart ==
  ASSUME Care!Init
  PROVE  CareInv
<1> DEFINE at == [b \in Boundaries |-> 1 + (b - 1) * Period]
           r == [at |-> at, bills |-> {}, version |-> 0, next |-> FALSE, case |-> FALSE]
<1>1. server = [s \in Accounts |-> r]
  BY DEF Care!Init, Boundaries
<1>2. log = [k \in Care!Keys |-> [s \in Accounts |-> Care!NoEvent]]
  BY DEF Care!Init
<1>3. /\ Care!NoEvent \in EventRows /\ EventKept(Care!NoEvent) /\ Care!NoEvent.state = "none"
  BY DEF Care!NoEvent, EventRows, EventKept, Care!NoDay
<1>4. at \in Schedules /\ Spaced(at)
  BY FirstSchedule
<1> HIDE DEF at
<1>5. r \in Customers /\ r.at = at /\ r.bills = {} /\ r.version = 0
  BY <1>4 DEF Customers
<1> HIDE DEF r
<1>6. CareServer /\ \A s \in Accounts : server[s] = r
  BY <1>1, <1>2, <1>3, <1>5 DEF CareServer
<1>7. \A k \in Care!Keys, s \in Accounts : log[k][s] = Care!NoEvent
  BY <1>2
<1>8. EventsKept
  BY <1>3, <1>7 DEF EventsKept
<1>9. ASSUME NEW s \in Accounts
      PROVE  Scheduled(server[s], EventsOf(s)) /\ Care!Due(server[s]) \in Nat /\ server[s].version \in Nat
  <2>1. \A k \in Care!Keys : EventsOf(s)[k].state # "active"
    BY <1>3, <1>7 DEF EventsOf
  <2>2. [k \in Care!Keys |-> 0] \in Places
    BY DEF Places
  <2>3. Fits(at, EventsOf(s))
    BY <2>1, <2>2 DEF Fits, Room, Apart
  <2>4. Scheduled(server[s], EventsOf(s))
    BY <1>4, <1>5, <1>6, <2>3 DEF Scheduled
  <2>5. Care!Due(server[s]) \in Nat
    BY <1>5, <1>6, <2>4, FirstBoundary DEF Scheduled
  <2> QED  BY <1>5, <1>6, <2>4, <2>5
<1>10. CarePage
  <2>1. desk = [ticked |-> {}, form |-> Care!NoForm, history |-> FALSE,
                 revision |-> Care!NoRevision, last |-> 0]
    BY DEF Care!Init, Care!NoKey
  <2>2. desk \in CareDesks
    BY <2>1, BlankForms, CareBounds DEF CareDesks
  <2>3. changes \in CareChanges
    BY CareBounds DEF Care!Init
  <2>4. shown \in CareViews
    BY <1>9, CareRead DEF Care!Init
  <2> QED  BY <2>1, <2>2, <2>3, <2>4, BlankForms DEF CarePage
<1>11. CareWishes
  BY DEF Care!Init, CareWishes
<1> QED  BY <1>6, <1>8, <1>9, <1>10, <1>11 DEF CareInv, SchedulesKept

(* What the page does itself leaves the server alone.                         *)
LEMMA CareFrame ==
  ASSUME CareInv, UNCHANGED <<server, log>>, CarePage', CareWishes'
  PROVE  CareInv'
BY DEF CareInv, CareServer, EventsKept, SchedulesKept, Scheduled, EventsOf

LEMMA CareForms ==
  ASSUME CareInv,
         \/ \E s \in Accounts : Care!ToggleCandidate(s)
         \/ Care!ToggleVisible \/ Care!SelectRecommended \/ Care!OpenBenefitDialog \/ Care!CloseForm
         \/ Care!OpenHistory \/ Care!CloseHistory \/ Care!OpenRevision \/ Care!CloseRevision
  PROVE  CareInv'
<1>0. /\ desk \in CareDesks /\ shown \in CareViews /\ shown.selectable \subseteq Accounts
      /\ shown.due \in Care!Snapshots /\ shown.version \in Care!Snapshots
      /\ desk.ticked \subseteq Accounts /\ desk.form \in BenefitForms /\ desk.revision \in RevisionForms
      /\ desk.last \in CareKeys /\ desk.last \in Nat /\ Care!Selected \subseteq Accounts
      /\ shown.revisable \in [Care!Keys -> SUBSET Accounts]
  BY CareBounds DEF CareInv, CarePage, CareDesks, CareViews, Care!Selected
<1>1. UNCHANGED <<server, log, shown, calls, changes>>
  BY DEF Care!ToggleCandidate, Care!ToggleVisible, Care!SelectRecommended, Care!OpenBenefitDialog,
     Care!CloseForm, Care!OpenHistory, Care!CloseHistory, Care!OpenRevision, Care!CloseRevision,
      Care!StaysOnPage
<1>2. SUFFICES /\ desk' \in CareDesks
               /\ desk'.form.key = 0 \/ desk'.form.key \in Care!Keys
               /\ desk'.revision.key = 0
                   \/ (desk'.revision.key \in Care!Keys /\ desk'.revision.of \in Care!Keys)
  BY <1>1, CareFrame DEF CareInv, CarePage, CareWishes, CareWish
<1>3. /\ desk.form.key = 0 \/ desk.form.key \in Care!Keys
      /\ desk.revision.key = 0 \/ (desk.revision.key \in Care!Keys /\ desk.revision.of \in Care!Keys)
  BY DEF CareInv, CarePage
<1>4. CASE (\E s \in Accounts : Care!ToggleCandidate(s)) \/ Care!ToggleVisible \/ Care!SelectRecommended
  <2>1. PICK T \in SUBSET Accounts : desk' = [desk EXCEPT !.ticked = T]
    <3>1. CASE \E s \in Accounts : Care!ToggleCandidate(s)
      BY <1>0, <3>1 DEF Care!ToggleCandidate, CareDesks
    <3>2. CASE Care!ToggleVisible
      BY <1>0, <3>2 DEF Care!ToggleVisible, CareDesks
    <3>3. CASE Care!SelectRecommended
      BY <1>0, <3>3 DEF Care!SelectRecommended
    <3> QED  BY <1>4, <3>1, <3>2, <3>3
  <2> QED  BY <1>0, <1>3, <2>1 DEF CareDesks
<1>5. CASE Care!OpenBenefitDialog
  <2> DEFINE f == [key |-> desk.last + 1, ids |-> Care!Selected, due |-> shown.due, version |-> shown.version]
  <2>1. desk' = [desk EXCEPT !.last = desk.last + 1, !.form = f] /\ desk.last < MaxKeys
    BY <1>0, <1>5 DEF Care!OpenBenefitDialog, CareDesks
  <2>2. f \in BenefitForms /\ f.key \in Care!Keys /\ f.key \in CareKeys
    BY <1>0, <2>1, CareBounds DEF BenefitForms, Care!Keys, CareKeys
  <2> HIDE DEF f
  <2>3. \A n \in CareKeys : /\ [desk EXCEPT !.last = n, !.form = f] \in CareDesks
                        /\ [desk EXCEPT !.last = n, !.form = f].form = f
                        /\ [desk EXCEPT !.last = n, !.form = f].revision = desk.revision
    BY <1>0, <2>2 DEF CareDesks
  <2>4. desk.last + 1 \in CareKeys
    BY <2>2 DEF f
  <2>5. desk' \in CareDesks /\ desk'.form = f /\ desk'.revision = desk.revision
    BY <2>1, <2>3, <2>4
  <2> QED  BY <1>3, <2>2, <2>5
<1>6. CASE Care!CloseForm
  <2>1. desk' = [desk EXCEPT !.form = Care!NoForm]
    BY <1>6 DEF Care!CloseForm
  <2> QED  BY <1>0, <1>3, <2>1, BlankForms DEF CareDesks
<1>7. CASE Care!OpenHistory \/ Care!CloseHistory
  <2>1. PICK h \in BOOLEAN : desk' = [desk EXCEPT !.history = h]
    BY <1>7 DEF Care!OpenHistory, Care!CloseHistory
  <2> QED  BY <1>0, <1>3, <2>1 DEF CareDesks
<1>8. CASE Care!OpenRevision
  <2>1. PICK k \in Care!Keys : \E s \in shown.revisable[k] :
          desk' = [desk EXCEPT !.last = @ + 1, !.revision = [key |-> desk.last + 1, of |-> k, sub |-> {s}]]
          /\ desk.last < MaxKeys
    BY <1>8 DEF Care!OpenRevision
  <2>2. PICK s \in shown.revisable[k] :
          desk' = [desk EXCEPT !.last = @ + 1, !.revision = [key |-> desk.last + 1, of |-> k, sub |-> {s}]]
          /\ desk.last < MaxKeys
    BY <2>1
  <2> DEFINE r == [key |-> desk.last + 1, of |-> k, sub |-> {s}]
  <2>3. r \in RevisionForms /\ r.key \in Care!Keys /\ r.of = k /\ r.key \in CareKeys
    BY <1>0, <2>1, <2>2, CareBounds DEF RevisionForms, Care!Keys, CareKeys
  <2>4. desk' = [desk EXCEPT !.last = desk.last + 1, !.revision = r]
    BY <1>0, <2>2 DEF CareDesks
  <2> HIDE DEF r
  <2>5. \A n \in CareKeys : /\ [desk EXCEPT !.last = n, !.revision = r] \in CareDesks
                        /\ [desk EXCEPT !.last = n, !.revision = r].form = desk.form
                        /\ [desk EXCEPT !.last = n, !.revision = r].revision = r
    BY <1>0, <2>3 DEF CareDesks
  <2>6. desk.last + 1 \in CareKeys
    BY <2>3 DEF r
  <2>7. desk' \in CareDesks /\ desk'.form = desk.form /\ desk'.revision = r
    BY <2>4, <2>5, <2>6
  <2> QED  BY <1>3, <2>1, <2>3, <2>7
<1>9. CASE Care!CloseRevision
  <2>1. desk' = [desk EXCEPT !.revision = Care!NoRevision]
    BY <1>9 DEF Care!CloseRevision
  <2> QED  BY <1>0, <1>3, <2>1, BlankForms DEF CareDesks
<1> QED  BY <1>4, <1>5, <1>6, <1>7, <1>8, <1>9

LEMMA CareSubmits ==
  ASSUME CareInv, Care!SubmitBenefit \/ Care!SubmitRevision
  PROVE  CareInv'
<1>0. /\ desk.form \in BenefitForms /\ desk.form.ids \subseteq Accounts /\ desk.form.due \in Care!Snapshots
      /\ desk.form.version \in Care!Snapshots /\ desk.revision.sub \subseteq Accounts
      /\ desk.revision.of \in CareKeys
      /\ desk.form.key = 0 \/ desk.form.key \in Care!Keys
      /\ desk.revision.key = 0 \/ (desk.revision.key \in Care!Keys /\ desk.revision.of \in Care!Keys)
  BY DEF CareInv, CarePage, CareDesks, BenefitForms, RevisionForms
<1>1. UNCHANGED <<server, log, shown, desk, changes>>
  BY DEF Care!SubmitBenefit, Care!SubmitRevision
<1>2. PICK q \in CareCalls : calls' = calls \cup {q} /\ CareWish(q)
  <2>1. CASE Care!SubmitRevision
    <3>1. PICK days \in 0 .. MaxDays :
            calls' = calls \cup {[kind |-> "revision", key |-> desk.revision.key, ids |-> desk.revision.sub,
                                  of |-> desk.revision.of, until |-> days, due |-> Care!Blank,
                                  version |-> Care!Blank, state |-> "sent"]}
            /\ desk.revision.key # 0
      BY <2>1 DEF Care!SubmitRevision, Care!NoKey
    <3> DEFINE q == [kind |-> "revision", key |-> desk.revision.key, ids |-> desk.revision.sub,
                     of |-> desk.revision.of, until |-> days, due |-> Care!Blank,
                     version |-> Care!Blank, state |-> "sent"]
    <3>2. days \in Nat
      BY <3>1, CareBounds
    <3>3. q \in CareCalls /\ CareWish(q)
      BY <1>0, <3>1, <3>2, BlankForms DEF CareCalls, CareWish
    <3> QED  BY <3>1, <3>3
  <2>2. ASSUME NEW day \in Care!Days, Care!ValidUntil(desk.form, day), Care!Record("extension", day),
               desk.form.key # 0
        PROVE  \E q \in CareCalls : calls' = calls \cup {q} /\ CareWish(q)
    <3> DEFINE q == [kind |-> "extension", key |-> desk.form.key, ids |-> desk.form.ids,
                    of |-> 0, until |-> day,
                     due |-> desk.form.due, version |-> desk.form.version, state |-> "sent"]
    <3>1. calls' = calls \cup {q}
      BY <2>2 DEF Care!Record, Care!NoKey
    <3>2. \A s \in desk.form.ids : desk.form.due[s] < day
      BY <1>0, <2>2, CareBounds DEF Care!ValidUntil, Care!Snapshots
    <3>3. q \in CareCalls
      BY <1>0, <2>2, CareBounds DEF CareCalls
    <3> QED  BY <3>1, <3>2, <3>3 DEF CareWish
  <2>3. ASSUME Care!Record("price_discount", 0), desk.form.key # 0
        PROVE  \E q \in CareCalls : calls' = calls \cup {q} /\ CareWish(q)
    <3> DEFINE q == [kind |-> "price_discount", key |-> desk.form.key, ids |-> desk.form.ids,
                    of |-> 0, until |-> 0,
                     due |-> desk.form.due, version |-> desk.form.version, state |-> "sent"]
    <3>1. calls' = calls \cup {q}
      BY <2>3 DEF Care!Record, Care!NoKey
    <3>2. q \in CareCalls
      BY <1>0, <2>3, CareBounds DEF CareCalls
    <3> QED  BY <3>1, <3>2 DEF CareWish
  <2> QED  BY <2>1, <2>2, <2>3 DEF Care!SubmitBenefit, Care!NoKey, Care!NoDay
<1> QED  BY <1>1, <1>2, CareFrame DEF CareInv, CarePage, CareWishes

LEMMA CareSettled ==
  ASSUME CareInv, NEW q \in calls, NEW state \in {"done", "refused"}, Care!Settled(q, state)
  PROVE  CareWishes'
<1> DEFINE p == [q EXCEPT !.state = state]
<1>1. q \in CareCalls /\ CareWish(q)
  BY DEF CareInv, CareWishes
<1>2. p \in CareCalls /\ p.kind = q.kind /\ p.ids = q.ids /\ p.due = q.due /\ p.until = q.until /\ p.of = q.of
  BY <1>1 DEF CareCalls
<1>3. calls' = (calls \ {q}) \cup {p}
  BY DEF Care!Settled
<1>4. CareWish(p)
  BY <1>1, <1>2 DEF CareWish
<1> HIDE DEF p
<1> QED  BY <1>2, <1>3, <1>4 DEF CareInv, CareWishes

LEMMA CareAnswers ==
  ASSUME CareInv, NEW q \in calls, Care!CallAnswered(q) \/ Care!CallFails(q)
  PROVE  CareInv'
<1>1. CASE Care!CallAnswered(q)
  <2>1. calls' = calls \ {q} /\ UNCHANGED <<server, log, shown, changes>>
    BY <1>1 DEF Care!CallAnswered
  <2>2. \/ desk' = desk \/ desk' = [desk EXCEPT !.revision = Care!NoRevision]
        \/ desk' = [desk EXCEPT !.ticked = {}, !.form = Care!NoForm]
    BY <1>1 DEF Care!CallAnswered
  <2>3. /\ desk' \in CareDesks
        /\ desk'.form = desk.form \/ desk'.form = Care!NoForm
        /\ desk'.revision = desk.revision \/ desk'.revision = Care!NoRevision
    BY <2>2, BlankForms DEF CareInv, CarePage, CareDesks
  <2>4. CarePage'
    BY <2>1, <2>3, BlankForms DEF CareInv, CarePage
  <2>5. CareWishes'
    BY <2>1 DEF CareInv, CareWishes
  <2> QED  BY <2>1, <2>4, <2>5, CareFrame
<1>2. CASE Care!CallFails(q)
  <2>1. Care!Settled(q, "refused") /\ UNCHANGED <<server, log, shown, desk, changes>>
    BY <1>2 DEF Care!CallFails, Care!Settled
  <2>2. CareWishes' /\ CarePage'
    BY <2>1, CareSettled DEF CareInv, CarePage
  <2> QED  BY <2>1, <2>2, CareFrame
<1> QED  BY <1>1, <1>2

LEMMA CareRefetch ==
  ASSUME CareInv, Care!Refetch
  PROVE  CareInv'
<1>1. shown' = Care!View /\ UNCHANGED <<server, log, desk, calls, changes>>
  BY DEF Care!Refetch
<1>2. CarePage' /\ CareWishes'
  <2>1. Care!View \in CareViews
    BY CareFields, CareRead
  <2> QED  BY <1>1, <2>1 DEF CareInv, CarePage, CareWishes
<1> QED  BY <1>1, <1>2, CareFrame

-----------------------------------------------------------------------------
(* The server.                                                                *)

LEMMA ExtensionRow ==
  ASSUME NEW b \in Boundaries, NEW from \in Nat, NEW days \in Nat
  PROVE  /\ Care!Extension(b, from, days) \in EventRows /\ EventKept(Care!Extension(b, from, days))
         /\ Care!Extension(b, from, days).base = b /\ Care!Extension(b, from, days).from = from
         /\ Care!Extension(b, from, days).days = days /\ Care!Extension(b, from, days).state = "active"
         /\ Care!Extension(b, from, days) # Care!NoEvent
BY DEF Care!Extension, EventRows, EventKept, Care!NoEvent

LEMMA DiscountRow ==
  /\ Care!Discount \in EventRows /\ EventKept(Care!Discount) /\ Care!Discount.state = "none"
  /\ Care!Discount # Care!NoEvent
BY DEF Care!Discount, EventRows, EventKept, Care!NoEvent, Care!NoDay

(* What a row becomes when it is written.                                     *)
LEMMA RowDiscounted ==
  ASSUME NEW r \in Customers, NEW v \in Nat, NEW t, t = [r EXCEPT !.next = TRUE, !.version = v]
  PROVE  t \in Customers /\ t.at = r.at /\ t.bills = r.bills
BY DEF Customers

(* A benefit that is granted: what becomes of each customer's row and event.  *)
LEMMA Granted ==
  ASSUME CareInv, NEW q \in calls, Care!RecordCustomerBenefits(q), Care!Grantable(q), NEW s \in Accounts
  PROVE  /\ server'[s] \in Customers /\ server'[s].bills = server[s].bills
         /\ \A c \in Boundaries : server[s].at[c] \in server[s].bills => server'[s].at[c] = server[s].at[c]
         /\ \A k \in Care!Keys : log'[k][s] \in EventRows /\ EventKept(log'[k][s])
         /\ Scheduled(server'[s], [k \in Care!Keys |-> log'[k][s]])
         /\ s \notin q.ids => server'[s] = server[s]
         /\ s \in q.ids => /\ log[q.key][s] = Care!NoEvent /\ log'[q.key][s] # Care!NoEvent
                           /\ IF q.kind = "extension"
                              THEN Care!Due(server[s]) = q.due[s] /\ Care!Due(server'[s]) = q.until
                              ELSE Care!Due(server'[s]) = Care!Due(server[s])
<1> DEFINE r == server[s]
           e == EventsOf(s)
           f == [k \in Care!Keys |-> log'[k][s]]
           b == Care!FirstUnpaid(r)
<1>0. /\ q \in CareCalls /\ q.key \in Care!Keys /\ q.until \in Nat /\ q.due \in [Accounts -> Nat]
      /\ q.kind = "extension" => q.until \in Care!Days /\ \A t \in q.ids : q.due[t] < q.until
      /\ q.kind # "revision"
  BY Zenon DEF CareInv, CareWishes, CareWish, CareCalls, Care!Snapshots, Care!RecordCustomerBenefits
<1>1. /\ r \in Customers /\ Scheduled(r, e) /\ e \in [Care!Keys -> EventRows] /\ r.at \in Schedules
      /\ Care!Due(r) \in Nat /\ r.version \in Nat /\ log \in [Care!Keys -> [Accounts -> EventRows]]
      /\ \A k \in Care!Keys : log[k][s] \in EventRows /\ EventKept(log[k][s]) /\ e[k] = log[k][s]
      /\ r.at[LastBoundary] \notin r.bills /\ Spaced(r.at) /\ Fits(r.at, e)
  BY CareFields DEF CareInv, CareServer, Customers, Scheduled
<1> HIDE DEF e
<1>2. /\ server' = [t \in Accounts |-> IF t \in q.ids THEN Care!Given(q, t) ELSE server[t]]
      /\ log' = [log EXCEPT ![q.key] = [t \in Accounts |-> IF t \in q.ids THEN Care!Entry(q, t) ELSE @[t]]]
  BY Zenon DEF Care!RecordCustomerBenefits
<1>3. server'[s] = IF s \in q.ids THEN Care!Given(q, s) ELSE r
  BY <1>2, Zenon
<1>4. log'[q.key][s] = IF s \in q.ids THEN Care!Entry(q, s) ELSE log[q.key][s]
  BY <1>0, <1>1, <1>2, Zenon
<1>5. \A k \in Care!Keys \ {q.key} : log'[k] = log[k]
  BY <1>1, <1>2, Zenon
<1>6. CASE s \notin q.ids
  <2>1. server'[s] = r /\ \A k \in Care!Keys : log'[k][s] = log[k][s]
    BY <1>3, <1>4, <1>5, <1>6
  <2>2. f = e
    BY <2>1 DEF e, EventsOf
  <2> QED  BY <1>1, <1>6, <2>1, <2>2
<1>7. CASE s \in q.ids
  <2>1. log[q.key][s] = Care!NoEvent
    BY <1>1, <1>0, <1>7 DEF Care!Grantable, Care!Recorded, EventKept
  <2>2. e[q.key].state # "active"
    BY <1>0, <1>1, <2>1 DEF Care!NoEvent
  <2>3. CASE q.kind = "extension"
    <3> DEFINE days == Care!DaysGiven(q, s)
               at == Care!Shifted(r.at, b, days)
    <3>1. Care!Due(r) = q.due[s] /\ q.due[s] < q.until /\ \A bill \in r.bills : bill < Care!Due(r)
      BY <1>0, <1>7, <2>3 DEF Care!Grantable, Care!AsReviewed, Care!NothingPaidAhead
    <3>2. days \in Nat /\ days > 0 /\ Care!Due(r) + days = q.until
      BY <1>0, <1>1, <3>1 DEF Care!DaysGiven
    <3>3. b \in Boundaries /\ Care!Due(r) = r.at[b]
      BY <1>1, FirstBoundary
    <3>4. log'[q.key][s] = Care!Extension(b, Care!Due(r), days)
      BY <1>4, <1>7, <2>3 DEF Care!Entry
    <3>5. server'[s] = [r EXCEPT !.at = at, !.version = r.version + 1]
      BY <1>1, <1>3, <1>7, <2>3, Zenon DEF Care!Given, Customers
    <3>14. Care!FirstUnpaid(r) >= b
      <4>1. b \in Nat /\ Care!FirstUnpaid(r) = b
        BY <3>3, BoundaryRange
      <4> HIDE DEF b
      <4> QED  BY <4>1
    <3> HIDE DEF days, b
    <3>6. /\ log'[q.key][s] \in EventRows /\ EventKept(log'[q.key][s]) /\ log'[q.key][s] # Care!NoEvent
          /\ log'[q.key][s].base = b /\ log'[q.key][s].from = r.at[b] /\ log'[q.key][s].days = days
      BY <1>1, <3>2, <3>3, <3>4, ExtensionRow
    <3>7. \A k \in Care!Keys : log'[k][s] \in EventRows /\ EventKept(log'[k][s])
      BY <1>1, <1>5, <3>6
    <3>8. /\ f \in [Care!Keys -> EventRows] /\ f[q.key] = log'[q.key][s]
          /\ \A l \in Care!Keys \ {q.key} : f[l] = e[l]
      BY <1>0, <1>1, <1>5, <3>7
    <3> HIDE DEF f
    <3>a. f[q.key].base = b /\ f[q.key].from = r.at[b] /\ f[q.key].days = days
      BY <3>6, <3>8
    <3>b. at = Care!Shifted(r.at, b, days)
      OBVIOUS
    <3>10. at[b] = r.at[b] + days
      BY <1>1, <3>3, ShiftedDates, BoundaryRange
    <3> HIDE DEF at
    <3>9. at \in Schedules /\ Spaced(at) /\ Fits(at, f)
      BY <1>0, <1>1, <2>2, <3>2, <3>3, <3>8, <3>a, <3>b, ExtensionAdded, ZenonT(60)
    <3>11. server'[s] \in Customers /\ server'[s].at = at /\ server'[s].bills = r.bills
      <4> DEFINE v == r.version + 1
      <4>1. v \in Nat /\ r \in Customers
        BY <1>1
      <4>2. server'[s] = [r EXCEPT !.at = at, !.version = v]
        BY <3>5
      <4> HIDE DEF v, r
      <4>3. server'[s] \in Customers /\ server'[s].at = at /\ server'[s].bills = r.bills
        BY <3>9, <4>1, <4>2 DEF Customers
      <4> QED  BY <4>3 DEF r
    <3>12. r.at[b] \in Nat /\ r.at[b] <= r.at[b] /\ r.at[b] <= server'[s].at[b] /\ days \in Int
      BY <1>1, <3>2, <3>3, <3>10, <3>11
    <3>13. /\ \A c \in Boundaries : r.at[c] \in r.bills => server'[s].at[c] = r.at[c]
           /\ server'[s].at[LastBoundary] \notin server'[s].bills
           /\ Care!Due(server'[s]) = IF Care!FirstUnpaid(r) >= b THEN Care!Due(r) + days ELSE Care!Due(r)
      <4>1. server'[s].at = Care!Shifted(r.at, b, days)
        BY <3>11, <3>b
      <4>2. \A bill \in r.bills : bill < r.at[b]
        BY <3>1, <3>3
      <4> QED  BY <1>1, <3>3, <3>9, <3>11, <3>12, <4>1, <4>2, PaidStaysPut
    <3>15. Scheduled(server'[s], f)
      BY <3>9, <3>11, <3>13 DEF Scheduled
    <3> QED  BY <1>7, <2>1, <2>3, <3>1, <3>2, <3>6, <3>7, <3>11, <3>13, <3>14, <3>15 DEF f
  <2>4. CASE q.kind # "extension"
    <3>1. server'[s] = [r EXCEPT !.next = TRUE, !.version = r.version + 1]
      BY <1>1, <1>3, <1>7, <2>4, Zenon DEF Care!Given, Customers
    <3>2. log'[q.key][s] = Care!Discount
      BY <1>4, <1>7, <2>4 DEF Care!Entry
    <3>a. r.version + 1 \in Nat
      BY <1>1
    <3>3. server'[s] \in Customers /\ server'[s].at = r.at /\ server'[s].bills = r.bills
      BY <1>1, <3>1, <3>a, RowDiscounted, ZenonT(60)
    <3>4. \A k \in Care!Keys : log'[k][s] \in EventRows /\ EventKept(log'[k][s])
      BY <1>1, <1>5, <3>2, DiscountRow
    <3>5. \A k \in Care!Keys : f[k].state = "active" => f[k] = e[k]
      <4>1. \A k \in Care!Keys : f[k] = log'[k][s]
        OBVIOUS
      <4>2. log'[q.key][s].state # "active"
        BY <3>2, DiscountRow
      <4> HIDE DEF f
      <4> QED  BY <1>1, <1>5, <4>1, <4>2
    <3> HIDE DEF f
    <3>6. Scheduled(server'[s], f)
      BY <1>1, <3>3, <3>5, SamePlaces DEF Scheduled
    <3>7. Care!Due(server'[s]) = Care!Due(r)
      BY <3>3 DEF Care!Due, Care!FirstUnpaid, Care!Unpaid
    <3> QED  BY <1>7, <2>1, <2>4, <3>2, <3>3, <3>4, <3>6, <3>7, DiscountRow DEF f
  <2> QED  BY <2>3, <2>4
<1> QED  BY <1>6, <1>7

LEMMA Recording ==
  ASSUME CareInv, NEW q \in calls, Care!RecordCustomerBenefits(q)
  PROVE  CareInv'
<1>1. CASE ~Care!Grantable(q)
  <2>1. Care!Settled(q, "refused") /\ UNCHANGED <<server, log, shown, desk, changes>>
    BY <1>1 DEF Care!RecordCustomerBenefits, Care!Refuse
  <2>2. CareWishes' /\ CarePage'
    BY <2>1, CareSettled DEF CareInv, CarePage
  <2> QED  BY <2>1, <2>2, CareFrame
<1>2. CASE Care!Grantable(q)
  <2>1. Care!Settled(q, "done") /\ UNCHANGED <<shown, desk, changes>>
    BY <1>2, Zenon DEF Care!RecordCustomerBenefits
  <2>2. CareWishes' /\ CarePage'
    BY <2>1, CareSettled DEF CareInv, CarePage
  <2>3. q.key \in Care!Keys
    BY DEF CareInv, CareWishes, CareCalls
  <2>4. \A s \in Accounts : /\ server'[s] \in Customers
                            /\ \A k \in Care!Keys : log'[k][s] \in EventRows /\ EventKept(log'[k][s])
                            /\ Scheduled(server'[s], [k \in Care!Keys |-> log'[k][s]])
    BY <1>2, Granted
  <2>5. server' \in [Accounts -> Customers]
    <3>1. server' = [t \in Accounts |-> server'[t]]
      BY <1>2, Zenon DEF Care!RecordCustomerBenefits
    <3> QED  BY <2>4, <3>1
  <2>6. log' \in [Care!Keys -> [Accounts -> EventRows]]
    <3> DEFINE new == [t \in Accounts |-> IF t \in q.ids THEN Care!Entry(q, t) ELSE log[q.key][t]]
    <3>1. log' = [log EXCEPT ![q.key] = new] /\ log \in [Care!Keys -> [Accounts -> EventRows]]
      BY <1>2, Zenon DEF Care!RecordCustomerBenefits, CareInv, CareServer
    <3>2. new = [t \in Accounts |-> new[t]]
      OBVIOUS
    <3> HIDE DEF new
    <3>3. log'[q.key] = new
      BY <2>3, <3>1
    <3>4. new \in [Accounts -> EventRows]
      BY <2>3, <2>4, <3>2, <3>3
    <3> QED  BY <3>1, <3>4
  <2>7. EventsKept'
    BY <2>4 DEF EventsKept
  <2>8. SchedulesKept'
    BY <2>4 DEF SchedulesKept, EventsOf
  <2> QED  BY <2>2, <2>5, <2>6, <2>7, <2>8 DEF CareInv, CareServer
<1> QED  BY <1>1, <1>2

(* Two events of a customer are written.                                      *)
EventsWrite(a, b, s, x, y) == log' = [log EXCEPT ![a][s] = x, ![b][s] = y]

LEMMA EventsWritten ==
  ASSUME log \in [Care!Keys -> [Accounts -> EventRows]], NEW a \in Care!Keys, NEW b \in Care!Keys, a # b,
         NEW s \in Accounts, NEW x \in EventRows, NEW y \in EventRows,
         EventsWrite(a, b, s, x, y)
  PROVE  /\ log'[a][s] = x /\ log'[b][s] = y
         /\ \A k \in Care!Keys, t \in Accounts : (t # s \/ (k # a /\ k # b)) => log'[k][t] = log[k][t]
         /\ log' \in [Care!Keys -> [Accounts -> EventRows]]
<1> DEFINE first == [log[a] EXCEPT ![s] = x]
           second == [log[b] EXCEPT ![s] = y]
<1>1. log' = [log EXCEPT ![a] = first, ![b] = second]
  BY DEF EventsWrite
<1>2. /\ first \in [Accounts -> EventRows] /\ second \in [Accounts -> EventRows]
      /\ first[s] = x /\ second[s] = y
      /\ \A t \in Accounts \ {s} : first[t] = log[a][t] /\ second[t] = log[b][t]
  OBVIOUS
<1> HIDE DEF first, second
<1>3. /\ log'[a] = first /\ log'[b] = second
      /\ \A k \in Care!Keys : (k # a /\ k # b) => log'[k] = log[k]
      /\ log' \in [Care!Keys -> [Accounts -> EventRows]]
  BY <1>1, <1>2
<1> QED  BY <1>2, <1>3

(* An extension that is revised is the last one, and no bill is written from  *)
(* the day it was given for: what is paid lies before it.                     *)
RevisedAs(q, s) ==
  LET old == log[q.of][s]
      new == Care!Extension(old.base, server[s].at[old.base] - old.days, q.until)
  IN  /\ server' = [server EXCEPT ![s].at = Care!Shifted(@, old.base, q.until - old.days),
                                   ![s].version = @ + 1]
      /\ log' = [log EXCEPT
                   ![q.of][s].state = IF q.until = 0 THEN "revoked" ELSE "superseded",
                   ![q.key][s] = IF q.until = 0 THEN [new EXCEPT !.state = "revoked"] ELSE new]

LEMMA Revised ==
  ASSUME CareInv, NEW q \in calls, NEW s \in Accounts, q.kind = "revision",
         ~Care!Replayed(q, s), Care!Revisable(q.of, s), RevisedAs(q, s)
  PROVE  /\ CareServer' /\ EventsKept' /\ SchedulesKept'
         /\ \A t \in Accounts : t # s => server'[t] = server[t]
         /\ server'[s].bills = server[s].bills
         /\ \A c \in Boundaries : server[s].at[c] \in server[s].bills => server'[s].at[c] = server[s].at[c]
         /\ \/ Care!Due(server'[s]) = Care!Due(server[s])
            \/ Care!Due(server'[s]) = Care!Due(server[s]) + q.until - log[q.of][s].days
         /\ log[q.key][s] = Care!NoEvent /\ log'[q.key][s] # Care!NoEvent
<1> DEFINE r == server[s]
           e == EventsOf(s)
           old == log[q.of][s]
           b == old.base
           from == r.at[b] - old.days
           shift == q.until - old.days
           at == Care!Shifted(r.at, b, shift)
           ended == [old EXCEPT !.state = IF q.until = 0 THEN "revoked" ELSE "superseded"]
           new == IF q.until = 0 THEN [Care!Extension(b, from, q.until) EXCEPT !.state = "revoked"]
                  ELSE Care!Extension(b, from, q.until)
<1>0. /\ q \in CareCalls /\ q.key \in Care!Keys /\ q.of \in Care!Keys /\ q.until \in Nat
      /\ server \in [Accounts -> Customers] /\ log \in [Care!Keys -> [Accounts -> EventRows]]
  BY DEF CareInv, CareServer, CareWishes, CareWish, CareCalls
<1>1. /\ r \in Customers /\ e \in [Care!Keys -> EventRows] /\ r.at \in Schedules
      /\ r.version \in Nat /\ Care!Due(r) \in Nat
      /\ \A k \in Care!Keys : log[k][s] \in EventRows /\ EventKept(log[k][s]) /\ e[k] = log[k][s]
      /\ r.at[LastBoundary] \notin r.bills /\ Spaced(r.at) /\ Fits(r.at, e)
  BY CareFields DEF Customers, Scheduled
<1> HIDE DEF e
<1>2. /\ old \in EventRows /\ old.state = "active" /\ log[q.key][s] = Care!NoEvent
      /\ \A l \in Care!Keys : log[l][s].state = "active" =>
            log[l][s].base < old.base \/ (log[l][s].base = old.base /\ log[l][s].from <= old.from)
      /\ \A day \in r.bills : day < old.from
  BY <1>0, <1>1 DEF Care!Revisable, Care!LastActive, Care!ActiveKeys, EventKept, Care!Replayed
<1>3. q.key # q.of /\ Care!NoEvent.state = "none" /\ e[q.key].state # "active" /\ e[q.of] = old
  BY <1>0, <1>1, <1>2 DEF Care!NoEvent
<1>4. PICK off \in Places : Room(r.at, e, off)
  BY <1>1 DEF Fits
<1>5. /\ b \in Boundaries /\ old.days \in Nat /\ old.days > 0 /\ old.from \in Nat
      /\ old.from + old.days <= r.at[b] /\ r.at[b] \in Nat
  BY <1>0, <1>1, <1>2, <1>3, <1>4 DEF Room, EventRows, Schedules
<1>6. from \in Nat /\ old.from <= from /\ shift \in Int
  BY <1>0, <1>5
<1>7. /\ ended \in EventRows /\ ended.state # "active" /\ ended.kind = old.kind
  BY <1>2 DEF EventRows
<1>8. /\ new \in EventRows /\ EventKept(new) /\ new # Care!NoEvent
      /\ new.state = "active" => /\ new.base = b /\ new.from = from /\ new.days = q.until /\ q.until > 0
  <2> HIDE DEF from, b
  <2> DEFINE x == Care!Extension(b, from, q.until)
  <2>1. /\ x \in EventRows /\ x # Care!NoEvent /\ x.kind = "extension"
        /\ x.base = b /\ x.from = from /\ x.days = q.until
    BY <1>0, <1>5, <1>6, ExtensionRow DEF Care!Extension
  <2> HIDE DEF x
  <2>2. CASE q.until = 0
    <3>1. new = [x EXCEPT !.state = "revoked"]
      BY <2>2 DEF x
    <3> HIDE DEF new
    <3>2. new \in EventRows /\ new.kind = "extension" /\ new.state = "revoked"
      BY <2>1, <3>1 DEF EventRows
    <3> QED  BY <3>2 DEF EventKept, Care!NoEvent
  <2>3. CASE q.until # 0
    <3>1. new = x /\ q.until > 0
      BY <1>0, <2>3 DEF x
    <3> HIDE DEF new
    <3> QED  BY <2>1, <3>1 DEF EventKept, Care!NoEvent
  <2> QED  BY <2>2, <2>3
<1>9. EventKept(ended)
  <2>1. old.kind # "none"
    BY <1>0, <1>1, <1>2, <1>3 DEF EventKept
  <2> QED  BY <1>7, <2>1 DEF EventKept
<1>10. /\ server' = [server EXCEPT ![s] = [r EXCEPT !.at = at, !.version = r.version + 1]]
       /\ EventsWrite(q.of, q.key, s, ended, new)
  <2>1. server' = [server EXCEPT ![s].at = at, ![s].version = @ + 1]
    BY DEF RevisedAs
  <2>2. server' = [server EXCEPT ![s] = [r EXCEPT !.at = at, !.version = r.version + 1]]
    <3> HIDE DEF at
    <3> QED  BY <1>0, <1>1, <2>1 DEF Customers
  <2>3. EventsWrite(q.of, q.key, s, ended, new)
    BY <1>0, <1>2 DEF EventsWrite, RevisedAs
  <2> QED  BY <2>2, <2>3
<1> HIDE DEF ended, new
<1>11. /\ log'[q.of][s] = ended /\ log'[q.key][s] = new
       /\ \A k \in Care!Keys, t \in Accounts :
            (t # s \/ (k # q.of /\ k # q.key)) => log'[k][t] = log[k][t]
       /\ log' \in [Care!Keys -> [Accounts -> EventRows]]
  BY <1>0, <1>3, <1>7, <1>8, <1>10, EventsWritten, ZenonT(60)
<1> DEFINE f == [k \in Care!Keys |-> log'[k][s]]
<1>12. /\ f \in [Care!Keys -> EventRows] /\ f[q.of] = ended /\ f[q.key] = new
       /\ \A l \in Care!Keys \ {q.key, q.of} : f[l] = e[l]
  <2>1. \A k \in Care!Keys : f[k] = log'[k][s] /\ log'[k][s] \in EventRows
    BY <1>11
  <2>2. f \in [Care!Keys -> EventRows]
    BY <2>1
  <2> HIDE DEF f
  <2> QED  BY <1>0, <1>1, <1>11, <2>1, <2>2
<1> HIDE DEF f
<1>13. at \in Schedules /\ Spaced(at) /\ Fits(at, f) /\ old.from <= at[b]
  <2>1. \A l \in Care!Keys : e[l].state = "active" =>
          \/ e[l].base < e[q.of].base
          \/ e[l].base = e[q.of].base /\ e[l].from <= e[q.of].from
    BY <1>1, <1>2, <1>3
  <2>2. f[q.of].state # "active"
    BY <1>7, <1>12
  <2>3. f[q.key].state = "active" => /\ f[q.key].base = e[q.of].base
                                     /\ f[q.key].from = r.at[e[q.of].base] - e[q.of].days
                                     /\ f[q.key].days = q.until /\ q.until > 0
    BY <1>3, <1>8, <1>12
  <2>4. e[q.of].state = "active" /\ at = Care!Shifted(r.at, e[q.of].base, q.until - e[q.of].days)
    BY <1>2, <1>3
  <2> HIDE DEF at, from, shift
  <2>5. at \in Schedules /\ Spaced(at) /\ Fits(at, f) /\ e[q.of].from <= at[e[q.of].base]
    BY <1>0, <1>1, <1>3, <1>12, <2>1, <2>2, <2>3, <2>4, ExtensionReplaced, ZenonT(60)
  <2> QED  BY <1>3, <2>5
<1> HIDE DEF at, from
<1> DEFINE t == [r EXCEPT !.at = at, !.version = r.version + 1]
<1>14. t \in Customers /\ t.at = at /\ t.bills = r.bills
  <2> DEFINE v == r.version + 1
  <2>1. v \in Nat /\ r \in Customers
    BY <1>1
  <2>2. t = [r EXCEPT !.at = at, !.version = v]
    OBVIOUS
  <2> HIDE DEF v, t, r
  <2>3. t \in Customers /\ t.at = at /\ t.bills = r.bills
    BY <1>13, <2>1, <2>2 DEF Customers
  <2> QED  BY <2>3 DEF r
<1> HIDE DEF t
<1>15. /\ server'[s] = t /\ server' \in [Accounts -> Customers]
       /\ \A u \in Accounts \ {s} : server'[u] = server[u]
  <2>1. server' = [server EXCEPT ![s] = t]
    BY <1>10 DEF t
  <2> QED  BY <1>0, <1>14, <2>1
<1>16. /\ \A c \in Boundaries : r.at[c] \in r.bills => t.at[c] = r.at[c]
       /\ t.at[LastBoundary] \notin t.bills
       /\ Care!Due(t) = IF Care!FirstUnpaid(r) >= b THEN Care!Due(r) + shift ELSE Care!Due(r)
  <2>1. t.at = Care!Shifted(r.at, b, shift) /\ Spaced(t.at)
    BY <1>13, <1>14 DEF at
  <2>2. old.from <= r.at[b] /\ old.from <= t.at[b]
    BY <1>5, <1>13, <1>14
  <2> HIDE DEF shift, b
  <2> QED  BY <1>1, <1>2, <1>5, <1>6, <1>14, <2>1, <2>2, PaidStaysPut
<1>17. Care!Due(t) = Care!Due(r) \/ Care!Due(t) = Care!Due(r) + q.until - old.days
  BY <1>0, <1>1, <1>5, <1>16
<1>18. EventsKept'
  BY <1>0, <1>8, <1>9, <1>11, Zenon DEF CareInv, EventsKept
<1>19. SchedulesKept'
  <2> SUFFICES ASSUME NEW u \in Accounts
               PROVE  Scheduled(server'[u], [k \in Care!Keys |-> log'[k][u]])
    BY DEF SchedulesKept, EventsOf
  <2>1. CASE u = s
    BY <1>13, <1>14, <1>15, <1>16, <2>1 DEF Scheduled, f
  <2>2. CASE u # s
    <3>1. server'[u] = server[u] /\ \A k \in Care!Keys : log'[k][u] = log[k][u]
      BY <1>11, <1>15, <2>2
    <3>2. [k \in Care!Keys |-> log'[k][u]] = EventsOf(u)
      BY <3>1 DEF EventsOf
    <3> QED  BY <3>1, <3>2, CareFields
  <2> QED  BY <2>1, <2>2
<1>20. CareServer'
  BY <1>11, <1>15 DEF CareServer
<1> QED  BY <1>2, <1>8, <1>11, <1>14, <1>15, <1>16, <1>17, <1>18, <1>19, <1>20

(* A call for a revision does nothing to the server, or just that.            *)
LEMMA RevisionMade ==
  ASSUME CareInv, NEW q \in calls, Care!ReviseCustomerBenefitExtension(q)
  PROVE  /\ q.kind = "revision" /\ q.state = "sent" /\ UNCHANGED <<shown, desk, changes>>
         /\ Care!Settled(q, "done") \/ Care!Settled(q, "refused")
         /\ \/ UNCHANGED <<server, log>>
            \/ \E s \in q.ids : /\ s \in Accounts /\ ~Care!Replayed(q, s) /\ Care!Revisable(q.of, s)
                                /\ RevisedAs(q, s)
<1>1. q.kind = "revision" /\ q.state = "sent" /\ UNCHANGED <<shown, desk, changes>>
  BY DEF Care!ReviseCustomerBenefitExtension
<1>2. q.ids \subseteq Accounts
  BY SMTT(30) DEF CareInv, CareWishes, CareCalls
<1>3. PICK s \in q.ids :
        \/ Care!Replayed(q, s) /\ Care!SameWish(q, s) /\ Care!Settled(q, "done") /\ UNCHANGED <<server, log>>
        \/ Care!Replayed(q, s) /\ ~Care!SameWish(q, s) /\ Care!Refuse(q)
        \/ ~Care!Replayed(q, s) /\ ~Care!Revisable(q.of, s) /\ Care!Refuse(q)
        \/ ~Care!Replayed(q, s) /\ Care!Revisable(q.of, s) /\ RevisedAs(q, s) /\ Care!Settled(q, "done")
  BY DEF Care!ReviseCustomerBenefitExtension, RevisedAs
<1> QED  BY <1>1, <1>2, <1>3 DEF Care!Refuse

LEMMA Revising ==
  ASSUME CareInv, NEW q \in calls, Care!ReviseCustomerBenefitExtension(q)
  PROVE  CareInv'
<1>1. CareWishes' /\ CarePage'
  BY RevisionMade, CareSettled DEF CareInv, CarePage
<1>2. CASE UNCHANGED <<server, log>>
  BY <1>1, <1>2, CareFrame
<1>3. CASE \E s \in q.ids : /\ s \in Accounts /\ ~Care!Replayed(q, s) /\ Care!Revisable(q.of, s)
                            /\ RevisedAs(q, s)
  <2>1. q.kind = "revision"
    BY RevisionMade
  <2>2. CareServer' /\ EventsKept' /\ SchedulesKept'
    BY <1>3, <2>1, Revised
  <2> QED  BY <1>1, <2>2 DEF CareInv
<1> QED  BY <1>2, <1>3, RevisionMade

(* What other pages do: the schedule stays as it is, and the last boundary is *)
(* not paid.                                                                  *)
LEMMA CareElsewhere ==
  ASSUME CareInv, NEW s \in Accounts, NEW r \in Customers, Care!Elsewhere(s, r), r.at = server[s].at,
         r.at[LastBoundary] \notin r.bills
  PROVE  CareInv' /\ \A t \in Accounts : server'[t].at = server[t].at
<1>1. server' = [server EXCEPT ![s] = r] /\ UNCHANGED <<log, shown, desk, calls>> /\ changes' \in CareChanges
  BY CareBounds DEF Care!Elsewhere, CareInv, CarePage, CareChanges
<1>2. server' \in [Accounts -> Customers] /\ server'[s] = r
      /\ \A t \in Accounts \ {s} : server'[t] = server[t]
  BY <1>1 DEF CareInv, CareServer
<1>3. CareServer' /\ CarePage' /\ CareWishes' /\ EventsKept'
  BY <1>1, <1>2 DEF CareInv, CareServer, CarePage, CareWishes, EventsKept
<1>4. ASSUME NEW t \in Accounts
      PROVE  Scheduled(server'[t], [k \in Care!Keys |-> log'[k][t]]) /\ server'[t].at = server[t].at
  <2>1. [k \in Care!Keys |-> log'[k][t]] = EventsOf(t)
    BY <1>1 DEF EventsOf
  <2>2. Scheduled(server[t], EventsOf(t))
    BY CareFields
  <2>3. CASE t = s
    BY <1>2, <2>1, <2>2, <2>3 DEF Scheduled
  <2>4. CASE t # s
    BY <1>2, <2>1, <2>2, <2>4
  <2> QED  BY <2>3, <2>4
<1>5. SchedulesKept'
  BY <1>4 DEF SchedulesKept, EventsOf
<1> QED  BY <1>3, <1>4, <1>5 DEF CareInv

LEMMA CareOthers ==
  ASSUME CareInv, Care!OtherPages
  PROVE  /\ CareInv' /\ changes' # changes
         /\ \A t \in Accounts : server'[t].at = server[t].at
<1>0. PICK s \in Accounts : \/ Care!DuePaid(s) \/ Care!BillTakenBack(s)
                            \/ Care!SubscriptionEdited(s) \/ Care!CaseOpensOrCloses(s)
  BY DEF Care!OtherPages
<1> DEFINE r == server[s]
<1>1. /\ r \in Customers /\ r.version + 1 \in Nat /\ r.next \in BOOLEAN /\ r.case \in BOOLEAN
      /\ r.at \in Schedules /\ r.bills \subseteq Nat
      /\ Spaced(r.at) /\ r.at[LastBoundary] \notin r.bills
  BY CareFields DEF Customers, Scheduled
<1>2. PICK t \in Customers : /\ Care!Elsewhere(s, t) /\ t.at = r.at
                             /\ t.at[LastBoundary] \notin t.bills
  <2>1. CASE Care!DuePaid(s)
    <3>1. PICK b \in Care!Boundaries \ {MaxPeriods + 1}, next \in {FALSE, r.next} :
            Care!Elsewhere(s, [r EXCEPT !.bills = r.bills \cup {r.at[b]}, !.next = next,
                                        !.version = r.version + 1])
      BY <1>1, <2>1 DEF Care!DuePaid, Customers
    <3>2. /\ b \in Boundaries /\ b < LastBoundary /\ next \in BOOLEAN
      <4>1. b \in Boundaries /\ b # LastBoundary
        BY DEF Boundaries, LastBoundary
      <4>2. b \in Nat /\ LastBoundary \in Nat /\ b <= LastBoundary
        BY <4>1, BoundaryRange
      <4>3. b < LastBoundary
        BY <4>1, <4>2
      <4>4. next \in BOOLEAN
        BY <1>1, Zenon
      <4> QED  BY <4>1, <4>3, <4>4
    <3>3. r.at[b] \in Nat /\ r.at[LastBoundary] \in Nat /\ r.at[b] < r.at[LastBoundary]
      BY <1>1, <3>2, BoundaryRange DEF Schedules, Spaced
    <3> DEFINE bills == r.bills \cup {r.at[b]}
               t == [r EXCEPT !.bills = bills, !.next = next, !.version = r.version + 1]
    <3>4. bills \subseteq Nat /\ r.at[LastBoundary] \notin bills
      BY <1>1, <3>3
    <3> HIDE DEF bills
    <3>5. t \in Customers /\ t.at = r.at /\ t.bills = bills
      BY <1>1, <3>2, <3>4 DEF Customers
    <3>6. Care!Elsewhere(s, t)
      BY <3>1 DEF bills
    <3> HIDE DEF t
    <3> QED  BY <3>4, <3>5, <3>6
  <2>2. CASE Care!BillTakenBack(s)
    <3>1. PICK day \in r.bills :
            Care!Elsewhere(s, [r EXCEPT !.bills = r.bills \ {day}, !.version = r.version + 1])
      BY <1>1, <2>2 DEF Care!BillTakenBack, Customers
    <3> DEFINE t == [r EXCEPT !.bills = r.bills \ {day}, !.version = r.version + 1]
    <3>2. t \in Customers /\ t.at = r.at /\ t.bills = r.bills \ {day}
      BY <1>1 DEF Customers
    <3>3. Care!Elsewhere(s, t)
      BY <3>1
    <3> HIDE DEF t
    <3> QED  BY <1>1, <3>2, <3>3
  <2>3. CASE Care!SubscriptionEdited(s)
    <3> DEFINE t == [r EXCEPT !.next = ~r.next, !.version = r.version + 1]
    <3>1. Care!Elsewhere(s, t)
      BY <1>1, <2>3 DEF Care!SubscriptionEdited, Customers
    <3>2. t \in Customers /\ t.at = r.at /\ t.bills = r.bills
      BY <1>1 DEF Customers
    <3> HIDE DEF t
    <3> QED  BY <1>1, <3>1, <3>2
  <2>4. CASE Care!CaseOpensOrCloses(s)
    <3> DEFINE t == [r EXCEPT !.case = ~r.case]
    <3>1. Care!Elsewhere(s, t)
      BY <1>1, <2>4 DEF Care!CaseOpensOrCloses, Customers
    <3>2. t \in Customers /\ t.at = r.at /\ t.bills = r.bills
      BY <1>1 DEF Customers
    <3> HIDE DEF t
    <3> QED  BY <1>1, <3>1, <3>2
  <2> QED  BY <1>0, <2>1, <2>2, <2>3, <2>4
<1>3. changes' = changes + 1 /\ changes < MaxChanges
  BY <1>2 DEF Care!Elsewhere
<1>4. changes \in Nat
  BY CareBounds DEF CareInv, CarePage, CareChanges
<1> QED  BY <1>2, <1>3, <1>4, CareElsewhere

LEMMA CareStep ==
  ASSUME CareInv, Care!Next \/ UNCHANGED <<server, log, shown, desk, calls, changes>>
  PROVE  CareInv'
<1>1. CASE Care!Operator
  <2>1. CASE Care!SubmitBenefit \/ Care!SubmitRevision
    BY <2>1, CareSubmits
  <2>2. CASE Care!Refetch
    BY <2>2, CareRefetch
  <2> QED  BY <1>1, <2>1, <2>2, CareForms DEF Care!Operator
<1>2. CASE Care!Server
  BY <1>2, Recording, Revising, CareAnswers DEF Care!Server
<1>3. CASE Care!OtherPages
  BY <1>3, CareOthers
<1>4. CASE UNCHANGED <<server, log, shown, desk, calls, changes>>
  BY <1>4, CareFrame DEF CareInv, CarePage, CareWishes
<1> QED  BY <1>1, <1>2, <1>3, <1>4 DEF Care!Next

(* Who writes a schedule.                                                     *)
LEMMA CareWrites ==
  ASSUME CareInv, Care!Next \/ UNCHANGED <<server, log, shown, desk, calls, changes>>
  PROVE  \/ UNCHANGED server
         \/ Care!OtherPages
         \/ \E q \in calls : Care!RecordCustomerBenefits(q) /\ Care!Grantable(q)
         \/ \E q \in calls :
              /\ Care!ReviseCustomerBenefitExtension(q) /\ q.kind = "revision" /\ q.state = "sent"
                             /\ \E s \in q.ids : /\ s \in Accounts /\ ~Care!Replayed(q, s)
                                                 /\ Care!Revisable(q.of, s) /\ RevisedAs(q, s)
<1>1. Care!Operator => UNCHANGED server
  BY DEF Care!Operator, Care!ToggleCandidate, Care!ToggleVisible, Care!SelectRecommended,
     Care!OpenBenefitDialog, Care!CloseForm, Care!SubmitBenefit, Care!OpenHistory, Care!CloseHistory,
     Care!OpenRevision, Care!CloseRevision, Care!SubmitRevision, Care!Refetch, Care!StaysOnPage
<1>2. ASSUME NEW q \in calls, Care!RecordCustomerBenefits(q)
      PROVE  UNCHANGED server \/ Care!Grantable(q)
  BY <1>2, Zenon DEF Care!RecordCustomerBenefits, Care!Refuse
<1>3. ASSUME NEW q \in calls, Care!CallFails(q) \/ Care!CallAnswered(q)
      PROVE  UNCHANGED server
  BY <1>3 DEF Care!CallFails, Care!CallAnswered
<1> QED  BY <1>1, <1>2, <1>3, RevisionMade DEF Care!Next, Care!Server

LEMMA DueDatesAsAsked ==
  ASSUME CareInv, Care!Next \/ UNCHANGED <<server, log, shown, desk, calls, changes>>
  PROVE  Care!DueDateStep
<1> SUFFICES ASSUME NEW s \in Accounts, Care!Due(server'[s]) # Care!Due(server[s]), UNCHANGED changes
             PROVE  \E q \in calls :
                      /\ q.state = "sent" /\ s \in q.ids
                      /\ log[q.key][s] = Care!NoEvent /\ log'[q.key][s] # Care!NoEvent
                      /\ IF q.kind = "revision"
                         THEN Care!Due(server'[s]) = Care!Due(server[s]) + q.until - log[q.of][s].days
                         ELSE Care!Due(server[s]) = q.due[s] /\ Care!Due(server'[s]) = q.until
  BY DEF Care!DueDateStep, Care!Due, Care!FirstUnpaid, Care!Unpaid
<1>1. server'[s] # server[s]
  OBVIOUS
<1>2. CASE \E q \in calls : Care!RecordCustomerBenefits(q) /\ Care!Grantable(q)
  <2>1. PICK q \in calls : Care!RecordCustomerBenefits(q) /\ Care!Grantable(q)
    BY <1>2
  <2>2. q.kind # "revision" /\ q.state = "sent"
    BY <2>1, Zenon DEF Care!RecordCustomerBenefits
  <2> QED  BY <1>1, <2>1, <2>2, Granted
<1>3. CASE \E q \in calls :
              /\ Care!ReviseCustomerBenefitExtension(q) /\ q.kind = "revision" /\ q.state = "sent"
                            /\ \E t \in q.ids : /\ t \in Accounts /\ ~Care!Replayed(q, t)
                                                /\ Care!Revisable(q.of, t) /\ RevisedAs(q, t)
  <2>1. PICK q \in calls : /\ q.kind = "revision" /\ q.state = "sent"
                           /\ \E t \in q.ids : /\ t \in Accounts /\ ~Care!Replayed(q, t)
                                               /\ Care!Revisable(q.of, t) /\ RevisedAs(q, t)
    BY <1>3
  <2>2. PICK t \in q.ids : /\ t \in Accounts /\ ~Care!Replayed(q, t)
                           /\ Care!Revisable(q.of, t) /\ RevisedAs(q, t)
    BY <2>1
  <2>3. /\ \A u \in Accounts : u # t => server'[u] = server[u]
        /\ \/ Care!Due(server'[t]) = Care!Due(server[t])
           \/ Care!Due(server'[t]) = Care!Due(server[t]) + q.until - log[q.of][t].days
        /\ log[q.key][t] = Care!NoEvent /\ log'[q.key][t] # Care!NoEvent
    BY <2>1, <2>2, Revised
  <2>4. s = t
    BY <1>1, <2>3
  <2> QED  BY <2>1, <2>2, <2>3, <2>4
<1>4. ~Care!OtherPages
  BY CareOthers
<1>5. ~UNCHANGED server
  BY <1>1
<1> QED  BY <1>2, <1>3, <1>4, <1>5, CareWrites

LEMMA PaidDatesStay ==
  ASSUME CareInv, Care!Next \/ UNCHANGED <<server, log, shown, desk, calls, changes>>
  PROVE  Care!PaidStep
<1> SUFFICES ASSUME NEW s \in Accounts, NEW b \in Boundaries, server[s].at[b] \in server[s].bills
             PROVE  server'[s].at[b] = server[s].at[b]
  BY DEF Care!PaidStep, Boundaries
<1>1. CASE UNCHANGED server \/ Care!OtherPages
  BY <1>1, CareOthers
<1>2. CASE \E q \in calls : Care!RecordCustomerBenefits(q) /\ Care!Grantable(q)
  BY <1>2, Granted
<1>3. CASE \E q \in calls : /\ q.kind = "revision"
                            /\ \E t \in q.ids : /\ t \in Accounts /\ ~Care!Replayed(q, t)
                                                /\ Care!Revisable(q.of, t) /\ RevisedAs(q, t)
  <2>1. PICK q \in calls : /\ q.kind = "revision"
                           /\ \E t \in q.ids : /\ t \in Accounts /\ ~Care!Replayed(q, t)
                                               /\ Care!Revisable(q.of, t) /\ RevisedAs(q, t)
    BY <1>3
  <2>2. PICK t \in q.ids : /\ t \in Accounts /\ ~Care!Replayed(q, t)
                           /\ Care!Revisable(q.of, t) /\ RevisedAs(q, t)
    BY <2>1
  <2>3. /\ \A u \in Accounts : u # t => server'[u] = server[u]
        /\ \A c \in Boundaries : server[t].at[c] \in server[t].bills => server'[t].at[c] = server[t].at[c]
    BY <2>1, <2>2, Revised
  <2> QED  BY <2>3
<1> QED  BY <1>1, <1>2, <1>3, CareWrites

LEMMA CareAlways == Spec => [](page = "care" => CareInv)
<1>1. Init => (page = "care" => CareInv)
  BY CareStart DEF Init
<1>2. (page = "care" => CareInv) /\ [Next]_vars => (page = "care" => CareInv)'
  BY CareStep DEF Next, vars
<1> QED  BY <1>1, <1>2, PTL DEF Spec

(* No extension, given, changed or taken back, moves a boundary that is paid, *)
(* for any number of forms, of repeated calls, of bills written out of order  *)
(* and of bills taken back under extensions in force: whoever shifts the      *)
(* schedule shifts it behind the last bill (insertDueExtension,               *)
(* ReviseCustomerBenefitExtension).                                           *)
THEOREM PaidDatesAreNotMoved == Spec => PaidPeriodsStandStill
<1>1. (page = "care" => CareInv) /\ [Next]_vars => [page = "care" => Care!PaidStep]_vars
  BY PaidDatesStay DEF Next, vars
<1>2. Spec => [][page = "care" => Care!PaidStep]_vars
  BY <1>1, CareAlways, PTL DEF Spec
<1> QED  BY <1>2, PTL DEF PaidPeriodsStandStill

(* A due date moves only from the date a form was opened with to the one that *)
(* was asked for, or by the days an extension is made longer or shorter, and  *)
(* once for each opening of a form: a wish that is sent again after a lost    *)
(* answer finds its key recorded.                                             *)
THEOREM DueDatesMoveOnce == Spec => DueDateIsTheOneAskedFor
<1>1. (page = "care" => CareInv) /\ [Next]_vars => [page = "care" => Care!DueDateStep]_vars
  BY DueDatesAsAsked DEF Next, vars
<1>2. Spec => [][page = "care" => Care!DueDateStep]_vars
  BY <1>1, CareAlways, PTL DEF Spec
<1> QED  BY <1>2, PTL DEF DueDateIsTheOneAskedFor

LEMMA CareTypes ==
  ASSUME CareInv
  PROVE  Care!TypeOK
<1>1. server \in [Accounts -> Customers] /\ log \in [Care!Keys -> [Accounts -> EventRows]]
      /\ shown \in CareViews /\ desk \in CareDesks /\ calls \subseteq CareCalls /\ changes \in CareChanges
  BY DEF CareInv, CareServer, CarePage, CareWishes
<1>2. CareDesks = [ticked : SUBSET Accounts, history : BOOLEAN, last : CareKeys,
                   form : BenefitForms, revision : RevisionForms]
  BY DEF CareDesks
<1> QED  BY <1>1, <1>2
         DEF Care!TypeOK, Customers, Schedules, Boundaries, EventRows, CareViews, BenefitForms, RevisionForms,
             CareCalls, CareChanges, CareKeys

-----------------------------------------------------------------------------
(* THE OWNER ACCOUNTS *)

SomeSeats == 1 .. MaxSeats
UsedSeats == 0 .. MaxSeats
Cooldowns == 0 .. AccountDays + MaxFreeze
OwnerRows == [opened : Openings, ledger : SUBSET Nat, seats : SomeSeats, used : UsedSeats, zero : BOOLEAN,
              paused : BOOLEAN, banned : BOOLEAN, until : Cooldowns]
OwnerViews == [Accounts -> [paused : BOOLEAN, banned : BOOLEAN, renewal : Nat, cooling : BOOLEAN]]
OwnerCalls == [kind : {"update", "renew", "availability", "ban", "freeze", "release"}, account : Accounts,
               opened : Nat, seats : Nat, zero : BOOLEAN, day : Nat, after : Nat, paused : BOOLEAN,
               held : BOOLEAN, state : {"sent", "read", "unregistered", "checked", "done"}]
OwnerDesks == [dialog : {"none", "account", "renewal", "ban", "freeze", "release"},
               account : Accounts \cup {Nobody}, day : Nat]
OwnerRuns == [opened : Openings \cup {0}, today : 0 .. AccountDays, after : Nat, day : Nat]

OwnerServer ==
  /\ server \in [row : [Accounts -> OwnerRows], day : Nat, run : [Accounts -> OwnerRuns]]
  /\ server.day <= AccountDays
OwnerPage == /\ shown \in OwnerViews /\ desk \in OwnerDesks
             /\ desk.dialog # "none" => desk.account \in Accounts
             /\ calls \subseteq OwnerCalls

(* The days of a ledger are those of the opening date and its months, and     *)
(* none is further ahead than may be registered.                              *)
Anniversary(opened, day) == \E k \in Nat : day = opened + k * Month
LastRenewal == AccountDays + Notice
Regular(r) ==
  /\ r.opened \in r.ledger
  /\ \A d \in r.ledger : Anniversary(r.opened, d) /\ d <= LastRenewal

(* A renewal that was worked out is of the opening date it was worked out     *)
(* with; if the period before it was of that date as well, it is the month    *)
(* after.                                                                     *)
WorkedOut(opened, after, day) ==
  /\ opened \in Openings /\ Anniversary(opened, day) /\ day <= LastRenewal
  /\ Anniversary(opened, after) => day - Month = after

OwnerCall(q) ==
  /\ q.kind = "update" => (q.opened \in Openings /\ q.seats \in SomeSeats)
  /\ q.state \in {"read", "unregistered"} => q.opened \in Openings
  /\ q.state = "checked" => WorkedOut(q.opened, q.after, q.day)
OwnerRun(run) ==
  run.day # 0 => (run.day <= run.today /\ WorkedOut(run.opened, run.after, run.day))

LedgersInv ==
  /\ \A a \in Accounts : Regular(server.row[a]) /\ OwnerRun(server.run[a])
  /\ \A q \in calls : OwnerCall(q)

OwnersInv == OwnerServer /\ OwnerPage /\ LedgersInv

(* What a row gains is its opening date, or follows what is in its ledger, or *)
(* was worked out from a period that has gone.                                *)
Follows(a, t) ==
  \A d \in t.ledger \ server.row[a].ledger :
    d = t.opened \/ d - Month \in server.row[a].ledger \/ Owners!Overtaken(a, d)
EntriesFollow == \A a \in Accounts : Follows(a, server'.row[a])

LEMMA OwnerBounds ==
  /\ Month \in Nat /\ Month > 0 /\ Notice \in Nat /\ Notice <= Month /\ AccountDays \in Nat /\ AccountDays > 0
  /\ LastRenewal \in Nat /\ AccountDays <= LastRenewal /\ Nobody \notin Accounts
  /\ \A o \in Openings : o \in Nat /\ o > 0 /\ o <= AccountDays
BY PageAssumptions DEF Owners!AccountsAssumption, LastRenewal

LEMMA OwnerRanges ==
  /\ MaxSeats \in SomeSeats /\ 1 \in UsedSeats /\ SomeSeats \subseteq Nat /\ 0 \in Cooldowns
  /\ \A day \in Nat : \A n \in 0 .. MaxFreeze : day <= AccountDays => day + n \in Cooldowns
  /\ 1 \in 0 .. MaxFreeze
BY OwnerBounds, PageAssumptions DEF SomeSeats, UsedSeats, Cooldowns

LEMMA Months ==
  /\ \A j, k \in Nat : k <= j => k * Month <= j * Month
  /\ \A j \in Nat : j <= j * Month /\ j * Month \in Nat /\ (j + 1) * Month = j * Month + Month
  /\ \A k \in Nat : (k * Month) % Month = 0
<1>1. ASSUME NEW j \in Nat, NEW k \in Nat, k <= j
      PROVE  k * Month <= j * Month
  BY <1>1, OwnerBounds
<1>2. ASSUME NEW j \in Nat
      PROVE  j <= j * Month /\ j * Month \in Nat /\ (j + 1) * Month = j * Month + Month
  BY OwnerBounds
<1>3. ASSUME NEW k \in Nat
      PROVE  (k * Month) % Month = 0
  BY OwnerBounds
<1> QED  BY <1>1, <1>2, <1>3

LEMMA FirstMonth ==
  ASSUME NEW opened \in Openings
  PROVE  Anniversary(opened, opened)
<1>1. opened = opened + 0 * Month
  BY OwnerBounds
<1> QED  BY <1>1 DEF Anniversary

(* The next renewal after a day is an anniversary of the opening date, and    *)
(* the month after the day if that is one.                                    *)
LEMMA NextMonth ==
  ASSUME NEW opened \in Openings, NEW after \in Nat, after <= LastRenewal
  PROVE  /\ Owners!NextAnniversary(opened, after) \in Nat
         /\ Owners!NextAnniversary(opened, after) > opened
         /\ Anniversary(opened, Owners!NextAnniversary(opened, after))
         /\ Anniversary(opened, after) => Owners!NextAnniversary(opened, after) - Month = after
<1> DEFINE Dates == {opened + k * Month : k \in 1 .. AccountDays + Month}
           Next_(d) == d > after /\ d - Month <= (IF after < opened THEN opened ELSE after)
           Later == {k \in Nat : opened + k * Month > after}
           next == CHOOSE d \in Dates : Next_(d)
<1>1. opened \in Nat /\ opened > 0 /\ opened <= AccountDays
  BY OwnerBounds
<1>2. \E d \in Dates : Next_(d)
  <2>1. CASE after <= opened
    <3>1. 1 * Month = Month /\ 1 \in 1 .. AccountDays + Month
      BY OwnerBounds
    <3>2. opened + Month \in Dates
      BY <3>1
    <3>3. Next_(opened + Month)
      BY <1>1, <2>1, OwnerBounds
    <3> QED  BY <3>2, <3>3
  <2>2. CASE ~(after <= opened)
    <3>1. (after - opened) + 1 \in Nat
      BY <1>1, <2>2
    <3>2. (after - opened) + 1 <= ((after - opened) + 1) * Month /\ ((after - opened) + 1) * Month \in Nat
      BY <3>1, Months
    <3>3. (after - opened) + 1 \in Later /\ Later \in SUBSET Nat
      BY <1>1, <2>2, <3>1, <3>2
    <3>4. PICK k \in Later : \A m \in Later : k <= m
      BY <3>3, LeastOf
    <3>5. k \in Nat /\ k * Month \in Nat /\ opened + k * Month > after /\ k <= (after - opened) + 1
      BY <3>3, <3>4, Months
    <3>6. k # 0
      BY <1>1, <2>2, <3>5, OwnerBounds
    <3>7. k - 1 \in Nat /\ ~(k - 1 \in Later)
      BY <3>4, <3>5, <3>6
    <3>8. (k - 1) * Month \in Nat /\ ((k - 1) + 1) * Month = (k - 1) * Month + Month /\ (k - 1) + 1 = k
      BY <3>5, <3>7, Months
    <3>9. opened + (k - 1) * Month <= after
      BY <1>1, <3>7, <3>8
    <3>10. k \in 1 .. AccountDays + Month
      BY <1>1, <3>5, <3>6, OwnerBounds DEF LastRenewal
    <3>11. opened + k * Month \in Dates
      BY <3>10
    <3>12. Next_(opened + k * Month)
      BY <1>1, <2>2, <3>5, <3>8, <3>9, OwnerBounds
    <3> QED  BY <3>11, <3>12
  <2> QED  BY <2>1, <2>2
<1>3. Owners!NextAnniversary(opened, after) = next
  BY DEF Owners!NextAnniversary
<1>4. next \in Dates /\ Next_(next)
  <2> HIDE DEF Dates, Next_
  <2> QED  BY <1>2
<1> HIDE DEF next
<1>5. PICK k \in 1 .. AccountDays + Month : next = opened + k * Month
  BY <1>4
<1>6. k \in Nat /\ k >= 1 /\ k * Month \in Nat /\ k <= k * Month
  BY <1>5, Months, OwnerBounds
<1>7. next \in Nat /\ next > opened /\ Anniversary(opened, next)
  BY <1>1, <1>5, <1>6 DEF Anniversary
<1>8. ASSUME Anniversary(opened, after)
      PROVE  next - Month = after
  <2>1. PICK j \in Nat : after = opened + j * Month
    BY <1>8 DEF Anniversary
  <2>2. j * Month \in Nat /\ (j + 1) * Month = j * Month + Month /\ after >= opened
    BY <1>1, <2>1, Months
  <2>3. next > after /\ next - Month <= after
    BY <1>1, <1>4, <2>2
  <2>4. ~(k <= j)
    <3> SUFFICES ASSUME k <= j
                 PROVE  FALSE
      OBVIOUS
    <3>1. k * Month <= j * Month
      BY <1>6, Months
    <3> QED  BY <1>1, <1>5, <1>6, <2>1, <2>2, <2>3, <3>1
  <2>5. (j + 1) * Month <= k * Month
    BY <1>6, <2>4, Months
  <2> QED  BY <1>1, <1>5, <1>6, <2>1, <2>2, <2>3, <2>5, OwnerBounds
<1> QED  BY <1>3, <1>7, <1>8

LEMMA OwnerFields ==
  ASSUME OwnersInv, NEW a \in Accounts
  PROVE  /\ server.row[a] \in OwnerRows /\ Regular(server.row[a]) /\ server.row[a].ledger \subseteq Nat
         /\ server.row[a].opened \in Openings /\ server.day \in Nat
         /\ server.run[a] \in OwnerRuns /\ OwnerRun(server.run[a])
BY DEF OwnersInv, OwnerServer, OwnerRows, LedgersInv

(* The last period of a ledger.                                               *)
LEMMA LastPeriod ==
  ASSUME NEW r \in OwnerRows, Regular(r)
  PROVE  Owners!Latest(r.ledger) \in r.ledger /\ Owners!Latest(r.ledger) \in Nat
<1>1. r.ledger \subseteq Nat /\ r.opened \in r.ledger /\ \A d \in r.ledger : d \in Nat /\ d <= LastRenewal
  BY DEF OwnerRows, Regular
<1> DEFINE Rest == {n \in Nat : LastRenewal - n \in r.ledger}
<1>2. \A d \in r.ledger : LastRenewal - d \in Rest
  BY <1>1, OwnerBounds
<1>3. Rest \in SUBSET Nat /\ Rest # {}
  BY <1>1, <1>2
<1>4. PICK n \in Rest : \A m \in Rest : n <= m
  BY <1>3, LeastOf
<1>5. LastRenewal - n \in r.ledger
  BY <1>4
<1>6. \A d \in r.ledger : d <= LastRenewal - n
  <2> SUFFICES ASSUME NEW d \in r.ledger
               PROVE  d <= LastRenewal - n
    OBVIOUS
  <2>1. n <= LastRenewal - d /\ n \in Nat /\ d \in Nat
    BY <1>1, <1>2, <1>4
  <2> QED  BY <2>1, OwnerBounds
<1> HIDE DEF Rest
<1>7. \E d \in r.ledger : \A e \in r.ledger : e <= d
  BY <1>5, <1>6
<1>8. Owners!Latest(r.ledger) \in r.ledger
  BY <1>7 DEF Owners!Latest
<1> QED  BY <1>1, <1>8

(* What is worked out from the last period of a ledger, or from a period that *)
(* was.                                                                       *)
LEMMA NextIsWorkedOut ==
  ASSUME NEW opened \in Openings, NEW after \in Nat, after <= LastRenewal,
         Owners!NextAnniversary(opened, after) <= LastRenewal
  PROVE  WorkedOut(opened, after, Owners!NextAnniversary(opened, after))
BY NextMonth DEF WorkedOut

LEMMA OwnerRead ==
  ASSUME OwnersInv
  PROVE  Owners!View \in OwnerViews
<1>1. ASSUME NEW a \in Accounts
      PROVE  /\ Owners!NextRenewal(server.row[a]) \in Nat /\ server.row[a].paused \in BOOLEAN
             /\ server.row[a].banned \in BOOLEAN
  <2> DEFINE r == server.row[a]
             last == Owners!Latest(r.ledger)
  <2>1. r \in OwnerRows /\ Regular(r) /\ r.opened \in Openings
    BY OwnerFields
  <2>2. last \in r.ledger /\ last \in Nat
    BY <2>1, LastPeriod
  <2>3. last <= LastRenewal
    BY <2>1, <2>2 DEF Regular
  <2>4. Owners!NextAnniversary(r.opened, last) \in Nat
    BY <2>1, <2>2, <2>3, NextMonth
  <2> QED  BY <2>1, <2>4 DEF OwnerRows, Owners!NextRenewal, Owners!NoDay
<1> QED  BY <1>1 DEF Owners!View, OwnerViews, Owners!Cooling, Owners!NoDay

LEMMA IdleRun ==
  /\ Owners!NoRun \in OwnerRuns /\ OwnerRun(Owners!NoRun)
  /\ \A o \in Openings : \A t \in 0 .. AccountDays :
        /\ [Owners!NoRun EXCEPT !.opened = o, !.today = t] \in OwnerRuns
        /\ OwnerRun([Owners!NoRun EXCEPT !.opened = o, !.today = t])
<1> DEFINE idle == [opened |-> 0, today |-> 0, after |-> 0, day |-> 0]
<1>1. Owners!NoRun = idle
  BY DEF Owners!NoRun, Owners!NoDay
<1>2. idle \in OwnerRuns /\ idle.day = 0
  BY OwnerBounds DEF OwnerRuns
<1> HIDE DEF idle
<1>3. ASSUME NEW o \in Openings, NEW t \in 0 .. AccountDays
      PROVE  [idle EXCEPT !.opened = o, !.today = t] \in OwnerRuns
             /\ [idle EXCEPT !.opened = o, !.today = t].day = 0
  BY <1>2 DEF OwnerRuns
<1> QED  BY <1>1, <1>2, <1>3 DEF OwnerRun

LEMMA OwnersStart ==
  ASSUME Owners!Init
  PROVE  OwnersInv
<1>1. PICK opened \in Openings :
        server = [row |-> [a \in Accounts |-> [opened |-> opened, ledger |-> {opened}, seats |-> MaxSeats,
                                               used |-> 1, zero |-> FALSE, paused |-> FALSE, banned |-> FALSE,
                                               until |-> 0]],
                  day |-> 1, run |-> [a \in Accounts |-> Owners!NoRun]]
  BY DEF Owners!Init, Owners!NoDay
<1> DEFINE r == [opened |-> opened, ledger |-> {opened}, seats |-> MaxSeats, used |-> 1, zero |-> FALSE,
                 paused |-> FALSE, banned |-> FALSE, until |-> 0]
<1>2. r \in OwnerRows /\ r.opened = opened /\ r.ledger = {opened}
  BY OwnerBounds, OwnerRanges DEF OwnerRows
<1>3. Regular(r)
  BY <1>2, FirstMonth, OwnerBounds DEF Regular
<1>5. server = [row |-> [a \in Accounts |-> r], day |-> 1, run |-> [a \in Accounts |-> Owners!NoRun]]
  BY <1>1
<1> HIDE DEF r
<1>a. /\ server.row = [a \in Accounts |-> r] /\ server.day = 1
      /\ server.run = [a \in Accounts |-> Owners!NoRun]
  BY <1>5
<1>b. /\ [a \in Accounts |-> r] \in [Accounts -> OwnerRows] /\ 1 \in Nat /\ 1 <= AccountDays
      /\ [a \in Accounts |-> Owners!NoRun] \in [Accounts -> OwnerRuns]
  <2>1. 1 \in Nat /\ 1 <= AccountDays
    BY OwnerBounds
  <2>2. [a \in Accounts |-> r] \in [Accounts -> OwnerRows]
    BY <1>2
  <2>3. [a \in Accounts |-> Owners!NoRun] \in [Accounts -> OwnerRuns]
    BY IdleRun
  <2> QED  BY <2>1, <2>2, <2>3
<1>6. /\ OwnerServer /\ \A a \in Accounts : server.row[a] = r /\ server.run[a] = Owners!NoRun
  <2>1. \A a \in Accounts : server.row[a] = r /\ server.run[a] = Owners!NoRun
    BY <1>a
  <2>2. server \in [row : [Accounts -> OwnerRows], day : Nat, run : [Accounts -> OwnerRuns]]
    BY <1>5, <1>b
  <2> QED  BY <1>a, <1>b, <2>1, <2>2 DEF OwnerServer
<1>7. calls = {} /\ shown = Owners!View /\ desk = Owners!Closed
  BY DEF Owners!Init
<1>8. LedgersInv
  BY <1>3, <1>6, <1>7, IdleRun DEF LedgersInv
<1>9. Owners!Closed \in OwnerDesks /\ Owners!Closed.dialog = "none"
  BY DEF Owners!Closed, OwnerDesks, Owners!NoDay
<1>10. Owners!View \in OwnerViews
  <2>1. ASSUME NEW a \in Accounts
        PROVE  Owners!NextRenewal(server.row[a]) \in Nat
    <3>1. Owners!Latest(r.ledger) \in r.ledger /\ Owners!Latest(r.ledger) \in Nat
      BY <1>2, <1>3, LastPeriod
    <3>2. Owners!Latest(r.ledger) <= LastRenewal
      BY <1>3, <3>1 DEF Regular
    <3>3. Owners!NextAnniversary(r.opened, Owners!Latest(r.ledger)) \in Nat
      BY <1>2, <3>1, <3>2, NextMonth
    <3> QED  BY <1>6, <3>3 DEF Owners!NextRenewal, Owners!NoDay
  <2>2. \A a \in Accounts : server.row[a].paused \in BOOLEAN /\ server.row[a].banned \in BOOLEAN
    BY <1>2, <1>6 DEF OwnerRows
  <2> QED  BY <2>1, <2>2 DEF Owners!View, OwnerViews, Owners!Cooling, Owners!NoDay
<1>11. OwnerPage
  BY <1>7, <1>9, <1>10 DEF OwnerPage
<1> QED  BY <1>6, <1>8, <1>11 DEF OwnersInv

(* A row is written.                                                          *)
LEMMA RowWritten ==
  ASSUME OwnersInv, NEW a \in Accounts, NEW t \in OwnerRows, Regular(t), Follows(a, t),
         NEW R, R = [server.row EXCEPT ![a] = t]
  PROVE  R \in [Accounts -> OwnerRows] /\ \A b \in Accounts : Regular(R[b]) /\ Follows(b, R[b])
<1>1. server.row \in [Accounts -> OwnerRows]
  BY DEF OwnersInv, OwnerServer
<1>2. R \in [Accounts -> OwnerRows] /\ R[a] = t /\ \A b \in Accounts \ {a} : R[b] = server.row[b]
  BY <1>1
<1>3. ASSUME NEW b \in Accounts
      PROVE  Regular(R[b]) /\ Follows(b, R[b])
  <2>1. CASE b = a
    BY <1>2, <2>1
  <2>2. CASE b # a
    BY <1>2, <2>2, OwnerFields DEF Follows
  <2> QED  BY <2>1, <2>2
<1> QED  BY <1>2, <1>3

(* A step of the server that moves a call on, or drops it, and writes rows.   *)
LEMMA CallMoved ==
  ASSUME OwnersInv, NEW q \in calls, UNCHANGED <<shown, desk>>,
         \/ calls' = calls \ {q} \/ Owners!Settled(q, "done"),
         NEW R, R \in [Accounts -> OwnerRows], server' = [server EXCEPT !.row = R],
         \A b \in Accounts : Regular(R[b]) /\ Follows(b, R[b])
  PROVE  OwnersInv' /\ EntriesFollow
<1>1. /\ server \in [row : [Accounts -> OwnerRows], day : Nat, run : [Accounts -> OwnerRuns]]
      /\ server.day <= AccountDays /\ calls \subseteq OwnerCalls /\ \A c \in calls : OwnerCall(c)
  BY DEF OwnersInv, OwnerServer, OwnerPage, LedgersInv
<1>2. server'.row = R /\ server'.day = server.day /\ server'.run = server.run /\ OwnerServer'
  BY <1>1 DEF OwnerServer
<1> DEFINE p == [q EXCEPT !.state = "done"]
<1>3. p \in OwnerCalls /\ OwnerCall(p) /\ calls' \subseteq (calls \ {q}) \cup {p}
  <2>1. q \in OwnerCalls /\ OwnerCall(q)
    BY <1>1
  <2>2. p \in OwnerCalls /\ p.kind = q.kind /\ p.opened = q.opened /\ p.seats = q.seats /\ p.state = "done"
    BY <2>1 DEF OwnerCalls
  <2>3. calls' \subseteq (calls \ {q}) \cup {p}
    BY DEF Owners!Settled
  <2> HIDE DEF p
  <2> QED  BY <2>1, <2>2, <2>3 DEF OwnerCall
<1> HIDE DEF p
<1>4. OwnerPage'
  BY <1>3 DEF OwnersInv, OwnerPage
<1>5. \A c \in calls' : OwnerCall(c)
  BY <1>1, <1>3
<1>6. LedgersInv'
  BY <1>2, <1>5 DEF OwnersInv, LedgersInv
<1> QED  BY <1>2, <1>4, <1>6 DEF OwnersInv, EntriesFollow

(* A step of the server that leaves the calls alone.                          *)
LEMMA ServerMoved ==
  ASSUME OwnersInv, UNCHANGED <<shown, desk, calls>>,
         NEW R \in [Accounts -> OwnerRows], NEW day \in Nat, day <= AccountDays,
         NEW run \in [Accounts -> OwnerRuns],
         server' = [row |-> R, day |-> day, run |-> run],
         \A b \in Accounts : Regular(R[b]) /\ Follows(b, R[b]) /\ OwnerRun(run[b])
  PROVE  OwnersInv' /\ EntriesFollow
<1>1. server'.row = R /\ server'.day = day /\ server'.run = run /\ OwnerServer'
  BY DEF OwnerServer
<1>2. OwnerPage'
  BY DEF OwnersInv, OwnerPage
<1>3. LedgersInv'
  BY <1>1 DEF OwnersInv, LedgersInv
<1> QED  BY <1>1, <1>2, <1>3 DEF OwnersInv, EntriesFollow

(* A step of the page, or of a call that only moves on.                       *)
LEMMA PageMoved ==
  ASSUME OwnersInv, UNCHANGED server, shown' \in OwnerViews, desk' \in OwnerDesks,
         desk'.dialog # "none" => desk'.account \in Accounts,
         \A q \in calls' : q \in calls \/ (q \in OwnerCalls /\ OwnerCall(q))
  PROVE  OwnersInv' /\ EntriesFollow
<1>1. OwnerPage'
  BY DEF OwnersInv, OwnerPage
<1>2. \A q \in calls' : OwnerCall(q)
  BY DEF OwnersInv, LedgersInv
<1>3. LedgersInv'
  BY <1>2 DEF OwnersInv, LedgersInv
<1>4. EntriesFollow
  BY DEF EntriesFollow, Follows
<1> QED  BY <1>1, <1>3, <1>4 DEF OwnersInv, OwnerServer

LEMMA CallRefused ==
  ASSUME OwnersInv, NEW q \in calls, Owners!Refuse(q), UNCHANGED <<shown, desk>>
  PROVE  OwnersInv' /\ EntriesFollow
BY PageMoved DEF Owners!Refuse, OwnersInv, OwnerPage

(* Fields of a row that are not of the ledger.                                *)
LEMMA SameLedger ==
  ASSUME OwnersInv, NEW a \in Accounts, NEW t,
         t.opened = server.row[a].opened, t.ledger = server.row[a].ledger
  PROVE  Regular(t) /\ Follows(a, t)
BY OwnerFields DEF Regular, Follows

-----------------------------------------------------------------------------
(* What the server does.                                                      *)

LEMMA AccountUpdated ==
  ASSUME OwnersInv, NEW q \in calls, Owners!UpdateAccount(q)
  PROVE  OwnersInv' /\ EntriesFollow
<1> DEFINE a == q.account
           r == server.row[a]
           t == [r EXCEPT !.opened = q.opened, !.seats = q.seats, !.zero = q.zero,
                          !.ledger = IF Owners!Renewed(r) THEN r.ledger ELSE {q.opened}]
<1>a. q \in OwnerCalls /\ OwnerCall(q) /\ q.kind = "update"
  BY DEF OwnersInv, OwnerPage, LedgersInv, Owners!UpdateAccount
<1>1. /\ a \in Accounts /\ q.opened \in Openings /\ q.seats \in SomeSeats /\ q.zero \in BOOLEAN
      /\ q.opened \in Nat
  BY <1>a, OwnerBounds, OwnerRanges DEF OwnerCalls, OwnerCall
<1>2. r \in OwnerRows /\ Regular(r) /\ r.opened \in r.ledger
  BY <1>1, OwnerFields DEF Regular
<1>3. CASE (q.opened # r.opened /\ Owners!Renewed(r)) \/ q.seats < r.used
  <2>1. Owners!Refuse(q) /\ UNCHANGED <<shown, desk>>
    BY <1>3 DEF Owners!UpdateAccount
  <2> QED  BY <2>1, CallRefused
<1>4. CASE ~((q.opened # r.opened /\ Owners!Renewed(r)) \/ q.seats < r.used)
  <2>1. /\ server' = [server EXCEPT !.row = [server.row EXCEPT ![a] = t]] /\ Owners!Settled(q, "done")
        /\ UNCHANGED <<shown, desk>>
    BY <1>4 DEF Owners!UpdateAccount, Owners!Written
  <2>2. /\ t \in OwnerRows /\ t.opened = q.opened
        /\ t.ledger = IF Owners!Renewed(r) THEN r.ledger ELSE {q.opened}
    BY <1>1, <1>2 DEF OwnerRows
  <2> HIDE DEF t
  <2>3. Regular(t) /\ Follows(a, t)
    <3>1. CASE Owners!Renewed(r)
      <4>1. t.opened = r.opened /\ t.ledger = r.ledger
        BY <1>4, <2>2, <3>1
      <4> QED  BY <1>1, <4>1, SameLedger
    <3>2. CASE ~Owners!Renewed(r)
      BY <1>1, <2>2, <3>2, FirstMonth, OwnerBounds DEF Regular, Follows
    <3> QED  BY <3>1, <3>2
  <2> DEFINE R == [server.row EXCEPT ![a] = t]
  <2>4. R \in [Accounts -> OwnerRows] /\ \A b \in Accounts : Regular(R[b]) /\ Follows(b, R[b])
    BY <1>1, <2>2, <2>3, RowWritten
  <2>5. server' = [server EXCEPT !.row = R]
    BY <2>1
  <2> HIDE DEF R
  <2> QED  BY <2>1, <2>4, <2>5, CallMoved
<1> QED  BY <1>3, <1>4

LEMMA AccountRead ==
  ASSUME OwnersInv, NEW q \in calls, Owners!MarkAccountRenewed(q)
  PROVE  OwnersInv' /\ EntriesFollow
<1> DEFINE r == server.row[q.account]
           c == [q EXCEPT !.state = "read", !.opened = r.opened]
<1>1. q \in OwnerCalls /\ q.account \in Accounts /\ q.kind = "renew" /\ UNCHANGED <<shown, desk>>
  BY DEF OwnersInv, OwnerPage, OwnerCalls, Owners!MarkAccountRenewed
<1>2. r.opened \in Openings /\ r.opened \in Nat
  BY <1>1, OwnerFields, OwnerBounds
<1>3. CASE r.banned
  <2>1. Owners!Refuse(q)
    BY <1>3 DEF Owners!MarkAccountRenewed
  <2> QED  BY <1>1, <2>1, CallRefused
<1>4. CASE ~r.banned
  <2>1. calls' = (calls \ {q}) \cup {c} /\ UNCHANGED server
    BY <1>4 DEF Owners!MarkAccountRenewed
  <2>2. c \in OwnerCalls /\ c.kind = "renew" /\ c.opened = r.opened /\ c.state = "read"
    BY <1>1, <1>2 DEF OwnerCalls
  <2> HIDE DEF c
  <2>3. OwnerCall(c)
    BY <1>2, <2>2 DEF OwnerCall
  <2> QED  BY <1>1, <2>1, <2>2, <2>3, PageMoved DEF OwnersInv, OwnerPage
<1> QED  BY <1>3, <1>4

LEMMA PeriodLookedFor ==
  ASSUME OwnersInv, NEW q \in calls, Owners!LookForPeriod(q)
  PROVE  OwnersInv' /\ EntriesFollow
<1> DEFINE state == IF q.day \in server.row[q.account].ledger THEN "done" ELSE "unregistered"
           c == [q EXCEPT !.state = state]
<1>1. /\ q \in OwnerCalls /\ OwnerCall(q) /\ q.kind = "renew" /\ q.state = "read"
      /\ UNCHANGED <<server, shown, desk>> /\ calls' = (calls \ {q}) \cup {c}
  BY DEF OwnersInv, OwnerPage, LedgersInv, Owners!LookForPeriod, Owners!Settled
<1>2. state \in {"done", "unregistered"}
  OBVIOUS
<1> HIDE DEF state
<1>3. c \in OwnerCalls /\ c.kind = "renew" /\ c.opened = q.opened /\ c.state = state
  BY <1>1, <1>2 DEF OwnerCalls
<1> HIDE DEF c
<1>4. OwnerCall(c)
  BY <1>1, <1>2, <1>3 DEF OwnerCall
<1> QED  BY <1>1, <1>3, <1>4, PageMoved DEF OwnersInv, OwnerPage

LEMMA RenewalChecked ==
  ASSUME OwnersInv, NEW q \in calls, Owners!CheckRenewal(q)
  PROVE  OwnersInv' /\ EntriesFollow
<1> DEFINE r == server.row[q.account]
           latest == Owners!Latest(r.ledger)
           c == [q EXCEPT !.state = "checked", !.after = latest]
<1>1. /\ q \in OwnerCalls /\ OwnerCall(q) /\ q.account \in Accounts /\ q.day \in Nat /\ q.kind = "renew"
      /\ q.state = "unregistered" /\ UNCHANGED <<shown, desk>>
  BY DEF OwnersInv, OwnerPage, LedgersInv, OwnerCalls, Owners!CheckRenewal
<1>2. q.opened \in Openings
  BY <1>1 DEF OwnerCall
<1>3. /\ latest \in r.ledger /\ latest \in Nat /\ latest <= LastRenewal
  <2>1. r \in OwnerRows /\ Regular(r)
    BY <1>1, OwnerFields
  <2> QED  BY <2>1, LastPeriod DEF Regular
<1>4. CASE q.day = Owners!NextAnniversary(q.opened, latest) /\ q.day <= server.day + Notice
  <2>1. calls' = (calls \ {q}) \cup {c} /\ UNCHANGED server
    BY <1>4 DEF Owners!CheckRenewal
  <2>2. q.day <= LastRenewal
    BY <1>1, <1>4, OwnerBounds DEF OwnersInv, OwnerServer, LastRenewal
  <2>3. WorkedOut(q.opened, latest, q.day)
    BY <1>2, <1>3, <1>4, <2>2, NextIsWorkedOut
  <2> HIDE DEF latest
  <2>4. /\ c \in OwnerCalls /\ c.kind = "renew" /\ c.opened = q.opened /\ c.state = "checked"
        /\ c.after = latest /\ c.day = q.day
    BY <1>1, <1>3 DEF OwnerCalls
  <2> HIDE DEF c
  <2>5. OwnerCall(c)
    BY <2>3, <2>4 DEF OwnerCall
  <2> QED  BY <1>1, <2>1, <2>4, <2>5, PageMoved DEF OwnersInv, OwnerPage
<1>5. CASE ~(q.day = Owners!NextAnniversary(q.opened, latest) /\ q.day <= server.day + Notice)
  <2>1. Owners!Refuse(q)
    BY <1>5 DEF Owners!CheckRenewal
  <2> QED  BY <1>1, <2>1, CallRefused
<1> QED  BY <1>4, <1>5

(* A period that was worked out is entered with the same opening date.        *)
LEMMA PeriodEntered ==
  ASSUME OwnersInv, NEW a \in Accounts, NEW after, NEW day \in Nat,
         WorkedOut(server.row[a].opened, after, day),
         ~(after \in server.row[a].ledger) => Owners!Overtaken(a, day)
  PROVE  /\ Owners!Accrued(server.row[a], day) \in OwnerRows /\ Regular(Owners!Accrued(server.row[a], day))
         /\ Follows(a, Owners!Accrued(server.row[a], day))
<1> DEFINE r == server.row[a]
           L == r.ledger \cup {day}
           t == [r EXCEPT !.ledger = L]
<1>1. r \in OwnerRows /\ Regular(r) /\ r.ledger \subseteq Nat
  BY OwnerFields
<1>2. CASE r.banned
  BY <1>1, <1>2, SameLedger DEF Owners!Accrued
<1>3. CASE ~r.banned
  <2>1. t \in OwnerRows /\ t.opened = r.opened /\ t.ledger = L
    BY <1>1 DEF OwnerRows
  <2>2. Owners!Accrued(r, day) = t
    BY <1>3 DEF Owners!Accrued
  <2> HIDE DEF t
  <2>3. Regular(t)
    BY <1>1, <2>1 DEF Regular, WorkedOut
  <2>4. Follows(a, t)
    <3>1. CASE after \in r.ledger
      <4>1. day - Month = after
        BY <1>1, <3>1 DEF Regular, WorkedOut
      <4> QED  BY <2>1, <3>1, <4>1 DEF Follows
    <3>2. CASE ~(after \in r.ledger)
      BY <2>1, <3>2 DEF Follows
    <3> QED  BY <3>1, <3>2
  <2> QED  BY <2>1, <2>2, <2>3, <2>4
<1> QED  BY <1>2, <1>3

LEMMA RenewalAccrued ==
  ASSUME OwnersInv, NEW q \in calls, Owners!AccrueRenewal(q)
  PROVE  OwnersInv' /\ EntriesFollow
<1> DEFINE r == server.row[q.account]
           t == Owners!Accrued(r, q.day)
<1>1. /\ q.account \in Accounts /\ q.day \in Nat /\ q.state = "checked" /\ UNCHANGED <<shown, desk>>
      /\ OwnerCall(q)
  BY DEF OwnersInv, OwnerPage, OwnerCalls, LedgersInv, Owners!AccrueRenewal
<1>2. WorkedOut(q.opened, q.after, q.day)
  BY <1>1 DEF OwnerCall
<1>3. CASE Owners!Accruable(r, q.opened)
  <2>1. r.opened = q.opened
    BY <1>3 DEF Owners!Accruable
  <2>2. ~(q.after \in r.ledger) => Owners!Overtaken(q.account, q.day)
    BY <1>1 DEF Owners!Overtaken
  <2>3. t \in OwnerRows /\ Regular(t) /\ Follows(q.account, t)
    BY <1>1, <1>2, <2>1, <2>2, PeriodEntered
  <2>4. server' = [server EXCEPT !.row = [server.row EXCEPT ![q.account] = t]] /\ Owners!Settled(q, "done")
    BY <1>3 DEF Owners!AccrueRenewal, Owners!Written
  <2> HIDE DEF t
  <2> DEFINE R == [server.row EXCEPT ![q.account] = t]
  <2>5. R \in [Accounts -> OwnerRows] /\ \A b \in Accounts : Regular(R[b]) /\ Follows(b, R[b])
    BY <1>1, <2>3, RowWritten
  <2>6. server' = [server EXCEPT !.row = R]
    BY <2>4
  <2> HIDE DEF R
  <2> QED  BY <1>1, <2>4, <2>5, <2>6, CallMoved
<1>4. CASE ~Owners!Accruable(r, q.opened)
  <2>1. Owners!Refuse(q)
    BY <1>4 DEF Owners!AccrueRenewal
  <2> QED  BY <1>1, <2>1, CallRefused
<1> QED  BY <1>3, <1>4

(* A step of the scheduler that writes no row.                                *)
LEMMA RunMoved ==
  ASSUME OwnersInv, NEW run \in [Accounts -> OwnerRuns], \A b \in Accounts : OwnerRun(run[b]),
         server' = [server EXCEPT !.run = run], UNCHANGED <<shown, desk, calls>>
  PROVE  OwnersInv' /\ EntriesFollow
<1>1. /\ server \in [row : [Accounts -> OwnerRows], day : Nat, run : [Accounts -> OwnerRuns]]
      /\ server.day <= AccountDays
  BY DEF OwnersInv, OwnerServer
<1>2. server' = [row |-> server.row, day |-> server.day, run |-> run]
  BY <1>1
<1>3. \A b \in Accounts : Regular(server.row[b]) /\ Follows(b, server.row[b])
  BY OwnerFields DEF Follows
<1>4. server.row \in [Accounts -> OwnerRows] /\ server.day \in Nat
  BY <1>1
<1> QED  BY <1>1, <1>2, <1>3, <1>4, ServerMoved

LEMMA RenewalsProcessed ==
  ASSUME OwnersInv, Owners!ProcessAccountCostRenewals
  PROVE  OwnersInv' /\ EntriesFollow
<1> DEFINE run == [a \in Accounts |->
                     IF server.row[a].banned THEN Owners!NoRun
                     ELSE [Owners!NoRun EXCEPT !.opened = server.row[a].opened, !.today = server.day]]
<1>1. server' = [server EXCEPT !.run = run] /\ UNCHANGED <<shown, desk, calls>>
  BY DEF Owners!ProcessAccountCostRenewals
<1>2. server.day \in 0 .. AccountDays
  BY OwnerBounds DEF OwnersInv, OwnerServer
<1>3. ASSUME NEW a \in Accounts
      PROVE  run[a] \in OwnerRuns /\ OwnerRun(run[a])
  BY <1>2, OwnerFields, IdleRun
<1>4. run \in [Accounts -> OwnerRuns]
  BY <1>3
<1> HIDE DEF run
<1> QED  BY <1>1, <1>3, <1>4, RunMoved

(* Where the scheduler goes on for an account.                                *)
LEMMA GoesOn ==
  ASSUME NEW run \in OwnerRuns, run.opened \in Openings, NEW after \in Nat, after <= LastRenewal
  PROVE  Owners!Onward(run, after) \in OwnerRuns /\ OwnerRun(Owners!Onward(run, after))
<1> DEFINE next == Owners!NextAnniversary(run.opened, after)
           more == [run EXCEPT !.after = after, !.day = next]
<1>1. next \in Nat
  BY NextMonth
<1>2. CASE ~(next <= run.today)
  BY <1>2, IdleRun DEF Owners!Onward
<1>3. CASE next <= run.today
  <2>1. next <= LastRenewal
    BY <1>1, <1>3, OwnerBounds DEF OwnerRuns
  <2>2. WorkedOut(run.opened, after, next)
    BY <2>1, NextIsWorkedOut
  <2>3. Owners!Onward(run, after) = more
    BY <1>3 DEF Owners!Onward
  <2> HIDE DEF next
  <2>4. /\ more \in OwnerRuns /\ more.opened = run.opened /\ more.today = run.today
        /\ more.after = after /\ more.day = next
    BY <1>1 DEF OwnerRuns
  <2> HIDE DEF more
  <2> QED  BY <1>3, <2>2, <2>3, <2>4 DEF OwnerRun
<1> QED  BY <1>2, <1>3

LEMMA AccrualStarted ==
  ASSUME OwnersInv, NEW a \in Accounts, Owners!StartAccrual(a)
  PROVE  OwnersInv' /\ EntriesFollow
<1> DEFINE r == server.row[a]
           then == Owners!Onward(server.run[a], Owners!Latest(r.ledger))
           run == [server.run EXCEPT ![a] = then]
<1>1. /\ r \in OwnerRows /\ Regular(r) /\ server.run[a] \in OwnerRuns
      /\ server.run \in [Accounts -> OwnerRuns]
  BY OwnerFields DEF OwnersInv, OwnerServer
<1>2. Owners!Latest(r.ledger) \in Nat /\ Owners!Latest(r.ledger) <= LastRenewal
  BY <1>1, LastPeriod DEF Regular
<1>3. server.run[a].opened \in Openings
  BY <1>1 DEF Owners!StartAccrual, Owners!NoDay, OwnerRuns
<1>4. then \in OwnerRuns /\ OwnerRun(then)
  BY <1>1, <1>2, <1>3, GoesOn
<1>5. server' = [server EXCEPT !.run = run] /\ UNCHANGED <<shown, desk, calls>>
  BY DEF Owners!StartAccrual
<1> HIDE DEF then
<1>6. run \in [Accounts -> OwnerRuns] /\ \A b \in Accounts : OwnerRun(run[b])
  BY <1>1, <1>4, OwnerFields
<1> HIDE DEF run
<1> QED  BY <1>5, <1>6, RunMoved

LEMMA NextAccrued ==
  ASSUME OwnersInv, NEW a \in Accounts, Owners!AccrueNext(a)
  PROVE  OwnersInv' /\ EntriesFollow
<1> DEFINE r == server.row[a]
           mine == server.run[a]
           t == Owners!Accrued(r, mine.day)
           R == [server.row EXCEPT ![a] = t]
<1>1. /\ mine \in OwnerRuns /\ OwnerRun(mine) /\ mine.day # 0 /\ mine.day \in Nat
      /\ UNCHANGED <<shown, desk, calls>>
  BY OwnerFields DEF Owners!AccrueNext, Owners!NoDay, OwnerRuns
<1>2. WorkedOut(mine.opened, mine.after, mine.day)
  BY <1>1 DEF OwnerRun
<1>3. /\ server \in [row : [Accounts -> OwnerRows], day : Nat, run : [Accounts -> OwnerRuns]]
      /\ server.day <= AccountDays /\ \A b \in Accounts : OwnerRun(server.run[b])
  BY OwnerFields DEF OwnersInv, OwnerServer
<1>4. CASE ~Owners!Accruable(r, mine.opened)
  <2> DEFINE run == [server.run EXCEPT ![a] = Owners!NoRun]
  <2>1. server' = [server EXCEPT !.run = run]
    BY <1>4 DEF Owners!AccrueNext
  <2>2. run \in [Accounts -> OwnerRuns] /\ \A b \in Accounts : OwnerRun(run[b])
    BY <1>3, IdleRun
  <2> HIDE DEF run
  <2> QED  BY <1>1, <2>1, <2>2, RunMoved
<1>5. CASE Owners!Accruable(r, mine.opened)
  <2> DEFINE then == Owners!Onward(mine, mine.day)
             run == [server.run EXCEPT ![a] = then]
  <2>1. r.opened = mine.opened
    BY <1>5 DEF Owners!Accruable
  <2>2. ~(mine.after \in r.ledger) => Owners!Overtaken(a, mine.day)
    BY DEF Owners!Overtaken
  <2>3. t \in OwnerRows /\ Regular(t) /\ Follows(a, t)
    BY <1>1, <1>2, <2>1, <2>2, PeriodEntered
  <2>4. then \in OwnerRuns /\ OwnerRun(then)
    BY <1>1, <1>2, GoesOn DEF WorkedOut
  <2>5. server' = [server EXCEPT !.row = R, !.run = run]
    BY <1>5 DEF Owners!AccrueNext
  <2>6. server' = [row |-> R, day |-> server.day, run |-> run]
    BY <1>3, <2>5
  <2> HIDE DEF t, then
  <2>7. run \in [Accounts -> OwnerRuns] /\ \A b \in Accounts : OwnerRun(run[b])
    BY <1>3, <2>4
  <2>8. R \in [Accounts -> OwnerRows] /\ \A b \in Accounts : Regular(R[b]) /\ Follows(b, R[b])
    BY <2>3, RowWritten
  <2>9. server.day \in Nat
    BY <1>3
  <2> HIDE DEF R, run
  <2> QED  BY <1>1, <1>3, <2>6, <2>7, <2>8, <2>9, ServerMoved
<1> QED  BY <1>4, <1>5

LEMMA AvailabilitySet ==
  ASSUME OwnersInv, NEW q \in calls, Owners!SetAvailability(q)
  PROVE  OwnersInv' /\ EntriesFollow
<1> DEFINE R == [b \in Accounts |->
                   IF Itself[b] = Itself[q.account] THEN [server.row[b] EXCEPT !.paused = q.paused]
                    ELSE server.row[b]]
<1>1. /\ server' = [server EXCEPT !.row = R] /\ Owners!Settled(q, "done") /\ UNCHANGED <<shown, desk>>
      /\ q.paused \in BOOLEAN
  BY DEF OwnersInv, OwnerPage, OwnerCalls, Owners!SetAvailability
<1>2. ASSUME NEW b \in Accounts
      PROVE  /\ R[b] \in OwnerRows /\ R[b].opened = server.row[b].opened
             /\ R[b].ledger = server.row[b].ledger
  BY <1>1, <1>2, OwnerFields DEF OwnerRows
<1>3. R \in [Accounts -> OwnerRows]
  BY <1>2
<1> HIDE DEF R
<1>4. \A b \in Accounts : Regular(R[b]) /\ Follows(b, R[b])
  BY <1>2, SameLedger
<1> QED  BY <1>1, <1>3, <1>4, CallMoved

LEMMA AccountBanned ==
  ASSUME OwnersInv, NEW q \in calls, Owners!BanAccount(q)
  PROVE  OwnersInv' /\ EntriesFollow
<1> DEFINE t == [server.row[q.account] EXCEPT !.banned = TRUE]
           R == [server.row EXCEPT ![q.account] = t]
<1>1. q.account \in Accounts /\ server.row[q.account] \in OwnerRows
  BY OwnerFields DEF OwnersInv, OwnerPage, OwnerCalls
<1>2. /\ t \in OwnerRows /\ t.opened = server.row[q.account].opened
      /\ t.ledger = server.row[q.account].ledger
  BY <1>1 DEF OwnerRows
<1>3. server' = [server EXCEPT !.row = R] /\ Owners!Settled(q, "done") /\ UNCHANGED <<shown, desk>>
  BY DEF Owners!BanAccount, Owners!Written
<1> HIDE DEF t
<1>4. Regular(t) /\ Follows(q.account, t)
  BY <1>1, <1>2, SameLedger
<1>5. R \in [Accounts -> OwnerRows] /\ \A b \in Accounts : Regular(R[b]) /\ Follows(b, R[b])
  BY <1>1, <1>2, <1>4, RowWritten
<1> HIDE DEF R
<1> QED  BY <1>3, <1>5, CallMoved

LEMMA FreezeSet ==
  ASSUME OwnersInv, NEW q \in calls, Owners!SetFreeze(q)
  PROVE  OwnersInv' /\ EntriesFollow
<1> DEFINE r == server.row[q.account]
           until == IF q.kind = "release" THEN server.day ELSE q.day
           t == [r EXCEPT !.until = until]
           R == [server.row EXCEPT ![q.account] = t]
<1>1. /\ q.account \in Accounts /\ r \in OwnerRows /\ q.day \in Nat /\ server.day \in Nat
      /\ server.day <= AccountDays
  BY OwnerFields, Zenon DEF OwnersInv, OwnerPage, OwnerCalls, OwnerServer
<1>2. /\ UNCHANGED <<shown, desk>>
      /\ \/ Owners!Refuse(q)
         \/ /\ server' = [server EXCEPT !.row = R] /\ Owners!Settled(q, "done")
            /\ q.kind = "release" \/ q.day \in server.day + 1 .. server.day + MaxFreeze
  BY DEF Owners!SetFreeze, Owners!Written
<1>3. CASE Owners!Refuse(q)
  BY <1>2, <1>3, CallRefused
<1>4. CASE /\ server' = [server EXCEPT !.row = R] /\ Owners!Settled(q, "done")
           /\ q.kind = "release" \/ q.day \in server.day + 1 .. server.day + MaxFreeze
  <2>1. until \in Cooldowns
    BY <1>1, <1>4, OwnerBounds, PageAssumptions DEF Cooldowns
  <2> HIDE DEF until
  <2>2. t \in OwnerRows /\ t.opened = r.opened /\ t.ledger = r.ledger
    BY <1>1, <2>1 DEF OwnerRows
  <2> HIDE DEF t
  <2>3. Regular(t) /\ Follows(q.account, t)
    BY <1>1, <2>2, SameLedger
  <2>4. R \in [Accounts -> OwnerRows] /\ \A b \in Accounts : Regular(R[b]) /\ Follows(b, R[b])
    BY <1>1, <2>2, <2>3, RowWritten
  <2>5. server' = [server EXCEPT !.row = R] /\ Owners!Settled(q, "done")
    BY <1>4
  <2> HIDE DEF R
  <2> QED  BY <1>2, <2>4, <2>5, CallMoved
<1> QED  BY <1>2, <1>3, <1>4

LEMMA DayPassed ==
  ASSUME OwnersInv, Owners!DayPasses
  PROVE  OwnersInv' /\ EntriesFollow
<1>1. /\ server \in [row : [Accounts -> OwnerRows], day : Nat, run : [Accounts -> OwnerRuns]]
      /\ server.day < AccountDays
      /\ server' = [server EXCEPT !.day = server.day + 1] /\ UNCHANGED <<shown, desk, calls>>
  BY DEF OwnersInv, OwnerServer, Owners!DayPasses
<1>2. server' = [row |-> server.row, day |-> server.day + 1, run |-> server.run]
  BY <1>1
<1>3. server.day + 1 \in Nat /\ server.day + 1 <= AccountDays
  BY <1>1, OwnerBounds
<1>4. server.row \in [Accounts -> OwnerRows] /\ server.run \in [Accounts -> OwnerRuns]
  BY <1>1
<1>5. \A b \in Accounts : Regular(server.row[b]) /\ Follows(b, server.row[b]) /\ OwnerRun(server.run[b])
  BY OwnerFields DEF Follows
<1> QED  BY <1>1, <1>2, <1>3, <1>4, <1>5, ServerMoved

LEMMA CustomerLeft ==
  ASSUME OwnersInv, NEW a \in Accounts, Owners!CustomerLeaves(a)
  PROVE  OwnersInv' /\ EntriesFollow
<1> DEFINE r == server.row[a]
           t == [r EXCEPT !.until = server.day + 1]
           R == [server.row EXCEPT ![a] = t]
<1>1. /\ server \in [row : [Accounts -> OwnerRows], day : Nat, run : [Accounts -> OwnerRuns]]
      /\ server.day <= AccountDays /\ r \in OwnerRows /\ server.day \in Nat
  BY OwnerFields DEF OwnersInv, OwnerServer
<1>a. server.day + 1 \in Cooldowns
  BY <1>1, OwnerRanges
<1>2. t \in OwnerRows /\ t.opened = r.opened /\ t.ledger = r.ledger
  BY <1>1, <1>a DEF OwnerRows
<1>3. server' = [server EXCEPT !.row = R] /\ UNCHANGED <<shown, desk, calls>>
  BY DEF Owners!CustomerLeaves
<1>4. server' = [row |-> R, day |-> server.day, run |-> server.run]
  BY <1>1, <1>3
<1> HIDE DEF t
<1>5. Regular(t) /\ Follows(a, t)
  BY <1>2, SameLedger
<1>6. R \in [Accounts -> OwnerRows] /\ \A b \in Accounts : Regular(R[b]) /\ Follows(b, R[b])
  BY <1>2, <1>5, RowWritten
<1> HIDE DEF R
<1>7. server.run \in [Accounts -> OwnerRuns] /\ \A b \in Accounts : OwnerRun(server.run[b])
  BY <1>1, OwnerFields
<1> QED  BY <1>1, <1>3, <1>4, <1>6, <1>7, ServerMoved

-----------------------------------------------------------------------------
(* What the page does.                                                        *)

LEMMA CallMade ==
  ASSUME OwnersInv, NEW q \in OwnerCalls, q.state = "sent",
         q.kind = "update" => (q.opened \in Openings /\ q.seats \in SomeSeats),
         Owners!Send(q)
  PROVE  OwnersInv' /\ EntriesFollow
<1>1. calls' = calls \cup {q} /\ UNCHANGED <<server, shown, desk>>
  BY DEF Owners!Send
<1>2. OwnerCall(q)
  BY DEF OwnerCall
<1> QED  BY <1>1, <1>2, PageMoved DEF OwnersInv, OwnerPage

LEMMA OwnerCallIs ==
  ASSUME NEW kind \in {"update", "renew", "availability", "ban", "freeze", "release"}, NEW a \in Accounts
  PROVE  /\ Owners!Call(kind, a) \in OwnerCalls /\ Owners!Call(kind, a).kind = kind
         /\ Owners!Call(kind, a).state = "sent"
BY DEF Owners!Call, OwnerCalls, Owners!NoDay

LEMMA DialogMoves ==
  ASSUME OwnersInv, NEW dialog \in {"account", "renewal", "ban", "freeze"},
         NEW a \in Accounts, NEW day \in Nat,
         Owners!Open(dialog, a, day)
  PROVE  OwnersInv' /\ EntriesFollow
<1>1. /\ UNCHANGED <<server, shown, calls>> /\ desk' = [dialog |-> dialog, account |-> a, day |-> day]
  BY DEF Owners!Open, Owners!StaysOnPage
<1>2. desk' \in OwnerDesks /\ desk'.account \in Accounts
  BY <1>1 DEF OwnerDesks
<1> QED  BY <1>1, <1>2, PageMoved DEF OwnersInv, OwnerPage

LEMMA OpenedFor ==
  ASSUME OwnersInv, NEW a \in Accounts,
         Owners!OpenEdit(a) \/ Owners!OpenRenewal(a) \/ Owners!OpenBan(a) \/ Owners!OpenFreezeEditor(a)
  PROVE  OwnersInv' /\ EntriesFollow
<1>1. shown[a].renewal \in Nat /\ Owners!NoDay \in Nat
  BY DEF OwnersInv, OwnerPage, OwnerViews, Owners!NoDay
<1>2. CASE Owners!OpenEdit(a)
  BY <1>1, <1>2, DialogMoves DEF Owners!OpenEdit
<1>3. CASE Owners!OpenRenewal(a)
  BY <1>1, <1>3, DialogMoves DEF Owners!OpenRenewal
<1>4. CASE Owners!OpenBan(a)
  BY <1>1, <1>4, DialogMoves DEF Owners!OpenBan
<1>5. CASE Owners!OpenFreezeEditor(a)
  BY <1>1, <1>5, DialogMoves DEF Owners!OpenFreezeEditor
<1> QED  BY <1>2, <1>3, <1>4, <1>5

LEMMA OwnerDialog ==
  ASSUME OwnersInv, Owners!AskRelease \/ Owners!CloseDialog \/ Owners!Refetch
  PROVE  OwnersInv' /\ EntriesFollow
<1>0. shown \in OwnerViews /\ desk \in OwnerDesks /\ (desk.dialog # "none" => desk.account \in Accounts)
  BY DEF OwnersInv, OwnerPage
<1>1. CASE Owners!AskRelease
  <2>1. /\ UNCHANGED <<server, shown, calls>>
        /\ desk' = [desk EXCEPT !.dialog = IF desk.dialog = "freeze" THEN "release" ELSE "freeze"]
        /\ desk.dialog # "none"
    BY <1>1 DEF Owners!AskRelease, Owners!StaysOnPage
  <2>2. desk' \in OwnerDesks /\ desk'.account \in Accounts
    BY <1>0, <2>1 DEF OwnerDesks
  <2> QED  BY <1>0, <2>1, <2>2, PageMoved
<1>2. CASE Owners!CloseDialog
  <2>1. /\ UNCHANGED <<server, shown>> /\ desk' = Owners!Closed
        /\ calls' = {IF q.kind \in {"freeze", "release"} THEN [q EXCEPT !.held = FALSE] ELSE q : q \in calls}
    BY <1>2 DEF Owners!CloseDialog
  <2>2. desk' \in OwnerDesks /\ desk'.dialog = "none"
    BY <2>1 DEF Owners!Closed, OwnerDesks, Owners!NoDay
  <2>3. ASSUME NEW q \in calls'
        PROVE  q \in calls \/ (q \in OwnerCalls /\ OwnerCall(q))
    <3>1. PICK p \in calls : q = IF p.kind \in {"freeze", "release"} THEN [p EXCEPT !.held = FALSE] ELSE p
      BY <2>1, <2>3
    <3>2. CASE p.kind \in {"freeze", "release"}
      <4>1. p \in OwnerCalls /\ OwnerCall(p)
        BY DEF OwnersInv, OwnerPage, LedgersInv
      <4>2. /\ q \in OwnerCalls /\ q.kind = p.kind /\ q.state = p.state /\ q.after = p.after
            /\ q.opened = p.opened /\ q.day = p.day /\ q.seats = p.seats
        BY <3>1, <3>2, <4>1 DEF OwnerCalls
      <4> QED  BY <4>1, <4>2 DEF OwnerCall
    <3> QED  BY <3>1, <3>2
  <2> QED  BY <1>0, <2>1, <2>2, <2>3, PageMoved
<1>3. CASE Owners!Refetch
  BY <1>0, <1>3, OwnerRead, PageMoved DEF Owners!Refetch
<1> QED  BY <1>1, <1>2, <1>3

LEMMA OwnerSends ==
  ASSUME OwnersInv,
         \/ Owners!SaveAccount \/ Owners!ConfirmRenewal \/ Owners!ConfirmBan \/ Owners!SaveFreeze
         \/ Owners!ConfirmRelease \/ \E a \in Accounts : Owners!ToggleAvailability(a)
  PROVE  OwnersInv' /\ EntriesFollow
<1>0. desk \in OwnerDesks /\ desk.day \in Nat /\ (desk.dialog # "none" => desk.account \in Accounts)
  BY DEF OwnersInv, OwnerPage, OwnerDesks
<1>1. CASE Owners!SaveAccount
  <2>1. PICK opened \in Openings, seats \in 1 .. MaxSeats, zero \in BOOLEAN :
          /\ desk.dialog = "account"
          /\ Owners!Send([Owners!Call("update", desk.account) EXCEPT
                          !.opened = opened, !.seats = seats, !.zero = zero])
    BY <1>1 DEF Owners!SaveAccount
  <2> DEFINE p == Owners!Call("update", desk.account)
             q == [p EXCEPT !.opened = opened, !.seats = seats, !.zero = zero]
  <2>2. p \in OwnerCalls /\ p.state = "sent"
    BY <1>0, <2>1, OwnerCallIs
  <2>3. opened \in Nat /\ seats \in Nat /\ seats \in SomeSeats
    BY OwnerBounds, OwnerRanges DEF SomeSeats
  <2> HIDE DEF p
  <2>4. q \in OwnerCalls /\ q.state = "sent" /\ q.opened = opened /\ q.seats = seats
    BY <2>2, <2>3 DEF OwnerCalls
  <2>5. Owners!Send(q)
    BY <2>1 DEF p
  <2> HIDE DEF q
  <2> QED  BY <2>3, <2>4, <2>5, CallMade
<1>2. CASE Owners!ConfirmRenewal
  <2> DEFINE p == Owners!Call("renew", desk.account)
             q == [p EXCEPT !.day = desk.day]
  <2>1. desk.dialog = "renewal" /\ Owners!Send(q)
    BY <1>2 DEF Owners!ConfirmRenewal
  <2>2. p \in OwnerCalls /\ p.state = "sent" /\ p.kind = "renew"
    BY <1>0, <2>1, OwnerCallIs
  <2> HIDE DEF p
  <2>3. q \in OwnerCalls /\ q.state = "sent" /\ q.kind = "renew"
    BY <1>0, <2>2 DEF OwnerCalls
  <2> HIDE DEF q
  <2> QED  BY <2>1, <2>3, CallMade, SMTT(30)
<1>3. CASE Owners!ConfirmBan
  BY <1>0, <1>3, OwnerCallIs, CallMade DEF Owners!ConfirmBan
<1>4. CASE Owners!SaveFreeze
  <2>1. PICK day \in Owners!Days :
          desk.dialog = "freeze" /\ Owners!Send([Owners!Call("freeze", desk.account) EXCEPT !.day = day])
    BY <1>4 DEF Owners!SaveFreeze
  <2> DEFINE p == Owners!Call("freeze", desk.account)
             q == [p EXCEPT !.day = day]
  <2>2. p \in OwnerCalls /\ p.state = "sent" /\ p.kind = "freeze"
    BY <1>0, <2>1, OwnerCallIs
  <2>3. day \in Nat
    BY OwnerBounds DEF Owners!Days
  <2>4. Owners!Send(q)
    BY <2>1
  <2> HIDE DEF p
  <2>5. q \in OwnerCalls /\ q.state = "sent" /\ q.kind = "freeze"
    BY <2>2, <2>3 DEF OwnerCalls
  <2> HIDE DEF q
  <2> QED  BY <2>4, <2>5, CallMade
<1>5. CASE Owners!ConfirmRelease
  BY <1>0, <1>5, OwnerCallIs, CallMade DEF Owners!ConfirmRelease
<1>6. CASE \E a \in Accounts : Owners!ToggleAvailability(a)
  <2>1. PICK a \in Accounts : Owners!Send([Owners!Call("availability", a) EXCEPT !.paused = ~shown[a].paused])
    BY <1>6 DEF Owners!ToggleAvailability
  <2> DEFINE p == Owners!Call("availability", a)
             q == [p EXCEPT !.paused = ~shown[a].paused]
  <2>2. p \in OwnerCalls /\ p.state = "sent" /\ p.kind = "availability"
    BY OwnerCallIs
  <2>3. (~shown[a].paused) \in BOOLEAN
    BY DEF OwnersInv, OwnerPage, OwnerViews
  <2>4. Owners!Send(q)
    BY <2>1
  <2> HIDE DEF p
  <2>5. q \in OwnerCalls /\ q.state = "sent" /\ q.kind = "availability"
    BY <2>2, <2>3 DEF OwnerCalls
  <2> HIDE DEF q
  <2> QED  BY <2>4, <2>5, CallMade
<1> QED  BY <1>1, <1>2, <1>3, <1>4, <1>5, <1>6

LEMMA OwnerAnswers ==
  ASSUME OwnersInv, NEW q \in calls, Owners!CallAnswered(q) \/ Owners!CallFails(q)
  PROVE  OwnersInv' /\ EntriesFollow
<1>1. UNCHANGED <<server, shown>> /\ calls' = calls \ {q} /\ (desk' = desk \/ desk' = Owners!Closed)
  BY DEF Owners!CallAnswered, Owners!CallFails
<1>2. Owners!Closed \in OwnerDesks /\ Owners!Closed.dialog = "none"
  BY DEF Owners!Closed, OwnerDesks, Owners!NoDay
<1> QED  BY <1>1, <1>2, PageMoved DEF OwnersInv, OwnerPage

LEMMA OwnersStep ==
  ASSUME OwnersInv, Owners!Next
  PROVE  OwnersInv' /\ EntriesFollow
<1>1. CASE Owners!Operator
  BY <1>1, OpenedFor, OwnerDialog, OwnerSends DEF Owners!Operator
<1>2. CASE Owners!Server
  <2>1. CASE \E q \in calls : \/ Owners!UpdateAccount(q) \/ Owners!SetAvailability(q) \/ Owners!BanAccount(q)
                              \/ Owners!SetFreeze(q) \/ Owners!CallAnswered(q) \/ Owners!CallFails(q)
    BY <2>1, AccountUpdated, AvailabilitySet, AccountBanned, FreezeSet, OwnerAnswers
  <2>2. CASE \E q \in calls : \/ Owners!MarkAccountRenewed(q) \/ Owners!LookForPeriod(q)
                              \/ Owners!CheckRenewal(q) \/ Owners!AccrueRenewal(q)
    BY <2>2, AccountRead, PeriodLookedFor, RenewalChecked, RenewalAccrued
  <2>3. CASE Owners!ProcessAccountCostRenewals \/ Owners!DayPasses
    BY <2>3, RenewalsProcessed, DayPassed
  <2>4. CASE \E a \in Accounts : Owners!StartAccrual(a) \/ Owners!AccrueNext(a) \/ Owners!CustomerLeaves(a)
    BY <2>4, AccrualStarted, NextAccrued, CustomerLeft
  <2> QED  BY <1>2, <2>1, <2>2, <2>3, <2>4 DEF Owners!Server
<1> QED  BY <1>1, <1>2 DEF Owners!Next

LEMMA OwnersAlways == Spec => [](page = "accounts" => OwnersInv)
<1>1. Init => (page = "accounts" => OwnersInv)
  BY OwnersStart DEF Init
<1>2. (page = "accounts" => OwnersInv) /\ [Next]_vars => (page = "accounts" => OwnersInv)'
  <2> SUFFICES ASSUME page = "accounts" => OwnersInv, [Next]_vars, page' = "accounts"
               PROVE  OwnersInv'
    OBVIOUS
  <2>1. CASE Next
    <3>1. page = "accounts" /\ Owners!Next
      BY <2>1 DEF Next
    <3> QED  BY <3>1, OwnersStep
  <2>2. CASE UNCHANGED vars
    <3>1. OwnersInv /\ UNCHANGED <<server, shown, desk, calls>>
      BY <2>2 DEF vars
    <3> QED  BY <3>1, PageMoved DEF OwnersInv, OwnerPage
  <2> QED  BY <2>1, <2>2
<1> QED  BY <1>1, <1>2, PTL DEF Spec

(* Whoever registers a renewal, the page or the scheduler, whatever is edited *)
(* or registered between the readings it is worked out from and its entry:    *)
(* the ledger has only months of the opening date the account has, and a      *)
(* month is entered after the one before it, unless the opening date was      *)
(* moved and moved back in between (account_cost.go, AccrueAccountRenewal).   *)
THEOREM LedgersAreFollowed == Spec => RenewalsFollowTheLedger
<1>1. ASSUME NEW r \in OwnerRows, Regular(r)
      PROVE  Owners!Monthly(r)
  <2>a. r.opened \in Openings /\ r.opened \in r.ledger
    BY <1>1 DEF OwnerRows, Regular
  <2>1. r.opened \in Nat /\ r.opened \in r.ledger
    BY <2>a, OwnerBounds
  <2>2. ASSUME NEW d \in r.ledger
        PROVE  d >= r.opened /\ (d - r.opened) % Month = 0
    <3>1. PICK k \in Nat : d = r.opened + k * Month
      BY <1>1 DEF Regular, Anniversary
    <3>2. k * Month \in Nat /\ (k * Month) % Month = 0
      BY Months
    <3>3. d - r.opened = k * Month /\ d >= r.opened
      BY <2>1, <3>1, <3>2
    <3> QED  BY <3>2, <3>3
  <2> QED  BY <2>1, <2>2 DEF Owners!Monthly
<1>2. ASSUME page = "accounts" => OwnersInv, [Next]_vars, page = "accounts", ~UNCHANGED vars
      PROVE  Owners!LedgerStep
  <2>1. OwnersInv /\ Owners!Next
    BY <1>2 DEF Next
  <2>2. OwnersInv' /\ EntriesFollow
    BY <2>1, OwnersStep
  <2> SUFFICES ASSUME NEW a \in Accounts
               PROVE  /\ Owners!Monthly(server'.row[a])
                      /\ \A d \in server'.row[a].ledger \ server.row[a].ledger :
                           \/ d = server'.row[a].opened
                           \/ d - Month \in server.row[a].ledger
                           \/ Owners!Overtaken(a, d)
    BY DEF Owners!LedgerStep, Owners!Monthly
  <2>3. server'.row[a] \in OwnerRows /\ Regular(server'.row[a])
    BY <2>2 DEF OwnersInv, OwnerServer, LedgersInv, Regular
  <2>4. Owners!Monthly(server'.row[a])
    BY <1>1, <2>3
  <2> QED  BY <2>2, <2>4 DEF EntriesFollow, Follows
<1>3. (page = "accounts" => OwnersInv) /\ [Next]_vars => [page = "accounts" => Owners!LedgerStep]_vars
  BY <1>2
<1>4. Spec => [][page = "accounts" => Owners!LedgerStep]_vars
  BY <1>3, OwnersAlways, PTL DEF Spec
<1> QED  BY <1>4, PTL DEF RenewalsFollowTheLedger

LEMMA OwnerTypes ==
  ASSUME OwnersInv
  PROVE  Owners!TypeOK
<1>1. ASSUME NEW a \in Accounts, NEW d \in server.row[a].ledger
      PROVE  d \in 1 .. AccountDays + Month
  <2> DEFINE r == server.row[a]
  <2>1. Regular(r) /\ r.opened \in Openings /\ d \in Nat
    BY OwnerFields
  <2>2. PICK k \in Nat : d = r.opened + k * Month
    BY <2>1 DEF Regular, Anniversary
  <2>3. r.opened \in Nat /\ r.opened > 0 /\ k * Month \in Nat
    BY <2>1, OwnerBounds, Months
  <2>4. d >= 1
    BY <2>2, <2>3
  <2>5. d <= LastRenewal
    BY <2>1 DEF Regular
  <2> QED  BY <2>1, <2>4, <2>5, OwnerBounds DEF LastRenewal
<1>2. ASSUME NEW a \in Accounts
      PROVE  server.row[a] \in [opened : Openings, ledger : SUBSET (1 .. AccountDays + Month),
                                seats : 1 .. MaxSeats, used : 0 .. MaxSeats, zero : BOOLEAN,
                                paused : BOOLEAN, banned : BOOLEAN, until : 0 .. AccountDays + MaxFreeze]
  <2>1. server.row[a] \in OwnerRows
    BY OwnerFields
  <2>2. server.row[a].ledger \in SUBSET (1 .. AccountDays + Month)
    BY <1>1
  <2> QED  BY <2>1, <2>2 DEF OwnerRows, SomeSeats, UsedSeats, Cooldowns
<1>3. ASSUME NEW a \in Accounts
      PROVE  server.run[a] \in [opened : Openings \cup {0}, today : 0 .. AccountDays, after : Nat,
                                day : 0 .. AccountDays]
  <2> DEFINE run == server.run[a]
  <2>1. run \in OwnerRuns /\ OwnerRun(run)
    BY OwnerFields
  <2>2. run.day \in 0 .. AccountDays
    BY <2>1, OwnerBounds DEF OwnerRuns, OwnerRun
  <2> QED  BY <2>1, <2>2 DEF OwnerRuns
<1>4. /\ server.row \in [Accounts -> OwnerRows] /\ server.run \in [Accounts -> OwnerRuns]
      /\ desk \in OwnerDesks /\ \A q \in calls : q \in OwnerCalls
  BY DEF OwnersInv, OwnerServer, OwnerPage
<1>5. \A q \in calls : /\ q.account \in Accounts
                        /\ q.state \in {"sent", "read", "unregistered", "checked", "done"}
  BY <1>4 DEF OwnerCalls
<1> QED  BY <1>2, <1>3, <1>4, <1>5 DEF Owners!TypeOK, OwnerDesks, Owners!NoDay

-----------------------------------------------------------------------------
(* GOALS AND MARKET PRICES *)

GoalRows == [status : {"absent", "active", "completed"}, text : Goals!Texts, result : Goals!Results]
MarketRows == [price : 0 .. MaxChecks, checking : BOOLEAN, resting : BOOLEAN, asked : 0 .. MaxChecks]
GoalCalls == [kind : {"create", "update", "complete", "refresh"}, goal : Goals!Goals \cup {Goals!None},
              text : Nat, owned : BOOLEAN, state : {"sent", "checked", "done", "reading"}]
GoalReadings == [step : {"idle", "asked", "read"}, view : Goals!Views, for : BOOLEAN]
GoalDesks == [dialog : {"none", "goal", "complete"}, text : Goals!Texts, reading : GoalReadings]

GoalServer ==
  /\ server \in [goal : [Goals!Goals -> GoalRows], market : MarketRows, profit : Goals!Results]
  /\ server.market.price <= server.market.asked
  /\ Goals!OneActiveGoal

(* A call acts on what it may be written to; a refresh that was answered      *)
(* brought a price that is not newer than the one at hand.                    *)
GoalCall(q, price) ==
  /\ q \in GoalCalls
  /\ q.kind \in {"update", "complete"} => q.goal \in Goals!Goals
  /\ q.kind \in {"create", "update"} => q.text \in Goals!Texts
  /\ q.kind = "complete" /\ q.state = "checked" => q.text \in Goals!Results
  /\ q.kind = "refresh" /\ q.state \in {"done", "reading"} => q.text <= price
  /\ q.state = "reading" => q.kind = "refresh"

(* A reading that ends a refresh was made after the refresh was answered.     *)
ReadAfter(reading, Q) ==
  reading.for /\ reading.step = "read" =>
    \A q \in Q : q.kind = "refresh" /\ q.state = "reading" => q.text <= reading.view.price

GoalQueue == \A q \in calls : GoalCall(q, server.market.price)

GoalsInv == /\ GoalServer /\ shown \in Goals!Views /\ desk \in GoalDesks
            /\ GoalQueue /\ ReadAfter(desk.reading, calls) /\ changes \in 0 .. MaxChanges

GoalsStep == GoalsInv' /\ Goals!GoalStep /\ Goals!RefreshStep

LEMMA GoalsBounds ==
  /\ Goals!Texts = {0, 1, 2} /\ MaxChanges \in Nat /\ Goals!Results = 0 .. MaxChanges
  /\ MaxGoals \in Nat /\ MaxChecks \in Nat
  /\ Goals!Goals = 1 .. MaxGoals /\ Goals!None = 0
BY PageAssumptions
   DEF Pricing!RepricingAssumption, Goals!Texts, Goals!Results, Goals!Goals, Goals!None, Goals!Here,
       Goals!Abroad

LEMMA GoalsFacts ==
  ASSUME GoalsInv
  PROVE  /\ server.goal \in [Goals!Goals -> GoalRows] /\ server.market \in MarketRows
         /\ server.profit \in Goals!Results
         /\ server.market.price \in 0 .. MaxChecks /\ server.market.asked \in 0 .. MaxChecks
         /\ \A g \in Goals!Goals : server.goal[g] \in GoalRows
         /\ desk.reading \in GoalReadings /\ desk.text \in Goals!Texts
         /\ \A q \in calls : q \in GoalCalls /\ q.text \in Nat
<1>1. server \in [goal : [Goals!Goals -> GoalRows], market : MarketRows, profit : Goals!Results]
  BY DEF GoalsInv, GoalServer
<1>2. server.goal \in [Goals!Goals -> GoalRows] /\ server.market \in MarketRows
        /\ server.profit \in Goals!Results
  BY <1>1
<1>3. server.market.price \in 0 .. MaxChecks /\ server.market.asked \in 0 .. MaxChecks
  BY <1>2 DEF MarketRows
<1>4. \A g \in Goals!Goals : server.goal[g] \in GoalRows
  BY <1>2
<1>5. desk.reading \in GoalReadings /\ desk.text \in Goals!Texts
  BY DEF GoalsInv, GoalDesks
<1>6. \A q \in calls : q \in GoalCalls
  BY DEF GoalsInv, GoalQueue, GoalCall
<1>7. \A q \in calls : q.text \in Nat
  BY <1>6 DEF GoalCalls
<1> QED  BY <1>2, <1>3, <1>4, <1>5, <1>6, <1>7

(* The goal that is worked for, if there is one.                              *)
LEMMA CurrentGoal ==
  /\ Goals!Current = Goals!None => \A g \in Goals!Goals : ~Goals!Active(g)
  /\ Goals!Current # Goals!None => Goals!Current \in Goals!Goals /\ Goals!Active(Goals!Current)
<1>1. CASE \E g \in Goals!Goals : Goals!Active(g)
  <2>1. Goals!Current = CHOOSE g \in Goals!Goals : Goals!Active(g)
    BY <1>1 DEF Goals!Current
  <2>2. Goals!Current \in Goals!Goals /\ Goals!Active(Goals!Current)
    BY <1>1, <2>1, Zenon
  <2> QED  BY <2>2, GoalsBounds
<1>2. CASE ~ \E g \in Goals!Goals : Goals!Active(g)
  BY <1>2 DEF Goals!Current
<1> QED  BY <1>1, <1>2

(* One goal is written: an active one, or the next one when none is.          *)
LEMMA GoalWritten ==
  ASSUME GoalsInv, NEW g \in Goals!Goals, NEW r \in GoalRows,
         server' = [server EXCEPT !.goal = [server.goal EXCEPT ![g] = r]],
         server.goal[g].status # "completed",
         r.status = "active" => (Goals!Active(g) \/ \A h \in Goals!Goals : ~Goals!Active(h))
  PROVE  GoalServer' /\ server'.market = server.market /\ Goals!GoalStep
<1>1. server \in [goal : [Goals!Goals -> GoalRows], market : MarketRows, profit : Goals!Results]
  BY DEF GoalsInv, GoalServer
<1>2. /\ server' \in [goal : [Goals!Goals -> GoalRows], market : MarketRows, profit : Goals!Results]
      /\ server'.market = server.market
      /\ server'.goal = [server.goal EXCEPT ![g] = r]
  <2>1. [server.goal EXCEPT ![g] = r] \in [Goals!Goals -> GoalRows]
    BY <1>1
  <2> QED  BY <1>1, <2>1
<1>3. \A h \in Goals!Goals : server'.goal[h] = IF h = g THEN r ELSE server.goal[h]
  BY <1>1, <1>2
<1>4. Goals!OneActiveGoal
  BY DEF GoalsInv, GoalServer
<1>5. Goals!OneActiveGoal'
  BY <1>3, <1>4 DEF Goals!OneActiveGoal, Goals!Active
<1>6. Goals!GoalStep
  BY <1>3, <1>4 DEF Goals!GoalStep
<1> QED  BY <1>2, <1>5, <1>6 DEF GoalsInv, GoalServer

LEMMA GoalsKept ==
  ASSUME GoalsInv, server'.goal = server.goal
  PROVE  Goals!GoalStep /\ Goals!OneActiveGoal'
<1>1. Goals!OneActiveGoal
  BY DEF GoalsInv, GoalServer
<1> QED  BY <1>1 DEF Goals!GoalStep, Goals!OneActiveGoal, Goals!Active

(* Calls come and go while a reading stays what it was.                       *)
LEMMA GoalCallsMove ==
  ASSUME GoalsInv, server'.market.price \in 0 .. MaxChecks, server'.market.price >= server.market.price,
         desk'.reading = desk.reading,
         \A r \in calls' : r \in calls \/ (GoalCall(r, server'.market.price) /\ r.state # "reading"),
         \A q \in calls : q.state = "reading" => q \in calls'
  PROVE  GoalQueue' /\ ReadAfter(desk.reading, calls)' /\ Goals!RefreshStep
<1>1. GoalQueue'
  <2>1. ASSUME NEW q \in calls
        PROVE  GoalCall(q, server'.market.price)
    <3>1. GoalCall(q, server.market.price) /\ q.text \in Nat
      BY GoalsFacts DEF GoalsInv, GoalQueue
    <3> QED  BY <3>1, GoalsFacts DEF GoalCall
  <2> QED  BY <2>1 DEF GoalQueue
<1>2. ReadAfter(desk.reading, calls)'
  BY DEF GoalsInv, ReadAfter
<1>3. Goals!RefreshStep
  BY DEF Goals!RefreshStep
<1> QED  BY <1>1, <1>2, <1>3

(* What the server does with a call.                                          *)
LEMMA GoalServes ==
  ASSUME GoalsInv, NEW q \in calls,
         \/ Goals!CheckCreation(q) \/ Goals!InsertGoal(q) \/ Goals!UpdateGoal(q)
         \/ Goals!ComputeResult(q) \/ Goals!CompleteGoal(q)
  PROVE  GoalsStep
<1> DEFINE Sent(s, x) == calls' = (calls \ {q}) \cup {[q EXCEPT !.state = s, !.text = x]}
           Dropped == calls' = calls \ {q} /\ server' = server
<1>1. q \in GoalCalls /\ q.text \in Nat /\ GoalCall(q, server.market.price)
  BY GoalsFacts DEF GoalsInv, GoalQueue
<1>2. UNCHANGED <<shown, desk, changes>> /\ q.kind # "refresh" /\ q.state # "reading"
  BY <1>1 DEF Goals!CheckCreation, Goals!InsertGoal, Goals!UpdateGoal, Goals!ComputeResult,
              Goals!CompleteGoal, GoalCall
<1>3. [q EXCEPT !.text = q.text] = q /\ \A s : [q EXCEPT !.state = s, !.text = q.text]
        = [q EXCEPT !.state = s]
  BY <1>1 DEF GoalCalls
<1>4. CASE Dropped
  BY <1>2, <1>4, GoalCallsMove, GoalsKept, GoalsFacts DEF GoalsInv, GoalServer, GoalsStep
<1>5. ASSUME server'.market = server.market, GoalServer', Goals!GoalStep,
             NEW s \in {"checked", "done"}, NEW x \in Nat, Sent(s, x),
             q.kind \in {"create", "update"} => x \in Goals!Texts,
             q.kind = "complete" /\ s = "checked" => x \in Goals!Results
      PROVE  GoalsStep
  <2> DEFINE r == [q EXCEPT !.state = s, !.text = x]
  <2>1. r \in GoalCalls /\ r.kind = q.kind /\ r.goal = q.goal /\ r.state = s /\ r.text = x
    BY <1>1 DEF GoalCalls
  <2>2. calls' = (calls \ {q}) \cup {r}
    BY <1>5
  <2> HIDE DEF r
  <2>3. GoalCall(r, server'.market.price) /\ r.state # "reading"
    BY <1>1, <1>2, <1>5, <2>1 DEF GoalCall
  <2>4. desk' = desk /\ shown' = shown /\ changes' = changes /\ server'.market.price = server.market.price
        /\ server.market.price \in 0 .. MaxChecks
    BY <1>2, <1>5, GoalsFacts
  <2>5. \A p \in calls : p.state = "reading" => p \in calls'
    BY <1>2, <2>2
  <2>6. \A p \in calls' : p \in calls \/ (GoalCall(p, server'.market.price) /\ p.state # "reading")
    BY <2>2, <2>3
  <2>7. GoalQueue' /\ ReadAfter(desk.reading, calls)' /\ Goals!RefreshStep
    BY <2>4, <2>5, <2>6, GoalCallsMove
  <2> QED  BY <1>5, <2>4, <2>7 DEF GoalsInv, GoalsStep
<1>6. ASSUME server' = server, NEW s \in {"checked", "done"}, NEW x \in Nat, Sent(s, x),
             q.kind \in {"create", "update"} => x \in Goals!Texts,
             q.kind = "complete" /\ s = "checked" => x \in Goals!Results
      PROVE  GoalsStep
  <2>1. GoalServer' /\ Goals!GoalStep
    BY <1>6, GoalsKept DEF GoalsInv, GoalServer
  <2> QED  BY <1>5, <1>6, <2>1
<1>7. CASE Goals!CheckCreation(q)
  <2>1. Dropped \/ (server' = server /\ Sent("checked", q.text) /\ q.kind = "create")
    BY <1>3, <1>7 DEF Goals!CheckCreation, Goals!Settled, Goals!Refuse
  <2>2. CASE ~Dropped
    BY <1>1, <1>6, <2>1, <2>2 DEF GoalCall
  <2> QED  BY <1>4, <2>2
<1>8. CASE Goals!InsertGoal(q)
  <2>1. CASE Goals!Current = Goals!None
    <3>1. PICK g \in Goals!Goals :
             /\ ~Goals!Created(g)
             /\ server' = [server EXCEPT !.goal[g] = [@ EXCEPT !.status = "active", !.text = q.text]]
             /\ Goals!Settled(q, "done")
      BY <1>8, <2>1 DEF Goals!InsertGoal
    <3>2. q.kind = "create" /\ q.text \in Goals!Texts
      BY <1>1, <1>8 DEF Goals!InsertGoal, GoalCall
    <3> DEFINE r == [server.goal[g] EXCEPT !.status = "active", !.text = q.text]
    <3>3. server.goal[g] \in GoalRows /\ r \in GoalRows /\ server.goal[g].status = "absent"
      BY <3>1, <3>2, GoalsFacts DEF GoalRows, Goals!Created
    <3>4. server' = [server EXCEPT !.goal = [server.goal EXCEPT ![g] = r]]
      BY <3>1
    <3>5. \A h \in Goals!Goals : ~Goals!Active(h)
      BY <2>1, CurrentGoal
    <3> HIDE DEF r
    <3>6. GoalServer' /\ server'.market = server.market /\ Goals!GoalStep
      BY <3>3, <3>4, <3>5, GoalWritten
    <3>7. Sent("done", q.text)
      BY <1>3, <3>1 DEF Goals!Settled
    <3> QED  BY <1>1, <1>5, <3>2, <3>6, <3>7
  <2>2. CASE Goals!Current # Goals!None
    BY <1>4, <1>8, <2>2 DEF Goals!InsertGoal, Goals!Refuse
  <2> QED  BY <2>1, <2>2
<1>9. CASE Goals!UpdateGoal(q)
  <2>1. CASE Goals!Active(q.goal)
    <3>1. q.kind = "update" /\ q.text \in Goals!Texts /\ q.goal \in Goals!Goals
      BY <1>1, <1>9 DEF Goals!UpdateGoal, GoalCall
    <3> DEFINE r == [server.goal[q.goal] EXCEPT !.text = q.text]
    <3>2. server.goal[q.goal] \in GoalRows /\ r \in GoalRows /\ server.goal[q.goal].status = "active"
      BY <2>1, <3>1, GoalsFacts DEF GoalRows, Goals!Active
    <3>3. server' = [server EXCEPT !.goal = [server.goal EXCEPT ![q.goal] = r]]
      BY <1>9, <2>1 DEF Goals!UpdateGoal
    <3> HIDE DEF r
    <3>4. GoalServer' /\ server'.market = server.market /\ Goals!GoalStep
      BY <2>1, <3>1, <3>2, <3>3, GoalWritten
    <3>5. Sent("done", q.text)
      BY <1>3, <1>9, <2>1 DEF Goals!UpdateGoal, Goals!Settled
    <3> QED  BY <1>1, <1>5, <3>1, <3>4, <3>5
  <2>2. CASE ~Goals!Active(q.goal)
    BY <1>4, <1>9, <2>2 DEF Goals!UpdateGoal, Goals!Refuse
  <2> QED  BY <2>1, <2>2
<1>10. CASE Goals!ComputeResult(q)
  <2>1. Dropped \/ (server' = server /\ Sent("checked", server.profit) /\ q.kind = "complete")
    BY <1>10 DEF Goals!ComputeResult, Goals!Refuse
  <2>2. server.profit \in Nat /\ server.profit \in Goals!Results
    BY GoalsFacts, GoalsBounds
  <2>3. CASE ~Dropped
    BY <1>6, <2>1, <2>2, <2>3
  <2> QED  BY <1>4, <2>3
<1>11. CASE Goals!CompleteGoal(q)
  <2>1. CASE Goals!Active(q.goal)
    <3>1. q.kind = "complete" /\ q.text \in Goals!Results /\ q.goal \in Goals!Goals
      BY <1>1, <1>11 DEF Goals!CompleteGoal, GoalCall
    <3> DEFINE r == [server.goal[q.goal] EXCEPT !.status = "completed", !.result = q.text]
    <3>2. server.goal[q.goal] \in GoalRows /\ r \in GoalRows /\ server.goal[q.goal].status = "active"
      BY <2>1, <3>1, GoalsFacts DEF GoalRows, Goals!Active
    <3>3. server' = [server EXCEPT !.goal = [server.goal EXCEPT ![q.goal] = r]]
      BY <1>11, <2>1, <3>1, <3>2, GoalsFacts DEF Goals!CompleteGoal
    <3> HIDE DEF r
    <3>4. GoalServer' /\ server'.market = server.market /\ Goals!GoalStep
      BY <2>1, <3>1, <3>2, <3>3, GoalWritten
    <3>5. Sent("done", q.text)
      BY <1>3, <1>11, <2>1 DEF Goals!CompleteGoal, Goals!Settled
    <3> QED  BY <1>1, <1>5, <3>1, <3>4, <3>5
  <2>2. CASE ~Goals!Active(q.goal)
    BY <1>4, <1>11, <2>2 DEF Goals!CompleteGoal, Goals!Refuse
  <2> QED  BY <2>1, <2>2
<1> QED  BY <1>7, <1>8, <1>9, <1>10, <1>11

(* Prices are asked for, and the call that asked is answered.                 *)
LEMMA GoalRefreshes ==
  ASSUME GoalsInv, NEW q \in calls, Goals!AskProvider(q) \/ Goals!ProviderAnswers(q)
  PROVE  GoalsStep
<1>1. q \in GoalCalls /\ GoalCall(q, server.market.price) /\ q.kind = "refresh"
        /\ q.state \in {"sent", "checked"}
      /\ UNCHANGED <<shown, desk, changes>>
  BY GoalsFacts DEF GoalsInv, GoalQueue, Goals!AskProvider, Goals!ProviderAnswers
<1>2. server \in [goal : [Goals!Goals -> GoalRows], market : MarketRows, profit : Goals!Results]
      /\ server.market.price <= server.market.asked /\ server.market \in MarketRows
      /\ server.market.price \in 0 .. MaxChecks /\ server.market.asked \in 0 .. MaxChecks
  BY GoalsFacts DEF GoalsInv, GoalServer
<1> DEFINE Written(m) == server' = [server EXCEPT !.market = m]
           Sent(s, x) == calls' = (calls \ {q}) \cup {[q EXCEPT !.state = s, !.text = x]}
<1>3. ASSUME NEW m \in MarketRows, Written(m), m.price <= m.asked, m.price >= server.market.price,
             NEW s \in {"checked", "done"}, NEW x \in Nat, Sent(s, x),
             s = "done" => x <= m.price
      PROVE  GoalsStep
  <2> DEFINE r == [q EXCEPT !.state = s, !.text = x]
  <2>1. r \in GoalCalls /\ r.kind = "refresh" /\ r.state = s /\ r.text = x
    BY <1>1 DEF GoalCalls
  <2>2. calls' = (calls \ {q}) \cup {r}
    BY <1>3
  <2> HIDE DEF r
  <2>3. /\ server' \in [goal : [Goals!Goals -> GoalRows], market : MarketRows, profit : Goals!Results]
        /\ server'.market = m /\ server'.goal = server.goal
    BY <1>2, <1>3
  <2>4. GoalServer' /\ Goals!GoalStep
    BY <1>3, <2>3, GoalsKept DEF GoalServer
  <2>5. GoalCall(r, m.price) /\ r.state # "reading"
    BY <1>3, <2>1 DEF GoalCall
  <2>6. \A p \in calls : p.state = "reading" => p \in calls'
    BY <1>1, <2>2
  <2>7. \A p \in calls' : p \in calls \/ (GoalCall(p, server'.market.price) /\ p.state # "reading")
    BY <2>2, <2>3, <2>5
  <2>8. m.price \in 0 .. MaxChecks
    BY DEF MarketRows
  <2>9. GoalQueue' /\ ReadAfter(desk.reading, calls)' /\ Goals!RefreshStep
    BY <1>1, <1>3, <2>3, <2>6, <2>7, <2>8, GoalCallsMove
  <2> QED  BY <1>1, <2>4, <2>9 DEF GoalsInv, GoalsStep
<1>4. \A s : [q EXCEPT !.state = s, !.text = q.text] = [q EXCEPT !.state = s]
  BY <1>1 DEF GoalCalls
<1>5. CASE Goals!AskProvider(q)
  <2>1. CASE Goals!Market.resting
    <3>1. Sent("done", server.market.price) /\ server' = server
      BY <1>5, <2>1 DEF Goals!AskProvider, Goals!Market
    <3>2. Written(server.market) /\ server.market.price \in Nat
      BY <1>2, <3>1
    <3> HIDE DEF Written, Sent
    <3> QED  BY <1>2, <1>3, <3>1, <3>2
  <2>2. CASE ~Goals!Market.resting
    <3> DEFINE m == [server.market EXCEPT !.checking = TRUE, !.resting = TRUE, !.asked = @ + 1]
    <3>1. /\ server.market.asked < MaxChecks
          /\ Written(m)
          /\ Sent("checked", q.text)
      BY <1>2, <1>4, <1>5, <2>2 DEF Goals!AskProvider, Goals!Market, Goals!Settled
    <3>2b. server.market.asked + 1 \in 0 .. MaxChecks
      BY <1>2, <3>1, GoalsBounds
    <3>2. m \in MarketRows /\ m.price = server.market.price /\ m.asked = server.market.asked + 1
      BY <1>2, <3>2b DEF MarketRows
    <3> HIDE DEF m, Written, Sent
    <3>3. q.text \in Nat
      BY GoalsFacts
    <3> QED  BY <1>2, <1>3, <3>1, <3>2, <3>3
  <2> QED  BY <2>1, <2>2
<1>6. CASE Goals!ProviderAnswers(q)
  <2>1. PICK price \in {server.market.asked, server.market.price} :
           /\ server' = [server EXCEPT !.market.checking = FALSE, !.market.price = price]
           /\ Sent("done", price)
    BY <1>6 DEF Goals!ProviderAnswers, Goals!Market
  <2> DEFINE m == [server.market EXCEPT !.checking = FALSE, !.price = price]
  <2>2. Written(m)
    BY <1>2, <2>1
  <2>3. price \in 0 .. MaxChecks /\ price >= server.market.price /\ price <= server.market.asked
    BY <1>2, <2>1
  <2>4. m \in MarketRows /\ m.price = price /\ m.asked = server.market.asked
    BY <1>2, <2>3 DEF MarketRows
  <2> HIDE DEF m, Written, Sent
  <2> QED  BY <1>3, <2>1, <2>2, <2>3, <2>4
<1> QED  BY <1>5, <1>6

(* What does not touch the calls or the market.                               *)
LEMMA GoalsElsewhere ==
  ASSUME GoalsInv,
         Goals!RestIsOver \/ Goals!CompletedElsewhere \/ Goals!CreatedElsewhere \/ Goals!ProfitChanges
  PROVE  GoalsStep
<1>1. UNCHANGED <<shown, desk, calls>> /\ changes' \in 0 .. MaxChanges
  <2>1. UNCHANGED <<shown, desk, calls>> /\ (changes' = changes
          \/ (changes < MaxChanges /\ changes' = changes + 1))
    BY DEF Goals!RestIsOver, Goals!CompletedElsewhere, Goals!CreatedElsewhere, Goals!ProfitChanges,
           Goals!Elsewhere
  <2>2. changes \in 0 .. MaxChanges /\ MaxChanges \in Nat
    BY GoalsBounds DEF GoalsInv
  <2> QED  BY <2>1, <2>2
<1>2. server \in [goal : [Goals!Goals -> GoalRows], market : MarketRows, profit : Goals!Results]
      /\ server.market.price <= server.market.asked /\ server.market \in MarketRows
      /\ server.market.price \in 0 .. MaxChecks /\ server.profit \in Goals!Results
  BY GoalsFacts DEF GoalsInv, GoalServer
<1>3. ASSUME GoalServer', Goals!GoalStep, server'.market.price = server.market.price
      PROVE  GoalsStep
  <2>1. GoalQueue' /\ ReadAfter(desk.reading, calls)' /\ Goals!RefreshStep
    BY <1>1, <1>2, <1>3, GoalCallsMove
  <2> QED  BY <1>1, <1>3, <2>1 DEF GoalsInv, GoalsStep
<1>4. CASE Goals!RestIsOver
  <2> DEFINE m == [server.market EXCEPT !.resting = FALSE]
  <2>1. server' = [server EXCEPT !.market = m]
    BY <1>2, <1>4 DEF Goals!RestIsOver, Goals!Market
  <2>2. m \in MarketRows /\ m.price = server.market.price /\ m.asked = server.market.asked
    BY <1>2 DEF MarketRows
  <2> HIDE DEF m
  <2>3. /\ server' \in [goal : [Goals!Goals -> GoalRows], market : MarketRows, profit : Goals!Results]
        /\ server'.market = m /\ server'.goal = server.goal
    BY <1>2, <2>1, <2>2
  <2> QED  BY <1>2, <1>3, <2>2, <2>3, GoalsKept DEF GoalServer
<1>5. CASE Goals!CompletedElsewhere
  <2> DEFINE g == Goals!Current
             r == [server.goal[g] EXCEPT !.status = "completed", !.result = server.profit]
  <2>1. g # Goals!None /\ g \in Goals!Goals /\ Goals!Active(g)
    BY <1>5, CurrentGoal DEF Goals!CompletedElsewhere
  <2>2. server' = [server EXCEPT !.goal = [server.goal EXCEPT ![g] = r]]
    BY <1>5, <2>1, GoalsFacts DEF Goals!CompletedElsewhere, Goals!Elsewhere
  <2>3. r \in GoalRows /\ r.status = "completed" /\ server.goal[g].status = "active"
    BY <1>2, <2>1, GoalsFacts DEF GoalRows, Goals!Active
  <2> HIDE DEF r, g
  <2>4. GoalServer' /\ server'.market = server.market /\ Goals!GoalStep
    BY <2>1, <2>2, <2>3, GoalWritten
  <2> QED  BY <1>3, <2>4
<1>6. CASE Goals!CreatedElsewhere
  <2>1. Goals!Current = Goals!None
    BY <1>6 DEF Goals!CreatedElsewhere
  <2>2. PICK g \in Goals!Goals :
           ~Goals!Created(g) /\ Goals!Elsewhere([server EXCEPT !.goal[g].status = "active",
                 !.goal[g].text = Goals!Abroad])
    BY <1>6 DEF Goals!CreatedElsewhere
  <2> DEFINE r == [server.goal[g] EXCEPT !.status = "active", !.text = Goals!Abroad]
  <2>3. server' = [server EXCEPT !.goal = [server.goal EXCEPT ![g] = r]]
    BY <2>2, GoalsFacts DEF Goals!Elsewhere
  <2>4. r \in GoalRows /\ server.goal[g].status = "absent"
    BY <2>2, GoalsFacts, GoalsBounds DEF GoalRows, Goals!Created, Goals!Abroad
  <2>5. \A h \in Goals!Goals : ~Goals!Active(h)
    BY <2>1, CurrentGoal
  <2> HIDE DEF r
  <2>6. GoalServer' /\ server'.market = server.market /\ Goals!GoalStep
    BY <2>3, <2>4, <2>5, GoalWritten
  <2> QED  BY <1>3, <2>6
<1>7. CASE Goals!ProfitChanges
  <2>1. changes < MaxChanges /\ server' = [server EXCEPT !.profit = changes + 1]
    BY <1>7 DEF Goals!ProfitChanges, Goals!Elsewhere
  <2>2. changes + 1 \in Goals!Results
    BY <2>1, GoalsBounds DEF GoalsInv
  <2>3. /\ server' \in [goal : [Goals!Goals -> GoalRows], market : MarketRows, profit : Goals!Results]
        /\ server'.market = server.market /\ server'.goal = server.goal
    BY <1>2, <2>1, <2>2
  <2> QED  BY <1>2, <1>3, <2>3, GoalsKept DEF GoalServer
<1> QED  BY <1>4, <1>5, <1>6, <1>7

LEMMA GoalPageMoves ==
  ASSUME GoalsInv, UNCHANGED <<server, changes>>, shown' \in Goals!Views, desk' \in GoalDesks,
         \A r \in calls' : r \in calls \/ GoalCall(r, server.market.price),
         ReadAfter(desk'.reading, calls'), Goals!RefreshStep
  PROVE  GoalsStep
<1>1. GoalServer' /\ Goals!GoalStep
  BY GoalsKept DEF GoalsInv, GoalServer
<1>2. GoalQueue'
  BY DEF GoalsInv, GoalQueue
<1> QED  BY <1>1, <1>2 DEF GoalsInv, GoalsStep

LEMMA GoalViews == GoalsInv => Goals!View \in Goals!Views /\ Goals!View.price = server.market.price
<1> SUFFICES ASSUME GoalsInv PROVE Goals!View \in Goals!Views /\ Goals!View.price = server.market.price
  OBVIOUS
<1>1. Goals!Current \in Goals!Goals \cup {Goals!None} /\ server.market.price \in 0 .. MaxChecks
  BY CurrentGoal, GoalsFacts
<1>2. Goals!None \in Goals!Texts /\ \A g \in Goals!Goals : server.goal[g].text \in Goals!Texts
  BY GoalsFacts, GoalsBounds DEF GoalRows
<1>3. (IF Goals!Current = Goals!None THEN Goals!None ELSE server.goal[Goals!Current].text) \in Goals!Texts
  BY <1>1, <1>2
<1> QED  BY <1>1, <1>3 DEF Goals!View, Goals!Views, Goals!Market

LEMMA GoalIdle ==
  /\ Goals!Idle \in GoalReadings /\ Goals!Anew(FALSE) = [Goals!Idle EXCEPT !.step = "asked"]
  /\ \A for \in BOOLEAN : Goals!Anew(for) \in GoalReadings /\ Goals!Anew(for).step = "asked"
<1>1. Goals!NotRead \in Goals!Views
  BY GoalsBounds DEF Goals!NotRead, Goals!Views
<1> HIDE DEF Goals!NotRead
<1>2. Goals!Idle \in GoalReadings /\ Goals!Idle.for = FALSE
  BY <1>1 DEF GoalReadings, Goals!Idle
<1>3. \A for \in BOOLEAN : Goals!Anew(for) \in GoalReadings /\ Goals!Anew(for).step = "asked"
  BY <1>2 DEF GoalReadings, Goals!Anew
<1>4. Goals!Anew(FALSE) = [Goals!Idle EXCEPT !.step = "asked"]
  <2>1. [Goals!Idle EXCEPT !.step = "asked", !.for = FALSE] = [Goals!Idle EXCEPT !.step = "asked"]
    BY <1>2 DEF GoalReadings
  <2> QED  BY <2>1 DEF Goals!Anew
<1> QED  BY <1>2, <1>3, <1>4

(* The page is read, in three steps.                                          *)
LEMMA GoalReads ==
  ASSUME GoalsInv,
         Goals!RefetchOnFocus \/ Goals!ReadServer \/ Goals!ReadingArrives \/ Goals!ReadingFails
  PROVE  GoalsStep
<1>1. /\ UNCHANGED <<server, changes>> /\ desk \in GoalDesks /\ shown \in Goals!Views
      /\ desk.reading \in GoalReadings /\ \A q \in calls : q.text \in Nat
  BY GoalsFacts DEF GoalsInv, Goals!RefetchOnFocus, Goals!ReadServer, Goals!ReadingArrives,
     Goals!ReadingFails
<1>2. ASSUME NEW r \in GoalReadings, desk' = [desk EXCEPT !.reading = r]
      PROVE  desk' \in GoalDesks /\ desk'.reading = r
  BY <1>1, <1>2 DEF GoalDesks
<1>3. CASE Goals!RefetchOnFocus
  <2>1. desk' = [desk EXCEPT !.reading = Goals!Anew(FALSE)] /\ UNCHANGED <<shown, calls>>
    BY <1>3, GoalIdle DEF Goals!RefetchOnFocus
  <2>2. desk' \in GoalDesks /\ desk'.reading.step = "asked"
    BY <1>2, <2>1, GoalIdle
  <2> QED  BY <1>1, <2>1, <2>2, GoalPageMoves DEF ReadAfter, Goals!RefreshStep
<1>4. CASE Goals!ReadServer
  <2> DEFINE r == [desk.reading EXCEPT !.step = "read", !.view = Goals!View]
  <2>1. desk' = [desk EXCEPT !.reading = r] /\ UNCHANGED <<shown, calls>>
    BY <1>1, <1>4 DEF Goals!ReadServer, GoalDesks
  <2>2. r \in GoalReadings /\ r.view = Goals!View
    BY <1>1, GoalViews DEF GoalReadings
  <2> HIDE DEF r
  <2>3. desk' \in GoalDesks /\ desk'.reading.view.price = server.market.price
    BY <1>2, <2>1, <2>2, GoalViews
  <2>4. \A q \in calls : q.kind = "refresh" /\ q.state = "reading" => q.text <= server.market.price
    BY DEF GoalsInv, GoalQueue, GoalCall
  <2> QED  BY <1>1, <2>1, <2>3, <2>4, GoalPageMoves DEF ReadAfter, Goals!RefreshStep
<1>5. CASE Goals!ReadingArrives \/ Goals!ReadingFails
  <2>1. desk' = [desk EXCEPT !.reading = Goals!Idle] /\ shown' \in {shown, desk.reading.view}
        /\ calls' = IF desk.reading.for THEN {q \in calls : q.state # "reading"} ELSE calls
    BY <1>5 DEF Goals!ReadingArrives, Goals!ReadingFails
  <2>2. desk' \in GoalDesks /\ desk'.reading = Goals!Idle
    BY <1>2, <2>1, GoalIdle
  <2>3. shown' \in Goals!Views
    BY <1>1, <2>1 DEF GoalReadings
  <2>4. ReadAfter(desk'.reading, calls')
    BY <2>2 DEF ReadAfter, Goals!Idle
  <2>5. Goals!RefreshStep
    <3> SUFFICES ASSUME NEW q \in calls, q.kind = "refresh", q.state = "reading", q \notin calls',
                        shown' = desk.reading.view, desk.reading.step = "read"
                 PROVE  shown'.price >= q.text
      BY DEF Goals!RefreshStep
    <3>1. desk.reading.for
      BY <2>1
    <3>2. q.text <= desk.reading.view.price
      BY <3>1 DEF GoalsInv, ReadAfter
    <3>3. desk.reading.view.price \in 0 .. MaxChecks
      BY <1>1 DEF GoalReadings, Goals!Views
    <3> QED  BY <1>1, <3>2, <3>3
  <2>6. \A r \in calls' : r \in calls
    BY <2>1
  <2> QED  BY <1>1, <2>2, <2>3, <2>4, <2>5, <2>6, GoalPageMoves
<1> QED  BY <1>3, <1>4, <1>5

(* The operator opens, types, closes and sends.                               *)
LEMMA GoalOperates ==
  ASSUME GoalsInv,
         \/ Goals!OpenGoalDialog \/ Goals!TypeGoal \/ Goals!CloseDialog \/ Goals!SaveGoal
         \/ Goals!AskCompletion \/ Goals!ConfirmCompletion \/ Goals!RefreshMarket
  PROVE  GoalsStep
<1>1. /\ desk \in GoalDesks /\ desk.text \in Goals!Texts /\ shown \in Goals!Views
      /\ server.market.price \in 0 .. MaxChecks /\ \A q \in calls : GoalCall(q, server.market.price)
  BY GoalsFacts DEF GoalsInv, GoalQueue
<1>2. ASSUME UNCHANGED <<server, shown, changes>>, desk' \in GoalDesks, desk'.reading = desk.reading,
             \A r \in calls' : r \in calls \/ (GoalCall(r, server.market.price) /\ r.state # "reading"),
             \A q \in calls : q.state = "reading" => q \in calls'
      PROVE  GoalsStep
  <2>1. GoalQueue' /\ ReadAfter(desk.reading, calls)' /\ Goals!RefreshStep
    BY <1>1, <1>2, GoalCallsMove
  <2> QED  BY <1>1, <1>2, <2>1, GoalPageMoves DEF ReadAfter
<1>3. CASE Goals!OpenGoalDialog \/ Goals!TypeGoal \/ Goals!AskCompletion
  <2>1. UNCHANGED <<server, shown, changes, calls>>
        /\ desk' \in {[desk EXCEPT !.dialog = "goal", !.text = shown.text], [desk EXCEPT !.text = Goals!Here],
                      [desk EXCEPT !.dialog = "complete"]}
    BY <1>3 DEF Goals!OpenGoalDialog, Goals!TypeGoal, Goals!AskCompletion
  <2>2. desk' \in GoalDesks /\ desk'.reading = desk.reading
    BY <1>1, <2>1, GoalsBounds DEF GoalDesks, Goals!Views, Goals!Here
  <2> QED  BY <1>2, <2>1, <2>2
<1>4. CASE Goals!CloseDialog
  <2> DEFINE left(q) == IF q.kind \in {"create", "update"} THEN [q EXCEPT !.owned = FALSE] ELSE q
  <2>1. UNCHANGED <<server, shown, changes>> /\ calls' = {left(q) : q \in calls}
        /\ desk' = [desk EXCEPT !.dialog = "none", !.text = Goals!None]
    BY <1>4 DEF Goals!CloseDialog
  <2>2. desk' \in GoalDesks /\ desk'.reading = desk.reading
    BY <1>1, <2>1, GoalsBounds DEF GoalDesks
  <2>3. ASSUME NEW q \in calls
        PROVE  left(q) = q \/ (GoalCall(left(q), server.market.price) /\ left(q).state # "reading")
    <3>1. CASE q.kind \in {"create", "update"}
      <4> DEFINE r == [q EXCEPT !.owned = FALSE]
      <4>1. r \in GoalCalls /\ r.kind = q.kind /\ r.goal = q.goal /\ r.text = q.text /\ r.state = q.state
        BY <1>1 DEF GoalCall, GoalCalls
      <4>2. left(q) = r
        BY <3>1
      <4> HIDE DEF r, left
      <4>3. GoalCall(r, server.market.price) /\ r.state # "reading"
        BY <1>1, <3>1, <4>1 DEF GoalCall
      <4> QED  BY <4>2, <4>3
    <3>2. CASE q.kind \notin {"create", "update"}
      BY <3>2
    <3> QED  BY <3>1, <3>2
  <2>4. \A q \in calls : q.state = "reading" => left(q) = q
    BY <1>1 DEF GoalCall
  <2> HIDE DEF left
  <2>5. \A r \in calls' : r \in calls \/ (GoalCall(r, server.market.price) /\ r.state # "reading")
    BY <2>1, <2>3
  <2>6. \A q \in calls : q.state = "reading" => q \in calls'
    BY <2>1, <2>4
  <2> QED  BY <1>2, <2>1, <2>2, <2>5, <2>6
<1>5. CASE Goals!SaveGoal \/ Goals!ConfirmCompletion \/ Goals!RefreshMarket
  <2>1. \E kind \in {"create", "update", "complete", "refresh"}, goal \in Goals!Goals \cup {Goals!None} :
           Goals!Send(kind, goal) /\ (kind \in {"update", "complete"} => goal \in Goals!Goals)
    BY <1>1, <1>5, GoalsBounds
       DEF Goals!SaveGoal, Goals!ConfirmCompletion, Goals!RefreshMarket, Goals!Views
  <2>2. PICK kind \in {"create", "update", "complete", "refresh"}, goal \in Goals!Goals \cup {Goals!None} :
           Goals!Send(kind, goal) /\ (kind \in {"update", "complete"} => goal \in Goals!Goals)
    BY <2>1
  <2> DEFINE r == [kind |-> kind, goal |-> goal, text |-> desk.text, owned |-> TRUE, state |-> "sent"]
  <2>3. calls' = calls \cup {r} /\ UNCHANGED <<server, shown, desk, changes>>
    BY <2>2 DEF Goals!Send
  <2>4. GoalCall(r, server.market.price) /\ r.state # "reading"
    BY <1>1, <2>2, GoalsBounds DEF GoalCall, GoalCalls
  <2> HIDE DEF r
  <2> QED  BY <1>1, <1>2, <2>3, <2>4
<1> QED  BY <1>3, <1>4, <1>5

(* A call is answered, or its answer is lost.                                 *)
LEMMA GoalAnswers ==
  ASSUME GoalsInv, NEW q \in calls, Goals!CallAnswered(q) \/ Goals!LateAnswer(q) \/ Goals!CallFails(q)
  PROVE  GoalsStep
<1>1. /\ desk \in GoalDesks /\ desk.text \in Goals!Texts /\ shown \in Goals!Views
      /\ server.market.price \in 0 .. MaxChecks /\ GoalCall(q, server.market.price) /\ q \in GoalCalls
      /\ desk.reading \in GoalReadings
  BY GoalsFacts DEF GoalsInv, GoalQueue
<1>2. UNCHANGED <<server, shown, changes>> /\ q.state # "reading"
  BY DEF Goals!CallAnswered, Goals!LateAnswer, Goals!CallFails
<1>3. CASE Goals!CallFails(q)
  <2>1. calls' = calls \ {q} /\ desk' = desk
    BY <1>3 DEF Goals!CallFails
  <2>2. GoalQueue' /\ ReadAfter(desk.reading, calls)' /\ Goals!RefreshStep
    BY <1>1, <1>2, <2>1, GoalCallsMove
  <2> QED  BY <1>1, <1>2, <2>1, <2>2, GoalPageMoves DEF ReadAfter
<1>4. CASE Goals!CallAnswered(q) \/ Goals!LateAnswer(q)
  <2>1. desk.reading.for \in BOOLEAN
    BY <1>1 DEF GoalReadings
  <2>2. \E for \in BOOLEAN, d \in {"none", "goal", "complete"}, x \in Goals!Texts :
           desk' = [desk EXCEPT !.reading = Goals!Anew(for), !.dialog = d, !.text = x]
    <3>1. desk.dialog \in {"none", "goal", "complete"} /\ Goals!None \in Goals!Texts
      BY <1>1, GoalsBounds DEF GoalDesks
    <3>2. ASSUME NEW R
          PROVE  [desk EXCEPT !.reading = R] = [desk EXCEPT !.reading = R, !.dialog = desk.dialog,
                   !.text = desk.text]
      BY <1>1 DEF GoalDesks
    <3>3. ASSUME NEW R, NEW d
          PROVE  [desk EXCEPT !.reading = R, !.dialog = d]
                   = [desk EXCEPT !.reading = R, !.dialog = d, !.text = desk.text]
      BY <1>1 DEF GoalDesks
    <3>4. CASE Goals!CallAnswered(q)
      <4>1. CASE q.kind = "refresh"
        <5>1. desk' = [desk EXCEPT !.reading = Goals!Anew(TRUE), !.dialog = desk.dialog, !.text = desk.text]
          BY <3>2, <3>4, <4>1 DEF Goals!CallAnswered
        <5> QED  BY <1>1, <3>1, <5>1
      <4>2. CASE q.kind = "complete"
        <5> DEFINE left == IF desk.dialog = "complete" THEN "none" ELSE desk.dialog
        <5>1. desk' = [desk EXCEPT !.reading = Goals!Anew(desk.reading.for), !.dialog = left]
          BY <3>4, <4>2 DEF Goals!CallAnswered
        <5>2. left \in {"none", "goal", "complete"}
          BY <3>1
        <5> HIDE DEF left
        <5>3. desk' = [desk EXCEPT !.reading = Goals!Anew(desk.reading.for), !.dialog = left,
                !.text = desk.text]
          BY <3>3, <5>1
        <5> QED  BY <1>1, <2>1, <5>2, <5>3
      <4>3. CASE q.kind \notin {"refresh", "complete"}
        <5> DEFINE d == IF desk.dialog = "goal" THEN "none" ELSE desk.dialog
        <5>1. desk' = [desk EXCEPT !.reading = Goals!Anew(desk.reading.for), !.dialog = d,
                !.text = Goals!None]
          BY <3>4, <4>3 DEF Goals!CallAnswered
        <5> QED  BY <2>1, <3>1, <5>1
      <4> QED  BY <4>1, <4>2, <4>3
    <3>5. CASE Goals!LateAnswer(q)
      <4> DEFINE left == IF desk.dialog = "goal" THEN "none" ELSE desk.dialog
                 typed == IF desk.dialog = "goal" THEN Goals!None ELSE desk.text
      <4>1. desk' = [desk EXCEPT !.reading = Goals!Anew(desk.reading.for), !.dialog = left, !.text = typed]
        BY <3>5 DEF Goals!LateAnswer
      <4>2. left \in {"none", "goal", "complete"} /\ typed \in Goals!Texts
        BY <1>1, <3>1
      <4> HIDE DEF left, typed
      <4> QED  BY <2>1, <4>1, <4>2
    <3> QED  BY <1>4, <3>4, <3>5
  <2>3. desk' \in GoalDesks /\ desk'.reading.step = "asked"
    <3>1. PICK for \in BOOLEAN, d \in {"none", "goal", "complete"}, x \in Goals!Texts :
             desk' = [desk EXCEPT !.reading = Goals!Anew(for), !.dialog = d, !.text = x]
      BY <2>2
    <3> QED  BY <1>1, <3>1, GoalIdle DEF GoalDesks
  <2> DEFINE r == [q EXCEPT !.state = "reading"]
  <2>4. calls' = calls \ {q} \/ (q.kind = "refresh" /\ q.state = "done" /\ calls' = (calls \ {q}) \cup {r})
    BY <1>4 DEF Goals!CallAnswered, Goals!LateAnswer, Goals!Settled
  <2>5. r \in GoalCalls /\ r.kind = q.kind /\ r.goal = q.goal /\ r.text = q.text /\ r.state = "reading"
    BY <1>1 DEF GoalCalls
  <2> HIDE DEF r
  <2>6. \A p \in calls' : p \in calls \/ GoalCall(p, server.market.price)
    BY <1>1, <2>4, <2>5 DEF GoalCall
  <2>7. Goals!RefreshStep
    BY <1>2, <2>4 DEF Goals!RefreshStep
  <2> QED  BY <1>1, <1>2, <2>3, <2>6, <2>7, GoalPageMoves DEF ReadAfter
<1> QED  BY <1>3, <1>4

LEMMA GoalsNext ==
  ASSUME GoalsInv, [Goals!Next]_(Goals!vars)
  PROVE  GoalsStep
<1>1. CASE Goals!Operator
  BY <1>1, GoalReads, GoalOperates DEF Goals!Operator
<1>2. CASE Goals!Server
  BY <1>2, GoalServes, GoalRefreshes, GoalAnswers, GoalsElsewhere DEF Goals!Server
<1>3. CASE UNCHANGED Goals!vars
  BY <1>3, GoalPageMoves DEF Goals!vars, GoalsInv, Goals!RefreshStep
<1> QED  BY <1>1, <1>2, <1>3 DEF Goals!Next

LEMMA GoalsInit == Goals!Init => GoalsInv
<1> SUFFICES ASSUME Goals!Init PROVE GoalsInv
  OBVIOUS
<1>1. \A g \in Goals!Goals : ~Goals!Active(g)
  BY DEF Goals!Init, Goals!Active
<1>2. Goals!Current = Goals!None
  BY <1>1 DEF Goals!Current
<1>3. shown = Goals!NotRead /\ Goals!NotRead \in Goals!Views
  BY <1>2, GoalsBounds DEF Goals!Init, Goals!View, Goals!NotRead, Goals!Market, Goals!Views
<1>4. GoalServer
  BY <1>1, GoalsBounds DEF Goals!Init, GoalServer, GoalRows, MarketRows, Goals!OneActiveGoal
<1>5. desk \in GoalDesks /\ desk.reading = Goals!Idle
  BY GoalIdle, GoalsBounds DEF Goals!Init, GoalDesks
<1>6. calls = {} /\ changes = 0
  BY DEF Goals!Init
<1> QED  BY <1>3, <1>4, <1>5, <1>6, GoalsBounds DEF GoalsInv, GoalQueue, ReadAfter

LEMMA GoalsAlways == Spec => [](page = "goals" => GoalsInv)
<1>1. Init => (page = "goals" => GoalsInv)
  BY GoalsInit DEF Init
<1>2. (page = "goals" => GoalsInv) /\ [Next]_vars => (page = "goals" => GoalsInv)'
  <2> SUFFICES ASSUME page = "goals" => GoalsInv, [Next]_vars, page' = "goals"
               PROVE  GoalsInv'
    OBVIOUS
  <2>1. page = "goals" /\ [Goals!Next]_(Goals!vars)
    BY DEF Next, vars, Goals!vars
  <2> QED  BY <2>1, GoalsNext DEF GoalsStep
<1> QED  BY <1>1, <1>2, PTL DEF Spec

(* However many tabs create, edit and complete goals at once, there is one    *)
(* goal to work for, and a completed goal keeps its text and its result.      *)
THEOREM CompletedGoalsKept == Spec => CompletedGoalsStay
<1>1. (page = "goals" => GoalsInv) /\ [Next]_vars => [page = "goals" => Goals!GoalStep]_vars
  <2> SUFFICES ASSUME page = "goals", GoalsInv, [Next]_vars
               PROVE  Goals!GoalStep
    OBVIOUS
  <2>1. [Goals!Next]_(Goals!vars)
    BY DEF Next, vars, Goals!vars
  <2> QED  BY <2>1, GoalsNext DEF GoalsStep
<1>2. Spec => [][page = "goals" => Goals!GoalStep]_vars
  BY <1>1, GoalsAlways, PTL DEF Spec
<1> QED  BY <1>2, PTL DEF CompletedGoalsStay

(* A refresh that ends well leaves the page with the price it brought, or a   *)
(* newer one, whichever readings were under way when it was answered.         *)
THEOREM RefreshIsShown == Spec => RefreshShowsWhatItFetched
<1>1. (page = "goals" => GoalsInv) /\ [Next]_vars => [page = "goals" => Goals!RefreshStep]_vars
  <2> SUFFICES ASSUME page = "goals", GoalsInv, [Next]_vars
               PROVE  Goals!RefreshStep
    OBVIOUS
  <2>1. [Goals!Next]_(Goals!vars)
    BY DEF Next, vars, Goals!vars
  <2> QED  BY <2>1, GoalsNext DEF GoalsStep
<1>2. Spec => [][page = "goals" => Goals!RefreshStep]_vars
  BY <1>1, GoalsAlways, PTL DEF Spec
<1> QED  BY <1>2, PTL DEF RefreshShowsWhatItFetched

LEMMA GoalsTypes ==
  ASSUME GoalsInv
  PROVE  Goals!TypeOK
<1>1. server.goal \in [Goals!Goals -> GoalRows] /\ server.market \in MarketRows
  BY GoalsFacts
<1>2. desk.dialog \in {"none", "goal", "complete"} /\ desk.text \in Goals!Texts
        /\ desk.reading \in GoalReadings
  BY DEF GoalsInv, GoalDesks
<1>3. \A q \in calls : q.state \in {"sent", "checked", "done", "reading"}
  BY GoalsFacts DEF GoalCalls
<1>4. shown \in Goals!Views
  BY DEF GoalsInv
<1> QED  BY <1>1, <1>2, <1>3, <1>4 DEF Goals!TypeOK, GoalRows, MarketRows, GoalReadings

-----------------------------------------------------------------------------
(* AFTER-SALES CASES *)

CaseStatuses == AfterSales!Unsettled \cup AfterSales!Completed \cup {"gone"}
CaseSources == {"account_ban", "customer_cancellation"}
CaseRows == [source : CaseSources, billed : BOOLEAN, status : CaseStatuses, amount : AfterSales!Amounts,
             seat : Seats \cup {Nobody}, row : {"aboard", "archived", "deleted"}]
CaseViews == [source : CaseSources, status : CaseStatuses, amount : AfterSales!Amounts]
CaseDialogs == {"none", "edit", "reassign", "refund", "undo"}
CaseCalls == [kind : CaseDialogs \ {"none"}, case : Accounts,
              amount : AfterSales!Amounts \cup {AfterSales!None},
              seat : Seats \cup {Nobody}, held : BOOLEAN, state : {"sent", "done"}]
CaseDesks == [dialog : CaseDialogs, case : Accounts, amount : AfterSales!Amounts \cup {AfterSales!None},
              seat : Seats \cup {Nobody}]

CaseServer == server \in [case : [Accounts -> CaseRows], seats : SUBSET Seats, paused : BOOLEAN]

(* An amount is edited only with an amount.                                   *)
CasePage ==
  /\ shown \in [case : [Accounts -> CaseViews], seats : SUBSET Seats]
  /\ desk \in CaseDesks /\ (desk.dialog = "edit" => desk.amount \in AfterSales!Amounts)
CaseQueue == \A q \in calls : q \in CaseCalls /\ (q.kind = "edit" => q.amount \in AfterSales!Amounts)

AfterSalesInv == CaseServer /\ CasePage /\ CaseQueue /\ changes \in 0 .. MaxChanges

(* What may become of a case in one step.                                     *)
Stands(before, after) ==
  /\ before.status \in AfterSales!Completed /\ after.status = before.status => after.amount = before.amount
  /\ before.status = "reassigned" => after.status = "reassigned"
  /\ before.status = "refunded" /\ after.status # "refunded" =>
       before.source = "account_ban" /\ after.status \in AfterSales!Unsettled /\ after.row = "aboard"

AfterSalesStep == AfterSalesInv' /\ AfterSales!RefundStep

LEMMA CaseFacts ==
  ASSUME AfterSalesInv
  PROVE  /\ CaseServer /\ server.case \in [Accounts -> CaseRows] /\ server.seats \subseteq Seats
         /\ server.paused \in BOOLEAN
         /\ \A c \in Accounts : server.case[c] \in CaseRows
         /\ \A q \in calls : q \in CaseCalls /\ q.case \in Accounts
         /\ \A c : AfterSales!Case(c) = server.case[c]
         /\ MaxChanges \in Nat
<1>1. server.case \in [Accounts -> CaseRows] /\ server.seats \subseteq Seats /\ server.paused \in BOOLEAN
  BY DEF AfterSalesInv, CaseServer
<1>2. \A q \in calls : q \in CaseCalls /\ q.case \in Accounts
  BY DEF AfterSalesInv, CaseQueue, CaseCalls
<1>3. MaxChanges \in Nat
  BY PageAssumptions DEF Pricing!RepricingAssumption
<1> QED  BY <1>1, <1>2, <1>3 DEF AfterSalesInv, AfterSales!Case

LEMMA CaseValues ==
  /\ AfterSales!Unsettled = {"pending", "review"} /\ AfterSales!Completed = {"refunded", "reassigned"}
  /\ AfterSales!Amounts = 0 .. Paid + 1 /\ AfterSales!None = -1 /\ AfterSales!Toggles = {"refund", "undo"}
  /\ \A r : AfterSales!OpenStatus(r) \in AfterSales!Unsettled
  /\ Paid \in AfterSales!Amounts /\ 0 \in AfterSales!Amounts
BY PageAssumptions
   DEF AfterSales!Unsettled, AfterSales!Completed, AfterSales!Amounts, AfterSales!None, AfterSales!Toggles,
       AfterSales!OpenStatus

(* One case is written, and seats are taken or freed.                         *)
LEMMA CaseWritten ==
  ASSUME AfterSalesInv, NEW c \in Accounts, NEW r \in CaseRows, Stands(server.case[c], r),
           NEW S \in SUBSET Seats,
         server' = [server EXCEPT !.case = [server.case EXCEPT ![c] = r], !.seats = S]
  PROVE  CaseServer' /\ AfterSales!RefundStep
<1>1. server'.case = [server.case EXCEPT ![c] = r] /\ CaseServer'
  <2>1. [server.case EXCEPT ![c] = r] \in [Accounts -> CaseRows]
    BY CaseFacts
  <2> QED  BY <2>1, CaseFacts DEF CaseServer
<1>2. \A d \in Accounts : server'.case[d] = IF d = c THEN r ELSE server.case[d]
  BY <1>1, CaseFacts
<1> QED  BY <1>1, <1>2 DEF AfterSales!RefundStep, Stands

LEMMA CasesKept ==
  ASSUME server'.case = server.case
  PROVE  AfterSales!RefundStep
BY Zenon DEF AfterSales!RefundStep

(* What is done with a case, here and elsewhere.                              *)
CaseChange(c, r) ==
  \/ \E y \in AfterSales!Amounts :
       AfterSales!Editable(server.case[c], y) /\ r = [server.case[c] EXCEPT !.amount = y]
  \/ AfterSales!Refundable(server.case[c]) /\ r
       = [server.case[c] EXCEPT !.status = "refunded", !.row = "archived"]
  \/ /\ AfterSales!Undoable(c)
     /\ r = [server.case[c] EXCEPT !.status = AfterSales!OpenStatus(server.case[c]), !.row = "aboard"]
  \/ \E t \in Seats : AfterSales!Reassignable(c, t)
       /\ r = [server.case[c] EXCEPT !.status = "reassigned", !.seat = t]
  \/ server.case[c].status \in AfterSales!Unsettled /\ r = [server.case[c] EXCEPT !.status = "gone"]
  \/ r = [server.case[c] EXCEPT !.row = "archived"]
  \/ r = [server.case[c] EXCEPT !.row = "deleted"]

LEMMA CaseChanges ==
  ASSUME AfterSalesInv, NEW c \in Accounts, NEW r, CaseChange(c, r)
  PROVE  r \in CaseRows /\ Stands(server.case[c], r)
<1>1. server.case[c] \in CaseRows /\ AfterSales!Case(c) = server.case[c]
  BY CaseFacts
<1> QED  BY <1>1, CaseValues, ZenonT(40)
         DEF CaseChange, CaseRows, Stands, AfterSales!Editable, AfterSales!Refundable, AfterSales!Undoable,
             AfterSales!Reassignable, CaseStatuses, CaseSources

LEMMA CaseUpdated ==
  ASSUME AfterSalesInv, NEW c \in Accounts, NEW r, CaseChange(c, r), AfterSales!Write(c, r)
  PROVE  CaseServer' /\ AfterSales!RefundStep
<1>1. server' = [server EXCEPT !.case = [server.case EXCEPT ![c] = r], !.seats = server.seats]
  BY CaseFacts DEF AfterSales!Write, CaseServer
<1>2. r \in CaseRows /\ Stands(server.case[c], r)
  BY CaseChanges
<1> QED  BY <1>1, <1>2, CaseWritten, CaseFacts

(* What the server does with a call.                                          *)
LEMMA CaseServes ==
  ASSUME AfterSalesInv, NEW q \in calls,
         \/ AfterSales!UpdateAfterSalesCase(q) \/ AfterSales!SetRefunded(q)
         \/ AfterSales!UndoRefunded(q) \/ AfterSales!ReassignAfterSalesCase(q)
  PROVE  AfterSalesStep
<1>1. q \in CaseCalls /\ q.case \in Accounts /\ UNCHANGED <<shown, desk, changes>>
      /\ (q.kind = "edit" => q.amount \in AfterSales!Amounts)
  BY CaseFacts
     DEF AfterSales!UpdateAfterSalesCase, AfterSales!SetRefunded, AfterSales!UndoRefunded,
         AfterSales!ReassignAfterSalesCase, AfterSales!Takes, AfterSalesInv, CaseQueue
<1>2. \/ AfterSales!Refuse(q)
      \/ AfterSales!Settled(q) /\ \E r : CaseChange(q.case, r) /\ AfterSales!Write(q.case, r)
  <2>1. AfterSales!FreeSeats \subseteq Seats
    BY CaseFacts DEF AfterSales!FreeSeats
  <2>2. CASE AfterSales!UpdateAfterSalesCase(q)
    BY <1>1, <2>2, CaseFacts DEF AfterSales!UpdateAfterSalesCase, AfterSales!Takes, CaseChange
  <2>3. CASE AfterSales!SetRefunded(q)
    BY <1>1, <2>3, CaseFacts DEF AfterSales!SetRefunded, CaseChange
  <2>4. CASE AfterSales!UndoRefunded(q)
    BY <1>1, <2>4, CaseFacts DEF AfterSales!UndoRefunded, CaseChange
  <2>5. CASE AfterSales!ReassignAfterSalesCase(q)
    <3>1. AfterSales!Reassignable(q.case, q.seat) => q.seat \in Seats
      BY <2>1 DEF AfterSales!Reassignable
    <3> QED  BY <1>1, <2>5, <3>1, CaseFacts DEF AfterSales!ReassignAfterSalesCase, CaseChange
  <2> QED  BY <2>2, <2>3, <2>4, <2>5
<1>3. CaseServer' /\ AfterSales!RefundStep
  <2>1. CASE AfterSales!Refuse(q)
    BY <2>1, CaseFacts, CasesKept DEF AfterSales!Refuse, CaseServer
  <2>2. CASE \E r : CaseChange(q.case, r) /\ AfterSales!Write(q.case, r)
    BY <1>1, <2>2, CaseUpdated
  <2> QED  BY <1>2, <2>1, <2>2
<1>4. CaseQueue'
  <2> DEFINE done == [q EXCEPT !.state = "done"]
  <2>1. done \in CaseCalls /\ done.kind = q.kind /\ done.amount = q.amount
    BY <1>1 DEF CaseCalls
  <2>2. calls' \subseteq calls \cup {done}
    BY <1>2 DEF AfterSales!Refuse, AfterSales!Settled
  <2> HIDE DEF done
  <2> QED  BY <1>1, <2>1, <2>2 DEF AfterSalesInv, CaseQueue
<1> QED  BY <1>1, <1>3, <1>4 DEF AfterSalesInv, CasePage, AfterSalesStep

(* What other tabs and pages do.                                              *)
LEMMA CasesElsewhere ==
  ASSUME AfterSalesInv, AfterSales!OtherPages
  PROVE  AfterSalesStep
<1>1. UNCHANGED <<shown, desk, calls>> /\ changes' \in 0 .. MaxChanges
  <2>1. AfterSales!Elsewhere
    BY Zenon DEF AfterSales!OtherPages, AfterSales!EditedElsewhere, AfterSales!RefundedElsewhere,
           AfterSales!UndoneElsewhere, AfterSales!ReassignedElsewhere, AfterSales!CancellationExpires,
           AfterSales!CustomerLeaves, AfterSales!RowDeleted, AfterSales!SeatTaken, AfterSales!SeatFreed,
           AfterSales!SetPaused
  <2> QED  BY <2>1, CaseFacts DEF AfterSales!Elsewhere, AfterSalesInv
<1>2. SUFFICES CaseServer' /\ AfterSales!RefundStep
  BY <1>1 DEF AfterSalesInv, CasePage, CaseQueue, AfterSalesStep
<1>3. ASSUME NEW c \in Accounts,
             \/ AfterSales!EditedElsewhere(c) \/ AfterSales!RefundedElsewhere(c)
                  \/ AfterSales!UndoneElsewhere(c)
             \/ AfterSales!ReassignedElsewhere(c) \/ AfterSales!CancellationExpires(c)
                  \/ AfterSales!RowDeleted(c)
      PROVE  CaseServer' /\ AfterSales!RefundStep
  <2>1. \E r : CaseChange(c, r) /\ AfterSales!Write(c, r)
    BY <1>3, CaseFacts
       DEF AfterSales!EditedElsewhere, AfterSales!RefundedElsewhere, AfterSales!UndoneElsewhere,
           AfterSales!ReassignedElsewhere, AfterSales!CancellationExpires, AfterSales!RowDeleted, CaseChange
  <2> QED  BY <2>1, CaseUpdated
<1>4. ASSUME NEW c \in Accounts, AfterSales!CustomerLeaves(c)
      PROVE  CaseServer' /\ AfterSales!RefundStep
  <2> DEFINE r == [server.case[c] EXCEPT !.row = "archived"]
  <2>1. PICK kept \in {server.seats, server.seats \ {server.case[c].seat}} :
           server' = [server EXCEPT !.case[c].row = "archived", !.seats = kept]
    BY <1>4, CaseFacts, Zenon DEF AfterSales!CustomerLeaves
  <2>2. server' = [server EXCEPT !.case = [server.case EXCEPT ![c] = r], !.seats = kept]
          /\ kept \in SUBSET Seats
    BY <2>1, CaseFacts DEF CaseServer
  <2>3. r \in CaseRows /\ Stands(server.case[c], r)
    BY CaseChanges, Zenon DEF CaseChange
  <2> QED  BY <2>2, <2>3, CaseWritten
<1>5. CASE AfterSales!SeatTaken \/ AfterSales!SeatFreed \/ AfterSales!SetPaused
  <2>1. server'.case = server.case /\ CaseServer'
    BY <1>5, CaseFacts DEF AfterSales!SeatTaken, AfterSales!SeatFreed, AfterSales!SetPaused, CaseServer
  <2> QED  BY <2>1, CasesKept
<1> QED  BY <1>3, <1>4, <1>5 DEF AfterSales!OtherPages

LEMMA CasePageMoves ==
  ASSUME AfterSalesInv, UNCHANGED <<server, changes>>, CasePage', CaseQueue'
  PROVE  AfterSalesStep
BY CasesKept DEF AfterSalesInv, CaseServer, AfterSalesStep

(* The operator opens a dialog, fills it in and leaves it.                    *)
LEMMA CaseOperates ==
  ASSUME AfterSalesInv, AfterSales!Operator
  PROVE  AfterSalesStep
<1>1. /\ shown \in [case : [Accounts -> CaseViews], seats : SUBSET Seats] /\ desk \in CaseDesks
      /\ desk.dialog = "edit" => desk.amount \in AfterSales!Amounts
      /\ shown.seats \subseteq Seats /\ \A c \in Accounts : shown.case[c].amount \in AfterSales!Amounts
  <2>1. /\ shown \in [case : [Accounts -> CaseViews], seats : SUBSET Seats] /\ desk \in CaseDesks
        /\ desk.dialog = "edit" => desk.amount \in AfterSales!Amounts
    BY DEF AfterSalesInv, CasePage
  <2> QED  BY <2>1 DEF CaseViews
<1>2. AfterSales!FreeSeats \subseteq Seats
  BY CaseFacts DEF AfterSales!FreeSeats
<1>3. ASSUME UNCHANGED <<server, shown, calls, changes>>, desk' \in CaseDesks,
             desk'.dialog = "edit" => desk'.amount \in AfterSales!Amounts
      PROVE  AfterSalesStep
  BY <1>3, CasePageMoves DEF AfterSalesInv, CasePage, CaseQueue
<1>4. ASSUME NEW c \in Accounts, AfterSales!OpenEdit(c) \/ AfterSales!OpenReassign(c)
               \/ AfterSales!OpenToggle(c)
      PROVE  AfterSalesStep
  <2>1. \E dialog \in CaseDialogs, amount \in AfterSales!Amounts \cup {AfterSales!None} :
           AfterSales!Open(dialog, c, amount) /\ (dialog = "edit" => amount \in AfterSales!Amounts)
    BY <1>1, <1>4, CaseValues
       DEF AfterSales!OpenEdit, AfterSales!OpenReassign, AfterSales!OpenToggle, CaseDialogs
  <2>2. PICK dialog \in CaseDialogs, amount \in AfterSales!Amounts \cup {AfterSales!None} :
           AfterSales!Open(dialog, c, amount) /\ (dialog = "edit" => amount \in AfterSales!Amounts)
    BY <2>1
  <2>3. desk' = [dialog |-> dialog, case |-> c, amount |-> amount, seat |-> Nobody]
        /\ UNCHANGED <<server, shown, calls, changes>>
    BY <2>2 DEF AfterSales!Open, AfterSales!StaysOnPage
  <2>4. desk' \in CaseDesks /\ (desk'.dialog = "edit" => desk'.amount \in AfterSales!Amounts)
    BY <2>2, <2>3 DEF CaseDesks
  <2> QED  BY <1>3, <2>3, <2>4
<1>5. CASE AfterSales!TypeAmount
  BY <1>1, <1>3, <1>5 DEF AfterSales!TypeAmount, AfterSales!StaysOnPage, CaseDesks
<1>6. CASE AfterSales!ChooseSeat
  BY <1>1, <1>3, <1>6 DEF AfterSales!ChooseSeat, AfterSales!StaysOnPage, CaseDesks
<1>7. CASE AfterSales!OptionsArrive
  <2>1. shown' \in [case : [Accounts -> CaseViews], seats : SUBSET Seats]
        /\ UNCHANGED <<server, desk, calls, changes>>
    BY <1>1, <1>2, <1>7 DEF AfterSales!OptionsArrive
  <2> QED  BY <2>1, CasePageMoves DEF AfterSalesInv, CasePage, CaseQueue
<1>8. CASE AfterSales!Confirm
  <2> DEFINE r == [kind |-> desk.dialog, case |-> desk.case, amount |-> desk.amount, seat |-> desk.seat,
                   held |-> desk.dialog \notin AfterSales!Toggles, state |-> "sent"]
  <2>1. calls' = calls \cup {r} /\ desk.dialog # "none" /\ UNCHANGED <<server, shown, desk, changes>>
    BY <1>8 DEF AfterSales!Confirm
  <2>2. r \in CaseCalls /\ (r.kind = "edit" => r.amount \in AfterSales!Amounts)
    BY <1>1, <2>1 DEF CaseDesks, CaseCalls
  <2> HIDE DEF r
  <2>3. CaseQueue' /\ CasePage'
    BY <2>1, <2>2 DEF AfterSalesInv, CaseQueue, CasePage
  <2> QED  BY <2>1, <2>3, CasePageMoves
<1>9. CASE AfterSales!CloseDialog
  <2>1. calls' = {[q EXCEPT !.held = FALSE] : q \in calls} /\ UNCHANGED <<server, shown, changes>>
        /\ desk' = [desk EXCEPT !.dialog = "none", !.amount = AfterSales!None, !.seat = Nobody]
    BY <1>9 DEF AfterSales!CloseDialog, AfterSales!Leave
  <2>2. desk' \in CaseDesks /\ desk'.dialog = "none"
    BY <1>1, <2>1 DEF CaseDesks, CaseDialogs
  <2> DEFINE left(q) == [q EXCEPT !.held = FALSE]
  <2>3. \A q \in CaseCalls : left(q) \in CaseCalls /\ left(q).kind = q.kind /\ left(q).amount = q.amount
    BY DEF CaseCalls
  <2>4. calls' = {left(q) : q \in calls}
    BY <2>1
  <2> HIDE DEF left
  <2>5. CaseQueue'
    BY <2>3, <2>4 DEF AfterSalesInv, CaseQueue
  <2> QED  BY <1>1, <2>1, <2>2, <2>5, CasePageMoves DEF CasePage
<1>10. CASE AfterSales!Refetch
  <2> DEFINE view(c) == AfterSales!View(c)
  <2>1. PICK old \in SUBSET Accounts :
           shown' = [shown EXCEPT !.case = [c \in Accounts |->
                        IF c \in old THEN [view(c) EXCEPT !.status = "gone"] ELSE view(c)]]
    BY <1>10 DEF AfterSales!Refetch
  <2>2. ASSUME NEW c \in Accounts
        PROVE  view(c) \in CaseViews /\ [view(c) EXCEPT !.status = "gone"] \in CaseViews
    BY CaseFacts DEF AfterSales!View, CaseViews, CaseRows, CaseStatuses
  <2> HIDE DEF view
  <2>3. shown' \in [case : [Accounts -> CaseViews], seats : SUBSET Seats]
    BY <1>1, <2>1, <2>2
  <2>4. UNCHANGED <<server, desk, calls, changes>>
    BY <1>10 DEF AfterSales!Refetch
  <2> QED  BY <2>3, <2>4, CasePageMoves DEF AfterSalesInv, CasePage, CaseQueue
<1> QED  BY <1>4, <1>5, <1>6, <1>7, <1>8, <1>9, <1>10 DEF AfterSales!Operator

LEMMA CaseAnswers ==
  ASSUME AfterSalesInv, NEW q \in calls, AfterSales!CallAnswered(q) \/ AfterSales!CallFails(q)
  PROVE  AfterSalesStep
<1>1. UNCHANGED <<server, shown, changes>> /\ CaseQueue /\ CasePage
  BY DEF AfterSales!CallAnswered, AfterSales!CallFails, AfterSalesInv
<1>2. CASE AfterSales!CallFails(q)
  <2>1. calls' \subseteq calls /\ desk' = desk
    BY <1>2 DEF AfterSales!CallFails
  <2> QED  BY <1>1, <2>1, CasePageMoves DEF CaseQueue, CasePage
<1>3. CASE AfterSales!CallAnswered(q)
  <2>1. desk' = desk \/ desk' = [desk EXCEPT !.dialog = "none", !.amount = AfterSales!None, !.seat = Nobody]
    BY <1>3 DEF AfterSales!CallAnswered, AfterSales!Leave
  <2>2. CasePage'
    <3>1. CASE desk' = desk
      BY <1>1, <3>1 DEF CasePage
    <3>2. CASE desk' = [desk EXCEPT !.dialog = "none", !.amount = AfterSales!None, !.seat = Nobody]
      <4>1. desk' \in CaseDesks /\ desk'.dialog = "none"
        BY <1>1, <3>2 DEF CasePage, CaseDesks, CaseDialogs
      <4> QED  BY <1>1, <4>1 DEF CasePage
    <3> QED  BY <2>1, <3>1, <3>2
  <2> DEFINE closes == AfterSales!Closes(q)
             left(r) == [r EXCEPT !.held = @ /\ ~closes]
  <2>3. calls' = {left(r) : r \in calls \ {q}}
    BY <1>3 DEF AfterSales!CallAnswered
  <2>4. ASSUME NEW r \in CaseCalls
        PROVE  left(r) \in CaseCalls /\ left(r).kind = r.kind /\ left(r).amount = r.amount
    <3>1. (r.held /\ ~closes) \in BOOLEAN
      OBVIOUS
    <3> HIDE DEF closes
    <3> QED  BY <3>1 DEF CaseCalls
  <2> HIDE DEF left
  <2>5. CaseQueue'
    BY <1>1, <2>3, <2>4 DEF CaseQueue
  <2> QED  BY <1>1, <2>2, <2>5, CasePageMoves
<1> QED  BY <1>2, <1>3

LEMMA AfterSalesNext ==
  ASSUME AfterSalesInv, [AfterSales!Next]_(AfterSales!vars)
  PROVE  AfterSalesStep
<1>1. CASE AfterSales!Operator
  BY <1>1, CaseOperates
<1>2. CASE AfterSales!Server
  BY <1>2, CaseServes, CaseAnswers DEF AfterSales!Server
<1>3. CASE AfterSales!OtherPages
  BY <1>3, CasesElsewhere
<1>4. CASE UNCHANGED AfterSales!vars
  BY <1>4, CasePageMoves DEF AfterSales!vars, AfterSalesInv, CasePage, CaseQueue
<1> QED  BY <1>1, <1>2, <1>3, <1>4 DEF AfterSales!Next

LEMMA AfterSalesInit == AfterSales!Init => AfterSalesInv
<1> SUFFICES ASSUME AfterSales!Init PROVE AfterSalesInv
  OBVIOUS
<1>1. PICK source \in [Accounts -> CaseSources], billed \in [Accounts -> BOOLEAN], seats \in SUBSET Seats :
         server = [case |-> [c \in Accounts |->
                     [source |-> source[c], billed |-> billed[c],
                      status |-> AfterSales!OpenStatus([billed |-> billed[c]]),
                      amount |-> IF billed[c] THEN Paid ELSE 0, seat |-> Nobody, row |-> "aboard"]],
                   seats |-> seats, paused |-> FALSE]
  BY DEF AfterSales!Init, CaseSources
<1>2. CaseServer
  <2>1. ASSUME NEW c \in Accounts
        PROVE  [source |-> source[c], billed |-> billed[c],
                status |-> AfterSales!OpenStatus([billed |-> billed[c]]),
                amount |-> IF billed[c] THEN Paid ELSE 0, seat |-> Nobody, row |-> "aboard"] \in CaseRows
    <3>1. AfterSales!OpenStatus([billed |-> billed[c]]) \in CaseStatuses
      BY CaseValues DEF CaseStatuses
    <3> QED  BY <3>1, CaseValues DEF CaseRows
  <2> QED  BY <1>1, <2>1 DEF CaseServer
<1>3. ASSUME NEW c \in Accounts
      PROVE  AfterSales!View(c) \in CaseViews
  BY <1>2 DEF AfterSales!View, AfterSales!Case, CaseViews, CaseServer, CaseRows
<1>4. CasePage
  <2>1. shown = [case |-> [c \in Accounts |-> AfterSales!View(c)], seats |-> {}]
        /\ \E c \in Accounts : desk = AfterSales!Closed(c)
    BY DEF AfterSales!Init
  <2>2. desk \in CaseDesks /\ desk.dialog = "none"
    BY <2>1 DEF AfterSales!Closed, CaseDesks, CaseDialogs
  <2> QED  BY <1>3, <2>1, <2>2 DEF CasePage
<1>5. calls = {} /\ changes = 0 /\ MaxChanges \in Nat
  BY PageAssumptions DEF AfterSales!Init, Pricing!RepricingAssumption
<1> QED  BY <1>2, <1>4, <1>5 DEF AfterSalesInv, CaseQueue

LEMMA AfterSalesAlways == Spec => [](page = "after-sales" => AfterSalesInv)
<1>1. Init => (page = "after-sales" => AfterSalesInv)
  BY AfterSalesInit DEF Init
<1>2. (page = "after-sales" => AfterSalesInv) /\ [Next]_vars => (page = "after-sales" => AfterSalesInv)'
  <2> SUFFICES ASSUME page = "after-sales" => AfterSalesInv, [Next]_vars, page' = "after-sales"
               PROVE  AfterSalesInv'
    OBVIOUS
  <2>1. page = "after-sales" /\ [AfterSales!Next]_(AfterSales!vars)
    BY DEF Next, vars, AfterSales!vars
  <2> QED  BY <2>1, AfterSalesNext DEF AfterSalesStep
<1> QED  BY <1>1, <1>2, PTL DEF Spec

(* However old the form or question that is confirmed, what was settled       *)
(* stands: a refunded amount is never altered, only the refund of a ban is    *)
(* undone, and who was moved to another seat is never refunded on top of it.  *)
THEOREM RefundsStand == Spec => RefundsStandAsPaid
<1>1. (page = "after-sales" => AfterSalesInv) /\ [Next]_vars
        => [page = "after-sales" => AfterSales!RefundStep]_vars
  <2> SUFFICES ASSUME page = "after-sales", AfterSalesInv, [Next]_vars
               PROVE  AfterSales!RefundStep
    OBVIOUS
  <2>1. [AfterSales!Next]_(AfterSales!vars)
    BY DEF Next, vars, AfterSales!vars
  <2> QED  BY <2>1, AfterSalesNext DEF AfterSalesStep
<1>2. Spec => [][page = "after-sales" => AfterSales!RefundStep]_vars
  BY <1>1, AfterSalesAlways, PTL DEF Spec
<1> QED  BY <1>2, PTL DEF RefundsStandAsPaid

LEMMA AfterSalesTypes ==
  ASSUME AfterSalesInv
  PROVE  AfterSales!TypeOK
<1>1. ASSUME NEW c \in Accounts
      PROVE  /\ AfterSales!Case(c) \in CaseRows
             /\ AfterSales!Case(c).source \in CaseSources /\ AfterSales!Case(c).billed \in BOOLEAN
             /\ AfterSales!Case(c).status \in CaseStatuses /\ AfterSales!Case(c).amount \in AfterSales!Amounts
             /\ AfterSales!Case(c).seat \in Seats \cup {Nobody}
             /\ AfterSales!Case(c).row \in {"aboard", "archived", "deleted"}
  <2>1. AfterSales!Case(c) \in CaseRows
    BY CaseFacts
  <2> QED  BY <2>1 DEF CaseRows
<1>2. server.seats \subseteq Seats /\ shown.seats \subseteq Seats /\ server.paused \in BOOLEAN
  BY CaseFacts DEF AfterSalesInv, CasePage
<1>3. desk.dialog \in {"none", "edit", "reassign"} \cup AfterSales!Toggles
  BY CaseValues DEF AfterSalesInv, CasePage, CaseDesks, CaseDialogs
<1>4. \A q \in calls : q.kind \in {"edit", "reassign"} \cup AfterSales!Toggles /\ q.case \in Accounts
  BY CaseFacts, CaseValues DEF CaseCalls, CaseDialogs
<1> QED  BY <1>1, <1>2, <1>3, <1>4 DEF AfterSales!TypeOK, CaseSources, CaseStatuses

-----------------------------------------------------------------------------
(* REPRICING *)

PricedRows == [price : 1 .. MaxPrice, next : 0 .. MaxPrice, case : BOOLEAN, cooling : BOOLEAN,
      exempt : BOOLEAN]
SeatViews == [price : 1 .. MaxPrice, code : {"after_sales", "scheduled", "cooldown", "exempted", "eligible"}]
BulkForms(S) == [ticked : SUBSET S, price : 0 .. MaxPrice, dialog : {"closed", "edit", "confirm"},
      exempting : BOOLEAN]
ManualForms(S) == [customer : {Itself[s] : s \in S} \cup {Nobody}, typed : [S -> 0 .. MaxPrice],
      confirming : BOOLEAN]
PriceDesks(S) == [bulk : BulkForms(S), manual : ManualForms(S)]
PriceCalls(S) == [kind : {"bulk", "exempt", "manual"}, prices : [S -> 0 .. MaxPrice], owned : BOOLEAN,
                  state : {"sent", "checked", "done", "refused"}, stale : BOOLEAN,
                        charged : [S -> 0 .. MaxPrice]]

(* A call that was checked asks for another price than was charged then, and  *)
(* if it is for many, at most one step above it.                              *)
WithinSafeguards(q, S) ==
  q.state = "checked" /\ q.kind # "exempt" =>
    \A s \in S : q.prices[s] # 0 =>
      /\ q.prices[s] # q.charged[s]
      /\ q.kind = "bulk" => q.prices[s] <= q.charged[s] + 1

PricePage(S) == shown \in [S -> SeatViews] /\ desk \in PriceDesks(S)
PriceQueue(S) == \A q \in calls : q \in PriceCalls(S) /\ WithinSafeguards(q, S)
PricesInv(S) ==
  /\ server \in [S -> PricedRows]
  /\ PricePage(S) /\ PriceQueue(S) /\ changes \in 0 .. MaxChanges

(* A price is scheduled on this page: for whom, over what, by which call.     *)
Safeguarded(S) ==
  \A s \in S : server'[s].next # server[s].next /\ changes' = changes =>
    /\ server[s].next = 0 /\ ~server[s].case /\ ~server[s].exempt
    /\ server'[s].next # server[s].price
    /\ \E q \in calls : /\ q.state = "checked" /\ q.prices[s] = server'[s].next
                        /\ q.kind = "bulk" => q.prices[s] <= server[s].price + 1

PricesStep(S) == PricesInv(S)' /\ Safeguarded(S)

LEMMA PricedFacts ==
  ASSUME NEW S, PricesInv(S)
  PROVE  /\ \A s \in S : /\ server[s] \in PricedRows /\ shown[s] \in SeatViews
                         /\ server[s].price \in 1 .. MaxPrice /\ server[s].next \in 0 .. MaxPrice
                              /\ shown[s].price \in 1 .. MaxPrice
         /\ desk.bulk \in BulkForms(S) /\ desk.manual \in ManualForms(S) /\ desk \in PriceDesks(S)
         /\ \A q \in calls : q \in PriceCalls(S) /\ \A s \in S : q.prices[s] \in 0 .. MaxPrice
              /\ q.charged[s] \in 0 .. MaxPrice
         /\ MaxChanges \in Nat /\ MaxPrice \in Nat \ {0}
<1>1. \A s \in S : server[s] \in PricedRows /\ shown[s] \in SeatViews
  BY DEF PricesInv, PricePage
<1>2. \A s \in S : server[s].price \in 1 .. MaxPrice /\ server[s].next \in 0 .. MaxPrice
        /\ shown[s].price \in 1 .. MaxPrice
  BY <1>1 DEF PricedRows, SeatViews
<1>3. desk.bulk \in BulkForms(S) /\ desk.manual \in ManualForms(S) /\ desk \in PriceDesks(S)
  BY DEF PricesInv, PricePage, PriceDesks
<1>4. \A q \in calls : q \in PriceCalls(S)
  BY DEF PricesInv, PriceQueue
<1>5. \A q \in calls : \A s \in S : q.prices[s] \in 0 .. MaxPrice /\ q.charged[s] \in 0 .. MaxPrice
  BY <1>4 DEF PriceCalls
<1>6. MaxChanges \in Nat /\ MaxPrice \in Nat \ {0}
  BY PageAssumptions DEF Pricing!RepricingAssumption
<1> QED  BY <1>1, <1>2, <1>3, <1>4, <1>5, <1>6

(* What the page, the network or a refusal does.                              *)
LEMMA PricePageMoves ==
  ASSUME NEW S, PricesInv(S), UNCHANGED <<server, changes>>,
         shown' \in [S -> SeatViews], desk' \in PriceDesks(S),
         \A r \in calls' : r \in calls \/ (r \in PriceCalls(S) /\ WithinSafeguards(r, S))
  PROVE  PricesStep(S)
BY DEF PricesInv, PricePage, PriceQueue, Safeguarded, PricesStep

LEMMA BulkFormMoves ==
  ASSUME NEW S, PricesInv(S), NEW b \in BulkForms(S), desk' = [desk EXCEPT !.bulk = b],
         UNCHANGED <<server, shown, calls, changes>>
  PROVE  PricesStep(S)
<1>1. desk' \in PriceDesks(S)
  BY PricedFacts DEF PriceDesks
<1> QED  BY <1>1, PricePageMoves DEF PricesInv, PricePage

LEMMA ManualFormMoves ==
  ASSUME NEW S, PricesInv(S), NEW m \in ManualForms(S), desk' = [desk EXCEPT !.manual = m],
         UNCHANGED <<server, shown, calls, changes>>
  PROVE  PricesStep(S)
<1>1. desk' \in PriceDesks(S)
  BY PricedFacts DEF PriceDesks
<1> QED  BY <1>1, PricePageMoves DEF PricesInv, PricePage

(* A row is written by another page: the step is not one of this page.        *)
LEMMA PricedElsewhere ==
  ASSUME NEW S, PricesInv(S), server' \in [S -> PricedRows], changes < MaxChanges, changes' = changes + 1,
         UNCHANGED <<shown, desk>>,
         \A r \in calls' : r \in PriceCalls(S) /\ WithinSafeguards(r, S)
  PROVE  PricesStep(S)
<1>1. changes' \in 0 .. MaxChanges /\ changes' # changes
  BY PricedFacts DEF PricesInv
<1> QED  BY <1>1 DEF PricesInv, PricePage, PriceQueue, Safeguarded, PricesStep

LEMMA PricingValues ==
  ASSUME NEW S, NEW T, NEW M
  PROVE  /\ Pricing(S, T, M)!Prices = 1 .. MaxPrice /\ Pricing(S, T, M)!None = 0
         /\ 0 \in 0 .. MaxPrice /\ 1 \in 1 .. MaxPrice
         /\ Pricing(S, T, M)!Customers = {Itself[s] : s \in S}
         /\ \A n : Pricing(S, T, M)!SafeCap(n) = n + 1
         /\ Pricing(S, T, M)!NoPrices \in [S -> 0 .. MaxPrice]
         /\ Pricing(S, T, M)!EmptyBulk \in BulkForms(S) /\ Pricing(S, T, M)!NoManual \in ManualForms(S)
<1>1. 0 \in 0 .. MaxPrice /\ 1 \in 1 .. MaxPrice
  BY PageAssumptions DEF Pricing!RepricingAssumption
<1>2. Pricing(S, T, M)!Prices = 1 .. MaxPrice /\ Pricing(S, T, M)!None = 0
      /\ Pricing(S, T, M)!Customers = {Itself[s] : s \in S}
      /\ \A n : Pricing(S, T, M)!SafeCap(n) = n + 1
  BY DEF Pricing!Prices, Pricing!None, Pricing!Customers, Pricing!SafeCap
<1>3. Pricing(S, T, M)!NoPrices \in [S -> 0 .. MaxPrice]
  BY <1>1, <1>2 DEF Pricing!NoPrices
<1>4. Pricing(S, T, M)!EmptyBulk \in BulkForms(S)
  BY <1>1, <1>2 DEF Pricing!EmptyBulk, BulkForms
<1>5. Pricing(S, T, M)!NoManual \in ManualForms(S)
  BY <1>3 DEF Pricing!NoManual, ManualForms
<1> QED  BY <1>1, <1>2, <1>3, <1>4, <1>5

(* What is offered for a selection is a price.                                *)
LEMMA PricingOffers ==
  ASSUME NEW S, NEW T \in SUBSET (1 .. MaxPrice), NEW M, PricesInv(S), NEW V \in SUBSET S
  PROVE  Pricing(S, T, M)!Prefilled(V) \in 0 .. MaxPrice
<1>1. Pricing(S, T, M)!Shared(V) \subseteq 1 .. MaxPrice
  BY PricedFacts, PricingValues DEF Pricing!Shared, Pricing!Suggested
<1>2. desk.bulk.price \in 0 .. MaxPrice
  BY PricedFacts DEF BulkForms
<1> HIDE DEF Pricing!Shared
<1>3. CASE Pricing(S, T, M)!Shared(V) # {}
  <2>1. (CHOOSE p \in Pricing(S, T, M)!Shared(V) : TRUE) \in Pricing(S, T, M)!Shared(V)
    BY <1>3
  <2> QED  BY <1>1, <1>2, <2>1 DEF Pricing!Prefilled
<1> QED  BY <1>2, <1>3 DEF Pricing!Prefilled

LEMMA PricingViews ==
  ASSUME NEW S, NEW T, NEW M, NEW r \in PricedRows
  PROVE  Pricing(S, T, M)!View(r) \in SeatViews
BY DEF PricedRows, SeatViews, Pricing!View, Pricing!Blocked

(* The panel for many customers.                                              *)
LEMMA PricingSelects ==
  ASSUME NEW S, NEW T \in SUBSET (1 .. MaxPrice), NEW M, PricesInv(S),
         \/ Pricing(S, T, M)!ToggleVisible \/ Pricing(S, T, M)!SelectRecommendations
              \/ Pricing(S, T, M)!OpenPricingSettings \/ Pricing(S, T, M)!TypePrice
         \/ \E s \in S : Pricing(S, T, M)!ToggleCandidate(s)
         \/ Pricing(S, T, M)!ClosePricingDialog \/ Pricing(S, T, M)!ConfirmPricing
              \/ Pricing(S, T, M)!AskExemption \/ Pricing(S, T, M)!CloseExemption
  PROVE  PricesStep(S)
<1>1. desk.bulk \in BulkForms(S) /\ desk.bulk.ticked \in SUBSET S /\ desk.bulk.price \in 0 .. MaxPrice
      /\ desk.bulk.dialog \in {"closed", "edit", "confirm"}
  BY PricedFacts DEF BulkForms
<1>2. ASSUME NEW V \in SUBSET S, NEW p \in 0 .. MaxPrice, NEW d \in {"closed", "edit", "confirm"},
               NEW e \in BOOLEAN
      PROVE  /\ [desk.bulk EXCEPT !.ticked = V] \in BulkForms(S)
                  /\ [desk.bulk EXCEPT !.price = p] \in BulkForms(S)
             /\ [desk.bulk EXCEPT !.dialog = d] \in BulkForms(S)
             /\ [desk.bulk EXCEPT !.exempting = e] \in BulkForms(S)
             /\ [desk.bulk EXCEPT !.dialog = d, !.exempting = e] \in BulkForms(S)
             /\ [desk.bulk EXCEPT !.price = p, !.dialog = d] \in BulkForms(S)
             /\ [desk.bulk EXCEPT !.ticked = V, !.price = p, !.dialog = d] \in BulkForms(S)
             /\ [desk.bulk EXCEPT !.ticked = V, !.dialog = d, !.price = p] \in BulkForms(S)
  BY <1>1 DEF BulkForms
<1>3. SUFFICES UNCHANGED <<server, shown, calls, changes>>
               /\ \E b \in BulkForms(S) : desk' = [desk EXCEPT !.bulk = b]
  BY BulkFormMoves
<1>4. \A V \in SUBSET S : Pricing(S, T, M)!Prefilled(V) \in 0 .. MaxPrice
  BY PricingOffers
<1>5. ASSUME NEW V \in SUBSET S
      PROVE  /\ (IF desk.bulk.ticked = {} THEN Pricing(S, T, M)!Prefilled(V) ELSE desk.bulk.price)
                  \in 0 .. MaxPrice
             /\ (IF desk.bulk.ticked = {} THEN "edit" ELSE desk.bulk.dialog) \in {"closed", "edit", "confirm"}
  BY <1>1, <1>4
<1>6. ASSUME NEW V \in SUBSET S
      PROVE  /\ [desk.bulk EXCEPT !.ticked = @ \ V] \in BulkForms(S)
             /\ [desk.bulk EXCEPT !.ticked = @ \cup V,
                                  !.price  = IF desk.bulk.ticked = {} THEN Pricing(S, T, M)!Prefilled(V)
                                        ELSE @,
                                  !.dialog = IF desk.bulk.ticked = {} THEN "edit" ELSE @] \in BulkForms(S)
  BY <1>1, <1>2, <1>5
<1>7. CASE Pricing(S, T, M)!ToggleVisible
  <2>1. PICK visible \in SUBSET S :
           /\ \/ Pricing(S, T, M)!Bulk([desk.bulk EXCEPT !.ticked = @ \ visible])
              \/ Pricing(S, T, M)!Bulk([desk.bulk EXCEPT !.ticked = @ \cup visible,
                             !.price  = IF desk.bulk.ticked = {} THEN Pricing(S, T, M)!Prefilled(visible)
                                   ELSE @,
                             !.dialog = IF desk.bulk.ticked = {} THEN "edit" ELSE @])
           /\ Pricing(S, T, M)!StaysOnPage
    BY <1>7 DEF Pricing!ToggleVisible
  <2> QED  BY <1>6, <2>1, ZenonT(40) DEF Pricing!Bulk, Pricing!StaysOnPage
<1>8. ASSUME NEW s \in S, Pricing(S, T, M)!ToggleCandidate(s)
      PROVE  UNCHANGED <<server, shown, calls, changes>>
             /\ \E b \in BulkForms(S) : desk' = [desk EXCEPT !.bulk = b]
  <2>1. {s} \in SUBSET S
    OBVIOUS
  <2>2. /\ \/ Pricing(S, T, M)!Bulk([desk.bulk EXCEPT !.ticked = @ \ {s}])
           \/ Pricing(S, T, M)!Bulk([desk.bulk EXCEPT !.ticked = @ \cup {s},
                          !.price  = IF desk.bulk.ticked = {} THEN Pricing(S, T, M)!Prefilled({s}) ELSE @,
                          !.dialog = IF desk.bulk.ticked = {} THEN "edit" ELSE @])
        /\ Pricing(S, T, M)!StaysOnPage
    BY <1>8 DEF Pricing!ToggleCandidate
  <2> QED  BY <1>6, <2>1, <2>2 DEF Pricing!Bulk, Pricing!StaysOnPage
<1>9. CASE Pricing(S, T, M)!SelectRecommendations
  <2> DEFINE recommended == {s \in S : Pricing(S, T, M)!Recommended(shown[s])}
  <2>1. Pricing(S, T, M)!Bulk([desk.bulk EXCEPT !.ticked = recommended, !.dialog = "edit",
          !.price = Pricing(S, T, M)!Prefilled(recommended)])
        /\ Pricing(S, T, M)!StaysOnPage
    BY <1>9 DEF Pricing!SelectRecommendations
  <2>2. recommended \in SUBSET S
    OBVIOUS
  <2> HIDE DEF recommended
  <2> QED  BY <1>2, <1>4, <2>1, <2>2 DEF Pricing!Bulk, Pricing!StaysOnPage
<1>10. CASE Pricing(S, T, M)!OpenPricingSettings
  <2>1. Pricing(S, T, M)!Selected \in SUBSET S
    BY <1>1 DEF Pricing!Selected
  <2>2. /\ Pricing(S, T, M)!Bulk([desk.bulk EXCEPT
                !.price = Pricing(S, T, M)!Prefilled(Pricing(S, T, M)!Selected), !.dialog = "edit"])
        /\ Pricing(S, T, M)!StaysOnPage
    BY <1>10 DEF Pricing!OpenPricingSettings
  <2> QED  BY <1>2, <1>4, <2>1, <2>2 DEF Pricing!Bulk, Pricing!StaysOnPage
<1>11. CASE Pricing(S, T, M)!TypePrice
  <2>1. PICK p \in T : Pricing(S, T, M)!Bulk([desk.bulk EXCEPT !.price = p]) /\ Pricing(S, T, M)!StaysOnPage
    BY <1>11, Zenon DEF Pricing!TypePrice
  <2>2. p \in 0 .. MaxPrice
    BY <2>1
  <2> DEFINE b == [desk.bulk EXCEPT !.price = p]
  <2>3. b \in BulkForms(S)
    BY <1>1, <2>2 DEF BulkForms
  <2>4. Pricing(S, T, M)!Bulk(b)
    BY <2>1
  <2> HIDE DEF b
  <2> QED  BY <2>1, <2>3, <2>4 DEF Pricing!Bulk, Pricing!StaysOnPage
<1>12. CASE Pricing(S, T, M)!ClosePricingDialog \/ Pricing(S, T, M)!ConfirmPricing
  <2>1. PICK d \in {"closed", "edit", "confirm"} : Pricing(S, T, M)!Bulk([desk.bulk EXCEPT !.dialog = d])
               /\ Pricing(S, T, M)!StaysOnPage
    BY <1>12 DEF Pricing!ClosePricingDialog, Pricing!ConfirmPricing
  <2> DEFINE b == [desk.bulk EXCEPT !.dialog = d]
  <2>2. b \in BulkForms(S)
    BY <1>1 DEF BulkForms
  <2>3. Pricing(S, T, M)!Bulk(b)
    BY <2>1
  <2> HIDE DEF b
  <2> QED  BY <2>1, <2>2, <2>3 DEF Pricing!Bulk, Pricing!StaysOnPage
<1>13. CASE Pricing(S, T, M)!AskExemption \/ Pricing(S, T, M)!CloseExemption
  <2>1. /\ \/ Pricing(S, T, M)!Bulk([desk.bulk EXCEPT !.dialog = "closed", !.exempting = TRUE])
           \/ Pricing(S, T, M)!Bulk([desk.bulk EXCEPT !.exempting = FALSE])
        /\ Pricing(S, T, M)!StaysOnPage
    BY <1>13 DEF Pricing!AskExemption, Pricing!CloseExemption
  <2>2. /\ [desk.bulk EXCEPT !.dialog = "closed", !.exempting = TRUE] \in BulkForms(S)
        /\ [desk.bulk EXCEPT !.exempting = FALSE] \in BulkForms(S)
    BY <1>1 DEF BulkForms
  <2> QED  BY <2>1, <2>2 DEF Pricing!Bulk, Pricing!StaysOnPage
<1> QED  BY <1>7, <1>8, <1>9, <1>10, <1>11, <1>12, <1>13

(* The panel for one customer.                                                *)
LEMMA PricingByHand ==
  ASSUME NEW S, NEW T \in SUBSET (1 .. MaxPrice), NEW M, PricesInv(S),
         \/ \E c \in Pricing(S, T, M)!Customers : Pricing(S, T, M)!OpenManualPricing(c)
         \/ Pricing(S, T, M)!TypeManualPrice \/ Pricing(S, T, M)!ConfirmManual \/ Pricing(S, T, M)!CloseManual
  PROVE  PricesStep(S)
<1>1. desk.manual \in ManualForms(S) /\ Pricing(S, T, M)!NoManual \in ManualForms(S) /\ desk \in PriceDesks(S)
  BY PricedFacts, PricingValues
<1>2. SUFFICES UNCHANGED <<server, shown, calls, changes>>
               /\ \E m \in ManualForms(S) : desk' = [desk EXCEPT !.manual = m]
  BY ManualFormMoves
<1>3. ASSUME NEW c \in Pricing(S, T, M)!Customers, Pricing(S, T, M)!OpenManualPricing(c)
      PROVE  UNCHANGED <<server, shown, calls, changes>>
             /\ \E m \in ManualForms(S) : desk' = [desk EXCEPT !.manual = m]
  <2>1. ASSUME NEW m \in ManualForms(S), NEW d \in {Itself[s] : s \in S}
        PROVE  [m EXCEPT !.customer = d] \in ManualForms(S)
    BY DEF ManualForms
  <2>2. c \in {Itself[s] : s \in S}
    BY PricingValues
  <2>3. [Pricing(S, T, M)!NoManual EXCEPT !.customer = c] \in ManualForms(S)
    BY <1>1, <2>1, <2>2, Zenon
  <2> QED  BY <1>3, <2>3 DEF Pricing!OpenManualPricing, Pricing!StaysOnPage
<1>4. CASE Pricing(S, T, M)!TypeManualPrice
  <2>1. PICK s \in S, p \in T : desk' = [desk EXCEPT !.manual.typed[s] = p] /\ Pricing(S, T, M)!StaysOnPage
    BY <1>4, Zenon DEF Pricing!TypeManualPrice
  <2> DEFINE typed == [desk.manual.typed EXCEPT ![s] = p]
  <2>2. typed \in [S -> 0 .. MaxPrice]
    <3>1. p \in 0 .. MaxPrice /\ desk.manual.typed \in [S -> 0 .. MaxPrice]
      BY <1>1 DEF ManualForms
    <3> QED  BY <3>1
  <2>3. desk' = [desk EXCEPT !.manual = [desk.manual EXCEPT !.typed = typed]]
    BY <1>1, <2>1 DEF PriceDesks
  <2> HIDE DEF typed
  <2>4. [desk.manual EXCEPT !.typed = typed] \in ManualForms(S)
    BY <1>1, <2>2 DEF ManualForms
  <2> QED  BY <2>1, <2>3, <2>4 DEF Pricing!StaysOnPage
<1>5. CASE Pricing(S, T, M)!ConfirmManual
  <2> DEFINE confirming == ~desk.manual.confirming
  <2>1. desk' = [desk EXCEPT !.manual = [desk.manual EXCEPT !.confirming = confirming]]
          /\ Pricing(S, T, M)!StaysOnPage
    BY <1>1, <1>5 DEF Pricing!ConfirmManual, PriceDesks
  <2>2. confirming \in BOOLEAN
    OBVIOUS
  <2> HIDE DEF confirming
  <2>3. [desk.manual EXCEPT !.confirming = confirming] \in ManualForms(S)
    BY <1>1, <2>2 DEF ManualForms
  <2> QED  BY <2>1, <2>3 DEF Pricing!StaysOnPage
<1>6. CASE Pricing(S, T, M)!CloseManual
  BY <1>1, <1>6 DEF Pricing!CloseManual, Pricing!StaysOnPage
<1> QED  BY <1>3, <1>4, <1>5, <1>6

(* Calls are sent, lists are read and opened anew.                            *)
LEMMA PricingSends ==
  ASSUME NEW S, NEW T \in SUBSET (1 .. MaxPrice), NEW M, PricesInv(S),
         \/ Pricing(S, T, M)!SchedulePrices \/ Pricing(S, T, M)!ExemptSelected
              \/ Pricing(S, T, M)!ScheduleManualPrices
         \/ Pricing(S, T, M)!Refetch \/ Pricing(S, T, M)!OpenBulkPricing
  PROVE  PricesStep(S)
<1>1. /\ \A s \in S : server[s] \in PricedRows /\ shown[s].price \in 1 .. MaxPrice
      /\ desk.bulk \in BulkForms(S) /\ desk.manual \in ManualForms(S) /\ desk \in PriceDesks(S)
      /\ shown \in [S -> SeatViews] /\ \A q \in calls : q \in PriceCalls(S) /\ WithinSafeguards(q, S)
  BY PricedFacts DEF PricesInv, PricePage, PriceQueue
<1>2. CASE Pricing(S, T, M)!SchedulePrices \/ Pricing(S, T, M)!ExemptSelected
             \/ Pricing(S, T, M)!ScheduleManualPrices
  <2>1. Pricing(S, T, M)!ManualEntries \in [S -> 0 .. MaxPrice] /\ desk.bulk.price \in 0 .. MaxPrice
    BY <1>1, PricingValues DEF Pricing!ManualEntries, ManualForms, BulkForms
  <2>2. \E kind \in {"bulk", "exempt", "manual"},
          prices \in [S -> 0 .. MaxPrice] : Pricing(S, T, M)!Send(kind, prices)
    <3>1. CASE Pricing(S, T, M)!SchedulePrices
      BY <2>1, <3>1, PricingValues DEF Pricing!SchedulePrices
    <3>2. CASE Pricing(S, T, M)!ExemptSelected
      <4>1. [s \in S |-> IF s \in Pricing(S, T, M)!Selected THEN shown[s].price
              ELSE Pricing(S, T, M)!None] \in [S -> 0 .. MaxPrice]
        BY <1>1, PricingValues
      <4> QED  BY <3>2, <4>1 DEF Pricing!ExemptSelected
    <3>3. CASE Pricing(S, T, M)!ScheduleManualPrices
      BY <2>1, <3>3 DEF Pricing!ScheduleManualPrices
    <3> QED  BY <1>2, <3>1, <3>2, <3>3
  <2>3. PICK kind \in {"bulk", "exempt", "manual"},
               prices \in [S -> 0 .. MaxPrice] : Pricing(S, T, M)!Send(kind, prices)
    BY <2>2
  <2> DEFINE r == [kind |-> kind, prices |-> prices, owned |-> TRUE, state |-> "sent",
                   stale |-> FALSE, charged |-> Pricing(S, T, M)!NoPrices]
  <2>4. calls' = calls \cup {r} /\ UNCHANGED <<server, shown, desk, changes>>
    BY <2>3 DEF Pricing!Send
  <2>5. r \in PriceCalls(S) /\ WithinSafeguards(r, S)
    BY PricingValues DEF PriceCalls, WithinSafeguards
  <2> HIDE DEF r
  <2> QED  BY <1>1, <2>4, <2>5, PricePageMoves
<1>3. CASE Pricing(S, T, M)!Refetch
  <2>1. shown' \in [S -> SeatViews] /\ UNCHANGED <<server, desk, calls, changes>>
    BY <1>1, <1>3, PricingViews DEF Pricing!Refetch
  <2> QED  BY <1>1, <2>1, PricePageMoves
<1>4. CASE Pricing(S, T, M)!OpenBulkPricing
  <2> DEFINE left(q) == IF q.kind = "manual" THEN q ELSE [q EXCEPT !.owned = FALSE]
  <2>1. desk' = [desk EXCEPT !.bulk = Pricing(S, T, M)!EmptyBulk] /\ calls' = {left(q) : q \in calls}
        /\ UNCHANGED <<server, shown, changes>>
    BY <1>4 DEF Pricing!OpenBulkPricing
  <2>2. desk' \in PriceDesks(S)
    BY <1>1, <2>1, PricingValues DEF PriceDesks
  <2>3. ASSUME NEW q \in PriceCalls(S), WithinSafeguards(q, S)
        PROVE  left(q) \in PriceCalls(S) /\ WithinSafeguards(left(q), S)
    BY <2>3 DEF PriceCalls, WithinSafeguards
  <2> HIDE DEF left
  <2> QED  BY <1>1, <2>1, <2>2, <2>3, PricePageMoves
<1> QED  BY <1>2, <1>3, <1>4

LEMMA PricingAnswered ==
  ASSUME NEW S, NEW T \in SUBSET (1 .. MaxPrice), NEW M, PricesInv(S), NEW q \in calls,
           NEW state \in {"done", "refused"}
  PROVE  Pricing(S, T, M)!Answer(q, state) \in PriceCalls(S)
           /\ WithinSafeguards(Pricing(S, T, M)!Answer(q, state), S)
<1>1. q \in PriceCalls(S)
  BY PricedFacts
<1> QED  BY <1>1, PricingValues DEF Pricing!Answer, PriceCalls, WithinSafeguards

(* A call that is marked because its row was written asks for what it did.    *)
LEMMA PricingMarked ==
  ASSUME NEW S, NEW T, NEW M, NEW V, NEW Q, \A q \in Q : q \in PriceCalls(S) /\ WithinSafeguards(q, S)
  PROVE  \A q \in Pricing(S, T, M)!Moved(V, Q) : q \in PriceCalls(S) /\ WithinSafeguards(q, S)
<1> DEFINE marked(q) ==
             IF q.state = "checked" /\ Pricing(S, T, M)!Asked(q) \cap V # {} THEN [q EXCEPT !.stale = TRUE]
             ELSE q
<1>1. ASSUME NEW q \in PriceCalls(S), WithinSafeguards(q, S)
      PROVE  marked(q) \in PriceCalls(S) /\ WithinSafeguards(marked(q), S)
  <2>1. [q EXCEPT !.stale = TRUE] \in PriceCalls(S) /\ WithinSafeguards([q EXCEPT !.stale = TRUE], S)
    BY <1>1 DEF PriceCalls, WithinSafeguards
  <2> QED  BY <1>1, <2>1
<1>2. Pricing(S, T, M)!Moved(V, Q) = {marked(q) : q \in Q}
  BY DEF Pricing!Moved
<1> HIDE DEF marked
<1> QED  BY <1>1, <1>2

(* A call is checked, answered or lost.                                       *)
LEMMA PricingChecks ==
  ASSUME NEW S, NEW T \in SUBSET (1 .. MaxPrice), NEW M, PricesInv(S), NEW q \in calls,
           Pricing(S, T, M)!Check(q) \/ Pricing(S, T, M)!CallFails(q) \/ Pricing(S, T, M)!CallAnswered(q)
  PROVE  PricesStep(S)
<1>1. /\ q \in PriceCalls(S) /\ \A s \in S : server[s].price \in 1 .. MaxPrice
           /\ q.prices[s] \in 0 .. MaxPrice
      /\ desk.bulk \in BulkForms(S) /\ desk \in PriceDesks(S) /\ shown \in [S -> SeatViews]
  BY PricedFacts DEF PricesInv, PricePage
<1>2. UNCHANGED <<server, shown, changes>>
  BY DEF Pricing!Check, Pricing!CallFails, Pricing!CallAnswered
<1>3. CASE UNCHANGED desk /\ Pricing(S, T, M)!Settled(q, "refused")
  BY <1>1, <1>2, <1>3, PricingAnswered, PricePageMoves DEF Pricing!Settled
<1>4. CASE Pricing(S, T, M)!Check(q)
  <2>1. CASE Pricing(S, T, M)!Asked(q) # {} /\ \A s
               \in Pricing(S, T, M)!Asked(q) : Pricing(S, T, M)!Admitted(q, s)
    <3> DEFINE charged == [s \in S |-> server[s].price]
               r == [q EXCEPT !.state = "checked", !.charged = charged]
    <3>1. calls' = (calls \ {q}) \cup {r} /\ UNCHANGED desk
      BY <1>4, <2>1 DEF Pricing!Check
    <3>2. charged \in [S -> 0 .. MaxPrice] /\ \A s \in S : charged[s] = server[s].price
      BY <1>1
    <3>3. ASSUME NEW s \in S, q.prices[s] # 0, q.kind # "exempt"
          PROVE  /\ q.prices[s] # server[s].price
                 /\ q.kind = "bulk" => q.prices[s] <= server[s].price + 1
      <4>1. Pricing(S, T, M)!Admitted(q, s)
        BY <2>1, <3>3, PricingValues DEF Pricing!Asked
      <4>2. q.kind \in {"bulk", "manual"} /\ server[s].price \in Int /\ q.prices[s] \in Int
        BY <1>1, <3>3, PricedFacts DEF PriceCalls
      <4> QED  BY <4>1, <4>2 DEF Pricing!Admitted, Pricing!SafeCap
    <3> HIDE DEF charged
    <3>4. r \in PriceCalls(S) /\ r.prices = q.prices /\ r.kind = q.kind /\ r.charged = charged
      BY <1>1, <3>2 DEF PriceCalls
    <3> HIDE DEF r
    <3>5. WithinSafeguards(r, S)
      BY <3>2, <3>3, <3>4 DEF WithinSafeguards
    <3> QED  BY <1>1, <1>2, <3>1, <3>4, <3>5, PricePageMoves
  <2>2. CASE ~(Pricing(S, T, M)!Asked(q) # {} /\ \A s
               \in Pricing(S, T, M)!Asked(q) : Pricing(S, T, M)!Admitted(q, s))
    BY <1>3, <1>4, <2>2 DEF Pricing!Check
  <2> QED  BY <2>1, <2>2
<1>5. CASE Pricing(S, T, M)!CallFails(q)
  BY <1>3, <1>5 DEF Pricing!CallFails
<1>6. CASE Pricing(S, T, M)!CallAnswered(q)
  <2>1. \/ desk' = desk
        \/ desk' = [desk EXCEPT !.bulk = [desk.bulk EXCEPT !.dialog = "closed", !.ticked = {},
             !.price = Pricing(S, T, M)!None]]
        \/ desk' = [desk EXCEPT !.bulk = [desk.bulk EXCEPT !.exempting = FALSE, !.ticked = {}]]
        \/ desk' = [desk EXCEPT !.manual = Pricing(S, T, M)!NoManual]
    BY <1>1, <1>6 DEF Pricing!CallAnswered, PriceDesks
  <2>2. desk' \in PriceDesks(S)
    <3>1. \A p \in 0 .. MaxPrice : [desk.bulk EXCEPT !.dialog = "closed", !.ticked = {}, !.price = p]
            \in BulkForms(S)
      BY <1>1 DEF BulkForms
    <3>4. [desk.bulk EXCEPT !.exempting = FALSE, !.ticked = {}] \in BulkForms(S)
      BY <1>1 DEF BulkForms
    <3>2. \A b \in BulkForms(S) : [desk EXCEPT !.bulk = b] \in PriceDesks(S)
      BY <1>1 DEF PriceDesks
    <3>3. [desk EXCEPT !.manual = Pricing(S, T, M)!NoManual] \in PriceDesks(S)
      BY <1>1, PricingValues DEF PriceDesks
    <3> QED  BY <1>1, <2>1, <3>1, <3>2, <3>3, <3>4, PricingValues
  <2>3. calls' = calls \ {q}
    BY <1>6 DEF Pricing!CallAnswered
  <2> QED  BY <1>1, <1>2, <2>2, <2>3, PricePageMoves
<1> QED  BY <1>4, <1>5, <1>6

(* What was checked is written, if the rows are still the ones checked.       *)
LEMMA PricingWrites ==
  ASSUME NEW S, NEW T \in SUBSET (1 .. MaxPrice), NEW M, PricesInv(S), NEW q \in calls,
           Pricing(S, T, M)!Write(q)
  PROVE  PricesStep(S)
<1>1. /\ q \in PriceCalls(S) /\ WithinSafeguards(q, S) /\ q.state = "checked"
      /\ \A s \in S : server[s] \in PricedRows /\ q.prices[s] \in 0 .. MaxPrice
      /\ desk \in PriceDesks(S) /\ shown \in [S -> SeatViews] /\ UNCHANGED <<shown, desk, changes>>
  BY PricedFacts DEF PricesInv, PricePage, PriceQueue, Pricing!Write
<1>2. CASE \A s \in Pricing(S, T, M)!Asked(q) : Pricing(S, T, M)!Unchanged(q, s)
  <2> DEFINE row(s) == IF s \notin Pricing(S, T, M)!Asked(q) THEN server[s]
                       ELSE IF q.kind = "exempt" THEN [server[s] EXCEPT !.exempt = TRUE]
                       ELSE [server[s] EXCEPT !.next = q.prices[s]]
  <2>1. server' = [s \in S |-> row(s)]
    BY <1>2 DEF Pricing!Write
  <2>2. ASSUME NEW s \in S
        PROVE  /\ row(s) \in PricedRows
               /\ row(s).next # server[s].next =>
                    s \in Pricing(S, T, M)!Asked(q) /\ q.kind # "exempt" /\ row(s).next = q.prices[s]
    BY <1>1 DEF PricedRows
  <2> HIDE DEF row
  <2>3. server' \in [S -> PricedRows]
    BY <2>1, <2>2
  <2>4. \A s \in S : server'[s] = row(s)
    BY <2>1
  <2>5. Safeguarded(S)
    <3> SUFFICES ASSUME NEW s \in S, server'[s].next # server[s].next
                 PROVE  /\ server[s].next = 0 /\ ~server[s].case /\ ~server[s].exempt
                        /\ server'[s].next # server[s].price /\ q.prices[s] = server'[s].next
                        /\ q.kind = "bulk" => q.prices[s] <= server[s].price + 1
      BY <1>1 DEF Safeguarded
    <3>1. s \in Pricing(S, T, M)!Asked(q) /\ q.kind # "exempt" /\ server'[s].next = q.prices[s]
      BY <2>2, <2>4
    <3>2. server[s].next = 0 /\ ~server[s].case /\ ~server[s].exempt /\ server[s].price = q.charged[s]
      BY <1>2, <3>1, PricingValues DEF Pricing!Unchanged
    <3>3. q.prices[s] # 0
      BY <3>1, PricingValues DEF Pricing!Asked
    <3> QED  BY <1>1, <3>1, <3>2, <3>3 DEF WithinSafeguards
  <2>6. PriceQueue(S)'
    <3> DEFINE others == calls \ {q}
    <3>1. calls' \subseteq others \cup Pricing(S, T, M)!Moved(Pricing(S, T, M)!Asked(q), others)
            \cup {Pricing(S, T, M)!Answer(q, "done")}
      BY <1>2 DEF Pricing!Write
    <3>2. \A r \in others : r \in PriceCalls(S) /\ WithinSafeguards(r, S)
      BY DEF PricesInv, PriceQueue
    <3> HIDE DEF others
    <3>3. \A r \in Pricing(S, T, M)!Moved(Pricing(S, T, M)!Asked(q), others) : r \in PriceCalls(S)
            /\ WithinSafeguards(r, S)
      BY <3>2, PricingMarked
    <3> QED  BY <3>1, <3>2, <3>3, PricingAnswered DEF PriceQueue
  <2> QED  BY <1>1, <2>3, <2>5, <2>6 DEF PricesInv, PricePage, PricesStep
<1>3. CASE ~ \A s \in Pricing(S, T, M)!Asked(q) : Pricing(S, T, M)!Unchanged(q, s)
  <2>1. server' = server /\ Pricing(S, T, M)!Settled(q, "refused")
    BY <1>3 DEF Pricing!Write
  <2> QED  BY <1>1, <2>1, PricingAnswered, PricePageMoves DEF Pricing!Settled
<1> QED  BY <1>2, <1>3

(* What other pages do.                                                       *)
LEMMA PricingOtherPages ==
  ASSUME NEW S, NEW T \in SUBSET (1 .. MaxPrice), NEW M, PricesInv(S), Pricing(S, T, M)!OtherPages
  PROVE  PricesStep(S)
<1>1. ASSUME NEW s \in S, NEW r \in PricedRows, NEW moved \in BOOLEAN, Pricing(S, T, M)!Elsewhere(s, r, moved)
      PROVE  PricesStep(S)
  <2>1. server' \in [S -> PricedRows]
    BY <1>1 DEF Pricing!Elsewhere, PricesInv
  <2>2. \A q \in calls : q \in PriceCalls(S) /\ WithinSafeguards(q, S)
    BY DEF PricesInv, PriceQueue
  <2>3. \A q \in Pricing(S, T, M)!Moved({s}, calls) : q \in PriceCalls(S) /\ WithinSafeguards(q, S)
    BY <2>2, PricingMarked
  <2>4. calls' \in {calls, Pricing(S, T, M)!Moved({s}, calls)} /\ changes < MaxChanges
          /\ changes' = changes + 1
        /\ UNCHANGED <<shown, desk>>
    BY <1>1 DEF Pricing!Elsewhere
  <2> QED  BY <2>1, <2>2, <2>3, <2>4, PricedElsewhere
<1>2. ASSUME NEW s \in S, Pricing(S, T, M)!ScheduledPriceStarts(s)
      PROVE  PricesStep(S)
  <2> DEFINE r == [server[s] EXCEPT !.price = server[s].next, !.next = 0, !.cooling = TRUE]
  <2>1. server[s].next # 0 /\ Pricing(S, T, M)!Elsewhere(s, r, TRUE)
    BY <1>2, PricingValues DEF Pricing!ScheduledPriceStarts
  <2>2. server[s] \in PricedRows /\ server[s].next \in 1 .. MaxPrice
    BY <2>1, PricedFacts
  <2>3. r \in PricedRows
    <3>1. ASSUME NEW v \in PricedRows, NEW x \in 1 .. MaxPrice, NEW y \in 0 .. MaxPrice
          PROVE  [v EXCEPT !.price = x, !.next = y, !.cooling = TRUE] \in PricedRows
      BY DEF PricedRows
    <3>2. 0 \in 0 .. MaxPrice
      BY PricingValues
    <3> QED  BY <2>2, <3>1, <3>2, Zenon
  <2> HIDE DEF r
  <2> QED  BY <1>1, <2>1, <2>3
<1>3. ASSUME NEW s \in S, Pricing(S, T, M)!NextPriceEdited(s) \/ Pricing(S, T, M)!PriceEdited(s)
      PROVE  PricesStep(S)
  <2>1. server[s] \in PricedRows
    BY PricedFacts
  <2>2. /\ \A p \in 0 .. MaxPrice : [server[s] EXCEPT !.next = p] \in PricedRows
        /\ \A p \in 1 .. MaxPrice : [server[s] EXCEPT !.price = p] \in PricedRows
    BY <2>1 DEF PricedRows
  <2>3. T \cup {0} \subseteq 0 .. MaxPrice /\ T \subseteq 1 .. MaxPrice
    BY PricingValues
  <2>4. \/ \E p \in T \cup {0} : Pricing(S, T, M)!Elsewhere(s, [server[s] EXCEPT !.next = p], TRUE)
        \/ \E p \in T : Pricing(S, T, M)!Elsewhere(s, [server[s] EXCEPT !.price = p], TRUE)
    BY <1>3, Zenon DEF Pricing!NextPriceEdited, Pricing!PriceEdited, Pricing!None
  <2> QED  BY <1>1, <2>2, <2>3, <2>4
<1>4. ASSUME NEW s \in S, Pricing(S, T, M)!CaseOpensOrCloses(s) \/ Pricing(S, T, M)!TimePasses(s)
      PROVE  PricesStep(S)
  <2> DEFINE case == ~server[s].case
  <2>1. case \in BOOLEAN /\ server[s] \in PricedRows
    BY PricedFacts
  <2>2. \/ Pricing(S, T, M)!Elsewhere(s, [server[s] EXCEPT !.case = case], FALSE)
        \/ Pricing(S, T, M)!Elsewhere(s, [server[s] EXCEPT !.cooling = FALSE, !.exempt = FALSE], FALSE)
    BY <1>4 DEF Pricing!CaseOpensOrCloses, Pricing!TimePasses
  <2> HIDE DEF case
  <2>3. /\ [server[s] EXCEPT !.case = case] \in PricedRows
        /\ [server[s] EXCEPT !.cooling = FALSE, !.exempt = FALSE] \in PricedRows
    BY <2>1 DEF PricedRows
  <2> QED  BY <1>1, <2>2, <2>3
<1> QED  BY <1>1, <1>2, <1>3, <1>4 DEF Pricing!OtherPages

LEMMA PricingNext ==
  ASSUME NEW S, NEW T \in SUBSET (1 .. MaxPrice), NEW M, PricesInv(S),
           [Pricing(S, T, M)!Next]_(Pricing(S, T, M)!vars)
  PROVE  PricesStep(S)
<1>1. CASE Pricing(S, T, M)!Operator
  BY <1>1, PricingSelects, PricingByHand, PricingSends DEF Pricing!Operator
<1>2. CASE Pricing(S, T, M)!Server
  BY <1>2, PricingChecks, PricingWrites DEF Pricing!Server
<1>3. CASE Pricing(S, T, M)!OtherPages
  BY <1>3, PricingOtherPages
<1>4. CASE UNCHANGED Pricing(S, T, M)!vars
  BY <1>4, PricePageMoves DEF Pricing!vars, PricesInv, PricePage
<1> QED  BY <1>1, <1>2, <1>3, <1>4 DEF Pricing!Next

LEMMA PricingInit ==
  ASSUME NEW S, NEW T \in SUBSET (1 .. MaxPrice), NEW M, Pricing(S, T, M)!Init
  PROVE  PricesInv(S)
<1>1. server \in [S -> PricedRows]
  BY PricingValues DEF Pricing!Init, PricedRows
<1>2. shown \in [S -> SeatViews]
  BY <1>1, PricingViews DEF Pricing!Init
<1>3. desk \in PriceDesks(S)
  BY PricingValues DEF Pricing!Init, PriceDesks
<1>4. calls = {} /\ changes = 0 /\ MaxChanges \in Nat
  BY PageAssumptions DEF Pricing!Init, Pricing!RepricingAssumption
<1> QED  BY <1>1, <1>2, <1>3, <1>4 DEF PricesInv, PricePage, PriceQueue

LEMMA PricingSafeguards ==
  ASSUME NEW S, NEW T, NEW M, Safeguarded(S)
  PROVE  Pricing(S, T, M)!PriceStep
BY PricingValues DEF Safeguarded, Pricing!PriceStep

LEMMA PricesTypes ==
  ASSUME NEW S, NEW T, NEW M, PricesInv(S)
  PROVE  Pricing(S, T, M)!TypeOK
<1>1. server \in [S -> PricedRows] /\ shown \in [S -> SeatViews]
  BY DEF PricesInv, PricePage
<1>2. desk.bulk \in BulkForms(S) /\ desk.manual \in ManualForms(S) /\ calls \subseteq PriceCalls(S)
  BY PricedFacts DEF PricesInv
<1>3. 0 .. MaxPrice = (1 .. MaxPrice) \cup {0}
  BY PageAssumptions DEF Pricing!RepricingAssumption
<1>4. changes \in 0 .. MaxChanges
  BY DEF PricesInv
<1> DEFINE P == Pricing(S, T, M)!Prices
           O == P \cup {Pricing(S, T, M)!None}
           C == Pricing(S, T, M)!Customers \cup {Nobody}
<1>5. P = 1 .. MaxPrice /\ O = 0 .. MaxPrice /\ C = {Itself[s] : s \in S} \cup {Nobody}
  BY <1>3, PricingValues
<1> HIDE DEF P, O, C
<1>6. server \in [S -> [price : P, next : O, case : BOOLEAN, cooling : BOOLEAN, exempt : BOOLEAN]]
      /\ shown \in [S -> [price : P, code : {"after_sales", "scheduled", "cooldown", "exempted", "eligible"}]]
  BY <1>1, <1>5, Zenon DEF PricedRows, SeatViews
<1>7. desk.bulk \in [ticked : SUBSET S, price : O, dialog : {"closed", "edit", "confirm"},
        exempting : BOOLEAN]
      /\ desk.manual \in [customer : C, typed : [S -> O], confirming : BOOLEAN]
  BY <1>2, <1>5, Zenon DEF BulkForms, ManualForms
<1>8. calls \subseteq [kind : {"bulk", "exempt", "manual"}, prices : [S -> O], owned : BOOLEAN,
                       state : {"sent", "checked", "done", "refused"}, stale : BOOLEAN, charged : [S -> O]]
  BY <1>2, <1>5, Zenon DEF PriceCalls
<1> QED  BY <1>4, <1>6, <1>7, <1>8, Zenon DEF Pricing!TypeOK, P, O, C

(* The prices typed where there are many calls, and where there are few, are  *)
(* prices.                                                                    *)
LEMMA PricesAreTyped ==
  /\ TypedPrices \in SUBSET (1 .. MaxPrice) /\ FewPrices \in SUBSET (1 .. MaxPrice)
BY PageAssumptions DEF Pricing!RepricingAssumption, Pricing!Prices

LEMMA PricesAlways ==
  /\ Spec => [](page = "repricing" => PricesInv(Subscriptions))
  /\ Spec => [](page = "repricing calls" => PricesInv(Accounts))
<1>1. Init => (page = "repricing" => PricesInv(Subscriptions))
  BY PricingInit, PricesAreTyped DEF Init
<1>2. Init => (page = "repricing calls" => PricesInv(Accounts))
  BY PricingInit, PricesAreTyped DEF Init
<1>3. (page = "repricing" => PricesInv(Subscriptions)) /\ [Next]_vars
        => (page = "repricing" => PricesInv(Subscriptions))'
  <2> SUFFICES ASSUME page = "repricing" => PricesInv(Subscriptions), [Next]_vars, page' = "repricing"
               PROVE  PricesInv(Subscriptions)'
    OBVIOUS
  <2>1. page = "repricing"
        /\ [Pricing(Subscriptions, FewPrices, FewCalls)!Next]_(Pricing(Subscriptions, FewPrices,
             FewCalls)!vars)
    BY DEF Next, vars, Pricing!vars
  <2> QED  BY <2>1, PricingNext, PricesAreTyped DEF PricesStep
<1>4. (page = "repricing calls" => PricesInv(Accounts)) /\ [Next]_vars
        => (page = "repricing calls" => PricesInv(Accounts))'
  <2> SUFFICES ASSUME page = "repricing calls" => PricesInv(Accounts), [Next]_vars, page' = "repricing calls"
               PROVE  PricesInv(Accounts)'
    OBVIOUS
  <2>1. page = "repricing calls"
        /\ [Pricing(Accounts, TypedPrices, MaxCalls)!Next]_(Pricing(Accounts, TypedPrices, MaxCalls)!vars)
    BY DEF Next, vars, Pricing!vars
  <2> QED  BY <2>1, PricingNext, PricesAreTyped DEF PricesStep
<1> QED  BY <1>1, <1>2, <1>3, <1>4, PTL DEF Spec

(* However old the list is and whatever happens between the check of a        *)
(* selection and its writing: no price is scheduled over another one, for a   *)
(* seat with an open case or an exempted one, and a price for many is never   *)
(* more than one step above what the customer pays (bulkScheduleRepricing,    *)
(* ScheduleSubscriptionPrices).                                               *)
THEOREM SafeguardsHold == Spec => SafeguardsHoldWhenWritten
<1> DEFINE Inv == /\ page = "repricing" => PricesInv(Subscriptions)
                  /\ page = "repricing calls" => PricesInv(Accounts)
           Step == /\ page = "repricing" => Pricing(Subscriptions, FewPrices, FewCalls)!PriceStep
                   /\ page = "repricing calls" => Pricing(Accounts, TypedPrices, MaxCalls)!PriceStep
<1>1. Inv /\ [Next]_vars => [Step]_vars
  <2>1. ASSUME page = "repricing", PricesInv(Subscriptions), [Next]_vars
        PROVE  Pricing(Subscriptions, FewPrices, FewCalls)!PriceStep
    <3>1. [Pricing(Subscriptions, FewPrices, FewCalls)!Next]_(Pricing(Subscriptions, FewPrices,
            FewCalls)!vars)
      BY <2>1 DEF Next, vars, Pricing!vars
    <3> QED  BY <2>1, <3>1, PricingNext, PricingSafeguards, PricesAreTyped DEF PricesStep
  <2>2. ASSUME page = "repricing calls", PricesInv(Accounts), [Next]_vars
        PROVE  Pricing(Accounts, TypedPrices, MaxCalls)!PriceStep
    <3>1. [Pricing(Accounts, TypedPrices, MaxCalls)!Next]_(Pricing(Accounts, TypedPrices, MaxCalls)!vars)
      BY <2>2 DEF Next, vars, Pricing!vars
    <3> QED  BY <2>2, <3>1, PricingNext, PricingSafeguards, PricesAreTyped DEF PricesStep
  <2> QED  BY <2>1, <2>2
<1>2. Spec => []Inv
  BY PricesAlways, PTL
<1>3. Spec => [][Step]_vars
  BY <1>1, <1>2, PTL DEF Spec
<1> QED  BY <1>3, PTL DEF SafeguardsHoldWhenWritten

-----------------------------------------------------------------------------
(* THE REDEMPTIONS, looked at twice; RedemptionsPageProofs has the proof for  *)
(* all codes, seats and numbers of calls.                                     *)

DeskProofs ==
  INSTANCE RedemptionsPageProofs WITH code <- server, app <- shown, sold <- log, Nothing <- Nobody,
    MaxCalls <- FewCalls

CallsProofs ==
  INSTANCE RedemptionsPageProofs WITH code <- server, app <- shown, sold <- log, Nothing <- Nobody,
    Codes <- Accounts

LEMMA SameDesk ==
  /\ Redemptions!Init <=> DeskProofs!Init
  /\ Redemptions!Next <=> DeskProofs!Next
  /\ Redemptions!DecisionStep <=> DeskProofs!DecisionStep
  /\ Redemptions!InvitationWasTypedForIt <=> DeskProofs!InvitationWasTypedForIt
  /\ Redemptions!TypeOK <=> DeskProofs!TypeOK
<1>1. Redemptions!Init <=> DeskProofs!Init
  BY DEF Redemptions!Init, DeskProofs!Init, Redemptions!StoreInit, DeskProofs!StoreInit,
         Redemptions!Apps, DeskProofs!Apps, Redemptions!NoApp, DeskProofs!NoApp, Redemptions!AnySeat,
         DeskProofs!AnySeat, Redemptions!EmptyPanel, DeskProofs!EmptyPanel
<1>2. Redemptions!Next <=> DeskProofs!Next
  BY DEF Redemptions!ReturnApplication, DeskProofs!ReturnApplication,
         Redemptions!EraseApplication, DeskProofs!EraseApplication,
         Redemptions!Withdrawable, DeskProofs!Withdrawable,
         Redemptions!Free, DeskProofs!Free,
         Redemptions!Deleted, DeskProofs!Deleted,
         Redemptions!InvitationTakenBack, DeskProofs!InvitationTakenBack,
         Redemptions!Apps, DeskProofs!Apps, Redemptions!NoApp, DeskProofs!NoApp, Redemptions!AnySeat,
         DeskProofs!AnySeat, Redemptions!storeVars, DeskProofs!storeVars, Redemptions!FreeSeats,
         DeskProofs!FreeSeats, Redemptions!FreshIds, DeskProofs!FreshIds, Redemptions!NextId,
         DeskProofs!NextId, Redemptions!Redeemable, DeskProofs!Redeemable, Redemptions!StoreApplication,
         DeskProofs!StoreApplication, Redemptions!Processable, DeskProofs!Processable,
         Redemptions!SeatsFor, DeskProofs!SeatsFor, Redemptions!InviteApplication,
         DeskProofs!InviteApplication, Redemptions!Holders, DeskProofs!Holders,
         Redemptions!RejectApplication, DeskProofs!RejectApplication, Redemptions!Switchable,
         DeskProofs!Switchable, Redemptions!SetCodeStatus, DeskProofs!SetCodeStatus,
         Redemptions!EmptyPanel, DeskProofs!EmptyPanel, Redemptions!Listed, DeskProofs!Listed,
         Redemptions!Place, DeskProofs!Place, Redemptions!Card, DeskProofs!Card, Redemptions!Orphaned,
         DeskProofs!Orphaned, Redemptions!PanelOf, DeskProofs!PanelOf, Redemptions!Show,
         DeskProofs!Show, Redemptions!RefreshList, DeskProofs!RefreshList, Redemptions!TurnPage,
         DeskProofs!TurnPage, Redemptions!FollowLink, DeskProofs!FollowLink, Redemptions!RefreshSeats,
         DeskProofs!RefreshSeats, Redemptions!Chosen, DeskProofs!Chosen, Redemptions!Invitable,
         DeskProofs!Invitable, Redemptions!EditPanel, DeskProofs!EditPanel, Redemptions!Send,
         DeskProofs!Send, Redemptions!Invite, DeskProofs!Invite, Redemptions!AskReject,
         DeskProofs!AskReject, Redemptions!ConfirmReject, DeskProofs!ConfirmReject, Redemptions!Section,
         DeskProofs!Section, Redemptions!RefreshCodes, DeskProofs!RefreshCodes,
         Redemptions!GenerateCode, DeskProofs!GenerateCode, Redemptions!SwitchCode,
         DeskProofs!SwitchCode, Redemptions!AskDeleteCode, DeskProofs!AskDeleteCode,
         Redemptions!DeleteCode, DeskProofs!DeleteCode, Redemptions!CancelDelete,
         DeskProofs!CancelDelete, Redemptions!Answered, DeskProofs!Answered, Redemptions!ServerInvites,
         DeskProofs!ServerInvites, Redemptions!ServerRejects, DeskProofs!ServerRejects,
         Redemptions!CallFails, DeskProofs!CallFails, Redemptions!CallAnswered, DeskProofs!CallAnswered,
         Redemptions!CustomerSubmits, DeskProofs!CustomerSubmits, Redemptions!SeatChanges,
         DeskProofs!SeatChanges, Redemptions!Operator, DeskProofs!Operator, Redemptions!Next,
         DeskProofs!Next, Redemptions!Cardinality, DeskProofs!Cardinality
<1>3. Redemptions!DecisionStep <=> DeskProofs!DecisionStep
  BY DEF Redemptions!InvitationUndone, DeskProofs!InvitationUndone, Redemptions!Free, DeskProofs!Free,
         Redemptions!Deleted, DeskProofs!Deleted, Redemptions!NoApp, DeskProofs!NoApp,
         Redemptions!DecisionStep, DeskProofs!DecisionStep, Redemptions!Apps, DeskProofs!Apps,
         Redemptions!Decided, DeskProofs!Decided
<1>4. Redemptions!InvitationWasTypedForIt <=> DeskProofs!InvitationWasTypedForIt
  BY DEF Redemptions!InvitationWasTypedForIt, DeskProofs!InvitationWasTypedForIt,
         Redemptions!Cardinality, DeskProofs!Cardinality
<1>5. Redemptions!TypeOK <=> DeskProofs!TypeOK
  BY DEF Redemptions!TypeOK, DeskProofs!TypeOK, Redemptions!StoreTypeOK, DeskProofs!StoreTypeOK,
         Redemptions!Apps, DeskProofs!Apps,
         Redemptions!NoApp, DeskProofs!NoApp, Redemptions!AnySeat, DeskProofs!AnySeat,
         Redemptions!AppStatuses, DeskProofs!AppStatuses,
         Redemptions!CodeStatuses, DeskProofs!CodeStatuses
<1> QED  BY <1>1, <1>2, <1>3, <1>4, <1>5

LEMMA RedemptionsAlways ==
  /\ Spec => [](page = "redemptions" => DeskProofs!DeskInv)
  /\ Spec => [][page = "redemptions" => DeskProofs!DecisionStep]_vars
<1>1. Init => (page = "redemptions" => DeskProofs!DeskInv)
  BY SameDesk, DeskProofs!DeskStart, PageAssumptions DEF Init
<1>2. ASSUME page = "redemptions", DeskProofs!DeskInv, [Next]_vars
      PROVE  page' = page /\ DeskProofs!DeskInv' /\ DeskProofs!DecisionStep
  <2>1. page' = page /\ [DeskProofs!Next]_<<server, shown, log, desk, calls>>
    BY <1>2, SameDesk DEF Next, vars
  <2>2. page' = page /\ [DeskProofs!Next]_(DeskProofs!vars)
    BY <2>1 DEF DeskProofs!vars
  <2> QED  BY <1>2, <2>2, DeskProofs!DeskStep, PageAssumptions
<1>3. (page = "redemptions" => DeskProofs!DeskInv) /\ [Next]_vars
        => (page = "redemptions" => DeskProofs!DeskInv)'
  BY <1>2 DEF Next, vars
<1>4. (page = "redemptions" => DeskProofs!DeskInv) /\ [Next]_vars
        => [page = "redemptions" => DeskProofs!DecisionStep]_vars
  BY <1>2
<1> QED  BY <1>1, <1>3, <1>4, PTL DEF Spec

LEMMA SameCalls ==
  /\ RedemptionCalls!Init <=> CallsProofs!Init
  /\ RedemptionCalls!Next <=> CallsProofs!Next
  /\ RedemptionCalls!DecisionStep <=> CallsProofs!DecisionStep
  /\ RedemptionCalls!InvitationWasTypedForIt <=> CallsProofs!InvitationWasTypedForIt
  /\ RedemptionCalls!TypeOK <=> CallsProofs!TypeOK
<1>1. RedemptionCalls!Init <=> CallsProofs!Init
  BY DEF RedemptionCalls!Init, CallsProofs!Init, RedemptionCalls!StoreInit, CallsProofs!StoreInit,
         RedemptionCalls!Apps, CallsProofs!Apps, RedemptionCalls!NoApp, CallsProofs!NoApp,
         RedemptionCalls!AnySeat, CallsProofs!AnySeat, RedemptionCalls!EmptyPanel,
         CallsProofs!EmptyPanel
<1>2. RedemptionCalls!Next <=> CallsProofs!Next
  BY DEF RedemptionCalls!ReturnApplication, CallsProofs!ReturnApplication,
         RedemptionCalls!EraseApplication, CallsProofs!EraseApplication,
         RedemptionCalls!Withdrawable, CallsProofs!Withdrawable,
         RedemptionCalls!Free, CallsProofs!Free,
         RedemptionCalls!Deleted, CallsProofs!Deleted,
         RedemptionCalls!InvitationTakenBack, CallsProofs!InvitationTakenBack,
         RedemptionCalls!Apps, CallsProofs!Apps, RedemptionCalls!NoApp, CallsProofs!NoApp,
         RedemptionCalls!AnySeat, CallsProofs!AnySeat, RedemptionCalls!storeVars, CallsProofs!storeVars,
         RedemptionCalls!FreeSeats, CallsProofs!FreeSeats, RedemptionCalls!FreshIds,
         CallsProofs!FreshIds, RedemptionCalls!NextId, CallsProofs!NextId, RedemptionCalls!Redeemable,
         CallsProofs!Redeemable, RedemptionCalls!StoreApplication, CallsProofs!StoreApplication,
         RedemptionCalls!Processable, CallsProofs!Processable, RedemptionCalls!SeatsFor,
         CallsProofs!SeatsFor, RedemptionCalls!InviteApplication, CallsProofs!InviteApplication,
         RedemptionCalls!Holders, CallsProofs!Holders, RedemptionCalls!RejectApplication,
         CallsProofs!RejectApplication, RedemptionCalls!Switchable, CallsProofs!Switchable,
         RedemptionCalls!SetCodeStatus, CallsProofs!SetCodeStatus, RedemptionCalls!EmptyPanel,
         CallsProofs!EmptyPanel, RedemptionCalls!Listed, CallsProofs!Listed, RedemptionCalls!Place,
         CallsProofs!Place, RedemptionCalls!Card, CallsProofs!Card, RedemptionCalls!Orphaned,
         CallsProofs!Orphaned, RedemptionCalls!PanelOf, CallsProofs!PanelOf, RedemptionCalls!Show,
         CallsProofs!Show, RedemptionCalls!RefreshList, CallsProofs!RefreshList,
         RedemptionCalls!TurnPage, CallsProofs!TurnPage, RedemptionCalls!FollowLink,
         CallsProofs!FollowLink, RedemptionCalls!RefreshSeats, CallsProofs!RefreshSeats,
         RedemptionCalls!Chosen, CallsProofs!Chosen, RedemptionCalls!Invitable, CallsProofs!Invitable,
         RedemptionCalls!EditPanel, CallsProofs!EditPanel, RedemptionCalls!Send, CallsProofs!Send,
         RedemptionCalls!Invite, CallsProofs!Invite, RedemptionCalls!AskReject, CallsProofs!AskReject,
         RedemptionCalls!ConfirmReject, CallsProofs!ConfirmReject, RedemptionCalls!Section,
         CallsProofs!Section, RedemptionCalls!RefreshCodes, CallsProofs!RefreshCodes,
         RedemptionCalls!GenerateCode, CallsProofs!GenerateCode, RedemptionCalls!SwitchCode,
         CallsProofs!SwitchCode, RedemptionCalls!AskDeleteCode, CallsProofs!AskDeleteCode,
         RedemptionCalls!DeleteCode, CallsProofs!DeleteCode, RedemptionCalls!CancelDelete,
         CallsProofs!CancelDelete, RedemptionCalls!Answered, CallsProofs!Answered,
         RedemptionCalls!ServerInvites, CallsProofs!ServerInvites, RedemptionCalls!ServerRejects,
         CallsProofs!ServerRejects, RedemptionCalls!CallFails, CallsProofs!CallFails,
         RedemptionCalls!CallAnswered, CallsProofs!CallAnswered, RedemptionCalls!CustomerSubmits,
         CallsProofs!CustomerSubmits, RedemptionCalls!SeatChanges, CallsProofs!SeatChanges,
         RedemptionCalls!Operator, CallsProofs!Operator, RedemptionCalls!Next, CallsProofs!Next,
         RedemptionCalls!Cardinality, CallsProofs!Cardinality
<1>3. RedemptionCalls!DecisionStep <=> CallsProofs!DecisionStep
  BY DEF RedemptionCalls!InvitationUndone, CallsProofs!InvitationUndone,
         RedemptionCalls!Free, CallsProofs!Free,
         RedemptionCalls!Deleted, CallsProofs!Deleted, RedemptionCalls!NoApp, CallsProofs!NoApp,
         RedemptionCalls!DecisionStep, CallsProofs!DecisionStep, RedemptionCalls!Apps, CallsProofs!Apps,
         RedemptionCalls!Decided, CallsProofs!Decided
<1>4. RedemptionCalls!InvitationWasTypedForIt <=> CallsProofs!InvitationWasTypedForIt
  BY DEF RedemptionCalls!InvitationWasTypedForIt, CallsProofs!InvitationWasTypedForIt,
         RedemptionCalls!Cardinality, CallsProofs!Cardinality
<1>5. RedemptionCalls!TypeOK <=> CallsProofs!TypeOK
  BY DEF RedemptionCalls!TypeOK, CallsProofs!TypeOK, RedemptionCalls!StoreTypeOK,
         CallsProofs!StoreTypeOK, RedemptionCalls!Apps, CallsProofs!Apps,
         RedemptionCalls!NoApp, CallsProofs!NoApp, RedemptionCalls!AnySeat, CallsProofs!AnySeat,
         RedemptionCalls!AppStatuses, CallsProofs!AppStatuses,
         RedemptionCalls!CodeStatuses, CallsProofs!CodeStatuses
<1> QED  BY <1>1, <1>2, <1>3, <1>4, <1>5

LEMMA RedemptionCallsAlways ==
  /\ Spec => [](page = "redemption calls" => CallsProofs!DeskInv)
  /\ Spec => [][page = "redemption calls" => CallsProofs!DecisionStep]_vars
<1>1. Init => (page = "redemption calls" => CallsProofs!DeskInv)
  BY SameCalls, CallsProofs!DeskStart, PageAssumptions DEF Init
<1>2. ASSUME page = "redemption calls", CallsProofs!DeskInv, [Next]_vars
      PROVE  page' = page /\ CallsProofs!DeskInv' /\ CallsProofs!DecisionStep
  <2>1. page' = page /\ [CallsProofs!Next]_<<server, shown, log, desk, calls>>
    BY <1>2, SameCalls DEF Next, vars
  <2>2. page' = page /\ [CallsProofs!Next]_(CallsProofs!vars)
    BY <2>1 DEF CallsProofs!vars
  <2> QED  BY <1>2, <2>2, CallsProofs!DeskStep, PageAssumptions
<1>3. (page = "redemption calls" => CallsProofs!DeskInv) /\ [Next]_vars
        => (page = "redemption calls" => CallsProofs!DeskInv)'
  BY <1>2 DEF Next, vars
<1>4. (page = "redemption calls" => CallsProofs!DeskInv) /\ [Next]_vars
        => [page = "redemption calls" => CallsProofs!DecisionStep]_vars
  BY <1>2
<1> QED  BY <1>1, <1>3, <1>4, PTL DEF Spec

(* An invitation goes to the application its price was typed for, and a card  *)
(* that waits for its answer sends nothing else (key={application.id} of      *)
(* RedemptionApplicationCard, isPending of its mutations).                    *)
THEOREM InvitationsGoWhereTyped == Spec => []InvitationWasTypedForIt
<1>1. /\ page = "redemptions" => DeskProofs!DeskInv
      /\ page = "redemption calls" => CallsProofs!DeskInv
      => InvitationWasTypedForIt
  BY SameDesk, SameCalls, DeskProofs!ConsistencySuffices, CallsProofs!ConsistencySuffices, PageAssumptions
     DEF InvitationWasTypedForIt
<1> QED  BY <1>1, RedemptionsAlways, RedemptionCallsAlways, PTL

(* An application that was invited or rejected is never decided again, by an  *)
(* impatient second click, a late call or a stale card                        *)
(* (CreateSubscriptionAndInviteRedemption and RejectRedemptionApplication     *)
(* take an application only while it is pending): a rejection stands, and an  *)
(* invitation until its registration is deleted as a mistake, which leaves    *)
(* its code in use (DeleteMistakenTeamSubscription), or archived, which       *)
(* deletes the code with it and nothing else.                                 *)
THEOREM DecisionsStand == Spec => DecisionIsFinal
<1>1. /\ [page = "redemptions" => DeskProofs!DecisionStep]_vars
      /\ [page = "redemption calls" => CallsProofs!DecisionStep]_vars
      => [/\ page = "redemptions" => Redemptions!DecisionStep
          /\ page = "redemption calls" => RedemptionCalls!DecisionStep]_vars
  BY SameDesk, SameCalls
<1> QED  BY <1>1, RedemptionsAlways, RedemptionCallsAlways, PTL DEF DecisionIsFinal

LEMMA RedemptionTypes ==
  /\ (page = "redemptions" => DeskProofs!DeskInv) => (page = "redemptions" => Redemptions!TypeOK)
  /\ (page = "redemption calls" => CallsProofs!DeskInv)
       => (page = "redemption calls" => RedemptionCalls!TypeOK)
BY SameDesk, SameCalls, DeskProofs!ConsistencySuffices, CallsProofs!ConsistencySuffices, PageAssumptions

-----------------------------------------------------------------------------
(* THE TYPES OF ALL PAGES *)

(* Whatever page is shown, its state, its forms and its calls keep the shape  *)
(* the page gave them: counts stay within their bounds, a ledger within the   *)
(* days there are, a deferral within the periods, a call with what it needs.  *)
THEOREM ConsoleTypeCorrect == Spec => []TypeOK
<1>1. (page = "session" => SessionInv /\ WorldsInv) => (page = "session" => Session!TypeOK)
  BY SessionTypes
<1>2. (page = "settings" => SettingsInv) => (page = "settings" => Settings!TypeOK)
  BY SettingsRowTypes
<1>3. (page = "cards" => CardsInv) => (page = "cards" => Cards!TypeOK)
  BY CardTypesKnown
<1>4. (page = "care" => CareInv) => (page = "care" => Care!TypeOK)
  BY CareTypes
<1>5. (page = "accounts" => OwnersInv) => (page = "accounts" => Owners!TypeOK)
  BY OwnerTypes
<1>6. (page = "goals" => GoalsInv) => (page = "goals" => Goals!TypeOK)
  BY GoalsTypes
<1>7. (page = "after-sales" => AfterSalesInv) => (page = "after-sales" => AfterSales!TypeOK)
  BY AfterSalesTypes
<1>8. /\ page = "repricing" => PricesInv(Subscriptions)
      /\ page = "repricing calls" => PricesInv(Accounts)
      => /\ page = "repricing" => Pricing(Subscriptions, FewPrices, FewCalls)!TypeOK
         /\ page = "repricing calls" => Pricing(Accounts, TypedPrices, MaxCalls)!TypeOK
  BY PricesTypes
<1>9. /\ page = "session" => Session!TypeOK
      /\ page = "settings" => Settings!TypeOK
      /\ page = "cards" => Cards!TypeOK
      /\ page = "care" => Care!TypeOK
      /\ page = "accounts" => Owners!TypeOK
      /\ page = "goals" => Goals!TypeOK
      /\ page = "after-sales" => AfterSales!TypeOK
      /\ page = "redemptions" => Redemptions!TypeOK
      /\ page = "redemption calls" => RedemptionCalls!TypeOK
      /\ page = "repricing" => Pricing(Subscriptions, FewPrices, FewCalls)!TypeOK
      /\ page = "repricing calls" => Pricing(Accounts, TypedPrices, MaxCalls)!TypeOK
      => TypeOK
  BY DEF TypeOK
<1> QED  BY <1>1, <1>2, <1>3, <1>4, <1>5, <1>6, <1>7, <1>8, <1>9, RedemptionTypes,
            WorldsAlways, SettingsAlways, CardsAlways, CareAlways, OwnersAlways, GoalsAlways,
            AfterSalesAlways, RedemptionsAlways, RedemptionCallsAlways, PricesAlways, PTL

=============================================================================
