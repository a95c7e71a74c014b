---------------------------- MODULE ClientSession ----------------------------
(***************************************************************************)
(* What the tabs of the console share and what each keeps: the login, the  *)
(* CSRF token (client.ts, csrf.ts, auth-context.tsx, LoginPage.tsx), and   *)
(* whether they work on the live data or rehearse in the sandbox           *)
(* (sandbox-mode.ts, SandboxToolCard of SettingsPage.tsx, app-shell.tsx).  *)
(*                                                                         *)
(* A write is sent in steps: its path is chosen, a token is waited for,    *)
(* the server looks at session and token, and a refused token is renewed   *)
(* once.  Logins, switches, resets and reloads fall in between.            *)
(***************************************************************************)
EXTENDS Integers, FiniteSets

CONSTANTS Tabs,
          MaxRequests,    \* bound: writes ever sent
          MaxSessions,    \* bound: logins
          MaxResets       \* bound: sandboxes ever made

VARIABLES
    browser,    \* the cookie and the storage of the browser, and the server
    tab,        \* per tab: mode, login, token, what it has read
    requests    \* the writes that are under way

vars == <<browser, tab, requests>>

\* The worlds: the live data, and one for each sandbox that was made.
Live == 0
Worlds == 0 .. MaxResets
Unread == -1

NoToken == [session |-> 0, epoch |-> 0]

\* The server reads the cookie; a session is good until the password is changed.
Authenticated(session) == session > browser.revoked

Valid(token, session) == token.session = session /\ token.epoch = browser.epoch

-----------------------------------------------------------------------------
(* The tab.                                                                *)

\* A tab as it is after its page is loaded: the session is asked for, the rest is empty.
Fresh == [mode |-> browser.storage, login |-> Authenticated(browser.cookie), token |-> NoToken,
          asking |-> FALSE, data |-> Unread, leaving |-> FALSE]

Of(t) == {q \in requests : q.tab = t /\ q.owned}

\* What the server has received is carried out all the same.
Dropped(t) == (requests \ Of(t)) \cup {[q EXCEPT !.owned = FALSE] : q \in {c \in Of(t) : c.step = "sent"}}

Reload(t) ==
    /\ tab' = [tab EXCEPT ![t] = Fresh]
    /\ requests' = Dropped(t)
    /\ UNCHANGED browser

Leave(t) == tab[t].leaving /\ Reload(t)
ReloadByHand(t) == ~tab[t].leaving /\ Reload(t)

ReadData(t) ==
    /\ tab[t].login /\ ~tab[t].leaving
    /\ Authenticated(browser.cookie)
    /\ tab' = [tab EXCEPT ![t].data = IF tab[t].mode = Live THEN Live ELSE browser.made]
    /\ UNCHANGED <<browser, requests>>

Login(t) ==
    /\ ~tab[t].login /\ ~tab[t].leaving
    /\ browser.last < MaxSessions
    /\ browser' = [browser EXCEPT !.last = @ + 1, !.cookie = browser.last + 1]
    /\ tab' = [tab EXCEPT ![t].login = TRUE]
    /\ UNCHANGED requests

-----------------------------------------------------------------------------
(* A write.                                                                *)

\* The destination is chosen before anything is waited for.
Path(t) == IF tab[t].mode = Live THEN "live" ELSE "sandbox"

Submit(t, kind) ==
    /\ tab[t].login
    /\ kind = "write" => tab[t].data # Unread
    /\ browser.sent < MaxRequests
    /\ browser' = [browser EXCEPT !.sent = @ + 1]
    /\ requests' = requests \cup
        {[id |-> browser.sent + 1, tab |-> t, owned |-> TRUE, kind |-> kind, path |-> Path(t),
          from |-> IF kind = "write" THEN tab[t].data ELSE Unread,
          late |-> kind = "write" /\ tab[t].leaving, step |-> "token", forced |-> FALSE,
          token |-> NoToken, session |-> 0, runs |-> 0, in |-> "nowhere"]}
    /\ UNCHANGED tab

To(q, r) == requests' = (requests \ {q}) \cup {r}
DepartsBySwitch(q, token) ==      \* mutant
    [q EXCEPT !.step = "sent", !.token = token, !.session = browser.cookie, !.path = Path(q.tab)]

Departs(q, token) == [q EXCEPT !.step = "sent", !.token = token, !.session = browser.cookie]

\* The token at hand, unless a new one is wanted or on its way.
UseToken(q) ==
    /\ q.owned /\ q.step = "token"
    /\ ~q.forced /\ tab[q.tab].token # NoToken
    /\ To(q, Departs(q, tab[q.tab].token))
    /\ UNCHANGED <<browser, tab>>

\* A request that is on its way is waited for by whoever wants a token.
FetchToken(q) ==
    /\ q.owned /\ q.step = "token"
    /\ q.forced \/ tab[q.tab].token = NoToken
    /\ To(q, [q EXCEPT !.step = "waiting"])
    /\ tab' = [tab EXCEPT ![q.tab].asking = TRUE]
    /\ UNCHANGED browser

Waiting(t) == {q \in Of(t) : q.step = "waiting"}

TokenArrives(t) ==
    LET token == [session |-> browser.cookie, epoch |-> browser.epoch]
    IN  /\ tab[t].asking
        /\ Authenticated(browser.cookie)
        /\ tab' = [tab EXCEPT ![t].token = token, ![t].asking = FALSE]
        /\ requests' = (requests \ Waiting(t)) \cup {Departs(q, token) : q \in Waiting(t)}
        /\ UNCHANGED browser

WaitersForgotten(t) ==      \* mutant
    /\ tab[t].asking
    /\ tab' = [tab EXCEPT ![t].asking = FALSE]
    /\ UNCHANGED <<browser, requests>>

\* Without a session there is no token; any other failure only fails the writes.
TokenRefused(t) ==
    /\ tab[t].asking
    /\ \/ ~Authenticated(browser.cookie)
          /\ tab' = [tab EXCEPT ![t].token = NoToken, ![t].asking = FALSE, ![t].login = FALSE]
       \/ tab' = [tab EXCEPT ![t].asking = FALSE]
    /\ requests' = requests \ Waiting(t)
    /\ UNCHANGED browser

Answered(q, step) == [q EXCEPT !.step = step, !.token = NoToken, !.session = 0]

\* The session is looked at first, then the token, and then the write is carried out.
Serve(q) ==
    /\ q.step = "sent"
    /\ IF ~Authenticated(q.session)
       THEN To(q, Answered(q, "401")) /\ UNCHANGED browser
       ELSE IF ~Valid(q.token, q.session)
       THEN To(q, Answered(q, "403")) /\ UNCHANGED browser
       ELSE /\ To(q, [Answered(q, "done") EXCEPT !.runs = @ + 1, !.in = q.path])
            /\ browser' = IF q.kind = "logout" THEN [browser EXCEPT !.cookie = 0]
                          ELSE IF q.kind = "reset" THEN [browser EXCEPT !.made = @ + 1]
                          ELSE browser
    /\ UNCHANGED tab

Answer(q, step) == q.owned /\ q.step = step /\ UNCHANGED browser

\* A token the server does not know is renewed, once.
Retry(q) ==
    /\ Answer(q, "403") /\ ~q.forced
    /\ tab' = [tab EXCEPT ![q.tab].token = NoToken]
    /\ To(q, [q EXCEPT !.step = "token", !.forced = TRUE])

\* The login is over, whether or not the server could be told.
LoggedOut(t) == [tab EXCEPT ![t].token = NoToken, ![t].data = Unread, ![t].login = FALSE]

GiveUp(q) ==
    /\ Answer(q, "403") /\ q.forced
    /\ requests' = requests \ {q}
    /\ tab' = IF q.kind = "logout" THEN LoggedOut(q.tab) ELSE tab

Unauthorized(q) ==
    /\ Answer(q, "401")
    /\ requests' = requests \ {q}
    /\ tab' = IF q.kind = "logout" THEN LoggedOut(q.tab)
              ELSE [tab EXCEPT ![q.tab].token = NoToken, ![q.tab].login = FALSE]

Lost(q) ==
    /\ q.owned /\ q.step \in {"sent", "done"}
    /\ requests' = requests \ {q}
    /\ tab' = IF q.kind = "logout" THEN LoggedOut(q.tab) ELSE tab
    /\ UNCHANGED browser

\* What is read is read again, except after a reset, which moves a tab that
\* rehearses, and the storage, on to the new sandbox.
Succeeded(q) ==
    /\ q.owned /\ q.step = "done"
    /\ requests' = requests \ {q}
    /\ tab' = CASE q.kind = "logout" -> LoggedOut(q.tab)
                [] q.kind = "reset" /\ tab[q.tab].mode # Live ->
                        [tab EXCEPT ![q.tab].mode = browser.made]
                [] q.kind = "write" -> [tab EXCEPT ![q.tab].data = Unread]
                [] OTHER -> tab
    /\ browser' = IF q.kind = "reset" /\ tab[q.tab].mode # Live
                  THEN [browser EXCEPT !.storage = browser.made] ELSE browser

Forgotten(q) ==
    /\ ~q.owned /\ q.step # "sent"
    /\ requests' = requests \ {q}
    /\ UNCHANGED <<browser, tab>>

-----------------------------------------------------------------------------
(* Sandbox and live data.                                                  *)

\* The tab switches at once and then loads the console anew.
Switch(t, world) ==
    /\ tab[t].login /\ ~tab[t].leaving
    /\ tab' = [tab EXCEPT ![t].mode = world, ![t].leaving = TRUE]
    /\ browser' = [browser EXCEPT !.storage = world]
    /\ UNCHANGED requests

EnterSandbox(t) == tab[t].mode = Live /\ browser.made # Live /\ Switch(t, browser.made)
ExitSandbox(t) == tab[t].mode # Live /\ Switch(t, Live)

Resets == {q \in requests : q.kind = "reset"}

\* One reset at a time from a tab: its dialog waits for the answer.
ResetSandbox(t) ==
    /\ browser.made + Cardinality(Resets) < MaxResets
    /\ Resets \cap Of(t) = {}
    /\ ~tab[t].leaving
    /\ Submit(t, "reset")

\* Another tab has switched: this one starts over.
StorageEvent(t) ==
    /\ tab[t].mode # browser.storage
    /\ ~tab[t].leaving
    /\ Reload(t)

Logout(t) == ~tab[t].leaving /\ Submit(t, "logout")
Write(t) == Submit(t, "write")

\* Tokens are good for a day.
TokensExpire ==
    /\ browser.epoch = 0
    /\ browser' = [browser EXCEPT !.epoch = 1]
    /\ UNCHANGED <<tab, requests>>

NextLoginRefused ==         \* mutant
    /\ browser.revoked < browser.last
    /\ browser' = [browser EXCEPT !.revoked = browser.last + 1]
    /\ UNCHANGED <<tab, requests>>

\* The server is started with another password.
PasswordChanged ==
    /\ browser.revoked < browser.last
    /\ browser' = [browser EXCEPT !.revoked = browser.last]
    /\ UNCHANGED <<tab, requests>>

-----------------------------------------------------------------------------
Init ==
    /\ browser = [cookie |-> 1, last |-> 1, revoked |-> 0, epoch |-> 0, storage |-> Live, made |-> 0, sent |-> 0]
    /\ tab = [t \in Tabs |-> Fresh]
    /\ requests = {}

Tab(t) ==
    \/ Leave(t) \/ ReloadByHand(t) \/ ReadData(t) \/ Login(t) \/ Write(t) \/ Logout(t)
    \/ TokenArrives(t) \/ TokenRefused(t)
    \/ EnterSandbox(t) \/ ExitSandbox(t) \/ ResetSandbox(t) \/ StorageEvent(t)

Request(q) ==
    \/ UseToken(q) \/ FetchToken(q) \/ Serve(q) \/ Retry(q) \/ GiveUp(q) \/ Unauthorized(q)
    \/ Lost(q) \/ Succeeded(q) \/ Forgotten(q)

Next == (\E t \in Tabs : Tab(t)) \/ (\E q \in requests : Request(q)) \/ TokensExpire \/ PasswordChanged

Spec == Init /\ [][Next]_vars

-----------------------------------------------------------------------------
Tokens == [session : 0 .. MaxSessions, epoch : 0 .. 1]

TypeOK ==
    /\ browser \in [cookie : 0 .. MaxSessions, last : 0 .. MaxSessions, revoked : 0 .. MaxSessions,
                    epoch : 0 .. 1, storage : Worlds, made : Worlds, sent : 0 .. MaxRequests]
    /\ tab \in [Tabs -> [mode : Worlds, login : BOOLEAN, token : Tokens, asking : BOOLEAN,
                         data : Worlds \cup {Unread}, leaving : BOOLEAN]]
    /\ \A q \in requests :
        q.tab \in Tabs /\ q.token \in Tokens /\ q.step \in {"token", "waiting", "sent", "401", "403", "done"}

(* A write is carried out at most once, however often its token is renewed, *)
(* and on the side its data was read from: what was filled in on live data  *)
(* never reaches the sandbox, nor the other way, also if the tab or another *)
(* one switches while the write waits.  Only what is submitted after the    *)
(* tab has switched and before its page is gone is not covered.             *)
Side(world) == IF world = Live THEN "live" ELSE "sandbox"
RunsOnceOnItsOwnSide ==
    \A q \in requests :
        /\ q.runs <= 1
        /\ (q.kind = "write" /\ q.in # "nowhere" /\ ~q.late) => q.in = Side(q.from)

(* A tab never shows what it read before it moved on: data of the other     *)
(* side, or of a sandbox that was replaced by the one it works in.          *)
NoOldDataInANewWorld ==
    \A t \in Tabs : (tab[t].data # Unread /\ ~tab[t].leaving) =>
        Side(tab[t].data) = Side(tab[t].mode) /\ tab[t].data >= tab[t].mode

(* Whoever waits for a token waits for a request that was made.             *)
WaitersAreAnswered == \A t \in Tabs : Waiting(t) # {} => tab[t].asking

=============================================================================
