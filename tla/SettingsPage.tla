---------------------------- MODULE SettingsPage ----------------------------
(***************************************************************************)
(* The settings page (SettingsPage.tsx, BusinessEmailTemplateEditor.tsx,   *)
(* business-email-template.ts) and the handler that stores what it sends   *)
(* (putSettings).  The form copies the settings when it is mounted and     *)
(* sends all of them on every save; the server keeps part of them in a     *)
(* file and part in the database.                                          *)
(*                                                                         *)
(* Of the texts only what the page can tell apart is kept: the opening,    *)
(* the ticked rows and the closing of a reminder, and whether the benefit  *)
(* mail is written in the form the visual editor can take apart.           *)
(***************************************************************************)
EXTENDS Integers, FiniteSets

CONSTANTS Fields,         \* rows of a reminder that may be ticked
          DueField,       \* the row with the due date
          Scenarios,      \* cases the benefit mail tells apart
          Opaque,         \* a benefit mail only the raw editor can take
          MaxChanges      \* bound: edits, saves (here and elsewhere) and previews

VARIABLES
    server,     \* what is stored: file, rows, and the configuration in use; "split"
                \* records that the last save left a file that is not that of the rows
    shown,      \* the settings as the page last read them
    desk,       \* the form and its dialogs
    calls,      \* the save and the previews that are not answered yet
    changes     \* counts edits, saves and previews, and numbers them

vars == <<server, shown, desk, calls, changes>>

-----------------------------------------------------------------------------
(* Templates.                                                              *)

\* The opening and the closing are the standard ones, own words, or (closing) empty.
Standard == [head |-> "standard", rows |-> Fields, closing |-> "standard"]

\* A saved reminder is taken apart by the tokens found in it: the opening is
\* not looked for, the due line counts as the row of the due date, and an
\* empty closing is taken for the standard one.
DraftFromTemplate(t) ==
    [head    |-> "standard",
     rows    |-> t.rows \cup {DueField},
     closing |-> IF t.closing = "" THEN "standard" ELSE t.closing]

\* A benefit mail has a text per case, or is written with logic of its own.
StandardMail == [s \in Scenarios |-> "standard"]
Mails == [Scenarios -> {"standard", "own"}] \cup {Opaque}

-----------------------------------------------------------------------------
(* The form.                                                               *)

NoRest == [plain |-> 0, notice |-> 0, qr |-> 0]
Unread == [rest |-> NoRest]

Closed == [kind |-> "none", req |-> 0, status |-> "loading", text |-> Opaque]

\* What a mounted form copies: secrets are not shown, so their fields are empty.
Mounted(s) ==
    [draft |-> DraftFromTemplate(s.rows.draft), mail |-> s.rows.mail, secret |-> 0,
     base |-> s.rows.by, touched |-> FALSE, told |-> {}, replacing |-> FALSE,
     raw |-> FALSE, preview |-> Closed,
     rest |-> s.rows.rest, upload |-> Unread]

View == [rows |-> server.rows]

Saving == \E q \in calls : q.kind = "save" /\ q.owned
Modal == desk.preview.kind # "none" \/ desk.replacing

Edited(d) ==
    /\ ~Modal
    /\ changes < MaxChanges
    /\ desk' = [d EXCEPT !.touched = TRUE]
    /\ changes' = changes + 1
    /\ UNCHANGED <<server, shown, calls>>

StaysOnPage == UNCHANGED <<server, shown, calls, changes>>

EditReminder ==
    \/ Edited([desk EXCEPT !.draft.head = "own"])
    \/ \E f \in Fields :
        Edited([desk EXCEPT !.draft.rows = IF f \in @ THEN @ \ {f} ELSE @ \cup {f}])
    \/ \E closing \in {"own", ""} : Edited([desk EXCEPT !.draft.closing = closing])

\* The visual editor rewrites one case and keeps the others.
EditMail ==
    \E s \in Scenarios :
        /\ ~desk.raw
        /\ desk.mail # Opaque
        /\ Edited([desk EXCEPT !.mail[s] = "own"])

EditRawMail == \E m \in Mails : desk.raw /\ Edited([desk EXCEPT !.mail = m])

OpenRaw ==
    /\ ~desk.raw
    /\ Edited([desk EXCEPT !.raw = TRUE])

\* Back to the visual editor, at once if the text can be taken apart.
LeaveRaw ==
    /\ ~Modal
    /\ desk.raw \/ desk.mail = Opaque
    /\ desk' = IF desk.mail # Opaque THEN [desk EXCEPT !.raw = FALSE] ELSE [desk EXCEPT !.replacing = TRUE]
    /\ StaysOnPage

AnswerReplace ==
    /\ desk.replacing
    /\ desk' \in {[desk EXCEPT !.mail = StandardMail, !.raw = FALSE, !.replacing = FALSE, !.touched = TRUE],
                  [desk EXCEPT !.replacing = FALSE]}
    /\ StaysOnPage

\* A secret is typed; each one is another.
TypeSecret == Edited([desk EXCEPT !.secret = changes + 1])

\* Of what is stored as it is typed, only which edit it stems from is kept.
EditChannels == Edited([desk EXCEPT !.rest.plain = changes + 1])
EditOperations == Edited([desk EXCEPT !.rest.plain = changes + 1])
EditRedeemPage == Edited([desk EXCEPT !.rest.notice = changes + 1])

\* A picture is read while the form stays open, and put in beside the notice
\* as it was when the picture was chosen.
ChooseQr ==
    /\ desk.upload = Unread
    /\ Edited([desk EXCEPT !.upload = [rest |-> [desk.rest EXCEPT !.qr = changes + 1]]])
QrRead ==
    /\ desk.upload # Unread
    /\ desk' = [desk EXCEPT !.rest.qr = desk.upload.rest.qr, !.rest.notice = desk.upload.rest.notice,
                            !.upload = Unread, !.touched = TRUE]
    /\ StaysOnPage

-----------------------------------------------------------------------------
(* Saving and previewing.                                                  *)

Sent == [draft |-> desk.draft, mail |-> desk.mail, rest |-> desk.rest]

Call(kind) ==
    [kind |-> kind, by |-> 0, req |-> 0, of |-> "none", text |-> Opaque, content |-> Sent, secret |-> 0,
     base |-> desk.base, touched |-> desk.touched, owned |-> TRUE, state |-> "sent"]

HandleSave ==
    /\ ~Modal /\ ~Saving
    /\ changes < MaxChanges
    /\ calls' = calls \cup {[Call("save") EXCEPT !.by = changes + 1, !.secret = desk.secret]}
    /\ changes' = changes + 1
    /\ UNCHANGED <<server, shown, desk>>

TextOf(kind) == IF kind = "reminder" THEN desk.draft ELSE desk.mail

\* Every preview that is asked for has a number, and only the answer to the last one is shown.
OpenPreview ==
    \E kind \in {"reminder", "benefit"} :
        /\ ~Modal
        /\ changes < MaxChanges
        /\ changes' = changes + 1
        /\ desk' = [desk EXCEPT !.preview = [kind |-> kind, req |-> changes + 1,
                                             status |-> "loading", text |-> Opaque]]
        /\ calls' = calls \cup {[Call("preview") EXCEPT !.req = changes + 1, !.of = kind,
                                                        !.text = TextOf(kind)]}
        /\ UNCHANGED <<server, shown>>

\* The number stays the one of the last preview.
ClosePreview ==
    /\ desk.preview.kind # "none"
    /\ desk' = [desk EXCEPT !.preview.kind = "none"]
    /\ StaysOnPage

AnyPreviewAnswered(q) ==    \* mutant
    /\ q.kind = "preview"
    /\ calls' = calls \ {q}
    /\ desk' = [desk EXCEPT !.preview.status = "ok", !.preview.text = q.text]
    /\ UNCHANGED <<server, shown, changes>>

PreviewAnswered(q) ==
    /\ q.kind = "preview"
    /\ calls' = calls \ {q}
    /\ desk' \in IF q.owned /\ q.req = desk.preview.req
                 THEN {[desk EXCEPT !.preview.status = "ok", !.preview.text = q.text],
                       [desk EXCEPT !.preview.status = "error"]}
                 ELSE {desk}
    /\ UNCHANGED <<server, shown, changes>>

SecretStays(q) ==           \* mutant
    /\ q.kind = "save" /\ q.state \in {"done", "refused"}
    /\ calls' = calls \ {q}
    /\ desk' = IF q.owned /\ q.state = "done"
               THEN [desk EXCEPT !.base = q.by, !.touched = (desk.touched /\ Sent # q.content),
                                 !.told = @ \cup {q.secret}]
               ELSE desk
    /\ UNCHANGED <<server, shown, changes>>

\* Told of success, the form empties its secrets, also what was typed since.
SaveAnswered(q) ==
    /\ q.kind = "save" /\ q.state \in {"done", "refused"}
    /\ calls' = calls \ {q}
    /\ desk' = IF q.owned /\ q.state = "done"
               THEN [desk EXCEPT !.secret = 0, !.base = q.by, !.touched = (desk.touched /\ Sent # q.content),
                                 !.told = @ \cup {q.secret}]
               ELSE desk
    /\ UNCHANGED <<server, shown, changes>>

Refetch ==
    /\ shown' = View
    /\ UNCHANGED <<server, desk, calls, changes>>

\* Another page, and back: the form copies what the page read last, and a
\* preview that was on its way has nobody to show it.
Reopen ==
    /\ desk' = [Mounted(shown) EXCEPT !.told = desk.told]
    /\ calls' = {[q EXCEPT !.owned = FALSE] : q \in {c \in calls : c.kind = "save"}}
    /\ UNCHANGED <<server, shown, changes>>

-----------------------------------------------------------------------------
(* The server: one save at a time.                                         *)

Busy == \E q \in calls : q.state = "filed"

Settled(q, state) == calls' = (calls \ {q}) \cup {[q EXCEPT !.state = state]}

\* The file is written first; an empty secret keeps the one that is there.
WriteFile(q) ==
    /\ q.kind = "save" /\ q.state = "sent" /\ ~Busy
    /\ server' = [server EXCEPT !.file = [by |-> q.by, secret |-> IF q.secret = 0 THEN @.secret ELSE q.secret],
                                !.backup = server.file]
    /\ Settled(q, "filed")
    /\ UNCHANGED <<shown, desk, changes>>

\* Then all rows in one transaction, and the new configuration is used.
WriteRows(q) ==
    /\ q.state = "filed"
    /\ server' = [server EXCEPT !.rows = [by |-> q.by, draft |-> q.content.draft, mail |-> q.content.mail,
                                          rest |-> q.content.rest],
                                !.used = server.file, !.split = FALSE]
    /\ Settled(q, "done")
    /\ UNCHANGED <<shown, desk, changes>>

KeepFile(q) ==              \* mutant
    /\ q.state = "filed"
    /\ Settled(q, "refused")
    /\ UNCHANGED <<server, shown, desk, changes>>

\* If that fails the file is put back.
RollBack(q) ==
    /\ q.state = "filed"
    /\ server' = [server EXCEPT !.file = server.backup]
    /\ Settled(q, "refused")
    /\ UNCHANGED <<shown, desk, changes>>

\* Putting it back may fail as well: the new file stays beside the old rows, and the
\* old configuration in use.
RollBackFails(q) ==
    /\ q.state = "filed"
    /\ server' = [server EXCEPT !.split = TRUE]
    /\ Settled(q, "refused")
    /\ UNCHANGED <<shown, desk, changes>>

\* The server stops between the two, or at another time, and starts with the file it finds.
StopsBeforeRows(q) ==
    /\ q.state = "filed"
    /\ server' = [server EXCEPT !.used = server.file, !.split = TRUE]
    /\ Settled(q, "refused")
    /\ UNCHANGED <<shown, desk, changes>>

Restart ==
    /\ ~Busy
    /\ server' = [server EXCEPT !.used = server.file]
    /\ UNCHANGED <<shown, desk, calls, changes>>

\* Refused by the checks, or lost on its way, or its answer lost.
SaveFails(q) ==
    /\ q.kind = "save" /\ q.state \in {"sent", "done"}
    /\ Settled(q, "refused")
    /\ UNCHANGED <<server, shown, desk, changes>>

\* A save made in another tab, with a secret of its own or none.
SavedElsewhere ==
    /\ ~Busy
    /\ changes < MaxChanges
    /\ changes' = changes + 1
    /\ \E own \in BOOLEAN :
        LET file == [by |-> changes + 1, secret |-> IF own THEN changes + 1 ELSE server.file.secret]
        IN  server' = [server EXCEPT !.file = file, !.used = file, !.split = FALSE,
                                     !.rows.by = changes + 1,
                                     !.rows.draft = [Standard EXCEPT !.head = "own", !.closing = ""]]
    /\ UNCHANGED <<shown, desk, calls>>

-----------------------------------------------------------------------------
Init ==
    /\ server = LET file == [by |-> 0, secret |-> 0]
                IN  [file |-> file, used |-> file, backup |-> file, split |-> FALSE,
                     rows |-> [by |-> 0, draft |-> Standard, mail |-> Opaque,
                             rest |-> NoRest]]
    /\ shown = View
    /\ desk = Mounted(View)
    /\ calls = {}
    /\ changes = 0

Operator ==
    \/ EditReminder \/ EditMail \/ EditRawMail \/ OpenRaw \/ LeaveRaw \/ AnswerReplace
    \/ TypeSecret
    \/ EditChannels \/ EditOperations \/ EditRedeemPage \/ ChooseQr \/ QrRead
    \/ HandleSave \/ OpenPreview \/ ClosePreview \/ Refetch \/ Reopen

Server ==
    \/ \E q \in calls :
        \/ WriteFile(q) \/ WriteRows(q) \/ RollBack(q) \/ RollBackFails(q)
        \/ StopsBeforeRows(q) \/ SaveFails(q)
        \/ SaveAnswered(q) \/ PreviewAnswered(q)
    \/ SavedElsewhere \/ Restart

Next == Operator \/ Server

Spec == Init /\ [][Next]_vars

-----------------------------------------------------------------------------
Drafts == [head : {"standard", "own"}, rows : SUBSET Fields, closing : {"standard", "own", ""}]

TypeOK ==
    /\ server.file \in [by : 0 .. MaxChanges, secret : Nat] /\ server.split \in BOOLEAN
    /\ server.rows \in [by : 0 .. MaxChanges, draft : Drafts, mail : Mails,
                        rest : [{"plain", "notice", "qr"} -> 0 .. MaxChanges]]
    /\ desk.draft \in Drafts /\ desk.mail \in Mails
    /\ desk.preview.kind \in {"none", "reminder", "benefit"}
    /\ \A q \in calls : q.state \in {"sent", "filed", "done", "refused"}

(* A preview that is on screen is one of the text that is in the form, with *)
(* the changes that are not saved, whichever previews were asked for before *)
(* and in whatever order they are answered.                                 *)
PreviewIsOfThisText ==
    (desk.preview.kind # "none" /\ desk.preview.status = "ok") =>
        desk.preview.text = TextOf(desk.preview.kind)

(* When no save is being written, file, rows and the configuration in use   *)
(* come from one and the same save, also after saves that failed halfway    *)
(* and whose file was put back.  They differ only when that failed too, or  *)
(* the server stopped in between, and only until the next save that goes    *)
(* through, whatever is in the file and in use by then.                     *)
OneSaveEverywhere ==
    (~Busy /\ ~server.split) => server.file.by = server.rows.by /\ server.used = server.file

(* A save that was made without touching the form since it was loaded from  *)
(* what the server still has keeps every row and every own closing of the   *)
(* reminder and the benefit mail, and no save overwrites a secret with one  *)
(* that its form had been told was saved.                                   *)
Kept(old, new) ==
    /\ old.draft.rows \subseteq new.draft.rows
    /\ old.draft.closing # "" => new.draft.closing = old.draft.closing
    /\ new.mail = old.mail /\ new.rest = old.rest

UntouchedPartsAreKept ==
    \A q \in calls :
        (/\ q.state = "filed" /\ server'.rows.by = q.by
         /\ q.base = server.rows.by /\ ~q.touched) => Kept(server.rows, server'.rows)

SecretIsTakenOnce ==
    \A q \in calls :
        (server.file.by # q.by /\ server'.file.by = q.by /\ q.secret # 0) => q.secret \notin desk.told

SaveStep == UntouchedPartsAreKept /\ SecretIsTakenOnce
SavesKeepTheRest == [][SaveStep]_vars

=============================================================================
