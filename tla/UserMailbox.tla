---------------------------- MODULE UserMailbox ----------------------------
(***************************************************************************)
(* The mail screen of the user portal (user-web/src/App.tsx): the open     *)
(* folder, its list, the selected mail and its detail, the checked mails,  *)
(* the unread badge - and the requests that are still on their way when    *)
(* the user has already gone on.                                           *)
(*                                                                         *)
(* Every handler is an async function: it runs to its first await, and     *)
(* each answer runs it to the next one.  What a handler read before an     *)
(* await (the folder, the selected mail, the page) is the render it was    *)
(* called from, so a request carries those values.  A request counter      *)
(* (mailWorkspaceRequestRef, mailDetailRequestRef, unreadRequestRef) is    *)
(* compared after the await: "requestId = counter" is the field current,   *)
(* which every later increment clears.  Likewise a handler keeps the token  *)
(* of its render, and every sign-in brings another one: "the token is that *)
(* of the screen" is the field mine, which a sign-out clears.              *)
(***************************************************************************)
EXTENDS Integers, FiniteSets, FiniteSetsExt

CONSTANTS Mails,        \* mails, numbered in list order (newest first)
          OwnerOf,      \* whose mail it is
          HomeOf,       \* the mailbox each mail starts in
          Users,
          Folders,      \* the folders the user may open
          PageSize,
          MaxActs,      \* bound: how often the user acts
          MaxPending    \* bound: requests on their way when the user acts

NoMail == 0
Nobody == "nobody"

ASSUME MailboxAssumption ==
  /\ Mails \subseteq Nat \ {0} /\ IsFiniteSet(Mails)
  /\ PageSize \in Nat \ {0} /\ MaxActs \in Nat /\ MaxPending \in Nat
  /\ OwnerOf \in [Mails -> Users] /\ Nobody \notin Users
  /\ HomeOf \in [Mails -> {"inbox", "sent", "spam", "trash"}]
  /\ Folders \subseteq {"inbox", "unread", "sent", "spam", "trash", "localArchive"}
  /\ "inbox" \in Folders

\* A deleted mail remembers that it was spam.
Boxes == {"inbox", "sent", "spam", "trash", "spamTrash", "gone"}
Slots == {"inbox", "sent", "context"}

VARIABLES
  home, unreadMails,       \* the server: where each mail is, which are unread
  user,                    \* token and me: who is signed in
  acts,                    \* how often the user has acted (bound)
  openFolder, offset,      \* activeMailFolder, mailListQuery.offset
  lists,                   \* inboxMails, sentMails, mailContextMails
  selected, detail,        \* selectedMailId, selectedMailDetail
  detailBy,                \* history: which handler read the detail
  loadedFor,               \* history: what the lists were last loaded for
  detailLoading, detailFailed,
  listLoading,             \* mailLoading
  checked,                 \* selectedMailIds
  bulkBusy,                \* mailBulkBusy
  badge,                   \* globalUnread, -1 when it is unknown
  unheard,                 \* history: no count follows a change at the server, since
                           \* its answer was lost or it was asked with an old token
  pending                  \* the requests on their way

mailServer == <<home, unreadMails>>
mailboxVars == <<home, unreadMails, user, acts, openFolder, offset, lists, selected,
                 detail, detailBy, loadedFor, detailLoading, detailFailed, listLoading,
                 checked, bulkBusy, badge, unheard, pending>>

(***************************************************************************)
(* One request.  stage: the server has not handled it, has handled it.     *)
(* awaited: a bulk or star action waits for it and then clears its flag.   *)
(* mine: it carries the token of the screen.                               *)
(***************************************************************************)
Ops == {"load", "count", "mark", "get", "bulk", "star", "checkMark", "checkGet"}
MailRequest ==
  [op : Ops, by : Users, folder : Folders, from : Nat, mails : SUBSET Mails,
   sel : Mails \cup {NoMail},
   act : {"none", "read", "delete", "spam", "not_spam", "restore", "purge"},
   stage : {"sent", "handled"}, pages : [Slots -> SUBSET Mails], total : Nat,
   current : BOOLEAN, awaited : BOOLEAN, mine : BOOLEAN]

NoPages == [s \in Slots |-> {}]
Blank == [op |-> "count", by |-> CHOOSE u \in Users : TRUE, folder |-> openFolder, from |-> 0, mails |-> {}, sel |-> NoMail,
          act |-> "none", stage |-> "sent", pages |-> NoPages, total |-> 0,
          current |-> TRUE, awaited |-> FALSE, mine |-> TRUE]

\* An increment of the counter of a kind of request: those before it are old.
Supersede(reqs, ops) ==
  {[r EXCEPT !.current = @ /\ r.op \notin ops] : r \in reqs}
\* The token of the screen is another one, or none.
Disown(reqs) == {[r EXCEPT !.mine = FALSE] : r \in reqs}
ListOps == {"load"}
DetailOps == {"mark", "get"}

(***************************************************************************)
(* What the server answers.                                                *)
(***************************************************************************)
MailboxOf(f) == IF f \in {"sent", "spam", "trash"} THEN f ELSE "inbox"
SlotOf(f) == IF f \in {"spam", "trash"} THEN "context"
             ELSE IF f = "sent" THEN "sent" ELSE "inbox"
HomesOf(f) == IF f = "trash" THEN {"trash", "spamTrash"} ELSE {MailboxOf(f)}
MailsIn(u, f) == {m \in Mails : /\ OwnerOf[m] = u
                                /\ home[m] \in HomesOf(f)
                                /\ f = "unread" => m \in unreadMails}
PageOf(S, from) ==
  {m \in S : LET before == Cardinality({n \in S : n < m})
             IN  before >= from /\ before < from + PageSize}
\* The three lists of loadMailWorkspace: the open folder with its query, the
\* other slots with the default one, the context list only for its folders.
PagesFor(u, f, from) ==
  [s \in Slots |->
     IF s = SlotOf(f) THEN PageOf(MailsIn(u, f), from)
     ELSE IF s = "context" THEN {} ELSE PageOf(MailsIn(u, s), 0)]
\* Without the Math.max(0, ...).
MutLastOffset(n) == ((n - 1) \div PageSize) * PageSize
LastOffset(n) == IF n = 0 THEN 0 ELSE ((n - 1) \div PageSize) * PageSize
Unread(u) == MailsIn(u, "inbox") \cap unreadMails

MailboxInit ==
  /\ home = HomeOf /\ unreadMails = {m \in Mails : HomeOf[m] = "inbox"}
  /\ user = Nobody /\ acts = 0
  /\ openFolder = "inbox" /\ offset = 0 /\ lists = NoPages
  /\ selected = NoMail /\ detail = NoMail
  /\ detailBy = "load" /\ loadedFor = [folder |-> "inbox", from |-> 0, how |-> "none"]
  /\ detailLoading = FALSE /\ detailFailed = FALSE /\ listLoading = FALSE
  /\ checked = {} /\ bulkBusy = FALSE /\ badge = -1
  /\ unheard = FALSE /\ pending = {}

-----------------------------------------------------------------------------
(* The functions the handlers call, as functions of the set of requests. *)

(* by and mine: the token they are called with. *)

\* refreshUnreadCount: only for the token of the screen, and only the newest
\* count is ever shown.
RefreshUnreadCount(reqs, by, mine) ==
  IF ~mine THEN reqs
  ELSE Supersede(reqs, {"count"}) \cup {[Blank EXCEPT !.by = by]}

\* loadMailWorkspace up to its await; sel is the selected mail of the render.
LoadMailWorkspace(reqs, by, mine, f, from, sel, waits) ==
  RefreshUnreadCount(Supersede(reqs, ListOps), by, mine)
    \cup {[Blank EXCEPT !.op = "load", !.by = by, !.mine = mine, !.folder = f,
             !.from = from, !.sel = sel, !.awaited = waits]}

\* loadMailDetail up to its await.
LoadMailDetail(reqs, by, mine, m, marks, waits) ==
  Supersede(reqs, DetailOps)
    \cup {[Blank EXCEPT !.op = IF marks THEN "mark" ELSE "get", !.by = by, !.mine = mine,
             !.mails = {m}, !.awaited = waits]}
ShowDetailLoading(m) ==
  /\ selected' = m /\ detail' = NoMail
  /\ detailBy' = "load" /\ detailLoading' = TRUE /\ detailFailed' = FALSE

\* The folder changes and the selected mail stays.
MutDeselect == detail' = NoMail /\ detailBy' = "load" /\ UNCHANGED selected

Deselect ==
  /\ selected' = NoMail /\ detail' = NoMail /\ detailBy' = "load"

The(r) == CHOOSE m \in r.mails : TRUE
\* The user acts; the guards are the bounds.
Act == /\ acts < MaxActs /\ Cardinality(pending) < MaxPending
       /\ acts' = acts + 1
CanAct == user # Nobody /\ Act

-----------------------------------------------------------------------------
(* What the user does. *)

\* openMailFolder and setMailFolder: what was on its way is no longer wanted.
OpenMailFolder(f) ==
  /\ CanAct
  /\ openFolder' = f /\ offset' = 0 /\ checked' = {}
  /\ Deselect
  /\ LET left == Supersede(pending, ListOps \cup DetailOps)
     IN  IF f = "localArchive"
         THEN /\ pending' = left
              /\ UNCHANGED listLoading
         ELSE /\ pending' = LoadMailWorkspace(left, user, TRUE, f, 0, selected, FALSE)
              /\ listLoading' = TRUE
  /\ UNCHANGED <<mailServer, user, lists, loadedFor, detailLoading, detailFailed, bulkBusy,
                 badge, unheard>>

\* updateMailListQuery: the pagination bar is disabled while a list loads, a
\* filter is not and goes back to the first page.
TurnPage(from) ==
  /\ CanAct /\ (from = 0 \/ ~listLoading) /\ openFolder # "localArchive"
  /\ offset' = from /\ checked' = {}
  /\ pending' = LoadMailWorkspace(pending, user, TRUE, openFolder, from, selected, FALSE)
  /\ listLoading' = TRUE
  /\ UNCHANGED <<mailServer, user, openFolder, lists, selected, detail, detailBy,
                 loadedFor, detailLoading, detailFailed, bulkBusy, badge, unheard>>

Refresh ==
  /\ CanAct /\ openFolder # "localArchive"
  /\ pending' = LoadMailWorkspace(pending, user, TRUE, openFolder, offset, selected, FALSE)
  /\ listLoading' = TRUE
  /\ UNCHANGED <<mailServer, user, openFolder, offset, lists, selected, detail, detailBy,
                 loadedFor, detailLoading, detailFailed, checked, bulkBusy, badge, unheard>>

VisibleList == IF openFolder = "localArchive" THEN {} ELSE lists[SlotOf(openFolder)]

SelectMail(m) ==
  /\ CanAct /\ m \in VisibleList
  /\ pending' = LoadMailDetail(pending, user, TRUE, m, m \in lists["inbox"] /\ openFolder # "trash", FALSE)
  /\ ShowDetailLoading(m)
  /\ UNCHANGED <<mailServer, user, openFolder, offset, lists, loadedFor, listLoading,
                 checked, bulkBusy, badge, unheard>>

\* openHomeItem, openSearchResult: a mail is selected from another screen.
OpenFromElsewhere(m, marks) ==
  /\ CanAct /\ m \in lists["inbox"]
  /\ pending' = LoadMailDetail(pending, user, TRUE, m, marks, FALSE)
  /\ ShowDetailLoading(m)
  /\ UNCHANGED <<mailServer, user, openFolder, offset, lists, loadedFor, listLoading,
                 checked, bulkBusy, badge, unheard>>

CheckMail(m) ==
  /\ CanAct /\ m \in VisibleList
  /\ checked' = IF m \in checked THEN checked \ {m} ELSE checked \cup {m}
  /\ UNCHANGED <<mailServer, user, openFolder, offset, lists, selected, detail, detailBy,
                 loadedFor, detailLoading, detailFailed, listLoading, bulkBusy, badge,
                 unheard, pending>>

\* The buttons of the toolbar for the open folder.
BulkActions(f) ==
  CASE f \in {"inbox", "unread"} -> {"read", "delete", "spam"}
    [] f = "spam"  -> {"not_spam", "delete"}
    [] f = "trash" -> {"restore", "purge"}
    [] f = "sent"  -> {"delete"}
    [] OTHER -> {}

\* runBulkMailAction and runUi020BulkAction
RunBulkMailAction(a) ==
  /\ CanAct /\ checked # {} /\ ~bulkBusy /\ a \in BulkActions(openFolder)
  /\ bulkBusy' = TRUE
  /\ pending' = pending \cup {[Blank EXCEPT !.op = "bulk", !.by = user, !.folder = openFolder,
                                 !.act = a, !.mails = checked, !.from = offset, !.sel = selected]}
  /\ UNCHANGED <<mailServer, user, openFolder, offset, lists, selected, detail, detailBy,
                 loadedFor, detailLoading, detailFailed, listLoading, checked, badge,
                 unheard>>

CanUpdateSelected == detail # NoMail /\ openFolder \in {"inbox", "unread"}
                     /\ ~detailLoading /\ ~detailFailed

\* toggleSelectedMailStar
ToggleStar ==
  /\ CanAct /\ selected # NoMail /\ CanUpdateSelected
  /\ listLoading' = TRUE
  /\ pending' = pending \cup {[Blank EXCEPT !.op = "star", !.by = user, !.mails = {selected}]}
  /\ UNCHANGED <<mailServer, user, openFolder, offset, lists, selected, detail, detailBy,
                 loadedFor, detailLoading, detailFailed, checked, bulkBusy, badge, unheard>>

\* handleSelectedMailReadAction: it marks an unread mail of the inbox list, and
\* it reads the detail without a request number.
ReadAction(marks) ==
  /\ CanAct /\ selected # NoMail /\ CanUpdateSelected
  /\ marks => selected \in lists["inbox"]
  /\ listLoading' = TRUE
  /\ pending' = pending \cup {[Blank EXCEPT !.op = IF marks THEN "checkMark" ELSE "checkGet",
                                 !.by = user, !.mails = {selected}]}
  /\ UNCHANGED <<mailServer, user, openFolder, offset, lists, selected, detail, detailBy,
                 loadedFor, detailLoading, detailFailed, checked, bulkBusy, badge, unheard>>

\* The token is dropped; the effect on [token] clears the screen, but neither
\* the context list nor the checked mails, and no request number moves but the
\* one of the badge.
Logout ==
  /\ CanAct
  /\ user' = Nobody
  /\ lists' = [lists EXCEPT !["inbox"] = {}, !["sent"] = {}]
  /\ Deselect /\ badge' = -1
  /\ pending' = Disown(Supersede(pending, {"count"}))
  /\ UNCHANGED <<mailServer, openFolder, offset, loadedFor, detailLoading, detailFailed,
                 listLoading, checked, bulkBusy, unheard>>

\* Sign-in: the effect on [token, me] loads the workspace of the new user.
Login(u) ==
  /\ user = Nobody /\ Act
  /\ user' = u
  /\ offset' = 0 /\ badge' = -1 /\ listLoading' = TRUE
  /\ pending' = Supersede(pending, {"count"} \cup ListOps)
                  \cup {[Blank EXCEPT !.by = u],
                        [Blank EXCEPT !.by = u, !.op = "load", !.folder = openFolder,
                           !.sel = selected]}
  /\ UNCHANGED <<mailServer, openFolder, lists, selected, detail, detailBy, loadedFor,
                 detailLoading, detailFailed, checked, bulkBusy, unheard>>

-----------------------------------------------------------------------------
(* The server and the network. *)

\* Where a bulk action expects its mails; the inbox and the outbox do not ask.
BulkHomes(r) ==
  CASE r.act = "spam" -> {"inbox", "spam"}
    [] r.act = "not_spam" \/ r.folder = "spam" -> {"spam"}
    [] r.act \in {"restore", "purge"} -> HomesOf("trash")
    [] OTHER -> Boxes

\* A request for the mail of somebody else, or for one that is no longer where
\* the request needs it, is refused; a bulk action is refused as a whole.
Permits(r) ==
  \A m \in r.mails :
    /\ OwnerOf[m] = r.by
    /\ r.op \in {"mark", "checkMark", "star"} => home[m] = "inbox"
    /\ r.op \in {"get", "checkGet"} => home[m] # "gone"
    /\ r.op = "bulk" => home[m] \in BulkHomes(r)

\* Where a mail is after a bulk action.
Target(a, m) ==
  CASE a = "read" -> home[m]
    [] a = "delete" -> IF home[m] = "spam" THEN "spamTrash"
                       ELSE IF home[m] \in {"inbox", "sent"} THEN "trash" ELSE home[m]
    [] a = "spam" -> "spam" [] a = "purge" -> "gone"
    [] a = "restore" /\ home[m] = "spamTrash" -> "spam"
    [] a = "restore" /\ HomeOf[m] = "sent" -> "sent"
    [] OTHER -> "inbox"
Changes(r) == r.op \in {"mark", "checkMark", "bulk"}

ServerHandles(r) ==
  /\ r.stage = "sent" /\ Permits(r)
  /\ pending' = (pending \ {r}) \cup
       {[r EXCEPT !.stage = "handled",
           !.pages = IF r.op = "load" THEN PagesFor(r.by, r.folder, r.from) ELSE @,
           !.total = CASE r.op = "load" -> Cardinality(MailsIn(r.by, r.folder))
                       [] r.op = "count" -> Cardinality(Unread(r.by))
                       [] OTHER -> @]}
  /\ unreadMails' = IF r.op \in {"mark", "checkMark"} \/ (r.op = "bulk" /\ r.act = "read")
                    THEN unreadMails \ r.mails ELSE unreadMails
  /\ home' = IF r.op = "bulk"
             THEN [m \in Mails |-> IF m \in r.mails THEN Target(r.act, m) ELSE home[m]]
             ELSE home
  /\ unheard' = \/ Changes(r) /\ ~r.mine /\ r.by = user
                \/ unheard /\ ~(r.op = "count" /\ r.current)
  /\ UNCHANGED <<user, acts, openFolder, offset, lists, selected, detail, detailBy,
                 loadedFor, detailLoading, detailFailed, listLoading, checked, bulkBusy,
                 badge>>

\* What is left when r is over without a successor.
Done(r) == pending \ {r}

-----------------------------------------------------------------------------
(* The answers. *)

CountArrives(r) ==
  /\ r.op = "count" /\ r.stage = "handled"
  /\ badge' = IF r.current THEN r.total ELSE badge
  /\ pending' = Done(r)
  /\ UNCHANGED <<mailServer, user, acts, openFolder, offset, lists, selected, detail,
                 detailBy, loadedFor, detailLoading, detailFailed, listLoading, checked,
                 bulkBusy, unheard>>

\* Only the newest load ends the bulk action.
MutEndLoad(r, goesOn) ==
  /\ listLoading' = IF r.current /\ ~goesOn THEN FALSE ELSE listLoading
  /\ bulkBusy' = IF r.current /\ r.awaited /\ ~goesOn THEN FALSE ELSE bulkBusy

\* The end of loadMailWorkspace: its own flag, and the flag of who awaits it.
EndLoad(r, goesOn) ==
  /\ listLoading' = IF r.current /\ ~goesOn THEN FALSE ELSE listLoading
  /\ bulkBusy' = IF r.awaited /\ ~goesOn THEN FALSE ELSE bulkBusy

\* An old load is taken for the newest.
MutIsNewestLoad(r) == TRUE
IsNewestLoad(r) == r.current

LoadIgnored(r) ==
  /\ r.op = "load" /\ r.stage = "handled" /\ ~IsNewestLoad(r)
  /\ pending' = Done(r)
  /\ EndLoad(r, FALSE)
  /\ UNCHANGED <<mailServer, user, acts, openFolder, offset, lists, selected, detail,
                 detailBy, loadedFor, detailLoading, detailFailed, checked, badge, unheard>>

\* The page is beyond the last one: the same load with the last page.
LoadClamped(r) ==
  /\ r.op = "load" /\ r.stage = "handled" /\ IsNewestLoad(r)
  /\ r.from > LastOffset(r.total)
  /\ lists' = r.pages
  /\ offset' = LastOffset(r.total) /\ checked' = {}
  /\ pending' = LoadMailWorkspace(Done(r), r.by, r.mine, r.folder, LastOffset(r.total), r.sel, r.awaited)
  /\ listLoading' = TRUE
  /\ UNCHANGED <<mailServer, user, acts, openFolder, selected, detail, detailBy, loadedFor,
                 detailLoading, detailFailed, bulkBusy, badge, unheard>>

\* The mail the list comes back to: the one that was selected when the load was
\* asked for if it is in the list, the first one if none was.
MailToShow(r) ==
  LET list == r.pages[SlotOf(r.folder)]
  IN  IF r.sel # NoMail THEN (IF r.sel \in list THEN r.sel ELSE NoMail)
      ELSE IF list = {} THEN NoMail ELSE Min(list)

LoadArrives(r) ==
  /\ r.op = "load" /\ r.stage = "handled" /\ IsNewestLoad(r)
  /\ r.from <= LastOffset(r.total)
  /\ lists' = r.pages
  /\ loadedFor' = [folder |-> r.folder, from |-> r.from,
                   how |-> IF r.awaited THEN "bulk" ELSE "user"]
  /\ EndLoad(r, FALSE)
  /\ IF MailToShow(r) = NoMail
     THEN /\ Deselect /\ detailFailed' = FALSE
          /\ pending' = Done(r)
          /\ UNCHANGED detailLoading
     ELSE /\ ShowDetailLoading(MailToShow(r))
          /\ pending' = LoadMailDetail(Done(r), r.by, r.mine, MailToShow(r), FALSE, FALSE)
  /\ UNCHANGED <<mailServer, user, acts, openFolder, offset, checked, badge, unheard>>

\* The badge is not counted again.
MutMarkArrives(r) ==
  /\ r.op \in {"mark", "checkMark"} /\ r.stage = "handled"
  /\ pending' = Done(r) \cup
       {[r EXCEPT !.op = IF @ = "mark" THEN "get" ELSE "checkGet", !.stage = "sent"]}
  /\ UNCHANGED <<mailServer, user, acts, openFolder, offset, lists, selected, detail,
                 detailBy, loadedFor, detailLoading, detailFailed, listLoading, checked,
                 bulkBusy, badge, unheard>>

\* The mail is marked; the badge is counted again; the detail is read.
MarkArrives(r) ==
  /\ r.op \in {"mark", "checkMark"} /\ r.stage = "handled"
  /\ pending' = RefreshUnreadCount(Done(r), r.by, r.mine) \cup
       {[r EXCEPT !.op = IF @ = "mark" THEN "get" ELSE "checkGet", !.stage = "sent"]}
  /\ UNCHANGED <<mailServer, user, acts, openFolder, offset, lists, selected, detail,
                 detailBy, loadedFor, detailLoading, detailFailed, listLoading, checked,
                 bulkBusy, badge, unheard>>

\* A detail that was overtaken is shown.
MutIsNewestDetail(r) == TRUE
IsNewestDetail(r) == r.current

DetailArrives(r) ==
  /\ r.op = "get" /\ r.stage = "handled"
  /\ IF IsNewestDetail(r)
     THEN detail' = The(r) /\ detailBy' = "load" /\ detailLoading' = FALSE
     ELSE UNCHANGED <<detail, detailBy, detailLoading>>
  /\ listLoading' = IF r.awaited THEN FALSE ELSE listLoading
  /\ pending' = Done(r)
  /\ UNCHANGED <<mailServer, user, acts, openFolder, offset, lists, selected, loadedFor,
                 detailFailed, checked, bulkBusy, badge, unheard>>

CheckedDetailArrives(r) ==
  /\ r.op = "checkGet" /\ r.stage = "handled"
  /\ detail' = The(r) /\ detailBy' = "check" /\ listLoading' = FALSE
  /\ pending' = Done(r)
  /\ UNCHANGED <<mailServer, user, acts, openFolder, offset, lists, selected, loadedFor,
                 detailLoading, detailFailed, checked, bulkBusy, badge, unheard>>

\* The star is set: the mail that was starred is selected again.
StarArrives(r) ==
  /\ r.op = "star" /\ r.stage = "handled"
  /\ pending' = LoadMailDetail(Done(r), r.by, r.mine, The(r), FALSE, TRUE)
  /\ ShowDetailLoading(The(r))
  /\ UNCHANGED <<mailServer, user, acts, openFolder, offset, lists, loadedFor, listLoading,
                 checked, bulkBusy, badge, unheard>>

\* The bulk action is done: nothing is checked any more, and the folder it was
\* started in is loaded again, with what was open and selected at its start.
BulkArrives(r) ==
  /\ r.op = "bulk" /\ r.stage = "handled"
  /\ checked' = {} /\ listLoading' = TRUE
  /\ pending' = LoadMailWorkspace(Done(r), r.by, r.mine, r.folder, r.from, r.sel, TRUE)
  /\ UNCHANGED <<mailServer, user, acts, openFolder, offset, lists, selected, detail,
                 detailBy, loadedFor, detailLoading, detailFailed, bulkBusy, badge,
                 unheard>>

\* A request is refused, or its answer is lost: the catch and finally blocks.
Fails(r) ==
  /\ pending' = Done(r)
  /\ unheard' = (unheard \/ (Changes(r) /\ r.stage = "handled" /\ r.mine))
  /\ badge' = IF r.op = "count" /\ r.current THEN -1 ELSE badge
  /\ detailFailed' = (detailFailed \/ (r.op \in DetailOps /\ r.current))
  /\ detailLoading' = IF r.op \in DetailOps /\ r.current THEN FALSE ELSE detailLoading
  /\ IF r.op = "load" /\ r.current
     THEN /\ lists' = NoPages /\ Deselect
          /\ loadedFor' = [loadedFor EXCEPT !.how = "none"]
     ELSE UNCHANGED <<lists, selected, detail, detailBy, loadedFor>>
  /\ listLoading' = IF \/ r.op = "load" /\ r.current
                       \/ r.op \in {"star", "checkMark", "checkGet"}
                       \/ r.op \in DetailOps /\ r.awaited
                    THEN FALSE ELSE listLoading
  /\ bulkBusy' = IF r.op = "bulk" \/ (r.op = "load" /\ r.awaited) THEN FALSE ELSE bulkBusy
  /\ UNCHANGED <<mailServer, user, acts, openFolder, offset, checked>>

-----------------------------------------------------------------------------
UserStep ==
  \/ \E f \in Folders : OpenMailFolder(f)
  \/ \E from \in {o \in 0..Cardinality(Mails) : o % PageSize = 0} : TurnPage(from)
  \/ Refresh
  \/ \E m \in Mails : SelectMail(m) \/ CheckMail(m)
  \/ \E m \in Mails, marks \in BOOLEAN : OpenFromElsewhere(m, marks)
  \/ \E a \in {"read", "delete", "spam", "not_spam", "restore", "purge"} : RunBulkMailAction(a)
  \/ ToggleStar \/ \E marks \in BOOLEAN : ReadAction(marks)
  \/ Logout \/ \E u \in Users : Login(u)

NetworkStep ==
  \E r \in pending :
    \/ ServerHandles(r) \/ Fails(r)
    \/ CountArrives(r)
    \/ LoadIgnored(r) \/ LoadClamped(r) \/ LoadArrives(r)
    \/ MarkArrives(r) \/ DetailArrives(r) \/ CheckedDetailArrives(r)
    \/ StarArrives(r) \/ BulkArrives(r)

MailboxNext == UserStep \/ NetworkStep
MailboxSpec == MailboxInit /\ [][MailboxNext]_mailboxVars

-----------------------------------------------------------------------------
MailboxTypeOK ==
  /\ home \in [Mails -> Boxes] /\ unreadMails \subseteq Mails
  /\ user \in Users \cup {Nobody} /\ acts \in 0..MaxActs
  /\ openFolder \in Folders /\ offset \in Nat
  /\ lists \in [Slots -> SUBSET Mails]
  /\ selected \in Mails \cup {NoMail} /\ detail \in Mails \cup {NoMail}
  /\ detailBy \in {"load", "check"}
  /\ loadedFor \in [folder : Folders, from : Nat, how : {"none", "user", "bulk"}]
  /\ detailLoading \in BOOLEAN /\ detailFailed \in BOOLEAN /\ listLoading \in BOOLEAN
  /\ checked \subseteq Mails /\ bulkBusy \in BOOLEAN /\ badge \in Nat \cup {-1}
  /\ unheard \in BOOLEAN /\ pending \subseteq MailRequest

AtRest == pending = {}

\* However the answers overtake each other, a detail that a selection loaded is
\* the detail of the mail that is selected now: reply, forward and translation
\* act on the detail, star and category on the selected mail.
LoadedDetailIsSelected ==
  detail # NoMail /\ selected # NoMail /\ detailBy = "load" => detail = selected

\* When nothing is on its way, the list on the screen was loaded for the folder
\* and the page that are open - unless the last load failed, or was the reload
\* of a bulk action, which names the folder the action was started in.
ListIsOfFolder ==
  AtRest /\ user # Nobody /\ openFolder # "localArchive" /\ loadedFor.how = "user"
    => loadedFor.folder = openFolder /\ loadedFor.from = offset

\* When nothing is on its way, the unread badge is unknown or the number of
\* unread mails at the server: marks, bulk actions and reloads that overlap
\* leave no stale number behind - unless no count follows a change: its answer
\* was lost, or the user signed out and in again before the server had made it
\* (refreshUnreadCount does nothing for an old token).
BadgeIsTrue ==
  AtRest /\ user # Nobody /\ badge # -1 /\ ~unheard => badge = Cardinality(Unread(user))

\* The bulk buttons are disabled exactly while a bulk action or the reload it
\* waits for is on its way: no failure on the path leaves them disabled, no
\* reload that was overtaken enables them early.
BulkBusyIsTrue ==
  bulkBusy <=> \E r \in pending : r.op = "bulk" \/ (r.op = "load" /\ r.awaited)

\* A mail that is selected is shown, or loading, or reported as failed: the
\* detail panel never says that no mail is selected.
SelectionIsShown == selected # NoMail => detail # NoMail \/ detailLoading \/ detailFailed
=============================================================================
