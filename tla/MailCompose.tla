---------------------------- MODULE MailCompose ----------------------------
(***************************************************************************)
(* The compose window of the user portal (user-web/src/App.tsx) with the   *)
(* images of its editor (MailRichTextEditor.tsx): what is being written,   *)
(* which stored mail it updates, the uploads and previews that are still   *)
(* on their way, the object URLs the page holds, and the submissions.      *)
(*                                                                         *)
(* An async handler runs from one await to the next and uses the values of *)
(* the render it was called from.  Uploads and previews compare a counter  *)
(* (mailComposeInlineImageRequestRef, generationRef of the editor) after   *)
(* the await: the fields current and live, which an increment clears.      *)
(***************************************************************************)
EXTENDS Naturals, FiniteSets, Sequences, FiniteSetsExt

CONSTANTS StoredMails,     \* mails of the server the user may open
          StoredKind,      \* "draft", "scheduled" or "received"
          InlineOf,        \* the content ids of the images in its body
          FilesOf,         \* its other attachments
          UploadIds,       \* content ids the server gives to uploads
          MaxImages,       \* images of a document (MAX_IMAGE_COUNT)
          MaxFiles,        \* attachments of a mail (MAIL_ATTACHMENT_LIMITS)
          MaxComposeActs   \* bound: what the user does

NoStored == "none"

ASSUME ComposeAssumption ==
  /\ StoredKind \in [StoredMails -> {"draft", "scheduled", "received"}]
  /\ IsFiniteSet(StoredMails) /\ NoStored \notin StoredMails
  /\ IsFiniteSet(UploadIds) /\ DOMAIN InlineOf = StoredMails /\ DOMAIN FilesOf = StoredMails
  /\ \A m \in StoredMails : /\ IsFiniteSet(InlineOf[m]) /\ IsFiniteSet(FilesOf[m])
                            /\ InlineOf[m] \cap UploadIds = {}
  /\ MaxImages \in Nat /\ MaxFiles \in Nat /\ MaxComposeActs \in Nat

PersistedIds == UNION {InlineOf[m] : m \in StoredMails}
ContentIds == UploadIds \cup PersistedIds
AttachmentIds == PersistedIds \cup UNION {FilesOf[m] : m \in StoredMails}
Url == 1..(2 * Cardinality(UploadIds) + Cardinality(PersistedIds) + 1)

VARIABLES
  composeActs,     \* what the user has done (bound)
  writerIn,        \* somebody is signed in
  composing,       \* quickComposeMode = "mail": the window and its editor are there
  opened,          \* history: how the form was opened, and from which mail
  body,            \* mailComposeForm: the images of the document, its text
  editing,         \* editingDraftMailId and editingScheduledMailId
  retained,        \* mailComposePersistedAttachments
  forwarded,       \* mailComposeSourceDetail, selectedForwardAttachmentIds
  newFiles,        \* mailComposeFiles: how many
  images,          \* mailComposeInlineImagesRef
  uploads,         \* uploadComposeInlineImage on their way
  previews,        \* hydrateComposeInlineImages on their way
  registry,        \* the editor: content id |-> URL
  waiting,         \* the editor: pendingImages, uploaded and not yet inserted
  reserved,        \* the editor: reservedUploadsRef
  erased,          \* the editor: images its undo history can bring back
  formBusy,        \* mailLoading
  submissions,     \* submitMailCompose on their way
  urls             \* object URLs that are not revoked

editorVars == <<registry, waiting, reserved, erased>>
composeVars == <<composeActs, writerIn, composing, opened, body, editing, retained,
                 forwarded, newFiles, images, uploads, previews, registry, waiting,
                 reserved, erased, formBusy, submissions, urls>>

\* text: 0 nothing, else the version of what is written.
EmptyBody == [cids |-> {}, text |-> 0]
NotEditing == [draft |-> NoStored, scheduled |-> NoStored]
ClosedForm == [how |-> "none", from |-> NoStored]
Image == [cid : ContentIds, url : Url, staged : BOOLEAN]

ComposeInit ==
  /\ composeActs = 0 /\ writerIn = TRUE /\ composing = FALSE /\ opened = ClosedForm
  /\ body = EmptyBody /\ editing = NotEditing /\ retained = {} /\ forwarded = {}
  /\ newFiles = 0 /\ images = {} /\ uploads = {} /\ previews = {}
  /\ registry = <<>> /\ waiting = <<>> /\ reserved = 0 /\ erased = {}
  /\ formBusy = FALSE /\ submissions = {} /\ urls = {}

ComposeAct == composeActs < MaxComposeActs /\ composeActs' = composeActs + 1
Writes == ComposeAct /\ composing
WritesInEditor == Writes /\ ~formBusy

-----------------------------------------------------------------------------
(* Object URLs, the list of images, the editor.  urls changes in one place  *)
(* of every action: what the page drops is revoked.                         *)

UrlsOf(imgs) == {i.url : i \in imgs}
RegistryUrls(r) == {r[c] : c \in DOMAIN r}
FreshUrl(used) == CHOOSE u \in Url : u \notin used

\* replaceMailComposeInlineImages revokes what is not in the next list.
\* The URLs of the list stay.
MutDropped(old, next) == {}
Dropped(old, next) == UrlsOf(old) \ UrlsOf(next)

\* clearMailComposeInlineImages, hydrateComposeInlineImages: what is on its way
\* is no longer wanted.
Overtaken(reqs) == {[r EXCEPT !.current = FALSE] : r \in reqs}

\* The generation of the editor moves on.
Detached(reqs) == {[r EXCEPT !.live = FALSE] : r \in reqs}

\* The editor goes, or gets another document: its images are revoked.
UnmountEditor(reqs, gone) ==
  /\ uploads' = Detached(reqs)
  /\ urls' = urls \ (gone \cup RegistryUrls(registry))
  /\ registry' = <<>> /\ waiting' = <<>> /\ reserved' = 0 /\ erased' = {}

\* The form gets a document: an editor that shows the same one keeps everything.
ReplaceBody(next, reqs, gone) ==
  /\ body' = next
  /\ IF composing /\ next = body
     THEN uploads' = reqs /\ urls' = urls \ gone /\ UNCHANGED editorVars
     ELSE UnmountEditor(reqs, gone)

\* onUpdate of the editor and handleMailDocumentChange: an image that is not in
\* the document is forgotten by both.
ChangeDocument(next, seq, held) ==
  /\ body' = next
  /\ images' = {i \in images : i.cid \in next.cids}
  /\ registry' = [c \in DOMAIN registry \cap next.cids |-> registry[c]]
  /\ urls' = urls \ (Dropped(images, images') \cup (RegistryUrls(registry) \ RegistryUrls(registry')))
  /\ waiting' = seq /\ reserved' = held
  /\ UNCHANGED <<writerIn, composing, opened, editing, retained, forwarded, newFiles,
                 uploads, previews, formBusy, submissions>>

-----------------------------------------------------------------------------
(* Opening and closing. *)

\* openNewMailCompose: its button is there whether or not a form is open.
OpenNew ==
  /\ ComposeAct /\ writerIn
  /\ composing' = TRUE /\ opened' = [how |-> "new", from |-> NoStored]
  /\ editing' = NotEditing /\ retained' = {} /\ forwarded' = {} /\ newFiles' = 0
  /\ images' = {} /\ previews' = Overtaken(previews)
  /\ ReplaceBody(EmptyBody, Overtaken(uploads), Dropped(images, {}))
  /\ UNCHANGED <<writerIn, formBusy, submissions>>

Hydrate(m) == Overtaken(previews) \cup {[cids |-> InlineOf[m], current |-> TRUE]}

\* editDraftMail, editScheduledMail: the detail is there while no form is open.
EditStored(m) ==
  /\ ComposeAct /\ writerIn /\ ~composing /\ StoredKind[m] \in {"draft", "scheduled"}
  /\ composing' = TRUE /\ opened' = [how |-> "edit", from |-> m]
  /\ editing' = IF StoredKind[m] = "draft" THEN [NotEditing EXCEPT !.draft = m]
                ELSE [NotEditing EXCEPT !.scheduled = m]
  /\ retained' = InlineOf[m] \cup FilesOf[m]
  /\ forwarded' = {} /\ newFiles' = 0
  /\ images' = {} /\ previews' = Hydrate(m)
  /\ ReplaceBody([cids |-> InlineOf[m], text |-> 1], Overtaken(uploads), Dropped(images, {}))
  /\ UNCHANGED <<writerIn, formBusy, submissions>>

\* openMailComposeFromDetail: what the form edits and retains stays as it is,
\* and for a reply the list of images does.
OpenFromDetail(m, how) ==
  /\ ComposeAct /\ writerIn /\ ~composing /\ StoredKind[m] = "received"
  /\ composing' = TRUE /\ opened' = [how |-> how, from |-> m]
  /\ newFiles' = 0
  /\ IF how = "forward"
     THEN /\ forwarded' = InlineOf[m] \cup FilesOf[m]
          /\ images' = {} /\ previews' = Hydrate(m)
          /\ ReplaceBody([cids |-> InlineOf[m], text |-> 1], Overtaken(uploads), Dropped(images, {}))
     ELSE /\ forwarded' = {}
          /\ ReplaceBody([cids |-> {}, text |-> 1], uploads, {})
          /\ UNCHANGED <<images, previews>>
  /\ UNCHANGED <<writerIn, editing, retained, formBusy, submissions>>

\* resetQuickComposeMode: another folder or menu is opened.  The window goes and
\* everything it was about stays.
LeaveWindow ==
  /\ Writes
  /\ composing' = FALSE
  /\ UnmountEditor(uploads, {})
  /\ UNCHANGED <<writerIn, body, opened, editing, retained, forwarded, newFiles, images,
                 previews, formBusy, submissions>>

\* resetMailCompose and the reset after a submission
ClearForm ==
  /\ composing' = FALSE /\ opened' = ClosedForm /\ body' = EmptyBody
  /\ editing' = NotEditing /\ retained' = {} /\ forwarded' = {} /\ newFiles' = 0
  /\ images' = {} /\ previews' = Overtaken(previews)
  /\ UnmountEditor(Overtaken(uploads), Dropped(images, {}))

\* closeMailCompose, confirmed when there is something to lose.
CloseWindow ==
  /\ Writes
  /\ ClearForm
  /\ UNCHANGED <<writerIn, formBusy, submissions>>

\* The token goes; the effect on [token] clears the form, but neither what it
\* edits and retains nor its images.
LeavePortal ==
  /\ ComposeAct /\ writerIn
  /\ writerIn' = FALSE /\ composing' = FALSE /\ opened' = ClosedForm
  /\ body' = EmptyBody /\ newFiles' = 0 /\ forwarded' = {}
  /\ UnmountEditor(uploads, {})
  /\ UNCHANGED <<editing, retained, images, previews, formBusy, submissions>>

EnterPortal ==
  /\ ComposeAct /\ ~writerIn /\ writerIn' = TRUE
  /\ UNCHANGED <<composing, opened, body, editing, retained, forwarded, newFiles, images,
                 uploads, previews, editorVars, formBusy, submissions, urls>>

-----------------------------------------------------------------------------
(* Writing. *)

Type ==
  /\ WritesInEditor
  /\ ChangeDocument([body EXCEPT !.text = IF @ = 1 THEN 2 ELSE 1], waiting, reserved)
  /\ UNCHANGED erased

EraseImage(c) ==
  /\ WritesInEditor /\ c \in body.cids
  /\ ChangeDocument([body EXCEPT !.cids = @ \ {c}], waiting, reserved)
  /\ erased' = erased \cup {c}

\* Undo brings an image back to the document.
RestoreImage(c) ==
  /\ WritesInEditor /\ c \in erased
  /\ ChangeDocument([body EXCEPT !.cids = @ \cup {c}], waiting, reserved)
  /\ erased' = erased \ {c}

\* insertPendingImage
InsertImage ==
  /\ WritesInEditor /\ waiting # <<>>
  /\ ChangeDocument([body EXCEPT !.cids = @ \cup {Head(waiting)}], Tail(waiting), reserved - 1)
  /\ UNCHANGED erased

\* The attachments that the window counts.
Retained == {a \in retained : a \in PersistedIds => a \in body.cids}
Forwarded == {a \in forwarded : a \in PersistedIds => a \in body.cids}
Staged == {i.cid : i \in {j \in images : j.staged}}
AttachmentCount ==
  newFiles + Cardinality(Staged) + Cardinality(Retained) + Cardinality(Forwarded)

\* addMailComposeFiles, removeMailComposeAttachment
AddFile ==
  /\ Writes /\ AttachmentCount < MaxFiles /\ newFiles' = newFiles + 1
  /\ UNCHANGED <<writerIn, composing, opened, body, editing, retained, forwarded, images,
                 uploads, previews, editorVars, formBusy, submissions, urls>>
RemoveFile ==
  /\ Writes /\ newFiles > 0 /\ newFiles' = newFiles - 1
  /\ UNCHANGED <<writerIn, composing, opened, body, editing, retained, forwarded, images,
                 uploads, previews, editorVars, formBusy, submissions, urls>>
\* The button beside an attachment of the stored mail, the box beside one of
\* the forwarded mail.
RemoveAttachment(a) ==
  /\ Writes /\ a \in (retained \cup forwarded) \ PersistedIds
  /\ retained' = retained \ {a} /\ forwarded' = forwarded \ {a}
  /\ UNCHANGED <<writerIn, composing, opened, body, editing, newFiles, images, uploads,
                 previews, editorVars, formBusy, submissions, urls>>

\* uploadFiles of the editor and uploadComposeInlineImage up to its await: a
\* place among the images is reserved.
StartUpload(c) ==
  /\ WritesInEditor /\ Cardinality(body.cids) + reserved < MaxImages
  /\ AttachmentCount < MaxFiles
  /\ c \in UploadIds \ (body.cids \cup {u.cid : u \in uploads} \cup {i.cid : i \in images}
                          \cup DOMAIN registry \cup erased \cup Range(waiting))
  /\ reserved' = reserved + 1
  /\ uploads' = uploads \cup {[cid |-> c, current |-> TRUE, live |-> TRUE]}
  /\ UNCHANGED <<writerIn, composing, opened, body, editing, retained, forwarded, newFiles,
                 images, previews, registry, waiting, erased, formBusy, submissions, urls>>

-----------------------------------------------------------------------------
(* Uploads and previews settle. *)

\* The place is given back whatever has become of the editor.
MutGiveBack(u) == reserved' = reserved - 1
\* The catch block of uploadFiles.
GiveBack(u) == reserved' = IF u.live THEN reserved - 1 ELSE reserved

\* It is refused, or the form has been replaced meanwhile: its URLs are revoked
\* at once and the editor hears of a failure.
UploadFails(u) ==
  /\ u \in uploads
  /\ uploads' = uploads \ {u}
  /\ GiveBack(u)
  /\ UNCHANGED <<composeActs, writerIn, composing, opened, body, editing, retained,
                 forwarded, newFiles, images, previews, registry, waiting, erased, formBusy,
                 submissions, urls>>

\* The image joins the list with one URL; the editor gets another one and asks
\* for a text, unless it shows another document by now.
UploadArrives(u) ==
  /\ u \in uploads /\ u.current
  /\ uploads' = uploads \ {u}
  /\ LET shown == FreshUrl(urls)
         own   == FreshUrl(urls \cup {shown})
         next  == {i \in images : i.cid # u.cid} \cup {[cid |-> u.cid, url |-> shown, staged |-> TRUE]}
         kept  == urls \ Dropped(images, next)
     IN  /\ images' = next
         /\ IF u.live
            THEN /\ registry' = [c \in DOMAIN registry \cup {u.cid} |->
                                   IF c = u.cid THEN own ELSE registry[c]]
                 /\ waiting' = Append(waiting, u.cid)
                 /\ urls' = kept \cup {shown, own}
            ELSE urls' = kept \cup {shown} /\ UNCHANGED <<registry, waiting>>
  /\ UNCHANGED <<composeActs, writerIn, composing, opened, body, editing, retained,
                 forwarded, newFiles, previews, reserved, erased, formBusy, submissions>>

\* Promise.all: the previews that could be read replace the list; those of a
\* form that is gone are revoked at once.
PreviewsArrive(p, got) ==
  /\ p \in previews /\ got \subseteq p.cids
  /\ previews' = previews \ {p}
  /\ IF p.current
     THEN \E next \in {f \in [got -> Url \ urls] : \A c, d \in got : f[c] = f[d] => c = d} :
            /\ images' = {[cid |-> c, url |-> next[c], staged |-> FALSE] : c \in got}
            /\ urls' = (urls \ Dropped(images, images')) \cup UrlsOf(images')
     ELSE UNCHANGED <<images, urls>>
  /\ UNCHANGED <<composeActs, writerIn, composing, opened, body, editing, retained,
                 forwarded, newFiles, uploads, editorVars, formBusy, submissions>>

-----------------------------------------------------------------------------
(* Submitting. *)

\* submitMailCompose up to its first await, with the values of this render.  A
\* draft is saved at once; what is sent is first resolved and confirmed, and the
\* buttons stay enabled so long.
Submit(action) ==
  /\ Writes /\ ~formBusy /\ writerIn
  /\ AttachmentCount <= MaxFiles
  /\ submissions' = submissions \cup
       {[action |-> action, opened |-> opened, editing |-> editing, body |-> body,
         stage |-> IF action = "draft" THEN "sent" ELSE "resolving"]}
  /\ formBusy' = (formBusy \/ action = "draft")
  /\ UNCHANGED <<writerIn, composing, opened, body, editing, retained, forwarded, newFiles,
                 images, uploads, previews, editorVars, urls>>

Then(s, stage) == (submissions \ {s}) \cup {[s EXCEPT !.stage = stage]}

\* The recipients are resolved: the form of that render becomes the form again.
RecipientsResolved(s) ==
  /\ s \in submissions /\ s.stage = "resolving"
  /\ submissions' = Then(s, "confirming")
  /\ ReplaceBody(s.body, uploads, {})
  /\ UNCHANGED <<composeActs, writerIn, composing, opened, editing, retained, forwarded,
                 newFiles, images, previews, formBusy>>

\* fetchMailBasicPreferences has answered and the user agrees.
Confirmed(s) ==
  /\ s \in submissions /\ s.stage = "confirming"
  /\ submissions' = Then(s, "sent") /\ formBusy' = TRUE
  /\ UNCHANGED <<composeActs, writerIn, composing, opened, body, editing, retained,
                 forwarded, newFiles, images, uploads, previews, editorVars, urls>>

\* A recipient is unknown, the user declines, the server refuses: the form stays.
SubmissionFails(s) ==
  /\ s \in submissions /\ s.stage # "done"
  /\ submissions' = submissions \ {s}
  /\ formBusy' = IF s.stage = "sent" THEN FALSE ELSE formBusy
  /\ UNCHANGED <<composeActs, writerIn, composing, opened, body, editing, retained,
                 forwarded, newFiles, images, uploads, previews, editorVars, urls>>

\* The server has taken the mail: whatever form there is now is cleared.
SubmissionSucceeds(s) ==
  /\ s \in submissions /\ s.stage = "sent"
  /\ submissions' = Then(s, "done")
  /\ ClearForm
  /\ UNCHANGED <<composeActs, writerIn, formBusy>>

\* The folder has been loaded again; other handlers of the screen set and clear
\* mailLoading as well.
SubmissionEnds(s) ==
  /\ s \in submissions /\ s.stage = "done"
  /\ submissions' = submissions \ {s} /\ formBusy' = FALSE
  /\ UNCHANGED <<composeActs, writerIn, composing, opened, body, editing, retained,
                 forwarded, newFiles, images, uploads, previews, editorVars, urls>>
OtherLoading ==
  /\ ComposeAct /\ formBusy' = ~formBusy
  /\ UNCHANGED <<writerIn, composing, opened, body, editing, retained, forwarded, newFiles,
                 images, uploads, previews, editorVars, submissions, urls>>

-----------------------------------------------------------------------------
ComposeStep ==
  \/ OpenNew \/ LeaveWindow \/ CloseWindow \/ LeavePortal \/ EnterPortal \/ OtherLoading
  \/ \E m \in StoredMails : EditStored(m)
  \/ \E m \in StoredMails, how \in {"reply", "forward"} : OpenFromDetail(m, how)
  \/ Type \/ InsertImage \/ AddFile \/ RemoveFile
  \/ \E c \in ContentIds : EraseImage(c) \/ RestoreImage(c)
  \/ \E a \in AttachmentIds : RemoveAttachment(a)
  \/ \E c \in UploadIds : StartUpload(c)
  \/ \E action \in {"draft", "send", "schedule"} : Submit(action)

ComposeNetwork ==
  \/ \E u \in uploads : UploadFails(u) \/ UploadArrives(u)
  \/ \E p \in previews, got \in SUBSET PersistedIds : PreviewsArrive(p, got)
  \/ \E s \in submissions : \/ RecipientsResolved(s) \/ Confirmed(s) \/ SubmissionFails(s)
                            \/ SubmissionSucceeds(s) \/ SubmissionEnds(s)

ComposeNext == ComposeStep \/ ComposeNetwork
ComposeSpec == ComposeInit /\ [][ComposeNext]_composeVars

-----------------------------------------------------------------------------
ComposeTypeOK ==
  /\ composeActs \in 0..MaxComposeActs /\ writerIn \in BOOLEAN /\ composing \in BOOLEAN
  /\ body.cids \subseteq ContentIds /\ body.text \in 0..2
  /\ editing.draft \in StoredMails \cup {NoStored}
  /\ editing.scheduled \in StoredMails \cup {NoStored}
  /\ retained \cup forwarded \subseteq AttachmentIds /\ newFiles \in 0..MaxFiles
  /\ images \subseteq Image /\ urls \subseteq Url
  /\ uploads \subseteq [cid : UploadIds, current : BOOLEAN, live : BOOLEAN]
  /\ previews \subseteq [cids : SUBSET PersistedIds, current : BOOLEAN]
  /\ DOMAIN registry \subseteq UploadIds /\ RegistryUrls(registry) \subseteq Url
  /\ Range(waiting) \subseteq UploadIds /\ reserved \in Nat /\ erased \subseteq ContentIds
  /\ formBusy \in BOOLEAN

\* Every object URL of the compose window belongs to an image of the list or of
\* the editor, and each of those has a URL that is not revoked: no upload,
\* preview or replaced document leaks one, none shows a revoked one.
UrlsAreOwned == urls = UrlsOf(images) \cup RegistryUrls(registry)

\* The places reserved in the editor are those of the uploads on their way for
\* this document and of the images that wait for their text: a failure that
\* belongs to an earlier document gives nothing back.
ReservedIsTrue == reserved = Cardinality({u \in uploads : u.live}) + Len(waiting)

\* The stored mail that a submission replaces.
Updated(s) ==
  CASE s.action = "draft" -> s.editing.draft
    [] s.action = "schedule" -> s.editing.scheduled
    [] OTHER -> NoStored

\* A stored draft or scheduled mail is only replaced by the form that was opened
\* to edit it.
DraftIsItsOwn ==
  \A s \in submissions :
    Updated(s) # NoStored => s.opened = [how |-> "edit", from |-> Updated(s)]
=============================================================================
