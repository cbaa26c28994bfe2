-------------------------- MODULE MailComposeProofs --------------------------
(***************************************************************************)
(* The object URLs and the reserved places of the compose window, for any  *)
(* stored mails, uploads and acts of the user.                             *)
(***************************************************************************)
EXTENDS MailCompose, FiniteSetTheorems, SequenceTheorems, TLAPS

UploadRequest == [cid : UploadIds, current : BOOLEAN, live : BOOLEAN]
PreviewRequest == [cids : SUBSET PersistedIds, current : BOOLEAN]
Body == [cids : SUBSET ContentIds, text : 0..2]
Opened == [how : {"none", "new", "edit", "reply", "forward"}, from : StoredMails \cup {NoStored}]
Edited == [draft : StoredMails \cup {NoStored}, scheduled : StoredMails \cup {NoStored}]
Submission ==
  [action : {"draft", "send", "schedule"}, opened : Opened, editing : Edited, body : Body,
   stage : {"resolving", "confirming", "sent", "done"}]

\* What is written.
WrittenInv ==
  /\ composeActs \in 0..MaxComposeActs /\ writerIn \in BOOLEAN /\ composing \in BOOLEAN
  /\ opened \in Opened /\ body \in Body /\ editing \in Edited
  /\ retained \subseteq AttachmentIds /\ forwarded \subseteq AttachmentIds
  /\ newFiles \in 0..MaxFiles /\ formBusy \in BOOLEAN
  /\ submissions \subseteq Submission

\* The images, what is on its way for them, and the editor.
MediaTyped ==
  /\ images \subseteq Image /\ urls \subseteq Url
  /\ uploads \subseteq UploadRequest /\ previews \subseteq PreviewRequest
  /\ DOMAIN registry \subseteq UploadIds /\ waiting \in Seq(UploadIds)
  /\ reserved \in Nat /\ erased \subseteq ContentIds

CidsOf(set) == {x.cid : x \in set}
LiveCids(reqs) == CidsOf({r \in reqs : r.live})

\* A content id has one image.
OneImageEach == \A i, j \in images : i.cid = j.cid => i = j

\* The list of images and the editor hold different URLs: what one revokes the
\* other does not show.
OwnersApart == UrlsOf(images) \cap RegistryUrls(registry) = {}

\* An upload on its way is the only one of its content id, and neither the list
\* nor the editor has an image of it yet.
UploadsAreNew ==
  \A u \in uploads : /\ \A v \in uploads : u.cid = v.cid => u = v
                     /\ u.cid \notin CidsOf(images) /\ u.cid \notin DOMAIN registry

\* ReservedIsTrue, counted by content ids.
PlacesAreHeld == reserved = Cardinality(LiveCids(uploads)) + Len(waiting)

MediaInv ==
  /\ MediaTyped /\ OneImageEach /\ OwnersApart /\ UrlsAreOwned /\ UploadsAreNew
  /\ PlacesAreHeld

ComposeInv == WrittenInv /\ MediaInv

-----------------------------------------------------------------------------
(* Counting. *)

\* What a finite set is mapped onto is finite and not larger.
LEMMA MappedOnto ==
  ASSUME NEW S, NEW T, IsFiniteSet(S), NEW f \in [S -> T], \A t \in T : \E s \in S : f[s] = t
  PROVE  IsFiniteSet(T) /\ Cardinality(T) <= Cardinality(S)
<1>1. f \in Surjection(S, T)
  BY DEF Surjection
<1> QED BY <1>1, FS_Surjection

\* The stored mails bring finitely many images and attachments.
LEMMA FiniteIds ==
  /\ IsFiniteSet(UploadIds) /\ IsFiniteSet(PersistedIds) /\ IsFiniteSet(ContentIds)
  /\ IsFiniteSet(AttachmentIds)
<1> DEFINE I == {InlineOf[m] : m \in StoredMails}
           F == {FilesOf[m] : m \in StoredMails}
<1>1. IsFiniteSet(I)
  <2> DEFINE f == [m \in StoredMails |-> InlineOf[m]]
  <2>1. f \in [StoredMails -> I] /\ \A t \in I : \E m \in StoredMails : f[m] = t
    OBVIOUS
  <2> HIDE DEF f, I
  <2> QED BY <2>1, MappedOnto, ComposeAssumption DEF ComposeAssumption
<1>2. IsFiniteSet(F)
  <2> DEFINE f == [m \in StoredMails |-> FilesOf[m]]
  <2>1. f \in [StoredMails -> F] /\ \A t \in F : \E m \in StoredMails : f[m] = t
    OBVIOUS
  <2> HIDE DEF f, F
  <2> QED BY <2>1, MappedOnto, ComposeAssumption DEF ComposeAssumption
<1>3. (\A T \in I : IsFiniteSet(T)) /\ (\A T \in F : IsFiniteSet(T))
  BY ComposeAssumption DEF ComposeAssumption
<1> HIDE DEF I, F
<1>4. IsFiniteSet(UNION I) /\ IsFiniteSet(UNION F)
  BY <1>1, <1>2, <1>3, FS_UNION
<1>5. PersistedIds = UNION I /\ AttachmentIds = PersistedIds \cup UNION F
  BY DEF PersistedIds, AttachmentIds, I, F
<1>6. IsFiniteSet(UploadIds)
  BY ComposeAssumption DEF ComposeAssumption
<1> QED BY <1>4, <1>5, <1>6, FS_Union DEF ContentIds

\* The content ids of uploads are not those of stored mails.
LEMMA IdsApart == UploadIds \cap PersistedIds = {}
BY ComposeAssumption DEF ComposeAssumption, PersistedIds

LEMMA FreshIsFresh ==
  ASSUME NEW used, IsFiniteSet(used), Cardinality(used) < Cardinality(Url)
  PROVE  FreshUrl(used) \in Url /\ FreshUrl(used) \notin used
<1>1. ~(Url \subseteq used)
  <2> SUFFICES ASSUME Url \subseteq used PROVE FALSE
    OBVIOUS
  <2>1. IsFiniteSet(Url) /\ Cardinality(Url) <= Cardinality(used)
    BY FS_Subset
  <2>2. Cardinality(Url) \in Nat /\ Cardinality(used) \in Nat
    BY <2>1, FS_CardinalityType
  <2> QED BY <2>1, <2>2
<1>2. \E u \in Url : u \notin used
  BY <1>1
<1> QED BY <1>2, Zenon DEF FreshUrl

LEMMA UrlCount ==
  /\ Cardinality(UploadIds) \in Nat /\ Cardinality(PersistedIds) \in Nat
  /\ Cardinality(Url) = 2 * Cardinality(UploadIds) + Cardinality(PersistedIds) + 1
<1>1. Cardinality(UploadIds) \in Nat /\ Cardinality(PersistedIds) \in Nat
  BY FiniteIds, FS_CardinalityType
<1> DEFINE n == 2 * Cardinality(UploadIds) + Cardinality(PersistedIds) + 1
<1>2. n \in Nat /\ n >= 1
  BY <1>1
<1>3. Url = 1..n
  BY DEF Url
<1> HIDE DEF n
<1>4. Cardinality(1..n) = n
  BY <1>2, FS_Interval
<1> QED BY <1>1, <1>3, <1>4 DEF n

\* As many URLs as content ids at most.
LEMMA FewUrls ==
  ASSUME OneImageEach, NEW C, IsFiniteSet(C), CidsOf(images) \subseteq C
  PROVE  IsFiniteSet(UrlsOf(images)) /\ Cardinality(UrlsOf(images)) <= Cardinality(C)
<1> DEFINE S == CidsOf(images)
           f == [c \in S |-> (CHOOSE i \in images : i.cid = c).url]
<1>1. IsFiniteSet(S) /\ Cardinality(S) <= Cardinality(C)
  BY FS_Subset
<1>2. ASSUME NEW c \in S
      PROVE  f[c] \in UrlsOf(images)
  <2>1. \E i \in images : i.cid = c
    BY DEF CidsOf
  <2> QED BY <2>1 DEF UrlsOf
<1>3. \A t \in UrlsOf(images) : \E c \in S : f[c] = t
  <2> TAKE t \in UrlsOf(images)
  <2>1. PICK i \in images : t = i.url
    BY DEF UrlsOf
  <2>2. i.cid \in S
    BY DEF CidsOf
  <2>3. (CHOOSE j \in images : j.cid = i.cid) = i
    BY DEF OneImageEach
  <2> QED BY <2>1, <2>2, <2>3
<1>4. f \in [S -> UrlsOf(images)]
  BY <1>2
<1> HIDE DEF S, f
<1>5. IsFiniteSet(UrlsOf(images)) /\ Cardinality(UrlsOf(images)) <= Cardinality(S)
  BY <1>1, <1>3, <1>4, MappedOnto
<1>6. Cardinality(UrlsOf(images)) \in Nat /\ Cardinality(S) \in Nat /\ Cardinality(C) \in Nat
  BY <1>1, <1>5, FS_CardinalityType
<1> QED BY <1>1, <1>5, <1>6

LEMMA FewRegistered ==
  ASSUME NEW C, IsFiniteSet(C), DOMAIN registry \subseteq C
  PROVE  IsFiniteSet(RegistryUrls(registry)) /\ Cardinality(RegistryUrls(registry)) <= Cardinality(C)
<1> DEFINE S == DOMAIN registry
           T == RegistryUrls(registry)
           f == [c \in S |-> registry[c]]
<1>1. IsFiniteSet(S) /\ Cardinality(S) <= Cardinality(C)
  BY FS_Subset
<1>2. f \in [S -> T] /\ \A t \in T : \E c \in S : f[c] = t
  BY DEF RegistryUrls
<1> HIDE DEF S, T, f
<1>3. IsFiniteSet(T) /\ Cardinality(T) <= Cardinality(S)
  BY <1>1, <1>2, MappedOnto
<1>4. Cardinality(T) \in Nat /\ Cardinality(S) \in Nat /\ Cardinality(C) \in Nat
  BY <1>1, <1>3, FS_CardinalityType
<1> QED BY <1>1, <1>3, <1>4 DEF T

\* While an upload is on its way there are URLs for the two places it will be in.
LEMMA RoomForTwo ==
  ASSUME MediaInv, NEW u \in uploads
  PROVE  LET shown == FreshUrl(urls)
             own   == FreshUrl(urls \cup {shown})
         IN  shown \in Url /\ shown \notin urls /\ own \in Url /\ own \notin urls \cup {shown}
<1> DEFINE U == Cardinality(UploadIds)
           P == Cardinality(PersistedIds)
           A == UrlsOf(images)
           B == RegistryUrls(registry)
           shown == FreshUrl(urls)
<1>1. U \in Nat /\ P \in Nat /\ Cardinality(Url) = 2 * U + P + 1
  BY UrlCount
<1>2. u.cid \in UploadIds /\ u.cid \notin CidsOf(images) /\ u.cid \notin DOMAIN registry
  BY DEF MediaInv, MediaTyped, UploadRequest, UploadsAreNew
<1>3. IsFiniteSet(A) /\ Cardinality(A) <= U + P - 1
  <2>1. CidsOf(images) \subseteq ContentIds \ {u.cid}
    BY <1>2 DEF MediaInv, MediaTyped, Image, CidsOf
  <2>2. IsFiniteSet(ContentIds) /\ u.cid \in ContentIds
    BY <1>2, FiniteIds DEF ContentIds
  <2>3. IsFiniteSet(ContentIds \ {u.cid}) /\ Cardinality(ContentIds \ {u.cid}) = Cardinality(ContentIds) - 1
    BY <2>2, FS_RemoveElement
  <2>4. IsFiniteSet(A) /\ Cardinality(A) <= Cardinality(ContentIds \ {u.cid})
    BY <2>1, <2>3, FewUrls DEF MediaInv
  <2>5. Cardinality(ContentIds) <= U + P
    <3>1. Cardinality(UploadIds \cup PersistedIds) = U + P - Cardinality(UploadIds \cap PersistedIds)
      BY FiniteIds, FS_Union
    <3>2. Cardinality(UploadIds \cap PersistedIds) = 0
      BY IdsApart, FS_EmptySet
    <3> QED BY <3>1, <3>2, <1>1 DEF ContentIds
  <2>6. Cardinality(ContentIds) \in Nat /\ Cardinality(A) \in Nat
    BY <2>2, <2>4, FS_CardinalityType
  <2> HIDE DEF U, P, A
  <2> QED BY <2>3, <2>4, <2>5, <2>6, <1>1
<1>4. IsFiniteSet(B) /\ Cardinality(B) <= U - 1
  <2>1. DOMAIN registry \subseteq UploadIds \ {u.cid}
    BY <1>2 DEF MediaInv, MediaTyped
  <2>2. IsFiniteSet(UploadIds \ {u.cid}) /\ Cardinality(UploadIds \ {u.cid}) = U - 1
    BY <1>2, FiniteIds, FS_RemoveElement
  <2> QED BY <2>1, <2>2, FewRegistered
<1>5. IsFiniteSet(urls) /\ Cardinality(urls) + 2 < Cardinality(Url)
  <2>1. urls = A \cup B
    BY DEF MediaInv, UrlsAreOwned
  <2>2. IsFiniteSet(A \cup B) /\ Cardinality(A \cup B) = Cardinality(A) + Cardinality(B) - Cardinality(A \cap B)
    BY <1>3, <1>4, FS_Union
  <2>3. Cardinality(A) \in Nat /\ Cardinality(B) \in Nat
    BY <1>3, <1>4, FS_CardinalityType
  <2>4. Cardinality(A \cap B) \in Nat
    BY <1>3, FS_Intersection, FS_CardinalityType
  <2> HIDE DEF U, P, A, B
  <2> QED BY <2>1, <2>2, <2>3, <2>4, <1>1, <1>3, <1>4
<1>6. Cardinality(urls) \in Nat /\ Cardinality(Url) \in Nat
  BY <1>1, <1>5, FS_CardinalityType
<1>7. shown \in Url /\ shown \notin urls
  BY <1>5, <1>6, FreshIsFresh
<1>8. IsFiniteSet(urls \cup {shown}) /\ Cardinality(urls \cup {shown}) < Cardinality(Url)
  <2>1. IsFiniteSet(urls \cup {shown}) /\ Cardinality(urls \cup {shown}) = Cardinality(urls) + 1
    BY <1>5, <1>7, FS_AddElement
  <2> QED BY <2>1, <1>5, <1>6
<1> HIDE DEF shown
<1>9. FreshUrl(urls \cup {shown}) \in Url /\ FreshUrl(urls \cup {shown}) \notin urls \cup {shown}
  BY <1>8, FreshIsFresh
<1> QED BY <1>7, <1>9 DEF shown

-----------------------------------------------------------------------------
(* The requests that are on their way. *)

Halted(r) == [r EXCEPT !.current = FALSE]
Dead(r) == [r EXCEPT !.live = FALSE]

\* Requests of the uploads, each still the only one of its content id, and live
\* when it was.
Kept(reqs) ==
  /\ reqs \subseteq UploadRequest
  /\ \A r, s \in reqs : r.cid = s.cid => r = s
  /\ CidsOf(reqs) \subseteq CidsOf(uploads)
  /\ LiveCids(reqs) = LiveCids(uploads)

LEMMA HaltedFields ==
  \A r \in UploadRequest : /\ Halted(r) \in UploadRequest /\ Halted(r).cid = r.cid
                           /\ Halted(r).live <=> r.live
BY DEF UploadRequest, Halted

LEMMA DeadFields ==
  \A r \in UploadRequest : Dead(r) \in UploadRequest /\ Dead(r).cid = r.cid /\ ~Dead(r).live
BY DEF UploadRequest, Dead

LEMMA UploadsKept == ASSUME MediaInv PROVE Kept(uploads)
BY DEF MediaInv, MediaTyped, UploadsAreNew, Kept

LEMMA OvertakenKept == ASSUME MediaInv PROVE Kept(Overtaken(uploads))
<1> DEFINE reqs == {Halted(r) : r \in uploads}
<1>1. Overtaken(uploads) = reqs
  BY DEF Overtaken, Halted
<1>2. uploads \subseteq UploadRequest /\ \A r, s \in uploads : r.cid = s.cid => r = s
  BY DEF MediaInv, MediaTyped, UploadsAreNew
<1>3. reqs \subseteq UploadRequest /\ \A r, s \in reqs : r.cid = s.cid => r = s
  BY <1>2, HaltedFields
<1>4. CidsOf(reqs) \subseteq CidsOf(uploads)
  BY <1>2, HaltedFields DEF CidsOf
<1>5. LiveCids(reqs) = LiveCids(uploads)
  BY <1>2, HaltedFields DEF LiveCids, CidsOf
<1> QED BY <1>1, <1>3, <1>4, <1>5 DEF Kept

\* Nothing is live once the editor has gone.
LEMMA DetachedIsDead ==
  ASSUME NEW reqs, Kept(reqs)
  PROVE  /\ Detached(reqs) \subseteq UploadRequest
         /\ \A r, s \in Detached(reqs) : r.cid = s.cid => r = s
         /\ CidsOf(Detached(reqs)) \subseteq CidsOf(uploads)
         /\ LiveCids(Detached(reqs)) = {}
<1> DEFINE dead == {Dead(r) : r \in reqs}
<1>1. Detached(reqs) = dead
  BY DEF Detached, Dead
<1>2. reqs \subseteq UploadRequest /\ \A r, s \in reqs : r.cid = s.cid => r = s
  BY DEF Kept
<1>3. dead \subseteq UploadRequest /\ \A r, s \in dead : r.cid = s.cid => r = s
  BY <1>2, DeadFields
<1>4. CidsOf(dead) \subseteq CidsOf(uploads)
  BY <1>2, DeadFields DEF CidsOf, Kept
<1>5. LiveCids(dead) = {}
  BY <1>2, DeadFields DEF LiveCids, CidsOf
<1> QED BY <1>1, <1>3, <1>4, <1>5

\* The previews.
PreviewsOf(reqs) == reqs \subseteq PreviewRequest

LEMMA PreviewsOvertaken == ASSUME MediaInv PROVE PreviewsOf(Overtaken(previews))
<1>1. \A r \in PreviewRequest : Halted(r) \in PreviewRequest
  BY DEF PreviewRequest, Halted
<1>2. Overtaken(previews) = {Halted(r) : r \in previews}
  BY DEF Overtaken, Halted
<1> QED BY <1>1, <1>2 DEF MediaInv, MediaTyped, PreviewsOf

LEMMA PreviewsHydrated ==
  ASSUME MediaInv, NEW m \in StoredMails
  PROVE  PreviewsOf(Hydrate(m))
<1>1. InlineOf[m] \subseteq PersistedIds
  BY DEF PersistedIds
<1>2. [cids |-> InlineOf[m], current |-> TRUE] \in PreviewRequest
  BY <1>1 DEF PreviewRequest
<1> QED BY <1>2, PreviewsOvertaken DEF PreviewsOf, Hydrate

-----------------------------------------------------------------------------
(* The three ways the window changes its images. *)

\* Either the list of images stays and nothing of it is revoked, or it is
\* emptied and all of it is.
ListGone(gone) ==
  \/ images' = images /\ gone = {}
  \/ images' = {} /\ gone = UrlsOf(images)

LEMMA EmptyRegistry == DOMAIN <<>> = {} /\ RegistryUrls(<<>>) = {} /\ Len(<<>>) = 0
<1>1. DOMAIN <<>> = {} /\ Len(<<>>) = 0
  BY EmptySeq, LenProperties
<1> QED BY <1>1 DEF RegistryUrls

LEMMA DroppedAll == Dropped(images, {}) = UrlsOf(images)
BY DEF Dropped, UrlsOf

\* The editor goes: only the list is left, and no upload has a place.
LEMMA UnmountKeeps ==
  ASSUME MediaInv, NEW reqs, Kept(reqs), NEW gone, ListGone(gone),
         UnmountEditor(reqs, gone), PreviewsOf(previews')
  PROVE  MediaInv'
<1>1. /\ uploads' = Detached(reqs) /\ urls' = urls \ (gone \cup RegistryUrls(registry))
      /\ registry' = <<>> /\ waiting' = <<>> /\ reserved' = 0 /\ erased' = {}
  BY DEF UnmountEditor
<1>2. DOMAIN registry' = {} /\ RegistryUrls(registry') = {} /\ Len(waiting') = 0
  BY <1>1, EmptyRegistry
<1>3. images' \subseteq images
  BY DEF ListGone
<1>4. MediaTyped'
  <2>1. uploads' \subseteq UploadRequest
    BY <1>1, DetachedIsDead
  <2>2. waiting' \in Seq(UploadIds)
    BY <1>1, EmptySeq
  <2> QED BY <1>1, <1>2, <1>3, <2>1, <2>2 DEF MediaInv, MediaTyped, PreviewsOf
<1>5. OneImageEach' /\ OwnersApart'
  BY <1>2, <1>3 DEF MediaInv, OneImageEach, OwnersApart
<1>6. UrlsAreOwned'
  <2>1. CASE images' = images /\ gone = {}
    BY <1>1, <1>2, <2>1 DEF MediaInv, UrlsAreOwned, OwnersApart, UrlsOf
  <2>2. CASE images' = {} /\ gone = UrlsOf(images)
    <3>1. UrlsOf(images') = {}
      BY <2>2 DEF UrlsOf
    <3> QED BY <1>1, <1>2, <2>2, <3>1 DEF MediaInv, UrlsAreOwned
  <2> QED BY <2>1, <2>2 DEF ListGone
<1>7. UploadsAreNew'
  <2>1. \A r, s \in uploads' : r.cid = s.cid => r = s
    BY <1>1, DetachedIsDead
  <2>2. \A r \in uploads' : r.cid \in CidsOf(uploads)
    BY <1>1, DetachedIsDead DEF CidsOf
  <2>3. \A c \in CidsOf(uploads) : c \notin CidsOf(images')
    BY <1>3 DEF MediaInv, UploadsAreNew, CidsOf
  <2> QED BY <1>2, <2>1, <2>2, <2>3 DEF UploadsAreNew
<1>8. PlacesAreHeld'
  <2>1. LiveCids(uploads') = {}
    BY <1>1, DetachedIsDead
  <2> QED BY <1>1, <1>2, <2>1, FS_EmptySet DEF PlacesAreHeld
<1> QED BY <1>4, <1>5, <1>6, <1>7, <1>8 DEF MediaInv

\* The form gets a document: an editor that shows it keeps its images.
LEMMA ReplaceKeeps ==
  ASSUME MediaInv, NEW next, NEW reqs, Kept(reqs), NEW gone, ListGone(gone),
         ReplaceBody(next, reqs, gone), PreviewsOf(previews')
  PROVE  MediaInv'
<1>1. CASE composing /\ next = body
  <2>1. /\ uploads' = reqs /\ urls' = urls \ gone
        /\ UNCHANGED <<registry, waiting, reserved, erased>>
    BY <1>1 DEF ReplaceBody, editorVars
  <2>2. images' \subseteq images
    BY DEF ListGone
  <2>3. MediaTyped'
    BY <2>1, <2>2 DEF MediaInv, MediaTyped, Kept, PreviewsOf
  <2>4. OneImageEach'
    BY <2>2 DEF MediaInv, OneImageEach
  <2>5. OwnersApart' /\ UrlsAreOwned'
    <3>1. CASE images' = images /\ gone = {}
      BY <2>1, <3>1 DEF MediaInv, UrlsAreOwned, OwnersApart
    <3>2. CASE images' = {} /\ gone = UrlsOf(images)
      <4>1. UrlsOf(images') = {}
        BY <3>2 DEF UrlsOf
      <4> QED BY <2>1, <3>2, <4>1 DEF MediaInv, UrlsAreOwned, OwnersApart
    <3> QED BY <3>1, <3>2 DEF ListGone
  <2>6. UploadsAreNew'
    <3>1. \A r, s \in uploads' : r.cid = s.cid => r = s
      BY <2>1 DEF Kept
    <3>2. \A r \in uploads' : r.cid \in CidsOf(uploads)
      BY <2>1 DEF Kept, CidsOf
    <3>3. \A c \in CidsOf(uploads) : c \notin CidsOf(images') /\ c \notin DOMAIN registry'
      BY <2>1, <2>2 DEF MediaInv, UploadsAreNew, CidsOf
    <3> QED BY <3>1, <3>2, <3>3 DEF UploadsAreNew
  <2>7. PlacesAreHeld'
    BY <2>1 DEF MediaInv, PlacesAreHeld, Kept
  <2> QED BY <2>3, <2>4, <2>5, <2>6, <2>7 DEF MediaInv
<1>2. CASE ~(composing /\ next = body)
  <2>1. UnmountEditor(reqs, gone)
    BY <1>2 DEF ReplaceBody
  <2> QED BY <2>1, UnmountKeeps
<1> QED BY <1>1, <1>2

\* The document changes: an image that is not in it is dropped by both, with its URLs.
LEMMA ChangeKeeps ==
  ASSUME MediaInv, NEW next, NEW seq, NEW held, ChangeDocument(next, seq, held),
         seq \in Seq(UploadIds), held \in Nat, held = Cardinality(LiveCids(uploads)) + Len(seq),
         erased' \subseteq ContentIds
  PROVE  MediaInv'
<1>1. /\ images' = {i \in images : i.cid \in next.cids}
      /\ registry' = [c \in DOMAIN registry \cap next.cids |-> registry[c]]
      /\ urls' = urls \ (Dropped(images, images') \cup (RegistryUrls(registry) \ RegistryUrls(registry')))
      /\ waiting' = seq /\ reserved' = held /\ UNCHANGED <<uploads, previews>>
  BY DEF ChangeDocument
<1>2. images' \subseteq images
  BY <1>1
<1>3. DOMAIN registry' = DOMAIN registry \cap next.cids
  BY <1>1
<1>4. \A c \in DOMAIN registry' : c \in DOMAIN registry /\ registry'[c] = registry[c]
  BY <1>1
<1>5. UrlsOf(images') \subseteq UrlsOf(images) /\ RegistryUrls(registry') \subseteq RegistryUrls(registry)
  BY <1>2, <1>4 DEF UrlsOf, RegistryUrls
<1>6. MediaTyped'
  BY <1>1, <1>2, <1>3 DEF MediaInv, MediaTyped
<1>7. OneImageEach' /\ OwnersApart'
  BY <1>2, <1>5 DEF MediaInv, OneImageEach, OwnersApart
<1>8. UrlsAreOwned'
  <2>1. urls = UrlsOf(images) \cup RegistryUrls(registry)
    BY DEF MediaInv, UrlsAreOwned
  <2>2. UrlsOf(images) \cap RegistryUrls(registry) = {}
    BY DEF MediaInv, OwnersApart
  <2>3. Dropped(images, images') = UrlsOf(images) \ UrlsOf(images')
    BY DEF Dropped
  <2>4. urls' = UrlsOf(images') \cup RegistryUrls(registry')
    BY <1>1, <1>5, <2>1, <2>2, <2>3
  <2> QED BY <2>4 DEF UrlsAreOwned
<1>9. UploadsAreNew'
  BY <1>1, <1>2, <1>3 DEF MediaInv, UploadsAreNew, CidsOf
<1>10. PlacesAreHeld'
  BY <1>1 DEF PlacesAreHeld
<1> QED BY <1>6, <1>7, <1>8, <1>9, <1>10 DEF MediaInv

\* What leaves the images, the requests and the editor alone.
LEMMA MediaFrame ==
  ASSUME MediaInv, UNCHANGED <<images, uploads, previews, editorVars, urls>>
  PROVE  MediaInv'
BY DEF MediaInv, MediaTyped, OneImageEach, OwnersApart, UrlsAreOwned, UploadsAreNew,
       PlacesAreHeld, editorVars

-----------------------------------------------------------------------------
(* Uploads and previews. *)

LEMMA FiniteLive == ASSUME MediaInv PROVE IsFiniteSet(LiveCids(uploads))
<1>1. LiveCids(uploads) \subseteq UploadIds
  BY DEF MediaInv, MediaTyped, UploadRequest, LiveCids, CidsOf
<1> QED BY <1>1, FiniteIds, FS_Subset

LEMMA StartUploadKeeps ==
  ASSUME MediaInv, NEW c \in UploadIds, StartUpload(c)
  PROVE  MediaInv'
<1> DEFINE u == [cid |-> c, current |-> TRUE, live |-> TRUE]
<1>1. /\ reserved' = reserved + 1 /\ uploads' = uploads \cup {u}
      /\ UNCHANGED <<images, previews, registry, waiting, erased, urls>>
  BY DEF StartUpload
<1>2. c \notin CidsOf(uploads) /\ c \notin CidsOf(images) /\ c \notin DOMAIN registry
  BY DEF StartUpload, CidsOf
<1>3. u \in UploadRequest /\ u.cid = c /\ u.live
  BY DEF UploadRequest
<1> HIDE DEF u
<1>4. MediaTyped'
  BY <1>1, <1>3 DEF MediaInv, MediaTyped
<1>5. OneImageEach' /\ OwnersApart' /\ UrlsAreOwned'
  BY <1>1 DEF MediaInv, OneImageEach, OwnersApart, UrlsAreOwned
<1>6. UploadsAreNew'
  BY <1>1, <1>2, <1>3 DEF MediaInv, UploadsAreNew, CidsOf
<1>7. PlacesAreHeld'
  <2>1. LiveCids(uploads') = LiveCids(uploads) \cup {c}
    BY <1>1, <1>3 DEF LiveCids, CidsOf
  <2>2. c \notin LiveCids(uploads)
    BY <1>2 DEF LiveCids, CidsOf
  <2>3. Cardinality(LiveCids(uploads) \cup {c}) = Cardinality(LiveCids(uploads)) + 1
    BY <2>2, FiniteLive, FS_AddElement
  <2>4. Cardinality(LiveCids(uploads)) \in Nat
    BY FiniteLive, FS_CardinalityType
  <2>5. Len(waiting) \in Nat
    BY LenProperties DEF MediaInv, MediaTyped
  <2>6. reserved = Cardinality(LiveCids(uploads)) + Len(waiting)
    BY DEF MediaInv, PlacesAreHeld
  <2>7. Cardinality(LiveCids(uploads')) = Cardinality(LiveCids(uploads)) + 1
    BY <2>1, <2>3
  <2>8. reserved' = Cardinality(LiveCids(uploads')) + Len(waiting)
    BY <1>1, <2>4, <2>5, <2>6, <2>7
  <2> QED BY <1>1, <2>8 DEF PlacesAreHeld
<1> QED BY <1>4, <1>5, <1>6, <1>7 DEF MediaInv

\* The live content ids when a request has settled.
LEMMA SettledLive ==
  ASSUME MediaInv, NEW u \in uploads
  PROVE  /\ u.live => /\ LiveCids(uploads \ {u}) = LiveCids(uploads) \ {u.cid}
                      /\ Cardinality(LiveCids(uploads \ {u})) + 1 = Cardinality(LiveCids(uploads))
         /\ ~u.live => LiveCids(uploads \ {u}) = LiveCids(uploads)
         /\ Cardinality(LiveCids(uploads \ {u})) \in Nat
<1>1. \A v \in uploads : v.cid = u.cid => v = u
  BY DEF MediaInv, UploadsAreNew
<1>2. IsFiniteSet(LiveCids(uploads)) /\ Cardinality(LiveCids(uploads)) \in Nat
  BY FiniteLive, FS_CardinalityType
<1>3. CASE u.live
  <2>1. LiveCids(uploads \ {u}) = LiveCids(uploads) \ {u.cid} /\ u.cid \in LiveCids(uploads)
    BY <1>1, <1>3 DEF LiveCids, CidsOf
  <2>2. /\ IsFiniteSet(LiveCids(uploads) \ {u.cid})
        /\ Cardinality(LiveCids(uploads) \ {u.cid}) = Cardinality(LiveCids(uploads)) - 1
    BY <1>2, <2>1, FS_RemoveElement
  <2>3. Cardinality(LiveCids(uploads) \ {u.cid}) \in Nat
    BY <2>2, FS_CardinalityType
  <2> QED BY <1>2, <1>3, <2>1, <2>2, <2>3
<1>4. CASE ~u.live
  <2>1. LiveCids(uploads \ {u}) = LiveCids(uploads)
    BY <1>4 DEF LiveCids, CidsOf
  <2> QED BY <1>2, <1>4, <2>1
<1> QED BY <1>3, <1>4

LEMMA UploadFailsKeeps ==
  ASSUME MediaInv, NEW u \in uploads, UploadFails(u)
  PROVE  MediaInv'
<1>1. /\ uploads' = uploads \ {u} /\ reserved' = IF u.live THEN reserved - 1 ELSE reserved
      /\ UNCHANGED <<images, previews, registry, waiting, erased, urls>>
  BY DEF UploadFails, GiveBack
<1>2. reserved = Cardinality(LiveCids(uploads)) + Len(waiting) /\ Len(waiting) \in Nat
  BY LenProperties DEF MediaInv, MediaTyped, PlacesAreHeld
<1>3. reserved' = Cardinality(LiveCids(uploads')) + Len(waiting) /\ reserved' \in Nat
  <2>1. CASE u.live
    <3>1. /\ Cardinality(LiveCids(uploads')) + 1 = Cardinality(LiveCids(uploads))
          /\ Cardinality(LiveCids(uploads')) \in Nat
      BY <1>1, <2>1, SettledLive
    <3>2. reserved' = reserved - 1
      BY <1>1, <2>1
    <3> QED BY <1>2, <3>1, <3>2
  <2>2. CASE ~u.live
    <3>1. LiveCids(uploads') = LiveCids(uploads) /\ Cardinality(LiveCids(uploads')) \in Nat
      BY <1>1, <2>2, SettledLive
    <3>2. reserved' = reserved
      BY <1>1, <2>2
    <3> QED BY <1>2, <3>1, <3>2
  <2> QED BY <2>1, <2>2
<1>4. MediaTyped'
  BY <1>1, <1>3 DEF MediaInv, MediaTyped
<1>5. OneImageEach' /\ OwnersApart' /\ UrlsAreOwned'
  BY <1>1 DEF MediaInv, OneImageEach, OwnersApart, UrlsAreOwned
<1>6. UploadsAreNew'
  BY <1>1 DEF MediaInv, UploadsAreNew
<1>7. PlacesAreHeld'
  BY <1>1, <1>3 DEF PlacesAreHeld
<1> QED BY <1>4, <1>5, <1>6, <1>7 DEF MediaInv

\* The image joins the list; the editor joins it while it shows that document.
LEMMA UploadArrivesKeeps ==
  ASSUME MediaInv, NEW u \in uploads, UploadArrives(u)
  PROVE  MediaInv'
<1> DEFINE shown == FreshUrl(urls)
           own == FreshUrl(urls \cup {shown})
           image == [cid |-> u.cid, url |-> shown, staged |-> TRUE]
           next == {i \in images : i.cid # u.cid} \cup {image}
           kept == urls \ Dropped(images, next)
<1>1. /\ uploads' = uploads \ {u} /\ images' = next
      /\ IF u.live
         THEN /\ registry' = [c \in DOMAIN registry \cup {u.cid} |->
                                IF c = u.cid THEN own ELSE registry[c]]
              /\ waiting' = Append(waiting, u.cid)
              /\ urls' = kept \cup {shown, own}
         ELSE urls' = kept \cup {shown} /\ UNCHANGED <<registry, waiting>>
      /\ UNCHANGED <<previews, reserved, erased>>
  BY DEF UploadArrives
<1>2. shown \in Url /\ shown \notin urls /\ own \in Url /\ own \notin urls /\ own # shown
  BY RoomForTwo
<1>3. u.cid \in UploadIds /\ u.cid \notin CidsOf(images) /\ u.cid \notin DOMAIN registry
  BY DEF MediaInv, MediaTyped, UploadRequest, UploadsAreNew
<1> HIDE DEF shown, own
<1>4. image \in Image /\ image.cid = u.cid /\ image.url = shown
  BY <1>2, <1>3 DEF Image, ContentIds
<1>5. next = images \cup {image}
  BY <1>3 DEF CidsOf
<1> HIDE DEF image, next
<1>6. UrlsOf(next) = UrlsOf(images) \cup {shown}
  BY <1>4, <1>5 DEF UrlsOf
<1>7. kept = urls
  BY <1>6 DEF Dropped
<1> HIDE DEF kept
<1>8. urls = UrlsOf(images) \cup RegistryUrls(registry) /\ UrlsOf(images) \cap RegistryUrls(registry) = {}
  BY DEF MediaInv, UrlsAreOwned, OwnersApart
<1>9. OneImageEach'
  BY <1>1, <1>3, <1>4, <1>5 DEF MediaInv, OneImageEach, CidsOf
<1>10. CidsOf(images') = CidsOf(images) \cup {u.cid}
  BY <1>1, <1>4, <1>5 DEF CidsOf
<1>11. \A v \in uploads' : v \in uploads /\ v.cid # u.cid
  BY <1>1 DEF MediaInv, UploadsAreNew
<1>12. reserved = Cardinality(LiveCids(uploads)) + Len(waiting) /\ Len(waiting) \in Nat
  BY LenProperties DEF MediaInv, MediaTyped, PlacesAreHeld
<1>13. images' \subseteq Image /\ uploads' \subseteq UploadRequest
  BY <1>1, <1>4, <1>5 DEF MediaInv, MediaTyped
<1>14. CASE u.live
  <2>1. /\ registry' = [c \in DOMAIN registry \cup {u.cid} |-> IF c = u.cid THEN own ELSE registry[c]]
        /\ waiting' = Append(waiting, u.cid) /\ urls' = urls \cup {shown, own}
    BY <1>1, <1>7, <1>14
  <2>2. DOMAIN registry' = DOMAIN registry \cup {u.cid}
    BY <2>1
  <2>3. RegistryUrls(registry') = RegistryUrls(registry) \cup {own}
    <3>1. registry'[u.cid] = own /\ \A c \in DOMAIN registry : registry'[c] = registry[c]
      BY <1>3, <2>1
    <3> QED BY <2>2, <3>1, <1>3 DEF RegistryUrls
  <2>4. waiting' \in Seq(UploadIds) /\ Len(waiting') = Len(waiting) + 1
    BY <1>3, <2>1 DEF MediaInv, MediaTyped
  <2>5. MediaTyped'
    BY <1>1, <1>2, <1>3, <1>13, <2>1, <2>2, <2>4 DEF MediaInv, MediaTyped
  <2>6. OwnersApart' /\ UrlsAreOwned'
    <3>1. UrlsOf(images') = UrlsOf(images) \cup {shown}
      BY <1>1, <1>6
    <3>2. urls' = UrlsOf(images') \cup RegistryUrls(registry')
      BY <1>8, <2>1, <2>3, <3>1
    <3>3. UrlsOf(images') \cap RegistryUrls(registry') = {}
      BY <1>2, <1>8, <2>3, <3>1
    <3> QED BY <3>2, <3>3 DEF OwnersApart, UrlsAreOwned
  <2>7. UploadsAreNew'
    BY <1>1, <1>10, <1>11, <2>2 DEF MediaInv, UploadsAreNew
  <2>8. PlacesAreHeld'
    <3>1. /\ Cardinality(LiveCids(uploads')) + 1 = Cardinality(LiveCids(uploads))
          /\ Cardinality(LiveCids(uploads')) \in Nat
      BY <1>1, <1>14, SettledLive
    <3>2. reserved' = reserved
      BY <1>1
    <3>3. reserved' = Cardinality(LiveCids(uploads')) + Len(waiting')
      BY <1>12, <2>4, <3>1, <3>2
    <3> QED BY <3>3 DEF PlacesAreHeld
  <2> QED BY <1>9, <2>5, <2>6, <2>7, <2>8 DEF MediaInv
<1>15. CASE ~u.live
  <2>1. urls' = urls \cup {shown} /\ UNCHANGED <<registry, waiting>>
    BY <1>1, <1>7, <1>15
  <2>2. MediaTyped'
    BY <1>1, <1>2, <1>13, <2>1 DEF MediaInv, MediaTyped
  <2>3. OwnersApart' /\ UrlsAreOwned'
    BY <1>1, <1>2, <1>6, <1>8, <2>1 DEF OwnersApart, UrlsAreOwned
  <2>4. UploadsAreNew'
    BY <1>1, <1>10, <1>11, <2>1 DEF MediaInv, UploadsAreNew
  <2>5. PlacesAreHeld'
    <3>1. LiveCids(uploads') = LiveCids(uploads)
      BY <1>1, <1>15, SettledLive
    <3> QED BY <1>1, <1>12, <2>1, <3>1 DEF PlacesAreHeld
  <2> QED BY <1>9, <2>2, <2>3, <2>4, <2>5 DEF MediaInv
<1> QED BY <1>14, <1>15

\* The previews that could be read replace the list.
LEMMA PreviewsKeep ==
  ASSUME MediaInv, NEW p \in previews, NEW got, PreviewsArrive(p, got)
  PROVE  MediaInv'
<1>1. /\ got \subseteq p.cids /\ previews' = previews \ {p}
      /\ UNCHANGED <<uploads, registry, waiting, reserved, erased>>
  BY DEF PreviewsArrive, editorVars
<1>2. got \subseteq PersistedIds
  BY <1>1 DEF MediaInv, MediaTyped, PreviewRequest
<1>3. CASE ~p.current
  <2>1. UNCHANGED <<images, urls>>
    BY <1>3 DEF PreviewsArrive
  <2> QED BY <1>1, <2>1 DEF MediaInv, MediaTyped, OneImageEach, OwnersApart, UrlsAreOwned,
                            UploadsAreNew, PlacesAreHeld
<1>4. CASE p.current
  <2>1. PICK next \in [got -> Url \ urls] :
          /\ images' = {[cid |-> c, url |-> next[c], staged |-> FALSE] : c \in got}
          /\ urls' = (urls \ Dropped(images, images')) \cup UrlsOf(images')
    BY <1>4 DEF PreviewsArrive
  <2>2. \A i \in images' : /\ i.cid \in got /\ i.url = next[i.cid] /\ i.url \in Url \ urls
                           /\ i = [cid |-> i.cid, url |-> next[i.cid], staged |-> FALSE]
    BY <2>1
  <2>3. images' \subseteq Image
    <3>1. ASSUME NEW c \in got
          PROVE  [cid |-> c, url |-> next[c], staged |-> FALSE] \in Image
      <4>1. c \in ContentIds /\ next[c] \in Url
        BY <1>2 DEF ContentIds
      <4> QED BY <4>1 DEF Image
    <3> QED BY <2>1, <3>1
  <2>4. OneImageEach'
    BY <2>2 DEF OneImageEach
  <2>5. UrlsOf(images') \cap urls = {} /\ UrlsOf(images') \subseteq Url
    BY <2>2 DEF UrlsOf
  <2>6. MediaTyped'
    BY <1>1, <2>1, <2>3, <2>5 DEF MediaInv, MediaTyped
  <2>7. OwnersApart' /\ UrlsAreOwned'
    <3>1. urls = UrlsOf(images) \cup RegistryUrls(registry) /\ UrlsOf(images) \cap RegistryUrls(registry) = {}
      BY DEF MediaInv, UrlsAreOwned, OwnersApart
    <3>2. Dropped(images, images') = UrlsOf(images) \ UrlsOf(images')
      BY DEF Dropped
    <3> QED BY <1>1, <2>1, <2>5, <3>1, <3>2 DEF OwnersApart, UrlsAreOwned
  <2>8. UploadsAreNew'
    <3>1. \A u \in uploads : u.cid \in UploadIds
      BY DEF MediaInv, MediaTyped, UploadRequest
    <3>2. \A u \in uploads : u.cid \notin CidsOf(images')
      BY <3>1, <1>2, <2>2, IdsApart DEF CidsOf
    <3> QED BY <1>1, <3>2 DEF MediaInv, UploadsAreNew
  <2>9. PlacesAreHeld'
    BY <1>1 DEF MediaInv, PlacesAreHeld
  <2> QED BY <2>4, <2>6, <2>7, <2>8, <2>9 DEF MediaInv
<1> QED BY <1>3, <1>4

-----------------------------------------------------------------------------
(* One lemma for each action. *)

\* What is attached besides files does not make place for one.
LEMMA FilesAreCounted ==
  ASSUME ComposeInv, AttachmentCount < MaxFiles
  PROVE  newFiles + 1 \in 0..MaxFiles
<1>1. Staged \subseteq ContentIds /\ Retained \subseteq AttachmentIds /\ Forwarded \subseteq AttachmentIds
  BY DEF ComposeInv, WrittenInv, MediaInv, MediaTyped, Image, Staged, Retained, Forwarded
<1>2. IsFiniteSet(Staged) /\ IsFiniteSet(Retained) /\ IsFiniteSet(Forwarded)
  BY <1>1, FiniteIds, FS_Subset
<1>3. /\ Cardinality(Staged) \in Nat /\ Cardinality(Retained) \in Nat
      /\ Cardinality(Forwarded) \in Nat
  BY <1>2, FS_CardinalityType
<1>4. newFiles \in Nat /\ MaxFiles \in Nat
  BY ComposeAssumption DEF ComposeAssumption, ComposeInv, WrittenInv
<1>5. newFiles + Cardinality(Staged) + Cardinality(Retained) + Cardinality(Forwarded) < MaxFiles
  BY DEF AttachmentCount
<1> HIDE DEF Staged, Retained, Forwarded
<1> QED BY <1>3, <1>4, <1>5

LEMMA ActsAreBounded ==
  ASSUME WrittenInv, ComposeAct
  PROVE  composeActs' \in 0..MaxComposeActs
BY ComposeAssumption DEF WrittenInv, ComposeAct, ComposeAssumption

LEMMA EmptyFormTyped ==
  /\ EmptyBody \in Body /\ NotEditing \in Edited /\ ClosedForm \in Opened
  /\ [how |-> "new", from |-> NoStored] \in Opened
BY DEF EmptyBody, Body, NotEditing, Edited, ClosedForm, Opened

LEMMA BodyOf ==
  ASSUME NEW m \in StoredMails
  PROVE  /\ [cids |-> InlineOf[m], text |-> 1] \in Body /\ [cids |-> {}, text |-> 1] \in Body
         /\ InlineOf[m] \cup FilesOf[m] \subseteq AttachmentIds
<1>1. InlineOf[m] \subseteq PersistedIds /\ FilesOf[m] \subseteq UNION {FilesOf[n] : n \in StoredMails}
  BY DEF PersistedIds
<1> QED BY <1>1 DEF Body, ContentIds, AttachmentIds

LEMMA BodyFields ==
  /\ \A b \in Body : b.cids \subseteq ContentIds /\ b.text \in 0..2
  /\ \A b \in Body, cids \in SUBSET ContentIds : [b EXCEPT !.cids = cids] \in Body
  /\ \A b \in Body, text \in 0..2 : [b EXCEPT !.text = text] \in Body
BY DEF Body

LEMMA OpenNewKeeps == ASSUME ComposeInv, OpenNew PROVE ComposeInv'
<1>1. MediaInv /\ WrittenInv
  BY DEF ComposeInv
<1>2. MediaInv'
  <2>1. ReplaceBody(EmptyBody, Overtaken(uploads), Dropped(images, {}))
        /\ images' = {} /\ previews' = Overtaken(previews)
    BY DEF OpenNew
  <2>2. ListGone(Dropped(images, {}))
    BY <2>1, DroppedAll DEF ListGone
  <2> QED BY <1>1, <2>1, <2>2, OvertakenKept, PreviewsOvertaken, ReplaceKeeps
<1>3. WrittenInv'
  <2>1. body' = EmptyBody
    BY DEF OpenNew, ReplaceBody
  <2>2. /\ composing' = TRUE /\ opened' = [how |-> "new", from |-> NoStored]
        /\ editing' = NotEditing /\ retained' = {} /\ forwarded' = {} /\ newFiles' = 0
        /\ UNCHANGED <<writerIn, formBusy, submissions>> /\ ComposeAct
    BY DEF OpenNew
  <2>3. composeActs' \in 0..MaxComposeActs /\ 0 \in 0..MaxFiles
    BY <1>1, <2>2, ActsAreBounded, ComposeAssumption DEF ComposeAssumption
  <2> QED BY <1>1, <2>1, <2>2, <2>3, EmptyFormTyped DEF WrittenInv
<1> QED BY <1>2, <1>3 DEF ComposeInv

LEMMA EditStoredKeeps ==
  ASSUME ComposeInv, NEW m \in StoredMails, EditStored(m)
  PROVE  ComposeInv'
<1>1. MediaInv /\ WrittenInv
  BY DEF ComposeInv
<1> DEFINE b == [cids |-> InlineOf[m], text |-> 1]
<1>2. MediaInv'
  <2>1. ReplaceBody(b, Overtaken(uploads), Dropped(images, {}))
        /\ images' = {} /\ previews' = Hydrate(m)
    BY DEF EditStored
  <2>2. ListGone(Dropped(images, {}))
    BY <2>1, DroppedAll DEF ListGone
  <2> QED BY <1>1, <2>1, <2>2, OvertakenKept, PreviewsHydrated, ReplaceKeeps
<1>3. WrittenInv'
  <2>1. body' = b
    BY DEF EditStored, ReplaceBody
  <2>2. /\ composing' = TRUE /\ opened' = [how |-> "edit", from |-> m]
        /\ editing' = IF StoredKind[m] = "draft" THEN [NotEditing EXCEPT !.draft = m]
                      ELSE [NotEditing EXCEPT !.scheduled = m]
        /\ retained' = InlineOf[m] \cup FilesOf[m] /\ forwarded' = {} /\ newFiles' = 0
        /\ UNCHANGED <<writerIn, formBusy, submissions>> /\ ComposeAct
    BY DEF EditStored
  <2>3. composeActs' \in 0..MaxComposeActs /\ 0 \in 0..MaxFiles
    BY <1>1, <2>2, ActsAreBounded, ComposeAssumption DEF ComposeAssumption
  <2>4. opened' \in Opened
    BY <2>2 DEF Opened
  <2>5. editing' \in Edited
    BY <2>2 DEF Edited, NotEditing
  <2>6. body' \in Body /\ retained' \subseteq AttachmentIds
    BY <2>1, <2>2, BodyOf
  <2> QED BY <1>1, <2>2, <2>3, <2>4, <2>5, <2>6 DEF WrittenInv
<1> QED BY <1>2, <1>3 DEF ComposeInv

LEMMA OpenFromDetailKeeps ==
  ASSUME ComposeInv, NEW m \in StoredMails, NEW how \in {"reply", "forward"},
         OpenFromDetail(m, how)
  PROVE  ComposeInv'
<1>1. MediaInv /\ WrittenInv
  BY DEF ComposeInv
<1>2. MediaInv'
  <2>1. CASE how = "forward"
    <3>1. ReplaceBody([cids |-> InlineOf[m], text |-> 1], Overtaken(uploads), Dropped(images, {}))
          /\ images' = {} /\ previews' = Hydrate(m)
      BY <2>1 DEF OpenFromDetail
    <3>2. ListGone(Dropped(images, {}))
      BY <3>1, DroppedAll DEF ListGone
    <3> QED BY <1>1, <3>1, <3>2, OvertakenKept, PreviewsHydrated, ReplaceKeeps
  <2>2. CASE how # "forward"
    <3>1. ReplaceBody([cids |-> {}, text |-> 1], uploads, {}) /\ UNCHANGED <<images, previews>>
      BY <2>2 DEF OpenFromDetail
    <3>2. ListGone({}) /\ PreviewsOf(previews')
      BY <1>1, <3>1 DEF ListGone, MediaInv, MediaTyped, PreviewsOf
    <3> QED BY <1>1, <3>1, <3>2, UploadsKept, ReplaceKeeps
  <2> QED BY <2>1, <2>2
<1>3. WrittenInv'
  <2>1. body' \in {[cids |-> InlineOf[m], text |-> 1], [cids |-> {}, text |-> 1]}
    BY DEF OpenFromDetail, ReplaceBody
  <2>2. /\ composing' = TRUE /\ opened' = [how |-> how, from |-> m] /\ newFiles' = 0
        /\ forwarded' = {} \/ forwarded' = InlineOf[m] \cup FilesOf[m]
        /\ UNCHANGED <<writerIn, editing, retained, formBusy, submissions>> /\ ComposeAct
    BY DEF OpenFromDetail
  <2>3. composeActs' \in 0..MaxComposeActs /\ 0 \in 0..MaxFiles
    BY <1>1, <2>2, ActsAreBounded, ComposeAssumption DEF ComposeAssumption
  <2>4. opened' \in Opened
    BY <2>2 DEF Opened
  <2>5. body' \in Body /\ forwarded' \subseteq AttachmentIds
    BY <2>1, <2>2, BodyOf
  <2> QED BY <1>1, <2>2, <2>3, <2>4, <2>5 DEF WrittenInv
<1> QED BY <1>2, <1>3 DEF ComposeInv

LEMMA LeaveWindowKeeps == ASSUME ComposeInv, LeaveWindow PROVE ComposeInv'
<1>1. MediaInv /\ WrittenInv
  BY DEF ComposeInv
<1>2. UnmountEditor(uploads, {}) /\ UNCHANGED <<images, previews>>
  BY DEF LeaveWindow
<1>3. ListGone({}) /\ PreviewsOf(previews')
  BY <1>1, <1>2 DEF ListGone, MediaInv, MediaTyped, PreviewsOf
<1>4. MediaInv'
  BY <1>1, <1>2, <1>3, UploadsKept, UnmountKeeps
<1>5. /\ composing' = FALSE /\ ComposeAct
      /\ UNCHANGED <<writerIn, body, opened, editing, retained, forwarded, newFiles, formBusy,
                     submissions>>
  BY DEF LeaveWindow, Writes
<1>6. WrittenInv'
  BY <1>1, <1>5, ActsAreBounded DEF WrittenInv
<1> QED BY <1>4, <1>6 DEF ComposeInv

\* The form is cleared, whoever does it.
LEMMA ClearFormKeeps ==
  ASSUME ComposeInv, ClearForm, composeActs' \in 0..MaxComposeActs, UNCHANGED writerIn,
         formBusy' \in BOOLEAN, submissions' \subseteq Submission
  PROVE  ComposeInv'
<1>1. MediaInv /\ WrittenInv
  BY DEF ComposeInv
<1>2. /\ UnmountEditor(Overtaken(uploads), Dropped(images, {}))
      /\ images' = {} /\ previews' = Overtaken(previews)
  BY DEF ClearForm
<1>3. ListGone(Dropped(images, {}))
  BY <1>2, DroppedAll DEF ListGone
<1>4. MediaInv'
  BY <1>1, <1>2, <1>3, OvertakenKept, PreviewsOvertaken, UnmountKeeps
<1>5. /\ composing' = FALSE /\ opened' = ClosedForm /\ body' = EmptyBody
      /\ editing' = NotEditing /\ retained' = {} /\ forwarded' = {} /\ newFiles' = 0
  BY DEF ClearForm
<1>6. 0 \in 0..MaxFiles
  BY ComposeAssumption DEF ComposeAssumption
<1>7. WrittenInv'
  BY <1>1, <1>5, <1>6, EmptyFormTyped DEF WrittenInv
<1> QED BY <1>4, <1>7 DEF ComposeInv

LEMMA CloseWindowKeeps == ASSUME ComposeInv, CloseWindow PROVE ComposeInv'
<1>1. ClearForm /\ ComposeAct /\ UNCHANGED <<writerIn, formBusy, submissions>>
  BY DEF CloseWindow, Writes
<1>2. composeActs' \in 0..MaxComposeActs
  BY <1>1, ActsAreBounded DEF ComposeInv
<1>3. formBusy' \in BOOLEAN /\ submissions' \subseteq Submission
  BY <1>1 DEF ComposeInv, WrittenInv
<1> QED BY <1>1, <1>2, <1>3, ClearFormKeeps

LEMMA LeavePortalKeeps == ASSUME ComposeInv, LeavePortal PROVE ComposeInv'
<1>1. MediaInv /\ WrittenInv
  BY DEF ComposeInv
<1>2. UnmountEditor(uploads, {}) /\ UNCHANGED <<images, previews>>
  BY DEF LeavePortal
<1>3. ListGone({}) /\ PreviewsOf(previews')
  BY <1>1, <1>2 DEF ListGone, MediaInv, MediaTyped, PreviewsOf
<1>4. MediaInv'
  BY <1>1, <1>2, <1>3, UploadsKept, UnmountKeeps
<1>5. /\ writerIn' = FALSE /\ composing' = FALSE /\ opened' = ClosedForm /\ ComposeAct
      /\ body' = EmptyBody /\ newFiles' = 0 /\ forwarded' = {}
      /\ UNCHANGED <<editing, retained, formBusy, submissions>>
  BY DEF LeavePortal
<1>6. 0 \in 0..MaxFiles
  BY ComposeAssumption DEF ComposeAssumption
<1>7. WrittenInv'
  BY <1>1, <1>5, <1>6, ActsAreBounded, EmptyFormTyped DEF WrittenInv
<1> QED BY <1>4, <1>7 DEF ComposeInv

\* Writing: the next body has the ids of this one and perhaps one more.
LEMMA ChangeDocumentKeeps ==
  ASSUME ComposeInv, NEW next \in Body, NEW seq \in Seq(UploadIds), NEW held \in Nat,
         held = Cardinality(LiveCids(uploads)) + Len(seq),
         ChangeDocument(next, seq, held), ComposeAct, erased' \subseteq ContentIds
  PROVE  ComposeInv'
<1>1. MediaInv'
  BY ChangeKeeps DEF ComposeInv
<1>2. /\ body' = next
      /\ UNCHANGED <<writerIn, composing, opened, editing, retained, forwarded, newFiles,
                     formBusy, submissions>>
  BY DEF ChangeDocument
<1>3. WrittenInv'
  BY <1>2, ActsAreBounded DEF ComposeInv, WrittenInv
<1> QED BY <1>1, <1>3 DEF ComposeInv

LEMMA EditorState ==
  ASSUME ComposeInv
  PROVE  /\ body \in Body /\ waiting \in Seq(UploadIds) /\ reserved \in Nat
         /\ reserved = Cardinality(LiveCids(uploads)) + Len(waiting)
         /\ erased \subseteq ContentIds /\ Cardinality(LiveCids(uploads)) \in Nat
BY FiniteLive, FS_CardinalityType DEF ComposeInv, WrittenInv, MediaInv, MediaTyped, PlacesAreHeld

LEMMA TypeKeeps == ASSUME ComposeInv, Type PROVE ComposeInv'
<1> DEFINE next == [body EXCEPT !.text = IF @ = 1 THEN 2 ELSE 1]
<1>1. ChangeDocument(next, waiting, reserved) /\ ComposeAct /\ erased' = erased
  BY DEF Type, WritesInEditor, Writes
<1>2. next \in Body
  BY EditorState DEF Body
<1> HIDE DEF next
<1> QED BY <1>1, <1>2, EditorState, ChangeDocumentKeeps

LEMMA EraseImageKeeps ==
  ASSUME ComposeInv, NEW c \in ContentIds, EraseImage(c)
  PROVE  ComposeInv'
<1> DEFINE next == [body EXCEPT !.cids = @ \ {c}]
<1>1. ChangeDocument(next, waiting, reserved) /\ ComposeAct /\ erased' = erased \cup {c}
  BY DEF EraseImage, WritesInEditor, Writes
<1>2. next \in Body
  BY EditorState DEF Body
<1>3. erased' \subseteq ContentIds
  BY <1>1, EditorState
<1> HIDE DEF next
<1> QED BY <1>1, <1>2, <1>3, EditorState, ChangeDocumentKeeps

LEMMA RestoreImageKeeps ==
  ASSUME ComposeInv, NEW c \in ContentIds, RestoreImage(c)
  PROVE  ComposeInv'
<1> DEFINE next == [body EXCEPT !.cids = @ \cup {c}]
<1>1. ChangeDocument(next, waiting, reserved) /\ ComposeAct /\ erased' = erased \ {c}
  BY DEF RestoreImage, WritesInEditor, Writes
<1>2. next \in Body
  BY EditorState DEF Body
<1>3. erased' \subseteq ContentIds
  BY <1>1, EditorState
<1> HIDE DEF next
<1> QED BY <1>1, <1>2, <1>3, EditorState, ChangeDocumentKeeps

\* The image at the head of the queue has had its place until now.
LEMMA InsertImageKeeps == ASSUME ComposeInv, InsertImage PROVE ComposeInv'
<1> DEFINE next == [body EXCEPT !.cids = @ \cup {Head(waiting)}]
           held == reserved - 1
           seq == Tail(waiting)
<1>1. /\ ChangeDocument(next, seq, held) /\ ComposeAct /\ erased' = erased
      /\ waiting # <<>>
  BY DEF InsertImage, WritesInEditor, Writes
<1>2. Head(waiting) \in UploadIds /\ seq \in Seq(UploadIds) /\ Len(seq) = Len(waiting) - 1
  BY <1>1, EditorState, HeadTailProperties
<1>3. Len(seq) \in Nat /\ Len(waiting) \in Nat
  BY <1>2, EditorState, LenProperties
<1>4. next \in Body
  BY <1>2, EditorState DEF Body, ContentIds
<1>5. held \in Nat /\ held = Cardinality(LiveCids(uploads)) + Len(seq)
  BY <1>2, <1>3, EditorState
<1> HIDE DEF next, held, seq
<1> QED BY <1>1, <1>2, <1>4, <1>5, EditorState, ChangeDocumentKeeps

\* Actions of the form alone.
LEMMA FormStepKeeps ==
  ASSUME ComposeInv,
         \/ EnterPortal \/ OtherLoading \/ AddFile \/ RemoveFile
         \/ \E a \in AttachmentIds : RemoveAttachment(a)
         \/ \E action \in {"draft", "send", "schedule"} : Submit(action)
  PROVE  ComposeInv'
<1>1. WrittenInv
  BY DEF ComposeInv
<1>2. UNCHANGED <<images, uploads, previews, editorVars, urls>>
  BY DEF EnterPortal, OtherLoading, AddFile, RemoveFile, RemoveAttachment, Submit
<1>3. MediaInv'
  BY <1>2, MediaFrame DEF ComposeInv
<1>4. composeActs' \in 0..MaxComposeActs
  BY <1>1, ActsAreBounded
     DEF EnterPortal, OtherLoading, AddFile, RemoveFile, RemoveAttachment, Submit, Writes
<1>5. ASSUME EnterPortal \/ OtherLoading PROVE WrittenInv'
  BY <1>1, <1>4, <1>5 DEF WrittenInv, EnterPortal, OtherLoading
<1>6. ASSUME AddFile PROVE WrittenInv'
  <2>1. newFiles' \in 0..MaxFiles
    BY <1>6, FilesAreCounted DEF AddFile
  <2> QED BY <1>1, <1>4, <1>6, <2>1 DEF WrittenInv, AddFile
<1>7. ASSUME RemoveFile PROVE WrittenInv'
  <2>1. newFiles' \in 0..MaxFiles
    BY <1>1, <1>7, ComposeAssumption DEF WrittenInv, RemoveFile, ComposeAssumption
  <2> QED BY <1>1, <1>4, <1>7, <2>1 DEF WrittenInv, RemoveFile
<1>8. ASSUME NEW a \in AttachmentIds, RemoveAttachment(a) PROVE WrittenInv'
  BY <1>1, <1>4, <1>8 DEF WrittenInv, RemoveAttachment
<1>9. ASSUME NEW action \in {"draft", "send", "schedule"}, Submit(action) PROVE WrittenInv'
  <2> DEFINE s == [action |-> action, opened |-> opened, editing |-> editing, body |-> body,
                   stage |-> IF action = "draft" THEN "sent" ELSE "resolving"]
  <2>1. s \in Submission
    BY <1>1 DEF WrittenInv, Submission
  <2>2. /\ submissions' = submissions \cup {s} /\ formBusy' \in BOOLEAN
        /\ UNCHANGED <<writerIn, composing, opened, body, editing, retained, forwarded, newFiles>>
    BY <1>9 DEF Submit
  <2> HIDE DEF s
  <2> QED BY <1>1, <1>4, <2>1, <2>2 DEF WrittenInv
<1> QED BY <1>3, <1>5, <1>6, <1>7, <1>8, <1>9 DEF ComposeInv

\* Submissions: only the resolution of the recipients and the reset change the form.
LEMMA StageFields ==
  \A s \in Submission :
    /\ s.body \in Body
    /\ \A stage \in {"resolving", "confirming", "sent", "done"} : [s EXCEPT !.stage = stage] \in Submission
BY DEF Submission

LEMMA ThenTyped ==
  ASSUME ComposeInv, NEW s \in submissions, NEW stage \in {"resolving", "confirming", "sent", "done"}
  PROVE  Then(s, stage) \subseteq Submission
BY StageFields DEF ComposeInv, WrittenInv, Then

LEMMA RecipientsKeep ==
  ASSUME ComposeInv, NEW s \in submissions, RecipientsResolved(s)
  PROVE  ComposeInv'
<1>1. MediaInv /\ WrittenInv
  BY DEF ComposeInv
<1>2. ReplaceBody(s.body, uploads, {}) /\ UNCHANGED <<images, previews>>
  BY DEF RecipientsResolved
<1>3. ListGone({}) /\ PreviewsOf(previews')
  BY <1>1, <1>2 DEF ListGone, MediaInv, MediaTyped, PreviewsOf
<1>4. MediaInv'
  BY <1>1, <1>2, <1>3, UploadsKept, ReplaceKeeps
<1>5. /\ body' = s.body /\ submissions' = Then(s, "confirming")
      /\ UNCHANGED <<composeActs, writerIn, composing, opened, editing, retained, forwarded,
                     newFiles, formBusy>>
  BY DEF RecipientsResolved, ReplaceBody
<1>6. body' \in Body
  BY <1>1, <1>5, StageFields DEF WrittenInv
<1>7. submissions' \subseteq Submission
  BY <1>5, ThenTyped
<1>8. WrittenInv'
  BY <1>1, <1>5, <1>6, <1>7 DEF WrittenInv
<1> QED BY <1>4, <1>8 DEF ComposeInv

LEMMA SubmissionStepKeeps ==
  ASSUME ComposeInv, NEW s \in submissions,
         Confirmed(s) \/ SubmissionFails(s) \/ SubmissionEnds(s)
  PROVE  ComposeInv'
<1>1. MediaInv /\ WrittenInv
  BY DEF ComposeInv
<1>2. UNCHANGED <<images, uploads, previews, editorVars, urls>>
  BY DEF Confirmed, SubmissionFails, SubmissionEnds
<1>3. MediaInv'
  BY <1>1, <1>2, MediaFrame
<1>4. UNCHANGED <<composeActs, writerIn, composing, opened, body, editing, retained, forwarded,
                  newFiles>>
  BY DEF Confirmed, SubmissionFails, SubmissionEnds
<1>5. formBusy' \in BOOLEAN
  BY <1>1 DEF WrittenInv, Confirmed, SubmissionFails, SubmissionEnds
<1>6. submissions' \subseteq Submission
  <2>1. ASSUME Confirmed(s) PROVE submissions' \subseteq Submission
    BY <2>1, ThenTyped DEF Confirmed
  <2>2. ASSUME SubmissionFails(s) \/ SubmissionEnds(s) PROVE submissions' \subseteq Submission
    BY <1>1, <2>2 DEF WrittenInv, SubmissionFails, SubmissionEnds
  <2> QED BY <2>1, <2>2
<1>7. WrittenInv'
  BY <1>1, <1>4, <1>5, <1>6 DEF WrittenInv
<1> QED BY <1>3, <1>7 DEF ComposeInv

LEMMA SubmissionSucceedsKeeps ==
  ASSUME ComposeInv, NEW s \in submissions, SubmissionSucceeds(s)
  PROVE  ComposeInv'
<1>1. ClearForm /\ submissions' = Then(s, "done") /\ UNCHANGED <<composeActs, writerIn, formBusy>>
  BY DEF SubmissionSucceeds
<1>2. submissions' \subseteq Submission
  BY <1>1, ThenTyped
<1>3. composeActs' \in 0..MaxComposeActs /\ formBusy' \in BOOLEAN
  BY <1>1 DEF ComposeInv, WrittenInv
<1> QED BY <1>1, <1>2, <1>3, ClearFormKeeps

LEMMA MediaStepKeeps ==
  ASSUME ComposeInv,
         \/ \E c \in UploadIds : StartUpload(c)
         \/ \E u \in uploads : UploadFails(u) \/ UploadArrives(u)
         \/ \E p \in previews, got \in SUBSET PersistedIds : PreviewsArrive(p, got)
  PROVE  ComposeInv'
<1>1. MediaInv /\ WrittenInv
  BY DEF ComposeInv
<1>2. UNCHANGED <<writerIn, composing, opened, body, editing, retained, forwarded, newFiles,
                  formBusy, submissions>>
  BY DEF StartUpload, UploadFails, UploadArrives, PreviewsArrive
<1>3. composeActs' \in 0..MaxComposeActs
  <2>1. ASSUME NEW c \in UploadIds, StartUpload(c) PROVE composeActs' \in 0..MaxComposeActs
    BY <1>1, <2>1, ActsAreBounded DEF StartUpload, WritesInEditor, Writes
  <2>2. ASSUME UNCHANGED composeActs PROVE composeActs' \in 0..MaxComposeActs
    BY <1>1, <2>2 DEF WrittenInv
  <2> QED BY <2>1, <2>2 DEF UploadFails, UploadArrives, PreviewsArrive
<1>4. WrittenInv'
  BY <1>1, <1>2, <1>3 DEF WrittenInv
<1>5. MediaInv'
  BY <1>1, StartUploadKeeps, UploadFailsKeeps, UploadArrivesKeeps, PreviewsKeep
<1> QED BY <1>4, <1>5 DEF ComposeInv

-----------------------------------------------------------------------------
(* The theorems. *)

LEMMA ComposeInitInv == ComposeInit => ComposeInv
<1> SUFFICES ASSUME ComposeInit PROVE ComposeInv
  OBVIOUS
<1>1. /\ composeActs = 0 /\ writerIn = TRUE /\ composing = FALSE /\ opened = ClosedForm
      /\ body = EmptyBody /\ editing = NotEditing /\ retained = {} /\ forwarded = {}
      /\ newFiles = 0 /\ formBusy = FALSE /\ submissions = {}
  BY DEF ComposeInit
<1>2. 0 \in 0..MaxComposeActs /\ 0 \in 0..MaxFiles
  BY ComposeAssumption DEF ComposeAssumption
<1>3. WrittenInv
  BY <1>1, <1>2, EmptyFormTyped DEF WrittenInv
<1>4. /\ images = {} /\ uploads = {} /\ previews = {} /\ registry = <<>> /\ waiting = <<>>
      /\ reserved = 0 /\ erased = {} /\ urls = {}
  BY DEF ComposeInit
<1>5. DOMAIN registry = {} /\ RegistryUrls(registry) = {} /\ Len(waiting) = 0
  BY <1>4, EmptyRegistry
<1>6. UrlsOf(images) = {} /\ LiveCids(uploads) = {}
  BY <1>4 DEF UrlsOf, LiveCids, CidsOf
<1>7. waiting \in Seq(UploadIds)
  BY <1>4, EmptySeq
<1>8. MediaTyped
  BY <1>4, <1>5, <1>7 DEF MediaTyped
<1>9. PlacesAreHeld
  BY <1>4, <1>5, <1>6, FS_EmptySet DEF PlacesAreHeld
<1>10. OneImageEach /\ OwnersApart /\ UrlsAreOwned /\ UploadsAreNew
  BY <1>4, <1>5, <1>6 DEF OneImageEach, OwnersApart, UrlsAreOwned, UploadsAreNew
<1> QED BY <1>3, <1>8, <1>9, <1>10 DEF ComposeInv, MediaInv

LEMMA ComposeNextInv == ComposeInv /\ [ComposeNext]_composeVars => ComposeInv'
<1> SUFFICES ASSUME ComposeInv, [ComposeNext]_composeVars PROVE ComposeInv'
  OBVIOUS
<1>1. CASE UNCHANGED composeVars
  <2>1. MediaInv'
    BY <1>1, MediaFrame DEF composeVars, ComposeInv, editorVars
  <2>2. WrittenInv'
    BY <1>1 DEF composeVars, ComposeInv, WrittenInv
  <2> QED BY <2>1, <2>2 DEF ComposeInv
<1>2. CASE ComposeStep
  <2>1. CASE OpenNew \/ LeaveWindow \/ CloseWindow \/ LeavePortal
    BY <2>1, OpenNewKeeps, LeaveWindowKeeps, CloseWindowKeeps, LeavePortalKeeps
  <2>2. ASSUME NEW m \in StoredMails, EditStored(m) PROVE ComposeInv'
    BY <2>2, EditStoredKeeps
  <2>3. ASSUME NEW m \in StoredMails, NEW how \in {"reply", "forward"}, OpenFromDetail(m, how)
        PROVE  ComposeInv'
    BY <2>3, OpenFromDetailKeeps
  <2>4. CASE Type \/ InsertImage
    BY <2>4, TypeKeeps, InsertImageKeeps
  <2>5. ASSUME NEW c \in ContentIds, EraseImage(c) \/ RestoreImage(c) PROVE ComposeInv'
    BY <2>5, EraseImageKeeps, RestoreImageKeeps
  <2>6. ASSUME NEW c \in UploadIds, StartUpload(c) PROVE ComposeInv'
    BY <2>6, MediaStepKeeps
  <2>7. ASSUME \/ EnterPortal \/ OtherLoading \/ AddFile \/ RemoveFile
               \/ \E a \in AttachmentIds : RemoveAttachment(a)
               \/ \E action \in {"draft", "send", "schedule"} : Submit(action)
        PROVE  ComposeInv'
    BY <2>7, FormStepKeeps
  <2> QED BY <1>2, <2>1, <2>2, <2>3, <2>4, <2>5, <2>6, <2>7, Zenon DEF ComposeStep
<1>3. CASE ComposeNetwork
  <2>1. ASSUME NEW s \in submissions,
               \/ RecipientsResolved(s) \/ Confirmed(s) \/ SubmissionFails(s)
               \/ SubmissionSucceeds(s) \/ SubmissionEnds(s)
        PROVE  ComposeInv'
    BY <2>1, RecipientsKeep, SubmissionStepKeeps, SubmissionSucceedsKeeps
  <2>2. ASSUME \/ \E u \in uploads : UploadFails(u) \/ UploadArrives(u)
               \/ \E p \in previews, got \in SUBSET PersistedIds : PreviewsArrive(p, got)
        PROVE  ComposeInv'
    BY <2>2, MediaStepKeeps
  <2> QED BY <1>3, <2>1, <2>2, Zenon DEF ComposeNetwork
<1> QED BY <1>1, <1>2, <1>3 DEF ComposeNext

THEOREM ComposeInvHolds == ComposeSpec => []ComposeInv
BY ComposeInitInv, ComposeNextInv, PTL DEF ComposeSpec

LEMMA ComposeInvTyped == ComposeInv => ComposeTypeOK
<1> SUFFICES ASSUME ComposeInv PROVE ComposeTypeOK
  OBVIOUS
<1>1. body.cids \subseteq ContentIds /\ body.text \in 0..2
  BY BodyFields DEF ComposeInv, WrittenInv
<1>2. editing.draft \in StoredMails \cup {NoStored} /\ editing.scheduled \in StoredMails \cup {NoStored}
  BY DEF ComposeInv, WrittenInv, Edited
<1>3. RegistryUrls(registry) \subseteq Url
  BY DEF ComposeInv, MediaInv, MediaTyped, UrlsAreOwned
<1>4. Range(waiting) \subseteq UploadIds
  BY LenProperties, ElementOfSeq DEF ComposeInv, MediaInv, MediaTyped, Range
<1> QED BY <1>1, <1>2, <1>3, <1>4
        DEF ComposeInv, WrittenInv, MediaInv, MediaTyped, ComposeTypeOK, UploadRequest, PreviewRequest

\* As many live uploads as their content ids.
LEMMA PlacesAreUploads == ComposeInv => ReservedIsTrue
<1> SUFFICES ASSUME ComposeInv PROVE ReservedIsTrue
  OBVIOUS
<1> DEFINE L == {u \in uploads : u.live}
           C == LiveCids(uploads)
           cid == [u \in L |-> u.cid]
           of == [c \in C |-> CHOOSE u \in L : u.cid = c]
<1>1. \A u, v \in L : u.cid = v.cid => u = v
  BY DEF ComposeInv, MediaInv, UploadsAreNew
<1>2. IsFiniteSet(C)
  BY FiniteLive DEF ComposeInv
<1>3. of \in [C -> L] /\ \A u \in L : \E c \in C : of[c] = u
  BY <1>1 DEF LiveCids, CidsOf
<1>4. cid \in [L -> C] /\ \A c \in C : \E u \in L : cid[u] = c
  BY DEF LiveCids, CidsOf
<1>5. reserved = Cardinality(C) + Len(waiting)
  BY DEF ComposeInv, MediaInv, PlacesAreHeld
<1> HIDE DEF L, C, cid, of
<1>6. IsFiniteSet(L) /\ Cardinality(L) <= Cardinality(C)
  BY <1>2, <1>3, MappedOnto
<1>7. Cardinality(C) <= Cardinality(L)
  BY <1>4, <1>6, MappedOnto
<1>8. Cardinality(C) \in Nat /\ Cardinality(L) \in Nat
  BY <1>2, <1>6, FS_CardinalityType
<1>9. Cardinality(L) = Cardinality(C)
  BY <1>6, <1>7, <1>8
<1> QED BY <1>5, <1>9 DEF ReservedIsTrue, L

\* Every variable of the compose window keeps its type.
THEOREM ComposeTypeCorrect == ComposeSpec => []ComposeTypeOK
BY ComposeInvHolds, ComposeInvTyped, PTL

\* No upload, preview or replaced document leaks an object URL or leaves a
\* revoked one on the screen.
THEOREM UrlsCorrect == ComposeSpec => []UrlsAreOwned
<1>1. ComposeInv => UrlsAreOwned
  BY DEF ComposeInv, MediaInv
<1> QED BY <1>1, ComposeInvHolds, PTL

\* The reserved places are those of the uploads for this document and of the
\* images that wait for their text, whatever fails late.
THEOREM PlacesCorrect == ComposeSpec => []ReservedIsTrue
BY ComposeInvHolds, PlacesAreUploads, PTL
=============================================================================
