------------------------- MODULE UserMailboxProofs -------------------------
(***************************************************************************)
(* The mail screen, for any number of users, mails, pages and requests     *)
(* that overtake each other.                                               *)
(***************************************************************************)
EXTENDS UserMailbox, FiniteSetTheorems, TLAPS

\* The requests that name a mail name one.
OneMailOps == {"mark", "get", "star", "checkMark", "checkGet"}
NamesOneMail(reqs) ==
  \A r \in reqs : r.op \in OneMailOps => \E m \in Mails : r.mails = {m}

\* The kinds of requests the flags and the numbers of the screen are about.
Detailing(r) == r.op \in DetailOps /\ r.current
Loading(r) == r.op = "load" /\ r.current
Bulky(r) == r.op = "bulk" \/ (r.op = "load" /\ r.awaited)
Counting(r) == r.op = "count" /\ r.current
\* The server has changed something of u, and the answer will have it counted.
Recounts(r, u) == Changes(r) /\ r.stage = "handled" /\ r.by = u /\ r.mine

HasBulk(reqs) == \E r \in reqs : Bulky(r)
HasRecount(reqs, u) == \E r \in reqs : Recounts(r, u)
OneBulk(reqs) == \A r, s \in reqs : Bulky(r) /\ Bulky(s) => r = s
\* The token of the screen is a token of its user.
MineAre(reqs, u) == \A r \in reqs : r.mine => r.by = u
MineIsOurs == MineAre(pending, user)

(***************************************************************************)
(* The inductive invariant, one part for each number or flag that a        *)
(* request on its way may still change.                                    *)
(***************************************************************************)
\* The detail that is on its way is the one of the mail that is selected.
DetailInv ==
  /\ LoadedDetailIsSelected /\ SelectionIsShown
  /\ \A r \in pending : Detailing(r) => selected = NoMail \/ r.mails = {selected}

\* A list that was not loaded for what is open is being loaded.
LoadInv ==
  /\ \A r \in pending :
       Loading(r) /\ ~r.awaited => r.folder = openFolder /\ r.from = offset
  /\ user # Nobody /\ openFolder # "localArchive" /\ loadedFor.how = "user"
       => \/ loadedFor.folder = openFolder /\ loadedFor.from = offset
          \/ \E r \in pending : Loading(r)

\* There is one bulk action, with the reload it waits for, at a time.
BulkInv == OneBulk(pending) /\ (bulkBusy <=> HasBulk(pending))

\* There is one count that will be shown; unless an answer is on its way that
\* will have the mails counted again, the number is true wherever it is.
CountInv ==
  /\ \A r \in pending : Counting(r) => r.by = user
  /\ \A r, s \in pending : Counting(r) /\ Counting(s) => r = s
  /\ user # Nobody /\ ~unheard /\ ~HasRecount(pending, user)
       => /\ badge \in {-1, Cardinality(Unread(user))} \/ \E r \in pending : Counting(r)
          /\ \A r \in pending :
               Counting(r) /\ r.stage = "handled" => r.total = Cardinality(Unread(user))

MailboxInv ==
  /\ MailboxTypeOK /\ NamesOneMail(pending)
  /\ DetailInv /\ LoadInv /\ BulkInv /\ CountInv

-----------------------------------------------------------------------------
\* A set of naturals that is finite and not empty has a smallest element.
LEMMA SmallestOf ==
  ASSUME NEW S \in SUBSET Nat, IsFiniteSet(S), S # {}
  PROVE  Min(S) \in S
<1> DEFINE below(m) == {n \in S : n < m}
           T == {below(m) : m \in S}
<1>1. T \subseteq FiniteSubsetsOf(S) /\ T # {}
  <2>1. \A m \in S : below(m) \in SUBSET S /\ IsFiniteSet(below(m))
    BY FS_Subset
  <2> HIDE DEF below
  <2> QED BY <2>1 DEF FiniteSubsetsOf
<1>2. PICK b \in T : \A c \in T : <<c, b>> \notin StrictSubsetOrdering(S)
  <2> HIDE DEF T
  <2> QED BY <1>1, FS_StrictSubsetOrderingWellFounded, WFMin
<1>3. PICK m \in S : b = below(m)
  BY <1>2
<1>4. ASSUME NEW n \in S, n < m PROVE FALSE
  <2>0. n \in Nat /\ m \in Nat /\ \A k \in S : k \in Nat
    OBVIOUS
  <2>1. below(n) \subseteq below(m) /\ n \in below(m) /\ n \notin below(n)
    <3>1. n < m /\ ~(n < n) /\ \A k \in S : k < n => k < m
      BY <1>4, <2>0
    <3> QED BY <3>1
  <2>2. below(n) \subseteq S /\ below(m) \subseteq S /\ below(n) # below(m)
    BY <2>1
  <2>3. <<below(n), below(m)>> \in StrictSubsetOrdering(S)
    BY <2>1, <2>2, Zenon DEF StrictSubsetOrdering
  <2> QED BY <2>3, <1>2, <1>3
<1>5. \A n \in S : m =< n
  BY <1>4
<1> QED BY <1>5 DEF Min

Old(r) == [r EXCEPT !.current = FALSE]

LEMMA OldRequest ==
  ASSUME NEW r \in MailRequest
  PROVE  /\ Old(r) \in MailRequest /\ ~Old(r).current
         /\ Old(r).op = r.op /\ Old(r).mails = r.mails /\ Old(r).awaited = r.awaited
         /\ Old(r).by = r.by /\ Old(r).stage = r.stage /\ Old(r).mine = r.mine
         /\ [r EXCEPT !.current = r.current] = r
BY DEF MailRequest, Old

\* Superseding clears the field current of some kinds of requests.
LEMMA Superseded ==
  ASSUME NEW R \in SUBSET MailRequest, NEW ops, NEW N, N = Supersede(R, ops)
  PROVE  /\ \A s \in N : \/ s \in R /\ s.op \notin ops
                         \/ \E r \in R : r.op \in ops /\ s = Old(r)
         /\ \A r \in R : /\ r.op \notin ops => r \in N
                         /\ r.op \in ops => Old(r) \in N
<1> DEFINE step(r) == [r EXCEPT !.current = @ /\ r.op \notin ops]
<1>1. ASSUME NEW r \in R
      PROVE  step(r) = IF r.op \in ops THEN Old(r) ELSE r
  <2>1. r.current \in BOOLEAN
    BY DEF MailRequest
  <2> QED BY <2>1, OldRequest DEF Old
<1>2. N = {step(r) : r \in R}
  BY DEF Supersede
<1> HIDE DEF step
<1>3. \A s \in N : \/ s \in R /\ s.op \notin ops
                   \/ \E r \in R : r.op \in ops /\ s = Old(r)
  BY <1>1, <1>2
<1>4. \A r \in R : /\ r.op \notin ops => r \in N
                   /\ r.op \in ops => Old(r) \in N
  BY <1>1, <1>2
<1> QED BY <1>3, <1>4

\* What the other requests and the bulk actions see of it.
LEMMA SupersedeFacts ==
  ASSUME NEW R \in SUBSET MailRequest, NEW ops, NEW N, N = Supersede(R, ops)
  PROVE  /\ N \in SUBSET MailRequest
         /\ NamesOneMail(R) => NamesOneMail(N)
         /\ \A s : s.op \notin ops => (s \in N <=> s \in R)
         /\ \A s \in N : s.op \in ops => ~s.current
         /\ HasBulk(N) <=> HasBulk(R)
         /\ \A v : HasRecount(N, v) <=> HasRecount(R, v)
         /\ OneBulk(R) => OneBulk(N)
         /\ \A v : MineAre(R, v) => MineAre(N, v)
<1>0. \A s \in N : \/ s \in R /\ s.op \notin ops
                   \/ \E r \in R : r.op \in ops /\ s = Old(r)
  BY Superseded
<1>1. \A r \in R : /\ r.op \notin ops => r \in N
                   /\ r.op \in ops => Old(r) \in N
  BY Superseded
<1>2. \A r \in R : /\ Old(r) \in MailRequest /\ ~Old(r).current
                   /\ Old(r).op = r.op /\ Old(r).mails = r.mails
                   /\ Bulky(Old(r)) <=> Bulky(r)
                   /\ \A v : Recounts(Old(r), v) <=> Recounts(r, v)
  BY OldRequest DEF Bulky, Recounts, Changes
<1>3. NamesOneMail(R) => NamesOneMail(N)
  BY <1>0, <1>1, <1>2 DEF NamesOneMail
<1>4. HasBulk(N) <=> HasBulk(R)
  BY <1>0, <1>1, <1>2 DEF HasBulk
<1>5. OneBulk(R) => OneBulk(N)
  BY <1>0, <1>1, <1>2 DEF OneBulk
<1>6. \A v : HasRecount(N, v) <=> HasRecount(R, v)
  BY <1>0, <1>1, <1>2 DEF HasRecount
<1>7. \A v : MineAre(R, v) => MineAre(N, v)
  <2>1. \A r \in R : Old(r).by = r.by /\ Old(r).mine = r.mine
    BY OldRequest
  <2> QED BY <1>0, <2>1 DEF MineAre
<1> QED BY <1>0, <1>1, <1>2, <1>3, <1>4, <1>5, <1>6, <1>7

(***************************************************************************)
(* The requests that are added, and what an added request leaves as it is. *)
(***************************************************************************)
AsCount(r, u) == [r EXCEPT !.by = u]
AsLoad(r, u, mine, f, from, sel, waits) ==
  [r EXCEPT !.op = "load", !.by = u, !.mine = mine, !.folder = f, !.from = from, !.sel = sel,
     !.awaited = waits]
AsDetail(r, u, mine, m, op, waits) ==
  [r EXCEPT !.op = op, !.by = u, !.mine = mine, !.mails = {m}, !.awaited = waits]
NewCount(u) == AsCount(Blank, u)
NewLoad(u, mine, f, from, sel, waits) == AsLoad(Blank, u, mine, f, from, sel, waits)
NewDetail(u, mine, m, op, waits) == AsDetail(Blank, u, mine, m, op, waits)

LEMMA BlankRequest ==
  ASSUME openFolder \in Folders, Users # {}
  PROVE  /\ Blank \in MailRequest /\ Blank.op = "count" /\ Blank.current
         /\ Blank.stage = "sent" /\ Blank.mails = {} /\ Blank.awaited = FALSE
<1>1. NoPages \in [Slots -> SUBSET Mails]
  BY DEF NoPages
<1> QED BY <1>1 DEF Blank, MailRequest, Ops

LEMMA NewCountRequest ==
  ASSUME openFolder \in Folders, NEW u \in Users
  PROVE  LET c == NewCount(u) IN
         /\ c \in MailRequest /\ c.op = "count" /\ c.current
         /\ c.by = u /\ c.stage = "sent"
<1>1. ASSUME NEW r \in MailRequest
      PROVE  LET c == AsCount(r, u) IN
              /\ c \in MailRequest /\ c.op = r.op /\ c.current = r.current /\ c.by = u
              /\ c.stage = r.stage
  BY DEF MailRequest, AsCount
<1> HIDE DEF Blank
<1> QED BY <1>1, BlankRequest DEF NewCount

LEMMA NewLoadRequest ==
  ASSUME openFolder \in Folders, NEW u \in Users, NEW f \in Folders, NEW from \in Nat,
         NEW sel \in Mails \cup {NoMail}, NEW waits \in BOOLEAN, NEW mine \in BOOLEAN
  PROVE  LET l == NewLoad(u, mine, f, from, sel, waits) IN
         /\ l \in MailRequest /\ l.op = "load" /\ l.current /\ l.by = u
         /\ l.folder = f /\ l.from = from /\ l.awaited = waits /\ l.mine = mine
<1>1. ASSUME NEW r \in MailRequest
      PROVE  LET l == AsLoad(r, u, mine, f, from, sel, waits) IN
              /\ l \in MailRequest /\ l.op = "load" /\ l.current = r.current /\ l.by = u
              /\ l.folder = f /\ l.from = from /\ l.awaited = waits /\ l.mine = mine
  BY DEF MailRequest, Ops, AsLoad
<1> HIDE DEF Blank
<1> QED BY <1>1, BlankRequest DEF NewLoad

LEMMA NewDetailRequest ==
  ASSUME openFolder \in Folders, NEW u \in Users, NEW m \in Mails,
         NEW op \in {"mark", "get"}, NEW waits \in BOOLEAN, NEW mine \in BOOLEAN
  PROVE  LET d == NewDetail(u, mine, m, op, waits) IN
         /\ d \in MailRequest /\ d.op = op /\ d.current /\ d.mails = {m}
         /\ d.stage = "sent" /\ d.by = u /\ d.mine = mine
<1>1. ASSUME NEW r \in MailRequest
      PROVE  LET d == AsDetail(r, u, mine, m, op, waits) IN
              /\ d \in MailRequest /\ d.op = op /\ d.by = u /\ d.mine = mine
              /\ d.current = r.current /\ d.mails = {m} /\ d.stage = r.stage
  BY DEF MailRequest, Ops, AsDetail
<1> HIDE DEF Blank
<1> QED BY <1>1, BlankRequest DEF NewDetail

\* A count that is asked for is the only one that counts; nothing else changes.
LEMMA RefreshFacts ==
  ASSUME openFolder \in Folders, NEW u \in Users, NEW mine \in BOOLEAN,
         NEW R \in SUBSET MailRequest, NEW N, N = RefreshUnreadCount(R, u, mine)
  PROVE  /\ N \in SUBSET MailRequest
         /\ NamesOneMail(R) => NamesOneMail(N)
         /\ \A s : s.op # "count" => (s \in N <=> s \in R)
         /\ ~mine => N = R
         /\ mine => /\ NewCount(u) \in N
                    /\ \A s \in N : Counting(s) => s = NewCount(u)
         /\ HasBulk(N) <=> HasBulk(R)
         /\ \A v : HasRecount(N, v) <=> HasRecount(R, v)
         /\ OneBulk(R) => OneBulk(N)
         /\ \A v : MineAre(R, v) /\ (mine => u = v) => MineAre(N, v)
<1>1. CASE ~mine
  BY <1>1 DEF RefreshUnreadCount
<1>2. CASE mine
  <2> DEFINE old == Supersede(R, {"count"})
  <2>1. N = old \cup {NewCount(u)}
    BY <1>2 DEF RefreshUnreadCount, NewCount, AsCount
  <2>2. /\ old \in SUBSET MailRequest
        /\ NamesOneMail(R) => NamesOneMail(old)
        /\ \A s : s.op \notin {"count"} => (s \in old <=> s \in R)
        /\ \A s \in old : s.op \in {"count"} => ~s.current
        /\ HasBulk(old) <=> HasBulk(R)
        /\ \A v : HasRecount(old, v) <=> HasRecount(R, v)
        /\ OneBulk(R) => OneBulk(old)
        /\ \A v : MineAre(R, v) => MineAre(old, v)
    BY SupersedeFacts
  <2> HIDE DEF old
  <2>3. /\ NewCount(u) \in MailRequest /\ NewCount(u).op = "count"
        /\ NewCount(u).by = u /\ ~Bulky(NewCount(u))
    BY NewCountRequest DEF Bulky
  <2>4. NamesOneMail(R) => NamesOneMail(N)
    BY <2>1, <2>2, <2>3 DEF NamesOneMail, OneMailOps
  <2>5. (HasBulk(N) <=> HasBulk(R)) /\ (OneBulk(R) => OneBulk(N))
    BY <2>1, <2>2, <2>3 DEF HasBulk, OneBulk
  <2>6. \A v : HasRecount(N, v) <=> HasRecount(R, v)
    BY <2>1, <2>2, <2>3 DEF HasRecount, Recounts, Changes
  <2>7. \A v : MineAre(R, v) /\ u = v => MineAre(N, v)
    BY <2>1, <2>2, <2>3 DEF MineAre
  <2> QED BY <1>2, <2>1, <2>2, <2>3, <2>4, <2>5, <2>6, <2>7 DEF Counting
<1> QED BY <1>1, <1>2

\* A load that is asked for is the only one that counts, and so is its count.
LEMMA WorkspaceFacts ==
  ASSUME openFolder \in Folders, NEW u \in Users, NEW f \in Folders, NEW from \in Nat,
         NEW sel \in Mails \cup {NoMail}, NEW waits \in BOOLEAN, NEW mine \in BOOLEAN,
         NEW R \in SUBSET MailRequest,
         NEW N, N = LoadMailWorkspace(R, u, mine, f, from, sel, waits)
  PROVE  /\ N \in SUBSET MailRequest
         /\ NamesOneMail(R) => NamesOneMail(N)
         /\ \A s : s.op \notin {"count", "load"} => (s \in N <=> s \in R)
         /\ \E l \in N : /\ Loading(l) /\ l.folder = f /\ l.from = from /\ l.awaited = waits
                         /\ \A s \in N : Loading(s) => s = l
         /\ ~mine => \A s : s.op = "count" => (s \in N <=> s \in R)
         /\ mine => /\ NewCount(u) \in N
                    /\ \A s \in N : Counting(s) => s = NewCount(u)
         /\ HasBulk(N) <=> (waits \/ HasBulk(R))
         /\ \A v : HasRecount(N, v) <=> HasRecount(R, v)
         /\ OneBulk(R) /\ (waits => ~HasBulk(R)) => OneBulk(N)
         /\ \A v : MineAre(R, v) /\ (mine => u = v) => MineAre(N, v)
<1> DEFINE l == NewLoad(u, mine, f, from, sel, waits)
           old == Supersede(R, ListOps)
           counted == RefreshUnreadCount(old, u, mine)
<1>1. N = counted \cup {l}
  BY DEF LoadMailWorkspace, NewLoad, AsLoad
<1>2. /\ old \in SUBSET MailRequest
      /\ NamesOneMail(R) => NamesOneMail(old)
      /\ \A s : s.op \notin ListOps => (s \in old <=> s \in R)
      /\ \A s \in old : s.op \in ListOps => ~s.current
      /\ HasBulk(old) <=> HasBulk(R)
      /\ \A v : HasRecount(old, v) <=> HasRecount(R, v)
      /\ OneBulk(R) => OneBulk(old)
      /\ \A v : MineAre(R, v) => MineAre(old, v)
  BY SupersedeFacts
<1> HIDE DEF old
<1>3. /\ counted \in SUBSET MailRequest
      /\ NamesOneMail(old) => NamesOneMail(counted)
      /\ \A s : s.op # "count" => (s \in counted <=> s \in old)
      /\ ~mine => counted = old
      /\ mine => /\ NewCount(u) \in counted
                 /\ \A s \in counted : Counting(s) => s = NewCount(u)
      /\ HasBulk(counted) <=> HasBulk(old)
      /\ \A v : HasRecount(counted, v) <=> HasRecount(old, v)
      /\ OneBulk(old) => OneBulk(counted)
      /\ \A v : MineAre(old, v) /\ (mine => u = v) => MineAre(counted, v)
  BY <1>2, RefreshFacts
<1> HIDE DEF counted
<1>4. /\ l \in MailRequest /\ l.op = "load" /\ l.current /\ l.by = u
      /\ l.folder = f /\ l.from = from /\ l.awaited = waits /\ l.mine = mine
  BY NewLoadRequest
<1> HIDE DEF l
<1>5. Bulky(l) <=> waits
  BY <1>4 DEF Bulky
<1>6. NamesOneMail(R) => NamesOneMail(N)
  BY <1>1, <1>2, <1>3, <1>4 DEF NamesOneMail, OneMailOps
<1>7. HasBulk(N) <=> (waits \/ HasBulk(R))
  BY <1>1, <1>2, <1>3, <1>5 DEF HasBulk
<1>8. OneBulk(R) /\ (waits => ~HasBulk(R)) => OneBulk(N)
  BY <1>1, <1>2, <1>3, <1>5 DEF HasBulk, OneBulk
<1>9. \A s : s.op \notin {"count", "load"} => (s \in N <=> s \in R)
  BY <1>1, <1>2, <1>3, <1>4 DEF ListOps
<1>10. l \in N /\ Loading(l) /\ \A s \in N : Loading(s) => s = l
  BY <1>1, <1>2, <1>3, <1>4 DEF ListOps, Loading
<1>11. ~mine => \A s : s.op = "count" => (s \in N <=> s \in R)
  BY <1>1, <1>2, <1>3, <1>4 DEF ListOps
<1>12. mine => /\ NewCount(u) \in N
               /\ \A s \in N : Counting(s) => s = NewCount(u)
  BY <1>1, <1>3, <1>4 DEF Counting
<1>13. N \in SUBSET MailRequest
  BY <1>1, <1>3, <1>4
<1>14. \A v : HasRecount(N, v) <=> HasRecount(R, v)
  BY <1>1, <1>2, <1>3, <1>4 DEF HasRecount, Recounts, Changes
<1>15. \A v : MineAre(R, v) /\ (mine => u = v) => MineAre(N, v)
  BY <1>1, <1>2, <1>3, <1>4 DEF MineAre
<1> QED BY <1>4, <1>6, <1>7, <1>8, <1>9, <1>10, <1>11, <1>12, <1>13, <1>14, <1>15

\* A detail that is asked for is the only one that counts.
LEMMA DetailFacts ==
  ASSUME openFolder \in Folders, NEW u \in Users, NEW m \in Mails, NEW marks \in BOOLEAN,
         NEW waits \in BOOLEAN, NEW mine \in BOOLEAN, NEW R \in SUBSET MailRequest,
         NEW N, N = LoadMailDetail(R, u, mine, m, marks, waits)
  PROVE  /\ N \in SUBSET MailRequest
         /\ NamesOneMail(R) => NamesOneMail(N)
         /\ \A s : s.op \notin DetailOps => (s \in N <=> s \in R)
         /\ \A s \in N : Detailing(s) => s.mails = {m}
         /\ HasBulk(N) <=> HasBulk(R)
         /\ \A v : HasRecount(N, v) <=> HasRecount(R, v)
         /\ OneBulk(R) => OneBulk(N)
         /\ \A v : MineAre(R, v) /\ (mine => u = v) => MineAre(N, v)
<1> DEFINE op == IF marks THEN "mark" ELSE "get"
           d == NewDetail(u, mine, m, op, waits)
           old == Supersede(R, DetailOps)
<1>1. N = old \cup {d}
  BY DEF LoadMailDetail, NewDetail, AsDetail
<1>2. /\ old \in SUBSET MailRequest
      /\ NamesOneMail(R) => NamesOneMail(old)
      /\ \A s : s.op \notin DetailOps => (s \in old <=> s \in R)
      /\ \A s \in old : s.op \in DetailOps => ~s.current
      /\ HasBulk(old) <=> HasBulk(R)
      /\ \A v : HasRecount(old, v) <=> HasRecount(R, v)
      /\ OneBulk(R) => OneBulk(old)
      /\ \A v : MineAre(R, v) => MineAre(old, v)
  BY SupersedeFacts
<1> HIDE DEF old
<1>3. /\ d \in MailRequest /\ d.op \in DetailOps /\ d.current /\ d.mails = {m}
      /\ d.stage = "sent" /\ d.by = u /\ d.mine = mine
  <2>1. op \in {"mark", "get"}
    OBVIOUS
  <2> HIDE DEF op
  <2>2. d \in MailRequest /\ d.op = op /\ d.current
    BY <2>1, NewDetailRequest
  <2>3. d.mails = {m} /\ d.stage = "sent" /\ d.by = u /\ d.mine = mine
    BY <2>1, NewDetailRequest
  <2> QED BY <2>1, <2>2, <2>3 DEF DetailOps
<1> HIDE DEF d
<1>5. ~Bulky(d)
  BY <1>3 DEF Bulky, DetailOps
<1>6. NamesOneMail(R) => NamesOneMail(N)
  BY <1>1, <1>2, <1>3 DEF NamesOneMail
<1>7. (HasBulk(N) <=> HasBulk(R)) /\ (OneBulk(R) => OneBulk(N))
  BY <1>1, <1>2, <1>5 DEF HasBulk, OneBulk
<1>8. \A s \in N : Detailing(s) => s.mails = {m}
  BY <1>1, <1>2, <1>3 DEF Detailing
<1>9. \A v : HasRecount(N, v) <=> HasRecount(R, v)
  BY <1>1, <1>2, <1>3 DEF HasRecount, Recounts
<1>10. \A v : MineAre(R, v) /\ (mine => u = v) => MineAre(N, v)
  BY <1>1, <1>2, <1>3 DEF MineAre
<1> QED BY <1>1, <1>2, <1>3, <1>6, <1>7, <1>8, <1>9, <1>10

(***************************************************************************)
(* What keeps each part of the invariant when it is not concerned, and     *)
(* what makes it new.                                                      *)
(***************************************************************************)
LEMMA DetailFrame ==
  ASSUME DetailInv, UNCHANGED <<selected, detail, detailBy, detailLoading, detailFailed>>,
         \A s \in pending' : Detailing(s) => s \in pending
  PROVE  DetailInv'
BY DEF DetailInv, LoadedDetailIsSelected, SelectionIsShown, Detailing

LEMMA DetailShown ==
  ASSUME NEW m, ShowDetailLoading(m), \A s \in pending' : Detailing(s) => s.mails = {m}
  PROVE  DetailInv'
BY DEF ShowDetailLoading, DetailInv, LoadedDetailIsSelected, SelectionIsShown, Detailing

LEMMA DetailDropped ==
  ASSUME Deselect
  PROVE  DetailInv'
BY DEF Deselect, DetailInv, LoadedDetailIsSelected, SelectionIsShown

LEMMA LoadFrame ==
  ASSUME LoadInv, UNCHANGED <<openFolder, offset, user, loadedFor>>,
         \A s : Loading(s) => (s \in pending' <=> s \in pending)
  PROVE  LoadInv'
BY DEF LoadInv, Loading

LEMMA LoadRenewed ==
  ASSUME NEW l \in pending', Loading(l), \A s \in pending' : Loading(s) => s = l,
         ~l.awaited => l.folder = openFolder' /\ l.from = offset'
  PROVE  LoadInv'
BY DEF LoadInv, Loading

LEMMA BulkFrame ==
  ASSUME BulkInv, bulkBusy' = bulkBusy, OneBulk(pending'),
         HasBulk(pending') <=> HasBulk(pending)
  PROVE  BulkInv'
BY DEF BulkInv, OneBulk, HasBulk, Bulky

LEMMA CountFrame ==
  ASSUME CountInv, UNCHANGED <<mailServer, user, badge, unheard>>,
         \A s : Counting(s) => (s \in pending' <=> s \in pending),
         HasRecount(pending, user) => HasRecount(pending', user)
  PROVE  CountInv'
<1>1. Unread(user)' = Unread(user)
  BY DEF mailServer, Unread, MailsIn
<1>2. HasRecount(pending, user)' = HasRecount(pending', user)
  BY DEF HasRecount, Recounts, Changes
<1> QED BY <1>1, <1>2 DEF CountInv, Counting

LEMMA CountRenewed ==
  ASSUME NEW c \in pending', Counting(c), \A s \in pending' : Counting(s) => s = c,
         c.by = user', c.stage = "sent"
  PROVE  CountInv'
BY DEF CountInv, Counting

\* The set of requests without one of them.
LEMMA DoneFacts ==
  ASSUME NEW r \in pending, MailboxTypeOK, NamesOneMail(pending), BulkInv, CountInv
  PROVE  LET N == Done(r) IN
         /\ N \in SUBSET MailRequest /\ NamesOneMail(N) /\ OneBulk(N)
         /\ \A s : s # r => (s \in N <=> s \in pending)
         /\ r \notin N
         /\ HasBulk(N) <=> (HasBulk(pending) /\ ~Bulky(r))
         /\ Counting(r) => \A s \in N : ~Counting(s)
         /\ \A v : ~Recounts(r, v) => (HasRecount(N, v) <=> HasRecount(pending, v))
<1>1. Done(r) \in SUBSET MailRequest /\ NamesOneMail(Done(r)) /\ OneBulk(Done(r))
  BY DEF Done, MailboxTypeOK, NamesOneMail, BulkInv, OneBulk
<1>2. HasBulk(Done(r)) <=> (HasBulk(pending) /\ ~Bulky(r))
  BY DEF Done, BulkInv, OneBulk, HasBulk
<1>3. Counting(r) => \A s \in Done(r) : ~Counting(s)
  BY DEF Done, CountInv
<1>4. \A v : ~Recounts(r, v) => (HasRecount(Done(r), v) <=> HasRecount(pending, v))
  BY DEF Done, HasRecount
<1>5. r \notin Done(r) /\ \A s : s # r => (s \in Done(r) <=> s \in pending)
  BY DEF Done
<1> QED BY <1>1, <1>2, <1>3, <1>4, <1>5

\* A request of an action joins the others.
LEMMA ActionAdded ==
  ASSUME MailboxTypeOK, NamesOneMail(pending), NEW x \in MailRequest,
         x.op \in {"bulk", "star", "checkMark", "checkGet"},
         x.op # "bulk" => x.mails = {selected}, x.stage = "sent", selected # NoMail \/ x.op = "bulk",
         pending' = pending \cup {x}
  PROVE  /\ pending' \in SUBSET MailRequest /\ NamesOneMail(pending')
         /\ \A s : Detailing(s) => (s \in pending' <=> s \in pending)
         /\ \A s : Loading(s) => (s \in pending' <=> s \in pending)
         /\ \A s : Counting(s) => (s \in pending' <=> s \in pending)
         /\ HasRecount(pending, user) => HasRecount(pending', user)
         /\ Bulky(x) <=> x.op = "bulk"
<1>1. pending' \in SUBSET MailRequest /\ NamesOneMail(pending')
  BY DEF MailboxTypeOK, NamesOneMail, OneMailOps
<1>2. HasRecount(pending, user) => HasRecount(pending', user)
  BY DEF HasRecount
<1> QED BY <1>1, <1>2 DEF Detailing, Loading, Counting, Bulky, DetailOps

\* The user asks for a list: the newest load is for what is open, and the
\* newest count is for who is signed in.
LEMMA WorkspaceAsked ==
  ASSUME openFolder \in Folders, user \in Users, NEW f \in Folders, NEW from \in Nat,
         NEW sel \in Mails \cup {NoMail}, NEW R \in SUBSET MailRequest,
         NamesOneMail(R), OneBulk(R),
         openFolder' = f, offset' = from, user' = user,
         pending' = LoadMailWorkspace(R, user, TRUE, f, from, sel, FALSE)
  PROVE  /\ pending' \in SUBSET MailRequest /\ NamesOneMail(pending')
         /\ \A s : s.op \notin {"count", "load"} => (s \in pending' <=> s \in R)
         /\ OneBulk(pending') /\ (HasBulk(pending') <=> HasBulk(R))
         /\ LoadInv' /\ CountInv'
<1> DEFINE u == user
           waits == FALSE
           mine == TRUE
           N == LoadMailWorkspace(R, u, mine, f, from, sel, waits)
<1>0. u \in Users /\ waits \in BOOLEAN /\ mine \in BOOLEAN
  OBVIOUS
<1>1. pending' = N /\ u = user /\ ~waits /\ mine
  OBVIOUS
<1> HIDE DEF u, waits, mine
<1>2. N \in SUBSET MailRequest /\ NamesOneMail(N)
  <2>1. N \in SUBSET MailRequest
    BY <1>0, WorkspaceFacts
  <2>2. NamesOneMail(R) => NamesOneMail(N)
    BY <1>0, WorkspaceFacts
  <2> QED BY <2>1, <2>2
<1>3. \A s : s.op \notin {"count", "load"} => (s \in N <=> s \in R)
  BY <1>0, WorkspaceFacts
<1>4. \E l \in N : /\ Loading(l) /\ l.folder = f /\ l.from = from /\ l.awaited = waits
                   /\ \A s \in N : Loading(s) => s = l
  BY <1>0, WorkspaceFacts, SMTT(60)
<1>5. NewCount(user) \in N /\ \A s \in N : Counting(s) => s = NewCount(user)
  <2>1. /\ ~mine => \A s : s.op = "count" => (s \in N <=> s \in R)
        /\ mine => /\ NewCount(u) \in N
                   /\ \A s \in N : Counting(s) => s = NewCount(u)
    BY <1>0, WorkspaceFacts
  <2> QED BY <1>1, <2>1
<1>6. (HasBulk(N) <=> HasBulk(R)) /\ OneBulk(N)
  <2>1. HasBulk(N) <=> (waits \/ HasBulk(R))
    BY <1>0, WorkspaceFacts
  <2>2. OneBulk(R) /\ (waits => ~HasBulk(R)) => OneBulk(N)
    BY <1>0, WorkspaceFacts
  <2> QED BY <1>1, <2>1, <2>2
<1> HIDE DEF N
<1>7. LoadInv'
  BY <1>1, <1>4, LoadRenewed
<1>8. CountInv'
  <2>1. /\ Counting(NewCount(user)) /\ NewCount(user).by = user
        /\ NewCount(user).stage = "sent"
    BY NewCountRequest DEF Counting
  <2> QED BY <2>1, <1>1, <1>5, CountRenewed
<1> QED BY <1>1, <1>2, <1>3, <1>6, <1>7, <1>8

-----------------------------------------------------------------------------
(* What the user does keeps the invariant. *)

LEMMA OpenMailFolderInv ==
  ASSUME MailboxInv, NEW f \in Folders, OpenMailFolder(f)
  PROVE  MailboxInv'
<1> DEFINE left == Supersede(pending, ListOps \cup DetailOps)
<1>1. /\ user \in Users /\ openFolder \in Folders /\ selected \in Mails \cup {NoMail}
      /\ pending \in SUBSET MailRequest
  BY DEF MailboxInv, MailboxTypeOK, OpenMailFolder, CanAct
<1>2. /\ left \in SUBSET MailRequest
      /\ NamesOneMail(left)
      /\ \A s : s.op \notin ListOps \cup DetailOps => (s \in left <=> s \in pending)
      /\ \A s \in left : s.op \in ListOps \cup DetailOps => ~s.current
      /\ HasBulk(left) <=> HasBulk(pending)
      /\ \A v : HasRecount(left, v) <=> HasRecount(pending, v)
      /\ OneBulk(left)
  BY <1>1, SupersedeFacts DEF MailboxInv, BulkInv
<1> HIDE DEF left
<1>3. /\ openFolder' = f /\ offset' = 0 /\ Deselect /\ user' = user
      /\ UNCHANGED <<mailServer, loadedFor, bulkBusy, badge, unheard>>
      /\ f = "localArchive" => pending' = left
      /\ f # "localArchive" => pending' = LoadMailWorkspace(left, user, TRUE, f, 0, selected, FALSE)
  BY DEF OpenMailFolder, left
<1>4. DetailInv'
  BY <1>3, DetailDropped
<1>5. ASSUME pending' \in SUBSET MailRequest
      PROVE  MailboxTypeOK'
  <2>1. acts' \in 0..MaxActs
    BY MailboxAssumption DEF OpenMailFolder, CanAct, Act, MailboxInv, MailboxTypeOK
  <2>2. listLoading' \in BOOLEAN
    BY DEF OpenMailFolder, MailboxInv, MailboxTypeOK
  <2> QED BY <2>1, <2>2, <1>5
          DEF OpenMailFolder, MailboxInv, MailboxTypeOK, Deselect, mailServer
<1>6. CASE f = "localArchive"
  <2>1. LoadInv'
    BY <1>2, <1>3, <1>6 DEF LoadInv, Loading, ListOps
  <2>2. BulkInv'
    BY <1>2, <1>3, <1>6, BulkFrame DEF MailboxInv
  <2>3. CountInv'
    <3>1. \A s : Counting(s) => (s \in pending' <=> s \in pending)
      BY <1>2, <1>3, <1>6 DEF Counting, ListOps, DetailOps
    <3> QED BY <3>1, <1>2, <1>3, <1>6, CountFrame DEF MailboxInv
  <2>4. pending' \in SUBSET MailRequest /\ NamesOneMail(pending')
    BY <1>2, <1>3, <1>6
  <2> QED BY <1>4, <1>5, <2>1, <2>2, <2>3, <2>4 DEF MailboxInv, NamesOneMail
<1>7. CASE f # "localArchive"
  <2>1. /\ pending' \in SUBSET MailRequest /\ NamesOneMail(pending')
        /\ OneBulk(pending') /\ (HasBulk(pending') <=> HasBulk(left))
        /\ LoadInv' /\ CountInv'
    BY <1>1, <1>2, <1>3, <1>7, WorkspaceAsked
  <2>2. BulkInv'
    BY <2>1, <1>2, <1>3, BulkFrame DEF MailboxInv
  <2> QED BY <1>4, <1>5, <2>1, <2>2 DEF MailboxInv, NamesOneMail
<1> QED BY <1>6, <1>7

LEMMA TurnPageInv ==
  ASSUME MailboxInv, NEW from \in Nat, TurnPage(from)
  PROVE  MailboxInv'
<1>1. /\ user \in Users /\ openFolder \in Folders /\ selected \in Mails \cup {NoMail}
      /\ pending \in SUBSET MailRequest /\ NamesOneMail(pending) /\ OneBulk(pending)
  BY DEF MailboxInv, MailboxTypeOK, TurnPage, CanAct, BulkInv
<1>2. /\ pending' \in SUBSET MailRequest /\ NamesOneMail(pending')
      /\ \A s : s.op \notin {"count", "load"} => (s \in pending' <=> s \in pending)
      /\ OneBulk(pending') /\ (HasBulk(pending') <=> HasBulk(pending))
      /\ LoadInv' /\ CountInv'
  BY <1>1, WorkspaceAsked DEF TurnPage
<1>3. MailboxTypeOK'
  <2>1. acts' \in 0..MaxActs
    BY MailboxAssumption DEF TurnPage, CanAct, Act, MailboxInv, MailboxTypeOK
  <2> QED BY <2>1, <1>2 DEF TurnPage, MailboxInv, MailboxTypeOK, mailServer
<1>4. DetailInv'
  <2>1. \A s \in pending' : Detailing(s) => s \in pending
    BY <1>2 DEF Detailing, DetailOps
  <2> QED BY <2>1, DetailFrame DEF TurnPage, MailboxInv
<1>5. BulkInv'
  BY <1>2, BulkFrame DEF TurnPage, MailboxInv
<1> QED BY <1>2, <1>3, <1>4, <1>5 DEF MailboxInv, NamesOneMail

LEMMA RefreshInv ==
  ASSUME MailboxInv, Refresh
  PROVE  MailboxInv'
<1>1. /\ user \in Users /\ openFolder \in Folders /\ selected \in Mails \cup {NoMail}
      /\ pending \in SUBSET MailRequest /\ NamesOneMail(pending) /\ OneBulk(pending)
      /\ offset \in Nat
  BY DEF MailboxInv, MailboxTypeOK, Refresh, CanAct, BulkInv
<1>2. /\ pending' \in SUBSET MailRequest /\ NamesOneMail(pending')
      /\ \A s : s.op \notin {"count", "load"} => (s \in pending' <=> s \in pending)
      /\ OneBulk(pending') /\ (HasBulk(pending') <=> HasBulk(pending))
      /\ LoadInv' /\ CountInv'
  BY <1>1, WorkspaceAsked DEF Refresh
<1>3. MailboxTypeOK'
  <2>1. acts' \in 0..MaxActs
    BY MailboxAssumption DEF Refresh, CanAct, Act, MailboxInv, MailboxTypeOK
  <2> QED BY <2>1, <1>2 DEF Refresh, MailboxInv, MailboxTypeOK, mailServer
<1>4. DetailInv'
  <2>1. \A s \in pending' : Detailing(s) => s \in pending
    BY <1>2 DEF Detailing, DetailOps
  <2> QED BY <2>1, DetailFrame DEF Refresh, MailboxInv
<1>5. BulkInv'
  BY <1>2, BulkFrame DEF Refresh, MailboxInv
<1> QED BY <1>2, <1>3, <1>4, <1>5 DEF MailboxInv, NamesOneMail

\* A mail is selected: the newest detail is the one of that mail, and nothing
\* else is asked for.
LEMMA MailSelected ==
  ASSUME MailboxInv, NEW u \in Users, NEW m \in Mails, NEW marks \in BOOLEAN,
         pending' = LoadMailDetail(pending, u, TRUE, m, marks, FALSE), ShowDetailLoading(m),
         UNCHANGED <<mailServer, user, openFolder, offset, loadedFor, bulkBusy, badge, unheard>>
  PROVE  /\ pending' \in SUBSET MailRequest /\ NamesOneMail(pending')
         /\ DetailInv' /\ LoadInv' /\ BulkInv' /\ CountInv'
<1> DEFINE waits == FALSE
           mine == TRUE
           N == LoadMailDetail(pending, u, mine, m, marks, waits)
<1>1. pending' = N /\ waits \in BOOLEAN /\ mine \in BOOLEAN
  OBVIOUS
<1> HIDE DEF waits, mine
<1>2. openFolder \in Folders /\ pending \in SUBSET MailRequest
  BY DEF MailboxInv, MailboxTypeOK
<1>3. /\ N \in SUBSET MailRequest
      /\ NamesOneMail(pending) => NamesOneMail(N)
      /\ \A s : s.op \notin DetailOps => (s \in N <=> s \in pending)
      /\ \A s \in N : Detailing(s) => s.mails = {m}
      /\ HasBulk(N) <=> HasBulk(pending)
      /\ \A v : HasRecount(N, v) <=> HasRecount(pending, v)
      /\ OneBulk(pending) => OneBulk(N)
  BY <1>1, <1>2, DetailFacts
<1> HIDE DEF N
<1>4. DetailInv'
  BY <1>1, <1>3, DetailShown
<1>5. LoadInv'
  <2>1. \A s : Loading(s) => (s \in N <=> s \in pending)
    BY <1>3 DEF Loading, DetailOps
  <2> QED BY <2>1, <1>1, LoadFrame DEF MailboxInv
<1>6. BulkInv'
  BY <1>1, <1>3, BulkFrame DEF MailboxInv, BulkInv
<1>7. CountInv'
  <2>1. \A s : Counting(s) => (s \in N <=> s \in pending)
    BY <1>3 DEF Counting, DetailOps
  <2> QED BY <2>1, <1>1, <1>3, CountFrame DEF MailboxInv
<1> QED BY <1>1, <1>3, <1>4, <1>5, <1>6, <1>7 DEF MailboxInv

LEMMA SelectMailInv ==
  ASSUME MailboxInv, NEW m \in Mails, SelectMail(m)
  PROVE  MailboxInv'
<1> DEFINE marks == m \in lists["inbox"] /\ openFolder # "trash"
<1>1. marks \in BOOLEAN /\ pending' = LoadMailDetail(pending, user, TRUE, m, marks, FALSE)
  BY DEF SelectMail
<1> HIDE DEF marks
<1>2. user \in Users
  BY DEF SelectMail, CanAct, MailboxInv, MailboxTypeOK
<1>3. /\ pending' \in SUBSET MailRequest /\ NamesOneMail(pending')
      /\ DetailInv' /\ LoadInv' /\ BulkInv' /\ CountInv'
  BY <1>1, <1>2, MailSelected DEF SelectMail
<1>4. MailboxTypeOK'
  <2>1. acts' \in 0..MaxActs
    BY MailboxAssumption DEF SelectMail, CanAct, Act, MailboxInv, MailboxTypeOK
  <2> QED BY <2>1, <1>3
          DEF SelectMail, ShowDetailLoading, MailboxInv, MailboxTypeOK, mailServer
<1> QED BY <1>3, <1>4 DEF MailboxInv, NamesOneMail

LEMMA OpenFromElsewhereInv ==
  ASSUME MailboxInv, NEW m \in Mails, NEW marks \in BOOLEAN, OpenFromElsewhere(m, marks)
  PROVE  MailboxInv'
<1>1. user \in Users
  BY DEF OpenFromElsewhere, CanAct, MailboxInv, MailboxTypeOK
<1>2. /\ pending' \in SUBSET MailRequest /\ NamesOneMail(pending')
      /\ DetailInv' /\ LoadInv' /\ BulkInv' /\ CountInv'
  BY <1>1, MailSelected DEF OpenFromElsewhere
<1>3. MailboxTypeOK'
  <2>1. acts' \in 0..MaxActs
    BY MailboxAssumption DEF OpenFromElsewhere, CanAct, Act, MailboxInv, MailboxTypeOK
  <2> QED BY <2>1, <1>2
          DEF OpenFromElsewhere, ShowDetailLoading, MailboxInv, MailboxTypeOK, mailServer
<1> QED BY <1>2, <1>3 DEF MailboxInv, NamesOneMail

LEMMA CheckMailInv ==
  ASSUME MailboxInv, NEW m \in Mails, CheckMail(m)
  PROVE  MailboxInv'
<1>1. MailboxTypeOK'
  <2>1. acts' \in 0..MaxActs
    BY MailboxAssumption DEF CheckMail, CanAct, Act, MailboxInv, MailboxTypeOK
  <2> QED BY <2>1 DEF CheckMail, MailboxInv, MailboxTypeOK, mailServer
<1>2. DetailInv'
  BY DetailFrame DEF CheckMail, MailboxInv
<1>3. LoadInv'
  BY LoadFrame DEF CheckMail, MailboxInv
<1>4. BulkInv'
  BY BulkFrame DEF CheckMail, MailboxInv, BulkInv
<1>5. CountInv'
  BY CountFrame DEF CheckMail, MailboxInv
<1> QED BY <1>1, <1>2, <1>3, <1>4, <1>5 DEF MailboxInv, CheckMail, NamesOneMail

AsBulk(r, u, f, a, S, from, sel) ==
  [r EXCEPT !.op = "bulk", !.by = u, !.folder = f, !.act = a, !.mails = S, !.from = from,
     !.sel = sel]
AsAction(r, op, u, S) == [r EXCEPT !.op = op, !.by = u, !.mails = S]
BulkActs == {"read", "delete", "spam", "not_spam", "restore", "purge"}

LEMMA NewBulkRequest ==
  ASSUME openFolder \in Folders, NEW u \in Users, NEW a \in BulkActs,
         NEW S \in SUBSET Mails, NEW from \in Nat, NEW sel \in Mails \cup {NoMail}
  PROVE  LET x == AsBulk(Blank, u, openFolder, a, S, from, sel) IN
         x \in MailRequest /\ x.op = "bulk" /\ x.stage = "sent" /\ x.by = u
<1>1. ASSUME NEW r \in MailRequest
      PROVE  LET x == AsBulk(r, u, openFolder, a, S, from, sel) IN
             x \in MailRequest /\ x.op = "bulk" /\ x.stage = r.stage /\ x.by = u
  BY DEF MailRequest, Ops, AsBulk, BulkActs
<1> HIDE DEF Blank
<1> QED BY <1>1, BlankRequest

LEMMA NewActionRequest ==
  ASSUME openFolder \in Folders, NEW u \in Users, NEW op \in {"star", "checkMark", "checkGet"},
         NEW m \in Mails
  PROVE  LET x == AsAction(Blank, op, u, {m}) IN
         /\ x \in MailRequest /\ x.op = op /\ x.mails = {m} /\ x.stage = "sent"
         /\ x.by = u
<1>1. ASSUME NEW r \in MailRequest
      PROVE  LET x == AsAction(r, op, u, {m}) IN
             /\ x \in MailRequest /\ x.op = op /\ x.mails = {m} /\ x.stage = r.stage
             /\ x.by = u
  BY DEF MailRequest, Ops, AsAction
<1> HIDE DEF Blank
<1> QED BY <1>1, BlankRequest

LEMMA RunBulkMailActionInv ==
  ASSUME MailboxInv, NEW a \in BulkActs, RunBulkMailAction(a)
  PROVE  MailboxInv'
<1> DEFINE x == AsBulk(Blank, user, openFolder, a, checked, offset, selected)
<1>1. pending' = pending \cup {x}
  BY DEF RunBulkMailAction, AsBulk
<1>2. x \in MailRequest /\ x.op = "bulk" /\ x.stage = "sent"
  BY NewBulkRequest DEF RunBulkMailAction, CanAct, MailboxInv, MailboxTypeOK
<1> HIDE DEF x
<1>3. /\ pending' \in SUBSET MailRequest /\ NamesOneMail(pending')
      /\ \A s : Detailing(s) => (s \in pending' <=> s \in pending)
      /\ \A s : Loading(s) => (s \in pending' <=> s \in pending)
      /\ \A s : Counting(s) => (s \in pending' <=> s \in pending)
      /\ HasRecount(pending, user) => HasRecount(pending', user)
      /\ Bulky(x)
  BY <1>1, <1>2, ActionAdded DEF MailboxInv
<1>4. MailboxTypeOK'
  <2>1. acts' \in 0..MaxActs
    BY MailboxAssumption DEF RunBulkMailAction, CanAct, Act, MailboxInv, MailboxTypeOK
  <2> QED BY <2>1, <1>3 DEF RunBulkMailAction, MailboxInv, MailboxTypeOK, mailServer
<1>5. DetailInv'
  BY <1>3, DetailFrame DEF RunBulkMailAction, MailboxInv
<1>6. LoadInv'
  BY <1>3, LoadFrame DEF RunBulkMailAction, MailboxInv
<1>7. BulkInv'
  <2>1. ~bulkBusy /\ bulkBusy'
    BY DEF RunBulkMailAction
  <2>2. \A s \in pending : ~Bulky(s)
    BY <2>1 DEF MailboxInv, BulkInv, HasBulk
  <2>3. HasBulk(pending') /\ OneBulk(pending')
    BY <1>1, <1>3, <2>2 DEF HasBulk, OneBulk
  <2> QED BY <2>1, <2>3 DEF BulkInv, HasBulk, OneBulk, Bulky
<1>8. CountInv'
  BY <1>3, CountFrame DEF RunBulkMailAction, MailboxInv
<1> QED BY <1>3, <1>4, <1>5, <1>6, <1>7, <1>8 DEF MailboxInv, NamesOneMail

\* The star and the read button: the request names the selected mail.
LEMMA SelectedActionInv ==
  ASSUME MailboxInv, NEW op \in {"star", "checkMark", "checkGet"},
         CanAct, selected # NoMail, listLoading' = TRUE,
         pending' = pending \cup {AsAction(Blank, op, user, {selected})},
         UNCHANGED <<mailServer, user, openFolder, offset, lists, selected, detail, detailBy,
                     loadedFor, detailLoading, detailFailed, checked, bulkBusy, badge, unheard>>
  PROVE  MailboxInv'
<1> DEFINE x == AsAction(Blank, op, user, {selected})
<1>1. x \in MailRequest /\ x.op = op /\ x.mails = {selected} /\ x.stage = "sent"
  BY NewActionRequest DEF CanAct, MailboxInv, MailboxTypeOK
<1>2. pending' = pending \cup {x}
  OBVIOUS
<1> HIDE DEF x
<1>3. /\ pending' \in SUBSET MailRequest /\ NamesOneMail(pending')
      /\ \A s : Detailing(s) => (s \in pending' <=> s \in pending)
      /\ \A s : Loading(s) => (s \in pending' <=> s \in pending)
      /\ \A s : Counting(s) => (s \in pending' <=> s \in pending)
      /\ HasRecount(pending, user) => HasRecount(pending', user)
      /\ ~Bulky(x)
  BY <1>1, <1>2, ActionAdded DEF MailboxInv
<1>4. MailboxTypeOK'
  <2>1. acts' \in 0..MaxActs
    BY MailboxAssumption DEF CanAct, Act, MailboxInv, MailboxTypeOK
  <2> QED BY <2>1, <1>3 DEF MailboxInv, MailboxTypeOK, mailServer
<1>5. DetailInv'
  BY <1>3, DetailFrame DEF MailboxInv
<1>6. LoadInv'
  BY <1>3, LoadFrame DEF MailboxInv
<1>7. BulkInv'
  <2>1. (HasBulk(pending') <=> HasBulk(pending)) /\ OneBulk(pending')
    BY <1>2, <1>3 DEF HasBulk, OneBulk, MailboxInv, BulkInv
  <2> QED BY <2>1, BulkFrame DEF MailboxInv
<1>8. CountInv'
  BY <1>3, CountFrame DEF MailboxInv
<1> QED BY <1>3, <1>4, <1>5, <1>6, <1>7, <1>8 DEF MailboxInv, NamesOneMail

LEMMA ToggleStarInv ==
  ASSUME MailboxInv, ToggleStar
  PROVE  MailboxInv'
<1>1. pending' = pending \cup {AsAction(Blank, "star", user, {selected})}
  BY DEF ToggleStar, AsAction
<1> QED BY <1>1, SelectedActionInv DEF ToggleStar

LEMMA ReadActionInv ==
  ASSUME MailboxInv, NEW marks \in BOOLEAN, ReadAction(marks)
  PROVE  MailboxInv'
<1> DEFINE op == IF marks THEN "checkMark" ELSE "checkGet"
<1>1. /\ op \in {"star", "checkMark", "checkGet"}
      /\ pending' = pending \cup {AsAction(Blank, op, user, {selected})}
  BY DEF ReadAction, AsAction
<1> HIDE DEF op
<1> QED BY <1>1, SelectedActionInv DEF ReadAction

\* A request that lost its owner is otherwise the same.
LEMMA DisownFacts ==
  ASSUME NEW R \in SUBSET MailRequest, NEW N, N = Disown(R)
  PROVE  /\ N \in SUBSET MailRequest
         /\ \A s \in N : ~s.mine
         /\ NamesOneMail(R) => NamesOneMail(N)
         /\ \A s \in N : Loading(s) =>
               \E r \in R : /\ Loading(r) /\ s.folder = r.folder /\ s.from = r.from
                            /\ s.awaited = r.awaited
         /\ \A s \in N : Counting(s) => \E r \in R : Counting(r)
         /\ HasBulk(N) <=> HasBulk(R)
         /\ OneBulk(R) => OneBulk(N)
<1> DEFINE lost(r) == [r EXCEPT !.mine = FALSE]
<1>1. ASSUME NEW r \in R
      PROVE  /\ lost(r) \in MailRequest /\ ~lost(r).mine
             /\ lost(r).op = r.op /\ lost(r).mails = r.mails /\ lost(r).folder = r.folder
             /\ lost(r).from = r.from /\ lost(r).awaited = r.awaited
             /\ lost(r).current = r.current
  BY DEF MailRequest
<1>2. N = {lost(r) : r \in R}
  BY DEF Disown
<1> HIDE DEF lost
<1>3. ASSUME NEW r \in R
      PROVE  /\ Bulky(lost(r)) <=> Bulky(r)
             /\ Loading(lost(r)) <=> Loading(r)
             /\ Counting(lost(r)) <=> Counting(r)
  BY <1>1 DEF Bulky, Loading, Counting
<1>4. NamesOneMail(R) => NamesOneMail(N)
  BY <1>1, <1>2 DEF NamesOneMail
<1>5. HasBulk(N) <=> HasBulk(R)
  BY <1>2, <1>3 DEF HasBulk
<1>6. OneBulk(R) => OneBulk(N)
  BY <1>2, <1>3 DEF OneBulk
<1>7. \A s \in N : Loading(s) =>
               \E r \in R : /\ Loading(r) /\ s.folder = r.folder /\ s.from = r.from
                            /\ s.awaited = r.awaited
  BY <1>1, <1>2, <1>3
<1>8. \A s \in N : Counting(s) => \E r \in R : Counting(r)
  BY <1>2, <1>3
<1>9. N \in SUBSET MailRequest /\ \A s \in N : ~s.mine
  BY <1>1, <1>2
<1> QED BY <1>4, <1>5, <1>6, <1>7, <1>8, <1>9

LEMMA LogoutInv ==
  ASSUME MailboxInv, Logout
  PROVE  MailboxInv'
<1>1. pending \in SUBSET MailRequest /\ NamesOneMail(pending) /\ OneBulk(pending)
  BY DEF MailboxInv, MailboxTypeOK, BulkInv
<1>2. /\ pending' \in SUBSET MailRequest
      /\ NamesOneMail(pending')
      /\ \A s \in pending' : Loading(s) =>
            \E r \in pending : /\ Loading(r) /\ s.folder = r.folder /\ s.from = r.from
                               /\ s.awaited = r.awaited
      /\ \A s \in pending' : ~Counting(s)
      /\ HasBulk(pending') <=> HasBulk(pending)
      /\ OneBulk(pending')
  <2> DEFINE N == Supersede(pending, {"count"})
  <2>1. /\ N \in SUBSET MailRequest
        /\ NamesOneMail(N)
        /\ \A s : s.op \notin {"count"} => (s \in N <=> s \in pending)
        /\ \A s \in N : s.op \in {"count"} => ~s.current
        /\ HasBulk(N) <=> HasBulk(pending)
        /\ OneBulk(N)
    BY <1>1, SupersedeFacts
  <2>2. pending' = Disown(N)
    BY DEF Logout
  <2> HIDE DEF N
  <2>3. /\ pending' \in SUBSET MailRequest
        /\ NamesOneMail(N) => NamesOneMail(pending')
        /\ \A s \in pending' : Loading(s) =>
              \E r \in N : /\ Loading(r) /\ s.folder = r.folder /\ s.from = r.from
                           /\ s.awaited = r.awaited
        /\ \A s \in pending' : Counting(s) => \E r \in N : Counting(r)
        /\ HasBulk(pending') <=> HasBulk(N)
        /\ OneBulk(N) => OneBulk(pending')
    BY <2>1, <2>2, DisownFacts
  <2>4. \A s \in pending' : ~Counting(s)
    BY <2>1, <2>3 DEF Counting
  <2>5. \A s \in N : Loading(s) => s \in pending
    BY <2>1 DEF Loading
  <2> QED BY <2>1, <2>3, <2>4, <2>5
<1>3. MailboxTypeOK'
  <2>1. acts' \in 0..MaxActs
    BY MailboxAssumption DEF Logout, CanAct, Act, MailboxInv, MailboxTypeOK
  <2>2. lists' \in [Slots -> SUBSET Mails]
    BY DEF Logout, MailboxInv, MailboxTypeOK, Slots
  <2> QED BY <2>1, <2>2, <1>2
          DEF Logout, Deselect, MailboxInv, MailboxTypeOK, mailServer
<1>4. DetailInv'
  BY DetailDropped DEF Logout
<1>5. LoadInv'
  <2>1. user' = Nobody /\ openFolder' = openFolder /\ offset' = offset
    BY DEF Logout
  <2>2. \A s \in pending' :
          Loading(s) /\ ~s.awaited => s.folder = openFolder /\ s.from = offset
    BY <1>2 DEF MailboxInv, LoadInv
  <2> QED BY <2>1, <2>2 DEF LoadInv, Loading
<1>6. BulkInv'
  BY <1>2, BulkFrame DEF Logout, MailboxInv
<1>7. CountInv'
  BY <1>2 DEF Logout, CountInv, Counting
<1> QED BY <1>2, <1>3, <1>4, <1>5, <1>6, <1>7 DEF MailboxInv, NamesOneMail

LEMMA LoginInv ==
  ASSUME MailboxInv, NEW u \in Users, Login(u)
  PROVE  MailboxInv'
<1> DEFINE left == Supersede(pending, {"count"} \cup ListOps)
           c == NewCount(u)
           l == NewLoad(u, TRUE, openFolder, 0, selected, FALSE)
<1>1. /\ pending \in SUBSET MailRequest /\ NamesOneMail(pending) /\ OneBulk(pending)
      /\ openFolder \in Folders /\ selected \in Mails \cup {NoMail}
  BY DEF MailboxInv, MailboxTypeOK, BulkInv
<1>2. /\ left \in SUBSET MailRequest
      /\ NamesOneMail(left)
      /\ \A s : s.op \notin {"count"} \cup ListOps => (s \in left <=> s \in pending)
      /\ \A s \in left : s.op \in {"count"} \cup ListOps => ~s.current
      /\ HasBulk(left) <=> HasBulk(pending)
      /\ OneBulk(left)
  BY <1>1, SupersedeFacts
<1>3. c \in MailRequest /\ c.op = "count" /\ c.current /\ c.by = u /\ c.stage = "sent"
  BY <1>1, NewCountRequest
<1>4. /\ l \in MailRequest /\ l.op = "load" /\ l.current
      /\ l.folder = openFolder /\ l.from = 0 /\ ~l.awaited
  <2> DEFINE waits == FALSE
             mine == TRUE
             k == NewLoad(u, mine, openFolder, 0, selected, waits)
  <2>1. waits \in BOOLEAN /\ ~waits /\ mine \in BOOLEAN /\ l = k
    OBVIOUS
  <2> HIDE DEF waits, mine
  <2>2. /\ k \in MailRequest /\ k.op = "load" /\ k.current
        /\ k.folder = openFolder /\ k.from = 0 /\ k.awaited = waits
    BY <1>1, <2>1, NewLoadRequest
  <2> HIDE DEF k, l
  <2> QED BY <2>1, <2>2
<1>5. pending' = left \cup {c, l}
  <2>1. l = [Blank EXCEPT !.by = u, !.op = "load", !.folder = openFolder, !.sel = selected]
    <3>1. ASSUME NEW r \in MailRequest, r.from = 0, ~r.awaited, r.mine
          PROVE  AsLoad(r, u, TRUE, openFolder, 0, selected, FALSE) =
                   [r EXCEPT !.by = u, !.op = "load", !.folder = openFolder, !.sel = selected]
      BY <3>1 DEF AsLoad, MailRequest
    <3>2. Blank \in MailRequest /\ Blank.from = 0 /\ ~Blank.awaited /\ Blank.mine
      BY <1>1, BlankRequest DEF Blank
    <3> HIDE DEF Blank
    <3> QED BY <3>1, <3>2 DEF NewLoad
  <2> HIDE DEF l
  <2> QED BY <2>1 DEF Login, NewCount, AsCount
<1> HIDE DEF left, c, l
<1>6. user' = u /\ offset' = 0 /\ openFolder' = openFolder
  BY DEF Login
<1>7. pending' \in SUBSET MailRequest /\ NamesOneMail(pending')
  BY <1>2, <1>3, <1>4, <1>5 DEF NamesOneMail, OneMailOps
<1>8. MailboxTypeOK'
  <2>1. acts' \in 0..MaxActs
    BY MailboxAssumption DEF Login, Act, MailboxInv, MailboxTypeOK
  <2> QED BY <2>1, <1>7 DEF Login, MailboxInv, MailboxTypeOK, mailServer
<1>9. DetailInv'
  <2>1. \A s \in pending' : Detailing(s) => s \in pending
    BY <1>2, <1>3, <1>4, <1>5 DEF Detailing, DetailOps, ListOps
  <2> QED BY <2>1, DetailFrame DEF Login, MailboxInv
<1>10. LoadInv'
  <2>1. Loading(l) /\ \A s \in pending' : Loading(s) => s = l
    BY <1>2, <1>3, <1>4, <1>5 DEF Loading, ListOps
  <2> QED BY <2>1, <1>4, <1>5, <1>6, LoadRenewed
<1>11. BulkInv'
  <2>1. ~Bulky(c) /\ ~Bulky(l)
    BY <1>3, <1>4 DEF Bulky
  <2>2. (HasBulk(pending') <=> HasBulk(pending)) /\ OneBulk(pending')
    BY <2>1, <1>2, <1>5 DEF HasBulk, OneBulk
  <2> QED BY <2>2, BulkFrame DEF Login, MailboxInv
<1>12. CountInv'
  <2>1. Counting(c) /\ \A s \in pending' : Counting(s) => s = c
    BY <1>2, <1>3, <1>4, <1>5 DEF Counting
  <2> QED BY <2>1, <1>3, <1>5, <1>6, CountRenewed
<1> QED BY <1>7, <1>8, <1>9, <1>10, <1>11, <1>12 DEF MailboxInv, NamesOneMail

-----------------------------------------------------------------------------
(* The server keeps the invariant. *)

Handled(r, pages, total) ==
  [r EXCEPT !.stage = "handled", !.pages = pages, !.total = total]

LEMMA HandledRequest ==
  ASSUME NEW r \in MailRequest, NEW pages \in [Slots -> SUBSET Mails], NEW total \in Nat
  PROVE  LET h == Handled(r, pages, total) IN
         /\ h \in MailRequest /\ h.stage = "handled" /\ h.total = total
         /\ h.op = r.op /\ h.by = r.by /\ h.mails = r.mails /\ h.folder = r.folder
         /\ h.from = r.from /\ (h.current <=> r.current) /\ (h.awaited <=> r.awaited)
         /\ (h.mine <=> r.mine)
BY DEF Handled, MailRequest

LEMMA CountsAreNumbers ==
  ASSUME NEW u, NEW f
  PROVE  /\ Cardinality(MailsIn(u, f)) \in Nat /\ Cardinality(Unread(u)) \in Nat
         /\ \A from : PagesFor(u, f, from) \in [Slots -> SUBSET Mails]
<1>1. IsFiniteSet(MailsIn(u, f)) /\ IsFiniteSet(Unread(u))
  <2>1. MailsIn(u, f) \subseteq Mails /\ Unread(u) \subseteq Mails
    BY DEF MailsIn, Unread
  <2> QED BY <2>1, FS_Subset, MailboxAssumption
<1>2. \A v, g, from : PageOf(MailsIn(v, g), from) \in SUBSET Mails
  BY DEF PageOf, MailsIn
<1> QED BY <1>1, <1>2, FS_CardinalityType DEF PagesFor

\* A bulk action leaves each mail in a box.
LEMMA TargetIsBox ==
  ASSUME MailboxTypeOK, NEW m \in Mails, NEW a \in BulkActs
  PROVE  Target(a, m) \in Boxes
BY DEF Target, MailboxTypeOK, Boxes, BulkActs

LEMMA ServerHandlesInv ==
  ASSUME MailboxInv, NEW r \in pending, ServerHandles(r)
  PROVE  MailboxInv'
<1> DEFINE pages == IF r.op = "load" THEN PagesFor(r.by, r.folder, r.from) ELSE r.pages
           total == CASE r.op = "load" -> Cardinality(MailsIn(r.by, r.folder))
                      [] r.op = "count" -> Cardinality(Unread(r.by))
                      [] OTHER -> r.total
           h == Handled(r, pages, total)
<1>1. r \in MailRequest /\ pending \in SUBSET MailRequest
  BY DEF MailboxInv, MailboxTypeOK
<1>2. /\ pages \in [Slots -> SUBSET Mails] /\ total \in Nat
      /\ r.op = "count" => total = Cardinality(Unread(r.by))
  <2>1. r.pages \in [Slots -> SUBSET Mails] /\ r.total \in Nat
    BY <1>1 DEF MailRequest
  <2>2. pages \in [Slots -> SUBSET Mails]
    BY <2>1, CountsAreNumbers
  <2>3. total \in Nat
    BY <2>1, CountsAreNumbers
  <2> QED BY <2>2, <2>3
<1>3. pending' = Done(r) \cup {h}
  BY DEF ServerHandles, Handled, Done
<1> HIDE DEF pages, total
<1>4. /\ h \in MailRequest /\ h.stage = "handled" /\ h.total = total
      /\ h.op = r.op /\ h.by = r.by /\ h.mails = r.mails /\ h.folder = r.folder
      /\ h.from = r.from /\ (h.current <=> r.current) /\ (h.awaited <=> r.awaited)
      /\ (h.mine <=> r.mine)
  BY <1>1, <1>2, HandledRequest
<1> HIDE DEF h
<1>5. /\ Done(r) \in SUBSET MailRequest /\ NamesOneMail(Done(r)) /\ OneBulk(Done(r))
      /\ \A s : s # r => (s \in Done(r) <=> s \in pending)
      /\ r \notin Done(r)
      /\ HasBulk(Done(r)) <=> (HasBulk(pending) /\ ~Bulky(r))
      /\ Counting(r) => \A s \in Done(r) : ~Counting(s)
      /\ \A v : ~Recounts(r, v) => (HasRecount(Done(r), v) <=> HasRecount(pending, v))
  BY DoneFacts DEF MailboxInv
<1>6. pending' \in SUBSET MailRequest /\ NamesOneMail(pending')
  <2>1. r.op \in OneMailOps => \E m \in Mails : r.mails = {m}
    BY DEF MailboxInv, NamesOneMail
  <2> QED BY <2>1, <1>3, <1>4, <1>5 DEF NamesOneMail
<1>7. MailboxTypeOK'
  <2>1. home' \in [Mails -> Boxes]
    <3>1. CASE r.op = "bulk" /\ r.act \in BulkActs
      BY <3>1, TargetIsBox DEF ServerHandles, MailboxInv, MailboxTypeOK
    <3>2. CASE r.op = "bulk" /\ r.act = "none"
      <4>1. \A m \in Mails : Target("none", m) = "inbox"
        BY DEF Target
      <4> QED BY <3>2, <4>1 DEF ServerHandles, MailboxInv, MailboxTypeOK, Boxes
    <3>3. CASE r.op # "bulk"
      BY <3>3 DEF ServerHandles, MailboxInv, MailboxTypeOK
    <3> QED BY <1>1, <3>1, <3>2, <3>3 DEF MailRequest, BulkActs
  <2>2. unreadMails' \subseteq Mails
    BY DEF ServerHandles, MailboxInv, MailboxTypeOK
  <2>3. unheard' \in BOOLEAN
    BY DEF ServerHandles
  <2> QED BY <2>1, <2>2, <2>3, <1>6 DEF ServerHandles, MailboxInv, MailboxTypeOK
<1>8. DetailInv'
  <2>1. \A s \in pending' : Detailing(s) => selected = NoMail \/ s.mails = {selected}
    BY <1>3, <1>4, <1>5 DEF MailboxInv, DetailInv, Detailing
  <2> QED BY <2>1 DEF ServerHandles, MailboxInv, DetailInv, LoadedDetailIsSelected,
                      SelectionIsShown, Detailing
<1>9. LoadInv'
  <2>1. \A s \in pending' :
          Loading(s) /\ ~s.awaited => s.folder = openFolder /\ s.from = offset
    BY <1>3, <1>4, <1>5 DEF MailboxInv, LoadInv, Loading
  <2>2. (\E s \in pending : Loading(s)) => \E s \in pending' : Loading(s)
    BY <1>3, <1>4, <1>5 DEF Loading
  <2> QED BY <2>1, <2>2 DEF ServerHandles, MailboxInv, LoadInv, Loading
<1>10. BulkInv'
  <2>1. Bulky(h) <=> Bulky(r)
    BY <1>4 DEF Bulky
  <2>2. Bulky(r) => ~HasBulk(Done(r))
    BY <1>5
  <2>3. OneBulk(pending')
    BY <2>1, <2>2, <1>3, <1>5 DEF OneBulk, HasBulk
  <2>4. HasBulk(pending') <=> HasBulk(pending)
    BY <2>1, <1>3, <1>5 DEF HasBulk
  <2> QED BY <2>3, <2>4, BulkFrame DEF ServerHandles, MailboxInv
<1>11. CountInv'
  <2>1. user' = user /\ badge' = badge
    BY DEF ServerHandles
  <2>2. /\ \A s \in pending' : Counting(s) => s.by = user
        /\ \A s, t \in pending' : Counting(s) /\ Counting(t) => s = t
    BY <1>3, <1>4, <1>5 DEF MailboxInv, CountInv, Counting
  <2>3. CASE Counting(r)
    <3>1. Counting(h) /\ \A s \in pending' : Counting(s) => s = h
      BY <2>3, <1>3, <1>4, <1>5 DEF Counting
    <3>2. UNCHANGED mailServer
      BY <2>3 DEF ServerHandles, Counting, mailServer
    <3>3. Unread(user)' = Unread(user)
      BY <3>2, <2>1 DEF mailServer, Unread, MailsIn
    <3>4. h.total = Cardinality(Unread(user))
      BY <2>3, <1>2, <1>4 DEF Counting, MailboxInv, CountInv
    <3> QED BY <3>1, <3>3, <3>4, <2>1, <2>2, <1>3 DEF CountInv, Counting
  <2>6. CASE Changes(r) /\ r.by = user /\ ~r.mine
    <3>1. unheard'
      BY <2>6 DEF ServerHandles
    <3> QED BY <3>1, <2>1, <2>2 DEF CountInv, Counting
  <2>4. CASE ~Counting(r) /\ Changes(r) /\ r.by = user /\ r.mine
    <3>1. HasRecount(pending', user)
      BY <2>4, <1>3, <1>4 DEF HasRecount, Recounts, Changes
    <3>2. HasRecount(pending, user)'
      BY <3>1, <2>1 DEF HasRecount, Recounts, Changes
    <3> QED BY <3>2, <2>1, <2>2 DEF CountInv, Counting
  <2>5. CASE ~Counting(r) /\ ~(Changes(r) /\ r.by = user)
    <3>1. Unread(user)' = Unread(user)
      <4>1. CASE Changes(r)
        <5>1. r.by # user /\ \A m \in r.mails : OwnerOf[m] = r.by
          BY <2>5, <4>1 DEF ServerHandles, Permits
        <5>2. \A m \in Mails : OwnerOf[m] = user =>
                /\ home'[m] = home[m]
                /\ m \in unreadMails' <=> m \in unreadMails
          BY <5>1 DEF ServerHandles
        <5> QED BY <5>2, <2>1 DEF Unread, MailsIn
      <4>2. CASE ~Changes(r)
        BY <4>2, <2>1 DEF ServerHandles, Changes, Unread, MailsIn
      <4> QED BY <4>1, <4>2
    <3>2. unheard' = unheard
      BY <2>5 DEF ServerHandles, Counting, MailboxInv, MailboxTypeOK
    <3>3. \A s : Counting(s) => (s \in pending' <=> s \in pending)
      BY <2>5, <1>3, <1>4, <1>5 DEF Counting
    <3>4. HasRecount(pending, user)' = HasRecount(pending', user)
      BY <2>1 DEF HasRecount, Recounts, Changes
    <3>5. HasRecount(pending, user) => HasRecount(pending', user)
      <4>1. ~Recounts(r, user)
        BY <2>5 DEF Recounts
      <4> QED BY <4>1, <1>3, <1>5 DEF HasRecount
    <3> QED BY <2>1, <3>1, <3>2, <3>3, <3>4, <3>5 DEF MailboxInv, CountInv, Counting
  <2> QED BY <2>3, <2>4, <2>5, <2>6
<1> QED BY <1>6, <1>7, <1>8, <1>9, <1>10, <1>11 DEF MailboxInv, NamesOneMail

-----------------------------------------------------------------------------
(* The answers keep the invariant. *)

\* A request is over: what it leaves behind.
LEMMA IsOver ==
  ASSUME MailboxInv, NEW r \in pending
  PROVE  /\ r \in MailRequest /\ openFolder \in Folders
         /\ Done(r) \in SUBSET MailRequest /\ NamesOneMail(Done(r)) /\ OneBulk(Done(r))
         /\ \A s : s # r => (s \in Done(r) <=> s \in pending)
         /\ r \notin Done(r)
         /\ HasBulk(Done(r)) <=> (HasBulk(pending) /\ ~Bulky(r))
         /\ Counting(r) => \A s \in Done(r) : ~Counting(s)
         /\ \A v : ~Recounts(r, v) => (HasRecount(Done(r), v) <=> HasRecount(pending, v))
BY DoneFacts DEF MailboxInv, MailboxTypeOK

LEMMA TheMail ==
  ASSUME MailboxInv, NEW r \in pending, r.op \in OneMailOps
  PROVE  The(r) \in Mails /\ r.mails = {The(r)} /\ The(r) # NoMail
<1>1. PICK m \in Mails : r.mails = {m}
  BY DEF MailboxInv, NamesOneMail
<1>2. The(r) = m
  BY <1>1 DEF The
<1> QED BY <1>1, <1>2, MailboxAssumption DEF NoMail

LEMMA LastOffsetIsNat ==
  ASSUME NEW n \in Nat
  PROVE  LastOffset(n) \in Nat
<1>1. PageSize \in Nat /\ PageSize > 0
  BY MailboxAssumption
<1>2. CASE n # 0
  <2> DEFINE q == (n - 1) \div PageSize
  <2>1. n - 1 \in Nat
    BY <1>2
  <2>2. q \in Nat
    BY <1>1, <2>1
  <2> HIDE DEF q
  <2>3. q * PageSize \in Nat
    BY <1>1, <2>2
  <2> QED BY <2>3, <1>2 DEF LastOffset, q
<1> QED BY <1>2 DEF LastOffset

LEMMA CountArrivesInv ==
  ASSUME MailboxInv, NEW r \in pending, CountArrives(r)
  PROVE  MailboxInv'
<1>1. /\ pending' = Done(r) /\ r.op = "count"
      /\ UNCHANGED <<mailServer, user, openFolder, offset, selected, detail, detailBy,
                     loadedFor, detailLoading, detailFailed, bulkBusy, unheard>>
  BY DEF CountArrives
<1>2. pending' \in SUBSET MailRequest /\ NamesOneMail(pending') /\ OneBulk(pending')
  BY <1>1, IsOver
<1>3. MailboxTypeOK'
  <2>1. badge' \in Nat \cup {-1}
    BY IsOver DEF CountArrives, MailRequest, MailboxInv, MailboxTypeOK
  <2> QED BY <2>1, <1>2 DEF CountArrives, MailboxInv, MailboxTypeOK, mailServer
<1>4. DetailInv'
  BY <1>1, IsOver, DetailFrame DEF MailboxInv, Done
<1>5. LoadInv'
  <2>1. \A s : Loading(s) => (s \in pending' <=> s \in pending)
    BY <1>1, IsOver DEF Loading
  <2> QED BY <2>1, <1>1, LoadFrame DEF MailboxInv
<1>6. BulkInv'
  <2>1. ~Bulky(r)
    BY <1>1 DEF Bulky
  <2> QED BY <2>1, <1>1, <1>2, IsOver, BulkFrame DEF MailboxInv
<1>7. CountInv'
  <2>1. ~Recounts(r, user)
    BY <1>1 DEF Recounts, Changes
  <2>2. HasRecount(pending', user) <=> HasRecount(pending, user)
    BY <2>1, <1>1, IsOver
  <2>3. CASE r.current
    <3>1. \A s \in pending' : ~Counting(s)
      BY <2>3, <1>1, IsOver DEF Counting
    <3>2. badge' = r.total
      BY <2>3 DEF CountArrives
    <3>3. Unread(user)' = Unread(user)
      BY <1>1 DEF mailServer, Unread, MailsIn
    <3>4. HasRecount(pending, user)' = HasRecount(pending', user)
      BY <1>1 DEF HasRecount, Recounts, Changes
    <3>5. Counting(r) /\ r.stage = "handled"
      BY <2>3 DEF CountArrives, Counting
    <3>6. user # Nobody /\ ~unheard /\ ~HasRecount(pending, user)
            => r.total = Cardinality(Unread(user))
      BY <3>5 DEF MailboxInv, CountInv
    <3> QED BY <3>1, <3>2, <3>3, <3>4, <3>6, <2>2, <1>1 DEF CountInv, Counting
  <2>4. CASE ~r.current
    <3>1. \A s : Counting(s) => (s \in pending' <=> s \in pending)
      BY <2>4, <1>1, IsOver DEF Counting
    <3>2. badge' = badge
      BY <2>4 DEF CountArrives
    <3> QED BY <3>1, <3>2, <2>2, <1>1, CountFrame DEF MailboxInv
  <2> QED BY <2>3, <2>4
<1> QED BY <1>2, <1>3, <1>4, <1>5, <1>6, <1>7 DEF MailboxInv, NamesOneMail

LEMMA LoadIgnoredInv ==
  ASSUME MailboxInv, NEW r \in pending, LoadIgnored(r)
  PROVE  MailboxInv'
<1>1. /\ pending' = Done(r) /\ r.op = "load" /\ ~r.current
      /\ UNCHANGED <<mailServer, user, openFolder, offset, selected, detail, detailBy,
                     loadedFor, detailLoading, detailFailed, badge, unheard>>
  BY DEF LoadIgnored, IsNewestLoad
<1>2. pending' \in SUBSET MailRequest /\ NamesOneMail(pending') /\ OneBulk(pending')
  BY <1>1, IsOver
<1>3. MailboxTypeOK'
  <2>1. listLoading' \in BOOLEAN /\ bulkBusy' \in BOOLEAN
    BY DEF LoadIgnored, EndLoad, MailboxInv, MailboxTypeOK
  <2> QED BY <2>1, <1>2 DEF LoadIgnored, MailboxInv, MailboxTypeOK, mailServer
<1>4. DetailInv'
  BY <1>1, IsOver, DetailFrame DEF MailboxInv, Done
<1>5. LoadInv'
  <2>1. \A s : Loading(s) => (s \in pending' <=> s \in pending)
    BY <1>1, IsOver DEF Loading
  <2> QED BY <2>1, <1>1, LoadFrame DEF MailboxInv
<1>6. BulkInv'
  <2>1. HasBulk(pending') <=> (HasBulk(pending) /\ ~r.awaited)
    BY <1>1, IsOver DEF Bulky
  <2>2. bulkBusy' <=> (bulkBusy /\ ~r.awaited)
    BY DEF LoadIgnored, EndLoad
  <2> QED BY <2>1, <2>2, <1>2 DEF MailboxInv, BulkInv, OneBulk, HasBulk, Bulky
<1>7. CountInv'
  <2>1. ~Recounts(r, user)
    BY <1>1 DEF Recounts, Changes
  <2>2. \A s : Counting(s) => (s \in pending' <=> s \in pending)
    BY <1>1, IsOver DEF Counting
  <2> QED BY <2>1, <2>2, <1>1, IsOver, CountFrame DEF MailboxInv
<1> QED BY <1>2, <1>3, <1>4, <1>5, <1>6, <1>7 DEF MailboxInv, NamesOneMail

\* The successor of a request asks for a list: the mails of the user who asked
\* are counted again; for another user nothing was to be counted.
LEMMA WorkspaceAnswered ==
  ASSUME MailboxInv, MineIsOurs, NEW r \in pending, r.op \in {"load", "bulk"},
         NEW from \in Nat, NEW waits \in BOOLEAN,
         pending' = LoadMailWorkspace(Done(r), r.by, r.mine, r.folder, from, r.sel, waits),
         waits => Bulky(r),
         UNCHANGED <<mailServer, user, badge, unheard>>
  PROVE  /\ pending' \in SUBSET MailRequest /\ NamesOneMail(pending')
         /\ \A s \in pending' : Detailing(s) => s \in pending
         /\ \E l \in pending' : /\ Loading(l) /\ l.folder = r.folder /\ l.from = from
                                /\ l.awaited = waits
                                /\ \A s \in pending' : Loading(s) => s = l
         /\ OneBulk(pending')
         /\ HasBulk(pending') <=> (waits \/ (HasBulk(pending) /\ ~Bulky(r)))
         /\ CountInv'
<1> DEFINE u == r.by
           mine == r.mine
           f == r.folder
           sel == r.sel
           R == Done(r)
           N == LoadMailWorkspace(R, u, mine, f, from, sel, waits)
<1>0. /\ pending' = N /\ u = r.by /\ f = r.folder /\ (mine <=> r.mine)
      /\ NamesOneMail(R) /\ OneBulk(R)
  BY IsOver
<1>1. R = Done(r)
  OBVIOUS
<1>7. /\ u \in Users /\ f \in Folders /\ sel \in Mails \cup {NoMail}
      /\ openFolder \in Folders /\ R \in SUBSET MailRequest /\ mine \in BOOLEAN
  BY IsOver DEF MailRequest
<1> HIDE DEF u, mine, f, sel, R
<1>2. N \in SUBSET MailRequest /\ NamesOneMail(N)
  <2>1. N \in SUBSET MailRequest
    BY <1>7, WorkspaceFacts
  <2>2. NamesOneMail(R) => NamesOneMail(N)
    BY <1>7, WorkspaceFacts
  <2> QED BY <1>0, <2>1, <2>2
<1>3. \A s : s.op \notin {"count", "load"} => (s \in N <=> s \in R)
  BY <1>7, WorkspaceFacts
<1>4. \E l \in N : /\ Loading(l) /\ l.folder = f /\ l.from = from
                   /\ l.awaited = waits
                   /\ \A s \in N : Loading(s) => s = l
  BY <1>7, WorkspaceFacts
<1>5. /\ ~mine => \A s : s.op = "count" => (s \in N <=> s \in R)
      /\ mine => /\ NewCount(u) \in N
                 /\ \A s \in N : Counting(s) => s = NewCount(u)
  BY <1>7, WorkspaceFacts
<1>6. /\ HasBulk(N) <=> (waits \/ HasBulk(R))
      /\ OneBulk(R) /\ (waits => ~HasBulk(R)) => OneBulk(N)
      /\ \A v : HasRecount(N, v) <=> HasRecount(R, v)
  BY <1>7, WorkspaceFacts
<1> HIDE DEF N
<1>8. \A s \in N : Detailing(s) => s \in pending
  BY <1>1, <1>3, IsOver DEF Detailing, DetailOps, Done
<1>9. OneBulk(N) /\ (HasBulk(N) <=> (waits \/ (HasBulk(pending) /\ ~Bulky(r))))
  BY <1>1, <1>6, IsOver
<1>10. CountInv'
  <2>1. CASE mine
    <3>1. /\ Counting(NewCount(u)) /\ NewCount(u).by = u
          /\ NewCount(u).stage = "sent"
      BY <1>7, NewCountRequest DEF Counting
    <3>2. u = user'
      BY <2>1, <1>0 DEF MineIsOurs, MineAre
    <3> QED BY <2>1, <3>1, <3>2, <1>5, <1>0, CountRenewed
  <2>2. CASE ~mine
    <3>1. ~Recounts(r, user) /\ ~Counting(r)
      BY <2>2, <1>0 DEF Recounts, Counting
    <3>2. \A s : Counting(s) => (s \in N <=> s \in pending)
      BY <2>2, <3>1, <1>1, <1>5, IsOver DEF Counting
    <3>3. HasRecount(pending, user) => HasRecount(N, user)
      BY <3>1, <1>1, <1>6, IsOver
    <3> QED BY <3>2, <3>3, <1>0, CountFrame DEF MailboxInv
  <2> QED BY <2>1, <2>2
<1> QED BY <1>0, <1>2, <1>4, <1>8, <1>9, <1>10

LEMMA LoadClampedInv ==
  ASSUME MailboxInv, MineIsOurs, NEW r \in pending, LoadClamped(r)
  PROVE  MailboxInv'
<1> DEFINE from == LastOffset(r.total)
<1>1. r \in MailRequest
  BY IsOver
<1>2. from \in Nat /\ r.awaited \in BOOLEAN
  BY <1>1, LastOffsetIsNat DEF MailRequest
<1>3. /\ r.op = "load" /\ r.current /\ offset' = from
      /\ pending' = LoadMailWorkspace(Done(r), r.by, r.mine, r.folder, from, r.sel, r.awaited)
      /\ UNCHANGED <<mailServer, user, openFolder, selected, detail, detailBy, loadedFor,
                     detailLoading, detailFailed, bulkBusy, badge, unheard>>
  BY DEF LoadClamped, IsNewestLoad
<1>4. r.awaited <=> Bulky(r)
  BY <1>3 DEF Bulky
<1> HIDE DEF from
<1> DEFINE waits == r.awaited
<1>5. waits \in BOOLEAN /\ (waits <=> Bulky(r)) /\ (waits <=> r.awaited)
      /\ pending' = LoadMailWorkspace(Done(r), r.by, r.mine, r.folder, from, r.sel, waits)
  BY <1>2, <1>3, <1>4
<1> HIDE DEF waits
<1>6. /\ pending' \in SUBSET MailRequest /\ NamesOneMail(pending')
      /\ \A s \in pending' : Detailing(s) => s \in pending
      /\ \E l \in pending' : /\ Loading(l) /\ l.folder = r.folder /\ l.from = from
                             /\ l.awaited = waits
                             /\ \A s \in pending' : Loading(s) => s = l
      /\ OneBulk(pending')
      /\ HasBulk(pending') <=> (waits \/ (HasBulk(pending) /\ ~Bulky(r)))
      /\ CountInv'
  BY <1>2, <1>3, <1>5, WorkspaceAnswered
<1>7. MailboxTypeOK'
  <2>1. lists' \in [Slots -> SUBSET Mails]
    BY <1>1 DEF LoadClamped, MailRequest
  <2>2. offset' \in Nat
    BY <1>2, <1>3
  <2> QED BY <2>1, <2>2, <1>6 DEF LoadClamped, MailboxInv, MailboxTypeOK, mailServer
<1>8. DetailInv'
  BY <1>3, <1>6, DetailFrame DEF MailboxInv
<1>9. LoadInv'
  <2>1. ~waits => r.folder = openFolder
    BY <1>3, <1>5 DEF MailboxInv, LoadInv, Loading
  <2> QED BY <2>1, <1>3, <1>6, LoadRenewed
<1>10. BulkInv'
  <2>1. HasBulk(pending') <=> HasBulk(pending)
    BY <1>5, <1>6 DEF HasBulk
  <2> QED BY <2>1, <1>3, <1>6, BulkFrame DEF MailboxInv
<1> QED BY <1>6, <1>7, <1>8, <1>9, <1>10 DEF MailboxInv, NamesOneMail

LEMMA BulkArrivesInv ==
  ASSUME MailboxInv, MineIsOurs, NEW r \in pending, BulkArrives(r)
  PROVE  MailboxInv'
<1> DEFINE waits == TRUE
<1>1. waits \in BOOLEAN /\ waits
  OBVIOUS
<1>2. /\ r.op \in {"load", "bulk"} /\ Bulky(r)
      /\ pending' = LoadMailWorkspace(Done(r), r.by, r.mine, r.folder, r.from, r.sel, waits)
      /\ UNCHANGED <<mailServer, user, openFolder, selected, detail, detailBy, loadedFor,
                     detailLoading, detailFailed, bulkBusy, badge, unheard>>
  BY DEF BulkArrives, Bulky
<1> HIDE DEF waits
<1>3. r.from \in Nat
  BY IsOver DEF MailRequest
<1>4. /\ pending' \in SUBSET MailRequest /\ NamesOneMail(pending')
      /\ \A s \in pending' : Detailing(s) => s \in pending
      /\ \E l \in pending' : /\ Loading(l) /\ l.folder = r.folder /\ l.from = r.from
                             /\ l.awaited = waits
                             /\ \A s \in pending' : Loading(s) => s = l
      /\ OneBulk(pending')
      /\ HasBulk(pending') <=> (waits \/ (HasBulk(pending) /\ ~Bulky(r)))
      /\ CountInv'
  <2> DEFINE from == r.from
  <2>1. from \in Nat /\ r.op \in {"load", "bulk"} /\ (waits => Bulky(r))
    BY <1>2, <1>3
  <2>2. /\ pending' = LoadMailWorkspace(Done(r), r.by, r.mine, r.folder, from, r.sel, waits)
        /\ UNCHANGED <<mailServer, user, badge, unheard>>
    BY <1>2
  <2>3. waits \in BOOLEAN
    BY <1>1
  <2> HIDE DEF from
  <2>4. /\ pending' \in SUBSET MailRequest /\ NamesOneMail(pending')
        /\ \A s \in pending' : Detailing(s) => s \in pending
        /\ \E l \in pending' : /\ Loading(l) /\ l.folder = r.folder /\ l.from = from
                               /\ l.awaited = waits
                               /\ \A s \in pending' : Loading(s) => s = l
        /\ OneBulk(pending')
        /\ HasBulk(pending') <=> (waits \/ (HasBulk(pending) /\ ~Bulky(r)))
        /\ CountInv'
    BY <2>1, <2>2, <2>3, WorkspaceAnswered
  <2> QED BY <2>4 DEF from
<1>5. MailboxTypeOK'
  BY <1>4 DEF BulkArrives, MailboxInv, MailboxTypeOK, mailServer
<1>6. DetailInv'
  BY <1>2, <1>4, DetailFrame DEF MailboxInv
<1>7. LoadInv'
  BY <1>1, <1>4, LoadRenewed
<1>8. BulkInv'
  <2>1. HasBulk(pending') /\ HasBulk(pending)
    BY <1>1, <1>2, <1>4 DEF HasBulk
  <2> QED BY <2>1, <1>2, <1>4, BulkFrame DEF MailboxInv
<1> QED BY <1>4, <1>5, <1>6, <1>7, <1>8 DEF MailboxInv, NamesOneMail

\* The successor of a request asks for a detail.
LEMMA DetailAnswered ==
  ASSUME MailboxInv, NEW r \in pending, NEW m \in Mails, NEW waits \in BOOLEAN,
         pending' = LoadMailDetail(Done(r), r.by, r.mine, m, FALSE, waits), ShowDetailLoading(m),
         r.op \in {"load", "star"}, UNCHANGED <<mailServer, user, badge, unheard>>
  PROVE  /\ pending' \in SUBSET MailRequest /\ NamesOneMail(pending')
         /\ \A s : Loading(s) => (s \in pending' <=> s \in Done(r))
         /\ OneBulk(pending')
         /\ HasBulk(pending') <=> (HasBulk(pending) /\ ~Bulky(r))
         /\ DetailInv' /\ CountInv'
<1> DEFINE u == r.by
           mine == r.mine
           R == Done(r)
           marks == FALSE
           N == LoadMailDetail(R, u, mine, m, marks, waits)
<1>1. pending' = N /\ R = Done(r)
  OBVIOUS
<1>2. NamesOneMail(R) /\ OneBulk(R)
  BY IsOver
<1>3. /\ openFolder \in Folders /\ u \in Users /\ R \in SUBSET MailRequest
      /\ marks \in BOOLEAN /\ mine \in BOOLEAN
  BY IsOver DEF MailRequest
<1> HIDE DEF u, mine, R, marks
<1>4. N \in SUBSET MailRequest
  BY <1>3, DetailFacts
<1>5. NamesOneMail(R) => NamesOneMail(N)
  BY <1>3, DetailFacts
<1>6. \A s : s.op \notin DetailOps => (s \in N <=> s \in R)
  BY <1>3, DetailFacts
<1>7. \A s \in N : Detailing(s) => s.mails = {m}
  BY <1>3, DetailFacts
<1>8. /\ HasBulk(N) <=> HasBulk(R)
      /\ \A v : HasRecount(N, v) <=> HasRecount(R, v)
      /\ OneBulk(R) => OneBulk(N)
  BY <1>3, DetailFacts
<1> HIDE DEF N
<1>9. DetailInv'
  BY <1>1, <1>7, DetailShown
<1>10. CountInv'
  <2>1. ~Recounts(r, user) /\ ~Counting(r)
    BY DEF Recounts, Changes, Counting
  <2>2. \A s : Counting(s) => (s \in N <=> s \in pending)
    BY <2>1, <1>1, <1>6, IsOver DEF Counting, DetailOps
  <2>3. HasRecount(pending, user) => HasRecount(N, user)
    BY <2>1, <1>1, <1>8, IsOver
  <2> QED BY <2>2, <2>3, <1>1, CountFrame DEF MailboxInv
<1>11. \A s : Loading(s) => (s \in N <=> s \in Done(r))
  BY <1>1, <1>6 DEF Loading, DetailOps
<1>12. HasBulk(N) <=> (HasBulk(pending) /\ ~Bulky(r))
  BY <1>1, <1>8, IsOver
<1> QED BY <1>1, <1>2, <1>4, <1>5, <1>8, <1>9, <1>10, <1>11, <1>12

LEMMA StarArrivesInv ==
  ASSUME MailboxInv, NEW r \in pending, StarArrives(r)
  PROVE  MailboxInv'
<1> DEFINE m == The(r)
           waits == TRUE
<1>1. m \in Mails /\ waits \in BOOLEAN
  BY TheMail DEF StarArrives, OneMailOps
<1>2. /\ r.op = "star"
      /\ pending' = LoadMailDetail(Done(r), r.by, r.mine, m, FALSE, waits) /\ ShowDetailLoading(m)
      /\ UNCHANGED <<mailServer, user, openFolder, offset, loadedFor, bulkBusy, badge, unheard>>
  BY DEF StarArrives
<1> HIDE DEF m, waits
<1>3. /\ pending' \in SUBSET MailRequest /\ NamesOneMail(pending')
      /\ \A s : Loading(s) => (s \in pending' <=> s \in Done(r))
      /\ OneBulk(pending')
      /\ HasBulk(pending') <=> (HasBulk(pending) /\ ~Bulky(r))
      /\ DetailInv' /\ CountInv'
  BY <1>1, <1>2, DetailAnswered
<1>4. MailboxTypeOK'
  BY <1>1, <1>2, <1>3
     DEF StarArrives, ShowDetailLoading, MailboxInv, MailboxTypeOK, mailServer
<1>5. LoadInv'
  <2>1. \A s : Loading(s) => (s \in pending' <=> s \in pending)
    BY <1>2, <1>3, IsOver DEF Loading
  <2> QED BY <2>1, <1>2, LoadFrame DEF MailboxInv
<1>6. BulkInv'
  <2>1. ~Bulky(r)
    BY <1>2 DEF Bulky
  <2> QED BY <2>1, <1>2, <1>3, BulkFrame DEF MailboxInv
<1> QED BY <1>3, <1>4, <1>5, <1>6 DEF MailboxInv, NamesOneMail

LEMMA MailToShowIsMail ==
  ASSUME NEW r \in MailRequest
  PROVE  MailToShow(r) \in Mails \cup {NoMail}
<1> DEFINE list == r.pages[SlotOf(r.folder)]
<1>1. list \in SUBSET Mails /\ IsFiniteSet(list) /\ list \subseteq Nat
  <2>1. SlotOf(r.folder) \in Slots
    BY DEF SlotOf, Slots
  <2>2. list \in SUBSET Mails
    BY <2>1 DEF MailRequest
  <2> QED BY <2>2, FS_Subset, MailboxAssumption
<1>2. list # {} => Min(list) \in list
  BY <1>1, SmallestOf
<1> QED BY <1>1, <1>2 DEF MailToShow

LEMMA LoadArrivesInv ==
  ASSUME MailboxInv, NEW r \in pending, LoadArrives(r)
  PROVE  MailboxInv'
<1>1. /\ r.op = "load" /\ r.current /\ r \in MailRequest
      /\ loadedFor' = [folder |-> r.folder, from |-> r.from,
                       how |-> IF r.awaited THEN "bulk" ELSE "user"]
      /\ bulkBusy' \in BOOLEAN /\ (bulkBusy' <=> (bulkBusy /\ ~r.awaited))
      /\ listLoading' \in BOOLEAN
      /\ UNCHANGED <<mailServer, user, openFolder, offset, badge, unheard>>
  BY IsOver DEF LoadArrives, IsNewestLoad, EndLoad, MailboxInv, MailboxTypeOK
<1>2. Bulky(r) <=> r.awaited
  BY <1>1 DEF Bulky
<1>3. /\ pending' \in SUBSET MailRequest /\ NamesOneMail(pending')
      /\ \A s : Loading(s) => (s \in pending' <=> s \in Done(r))
      /\ OneBulk(pending')
      /\ HasBulk(pending') <=> (HasBulk(pending) /\ ~Bulky(r))
      /\ DetailInv' /\ CountInv'
      /\ selected' \in Mails \cup {NoMail} /\ detail' \in Mails \cup {NoMail}
      /\ detailBy' = "load" /\ detailLoading' \in BOOLEAN /\ detailFailed' \in BOOLEAN
  <2>1. CASE MailToShow(r) = NoMail
    <3>1. /\ pending' = Done(r) /\ Deselect /\ detailLoading' \in BOOLEAN
          /\ detailFailed' \in BOOLEAN
      BY <2>1 DEF LoadArrives, MailboxInv, MailboxTypeOK
    <3>2. DetailInv'
      BY <3>1, DetailDropped
    <3>3. CountInv'
      <4>1. ~Recounts(r, user) /\ ~Counting(r)
        BY <1>1 DEF Recounts, Changes, Counting
      <4>2. \A s : Counting(s) => (s \in pending' <=> s \in pending)
        BY <4>1, <3>1, IsOver
      <4>3. HasRecount(pending, user) => HasRecount(pending', user)
        BY <4>1, <3>1, IsOver
      <4> QED BY <4>2, <4>3, <1>1, CountFrame DEF MailboxInv
    <3> QED BY <3>1, <3>2, <3>3, IsOver DEF Deselect
  <2>2. CASE MailToShow(r) # NoMail
    <3> DEFINE m == MailToShow(r)
               waits == FALSE
    <3>1. m \in Mails /\ waits \in BOOLEAN
      BY <1>1, <2>2, MailToShowIsMail
    <3>2. pending' = LoadMailDetail(Done(r), r.by, r.mine, m, FALSE, waits) /\ ShowDetailLoading(m)
      BY <2>2 DEF LoadArrives
    <3> HIDE DEF m, waits
    <3>3. /\ pending' \in SUBSET MailRequest /\ NamesOneMail(pending')
          /\ \A s : Loading(s) => (s \in pending' <=> s \in Done(r))
          /\ OneBulk(pending')
          /\ HasBulk(pending') <=> (HasBulk(pending) /\ ~Bulky(r))
          /\ DetailInv' /\ CountInv'
      BY <1>1, <3>1, <3>2, DetailAnswered
    <3> QED BY <3>1, <3>2, <3>3 DEF ShowDetailLoading
  <2> QED BY <2>1, <2>2
<1>4. MailboxTypeOK'
  <2>1. lists' \in [Slots -> SUBSET Mails]
    BY <1>1 DEF LoadArrives, MailRequest
  <2>2. loadedFor' \in [folder : Folders, from : Nat, how : {"none", "user", "bulk"}]
    BY <1>1 DEF MailRequest
  <2> QED BY <2>1, <2>2, <1>1, <1>3 DEF LoadArrives, MailboxInv, MailboxTypeOK, mailServer
<1>5. LoadInv'
  <2>1. \A s \in pending' :
          Loading(s) /\ ~s.awaited => s.folder = openFolder /\ s.from = offset
    BY <1>3, IsOver DEF MailboxInv, LoadInv, Done
  <2>2. loadedFor'.how = "user" => loadedFor'.folder = openFolder /\ loadedFor'.from = offset
    <3>1. ~r.awaited => r.folder = openFolder /\ r.from = offset
      BY <1>1 DEF MailboxInv, LoadInv, Loading
    <3> QED BY <3>1, <1>1
  <2> QED BY <2>1, <2>2, <1>1 DEF LoadInv, Loading
<1>6. BulkInv'
  BY <1>1, <1>2, <1>3 DEF MailboxInv, BulkInv, OneBulk, HasBulk, Bulky
<1> QED BY <1>3, <1>4, <1>5, <1>6 DEF MailboxInv, NamesOneMail

LEMMA MarkArrivesInv ==
  ASSUME MailboxInv, MineIsOurs, NEW r \in pending, MarkArrives(r)
  PROVE  MailboxInv'
<1> DEFINE op == IF r.op = "mark" THEN "get" ELSE "checkGet"
           g == [r EXCEPT !.op = op, !.stage = "sent"]
           u == r.by
           mine == r.mine
           R == Done(r)
           N == RefreshUnreadCount(R, u, mine)
<1>1. /\ r.op \in {"mark", "checkMark"} /\ pending' = N \cup {g} /\ R = Done(r) /\ u = r.by
      /\ (mine <=> r.mine)
      /\ UNCHANGED <<mailServer, user, openFolder, offset, selected, detail, detailBy,
                     loadedFor, detailLoading, detailFailed, bulkBusy, badge, unheard>>
  BY DEF MarkArrives
<1>2. r \in MailRequest /\ r.op \in OneMailOps
  BY <1>1, IsOver DEF OneMailOps
<1>3. /\ g \in MailRequest /\ g.op = op /\ g.mails = r.mails /\ (g.current <=> r.current)
      /\ g.stage = "sent"
  <2>1. op \in {"get", "checkGet"}
    OBVIOUS
  <2> HIDE DEF op
  <2> QED BY <1>2, <2>1 DEF MailRequest, Ops
<1>4. /\ r.op = "mark" => op = "get"
      /\ r.op # "mark" => op = "checkGet"
  OBVIOUS
<1> HIDE DEF g, op, u, mine, R
<1>5. NamesOneMail(R) /\ OneBulk(R)
  BY <1>1, IsOver
<1>6. openFolder \in Folders /\ u \in Users /\ R \in SUBSET MailRequest /\ mine \in BOOLEAN
  BY <1>1, IsOver DEF MailRequest, mine
<1>7. /\ N \in SUBSET MailRequest
      /\ NamesOneMail(R) => NamesOneMail(N)
      /\ \A s : s.op # "count" => (s \in N <=> s \in R)
  BY <1>6, RefreshFacts
<1>8. /\ ~mine => N = R
      /\ mine => /\ NewCount(u) \in N
                 /\ \A s \in N : Counting(s) => s = NewCount(u)
  BY <1>6, RefreshFacts
<1>9. /\ HasBulk(N) <=> HasBulk(R)
      /\ OneBulk(R) => OneBulk(N)
  BY <1>6, RefreshFacts
<1> HIDE DEF N
<1>10. pending' \in SUBSET MailRequest /\ NamesOneMail(pending')
  <2>1. \E m \in Mails : g.mails = {m}
    BY <1>2, <1>3 DEF MailboxInv, NamesOneMail
  <2> QED BY <2>1, <1>1, <1>3, <1>5, <1>7 DEF NamesOneMail
<1>11. ~Loading(g) /\ ~Counting(g) /\ ~Bulky(g) /\ ~Bulky(r)
  BY <1>1, <1>3, <1>4 DEF Loading, Counting, Bulky
<1>12. MailboxTypeOK'
  BY <1>10 DEF MarkArrives, MailboxInv, MailboxTypeOK, mailServer
<1>13. DetailInv'
  <2>1. \A s \in pending' : Detailing(s) => selected = NoMail \/ s.mails = {selected}
    <3>1. Detailing(g) => Detailing(r)
      BY <1>3, <1>4, <1>1 DEF Detailing, DetailOps
    <3>2. \A s \in N : Detailing(s) => s \in pending
      BY <1>1, <1>7, IsOver DEF Detailing, DetailOps, Done
    <3> QED BY <3>1, <3>2, <1>1, <1>3 DEF MailboxInv, DetailInv
  <2> QED BY <2>1, <1>1 DEF MailboxInv, DetailInv, LoadedDetailIsSelected,
                            SelectionIsShown, Detailing
<1>14. LoadInv'
  <2>1. \A s : Loading(s) => (s \in pending' <=> s \in pending)
    BY <1>1, <1>7, <1>11, IsOver DEF Loading
  <2> QED BY <2>1, <1>1, LoadFrame DEF MailboxInv
<1>15. BulkInv'
  <2>1. (HasBulk(pending') <=> HasBulk(pending)) /\ OneBulk(pending')
    <3>1. HasBulk(N) <=> HasBulk(pending)
      BY <1>1, <1>9, <1>11, IsOver
    <3> QED BY <3>1, <1>1, <1>5, <1>9, <1>11 DEF HasBulk, OneBulk
  <2> QED BY <2>1, <1>1, BulkFrame DEF MailboxInv
<1>16. CountInv'
  <2>1. CASE mine
    <3>0. u = user'
      BY <2>1, <1>1 DEF MineIsOurs, MineAre
    <3>1. Counting(NewCount(u)) /\ NewCount(u).by = u /\ NewCount(u).stage = "sent"
      BY <1>6, NewCountRequest DEF Counting
    <3>2. \A s \in pending' : Counting(s) => s = NewCount(u)
      BY <2>1, <1>1, <1>8, <1>11
    <3> QED BY <2>1, <3>0, <3>1, <3>2, <1>1, <1>8, CountRenewed
  <2>2. CASE ~mine
    <3>1. ~Recounts(r, user) /\ ~Counting(r)
      BY <2>2, <1>1 DEF Recounts, Counting
    <3>2. \A s : Counting(s) => (s \in pending' <=> s \in pending)
      BY <2>2, <3>1, <1>1, <1>8, <1>11, IsOver
    <3>3. HasRecount(pending, user) => HasRecount(pending', user)
      <4>1. HasRecount(R, user) => HasRecount(pending', user)
        BY <2>2, <1>1, <1>8 DEF HasRecount
      <4> QED BY <4>1, <3>1, <1>1, IsOver
    <3> QED BY <3>2, <3>3, <1>1, CountFrame DEF MailboxInv
  <2> QED BY <2>1, <2>2
<1> QED BY <1>10, <1>12, <1>13, <1>14, <1>15, <1>16 DEF MailboxInv, NamesOneMail

\* An answer that asks for nothing more leaves lists, bulk actions and counts
\* as they are.
LEMMA LastAnswer ==
  ASSUME MailboxInv, NEW r \in pending, r.op \in {"get", "checkGet"}, pending' = Done(r),
         UNCHANGED <<mailServer, user, openFolder, offset, loadedFor, bulkBusy, badge, unheard>>
  PROVE  /\ pending' \in SUBSET MailRequest /\ NamesOneMail(pending')
         /\ \A s \in pending' : s \in pending
         /\ LoadInv' /\ BulkInv' /\ CountInv'
<1>1. pending' \in SUBSET MailRequest /\ NamesOneMail(pending') /\ OneBulk(pending')
  BY IsOver
<1>2. ~Loading(r) /\ ~Bulky(r) /\ ~Counting(r) /\ ~Recounts(r, user)
  BY DEF Loading, Bulky, Counting, Recounts, Changes
<1>3. LoadInv'
  <2>1. \A s : Loading(s) => (s \in pending' <=> s \in pending)
    BY <1>2, IsOver
  <2> QED BY <2>1, LoadFrame DEF MailboxInv
<1>4. BulkInv'
  BY <1>1, <1>2, IsOver, BulkFrame DEF MailboxInv
<1>5. CountInv'
  <2>1. \A s : Counting(s) => (s \in pending' <=> s \in pending)
    BY <1>2, IsOver
  <2>2. HasRecount(pending, user) => HasRecount(pending', user)
    BY <1>2, IsOver
  <2> QED BY <2>1, <2>2, CountFrame DEF MailboxInv
<1>6. \A s \in pending' : s \in pending
  BY DEF Done
<1> QED BY <1>1, <1>3, <1>4, <1>5, <1>6

LEMMA DetailArrivesInv ==
  ASSUME MailboxInv, NEW r \in pending, DetailArrives(r)
  PROVE  MailboxInv'
<1>1. /\ r.op = "get" /\ pending' = Done(r)
      /\ UNCHANGED <<mailServer, user, openFolder, offset, selected, loadedFor, detailFailed,
                     bulkBusy, badge, unheard>>
  BY DEF DetailArrives
<1>2. /\ pending' \in SUBSET MailRequest /\ NamesOneMail(pending')
      /\ \A s \in pending' : s \in pending
      /\ LoadInv' /\ BulkInv' /\ CountInv'
  BY <1>1, LastAnswer
<1>3. The(r) \in Mails /\ r.mails = {The(r)} /\ The(r) # NoMail
  BY <1>1, TheMail DEF OneMailOps
<1>4. MailboxTypeOK'
  <2>1. listLoading' \in BOOLEAN /\ detailLoading' \in BOOLEAN
    BY DEF DetailArrives, MailboxInv, MailboxTypeOK
  <2>2. detail' \in Mails \cup {NoMail} /\ detailBy' \in {"load", "check"}
    BY <1>3 DEF DetailArrives, MailboxInv, MailboxTypeOK
  <2> QED BY <2>1, <2>2, <1>2 DEF DetailArrives, MailboxInv, MailboxTypeOK, mailServer
<1>5. DetailInv'
  <2>1. CASE r.current
    <3>1. selected = NoMail \/ The(r) = selected
      BY <2>1, <1>1, <1>3 DEF MailboxInv, DetailInv, Detailing, DetailOps
    <3>2. detail' = The(r) /\ detailBy' = "load"
      BY <2>1 DEF DetailArrives, IsNewestDetail
    <3> QED BY <3>1, <3>2, <1>1, <1>2, <1>3
            DEF MailboxInv, DetailInv, LoadedDetailIsSelected, SelectionIsShown, Detailing
  <2>2. CASE ~r.current
    <3>1. UNCHANGED <<detail, detailBy, detailLoading>>
      BY <2>2 DEF DetailArrives, IsNewestDetail
    <3> QED BY <3>1, <1>1, <1>2, DetailFrame DEF MailboxInv
  <2> QED BY <2>1, <2>2
<1> QED BY <1>2, <1>4, <1>5 DEF MailboxInv, NamesOneMail

LEMMA CheckedDetailArrivesInv ==
  ASSUME MailboxInv, NEW r \in pending, CheckedDetailArrives(r)
  PROVE  MailboxInv'
<1>1. /\ r.op = "checkGet" /\ pending' = Done(r) /\ detail' = The(r) /\ detailBy' = "check"
      /\ UNCHANGED <<mailServer, user, openFolder, offset, selected, loadedFor, bulkBusy,
                     badge, unheard>>
  BY DEF CheckedDetailArrives
<1>2. /\ pending' \in SUBSET MailRequest /\ NamesOneMail(pending')
      /\ \A s \in pending' : s \in pending
      /\ LoadInv' /\ BulkInv' /\ CountInv'
  BY <1>1, LastAnswer
<1>3. The(r) \in Mails /\ The(r) # NoMail
  BY <1>1, TheMail DEF OneMailOps
<1>4. MailboxTypeOK'
  BY <1>1, <1>2, <1>3 DEF CheckedDetailArrives, MailboxInv, MailboxTypeOK, mailServer
<1>5. DetailInv'
  BY <1>1, <1>2, <1>3
     DEF MailboxInv, DetailInv, LoadedDetailIsSelected, SelectionIsShown, Detailing
<1> QED BY <1>2, <1>4, <1>5 DEF MailboxInv, NamesOneMail

LEMMA FailsInv ==
  ASSUME MailboxInv, NEW r \in pending, Fails(r)
  PROVE  MailboxInv'
<1>1. pending' = Done(r) /\ UNCHANGED <<mailServer, user, openFolder, offset>>
  BY DEF Fails
<1>2. pending' \in SUBSET MailRequest /\ NamesOneMail(pending') /\ OneBulk(pending')
  BY <1>1, IsOver
<1>3. /\ ~Loading(r) => UNCHANGED <<lists, selected, detail, detailBy, loadedFor>>
      /\ Loading(r) => /\ lists' = NoPages /\ Deselect
                       /\ loadedFor' = [loadedFor EXCEPT !.how = "none"]
  BY DEF Fails, Loading
<1>4. MailboxTypeOK'
  <2>1. /\ listLoading' \in BOOLEAN /\ detailLoading' \in BOOLEAN /\ bulkBusy' \in BOOLEAN
        /\ detailFailed' \in BOOLEAN /\ unheard' \in BOOLEAN
    BY DEF Fails, MailboxInv, MailboxTypeOK
  <2>2. badge' \in Nat \cup {-1}
    BY DEF Fails, MailboxInv, MailboxTypeOK
  <2>3. /\ lists' \in [Slots -> SUBSET Mails] /\ selected' \in Mails \cup {NoMail}
        /\ detail' \in Mails \cup {NoMail} /\ detailBy' \in {"load", "check"}
        /\ loadedFor' \in [folder : Folders, from : Nat, how : {"none", "user", "bulk"}]
    BY <1>3 DEF NoPages, Deselect, MailboxInv, MailboxTypeOK
  <2> QED BY <2>1, <2>2, <2>3, <1>1, <1>2 DEF Fails, MailboxInv, MailboxTypeOK, mailServer
<1>5. DetailInv'
  <2>1. CASE Loading(r)
    BY <2>1, <1>3, DetailDropped
  <2>2. CASE ~Loading(r)
    <3>1. UNCHANGED <<selected, detail, detailBy>> /\ \A s \in pending' : s \in pending
      BY <2>2, <1>1, <1>3 DEF Done
    <3>2. detailLoading \/ detailFailed => detailLoading' \/ detailFailed'
      BY DEF Fails
    <3> QED BY <3>1, <3>2
            DEF MailboxInv, DetailInv, LoadedDetailIsSelected, SelectionIsShown, Detailing
  <2> QED BY <2>1, <2>2
<1>6. LoadInv'
  <2>1. CASE Loading(r)
    <3>1. loadedFor'.how = "none"
      BY <2>1, <1>3 DEF MailboxInv, MailboxTypeOK
    <3>2. \A s \in pending' : s \in pending
      BY <1>1 DEF Done
    <3> QED BY <3>1, <3>2, <1>1 DEF MailboxInv, LoadInv, Loading
  <2>2. CASE ~Loading(r)
    <3>1. \A s : Loading(s) => (s \in pending' <=> s \in pending)
      BY <2>2, <1>1, IsOver
    <3> QED BY <2>2, <3>1, <1>1, <1>3, LoadFrame DEF MailboxInv
  <2> QED BY <2>1, <2>2
<1>7. BulkInv'
  <2>1. bulkBusy' <=> (bulkBusy /\ ~Bulky(r))
    BY DEF Fails, Bulky
  <2>2. HasBulk(pending') <=> (HasBulk(pending) /\ ~Bulky(r))
    BY <1>1, IsOver
  <2> QED BY <2>1, <2>2, <1>2 DEF MailboxInv, BulkInv, OneBulk, HasBulk, Bulky
<1>8. CountInv'
  <2>1. /\ \A s \in pending' : Counting(s) => s.by = user
        /\ \A s, t \in pending' : Counting(s) /\ Counting(t) => s = t
    BY <1>1 DEF MailboxInv, CountInv, Done
  <2>2. Unread(user)' = Unread(user)
    BY <1>1 DEF mailServer, Unread, MailsIn
  <2>3. HasRecount(pending, user)' = HasRecount(pending', user)
    BY <1>1 DEF HasRecount, Recounts, Changes
  <2>4. CASE unheard'
    BY <2>4, <2>1, <1>1 DEF CountInv, Counting
  <2>5. CASE ~unheard'
    <3>1. ~unheard /\ ~Recounts(r, user)
      BY <2>5 DEF Fails, Recounts
    <3>2. HasRecount(pending', user) <=> HasRecount(pending, user)
      BY <3>1, <1>1, IsOver
    <3>3. CASE Counting(r)
      <4>1. badge' = -1 /\ \A s \in pending' : ~Counting(s)
        BY <3>3, <1>1, IsOver DEF Fails, Counting
      <4> QED BY <4>1 DEF CountInv, Counting
    <3>4. CASE ~Counting(r)
      <4>1. badge' = badge
        BY <3>4 DEF Fails, Counting
      <4>2. \A s : Counting(s) => (s \in pending' <=> s \in pending)
        BY <3>4, <1>1, IsOver
      <4> QED BY <4>1, <4>2, <3>1, <3>2, <2>1, <2>2, <2>3, <1>1
              DEF MailboxInv, CountInv, Counting
    <3> QED BY <3>3, <3>4
  <2> QED BY <2>4, <2>5
<1> QED BY <1>2, <1>4, <1>5, <1>6, <1>7, <1>8 DEF MailboxInv, NamesOneMail

-----------------------------------------------------------------------------
(* The invariant holds at the start and is kept by every step. *)

(***************************************************************************)
(* The token of the screen stays a token of its user: a request takes its  *)
(* token from the screen or from the request it follows, and a sign-out    *)
(* takes the screen away from all of them.                                 *)
(***************************************************************************)
LEMMA MineFrame ==
  ASSUME MineIsOurs, user' = user, NEW N, pending' = N, MineAre(N, user)
  PROVE  MineIsOurs'
BY DEF MineIsOurs, MineAre

LEMMA MineAsked ==
  ASSUME MailboxTypeOK, MineIsOurs, user \in Users, NEW f \in Folders, NEW from \in Nat,
         NEW R \in SUBSET MailRequest, MineAre(R, user), user' = user,
         pending' = LoadMailWorkspace(R, user, TRUE, f, from, selected, FALSE)
  PROVE  MineIsOurs'
<1> DEFINE mine == TRUE
           waits == FALSE
           sel == selected
           N == LoadMailWorkspace(R, user, mine, f, from, sel, waits)
<1>1. /\ mine \in BOOLEAN /\ waits \in BOOLEAN /\ sel \in Mails \cup {NoMail}
      /\ openFolder \in Folders
  BY DEF MailboxTypeOK
<1>2. pending' = N
  OBVIOUS
<1> HIDE DEF mine, waits, sel
<1>3. \A v : MineAre(R, v) /\ (mine => user = v) => MineAre(N, v)
  BY <1>1, WorkspaceFacts
<1> HIDE DEF N
<1> QED BY <1>2, <1>3, MineFrame

LEMMA MineDetailAsked ==
  ASSUME MailboxTypeOK, MineIsOurs, NEW R \in SUBSET MailRequest, MineAre(R, user),
         NEW u \in Users, NEW mine \in BOOLEAN, mine => u = user, NEW m \in Mails,
         NEW marks \in BOOLEAN, NEW waits \in BOOLEAN, user' = user,
         pending' = LoadMailDetail(R, u, mine, m, marks, waits)
  PROVE  MineIsOurs'
<1>1. openFolder \in Folders
  BY DEF MailboxTypeOK
<1>2. MineAre(pending', user)
  BY <1>1, DetailFacts
<1> QED BY <1>2, MineFrame

\* The requests of the actions carry the token of the screen.
LEMMA MineJoined ==
  ASSUME MineIsOurs, user' = user, NEW x, x.by = user, pending' = pending \cup {x}
  PROVE  MineIsOurs'
BY DEF MineIsOurs, MineAre

LEMMA UserMine ==
  ASSUME MailboxInv, MineIsOurs, UserStep
  PROVE  MineIsOurs'
<1>0. /\ MailboxTypeOK /\ pending \in SUBSET MailRequest /\ openFolder \in Folders
      /\ offset \in Nat /\ selected \in Mails \cup {NoMail} /\ checked \in SUBSET Mails
      /\ user # Nobody => user \in Users
      /\ MineAre(pending, user)
  BY DEF MailboxInv, MailboxTypeOK, MineIsOurs
<1>1. ASSUME NEW f \in Folders, OpenMailFolder(f) PROVE MineIsOurs'
  <2> DEFINE left == Supersede(pending, ListOps \cup DetailOps)
  <2>1. left \in SUBSET MailRequest /\ MineAre(left, user)
    BY <1>0, SupersedeFacts
  <2>2. /\ user' = user /\ user \in Users
        /\ f = "localArchive" => pending' = left
        /\ f # "localArchive" =>
              pending' = LoadMailWorkspace(left, user, TRUE, f, 0, selected, FALSE)
    BY <1>0, <1>1 DEF OpenMailFolder, CanAct
  <2> HIDE DEF left
  <2>3. CASE f = "localArchive"
    BY <2>1, <2>2, <2>3, MineFrame
  <2>4. CASE f # "localArchive"
    BY <1>0, <2>1, <2>2, <2>4, MineAsked
  <2> QED BY <2>3, <2>4
<1>2. ASSUME NEW from \in Nat, TurnPage(from) PROVE MineIsOurs'
  BY <1>0, <1>2, MineAsked DEF TurnPage, CanAct
<1>3. CASE Refresh
  BY <1>0, <1>3, MineAsked DEF Refresh, CanAct
<1>4. ASSUME NEW m \in Mails, NEW marks \in BOOLEAN, user \in Users, user' = user,
             pending' = LoadMailDetail(pending, user, TRUE, m, marks, FALSE)
      PROVE  MineIsOurs'
  <2> DEFINE mine == TRUE
             waits == FALSE
  <2>1. /\ mine \in BOOLEAN /\ waits \in BOOLEAN
        /\ pending' = LoadMailDetail(pending, user, mine, m, marks, waits)
    BY <1>4
  <2> HIDE DEF mine, waits
  <2> QED BY <1>0, <1>4, <2>1, MineDetailAsked
<1>5. ASSUME NEW m \in Mails, SelectMail(m) PROVE MineIsOurs'
  <2> DEFINE marks == m \in lists["inbox"] /\ openFolder # "trash"
  <2>1. marks \in BOOLEAN /\ pending' = LoadMailDetail(pending, user, TRUE, m, marks, FALSE)
    BY <1>5 DEF SelectMail
  <2> HIDE DEF marks
  <2>2. user \in Users /\ user' = user
    BY <1>0, <1>5 DEF SelectMail, CanAct
  <2> QED BY <1>4, <2>1, <2>2
<1>6. ASSUME NEW m \in Mails, NEW marks \in BOOLEAN, OpenFromElsewhere(m, marks)
      PROVE  MineIsOurs'
  <2>1. /\ user \in Users /\ user' = user
        /\ pending' = LoadMailDetail(pending, user, TRUE, m, marks, FALSE)
    BY <1>0, <1>6 DEF OpenFromElsewhere, CanAct
  <2> QED BY <1>4, <2>1
<1>7. ASSUME NEW m \in Mails, CheckMail(m) PROVE MineIsOurs'
  BY <1>7 DEF CheckMail, MineIsOurs, MineAre
<1>8. ASSUME NEW a \in BulkActs, RunBulkMailAction(a) PROVE MineIsOurs'
  <2> DEFINE x == AsBulk(Blank, user, openFolder, a, checked, offset, selected)
  <2>1. pending' = pending \cup {x} /\ user' = user /\ user \in Users
    BY <1>0, <1>8 DEF RunBulkMailAction, AsBulk, CanAct
  <2>2. x.by = user
    BY <1>0, <2>1, NewBulkRequest
  <2> HIDE DEF x
  <2> QED BY <2>1, <2>2, MineJoined
<1>9. ASSUME NEW op \in {"star", "checkMark", "checkGet"}, selected \in Mails,
             user \in Users, user' = user,
             pending' = pending \cup {AsAction(Blank, op, user, {selected})}
      PROVE  MineIsOurs'
  <2>1. AsAction(Blank, op, user, {selected}).by = user
    BY <1>0, <1>9, NewActionRequest
  <2> QED BY <1>9, <2>1, MineJoined
<1>10. CASE ToggleStar
  <2>1. pending' = pending \cup {AsAction(Blank, "star", user, {selected})}
    BY <1>10 DEF ToggleStar, AsAction
  <2>2. selected \in Mails /\ user \in Users /\ user' = user
    BY <1>0, <1>10 DEF ToggleStar, CanAct
  <2> QED BY <1>9, <2>1, <2>2
<1>11. ASSUME NEW marks \in BOOLEAN, ReadAction(marks) PROVE MineIsOurs'
  <2> DEFINE op == IF marks THEN "checkMark" ELSE "checkGet"
  <2>1. /\ op \in {"star", "checkMark", "checkGet"}
        /\ pending' = pending \cup {AsAction(Blank, op, user, {selected})}
    BY <1>11 DEF ReadAction, AsAction
  <2> HIDE DEF op
  <2>2. selected \in Mails /\ user \in Users /\ user' = user
    BY <1>0, <1>11 DEF ReadAction, CanAct
  <2> QED BY <1>9, <2>1, <2>2
<1>12. CASE Logout
  <2> DEFINE N == Supersede(pending, {"count"})
  <2>0. pending \in SUBSET MailRequest
    BY <1>0
  <2>1. /\ N \in SUBSET MailRequest
        /\ NamesOneMail(pending) => NamesOneMail(N)
        /\ \A s : s.op \notin {"count"} => (s \in N <=> s \in pending)
        /\ \A s \in N : s.op \in {"count"} => ~s.current
        /\ HasBulk(N) <=> HasBulk(pending)
        /\ \A v : HasRecount(N, v) <=> HasRecount(pending, v)
        /\ OneBulk(pending) => OneBulk(N)
        /\ \A v : MineAre(pending, v) => MineAre(N, v)
    BY <2>0, SupersedeFacts
  <2>2. pending' = Disown(N)
    BY <1>12 DEF Logout
  <2> HIDE DEF N
  <2>3. \A s \in pending' : ~s.mine
    BY <2>1, <2>2, DisownFacts
  <2> QED BY <2>3 DEF MineIsOurs, MineAre
<1>13. ASSUME NEW u \in Users, Login(u) PROVE MineIsOurs'
  <2> DEFINE left == Supersede(pending, {"count"} \cup ListOps)
             c == [Blank EXCEPT !.by = u]
             l == [Blank EXCEPT !.by = u, !.op = "load", !.folder = openFolder,
                     !.sel = selected]
  <2>1. pending' = left \cup {c, l} /\ user' = u /\ user = Nobody
    BY <1>13 DEF Login
  <2>2. MineAre(pending, u)
    <3>1. \A r \in pending : r.by \in Users
      BY <1>0 DEF MailRequest
    <3> QED BY <1>0, <2>1, <3>1, MailboxAssumption DEF MineAre
  <2>3. MineAre(left, u)
    BY <1>0, <2>2, SupersedeFacts
  <2>4. c.by = u /\ l.by = u
    <3>1. ASSUME NEW r \in MailRequest
          PROVE  /\ [r EXCEPT !.by = u].by = u
                 /\ [r EXCEPT !.by = u, !.op = "load", !.folder = openFolder,
                       !.sel = selected].by = u
      BY DEF MailRequest
    <3>2. Blank \in MailRequest
      BY <1>0, BlankRequest
    <3> HIDE DEF Blank
    <3> QED BY <3>1, <3>2
  <2> HIDE DEF left, c, l
  <2> QED BY <2>1, <2>3, <2>4 DEF MineIsOurs, MineAre
<1> QED
  <2>1. ASSUME NEW from \in {o \in 0..Cardinality(Mails) : o % PageSize = 0}, TurnPage(from)
        PROVE  MineIsOurs'
    <3>1. from \in Nat
      BY FS_CardinalityType, MailboxAssumption
    <3> QED BY <1>2, <2>1, <3>1
  <2> QED BY <1>1, <2>1, <1>3, <1>5, <1>6, <1>7, <1>8, <1>10, <1>11, <1>12, <1>13
          DEF UserStep, BulkActs

LEMMA NetworkMine ==
  ASSUME MailboxInv, MineIsOurs, NEW r \in pending,
         \/ ServerHandles(r) \/ Fails(r)
         \/ CountArrives(r)
         \/ LoadIgnored(r) \/ LoadClamped(r) \/ LoadArrives(r)
         \/ MarkArrives(r) \/ DetailArrives(r) \/ CheckedDetailArrives(r)
         \/ StarArrives(r) \/ BulkArrives(r)
  PROVE  MineIsOurs'
<1>0. /\ MailboxTypeOK /\ r \in MailRequest /\ openFolder \in Folders
      /\ Done(r) \in SUBSET MailRequest /\ MineAre(Done(r), user)
  BY IsOver DEF MailboxInv, MineIsOurs, MineAre, Done
<1>1. /\ r.by \in Users /\ r.folder \in Folders /\ r.from \in Nat
      /\ r.sel \in Mails \cup {NoMail} /\ r.awaited \in BOOLEAN /\ r.mine \in BOOLEAN
      /\ r.total \in Nat
  BY <1>0 DEF MailRequest
<1>2. r.mine => r.by = user
  BY DEF MineIsOurs, MineAre
<1>3. CASE pending' = Done(r) /\ user' = user
  BY <1>0, <1>3, MineFrame
<1>4. ASSUME NEW from \in Nat, NEW waits \in BOOLEAN, user' = user,
             pending' = LoadMailWorkspace(Done(r), r.by, r.mine, r.folder, from, r.sel, waits)
      PROVE  MineIsOurs'
  <2> DEFINE u == r.by
             mine == r.mine
             f == r.folder
             sel == r.sel
             R == Done(r)
  <2>1. /\ u \in Users /\ mine \in BOOLEAN /\ f \in Folders /\ sel \in Mails \cup {NoMail}
        /\ R \in SUBSET MailRequest /\ openFolder \in Folders /\ MineAre(R, user)
        /\ mine => u = user
        /\ pending' = LoadMailWorkspace(R, u, mine, f, from, sel, waits)
    BY <1>0, <1>1, <1>2, <1>4
  <2> HIDE DEF u, mine, f, sel, R
  <2>2. MineAre(pending', user)
    BY <2>1, WorkspaceFacts
  <2> QED BY <1>4, <2>2, MineFrame
<1>5. ASSUME NEW m \in Mails, NEW marks \in BOOLEAN, NEW waits \in BOOLEAN, user' = user,
             pending' = LoadMailDetail(Done(r), r.by, r.mine, m, marks, waits)
      PROVE  MineIsOurs'
  BY <1>0, <1>1, <1>2, <1>5, MineDetailAsked
<1>6. CASE ServerHandles(r)
  <2>1. PICK pages, total :
          pending' = Done(r) \cup
            {[r EXCEPT !.stage = "handled", !.pages = pages, !.total = total]}
    BY <1>6, Zenon DEF ServerHandles, Done
  <2> DEFINE h == [r EXCEPT !.stage = "handled", !.pages = pages, !.total = total]
  <2>2. h.by = r.by /\ (h.mine <=> r.mine)
    BY <1>0 DEF MailRequest
  <2>3. pending' = Done(r) \cup {h} /\ user' = user
    BY <1>6, <2>1 DEF ServerHandles
  <2> HIDE DEF h
  <2> QED BY <1>0, <1>2, <2>2, <2>3 DEF MineIsOurs, MineAre
<1>7. CASE LoadClamped(r)
  <2>1. LastOffset(r.total) \in Nat
    BY <1>1, LastOffsetIsNat
  <2> QED BY <1>1, <1>4, <1>7, <2>1 DEF LoadClamped
<1>8. CASE LoadArrives(r)
  <2>1. CASE MailToShow(r) = NoMail
    BY <1>3, <1>8, <2>1 DEF LoadArrives
  <2>2. CASE MailToShow(r) # NoMail
    <3>1. MailToShow(r) \in Mails
      BY <1>0, <2>2, MailToShowIsMail
    <3> QED BY <1>5, <1>8, <2>2, <3>1 DEF LoadArrives
  <2> QED BY <2>1, <2>2
<1>9. CASE MarkArrives(r)
  <2> DEFINE g == [r EXCEPT !.op = IF @ = "mark" THEN "get" ELSE "checkGet", !.stage = "sent"]
             u == r.by
             mine == r.mine
             R == Done(r)
             N == RefreshUnreadCount(R, u, mine)
  <2>1. pending' = N \cup {g} /\ user' = user
    BY <1>9 DEF MarkArrives
  <2>2. g.by = r.by /\ (g.mine <=> r.mine)
    BY <1>0 DEF MailRequest
  <2>3. /\ u \in Users /\ mine \in BOOLEAN /\ R \in SUBSET MailRequest
        /\ MineAre(R, user) /\ (mine => u = user)
    BY <1>0, <1>1, <1>2
  <2> HIDE DEF g, u, mine, R
  <2>4. MineAre(N, user)
    BY <1>0, <2>3, RefreshFacts
  <2> HIDE DEF N
  <2> QED BY <1>2, <2>1, <2>2, <2>4 DEF MineIsOurs, MineAre
<1>10. CASE StarArrives(r)
  <2>1. The(r) \in Mails
    BY <1>10, TheMail DEF StarArrives, OneMailOps
  <2> QED BY <1>5, <1>10, <2>1 DEF StarArrives
<1>11. CASE BulkArrives(r)
  BY <1>1, <1>4, <1>11 DEF BulkArrives
<1>12. CASE Fails(r) \/ CountArrives(r) \/ LoadIgnored(r) \/ DetailArrives(r)
            \/ CheckedDetailArrives(r)
  BY <1>3, <1>12 DEF Fails, CountArrives, LoadIgnored, DetailArrives, CheckedDetailArrives
<1> QED BY <1>6, <1>7, <1>8, <1>9, <1>10, <1>11, <1>12

LEMMA MineNext == MailboxInv /\ MineIsOurs /\ [MailboxNext]_mailboxVars => MineIsOurs'
<1> SUFFICES ASSUME MailboxInv, MineIsOurs, [MailboxNext]_mailboxVars PROVE MineIsOurs'
  OBVIOUS
<1>1. CASE NetworkStep
  BY <1>1, NetworkMine DEF NetworkStep
<1>2. CASE UNCHANGED mailboxVars
  BY <1>2 DEF mailboxVars, MineIsOurs, MineAre
<1> QED BY <1>1, <1>2, UserMine DEF MailboxNext

-----------------------------------------------------------------------------
LEMMA MailboxInitInv == MailboxInit => MailboxInv /\ MineIsOurs
<1> SUFFICES ASSUME MailboxInit PROVE MailboxInv /\ MineIsOurs
  OBVIOUS
<1>1. MailboxTypeOK
  <2>1. HomeOf \in [Mails -> Boxes]
    BY MailboxAssumption DEF Boxes
  <2>2. NoPages \in [Slots -> SUBSET Mails]
    BY DEF NoPages
  <2>3. 0 \in 0..MaxActs /\ "inbox" \in Folders
    BY MailboxAssumption
  <2> QED BY <2>1, <2>2, <2>3 DEF MailboxInit, MailboxTypeOK
<1>2. NamesOneMail(pending) /\ DetailInv /\ LoadInv
  BY DEF MailboxInit, NamesOneMail, DetailInv, LoadedDetailIsSelected, SelectionIsShown, LoadInv
<1>3. BulkInv /\ CountInv
  BY DEF MailboxInit, BulkInv, OneBulk, HasBulk, CountInv
<1>4. MineIsOurs
  BY DEF MailboxInit, MineIsOurs, MineAre
<1> QED BY <1>1, <1>2, <1>3, <1>4 DEF MailboxInv

LEMMA MailboxNextInv == MailboxInv /\ MineIsOurs /\ [MailboxNext]_mailboxVars => MailboxInv'
<1> SUFFICES ASSUME MailboxInv, MineIsOurs, [MailboxNext]_mailboxVars PROVE MailboxInv'
  OBVIOUS
<1>1. CASE UserStep
  <2>1. ASSUME NEW f \in Folders, OpenMailFolder(f) PROVE MailboxInv'
    BY <2>1, OpenMailFolderInv
  <2>2. ASSUME NEW from \in {o \in 0..Cardinality(Mails) : o % PageSize = 0}, TurnPage(from)
        PROVE  MailboxInv'
    <3>1. from \in Nat
      BY FS_CardinalityType, MailboxAssumption
    <3> QED BY <2>2, <3>1, TurnPageInv
  <2>3. CASE Refresh
    BY <2>3, RefreshInv
  <2>4. ASSUME NEW m \in Mails, SelectMail(m) PROVE MailboxInv'
    BY <2>4, SelectMailInv
  <2>5. ASSUME NEW m \in Mails, CheckMail(m) PROVE MailboxInv'
    BY <2>5, CheckMailInv
  <2>6. ASSUME NEW m \in Mails, NEW marks \in BOOLEAN, OpenFromElsewhere(m, marks)
        PROVE  MailboxInv'
    BY <2>6, OpenFromElsewhereInv
  <2>7. ASSUME NEW a \in BulkActs, RunBulkMailAction(a) PROVE MailboxInv'
    BY <2>7, RunBulkMailActionInv
  <2>8. CASE ToggleStar
    BY <2>8, ToggleStarInv
  <2>9. ASSUME NEW marks \in BOOLEAN, ReadAction(marks) PROVE MailboxInv'
    BY <2>9, ReadActionInv
  <2>10. CASE Logout
    BY <2>10, LogoutInv
  <2>11. ASSUME NEW u \in Users, Login(u) PROVE MailboxInv'
    BY <2>11, LoginInv
  <2> QED BY <1>1, <2>1, <2>2, <2>3, <2>4, <2>5, <2>6, <2>7, <2>8, <2>9, <2>10, <2>11
          DEF UserStep, BulkActs
<1>2. CASE NetworkStep
  <2>1. PICK r \in pending :
          \/ ServerHandles(r) \/ Fails(r)
          \/ CountArrives(r)
          \/ LoadIgnored(r) \/ LoadClamped(r) \/ LoadArrives(r)
          \/ MarkArrives(r) \/ DetailArrives(r) \/ CheckedDetailArrives(r)
          \/ StarArrives(r) \/ BulkArrives(r)
    BY <1>2 DEF NetworkStep
  <2> QED BY <2>1, ServerHandlesInv, FailsInv, CountArrivesInv, LoadIgnoredInv,
             LoadClampedInv, LoadArrivesInv, MarkArrivesInv, DetailArrivesInv,
             CheckedDetailArrivesInv, StarArrivesInv, BulkArrivesInv
<1>3. CASE UNCHANGED mailboxVars
  <2>1. MailboxTypeOK' /\ NamesOneMail(pending)'
    BY <1>3 DEF mailboxVars, mailServer, MailboxInv, MailboxTypeOK, NamesOneMail
  <2>2. DetailInv'
    BY <1>3, DetailFrame DEF mailboxVars, MailboxInv
  <2>3. LoadInv'
    BY <1>3, LoadFrame DEF mailboxVars, MailboxInv
  <2>4. BulkInv'
    BY <1>3, BulkFrame DEF mailboxVars, MailboxInv, BulkInv
  <2>5. CountInv'
    <3>1. UNCHANGED <<mailServer, user, badge, unheard>> /\ pending' = pending
      BY <1>3 DEF mailboxVars, mailServer
    <3> QED BY <3>1, CountFrame DEF MailboxInv
  <2> QED BY <2>1, <2>2, <2>3, <2>4, <2>5 DEF MailboxInv
<1> QED BY <1>1, <1>2, <1>3 DEF MailboxNext

-----------------------------------------------------------------------------
LEMMA MailboxInvHolds == MailboxSpec => [](MailboxInv /\ MineIsOurs)
BY MailboxInitInv, MailboxNextInv, MineNext, PTL DEF MailboxSpec

\* Every variable keeps its type, and a request on its way is a request: the
\* page an answer leads back to is never before the first one.
THEOREM MailboxTypeCorrect == MailboxSpec => []MailboxTypeOK
<1>1. MailboxInv => MailboxTypeOK
  BY DEF MailboxInv
<1> QED BY <1>1, MailboxInvHolds, PTL

\* A detail that a selection loaded is the one of the selected mail: the
\* request counter of the detail is enough.
THEOREM DetailCorrect == MailboxSpec => []LoadedDetailIsSelected
<1>1. MailboxInv => LoadedDetailIsSelected
  BY DEF MailboxInv, DetailInv
<1> QED BY <1>1, MailboxInvHolds, PTL

\* A mail that is selected is shown, loading or reported as failed, whatever
\* overtakes what.
THEOREM SelectionCorrect == MailboxSpec => []SelectionIsShown
<1>1. MailboxInv => SelectionIsShown
  BY DEF MailboxInv, DetailInv
<1> QED BY <1>1, MailboxInvHolds, PTL

\* At rest the list is the one of the open folder and page: a list that is not
\* has its successor on the way.
THEOREM ListCorrect == MailboxSpec => []ListIsOfFolder
<1>1. MailboxInv => ListIsOfFolder
  BY DEF MailboxInv, LoadInv, ListIsOfFolder, AtRest
<1> QED BY <1>1, MailboxInvHolds, PTL

\* At rest the badge is unknown or true: every change of the mails whose answer
\* arrives with the token of the screen is followed by a count that was asked
\* for after it.
THEOREM BadgeCorrect == MailboxSpec => []BadgeIsTrue
<1>1. MailboxInv => BadgeIsTrue
  BY DEF MailboxInv, CountInv, BadgeIsTrue, AtRest, HasRecount
<1> QED BY <1>1, MailboxInvHolds, PTL

\* The bulk buttons are disabled exactly while a bulk action, or the reload it
\* waits for, is on its way.
THEOREM BulkBusyCorrect == MailboxSpec => []BulkBusyIsTrue
<1>1. MailboxInv => BulkBusyIsTrue
  BY DEF MailboxInv, BulkInv, HasBulk, Bulky, BulkBusyIsTrue
<1> QED BY <1>1, MailboxInvHolds, PTL
=============================================================================
