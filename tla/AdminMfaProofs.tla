-------------------------- MODULE AdminMfaProofs --------------------------
(***************************************************************************)
(* For any number of challenges, handlers, custodians, break-glass         *)
(* requests and tokens: a token that passes belongs to the authenticator   *)
(* that is enrolled, old enrolments replace none, and no code passes       *)
(* twice.                                                                  *)
(***************************************************************************)
EXTENDS AdminMfa, FiniteSetTheorems, SequenceTheorems, TLAPS

(***************************************************************************)
(* The inductive invariant.  Whatever changes the seed of the profile, or  *)
(* carries out a break-glass request, gives the profile a new version; so  *)
(* who holds the version of today proved to hold the seed of today.  The   *)
(* seed was issued before every enrolment that is still open.              *)
(***************************************************************************)
SeedWasIssued == profile.seed <= Len(challenges)

VersionsInOrder ==
  \A s \in signing \cup tokens :
    /\ s.version <= profile.version
    /\ s.version = profile.version => s.since = <<profile.seed, Executed>>

\* The profile holds the last step that was accepted, so a later one is new.
AcceptedInOrder ==
  /\ CodesAreSpent
  /\ \A i \in DOMAIN accepted : accepted[i] <= profile.last

MfaInv ==
  MfaTypeOK /\ SeedWasIssued /\ NewestEnrolment /\ VersionsInOrder /\ AcceptedInOrder

\* A step that issues no enrolment: rows are added or closed.
NoNewEnrolment ==
  /\ challenges' \in Seq(Challenge)
  /\ Len(challenges') >= Len(challenges)
  /\ OpenEnrolments' \subseteq OpenEnrolments

-----------------------------------------------------------------------------
\* Executed counts a finite set.
LEMMA ExecutedIsNat == glass \in Seq(GlassRequest) => Executed \in Nat
<1> SUFFICES ASSUME glass \in Seq(GlassRequest) PROVE Executed \in Nat
  OBVIOUS
<1> DEFINE carried == {g \in DOMAIN glass : glass[g].status = "consumed"}
<1>1. DOMAIN glass = 1..Len(glass) /\ Len(glass) \in Nat
  OBVIOUS
<1>2. IsFiniteSet(1..Len(glass)) /\ carried \in SUBSET (1..Len(glass))
  BY <1>1, FS_Interval
<1>3. IsFiniteSet(carried)
  BY <1>2, FS_Subset
<1> QED BY <1>3, FS_CardinalityType DEF Executed

\* Cancelled keeps the table: it closes rows of the purposes, and only those.
LEMMA CancelledRows ==
  ASSUME NEW rows \in Seq(Challenge), NEW purposes
  PROVE  /\ Cancelled(rows, purposes) \in Seq(Challenge)
         /\ Len(Cancelled(rows, purposes)) = Len(rows)
         /\ \A c \in 1..Len(rows) :
              Cancelled(rows, purposes)[c] =
                IF rows[c].purpose \in purposes THEN Closed ELSE rows[c]
<1> DEFINE after == Cancelled(rows, purposes)
<1>1. Closed \in Challenge
  BY DEF Closed, Challenge
<1>2. DOMAIN rows = 1..Len(rows) /\ Len(rows) \in Nat /\ \A c \in 1..Len(rows) : rows[c] \in Challenge
  OBVIOUS
<1>3. after \in [1..Len(rows) -> Challenge]
  BY <1>1, <1>2 DEF Cancelled
<1>4. after \in Seq(Challenge)
  BY <1>2, <1>3, SeqDef
<1>5. Len(after) = Len(rows)
  BY <1>2, <1>3, <1>4
<1>6. \A c \in 1..Len(rows) :
        after[c] = IF rows[c].purpose \in purposes THEN Closed ELSE rows[c]
  BY <1>2 DEF Cancelled
<1> QED BY <1>4, <1>5, <1>6

\* A row that is added, and is no enrolment.
LEMMA IssueRows ==
  ASSUME MfaTypeOK, NEW row \in Challenge, row.purpose # "enroll",
         challenges' = Append(challenges, row)
  PROVE  NoNewEnrolment /\ Len(challenges') = Len(challenges) + 1
<1>1. /\ challenges' \in Seq(Challenge) /\ Len(challenges') = Len(challenges) + 1
      /\ \A c \in 1..Len(challenges) : challenges'[c] = challenges[c]
      /\ challenges'[Len(challenges) + 1] = row
      /\ Len(challenges) \in Nat
  BY AppendProperties DEF MfaTypeOK
<1>2. DOMAIN challenges = 1..Len(challenges) /\ DOMAIN challenges' = 1..Len(challenges')
  BY <1>1 DEF MfaTypeOK
<1>3. OpenEnrolments' \subseteq OpenEnrolments
  BY <1>1, <1>2 DEF OpenEnrolments
<1> QED BY <1>1, <1>3 DEF NoNewEnrolment

\* A row that is closed, or an email_verify that is consumed.
LEMMA CloseRows ==
  ASSUME MfaTypeOK, NEW c \in DOMAIN challenges, NEW row \in Challenge,
         row.purpose # "enroll", challenges' = [challenges EXCEPT ![c] = row]
  PROVE  NoNewEnrolment /\ Len(challenges') = Len(challenges)
<1>1. c \in 1..Len(challenges) /\ Len(challenges) \in Nat
  BY DEF MfaTypeOK
<1>2. /\ challenges' \in Seq(Challenge) /\ Len(challenges') = Len(challenges)
      /\ \A d \in 1..Len(challenges) : challenges'[d] = IF d = c THEN row ELSE challenges[d]
  BY <1>1, ExceptSeq DEF MfaTypeOK
<1>3. DOMAIN challenges = 1..Len(challenges) /\ DOMAIN challenges' = 1..Len(challenges')
  BY <1>2 DEF MfaTypeOK
<1>4. OpenEnrolments' \subseteq OpenEnrolments
  BY <1>2, <1>3 DEF OpenEnrolments
<1> QED BY <1>1, <1>2, <1>4 DEF NoNewEnrolment

LEMMA SameRows == MfaTypeOK /\ UNCHANGED challenges => NoNewEnrolment
BY DEF MfaTypeOK, NoNewEnrolment, OpenEnrolments

LEMMA ConsumedRows ==
  ASSUME MfaTypeOK, NEW c \in DOMAIN challenges, challenges' = Consumed(c)
  PROVE  NoNewEnrolment
<1>1. Closed \in Challenge /\ Closed.purpose # "enroll"
  BY DEF Closed, Challenge
<1> QED BY <1>1, CloseRows DEF Consumed

LEMMA WrongCodeRows ==
  ASSUME MfaTypeOK, NEW c \in DOMAIN challenges, WrongCode(c)
  PROVE  NoNewEnrolment
BY SameRows, ConsumedRows DEF WrongCode

\* A step that leaves the versions and the carried out requests as they are.
LEMMA QuietStep ==
  ASSUME MfaInv, MfaTypeOK', NoNewEnrolment, Executed' = Executed,
         profile'.seed = profile.seed, profile'.version = profile.version,
         AcceptedInOrder',
         signing' \subseteq signing,
         tokens' \subseteq tokens \cup {Claims(s) : s \in signing}
  PROVE  MfaInv'
<1>1. SeedWasIssued'
  BY DEF MfaInv, MfaTypeOK, Profile, SeedWasIssued, NoNewEnrolment
<1>2. NewestEnrolment'
  BY DEF MfaInv, NewestEnrolment, NoNewEnrolment
<1>3. VersionsInOrder'
  <2> SUFFICES ASSUME NEW s \in signing' \cup tokens'
               PROVE  /\ s.version <= profile.version
                      /\ s.version = profile.version => s.since = <<profile.seed, Executed>>
    BY DEF VersionsInOrder
  <2>1. CASE s \in signing \cup tokens
    BY <2>1 DEF MfaInv, VersionsInOrder
  <2>2. CASE s \notin signing \cup tokens
    <3>1. PICK q \in signing : s = Claims(q)
      BY <2>2
    <3>2. s.version = q.version /\ s.since = q.since
      BY <3>1 DEF Claims
    <3> QED BY <3>1, <3>2 DEF MfaInv, VersionsInOrder
  <2> QED BY <2>1, <2>2
<1> QED BY <1>1, <1>2, <1>3 DEF MfaInv

\* A step that accepts no code.
LEMMA SameAccepted ==
  ASSUME MfaInv, UNCHANGED accepted, profile'.last = profile.last
  PROVE  AcceptedInOrder'
BY DEF MfaInv, AcceptedInOrder, CodesAreSpent

\* A code that is later than the last one.
LEMMA NextAccepted ==
  ASSUME MfaInv, NEW step \in Nat, step > profile.last,
         accepted' = Append(accepted, step), profile'.last = step
  PROVE  accepted' \in Seq(Nat) /\ AcceptedInOrder'
<1>1. accepted \in Seq(Nat) /\ Len(accepted) \in Nat /\ profile.last \in Nat
  BY DEF MfaInv, MfaTypeOK, Profile
<1>2. /\ accepted' \in Seq(Nat) /\ Len(accepted') = Len(accepted) + 1
      /\ \A i \in 1..Len(accepted) : accepted'[i] = accepted[i]
      /\ accepted'[Len(accepted) + 1] = step
  BY <1>1, AppendProperties
<1>3. DOMAIN accepted = 1..Len(accepted) /\ DOMAIN accepted' = 1..(Len(accepted) + 1)
  BY <1>1, <1>2
<1>4. /\ \A i \in 1..Len(accepted) : accepted[i] \in Nat /\ accepted[i] <= profile.last
      /\ \A i, j \in 1..Len(accepted) : i < j => accepted[i] < accepted[j]
  <2>1. AcceptedInOrder
    BY DEF MfaInv
  <2>2. \A i \in 1..Len(accepted) : accepted[i] \in Nat
    BY <1>1
  <2> QED BY <1>3, <2>1, <2>2 DEF AcceptedInOrder, CodesAreSpent
<1>5. \A i \in DOMAIN accepted' : i = Len(accepted) + 1 \/ i \in 1..Len(accepted)
  BY <1>1, <1>3
<1>6. \A i \in DOMAIN accepted' : accepted'[i] <= step
  BY <1>1, <1>2, <1>4, <1>5
<1>7. \A i, j \in DOMAIN accepted' : i < j => accepted'[i] < accepted'[j]
  <2>1. SUFFICES ASSUME NEW i \in DOMAIN accepted', NEW j \in DOMAIN accepted', i < j
                 PROVE  accepted'[i] < accepted'[j]
    OBVIOUS
  <2>2. i \in 1..Len(accepted)
    BY <1>1, <1>3, <2>1
  <2> QED BY <1>1, <1>2, <1>4, <1>5, <2>1, <2>2
<1> QED BY <1>2, <1>6, <1>7 DEF AcceptedInOrder, CodesAreSpent

\* A step that leaves the profile, the requests and the issuing of tokens alone.
LEMMA IdleStep ==
  ASSUME MfaInv, MfaTypeOK', NoNewEnrolment, UNCHANGED <<profile, glass, signing, accepted>>,
         tokens' \subseteq tokens
  PROVE  MfaInv'
<1>1. Executed' = Executed
  BY DEF Executed
<1>2. AcceptedInOrder'
  BY SameAccepted
<1> QED BY <1>1, <1>2, QuietStep

LEMMA RowsAreChallenges ==
  /\ Closed \in Challenge
  /\ \A purpose \in Purposes, b \in BOOLEAN :
       /\ Issued(purpose, b) \in Challenge /\ Issued(purpose, b).purpose = purpose
       /\ Mailed(purpose, b) \in Challenge
       /\ Mailed(purpose, b).purpose \in {purpose, "closed"}
BY DEF Closed, Challenge, Issued, Mailed, Purposes

-----------------------------------------------------------------------------
LEMMA MfaInitInv == MfaInit => MfaInv
<1> SUFFICES ASSUME MfaInit PROVE MfaInv
  OBVIOUS
<1>1. Executed = 0
  <2>1. {g \in DOMAIN glass : glass[g].status = "consumed"} = {}
    BY DEF MfaInit
  <2> QED BY <2>1, FS_EmptySet DEF Executed
<1>2. Len(challenges) = 0 /\ DOMAIN challenges = {}
  BY DEF MfaInit
<1>3. MfaTypeOK
  BY DEF MfaInit, MfaTypeOK, Profile, Token
<1>4. SeedWasIssued /\ NewestEnrolment
  BY <1>2 DEF MfaInit, SeedWasIssued, NewestEnrolment, OpenEnrolments
<1>5. VersionsInOrder
  BY <1>1 DEF MfaInit, VersionsInOrder
<1>6. AcceptedInOrder
  BY DEF MfaInit, AcceptedInOrder, CodesAreSpent
<1> QED BY <1>3, <1>4, <1>5, <1>6 DEF MfaInv

LEMMA SignInKeeps == MfaInv /\ SignInStep => MfaInv'
<1> SUFFICES ASSUME MfaInv, SignInStep PROVE MfaInv'
  OBVIOUS
<1>t. MfaTypeOK
  BY DEF MfaInv
<1>1. CASE AdminLogin
  <2>1. MfaTypeOK'
    BY <1>t, <1>1 DEF AdminLogin, MfaTypeOK
  <2> QED BY <1>t, <1>1, <2>1, SameRows, IdleStep DEF AdminLogin
<1>2. ASSUME NEW purpose \in logins, IssueLogin(purpose) PROVE MfaInv'
  <2>1. purpose \in Purposes /\ purpose # "enroll"
    BY <1>t DEF MfaTypeOK, Purposes, FlowPurposes
  <2>2. NoNewEnrolment
    BY <1>t, <1>2, <2>1, IssueRows, RowsAreChallenges DEF IssueLogin
  <2>3. MfaTypeOK'
    BY <1>t, <1>2, <2>2 DEF IssueLogin, MfaTypeOK, NoNewEnrolment
  <2> QED BY <1>2, <2>2, <2>3, IdleStep DEF IssueLogin
<1>3. ASSUME NEW c \in DOMAIN challenges, NEW step \in 0..clock + 1, VerifyLogin(c, step)
      PROVE MfaInv'
  <2>1. CASE ~Fresh(step)
    <3>1. NoNewEnrolment
      BY <1>t, <1>3, <2>1, WrongCodeRows DEF VerifyLogin
    <3>2. MfaTypeOK'
      BY <1>t, <1>3, <2>1, <3>1 DEF VerifyLogin, MfaTypeOK, NoNewEnrolment
    <3> QED BY <1>3, <2>1, <3>1, <3>2, IdleStep DEF VerifyLogin
  <2>2. CASE Fresh(step)
    <3> DEFINE new == [version |-> profile.version, since |-> <<profile.seed, Executed>>]
    <3>1. /\ challenges' = Consumed(c) /\ signing' = signing \cup {new}
          /\ profile' = [profile EXCEPT !.last = step]
          /\ accepted' = Append(accepted, step)
          /\ UNCHANGED <<clock, sessionVersion, codes, glass, logins, resolved,
                         changing, reenrolling, tokens>>
      BY <1>3, <2>2 DEF VerifyLogin
    <3>2. NoNewEnrolment
      BY <1>t, <3>1, ConsumedRows
    <3>a. step \in Nat /\ step > profile.last
      BY <1>t, <2>2 DEF MfaTypeOK, Fresh
    <3>b. profile \in Profile
      BY <1>t DEF MfaTypeOK
    <3>3. /\ profile' \in Profile /\ profile'.seed = profile.seed
          /\ profile'.version = profile.version /\ profile'.last = step
          /\ step > profile.last
      BY <3>1, <3>a, <3>b DEF Profile
    <3>4. Executed' = Executed /\ Executed \in Nat
      BY <1>t, <3>1, ExecutedIsNat DEF MfaTypeOK, Executed
    <3>5. new \in Signing
      BY <1>t, <3>4 DEF MfaTypeOK, Profile, Signing
    <3>c. accepted' \in Seq(Nat) /\ AcceptedInOrder'
      BY <3>1, <3>3, <3>a, NextAccepted
    <3>6. MfaTypeOK'
      BY <1>t, <3>1, <3>2, <3>3, <3>5, <3>c DEF MfaTypeOK, NoNewEnrolment
    <3>7. SeedWasIssued'
      BY <1>t, <3>2, <3>3 DEF MfaInv, MfaTypeOK, Profile, SeedWasIssued, NoNewEnrolment
    <3>8. NewestEnrolment'
      BY <3>2, <3>3 DEF MfaInv, NewestEnrolment, NoNewEnrolment
    <3>9. VersionsInOrder'
      <4>1. VersionsInOrder /\ profile.version \in Nat
        BY <3>b DEF MfaInv, Profile
      <4>2. new.version = profile.version /\ new.since = <<profile.seed, Executed>>
        OBVIOUS
      <4> QED BY <3>1, <3>3, <3>4, <4>1, <4>2 DEF VersionsInOrder
    <3> QED BY <3>6, <3>7, <3>8, <3>9, <3>c DEF MfaInv
  <2> QED BY <2>1, <2>2
<1>4. ASSUME NEW s \in signing, IssueToken(s) PROVE MfaInv'
  <2>1. Claims(s) \in Token
    BY <1>t DEF MfaTypeOK, Signing, Token, Claims
  <2>2. MfaTypeOK' /\ NoNewEnrolment
    BY <1>t, <1>4, <2>1, SameRows DEF IssueToken, MfaTypeOK
  <2>3. Executed' = Executed /\ AcceptedInOrder'
    BY <1>4, SameAccepted DEF IssueToken, Executed
  <2> QED BY <1>4, <2>2, <2>3, QuietStep DEF IssueToken
<1> QED BY <1>1, <1>2, <1>3, <1>4 DEF SignInStep

LEMMA RecoveryKeeps == MfaInv /\ RecoveryStep => MfaInv'
<1> SUFFICES ASSUME MfaInv, RecoveryStep PROVE MfaInv'
  OBVIOUS
<1>t. MfaTypeOK
  BY DEF MfaInv
<1>p. /\ "recovery" \in Purposes /\ "mfa_reenroll" \in Purposes
  BY DEF Purposes, FlowPurposes
<1>1. ASSUME NEW sent \in BOOLEAN, RequestRecovery(sent) PROVE MfaInv'
  <2>1. NoNewEnrolment
    BY <1>t, <1>p, <1>1, IssueRows, RowsAreChallenges DEF RequestRecovery
  <2>2. MfaTypeOK'
    BY <1>t, <1>1, <2>1 DEF RequestRecovery, MfaTypeOK, NoNewEnrolment
  <2> QED BY <1>1, <2>1, <2>2, IdleStep DEF RequestRecovery
<1>2. ASSUME NEW c \in DOMAIN challenges, NEW right \in BOOLEAN, RecoverByMail(c, right)
      PROVE MfaInv'
  <2>1. NoNewEnrolment
    BY <1>t, <1>2, ConsumedRows, WrongCodeRows DEF RecoverByMail
  <2>2. MfaTypeOK'
    BY <1>t, <1>2, <2>1 DEF RecoverByMail, MfaTypeOK, NoNewEnrolment
  <2> QED BY <1>2, <2>1, <2>2, IdleStep DEF RecoverByMail
<1>3. ASSUME NEW code \in codes, RecoverByCode(code) PROVE MfaInv'
  <2>1. MfaTypeOK' /\ NoNewEnrolment
    BY <1>t, <1>3, SameRows DEF RecoverByCode, MfaTypeOK
  <2> QED BY <1>3, <2>1, IdleStep DEF RecoverByCode
<1>4. CASE IssueReenrolment
  <2>1. NoNewEnrolment
    BY <1>t, <1>p, <1>4, IssueRows, RowsAreChallenges DEF IssueReenrolment
  <2>a. reenrolling > 0 /\ reenrolling' = reenrolling - 1
    BY <1>4 DEF IssueReenrolment
  <2>b. reenrolling \in Nat
    BY <1>t DEF MfaTypeOK
  <2>2. reenrolling' \in Nat /\ challenges' \in Seq(Challenge)
    BY <2>1, <2>a, <2>b DEF NoNewEnrolment
  <2>3. /\ UNCHANGED <<clock, profile, sessionVersion, codes, glass>>
        /\ UNCHANGED <<logins, resolved, changing, signing, tokens, accepted>>
    BY <1>4 DEF IssueReenrolment
  <2>4. MfaTypeOK'
    BY <1>t, <2>2, <2>3 DEF MfaTypeOK
  <2> QED BY <2>1, <2>3, <2>4, IdleStep
<1>5. CASE HandlerDies
  <2>1. signing' \subseteq signing
    BY <1>5 DEF HandlerDies
  <2>2. /\ logins' \subseteq logins /\ changing' \in Nat /\ reenrolling' \in Nat
    BY <1>t, <1>5 DEF HandlerDies, MfaTypeOK
  <2>3. /\ UNCHANGED <<clock, profile, sessionVersion, challenges, codes, glass, resolved>>
        /\ UNCHANGED <<tokens, accepted>>
    BY <1>5 DEF HandlerDies
  <2>4. MfaTypeOK' /\ NoNewEnrolment
    BY <1>t, <2>1, <2>2, <2>3, SameRows DEF MfaTypeOK
  <2>5. Executed' = Executed /\ AcceptedInOrder'
    BY <2>3, SameAccepted DEF Executed
  <2> QED BY <2>1, <2>3, <2>4, <2>5, QuietStep
<1> QED BY <1>1, <1>2, <1>3, <1>4, <1>5 DEF RecoveryStep

\* start_totp_enrollment: what is open was cancelled, and the row is the newest.
LEMMA StartKeeps ==
  ASSUME MfaInv, NEW r \in resolved, StartEnrolment(r)
  PROVE  MfaInv'
<1>t. MfaTypeOK
  BY DEF MfaInv
<1> DEFINE proof == IF ByCheck(r) THEN r.check ELSE r.flow
           rows  == IF ByCheck(r) THEN challenges ELSE Consumed(r.flow)
           kept  == Replaced(rows)
           row   == Issued("enroll", challenges[proof].email)
<1>1. /\ challenges' = Append(kept, row) /\ resolved' = resolved \ {r}
      /\ profile' = [profile EXCEPT !.status = IF @ = "none" THEN "pending" ELSE @]
      /\ UNCHANGED <<clock, sessionVersion, codes, glass, logins,
                     changing, reenrolling, signing, tokens, accepted>>
      /\ ByCheck(r) \/ ByFlow(r)
  BY DEF StartEnrolment
<1>2. Len(challenges) \in Nat /\ DOMAIN challenges = 1..Len(challenges)
  BY <1>t DEF MfaTypeOK
<1>3. proof \in DOMAIN challenges /\ challenges[proof] \in Challenge
  <2>1. proof \in DOMAIN challenges
    BY <1>1 DEF ByCheck, ByFlow, IsUsable
  <2> QED BY <1>t, <1>2, <2>1 DEF MfaTypeOK
<1>4. rows \in Seq(Challenge) /\ Len(rows) = Len(challenges)
  <2>1. CASE ByCheck(r)
    BY <1>t, <2>1 DEF MfaTypeOK
  <2>2. CASE ~ByCheck(r)
    <3>1. r.flow \in 1..Len(challenges)
      BY <1>1, <1>2, <2>2 DEF ByFlow, IsUsable
    <3> QED BY <1>t, <2>2, <3>1, ExceptSeq, RowsAreChallenges DEF MfaTypeOK, Consumed
  <2> QED BY <2>1, <2>2
<1>5. /\ kept \in Seq(Challenge) /\ Len(kept) = Len(challenges)
      /\ \A c \in 1..Len(challenges) : kept[c].purpose # "enroll"
  <2>1. \A c \in 1..Len(rows) :
          kept[c] = IF rows[c].purpose \in {"enroll"} THEN Closed ELSE rows[c]
    BY <1>4, CancelledRows DEF Replaced
  <2>2. Closed.purpose # "enroll"
    BY DEF Closed
  <2> QED BY <1>4, <2>1, <2>2, CancelledRows DEF Replaced
<1>6. row \in Challenge
  BY <1>3, RowsAreChallenges DEF Purposes, Challenge
<1>7. /\ challenges' \in Seq(Challenge) /\ Len(challenges') = Len(challenges) + 1
      /\ \A c \in 1..Len(challenges) : challenges'[c] = kept[c]
  BY <1>1, <1>5, <1>6, AppendProperties
<1>8. OpenEnrolments' \subseteq {Len(challenges) + 1}
  <2>1. DOMAIN challenges' = 1..(Len(challenges) + 1)
    BY <1>7
  <2>2. SUFFICES ASSUME NEW c \in OpenEnrolments' PROVE c = Len(challenges) + 1
    OBVIOUS
  <2>3. c \in 1..(Len(challenges) + 1) /\ challenges'[c].purpose = "enroll"
    BY <2>1, <2>2 DEF OpenEnrolments
  <2> QED BY <1>2, <1>5, <1>7, <2>3
<1>9. /\ profile' \in Profile /\ profile'.seed = profile.seed
      /\ profile'.version = profile.version /\ profile'.last = profile.last
      /\ profile.seed \in Nat /\ profile.last \in Nat
  BY <1>t, <1>1 DEF MfaTypeOK, Profile
<1>10. MfaTypeOK'
  BY <1>t, <1>1, <1>7, <1>9 DEF MfaTypeOK
<1>11. SeedWasIssued' /\ NewestEnrolment'
  <2>1. profile.seed <= Len(challenges)
    BY DEF MfaInv, SeedWasIssued
  <2>2. SeedWasIssued'
    BY <1>2, <1>7, <1>9, <2>1 DEF SeedWasIssued
  <2>3. SUFFICES ASSUME NEW c \in OpenEnrolments'
                 PROVE  c > profile'.seed /\ OpenEnrolments' = {c}
    BY <2>2 DEF NewestEnrolment
  <2>4. c = Len(challenges) + 1 /\ OpenEnrolments' = {c}
    BY <1>8, <2>3
  <2> QED BY <1>2, <1>9, <2>1, <2>4
<1>12. VersionsInOrder'
  BY <1>1, <1>9 DEF MfaInv, VersionsInOrder, Executed
<1>13. AcceptedInOrder'
  BY <1>1, <1>9, SameAccepted
<1> QED BY <1>10, <1>11, <1>12, <1>13 DEF MfaInv

\* confirm_totp_enrollment: the only open enrolment gives a seed and a version.
LEMMA ConfirmKeeps ==
  ASSUME MfaInv, NEW c \in DOMAIN challenges, NEW step \in 0..clock + 1,
         ConfirmEnrolment(c, step)
  PROVE  MfaInv'
<1>t. MfaTypeOK
  BY DEF MfaInv
<1>1. CASE ~InWindow(step)
  <2>1. NoNewEnrolment
    BY <1>t, <1>1, WrongCodeRows DEF ConfirmEnrolment
  <2>2. MfaTypeOK'
    BY <1>t, <1>1, <2>1 DEF ConfirmEnrolment, MfaTypeOK, NoNewEnrolment
  <2> QED BY <1>1, <2>1, <2>2, IdleStep DEF ConfirmEnrolment
<1>2. CASE InWindow(step)
  <2> DEFINE rows == Consumed(c)
             new  == [version |-> profile.version + 1, since |-> <<c, Executed>>]
  <2>1. /\ profile' = [status |-> "active", version |-> profile.version + 1,
                       seed |-> c, last |-> step]
        /\ codes' = {c} /\ sessionVersion' = sessionVersion + 1
        /\ challenges' = Cancelled(rows, FlowPurposes)
        /\ signing' = signing \cup {new} /\ accepted' = <<step>>
        /\ UNCHANGED <<clock, glass, logins, resolved, changing, reenrolling, tokens>>
    BY <1>2 DEF ConfirmEnrolment
  <2>2. c \in OpenEnrolments
    BY DEF ConfirmEnrolment, IsUsable, OpenEnrolments
  <2>3. c > profile.seed /\ OpenEnrolments = {c}
    BY <2>2 DEF MfaInv, NewestEnrolment
  <2>4. /\ c \in 1..Len(challenges) /\ Len(challenges) \in Nat /\ c \in Nat
        /\ DOMAIN challenges = 1..Len(challenges)
    BY <1>t DEF MfaTypeOK
  <2>5. /\ rows \in Seq(Challenge) /\ Len(rows) = Len(challenges)
        /\ \A d \in 1..Len(challenges) : rows[d] = IF d = c THEN Closed ELSE challenges[d]
    BY <1>t, <2>4, ExceptSeq, RowsAreChallenges DEF MfaTypeOK, Consumed
  <2>6. /\ challenges' \in Seq(Challenge) /\ Len(challenges') = Len(challenges)
        /\ \A d \in 1..Len(challenges) :
             challenges'[d] = IF rows[d].purpose \in FlowPurposes THEN Closed ELSE rows[d]
    BY <2>1, <2>5, CancelledRows
  <2>7. OpenEnrolments' = {}
    <3>1. Closed.purpose # "enroll"
      BY DEF Closed
    <3>2. DOMAIN challenges' = 1..Len(challenges)
      BY <2>6
    <3>3. SUFFICES ASSUME NEW d \in OpenEnrolments' PROVE FALSE
      OBVIOUS
    <3>4. d \in 1..Len(challenges) /\ challenges'[d].purpose = "enroll"
      BY <3>2, <3>3 DEF OpenEnrolments
    <3>5. d # c /\ challenges[d].purpose = "enroll"
      BY <2>5, <2>6, <3>1, <3>4
    <3>6. d \in OpenEnrolments
      BY <2>4, <3>4, <3>5 DEF OpenEnrolments
    <3> QED BY <2>3, <3>5, <3>6
  <2>8. /\ step \in Nat /\ profile.version \in Nat /\ sessionVersion \in Nat
        /\ profile.seed \in Nat /\ Executed \in Nat /\ Executed' = Executed
    BY <1>t, <2>1, ExecutedIsNat DEF MfaTypeOK, Profile, Executed
  <2>9. profile' \in Profile /\ new \in Signing
    BY <2>1, <2>4, <2>8 DEF Profile, Signing
  <2>10. MfaTypeOK'
    <3>1. challenges' \in Seq(Challenge) /\ codes' \subseteq Nat /\ sessionVersion' \in Nat
      BY <2>1, <2>4, <2>6, <2>8
    <3>2. signing' \subseteq Signing
      BY <1>t, <2>1, <2>9 DEF MfaTypeOK
    <3>3. UNCHANGED <<clock, glass, logins, resolved, changing, reenrolling, tokens>>
      BY <2>1
    <3>4. accepted' \in Seq(Nat)
      BY <2>1, <2>8
    <3> QED BY <1>t, <2>9, <3>1, <3>2, <3>3, <3>4 DEF MfaTypeOK
  <2>11. SeedWasIssued' /\ NewestEnrolment'
    BY <2>1, <2>4, <2>6, <2>7 DEF SeedWasIssued, NewestEnrolment
  <2>12. VersionsInOrder'
    <3>1. profile'.version = profile.version + 1 /\ profile'.seed = c
      BY <2>1
    <3>2. SUFFICES ASSUME NEW s \in signing' \cup tokens'
                   PROVE  /\ s.version <= profile.version + 1
                          /\ s.version = profile.version + 1 => s.since = <<c, Executed>>
      BY <2>8, <3>1 DEF VersionsInOrder
    <3>3. CASE s = new
      BY <2>8, <3>3
    <3>4. CASE s \in signing \cup tokens
      <4>1. s.version \in Nat /\ s.version <= profile.version
        BY <1>t, <3>4 DEF MfaInv, VersionsInOrder, MfaTypeOK, Signing, Token
      <4> QED BY <2>8, <4>1
    <3> QED BY <2>1, <3>2, <3>3, <3>4
  <2>13. AcceptedInOrder'
    <3>1. DOMAIN accepted' = {1} /\ accepted'[1] = step /\ profile'.last = step
      BY <2>1
    <3> QED BY <2>8, <3>1 DEF AcceptedInOrder, CodesAreSpent
  <2> QED BY <2>10, <2>11, <2>12, <2>13 DEF MfaInv
<1> QED BY <1>1, <1>2

\* A new version of the profile: what was proved before has an older one.
LEMMA NewVersion ==
  ASSUME MfaInv, profile' = [profile EXCEPT !.version = @ + 1],
         UNCHANGED <<signing, tokens>>
  PROVE  /\ profile' \in Profile /\ profile'.seed = profile.seed
         /\ profile'.last = profile.last /\ VersionsInOrder'
<1>1. /\ profile' \in Profile /\ profile'.seed = profile.seed /\ profile.version \in Nat
      /\ profile'.version = profile.version + 1 /\ profile'.last = profile.last
  <2>1. profile \in Profile
    BY DEF MfaInv, MfaTypeOK
  <2> QED BY <2>1 DEF Profile
<1>2. VersionsInOrder'
  <2>1. SUFFICES ASSUME NEW s \in signing \cup tokens
                 PROVE  s.version < profile.version + 1
    BY <1>1 DEF VersionsInOrder, MfaInv, MfaTypeOK, Signing, Token
  <2>2. s.version \in Nat /\ s.version <= profile.version
    BY DEF MfaInv, VersionsInOrder, MfaTypeOK, Signing, Token
  <2> QED BY <1>1, <2>2
<1> QED BY <1>1, <1>2

LEMMA ResolveKeeps ==
  ASSUME MfaInv, NEW op \in {"request", "verify", "start"}, NEW flow \in 0..Len(challenges),
         NEW check \in {0} \cup Addresses, Resolve(op, flow, check)
  PROVE  MfaInv'
<1>t. MfaTypeOK
  BY DEF MfaInv
<1>1. Addresses \subseteq Nat /\ flow \in Nat
  BY <1>t DEF MfaTypeOK, Addresses
<1>2. [op |-> op, flow |-> flow, check |-> check] \in Resolved
  BY <1>1 DEF Resolved
<1>3. MfaTypeOK' /\ NoNewEnrolment
  BY <1>t, <1>2, SameRows DEF Resolve, MfaTypeOK
<1> QED BY <1>3, IdleStep DEF Resolve

LEMMA StepUpKeeps ==
  ASSUME MfaInv, NEW r \in resolved, NEW step \in 1..clock + 1, StepUp(r, step)
  PROVE  MfaInv'
<1>t. MfaTypeOK
  BY DEF MfaInv
<1>1. /\ profile' = [profile EXCEPT !.last = step] /\ Fresh(step)
      /\ accepted' = Append(accepted, step)
      /\ resolved' = (resolved \ {r}) \cup {[r EXCEPT !.op = "mail"]}
      /\ UNCHANGED <<clock, sessionVersion, challenges, codes, glass, logins,
                     changing, reenrolling, signing, tokens>>
  BY DEF StepUp
<1>2. step \in Nat /\ step > profile.last /\ profile \in Profile
  BY <1>t, <1>1 DEF MfaTypeOK, Fresh
<1>3. /\ profile' \in Profile /\ profile'.seed = profile.seed
      /\ profile'.version = profile.version /\ profile'.last = step
  BY <1>1, <1>2 DEF Profile
<1>4. r \in Resolved /\ resolved \subseteq Resolved
  BY <1>t DEF MfaTypeOK
<1>5. resolved' \subseteq Resolved
  BY <1>1, <1>4 DEF Resolved
<1>a. accepted' \in Seq(Nat) /\ AcceptedInOrder'
  BY <1>1, <1>2, <1>3, NextAccepted
<1>6. MfaTypeOK' /\ NoNewEnrolment
  BY <1>t, <1>1, <1>3, <1>5, <1>a, SameRows DEF MfaTypeOK
<1>7. Executed' = Executed
  BY <1>1 DEF Executed
<1> QED BY <1>1, <1>3, <1>6, <1>7, <1>a, QuietStep

LEMMA EnrolmentKeeps == MfaInv /\ EnrolmentStep => MfaInv'
<1> SUFFICES ASSUME MfaInv, EnrolmentStep PROVE MfaInv'
  OBVIOUS
<1>t. MfaTypeOK
  BY DEF MfaInv
<1>1. ASSUME NEW flow \in 0..Len(challenges), NEW check \in {0} \cup Addresses,
             \/ check = 0 /\ Resolve("request", flow, 0)
             \/ IsUsable(check, "email_verify") /\ Resolve("verify", flow, check)
             \/ (check = 0 => IsUsable(flow, "mfa_reenroll")) /\ Resolve("start", flow, check)
      PROVE MfaInv'
  BY <1>1, ResolveKeeps
<1>2. CASE ChangeEmail
  <2>1. NoNewEnrolment /\ UNCHANGED <<glass, signing, tokens>>
    BY <1>t, <1>2, SameRows DEF ChangeEmail
  <2>2. CASE profile.status # "active"
    <3>1. MfaTypeOK'
      BY <1>t, <1>2, <2>2 DEF ChangeEmail, MfaTypeOK
    <3> QED BY <1>2, <2>1, <2>2, <3>1, IdleStep DEF ChangeEmail
  <2>3. CASE profile.status = "active"
    <3>1. profile' = [profile EXCEPT !.version = @ + 1]
      BY <1>2, <2>3 DEF ChangeEmail
    <3>2. /\ profile' \in Profile /\ profile'.seed = profile.seed
          /\ VersionsInOrder' /\ AcceptedInOrder'
      BY <1>2, <2>1, <3>1, NewVersion, SameAccepted DEF ChangeEmail
    <3>3. MfaTypeOK'
      BY <1>t, <1>2, <2>3, <3>2 DEF ChangeEmail, MfaTypeOK
    <3>4. SeedWasIssued' /\ NewestEnrolment'
      BY <1>2, <3>2 DEF ChangeEmail, MfaInv, SeedWasIssued, NewestEnrolment, OpenEnrolments
    <3> QED BY <3>2, <3>3, <3>4 DEF MfaInv
  <2> QED BY <2>2, <2>3
<1>3. ASSUME NEW r \in resolved, NEW step \in 1..clock + 1, StepUp(r, step)
      PROVE MfaInv'
  BY <1>3, StepUpKeeps
<1>4. ASSUME NEW r \in resolved, NEW sent \in BOOLEAN, RequestEmail(r, sent)
      PROVE MfaInv'
  <2>1. "email_verify" \in Purposes
    BY DEF Purposes
  <2>2. NoNewEnrolment
    BY <1>t, <1>4, <2>1, IssueRows, RowsAreChallenges DEF RequestEmail
  <2>3. MfaTypeOK'
    BY <1>t, <1>4, <2>2 DEF RequestEmail, MfaTypeOK, NoNewEnrolment
  <2> QED BY <1>4, <2>2, <2>3, IdleStep DEF RequestEmail
<1>5. ASSUME NEW r \in resolved, NEW right \in BOOLEAN, VerifyEmail(r, right)
      PROVE MfaInv'
  <2>1. r.check \in DOMAIN challenges
    BY <1>5 DEF VerifyEmail, IsUsable
  <2>2. NoNewEnrolment
    <3>1. CASE right
      <4> DEFINE row == [challenges[r.check] EXCEPT !.purpose = "verified"]
      <4>1. challenges[r.check] \in Challenge
        BY <1>t, <2>1 DEF MfaTypeOK
      <4>2. row \in Challenge /\ row.purpose # "enroll"
        BY <4>1 DEF Challenge
      <4>3. challenges' = [challenges EXCEPT ![r.check] = row]
        BY <1>5, <3>1 DEF VerifyEmail
      <4> QED BY <1>t, <2>1, <4>2, <4>3, CloseRows
    <3>2. CASE ~right
      BY <1>t, <1>5, <2>1, <3>2, WrongCodeRows DEF VerifyEmail
    <3> QED BY <3>1, <3>2
  <2>3. changing' \in Nat /\ resolved' \subseteq resolved
    BY <1>t, <1>5 DEF VerifyEmail, MfaTypeOK
  <2>4. UNCHANGED <<clock, profile, sessionVersion, codes, glass, logins,
                    reenrolling, signing, tokens, accepted>>
    BY <1>5 DEF VerifyEmail
  <2>5. MfaTypeOK'
    BY <1>t, <2>2, <2>3, <2>4 DEF MfaTypeOK, NoNewEnrolment
  <2> QED BY <2>2, <2>4, <2>5, IdleStep
<1>6. ASSUME NEW r \in resolved, StartEnrolment(r) PROVE MfaInv'
  BY <1>6, StartKeeps
<1>7. ASSUME NEW r \in resolved, ResolvedFails(r) PROVE MfaInv'
  <2>1. MfaTypeOK' /\ NoNewEnrolment
    BY <1>t, <1>7, SameRows DEF ResolvedFails, MfaTypeOK
  <2> QED BY <1>7, <2>1, IdleStep DEF ResolvedFails
<1>8. ASSUME NEW c \in DOMAIN challenges, NEW step \in 0..clock + 1, ConfirmEnrolment(c, step)
      PROVE MfaInv'
  BY <1>8, ConfirmKeeps
<1> QED BY <1>1, <1>2, <1>3, <1>4, <1>5, <1>6, <1>7, <1>8 DEF EnrolmentStep

-----------------------------------------------------------------------------
\* Where no request is carried out, as many are carried out as before.
LEMMA SameExecuted ==
  ASSUME {g \in DOMAIN glass' : glass'[g].status = "consumed"}
           = {g \in DOMAIN glass : glass[g].status = "consumed"}
  PROVE  Executed' = Executed
BY DEF Executed

LEMMA ExecuteKeeps ==
  ASSUME MfaInv, NEW g \in DOMAIN glass, ExecuteGlass(g)
  PROVE  MfaInv'
<1>t. MfaTypeOK
  BY DEF MfaInv
<1> DEFINE kept == Cancelled(challenges, Purposes)
           row  == Issued("mfa_reenroll", FALSE)
<1>1. /\ challenges' = Append(kept, row) /\ sessionVersion' = sessionVersion + 1
      /\ profile' = [profile EXCEPT !.version = @ + 1]
      /\ glass' = [glass EXCEPT ![g] = [status |-> "consumed", approvals |-> 0]]
      /\ UNCHANGED <<clock, codes, logins, resolved, changing, reenrolling,
                     signing, tokens, accepted>>
  BY DEF ExecuteGlass, Reset, EndGlass
<1>2. /\ kept \in Seq(Challenge) /\ Len(kept) = Len(challenges)
      /\ \A c \in 1..Len(challenges) : kept[c].purpose # "enroll"
  <2>1. Closed.purpose # "enroll" /\ "enroll" \in Purposes
    BY DEF Closed, Purposes
  <2> QED BY <1>t, <2>1, CancelledRows DEF MfaTypeOK
<1>3. row \in Challenge /\ row.purpose # "enroll"
  <2>1. "mfa_reenroll" \in Purposes
    BY DEF Purposes, FlowPurposes
  <2> QED BY <2>1, RowsAreChallenges
<1>a. challenges' = Append(kept, row)
  BY <1>1
<1> HIDE DEF kept, row
<1>4. /\ challenges' \in Seq(Challenge) /\ Len(challenges') = Len(challenges) + 1
      /\ \A c \in 1..Len(challenges) : challenges'[c] = kept[c]
      /\ challenges'[Len(challenges) + 1] = row
  BY <1>a, <1>2, <1>3, AppendProperties
<1>5. OpenEnrolments' = {}
  <2>1. DOMAIN challenges' = 1..(Len(challenges) + 1) /\ Len(challenges) \in Nat
    BY <1>t, <1>4 DEF MfaTypeOK
  <2>2. SUFFICES ASSUME NEW c \in OpenEnrolments' PROVE FALSE
    OBVIOUS
  <2>3. c \in 1..(Len(challenges) + 1) /\ challenges'[c].purpose = "enroll"
    BY <2>1, <2>2 DEF OpenEnrolments
  <2>4. c \in 1..Len(challenges) \/ c = Len(challenges) + 1
    BY <2>1, <2>3
  <2> QED BY <1>2, <1>3, <1>4, <2>3, <2>4
<1>6. /\ profile' \in Profile /\ profile'.seed = profile.seed
      /\ VersionsInOrder' /\ AcceptedInOrder'
  BY <1>1, NewVersion, SameAccepted
<1>7. glass' \in Seq(GlassRequest)
  <2>1. [status |-> "consumed", approvals |-> 0] \in GlassRequest
    BY DEF GlassRequest
  <2>2. g \in 1..Len(glass)
    BY <1>t DEF MfaTypeOK
  <2> QED BY <1>t, <1>1, <2>1, <2>2, ExceptSeq DEF MfaTypeOK
<1>8. MfaTypeOK'
  <2>1. /\ UNCHANGED <<clock, codes, logins, resolved, changing, reenrolling>>
        /\ UNCHANGED <<signing, tokens, accepted>>
    BY <1>1
  <2>2. challenges' \in Seq(Challenge)
    BY <1>4
  <2>3. sessionVersion' \in Nat
    BY <1>t, <1>1 DEF MfaTypeOK
  <2> QED BY <1>t, <1>6, <1>7, <2>1, <2>2, <2>3 DEF MfaTypeOK
<1>9. SeedWasIssued' /\ NewestEnrolment'
  BY <1>t, <1>4, <1>5, <1>6
     DEF MfaInv, MfaTypeOK, Profile, SeedWasIssued, NewestEnrolment
<1> QED BY <1>6, <1>8, <1>9 DEF MfaInv

LEMMA GlassKeeps == MfaInv /\ GlassStep => MfaInv'
<1> SUFFICES ASSUME MfaInv, GlassStep PROVE MfaInv'
  OBVIOUS
<1>t. MfaTypeOK
  BY DEF MfaInv
<1>1. CASE CreateGlass
  <2>1. [status |-> "pending", approvals |-> 0] \in GlassRequest
    BY DEF GlassRequest
  <2>2. /\ glass' \in Seq(GlassRequest) /\ Len(glass') = Len(glass) + 1
        /\ \A g \in 1..Len(glass) : glass'[g] = glass[g]
        /\ glass'[Len(glass) + 1].status = "pending" /\ Len(glass) \in Nat
    BY <1>t, <1>1, <2>1, AppendProperties DEF CreateGlass, MfaTypeOK
  <2>3. DOMAIN glass = 1..Len(glass) /\ DOMAIN glass' = 1..(Len(glass) + 1)
    BY <1>t, <2>2 DEF MfaTypeOK
  <2>4. Executed' = Executed
    BY <2>2, <2>3, SameExecuted
  <2>5. UNCHANGED <<clock, profile, sessionVersion, challenges, codes, logins,
                    resolved, changing, reenrolling, signing, tokens, accepted>>
    BY <1>1 DEF CreateGlass
  <2>6. MfaTypeOK' /\ NoNewEnrolment
    BY <1>t, <2>2, <2>5, SameRows DEF MfaTypeOK
  <2>7. AcceptedInOrder'
    BY <2>5, SameAccepted
  <2> QED BY <2>4, <2>5, <2>6, <2>7, QuietStep
<1>2. ASSUME NEW g \in DOMAIN glass, ApproveGlass(g) \/ CancelGlass(g)
      PROVE MfaInv'
  <2>1. /\ glass[g].status = "pending"
        /\ UNCHANGED <<clock, profile, sessionVersion, challenges, codes, logins,
                       resolved, changing, reenrolling, signing, tokens, accepted>>
    BY <1>2 DEF ApproveGlass, CancelGlass, Pending
  <2>2. g \in 1..Len(glass) /\ DOMAIN glass = 1..Len(glass) /\ glass[g] \in GlassRequest
    BY <1>t DEF MfaTypeOK
  <2>3. PICK row \in GlassRequest :
          row.status # "consumed" /\ glass' = [glass EXCEPT ![g] = row]
    <3>1. CASE ApproveGlass(g)
      <4> DEFINE row == [glass[g] EXCEPT !.approvals = @ + 1]
      <4>1. row \in GlassRequest /\ row.status = "pending"
        BY <2>1, <2>2 DEF GlassRequest
      <4>2. glass' = [glass EXCEPT ![g] = row]
        BY <3>1 DEF ApproveGlass
      <4> QED BY <4>1, <4>2
    <3>2. CASE CancelGlass(g)
      <4> DEFINE row == [status |-> "closed", approvals |-> 0]
      <4>1. row \in GlassRequest /\ row.status # "consumed"
        BY DEF GlassRequest
      <4>2. glass' = [glass EXCEPT ![g] = row]
        BY <3>2 DEF CancelGlass, EndGlass
      <4> QED BY <4>1, <4>2
    <3> QED BY <1>2, <3>1, <3>2
  <2>4. /\ glass' \in Seq(GlassRequest) /\ Len(glass') = Len(glass)
        /\ \A h \in 1..Len(glass) : glass'[h] = IF h = g THEN row ELSE glass[h]
    BY <1>t, <2>2, <2>3, ExceptSeq DEF MfaTypeOK
  <2>5. DOMAIN glass' = 1..Len(glass)
    BY <2>4
  <2>6. Executed' = Executed
    BY <2>1, <2>2, <2>3, <2>4, <2>5, SameExecuted
  <2>7. MfaTypeOK' /\ NoNewEnrolment
    BY <1>t, <2>1, <2>4, SameRows DEF MfaTypeOK
  <2>8. AcceptedInOrder'
    BY <2>1, SameAccepted
  <2> QED BY <2>1, <2>6, <2>7, <2>8, QuietStep
<1>3. ASSUME NEW g \in DOMAIN glass, ExecuteGlass(g) PROVE MfaInv'
  BY <1>3, ExecuteKeeps
<1> QED BY <1>1, <1>2, <1>3 DEF GlassStep

LEMMA MfaStep == MfaInv /\ [MfaNext]_mfaVars => MfaInv'
<1> SUFFICES ASSUME MfaInv, [MfaNext]_mfaVars PROVE MfaInv'
  OBVIOUS
<1>t. MfaTypeOK
  BY DEF MfaInv
<1>1. CASE SignInStep
  BY <1>1, SignInKeeps
<1>2. CASE EnrolmentStep
  BY <1>2, EnrolmentKeeps
<1>3. CASE RecoveryStep
  BY <1>3, RecoveryKeeps
<1>4. CASE GlassStep
  BY <1>4, GlassKeeps
<1>5. CASE Tick
  <2>1. MfaTypeOK' /\ NoNewEnrolment
    BY <1>t, <1>5, SameRows DEF Tick, MfaTypeOK
  <2> QED BY <1>5, <2>1, IdleStep DEF Tick
<1>6. CASE ResetPassword
  <2>1. MfaTypeOK' /\ NoNewEnrolment
    BY <1>t, <1>6, SameRows DEF ResetPassword, MfaTypeOK
  <2> QED BY <1>6, <2>1, IdleStep DEF ResetPassword
<1>7. ASSUME NEW t \in tokens, TokenEnds(t) PROVE MfaInv'
  <2>1. MfaTypeOK' /\ NoNewEnrolment
    BY <1>t, <1>7, SameRows DEF TokenEnds, MfaTypeOK
  <2> QED BY <1>7, <2>1, IdleStep DEF TokenEnds
<1>8. ASSUME NEW c \in DOMAIN challenges, ChallengeExpires(c) PROVE MfaInv'
  <2>1. NoNewEnrolment
    BY <1>t, <1>8, ConsumedRows DEF ChallengeExpires
  <2>2. MfaTypeOK'
    BY <1>t, <1>8, <2>1 DEF ChallengeExpires, MfaTypeOK, NoNewEnrolment
  <2> QED BY <1>8, <2>1, <2>2, IdleStep DEF ChallengeExpires
<1>9. CASE UNCHANGED mfaVars
  <2>1. MfaTypeOK' /\ NoNewEnrolment
    BY <1>t, <1>9, SameRows DEF mfaVars, MfaTypeOK
  <2> QED BY <1>9, <2>1, IdleStep DEF mfaVars
<1> QED BY <1>1, <1>2, <1>3, <1>4, <1>5, <1>6, <1>7, <1>8, <1>9 DEF MfaNext

LEMMA MfaInvariance == MfaSpec => []MfaInv
BY MfaInitInv, MfaStep, PTL DEF MfaSpec

-----------------------------------------------------------------------------
\* The rows of the tables and the handlers between two transactions keep their types.
THEOREM MfaTypeCorrect == MfaSpec => []MfaTypeOK
BY MfaInvariance, PTL DEF MfaInv

\* A token that get_current_user lets pass was issued to who proved to hold the
\* seed that is enrolled now, after every break-glass reset.
THEOREM TokensStayCurrent == MfaSpec => []TokensAreCurrent
<1>1. MfaInv => TokensAreCurrent
  BY DEF MfaInv, VersionsInOrder, TokensAreCurrent, Valid
<1> QED BY <1>1, MfaInvariance, PTL

\* start_totp_enrollment leaves one enrolment to confirm, and a confirmation
\* never goes back to an older seed.
THEOREM EnrolmentsStayNewest == MfaSpec => []NewestEnrolment
BY MfaInvariance, PTL DEF MfaInv

\* verify_totp accepts every step of a seed once, whichever handlers ask: sign-ins,
\* step-ups or the confirmation of the seed.
THEOREM CodesStaySpent == MfaSpec => []CodesAreSpent
BY MfaInvariance, PTL DEF MfaInv, AcceptedInOrder
=============================================================================
