---------------------- MODULE NotificationStreamProofs ----------------------
(***************************************************************************)
(* At most one stream, and no end of the retries without failures, for     *)
(* every number of sign-ins, notifications and retries.                    *)
(***************************************************************************)
EXTENDS NotificationStream, FiniteSetTheorems, TLAPS

StreamRecords ==
  \A s \in streams : s.live \in BOOLEAN /\ s = [live |-> s.live, from |-> s.from]

\* Two requests that are not aborted are the same; with a timer armed, nobody
\* signed in, or nothing left to try there is none.
LiveIsAlone == \A s, t \in streams : s.live /\ t.live => s = t
NoneLive == \A s \in streams : ~s.live
TimerIsAlone == timer => NoneLive
QuietAtRest == ~signedIn \/ gaveUp => ~timer /\ NoneLive

\* The first retry after an answer is not for a failure.
RetriesAreFailures ==
  /\ retries \in Nat /\ failures \in Nat
  /\ retries <= failures + 1

StreamInv ==
  /\ StreamRecords /\ timer \in BOOLEAN /\ signedIn \in BOOLEAN /\ gaveUp \in BOOLEAN
  /\ LiveIsAlone /\ TimerIsAlone /\ QuietAtRest
  /\ RetriesAreFailures /\ GivesUpOnlyAfterFailures

-----------------------------------------------------------------------------
\* Whoever aborts the streams leaves none that is live.
LEMMA AbortedIsDead ==
  ASSUME StreamRecords
  PROVE  \A s \in Aborted : s.live = FALSE /\ s = [live |-> FALSE, from |-> s.from]
BY DEF Aborted, StreamRecords

\* A stream that is connected is the only one.
LEMMA ConnectedIsAlone ==
  ASSUME StreamRecords, ConnectStream
  PROVE  (StreamRecords /\ LiveIsAlone /\ TimerIsAlone)' /\ timer' = FALSE
<1>1. \A s \in streams' : \/ s.live = FALSE /\ s = [live |-> FALSE, from |-> s.from]
                          \/ s = [live |-> TRUE, from |-> cursor]
  BY AbortedIsDead DEF ConnectStream
<1>2. timer' = FALSE
  BY DEF ConnectStream
<1>3. ASSUME NEW s \in streams'
      PROVE  s.live \in BOOLEAN /\ s = [live |-> s.live, from |-> s.from]
  <2>1. CASE s.live = FALSE /\ s = [live |-> FALSE, from |-> s.from]
    BY <2>1
  <2>2. CASE s = [live |-> TRUE, from |-> cursor]
    <3>1. s.live = TRUE /\ s.from = cursor
      BY <2>2
    <3> QED BY <3>1, <2>2
  <2> QED BY <1>1, <2>1, <2>2
<1>4. LiveIsAlone'
  BY <1>1 DEF LiveIsAlone
<1> QED BY <1>2, <1>3, <1>4 DEF StreamRecords, TimerIsAlone

\* What is left of the streams when the live one has settled.
LEMMA SettledIsQuiet ==
  ASSUME StreamRecords, LiveIsAlone, NEW s \in streams, s.live, streams' = streams \ {s}
  PROVE  (StreamRecords /\ NoneLive)'
BY DEF StreamRecords, LiveIsAlone, NoneLive

\* A retry more is at most a failure more.
LEMMA OneMore ==
  \A f, n \in Nat : /\ 0 \in Nat /\ 0 <= f + 1
                   /\ (n <= f => n + 1 \in Nat /\ n + 1 <= f + 1)
OBVIOUS

\* A reconnection keeps the count of the retries, and the client gives up only
\* when they are used up.
LEMMA ScheduleCounts ==
  ASSUME StreamAssumption, NEW n \in Nat, ScheduleReconnect(n), timer \in BOOLEAN,
         failures' \in Nat, n <= failures', gaveUp = FALSE
  PROVE  /\ RetriesAreFailures' /\ GivesUpOnlyAfterFailures'
         /\ timer' \in BOOLEAN /\ gaveUp' \in BOOLEAN
         /\ gaveUp' => timer' = timer
<1>1. CASE n < StreamRetryMax
  <2>1. timer' = TRUE /\ gaveUp' = FALSE
    BY <1>1 DEF ScheduleReconnect, MayRetry
  <2>2. retries' = n + 1
    BY <1>1 DEF ScheduleReconnect, MayRetry
  <2>3. retries' \in Nat /\ retries' <= failures' + 1
    BY <2>2, OneMore, Zenon
  <2>4. RetriesAreFailures'
    BY <2>3 DEF RetriesAreFailures
  <2> QED BY <2>1, <2>4, ZenonT(20) DEF GivesUpOnlyAfterFailures
<1>2. CASE ~(n < StreamRetryMax)
  <2>1. timer' = timer /\ gaveUp' = TRUE
    BY <1>2 DEF ScheduleReconnect, MayRetry
  <2>2. retries' = 0
    BY <1>2 DEF ScheduleReconnect, MayRetry
  <2>3. failures' >= StreamRetryMax
    BY <1>2, StreamAssumption DEF StreamAssumption
  <2>4. retries' \in Nat /\ retries' <= failures' + 1
    BY <2>2, OneMore, Zenon
  <2>5. RetriesAreFailures'
    BY <2>4 DEF RetriesAreFailures
  <2> QED BY <2>1, <2>3, <2>5, ZenonT(20) DEF GivesUpOnlyAfterFailures
<1> QED BY <1>1, <1>2

-----------------------------------------------------------------------------
LEMMA StreamInitInv == StreamInit => StreamInv
<1> SUFFICES ASSUME StreamInit PROVE StreamInv
  OBVIOUS
<1>1. RetriesAreFailures
  BY DEF StreamInit, RetriesAreFailures
<1>2. StreamRecords /\ LiveIsAlone /\ NoneLive
  BY DEF StreamInit, StreamRecords, LiveIsAlone, NoneLive
<1> QED BY <1>1, <1>2, Zenon
        DEF StreamInit, StreamInv, TimerIsAlone, QuietAtRest, GivesUpOnlyAfterFailures

LEMMA StreamNextInv == StreamInv /\ [StreamNext]_streamVars => StreamInv'
<1> SUFFICES ASSUME StreamInv, [StreamNext]_streamVars PROVE StreamInv'
  OBVIOUS
<1>r. /\ StreamRecords /\ LiveIsAlone
      /\ timer \in BOOLEAN /\ signedIn \in BOOLEAN /\ gaveUp \in BOOLEAN
  BY DEF StreamInv
<1>c. RetriesAreFailures /\ GivesUpOnlyAfterFailures
  BY DEF StreamInv
<1>q. TimerIsAlone /\ QuietAtRest
  BY DEF StreamInv
<1>1. CASE Create \/ Reload \/ UNCHANGED streamVars
  <2>1. UNCHANGED <<streams, timer, signedIn, retries, failures, gaveUp>>
    BY <1>1 DEF Create, Reload, streamVars
  <2> QED
    BY <2>1 DEF StreamInv, StreamRecords, LiveIsAlone, TimerIsAlone, QuietAtRest, NoneLive,
                RetriesAreFailures, GivesUpOnlyAfterFailures
<1>2. CASE SignIn
  <2>1. (StreamRecords /\ LiveIsAlone /\ TimerIsAlone)' /\ timer' = FALSE
    BY <1>2, <1>r, ConnectedIsAlone DEF SignIn
  <2>2. signedIn' = TRUE /\ gaveUp' = FALSE /\ UNCHANGED <<retries, failures>>
    BY <1>2 DEF SignIn
  <2> QED BY <2>1, <2>2, <1>c DEF StreamInv, QuietAtRest, RetriesAreFailures,
                                  GivesUpOnlyAfterFailures
<1>3. CASE SignOut
  <2>1. streams' = Aborted /\ timer' = FALSE /\ signedIn' = FALSE
        /\ UNCHANGED <<retries, failures, gaveUp>>
    BY <1>3 DEF SignOut, StopStream
  <2>2. (StreamRecords /\ NoneLive)'
    BY <2>1, <1>r, AbortedIsDead DEF StreamRecords, NoneLive
  <2> QED BY <2>1, <2>2, <1>c DEF StreamInv, LiveIsAlone, NoneLive, TimerIsAlone, QuietAtRest,
                                  RetriesAreFailures, GivesUpOnlyAfterFailures
<1>4. CASE TimerFires
  <2>1. (StreamRecords /\ LiveIsAlone /\ TimerIsAlone)' /\ timer' = FALSE
    BY <1>4, <1>r, ConnectedIsAlone DEF TimerFires
  <2>2. signedIn /\ ~gaveUp /\ UNCHANGED <<signedIn, gaveUp, retries, failures>>
    BY <1>4, <1>q DEF TimerFires, QuietAtRest
  <2> QED BY <2>1, <2>2, <1>r, <1>c DEF StreamInv, QuietAtRest, RetriesAreFailures,
                                        GivesUpOnlyAfterFailures
<1>5. ASSUME NEW s \in streams, Drop(s) PROVE StreamInv'
  <2>1. streams' = streams \ {s} /\ UNCHANGED <<timer, signedIn, retries, failures, gaveUp>>
    BY <1>5 DEF Drop
  <2> QED
    BY <2>1 DEF StreamInv, StreamRecords, LiveIsAlone, TimerIsAlone, QuietAtRest, NoneLive,
                RetriesAreFailures, GivesUpOnlyAfterFailures
<1>6. ASSUME NEW s \in streams, s.live, ~timer, signedIn, ~gaveUp,
             NEW n \in Nat, ScheduleReconnect(n), n <= failures', failures' \in Nat,
             streams' = streams \ {s}, UNCHANGED signedIn
      PROVE  StreamInv'
  <2>1. (StreamRecords /\ NoneLive)'
    BY <1>6, <1>r, SettledIsQuiet
  <2>2. /\ RetriesAreFailures' /\ GivesUpOnlyAfterFailures'
        /\ timer' \in BOOLEAN /\ gaveUp' \in BOOLEAN /\ (gaveUp' => ~timer')
    BY <1>6, <1>r, ScheduleCounts, StreamAssumption
  <2> QED BY <2>1, <2>2, <1>6, <1>r DEF StreamInv, LiveIsAlone, NoneLive, TimerIsAlone, QuietAtRest
<1>7. ASSUME NEW s \in streams, StreamAnswers(s) \/ StreamFails(s) PROVE StreamInv'
  <2>1. s.live /\ ~timer /\ signedIn /\ ~gaveUp
    BY <1>7, <1>q DEF StreamAnswers, StreamFails, TimerIsAlone, QuietAtRest, NoneLive
  <2>2. streams' = streams \ {s} /\ UNCHANGED signedIn
    BY <1>7 DEF StreamAnswers, StreamFails
  <2>3. CASE StreamAnswers(s)
    <3>1. ScheduleReconnect(0) /\ failures' = 0
      BY <2>3 DEF StreamAnswers, RetriesAfterAnswer
    <3> QED BY <3>1, <2>1, <2>2, <1>6
  <2>4. CASE StreamFails(s)
    <3>1. ScheduleReconnect(retries) /\ failures' = failures + 1
      BY <2>4 DEF StreamFails
    <3>2. retries \in Nat /\ retries <= failures' /\ failures' \in Nat
      BY <3>1, <1>c DEF RetriesAreFailures
    <3> QED BY <3>1, <3>2, <2>1, <2>2, <1>6
  <2> QED BY <1>7, <2>3, <2>4
<1>8. ASSUME NEW s \in streams, StreamFallsBack(s) PROVE StreamInv'
  <2>1. /\ streams' = {[q EXCEPT !.live = FALSE] : q \in streams \ {s}}
        /\ timer' = FALSE /\ retries' = 0 /\ UNCHANGED <<signedIn, failures, gaveUp>>
    BY <1>8 DEF StreamFallsBack
  <2>2. \A q \in streams' : q.live = FALSE /\ q = [live |-> FALSE, from |-> q.from]
    BY <2>1, <1>r DEF StreamRecords
  <2>3. (StreamRecords /\ NoneLive)'
    BY <2>2 DEF StreamRecords, NoneLive
  <2>4. (RetriesAreFailures /\ GivesUpOnlyAfterFailures)'
    BY <2>1, <1>c DEF RetriesAreFailures, GivesUpOnlyAfterFailures
  <2> QED BY <2>1, <2>3, <2>4, <1>r, ZenonT(30)
          DEF StreamInv, LiveIsAlone, NoneLive, TimerIsAlone, QuietAtRest
<1>9. ASSUME NEW l \in loads, NotificationsArrive(l) \/ NotificationsFail(l) PROVE StreamInv'
  <2>1. UNCHANGED <<signedIn, retries, failures, gaveUp>>
    BY <1>9 DEF NotificationsArrive, NotificationsFail
  <2>2. CASE UNCHANGED <<streams, timer>>
    BY <2>1, <2>2 DEF StreamInv, StreamRecords, LiveIsAlone, TimerIsAlone, QuietAtRest, NoneLive,
                      RetriesAreFailures, GivesUpOnlyAfterFailures
  <2>3. CASE StopStream
    <3>1. (StreamRecords /\ NoneLive)' /\ timer' = FALSE
      BY <2>3, <1>r, AbortedIsDead DEF StopStream, StreamRecords, NoneLive
    <3> QED BY <3>1, <2>1, <1>r, <1>c
            DEF StreamInv, LiveIsAlone, NoneLive, TimerIsAlone, QuietAtRest,
                RetriesAreFailures, GivesUpOnlyAfterFailures
  <2> QED BY <1>9, <2>2, <2>3 DEF NotificationsArrive, NotificationsFail
<1> QED BY <1>1, <1>2, <1>3, <1>4, <1>5, <1>7, <1>8, <1>9 DEF StreamNext, NetworkAnswers

THEOREM StreamInvariance == StreamSpec => []StreamInv
BY StreamInitInv, StreamNextInv, PTL DEF StreamSpec

-----------------------------------------------------------------------------
LEMMA QuietHasOne == StreamInv => OneStream
<1> SUFFICES ASSUME StreamInv PROVE OneStream
  OBVIOUS
<1> DEFINE live == {s \in streams : s.live}
<1>1. Cardinality(live) <= 1
  <2>1. CASE live = {}
    BY <2>1, FS_EmptySet
  <2>2. CASE live # {}
    <3>1. PICK s \in live : live = {s}
      BY <2>2 DEF StreamInv, LiveIsAlone
    <3>2. Cardinality({s}) = 1
      BY FS_Singleton
    <3> QED BY <3>1, <3>2
  <2> QED BY <2>1, <2>2
<1>2. ~(timer /\ live # {}) /\ (~signedIn => live = {} /\ ~timer)
  BY DEF StreamInv, TimerIsAlone, QuietAtRest, NoneLive
<1> QED BY <1>1, <1>2 DEF OneStream

\* However sign-ins, timers, answers and the fallback overlap, the client has at
\* most one stream, and none when nobody is signed in.
THEOREM StreamIsAlone == StreamSpec => []OneStream
BY StreamInvariance, QuietHasOne, PTL

\* The client stops asking only after StreamRetryMax failures in succession.
THEOREM RetriesUsedUp == StreamSpec => []GivesUpOnlyAfterFailures
BY StreamInvariance, PTL DEF StreamInv

-----------------------------------------------------------------------------
(* Types.  The cursor is the largest number of a page, so that a page that   *)
(* is not empty must have one.                                               *)

LEMMA HasLargest ==
  ASSUME NEW n \in Nat, NEW S \in SUBSET (1..n), S # {}
  PROVE  \E m \in S : \A k \in S : k <= m
<1> DEFINE T == {n - k : k \in S}
           R == {ss \in Nat \X Nat : ss[1] < ss[2]}
<1>1. IsWellFoundedOn(R, Nat)
  BY NatLessThanWellFounded DEF OpToRel
<1>2. T \subseteq Nat /\ T # {}
  <2>1. ASSUME NEW k \in S PROVE n - k \in Nat
    <3>1. k \in 1..n
      OBVIOUS
    <3> QED BY <3>1
  <2> QED BY <2>1
<1>3. \A x, y \in Nat : <<y, x>> \in R <=> y < x
  OBVIOUS
<1> HIDE DEF R
<1>4. PICK x \in T : \A y \in T : ~(<<y, x>> \in R)
  <2> HIDE DEF T
  <2> QED BY <1>1, <1>2, WFMin
<1>5. PICK m \in S : x = n - m
  BY <1>4
<1>6. ASSUME NEW k \in S PROVE k <= m
  <2>1. n - k \in T /\ n - k \in Nat /\ x \in Nat
    BY <1>2, <1>4
  <2>2. ~(n - k < x)
    BY <1>3, <1>4, <2>1
  <2>3. n - k \in Nat /\ n - m \in Nat /\ k \in Nat /\ m \in Nat
    BY <1>2, <1>5, <2>1
  <2> QED BY <1>5, <2>2, <2>3
<1> QED BY <1>6

\* A page is of notifications that exist.
LEMMA PageTyped == \A c : PageFrom(c) \subseteq 1..created
BY DEF PageFrom, Newest

LEMMA NewestTyped == \A S : Newest(S) \subseteq S
BY DEF Newest

LEMMA RequestsTyped ==
  /\ \A s \in StreamRequest : [s EXCEPT !.live = FALSE] \in StreamRequest
  /\ \A c \in 0..MaxCreated : [live |-> TRUE, from |-> c] \in StreamRequest
BY DEF StreamRequest

LEMMA LoadsTyped ==
  /\ [left |-> LoadAttempts - 1, thenStop |-> FALSE] \in LoadRequest
  /\ [left |-> LoadAttempts - 1, thenStop |-> TRUE] \in LoadRequest
  /\ \A l \in LoadRequest : l.left > 0 => [l EXCEPT !.left = @ - 1] \in LoadRequest
<1>1. LoadAttempts - 1 \in 0..LoadAttempts /\ LoadAttempts \in Nat
  BY StreamAssumption DEF StreamAssumption
<1> QED BY <1>1 DEF LoadRequest

LEMMA AbortedTyped == ASSUME StreamTypeOK PROVE Aborted \subseteq StreamRequest
BY RequestsTyped DEF Aborted, StreamTypeOK

LEMMA ConnectTyped ==
  ASSUME StreamTypeOK, ConnectStream
  PROVE  streams' \subseteq StreamRequest /\ timer' \in BOOLEAN /\ mode' = "streaming"
BY AbortedTyped, RequestsTyped DEF ConnectStream, StreamTypeOK

LEMMA ScheduleTyped ==
  ASSUME StreamTypeOK, NEW n \in Nat, ScheduleReconnect(n)
  PROVE  /\ retries' \in 0..StreamRetryMax /\ timer' \in BOOLEAN /\ gaveUp' \in BOOLEAN
         /\ loads' \subseteq LoadRequest
<1>1. CASE n < StreamRetryMax
  <2>1. retries' = n + 1 /\ timer' = TRUE /\ UNCHANGED <<loads, gaveUp>>
    BY <1>1 DEF ScheduleReconnect, MayRetry
  <2>2. n + 1 \in 0..StreamRetryMax
    BY <1>1, StreamAssumption DEF StreamAssumption
  <2> QED BY <2>1, <2>2 DEF StreamTypeOK
<1>2. CASE ~(n < StreamRetryMax)
  <2>1. /\ retries' = 0 /\ gaveUp' = TRUE /\ UNCHANGED timer
        /\ loads' = loads \cup {[left |-> LoadAttempts - 1, thenStop |-> TRUE]}
    BY <1>2 DEF ScheduleReconnect, MayRetry
  <2>2. 0 \in 0..StreamRetryMax
    BY StreamAssumption DEF StreamAssumption
  <2>3. loads' \subseteq LoadRequest
    BY <2>1, LoadsTyped DEF StreamTypeOK
  <2>4. timer' \in BOOLEAN
    BY <2>1 DEF StreamTypeOK
  <2> QED BY <2>1, <2>2, <2>3, <2>4
<1> QED BY <1>1, <1>2

LEMMA StreamInitTyped == StreamInit => StreamTypeOK
<1> SUFFICES ASSUME StreamInit PROVE StreamTypeOK
  OBVIOUS
<1>1. 0 \in 0..MaxCreated /\ 0 \in 0..MaxSignIns /\ 0 \in 0..StreamRetryMax /\ 0 \in Nat
  BY StreamAssumption DEF StreamAssumption
<1>2. /\ created = 0 /\ signIns = 0 /\ retries = 0 /\ cursor = 0 /\ failures = 0
      /\ streams = {} /\ loads = {} /\ rows = {} /\ mode = "polling"
  BY DEF StreamInit
<1>3. signedIn \in BOOLEAN /\ timer \in BOOLEAN /\ gaveUp \in BOOLEAN
  BY DEF StreamInit
<1> QED BY <1>1, <1>2, <1>3 DEF StreamTypeOK

LEMMA StreamNextTyped == StreamTypeOK /\ [StreamNext]_streamVars => StreamTypeOK'
<1> SUFFICES ASSUME StreamTypeOK, [StreamNext]_streamVars PROVE StreamTypeOK'
  OBVIOUS
<1>0. created \in 0..MaxCreated /\ MaxCreated \in Nat /\ MaxSignIns \in Nat
  BY StreamAssumption DEF StreamTypeOK, StreamAssumption
<1>1. CASE UNCHANGED streamVars
  BY <1>1 DEF streamVars, StreamTypeOK
<1>2. CASE Create
  <2>1. created' \in 0..MaxCreated /\ 1..created \subseteq 1..created'
    BY <1>0, <1>2 DEF Create
  <2> QED BY <1>2, <2>1 DEF Create, StreamTypeOK
<1>3. CASE SignIn
  <2>1. signIns' \in 0..MaxSignIns
    BY <1>0, <1>3 DEF SignIn, StreamTypeOK
  <2>2. streams' \subseteq StreamRequest /\ timer' \in BOOLEAN /\ mode' = "streaming"
    BY <1>3, ConnectTyped DEF SignIn
  <2>3. loads' \subseteq LoadRequest
    BY <1>3, LoadsTyped DEF SignIn, StreamTypeOK
  <2> QED BY <1>3, <2>1, <2>2, <2>3 DEF SignIn, StreamTypeOK
<1>4. CASE SignOut
  BY <1>4, AbortedTyped DEF SignOut, StopStream, StreamTypeOK
<1>5. CASE Reload
  BY <1>5, LoadsTyped DEF Reload, StreamTypeOK
<1>6. CASE TimerFires
  BY <1>6, ConnectTyped DEF TimerFires, StreamTypeOK
<1>7. ASSUME NEW s \in streams, Drop(s) PROVE StreamTypeOK'
  BY <1>7 DEF Drop, StreamTypeOK
<1>8. ASSUME NEW s \in streams, StreamAnswers(s) PROVE StreamTypeOK'
  <2> DEFINE page == PageFrom(s.from)
  <2>1. page \subseteq 1..created
    BY PageTyped
  <2>2. /\ rows' = rows \cup page
        /\ cursor' = IF page = {} THEN cursor ELSE CHOOSE n \in page : \A k \in page : k <= n
        /\ streams' = streams \ {s} /\ failures' = 0 /\ ScheduleReconnect(0)
        /\ UNCHANGED <<created, signedIn, signIns, mode>>
    BY <1>8 DEF StreamAnswers, RetriesAfterAnswer
  <2> HIDE DEF page
  <2>3. cursor' \in 0..MaxCreated
    <3>1. CASE page = {}
      BY <2>2, <3>1 DEF StreamTypeOK
    <3>2. CASE page # {}
      <4>1. \E m \in page : \A k \in page : k <= m
        <5>1. created \in Nat /\ page \in SUBSET (1..created)
          BY <1>0, <2>1
        <5> QED BY <5>1, <3>2, HasLargest
      <4>2. cursor' \in page
        BY <2>2, <3>2, <4>1
      <4> QED BY <1>0, <2>1, <4>2
    <3> QED BY <3>1, <3>2
  <2>4. /\ retries' \in 0..StreamRetryMax /\ timer' \in BOOLEAN /\ gaveUp' \in BOOLEAN
        /\ loads' \subseteq LoadRequest
    BY <2>2, ScheduleTyped
  <2> QED BY <2>1, <2>2, <2>3, <2>4 DEF StreamTypeOK
<1>9. ASSUME NEW s \in streams, StreamFallsBack(s) PROVE StreamTypeOK'
  <2>1. streams' \subseteq StreamRequest
    BY <1>9, RequestsTyped DEF StreamFallsBack, StreamTypeOK
  <2>2. retries' \in 0..StreamRetryMax
    BY <1>9, StreamAssumption DEF StreamFallsBack, StreamAssumption
  <2> QED BY <1>9, <2>1, <2>2 DEF StreamFallsBack, StreamTypeOK
<1>10. ASSUME NEW s \in streams, StreamFails(s) PROVE StreamTypeOK'
  <2>1. retries \in Nat /\ failures' \in Nat
    BY <1>10, StreamAssumption DEF StreamFails, StreamTypeOK, StreamAssumption
  <2>2. /\ retries' \in 0..StreamRetryMax /\ timer' \in BOOLEAN /\ gaveUp' \in BOOLEAN
        /\ loads' \subseteq LoadRequest
    BY <1>10, <2>1, ScheduleTyped DEF StreamFails
  <2> QED BY <1>10, <2>1, <2>2 DEF StreamFails, StreamTypeOK
<1>11. ASSUME NEW l \in loads, NotificationsArrive(l) PROVE StreamTypeOK'
  BY <1>11, NewestTyped DEF NotificationsArrive, StreamTypeOK
<1>12. ASSUME NEW l \in loads, NotificationsFail(l) PROVE StreamTypeOK'
  <2>1. loads' \subseteq LoadRequest
    BY <1>12, LoadsTyped DEF NotificationsFail, StreamTypeOK
  <2>2. streams' \subseteq StreamRequest /\ timer' \in BOOLEAN /\ mode' \in {"polling", "streaming", "fallback"}
    BY <1>12, AbortedTyped DEF NotificationsFail, StopStream, StreamTypeOK
  <2> QED BY <1>12, <2>1, <2>2 DEF NotificationsFail, StreamTypeOK
<1> QED BY <1>1, <1>2, <1>3, <1>4, <1>5, <1>6, <1>7, <1>8, <1>9, <1>10, <1>11, <1>12
        DEF StreamNext, NetworkAnswers

\* Every variable of the notification stream keeps its type.
THEOREM StreamTypeCorrect == StreamSpec => []StreamTypeOK
BY StreamInitTyped, StreamNextTyped, PTL DEF StreamSpec
=============================================================================
