------------------------ MODULE NotificationStream ------------------------
(***************************************************************************)
(* The notification stream of the user portal (user-web/src/App.tsx) and   *)
(* the endpoint it reads (backend notifications.py).  The "stream" is a    *)
(* request that the server answers at once with one page; the client asks  *)
(* again after a pause, from the cursor of the last page.  Notifications   *)
(* are numbered in the order they are created.                             *)
(***************************************************************************)
EXTENDS Naturals, FiniteSets

CONSTANTS Limit,            \* notifications of a page
          StreamRetryMax,   \* streamRetryMax of NOTIFICATION_POLICY
          LoadAttempts,     \* attempts of retryWithBackoff
          MaxCreated,       \* bound: notifications
          MaxSignIns        \* bound: sign-ins

ASSUME StreamAssumption ==
  /\ Limit \in Nat \ {0} /\ StreamRetryMax \in Nat /\ LoadAttempts \in Nat \ {0}
  /\ MaxCreated \in Nat /\ MaxSignIns \in Nat

VARIABLES
  created,         \* the server: notifications 1..created
  signedIn, signIns,
  streams,         \* stream requests on their way
  timer,           \* notificationStreamTimerRef is armed
  retries,         \* streamRetryRef
  cursor,          \* streamCursorRef, 0 stands for ""
  mode,            \* notificationMode
  loads,           \* loadNotificationData on their way
  rows,            \* the notifications of the list
  failures,        \* history: stream requests that failed since the last answer
  gaveUp           \* history: scheduleReconnect has stopped reconnecting

streamVars == <<created, signedIn, signIns, streams, timer, retries, cursor, mode, loads,
                rows, failures, gaveUp>>

\* live: its AbortController has not been aborted.
StreamRequest == [live : BOOLEAN, from : 0..MaxCreated]
\* A load is tried so many times more; thenStop: the fallback of the stream,
\* whose failure stops the stream.
LoadRequest == [left : 0..LoadAttempts, thenStop : BOOLEAN]

StreamInit ==
  /\ created = 0 /\ signedIn = FALSE /\ signIns = 0
  /\ streams = {} /\ timer = FALSE /\ retries = 0 /\ cursor = 0 /\ mode = "polling"
  /\ loads = {} /\ rows = {} /\ failures = 0 /\ gaveUp = FALSE

-----------------------------------------------------------------------------
(* The server. *)

Newest(S) == {n \in S : Cardinality({k \in S : k > n}) < Limit}
\* list_notifications: newest first, and with a cursor what is older than it.
PageFrom(c) == Newest({n \in 1..created : c = 0 \/ n < c})

Create ==
  /\ created < MaxCreated
  /\ created' = created + 1
  /\ UNCHANGED <<signedIn, signIns, streams, timer, retries, cursor, mode, loads, rows,
                 failures, gaveUp>>

-----------------------------------------------------------------------------
(* The client. *)

Aborted == {[s EXCEPT !.live = FALSE] : s \in streams}

\* Leaves the timer armed.
MutStopStream == /\ streams' = Aborted /\ UNCHANGED timer
\* stopNotificationStream
StopStream == streams' = Aborted /\ timer' = FALSE

\* connectNotificationStream: it stops the one before.
ConnectStream ==
  /\ streams' = Aborted \cup {[live |-> TRUE, from |-> cursor]}
  /\ timer' = FALSE
  /\ mode' = "streaming"

\* The effect on [token, me]: the stream is connected and the list is loaded.
SignIn ==
  /\ ~signedIn /\ signIns < MaxSignIns
  /\ signedIn' = TRUE /\ signIns' = signIns + 1
  /\ ConnectStream
  /\ loads' = loads \cup {[left |-> LoadAttempts - 1, thenStop |-> FALSE]}
  /\ gaveUp' = FALSE
  /\ UNCHANGED <<created, retries, cursor, rows, failures>>

\* The cleanup of that effect.  The list, the cursor and the retries stay.
SignOut ==
  /\ signedIn
  /\ signedIn' = FALSE
  /\ StopStream
  /\ UNCHANGED <<created, signIns, retries, cursor, mode, loads, rows, failures, gaveUp>>

\* executeAck, executeReadAll: the list is loaded again.
Reload ==
  /\ signedIn
  /\ loads' = loads \cup {[left |-> LoadAttempts - 1, thenStop |-> FALSE]}
  /\ UNCHANGED <<created, signedIn, signIns, streams, timer, retries, cursor, mode, rows,
                 failures, gaveUp>>

TimerFires ==
  /\ timer
  /\ ConnectStream
  /\ UNCHANGED <<created, signedIn, signIns, retries, cursor, loads, rows, failures, gaveUp>>

\* streamRetryRef.current < streamRetryMax
MayRetry(n) == n < StreamRetryMax

\* scheduleReconnect after n retries: a timer, or the retries start again and
\* the list is loaded once.
ScheduleReconnect(n) ==
  IF MayRetry(n)
  THEN /\ retries' = n + 1 /\ timer' = TRUE
       /\ UNCHANGED <<loads, gaveUp>>
  ELSE /\ retries' = 0
       /\ loads' = loads \cup {[left |-> LoadAttempts - 1, thenStop |-> TRUE]}
       /\ gaveUp' = TRUE
       /\ UNCHANGED timer

\* A stream that was aborted in the meantime is not looked at.
Drop(s) ==
  /\ s \in streams /\ ~s.live
  /\ streams' = streams \ {s}
  /\ UNCHANGED <<created, signedIn, signIns, timer, retries, cursor, mode, loads, rows,
                 failures, gaveUp>>

\* The retries are not counted from the beginning again.
MutRetriesAfterAnswer == retries
\* streamRetryRef.current = 0
RetriesAfterAnswer == 0

\* A page: every row replaces or joins the list, and the cursor is its newest.
StreamAnswers(s) ==
  /\ s \in streams /\ s.live
  /\ LET page == PageFrom(s.from)
     IN  /\ rows' = rows \cup page
         /\ cursor' = IF page = {} THEN cursor ELSE CHOOSE n \in page : \A k \in page : k <= n
  /\ streams' = streams \ {s} /\ failures' = 0
  /\ ScheduleReconnect(RetriesAfterAnswer)
  /\ UNCHANGED <<created, signedIn, signIns, mode>>

\* The server could not read the notifications: heartbeat with type fallback.
StreamFallsBack(s) ==
  /\ s \in streams /\ s.live
  /\ streams' = {[q EXCEPT !.live = FALSE] : q \in streams \ {s}}
  /\ timer' = FALSE /\ mode' = "fallback" /\ retries' = 0
  /\ UNCHANGED <<created, signedIn, signIns, cursor, loads, rows, failures, gaveUp>>

StreamFails(s) ==
  /\ s \in streams /\ s.live
  /\ streams' = streams \ {s} /\ failures' = failures + 1
  /\ ScheduleReconnect(retries)
  /\ UNCHANGED <<created, signedIn, signIns, cursor, mode, rows>>

\* The list is loaded: loadNotificationData replaces it.
NotificationsArrive(l) ==
  /\ l \in loads
  /\ loads' = loads \ {l} /\ rows' = Newest(1..created)
  /\ UNCHANGED <<created, signedIn, signIns, streams, timer, retries, cursor, mode,
                 failures, gaveUp>>

\* retryWithBackoff, and applyStreamPolicyError when the fallback fails as well.
NotificationsFail(l) ==
  /\ l \in loads
  /\ IF l.left > 0
     THEN /\ loads' = (loads \ {l}) \cup {[l EXCEPT !.left = @ - 1]}
          /\ UNCHANGED <<streams, timer, mode>>
     ELSE /\ loads' = loads \ {l}
          /\ IF l.thenStop THEN StopStream /\ mode' = "fallback"
             ELSE UNCHANGED <<streams, timer, mode>>
  /\ UNCHANGED <<created, signedIn, signIns, retries, cursor, rows, failures, gaveUp>>

NetworkAnswers ==
  \/ \E s \in streams : Drop(s) \/ StreamAnswers(s) \/ StreamFallsBack(s) \/ StreamFails(s)
  \/ \E l \in loads : NotificationsArrive(l) \/ NotificationsFail(l)

StreamNext == Create \/ SignIn \/ SignOut \/ Reload \/ TimerFires \/ NetworkAnswers

StreamSpec == StreamInit /\ [][StreamNext]_streamVars

\* Timers fire and requests settle; as long as the server works it answers.
StreamLive ==
  /\ StreamSpec
  /\ WF_streamVars(TimerFires)
  /\ WF_streamVars(\E s \in streams : StreamAnswers(s))
  /\ WF_streamVars(\E l \in loads : NotificationsArrive(l))

-----------------------------------------------------------------------------
StreamTypeOK ==
  /\ created \in 0..MaxCreated /\ signIns \in 0..MaxSignIns /\ signedIn \in BOOLEAN
  /\ streams \subseteq StreamRequest /\ timer \in BOOLEAN
  /\ retries \in 0..StreamRetryMax /\ cursor \in 0..MaxCreated
  /\ mode \in {"polling", "streaming", "fallback"}
  /\ loads \subseteq LoadRequest /\ rows \subseteq 1..created
  /\ failures \in Nat /\ gaveUp \in BOOLEAN

\* However sign-ins, timers, answers and the fallback overlap, there is at most
\* one stream: one request that is not aborted, or one timer.  Nobody signed in
\* has none.
OneStream ==
  LET live == {s \in streams : s.live}
  IN  /\ Cardinality(live) <= 1
      /\ ~(timer /\ live # {})
      /\ ~signedIn => live = {} /\ ~timer

\* scheduleReconnect stops reconnecting only after StreamRetryMax requests in
\* succession have failed: an answer in between gives the stream its retries back.
\* Only this schedule is meant: the stream also stops when the server answers with
\* a fallback or the load of a fallback fails, and that is no giving up.
GivesUpOnlyAfterFailures == gaveUp => failures >= StreamRetryMax

\* A notification that is not on the list yet is on it at last, as long as the
\* user stays signed in and no request of the stream fails.
NewIsShown ==
  \A n \in 1..MaxCreated :
    (n \in (1..created) \ rows /\ signedIn /\ mode = "streaming")
      ~> (n \in rows \/ ~signedIn \/ mode = "fallback" \/ failures > 0)
=============================================================================
