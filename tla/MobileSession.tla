--------------------------- MODULE MobileSession ---------------------------
(***************************************************************************)
(* The session controller of the mobile app (mobile-app/auth-session.js)   *)
(* with the handlers of App.tsx that use it.  A token is named by the      *)
(* generation of the sign-in attempt it was issued for; 0 stands for "".   *)
(*                                                                         *)
(* Every function runs from one await to the next without interruption.    *)
(* A protected request carries the context its handler captured.           *)
(***************************************************************************)
EXTENDS Naturals, FiniteSets

CONSTANTS InitialTasks,   \* requests that follow a sign-in, one after the other
          RetryMax,       \* how often a notification request is tried
          MaxLogins,      \* bound: sign-in attempts
          MaxRequests     \* bound: protected requests on their way

ASSUME MobileAssumption ==
  /\ InitialTasks \in Nat \ {0} /\ RetryMax \in Nat \ {0}
  /\ MaxLogins \in Nat /\ MaxRequests \in Nat

VARIABLES
  generation, activeToken,  \* the controller
  loginSent,                \* attempts that wait for /auth/login
  meSent,                   \* attempts that wait for /auth/me
  requests,                 \* protected requests on their way
  held,                     \* tokens some render of the screen has held
  screen,                   \* the token the data on the screen was read with
  tried, denied             \* history: attempts started, tokens refused

mobileVars == <<generation, activeToken, loginSent, meSent, requests, held, screen,
                tried, denied>>

\* left: the initial requests from this one on, 0 for any other request;
\* again: how often it is repeated when it fails.
Request == [gen : Nat, token : Nat, left : 0..InitialTasks, again : 0..RetryMax]

MobileInit ==
  /\ generation = 0 /\ activeToken = 0
  /\ loginSent = {} /\ meSent = {} /\ requests = {}
  /\ held = {} /\ screen = 0 /\ tried = {} /\ denied = {}

IsAttemptCurrent(a) == a = generation
\* Without the token: a handler of an old render passes for one of this session.
MutIsCurrent(r) == r.gen = generation
IsCurrent(r) == r.gen = generation /\ r.token = activeToken

\* logout, and the reset of every piece of state in createClearedMobileSessionState
ClearSession ==
  /\ generation' = generation + 1
  /\ activeToken' = 0
  /\ screen' = 0

-----------------------------------------------------------------------------
(* Sign-in. *)

\* The sign-in form is there while there is no token; its button stays enabled
\* while an attempt is on its way.
BeginLogin ==
  /\ activeToken = 0 /\ Cardinality(tried) < MaxLogins
  /\ generation' = generation + 1
  /\ loginSent' = loginSent \cup {generation + 1}
  /\ tried' = tried \cup {generation + 1}
  /\ UNCHANGED <<activeToken, meSent, requests, held, screen, denied>>

\* /auth/login answered; an attempt that was overtaken goes no further.
LoginAnswers(a) ==
  /\ a \in loginSent
  /\ loginSent' = loginSent \ {a}
  /\ meSent' = IF IsAttemptCurrent(a) THEN meSent \cup {a} ELSE meSent
  /\ UNCHANGED <<generation, activeToken, requests, held, screen, tried, denied>>

LoginFails(a) ==
  /\ a \in loginSent \cup meSent
  /\ loginSent' = loginSent \ {a} /\ meSent' = meSent \ {a}
  /\ UNCHANGED <<generation, activeToken, requests, held, screen, tried, denied>>

\* /auth/me answered: commitLogin, onLoginCommitted, and the first request.
CommitLogin(a) ==
  /\ a \in meSent
  /\ meSent' = meSent \ {a}
  /\ IF IsAttemptCurrent(a)
     THEN /\ activeToken' = a /\ screen' = a /\ held' = held \cup {a}
          /\ requests' = requests \cup
               {[gen |-> a, token |-> a, left |-> InitialTasks, again |-> 0]}
     ELSE UNCHANGED <<activeToken, screen, held, requests>>
  /\ UNCHANGED <<generation, loginSent, tried, denied>>

\* /auth/me refused with 401 or 403: clearAttemptIfCurrent.
AttemptRefused(a) ==
  /\ a \in meSent
  /\ meSent' = meSent \ {a} /\ denied' = denied \cup {a}
  /\ IF IsAttemptCurrent(a) THEN ClearSession
     ELSE UNCHANGED <<generation, activeToken, screen>>
  /\ UNCHANGED <<loginSent, requests, held, tried>>

-----------------------------------------------------------------------------
(* Protected requests. *)

\* A handler of some render, perhaps an old one: capture(token).  Handlers that
\* repeat: withRetry of the notifications.
Send(token, again) ==
  /\ token \in held /\ Cardinality(requests) < MaxRequests
  /\ requests' = requests \cup
       {[gen |-> generation, token |-> token, left |-> 0, again |-> again]}
  /\ UNCHANGED <<generation, activeToken, loginSent, meSent, held, screen, tried, denied>>

\* runInitialRequests: the next one only for the session that is current.
NextTask(r) ==
  IF r.left > 1 /\ IsCurrent(r) THEN {[r EXCEPT !.left = @ - 1]} ELSE {}

\* The answer is applied if its session is still the current one.
Applied(r) ==
  /\ r \in requests
  /\ screen' = IF IsCurrent(r) THEN r.token ELSE screen
  /\ requests' = (requests \ {r}) \cup NextTask(r)
  /\ UNCHANGED <<generation, activeToken, loginSent, meSent, held, tried, denied>>

\* The request fails for another reason than a refusal.  Most initial requests
\* handle it themselves; that of the notifications ends the sequence.
RequestFails(r, goesOn) ==
  /\ r \in requests
  /\ requests' = (requests \ {r}) \cup
       (IF r.again > 0 THEN {[r EXCEPT !.again = @ - 1]}
        ELSE IF goesOn THEN NextTask(r) ELSE {})
  /\ UNCHANGED <<generation, activeToken, loginSent, meSent, held, screen, tried, denied>>

\* A refusal ends whatever session there is.
MutRefused(r) ==
  /\ r \in requests
  /\ requests' = requests \ {r} /\ denied' = denied \cup {r.token}
  /\ ClearSession
  /\ UNCHANGED <<loginSent, meSent, held, tried>>
\* 401 or 403: clearSessionIfCurrent.
Refused(r) ==
  /\ r \in requests
  /\ requests' = requests \ {r} /\ denied' = denied \cup {r.token}
  /\ IF IsCurrent(r) THEN ClearSession
     ELSE UNCHANGED <<generation, activeToken, screen>>
  /\ UNCHANGED <<loginSent, meSent, held, tried>>

LogoutSession ==
  /\ activeToken # 0
  /\ ClearSession
  /\ UNCHANGED <<loginSent, meSent, requests, held, tried, denied>>

MobileNext ==
  \/ BeginLogin \/ LogoutSession
  \/ \E a \in loginSent : LoginAnswers(a)
  \/ \E a \in loginSent \cup meSent : LoginFails(a)
  \/ \E a \in meSent : CommitLogin(a) \/ AttemptRefused(a)
  \/ \E token \in held, again \in {0, RetryMax - 1} : Send(token, again)
  \/ \E r \in requests : Applied(r) \/ Refused(r) \/ \E goesOn \in BOOLEAN : RequestFails(r, goesOn)

MobileSpec == MobileInit /\ [][MobileNext]_mobileVars

-----------------------------------------------------------------------------
MobileTypeOK ==
  /\ generation \in Nat /\ activeToken \in Nat /\ screen \in Nat
  /\ loginSent \subseteq Nat /\ meSent \subseteq Nat /\ held \subseteq Nat
  /\ tried \subseteq Nat /\ denied \subseteq Nat
  /\ requests \subseteq Request

\* However late an answer comes, the data on the screen was read with the token
\* of the session that is active; nothing is left of one that ended.
ScreenIsOfSession == screen # 0 => screen = activeToken

(***************************************************************************)
(* The controller implements ClientSession: the attempt the user waits for *)
(* is the one of the current generation.                                   *)
(***************************************************************************)
WantedAttempt == IF generation \in loginSent \cup meSent THEN generation ELSE 0

Client == INSTANCE ClientSession WITH
  begun <- tried, wanted <- WantedAttempt, active <- activeToken, shown <- screen,
  refused <- denied

\* The promises of ClientSession: no late answer signs in, signs out or shows
\* anything for a session that the user has left.
KeepsSession == Client!ClientSpec
=============================================================================
