-------------------------- MODULE ClientAppProofs --------------------------
(***************************************************************************)
(* The mobile app and the desktop client.  Four components that share      *)
(* nothing: for any number of requests, sign-ins, people, providers and    *)
(* steps, the session controller implements ClientSession, the desktop     *)
(* client keeps no credential that was refused, and the gates, flags and   *)
(* forms of the app stay true.                                             *)
(***************************************************************************)
EXTENDS MobileSession, DesktopBroker, MobileActions, MobileAi, FiniteSetTheorems, TLAPS

-----------------------------------------------------------------------------
(***************************************************************************)
(* For every number of initial requests, of retries, of sign-ins and of    *)
(* requests on their way: the session controller of the mobile app         *)
(* implements ClientSession.                                               *)
(***************************************************************************)

(***************************************************************************)
(* The inductive invariant.  Attempts and tokens are numbered by a         *)
(* generation that only grows; the active token is that of the current     *)
(* generation, which then has no attempt left on its way; no context holds *)
(* a token younger than its generation.                                    *)
(***************************************************************************)
AttemptsInOrder ==
  /\ \A a \in tried : a > 0 /\ a <= generation
  /\ loginSent \cup meSent \subseteq tried /\ loginSent \cap meSent = {}
  /\ held \subseteq tried /\ held \cap (loginSent \cup meSent) = {}

ActiveIsNewest ==
  activeToken # 0 => /\ activeToken = generation
                     /\ generation \notin loginSent \cup meSent

ContextsInOrder ==
  \A r \in requests : r.token \in held /\ r.token <= r.gen /\ r.gen <= generation

MobileInv ==
  /\ MobileTypeOK /\ ScreenIsOfSession
  /\ AttemptsInOrder /\ ActiveIsNewest /\ ContextsInOrder

LEMMA MobileInitInv == MobileInit => MobileInv
BY DEF MobileInit, MobileInv, MobileTypeOK, ScreenIsOfSession, AttemptsInOrder,
       ActiveIsNewest, ContextsInOrder

\* What runInitialRequests sends next has the context of what it sent before.
LEMMA NextTaskFacts ==
  ASSUME NEW r \in Request
  PROVE  /\ NextTask(r) \subseteq Request
         /\ \A q \in NextTask(r) : q.gen = r.gen /\ q.token = r.token
BY MobileAssumption DEF NextTask, Request

\* The type invariant alone.
LEMMA MobileTypeStep == MobileInv /\ [MobileNext]_mobileVars => MobileTypeOK'
<1> SUFFICES ASSUME MobileInv, [MobileNext]_mobileVars PROVE MobileTypeOK'
  OBVIOUS
<1> USE DEF MobileInv, MobileTypeOK
<1>1. CASE BeginLogin
  BY <1>1 DEF BeginLogin
<1>2. CASE LogoutSession
  BY <1>2 DEF LogoutSession, ClearSession
<1>3. ASSUME NEW a \in loginSent, LoginAnswers(a) PROVE MobileTypeOK'
  BY <1>3 DEF LoginAnswers
<1>4. ASSUME NEW a \in loginSent \cup meSent, LoginFails(a) PROVE MobileTypeOK'
  BY <1>4 DEF LoginFails
<1>5. ASSUME NEW a \in meSent, CommitLogin(a) PROVE MobileTypeOK'
  <2>1. [gen |-> a, token |-> a, left |-> InitialTasks, again |-> 0] \in Request
    BY MobileAssumption DEF Request
  <2> QED BY <1>5, <2>1 DEF CommitLogin
<1>6. ASSUME NEW a \in meSent, AttemptRefused(a) PROVE MobileTypeOK'
  BY <1>6 DEF AttemptRefused, ClearSession
<1>7. ASSUME NEW token \in held, NEW again \in {0, RetryMax - 1}, Send(token, again)
      PROVE MobileTypeOK'
  <2>1. [gen |-> generation, token |-> token, left |-> 0, again |-> again] \in Request
    BY MobileAssumption DEF Request
  <2> QED BY <1>7, <2>1 DEF Send
<1>8. ASSUME NEW r \in requests, Applied(r) PROVE MobileTypeOK'
  <2>1. r \in Request
    OBVIOUS
  <2>2. r.token \in Nat
    BY <2>1 DEF Request
  <2> QED BY <1>8, <2>1, <2>2, NextTaskFacts DEF Applied
<1>9. ASSUME NEW r \in requests, Refused(r) PROVE MobileTypeOK'
  <2>1. r.token \in Nat
    BY DEF Request
  <2>2. denied' \subseteq Nat /\ requests' \subseteq Request
    BY <1>9, <2>1 DEF Refused
  <2>3. generation' \in Nat /\ activeToken' \in Nat /\ screen' \in Nat
    BY <1>9 DEF Refused, ClearSession
  <2> QED BY <1>9, <2>2, <2>3 DEF Refused
<1>10. ASSUME NEW r \in requests, NEW goesOn \in BOOLEAN, RequestFails(r, goesOn)
       PROVE MobileTypeOK'
  <2>1. r \in Request
    OBVIOUS
  <2>2. r.again > 0 => [r EXCEPT !.again = @ - 1] \in Request
    BY <2>1, MobileAssumption DEF Request
  <2> QED BY <1>10, <2>1, <2>2, NextTaskFacts DEF RequestFails
<1>11. CASE UNCHANGED mobileVars
  BY <1>11 DEF mobileVars
<1> QED BY <1>1, <1>2, <1>3, <1>4, <1>5, <1>6, <1>7, <1>8, <1>9, <1>10, <1>11
        DEF MobileNext

\* The rest of the invariant.
LEMMA MobileStep == MobileInv /\ [MobileNext]_mobileVars => MobileInv'
<1> SUFFICES ASSUME MobileInv, [MobileNext]_mobileVars PROVE MobileInv'
  OBVIOUS
<1>t. MobileTypeOK'
  BY MobileTypeStep
<1> DEFINE Rest == ScreenIsOfSession /\ AttemptsInOrder /\ ActiveIsNewest /\ ContextsInOrder
<1> SUFFICES Rest'
  BY <1>t DEF MobileInv
<1> USE DEF MobileInv, MobileTypeOK, ScreenIsOfSession, AttemptsInOrder, ActiveIsNewest,
            ContextsInOrder
<1>1. CASE BeginLogin
  BY <1>1 DEF BeginLogin, Request
<1>2. CASE LogoutSession
  BY <1>2 DEF LogoutSession, ClearSession, Request
<1>3. ASSUME NEW a \in loginSent, LoginAnswers(a) PROVE Rest'
  BY <1>3 DEF LoginAnswers, IsAttemptCurrent
<1>4. ASSUME NEW a \in loginSent \cup meSent, LoginFails(a) PROVE Rest'
  BY <1>4 DEF LoginFails
<1>5. ASSUME NEW a \in meSent, CommitLogin(a) PROVE Rest'
  <2>1. CASE a = generation
    <3>1. /\ activeToken' = a /\ screen' = a /\ held' = held \cup {a}
          /\ generation' = generation /\ loginSent' = loginSent /\ meSent' = meSent \ {a}
          /\ tried' = tried
      BY <1>5, <2>1 DEF CommitLogin, IsAttemptCurrent
    <3>2. AttemptsInOrder' /\ ActiveIsNewest' /\ ScreenIsOfSession'
      BY <2>1, <3>1
    <3>3. \A q \in requests' : q \in requests \/ (q.gen = a /\ q.token = a)
      BY <1>5, <2>1 DEF CommitLogin, IsAttemptCurrent
    <3>4. ContextsInOrder'
      BY <2>1, <3>1, <3>3
    <3> QED BY <3>2, <3>4
  <2>2. CASE a # generation
    <3>1. /\ meSent' = meSent \ {a}
          /\ UNCHANGED <<generation, activeToken, loginSent, requests, held, screen, tried>>
      BY <1>5, <2>2 DEF CommitLogin, IsAttemptCurrent
    <3> QED BY <3>1
  <2> QED BY <2>1, <2>2
<1>6. ASSUME NEW a \in meSent, AttemptRefused(a) PROVE Rest'
  BY <1>6 DEF AttemptRefused, ClearSession, IsAttemptCurrent, Request
<1>7. ASSUME NEW token \in held, NEW again \in {0, RetryMax - 1}, Send(token, again)
      PROVE Rest'
  BY <1>7 DEF Send
<1>8. ASSUME NEW r \in requests, Applied(r) PROVE Rest'
  BY <1>8, NextTaskFacts DEF Applied, IsCurrent
<1>9. ASSUME NEW r \in requests, Refused(r) PROVE Rest'
  BY <1>9 DEF Refused, ClearSession, IsCurrent, Request
<1>10. ASSUME NEW r \in requests, NEW goesOn \in BOOLEAN, RequestFails(r, goesOn) PROVE Rest'
  <2>1. \A q \in requests' : q \in requests \/ (q.gen = r.gen /\ q.token = r.token)
    BY <1>10, NextTaskFacts DEF RequestFails, Request
  <2> QED BY <1>10, <2>1 DEF RequestFails
<1>11. CASE UNCHANGED mobileVars
  BY <1>11 DEF mobileVars
<1> QED BY <1>1, <1>2, <1>3, <1>4, <1>5, <1>6, <1>7, <1>8, <1>9, <1>10, <1>11
        DEF MobileNext

LEMMA MobileInvariance == MobileSpec => []MobileInv
BY MobileInitInv, MobileStep, PTL DEF MobileSpec

\* The types of the controller's state and of the requests on their way.
THEOREM MobileTypeCorrect == MobileSpec => []MobileTypeOK
BY MobileInvariance, PTL DEF MobileInv

\* The data on the screen was read with the token of the session that is active,
\* however many sessions the user has left with answers on their way.
THEOREM ScreenBelongsToSession == MobileSpec => []ScreenIsOfSession
BY MobileInvariance, PTL DEF MobileInv

-----------------------------------------------------------------------------
LEMMA RefineInit == MobileInit => Client!ClientInit
BY DEF MobileInit, Client!ClientInit, WantedAttempt

\* A cleared session waits for no attempt: its generation is a new one.
LEMMA ClearedWaits ==
  ASSUME MobileInv, ClearSession,
         loginSent' \subseteq loginSent, meSent' \subseteq meSent
  PROVE  WantedAttempt' = 0
BY DEF MobileInv, MobileTypeOK, AttemptsInOrder, ClearSession, WantedAttempt

\* Every step of the controller is a step of ClientSession, or changes nothing of it.
LEMMA RefineStep ==
  MobileInv /\ [MobileNext]_mobileVars => [Client!ClientNext]_(Client!clientVars)
<1> SUFFICES ASSUME MobileInv, [MobileNext]_mobileVars
             PROVE  Client!ClientNext \/ UNCHANGED Client!clientVars
  OBVIOUS
<1> USE DEF MobileInv, MobileTypeOK, ScreenIsOfSession, AttemptsInOrder, ActiveIsNewest,
            ContextsInOrder, Client!clientVars
<1>1. CASE BeginLogin
  <2>1. Client!Begin
    BY <1>1 DEF BeginLogin, Client!Begin, WantedAttempt
  <2> QED BY <2>1 DEF Client!ClientNext
<1>2. CASE LogoutSession
  <2>1. WantedAttempt = 0 /\ WantedAttempt' = 0
    BY <1>2, ClearedWaits DEF LogoutSession, WantedAttempt
  <2>2. Client!Leave
    BY <1>2, <2>1 DEF LogoutSession, ClearSession, Client!Leave
  <2> QED BY <2>2 DEF Client!ClientNext
<1>3. ASSUME NEW a \in loginSent, LoginAnswers(a) PROVE UNCHANGED Client!clientVars
  BY <1>3 DEF LoginAnswers, IsAttemptCurrent, WantedAttempt
<1>4. ASSUME NEW a \in loginSent \cup meSent, LoginFails(a)
      PROVE Client!GiveUp \/ UNCHANGED Client!clientVars
  <2>1. CASE a = generation
    BY <1>4, <2>1 DEF LoginFails, WantedAttempt, Client!GiveUp
  <2>2. CASE a # generation
    BY <1>4, <2>2 DEF LoginFails, WantedAttempt
  <2> QED BY <2>1, <2>2
<1>5. ASSUME NEW a \in meSent, CommitLogin(a)
      PROVE Client!Establish \/ UNCHANGED Client!clientVars
  <2>1. CASE a = generation
    BY <1>5, <2>1 DEF CommitLogin, IsAttemptCurrent, WantedAttempt, Client!Establish
  <2>2. CASE a # generation
    BY <1>5, <2>2 DEF CommitLogin, IsAttemptCurrent, WantedAttempt
  <2> QED BY <2>1, <2>2
<1>6. ASSUME NEW a \in meSent, AttemptRefused(a) PROVE Client!ClientNext
  <2>1. CASE a = generation
    <3>1. activeToken = 0 /\ screen = 0 /\ a # 0 /\ WantedAttempt = a
      BY <2>1 DEF WantedAttempt
    <3>2. WantedAttempt' = 0 /\ activeToken' = 0 /\ screen' = 0
      BY <1>6, <2>1, ClearedWaits DEF AttemptRefused, IsAttemptCurrent, ClearSession
    <3> QED BY <1>6, <3>1, <3>2 DEF AttemptRefused, Client!Refuse, Client!ClientNext
  <2>2. CASE a # generation
    <3>1. a # activeToken /\ a # WantedAttempt /\ WantedAttempt' = WantedAttempt
      BY <1>6, <2>2 DEF AttemptRefused, IsAttemptCurrent, WantedAttempt
    <3> QED BY <1>6, <2>2, <3>1
            DEF AttemptRefused, IsAttemptCurrent, Client!Refuse, Client!ClientNext
  <2> QED BY <2>1, <2>2
<1>7. ASSUME NEW token \in held, NEW again \in {0, RetryMax - 1}, Send(token, again)
      PROVE UNCHANGED Client!clientVars
  BY <1>7 DEF Send, WantedAttempt
<1>8. ASSUME NEW r \in requests, Applied(r) PROVE Client!Show \/ UNCHANGED Client!clientVars
  BY <1>8 DEF Applied, IsCurrent, WantedAttempt, Client!Show
<1>9. ASSUME NEW r \in requests, Refused(r) PROVE Client!ClientNext
  <2>1. r.token \in tried /\ r.token # 0 /\ r.token # WantedAttempt
    <3>1. r.token \in held
      OBVIOUS
    <3>2. r.token \in tried /\ r.token > 0 /\ r.token \notin loginSent \cup meSent
      BY <3>1
    <3> QED BY <3>2 DEF WantedAttempt
  <2>2. CASE IsCurrent(r)
    <3>1. WantedAttempt = 0
      BY <2>1, <2>2 DEF IsCurrent, WantedAttempt
    <3>2. WantedAttempt' = 0
      BY <1>9, <2>2, ClearedWaits DEF Refused
    <3> QED BY <1>9, <2>1, <2>2, <3>1, <3>2
            DEF Refused, ClearSession, IsCurrent, Client!Refuse, Client!ClientNext
  <2>3. CASE ~IsCurrent(r)
    <3>1. r.token # activeToken
      BY <2>1, <2>3 DEF IsCurrent, Request
    <3>2. WantedAttempt' = WantedAttempt
      BY <1>9, <2>3 DEF Refused, WantedAttempt
    <3> QED BY <1>9, <2>1, <2>3, <3>1, <3>2 DEF Refused, Client!Refuse, Client!ClientNext
  <2> QED BY <2>2, <2>3
<1>10. ASSUME NEW r \in requests, NEW goesOn \in BOOLEAN, RequestFails(r, goesOn)
       PROVE UNCHANGED Client!clientVars
  BY <1>10 DEF RequestFails, WantedAttempt
<1>11. CASE UNCHANGED mobileVars
  BY <1>11 DEF mobileVars, WantedAttempt
<1> QED BY <1>1, <1>2, <1>3, <1>4, <1>5, <1>6, <1>7, <1>8, <1>9, <1>10, <1>11
        DEF MobileNext, Client!ClientNext

\* The controller keeps every promise of ClientSession: only the attempt the user
\* started last signs in, and only the user or a refusal of the very session
\* that is active signs out.
THEOREM MobileKeepsSession == MobileSpec => KeepsSession
BY RefineInit, RefineStep, MobileInvariance, PTL
   DEF MobileSpec, KeepsSession, Client!ClientSpec

-----------------------------------------------------------------------------
(***************************************************************************)
(* The credential of the desktop client, for any number of sign-ins and    *)
(* requests on their way.                                                  *)
(***************************************************************************)

IssuedCredentials == 1..brokerLogins \ loginCalls

\* A sign-in that waits for its answer has not been used, let alone refused: its
\* late answer brings no refused credential back.
DesktopInv ==
  /\ brokerLogins \in Nat
  /\ loginCalls \subseteq 1..brokerLogins
  /\ apiCalls \subseteq IssuedCredentials /\ rejected \subseteq IssuedCredentials
  /\ credential \in {0} \cup IssuedCredentials
  /\ RejectedIsDropped

LEMMA DesktopNextInv == DesktopInv /\ [DesktopNext]_desktopVars => DesktopInv'
<1> SUFFICES ASSUME DesktopInv, [DesktopNext]_desktopVars PROVE DesktopInv'
  OBVIOUS
<1> USE DEF DesktopInv, IssuedCredentials, RejectedIsDropped
<1>1. CASE BrokerLogin
  <2>1. brokerLogins' \in Nat /\ 1..brokerLogins' = 1..brokerLogins \cup {brokerLogins + 1}
        /\ brokerLogins + 1 \notin 1..brokerLogins /\ 0 \notin 1..brokerLogins'
    BY <1>1 DEF BrokerLogin
  <2> QED BY <1>1, <2>1 DEF BrokerLogin
<1>2. CASE Call
  BY <1>2 DEF Call
<1>3. CASE BrokerLogout
  BY <1>3 DEF BrokerLogout
<1>4. ASSUME NEW n \in loginCalls, BrokerLoginAnswers(n) PROVE DesktopInv'
  BY <1>4 DEF BrokerLoginAnswers
<1>5. ASSUME NEW n \in loginCalls, NEW status \in {401, 423, 500}, BrokerLoginFails(n, status)
      PROVE DesktopInv'
  BY <1>5 DEF BrokerLoginFails
<1>6. ASSUME NEW c \in apiCalls, CallAnswers(c) PROVE DesktopInv'
  BY <1>6 DEF CallAnswers
<1>7. ASSUME NEW c \in apiCalls, NEW status \in {401, 423, 500}, CallFails(c, status)
      PROVE DesktopInv'
  BY <1>7 DEF CallFails, Rejects
<1>8. CASE UNCHANGED desktopVars
  BY <1>8 DEF desktopVars
<1> QED BY <1>1, <1>2, <1>3, <1>4, <1>5, <1>6, <1>7, <1>8 DEF DesktopNext

\* A credential of which the server has refused a request is never held again,
\* however many sign-ins and requests overtake each other.
THEOREM RejectedStaysDropped == DesktopSpec => []RejectedIsDropped
<1>1. DesktopInit => DesktopInv
  BY DEF DesktopInit, DesktopInv, IssuedCredentials, RejectedIsDropped
<1>2. DesktopInv => RejectedIsDropped
  BY DEF DesktopInv
<1> QED BY <1>1, <1>2, DesktopNextInv, PTL DEF DesktopSpec

-----------------------------------------------------------------------------
(***************************************************************************)
(* Gates, flags and spinners of the mobile app, for any number of people,  *)
(* sessions and taps.                                                      *)
(***************************************************************************)

ActionRecord ==
  [id : Nat, key : Keys, session : Nat \ {0}, stage : {"sent", "reloading"}]
Alert == [id : Nat, session : Nat \ {0}]
Listing == [id : Nat, newest : BOOLEAN, session : Nat]

ActionsTyped ==
  /\ sessions \in Nat /\ session \in 0..sessions /\ taps \in Nat
  /\ actions \subseteq ActionRecord /\ \A a \in actions : a.session <= sessions
  /\ alerts \subseteq Alert /\ \A q \in alerts : q.session <= sessions
  /\ listing \subseteq Listing /\ listingShown \in BOOLEAN /\ openedLate \in BOOLEAN

Ours == {a \in actions : IsOfSession(a)}
\* The mail keeps its gate as long as no mail of a former session has opened it.
Fenced(k) == k # "translation" /\ (k # "mail" \/ ~openedLate)

\* Two actions of this session behind the same gate are one.
Alone ==
  \A a, b \in Ours : a.key = b.key /\ (a.key # "mail" \/ ~openedLate) => a = b
GateHasAction == \A k \in gate : \E a \in Ours : a.key = k
ActionHasGate == \A a \in Ours : Fenced(a.key) => a.key \in gate
SpinnerKinds == {"translation", "room", "schedule"}
SpinnerHasAction == \A k \in SpinnerKinds : k \in spinning <=> \E a \in Ours : a.key = k

\* Only the newest listing is marked, it is of this session, and the spinner is its.
ListingInv ==
  /\ \A l \in listing : l.newest => IsOfSession(l)
  /\ \A l, m \in listing : l.newest /\ m.newest => l = m
  /\ listingShown <=> \E l \in listing : l.newest

GatesInv == Alone /\ GateHasAction /\ ActionHasGate /\ SpinnerHasAction
ActionsInv == ActionsTyped /\ GatesInv /\ ListingInv

-----------------------------------------------------------------------------
\* An action that enters an open gate is alone behind it.
LEMMA EnterAlone ==
  ASSUME ActionsInv, ActionsAssumption, NEW a \in ActionRecord,
         IsOfSession(a), \A b \in Ours : b.key # a.key,
         Enter(a), UNCHANGED <<session, openedLate>>
  PROVE  GatesInv'
<1> USE DEF ActionsInv, GatesInv
<1>1. Ours' = Ours \cup {a} /\ gate' = gate \cup {a.key}
  BY DEF Enter, Ours, IsOfSession
<1>2. Alone'
  BY <1>1 DEF Alone
<1>3. GateHasAction' /\ ActionHasGate'
  BY <1>1 DEF GateHasAction, ActionHasGate, Fenced
<1>4. \A k \in SpinnerKinds : k \in spinning' <=> k \in spinning \/ k = a.key
  BY DEF Enter, SpinnerKinds, ActionsAssumption
<1>5. SpinnerHasAction'
  BY <1>1, <1>4 DEF SpinnerHasAction
<1> QED BY <1>2, <1>3, <1>5

\* A mail that enters a gate which a mail of a former session has opened.
LEMMA EnterLate ==
  ASSUME ActionsInv, ActionsAssumption, NEW a \in ActionRecord,
         IsOfSession(a), a.key = "mail", openedLate,
         Enter(a), UNCHANGED <<session, openedLate>>
  PROVE  GatesInv'
<1> USE DEF ActionsInv, GatesInv
<1>1. Ours' = Ours \cup {a} /\ gate' = gate \cup {a.key}
  BY DEF Enter, Ours, IsOfSession
<1>2. Alone' /\ GateHasAction' /\ ActionHasGate'
  BY <1>1 DEF Alone, GateHasAction, ActionHasGate, Fenced
<1>3. \A k \in SpinnerKinds : k \in spinning' <=> k \in spinning \/ k = a.key
  BY DEF Enter, SpinnerKinds, ActionsAssumption
<1>4. SpinnerHasAction'
  BY <1>1, <1>3 DEF SpinnerHasAction
<1> QED BY <1>2, <1>4

\* The finally block of an action of this session leaves its gate empty and open.
LEMMA EndOurs ==
  ASSUME ActionsInv, ActionsAssumption, NEW a \in Ours, End(a), UNCHANGED session
  PROVE  GatesInv'
<1> USE DEF ActionsInv, GatesInv
<1>1. /\ Ours' = Ours \ {a} /\ gate' = gate \ {a.key} /\ openedLate' = openedLate
      /\ a \in ActionRecord
  BY DEF End, Ours, IsOfSession, Releases, ActionsTyped
<1>2. Alone'
  BY <1>1 DEF Alone
<1>3. GateHasAction'
  BY <1>1 DEF GateHasAction
<1>4. ActionHasGate'
  BY <1>1 DEF ActionHasGate, Fenced, Alone
<1>5. \A k \in SpinnerKinds : k \in spinning' <=> k \in spinning /\ k # a.key
  BY DEF End, Ours, SpinnerKinds, ActionsAssumption
<1>6. \A k \in SpinnerKinds : (\E b \in Ours' : b.key = k) <=> (\E b \in Ours : b.key = k) /\ k # a.key
  BY <1>1 DEF Alone, SpinnerKinds
<1>7. SpinnerHasAction'
  BY <1>5, <1>6 DEF SpinnerHasAction
<1> QED BY <1>2, <1>3, <1>4, <1>7

\* That of a former session opens at most the gates of mail and translation.
LEMMA EndFormer ==
  ASSUME ActionsInv, NEW a \in actions, ~IsOfSession(a), End(a), UNCHANGED session
  PROVE  GatesInv' /\ openedLate' \in BOOLEAN
<1> USE DEF ActionsInv, GatesInv
<1>1. /\ Ours' = Ours /\ spinning' = spinning /\ gate' \subseteq gate
      /\ \A k \in gate \ gate' : k = a.key /\ k \in {"mail", "translation"}
  BY DEF End, Ours, IsOfSession, Releases
<1>2. openedLate' = (openedLate \/ a.key = "mail")
  BY DEF End
<1>3. Alone' /\ GateHasAction' /\ SpinnerHasAction'
  BY <1>1, <1>2 DEF Alone, GateHasAction, SpinnerHasAction
<1>4. ActionHasGate'
  BY <1>1, <1>2 DEF ActionHasGate, Fenced
<1> QED BY <1>2, <1>3, <1>4 DEF ActionsTyped

-----------------------------------------------------------------------------
(* Steps that leave the listings alone. *)

LEMMA ListingStays ==
  ASSUME ListingInv, UNCHANGED <<session, listing, listingShown>>
  PROVE  ListingInv'
BY DEF ListingInv, IsOfSession

LEMMA ActionsStay ==
  ASSUME GatesInv, UNCHANGED <<session, gate, spinning, actions, openedLate>>
  PROVE  GatesInv'
BY DEF GatesInv, Alone, GateHasAction, ActionHasGate, SpinnerHasAction, Ours, IsOfSession, Fenced

\* No action is of a session that has only begun, or of none.
LEMMA ResetQuiet ==
  ASSUME ActionsInv, ResetActions, UNCHANGED actions,
         session' \notin {a.session : a \in actions}, session' \in Nat
  PROVE  (GatesInv /\ ListingInv)' /\ listing' \subseteq Listing
         /\ listingShown' \in BOOLEAN /\ openedLate' \in BOOLEAN
<1>1. Ours' = {} /\ gate' = {} /\ spinning' = {}
  BY DEF ResetActions, Ours, IsOfSession
<1>2. GatesInv'
  BY <1>1 DEF GatesInv, Alone, GateHasAction, ActionHasGate, SpinnerHasAction
<1>3. \A l \in listing' : l \in Listing /\ l.newest = FALSE
  BY DEF ResetActions, ActionsInv, ActionsTyped, Listing
<1>4. ListingInv'
  BY <1>3 DEF ResetActions, ListingInv
<1> QED BY <1>2, <1>3, <1>4 DEF ResetActions

LEMMA StartSessionInv == ActionsInv /\ StartSession => ActionsInv'
<1> SUFFICES ASSUME ActionsInv, StartSession PROVE ActionsInv'
  OBVIOUS
<1>1. session' = sessions + 1 /\ sessions' = sessions + 1 /\ ResetActions
      /\ UNCHANGED <<taps, actions, alerts>> /\ sessions \in Nat
  BY DEF StartSession, ActionsInv, ActionsTyped
<1>2. session' \notin {a.session : a \in actions}
  BY <1>1 DEF ActionsInv, ActionsTyped, ActionRecord
<1>3. (GatesInv /\ ListingInv)' /\ listing' \subseteq Listing
      /\ listingShown' \in BOOLEAN /\ openedLate' \in BOOLEAN
  BY <1>1, <1>2, ResetQuiet
<1>4. /\ \A a \in actions : a.session <= sessions + 1
      /\ \A q \in alerts : q.session <= sessions + 1
  BY <1>1 DEF ActionsInv, ActionsTyped, ActionRecord, Alert
<1> QED BY <1>1, <1>3, <1>4 DEF ActionsInv, ActionsTyped

LEMMA EndSessionInv == ActionsInv /\ EndSession => ActionsInv'
<1> SUFFICES ASSUME ActionsInv, EndSession PROVE ActionsInv'
  OBVIOUS
<1>1. session' = 0 /\ ResetActions /\ UNCHANGED <<sessions, taps, actions, alerts>>
  BY DEF EndSession
<1>2. session' \notin {a.session : a \in actions}
  BY <1>1 DEF ActionsInv, ActionsTyped, ActionRecord
<1>3. (GatesInv /\ ListingInv)' /\ listing' \subseteq Listing
      /\ listingShown' \in BOOLEAN /\ openedLate' \in BOOLEAN
  BY <1>1, <1>2, ResetQuiet
<1> QED BY <1>1, <1>3 DEF ActionsInv, ActionsTyped

LEMMA BeginInv ==
  ASSUME ActionsInv, ActionsAssumption, NEW k \in Keys, Begin(k)
  PROVE  ActionsInv'
<1> DEFINE a == Action(k, taps + 1)
<1>1. /\ session # 0 /\ taps \in Nat /\ taps' = taps + 1 /\ k # "mail" /\ k \notin spinning
      /\ Enter(a) /\ k \notin gate
      /\ UNCHANGED <<session, sessions, alerts, listing, listingShown, openedLate>>
  BY DEF Begin, Tap, Enter, IsOpen, Action, ActionsInv, ActionsTyped
<1>2. a \in ActionRecord /\ IsOfSession(a) /\ a.key = k /\ a.session <= sessions
  BY <1>1 DEF Action, ActionRecord, IsOfSession, ActionsInv, ActionsTyped
<1>3. \A b \in Ours : b.key # k
  <2>1. CASE k = "translation"
    BY <1>1, <2>1 DEF ActionsInv, GatesInv, SpinnerHasAction, SpinnerKinds
  <2>2. CASE k # "translation"
    BY <1>1, <2>2 DEF ActionsInv, GatesInv, ActionHasGate, Fenced
  <2> QED BY <2>1, <2>2
<1>4. GatesInv'
  BY <1>1, <1>2, <1>3, EnterAlone
<1>5. ListingInv'
  BY <1>1, ListingStays DEF ActionsInv
<1>6. actions' = actions \cup {a}
  BY <1>1 DEF Enter
<1>7. ActionsTyped'
  BY <1>1, <1>2, <1>6 DEF ActionsInv, ActionsTyped
<1> QED BY <1>4, <1>5, <1>7 DEF ActionsInv

LEMMA SendMailInv ==
  ASSUME ActionsInv, ActionsAssumption, NEW q \in alerts, SendMail(q)
  PROVE  ActionsInv'
<1> DEFINE a == Action("mail", q.id)
<1>1. /\ alerts' = alerts \ {q}
      /\ UNCHANGED <<session, sessions, taps, listing, listingShown, openedLate>>
  BY DEF SendMail
<1>2. ListingInv'
  BY <1>1, ListingStays DEF ActionsInv
<1>3. CASE IsOpen("mail") /\ IsOfSession(q)
  <2>1. Enter(a) /\ "mail" \notin gate
    BY <1>3 DEF SendMail, IsOpen
  <2>2. /\ a \in ActionRecord /\ IsOfSession(a) /\ a.key = "mail" /\ a.session <= sessions
    BY <1>3 DEF Action, ActionRecord, Alert, IsOfSession, ActionsInv, ActionsTyped, Keys
  <2>3. actions' = actions \cup {a}
    BY <2>1 DEF Enter
  <2>4. ActionsTyped'
    BY <1>1, <2>2, <2>3 DEF ActionsInv, ActionsTyped
  <2>5. GatesInv'
    <3>1. CASE openedLate
      BY <1>1, <2>1, <2>2, <3>1, EnterLate
    <3>2. CASE ~openedLate
      <4>1. \A b \in Ours : b.key # "mail"
        BY <2>1, <3>2 DEF ActionsInv, GatesInv, ActionHasGate, Fenced
      <4> QED BY <1>1, <2>1, <2>2, <4>1, EnterAlone
    <3> QED BY <3>1, <3>2
  <2> QED BY <1>2, <2>4, <2>5 DEF ActionsInv
<1>4. CASE ~(IsOpen("mail") /\ IsOfSession(q))
  <2>1. UNCHANGED <<gate, spinning, actions>>
    BY <1>4 DEF SendMail
  <2>2. GatesInv'
    BY <1>1, <2>1, ActionsStay DEF ActionsInv
  <2>3. ActionsTyped'
    BY <1>1, <2>1 DEF ActionsInv, ActionsTyped
  <2> QED BY <1>2, <2>2, <2>3 DEF ActionsInv
<1> QED BY <1>3, <1>4

\* An action ends, whatever session it belongs to.
LEMMA EndInv ==
  ASSUME ActionsInv, ActionsAssumption, NEW a \in actions, End(a),
         UNCHANGED <<session, sessions, taps, alerts, listing, listingShown>>
  PROVE  ActionsInv'
<1>1. ListingInv'
  BY ListingStays DEF ActionsInv
<1>2. actions' = actions \ {a}
  BY DEF End
<1>3. GatesInv' /\ openedLate' \in BOOLEAN
  <2>1. CASE IsOfSession(a)
    <3>1. a \in Ours /\ openedLate' = openedLate
      BY <2>1 DEF Ours, End, ActionsInv, ActionsTyped
    <3> QED BY <3>1, EndOurs DEF ActionsInv, ActionsTyped
  <2>2. CASE ~IsOfSession(a)
    BY <2>2, EndFormer
  <2> QED BY <2>1, <2>2
<1>4. ActionsTyped'
  BY <1>2, <1>3 DEF ActionsInv, ActionsTyped
<1> QED BY <1>1, <1>3, <1>4 DEF ActionsInv

\* Between its two requests an action keeps its key, its session and its gate.
LEMMA ReloadInv ==
  ASSUME ActionsInv, NEW a \in actions, IsOfSession(a),
         actions' = (actions \ {a}) \cup {[a EXCEPT !.stage = "reloading"]},
         UNCHANGED <<session, sessions, taps, alerts, listing, listingShown,
                     gate, spinning, openedLate>>
  PROVE  ActionsInv'
<1> DEFINE b == [a EXCEPT !.stage = "reloading"]
<1>1. b \in ActionRecord /\ b.key = a.key /\ b.session = a.session /\ a \in Ours
  BY DEF ActionsInv, ActionsTyped, ActionRecord, Ours
<1>2. Ours' = (Ours \ {a}) \cup {b}
  BY <1>1 DEF Ours, IsOfSession
<1> HIDE DEF b
<1>3. ActionsTyped'
  BY <1>1 DEF ActionsInv, ActionsTyped, b
<1>4. ListingInv'
  BY ListingStays DEF ActionsInv
<1>5. Alone'
  BY <1>1, <1>2 DEF ActionsInv, GatesInv, Alone
<1>6. \A k : (\E c \in Ours' : c.key = k) <=> (\E c \in Ours : c.key = k)
  BY <1>1, <1>2
<1>7. GateHasAction' /\ ActionHasGate' /\ SpinnerHasAction'
  BY <1>1, <1>2, <1>6
     DEF ActionsInv, GatesInv, GateHasAction, ActionHasGate, SpinnerHasAction, Fenced
<1> QED BY <1>3, <1>4, <1>5, <1>7 DEF ActionsInv, GatesInv

LEMMA OpenRoomComposerInv == ActionsInv /\ OpenRoomComposer => ActionsInv'
<1> SUFFICES ASSUME ActionsInv, OpenRoomComposer PROVE ActionsInv'
  OBVIOUS
<1> DEFINE n == [id |-> taps + 1, newest |-> TRUE, session |-> session]
<1>1. /\ taps \in Nat /\ taps' = taps + 1 /\ listingShown' = TRUE
      /\ listing' = {[l EXCEPT !.newest = FALSE] : l \in listing} \cup {n}
      /\ UNCHANGED <<session, sessions, gate, spinning, actions, alerts, openedLate>>
  BY DEF OpenRoomComposer, Tap, ActionsInv, ActionsTyped
<1>2. n \in Listing /\ n.newest = TRUE /\ IsOfSession(n)
  BY <1>1 DEF Listing, IsOfSession, ActionsInv, ActionsTyped
<1>3. \A l \in listing' : l \in Listing /\ (l = n \/ l.newest = FALSE)
  BY <1>1, <1>2 DEF Listing, ActionsInv, ActionsTyped
<1> HIDE DEF n
<1>4. ListingInv'
  BY <1>1, <1>2, <1>3 DEF ListingInv, IsOfSession
<1>5. GatesInv'
  BY <1>1, ActionsStay DEF ActionsInv
<1>6. ActionsTyped'
  BY <1>1, <1>3 DEF ActionsInv, ActionsTyped
<1> QED BY <1>4, <1>5, <1>6 DEF ActionsInv

LEMMA ListingEndsInv ==
  ASSUME ActionsInv, NEW l \in listing, ListingEnds(l)
  PROVE  ActionsInv'
<1>1. /\ listing' = listing \ {l} /\ listingShown' = (listingShown /\ ~IsNewestListing(l))
      /\ UNCHANGED <<session, sessions, taps, gate, spinning, actions, alerts, openedLate>>
  BY DEF ListingEnds
<1>2. ListingInv'
  BY <1>1 DEF ActionsInv, ListingInv, IsNewestListing, IsOfSession
<1>3. GatesInv'
  BY <1>1, ActionsStay DEF ActionsInv
<1>4. ActionsTyped'
  BY <1>1 DEF ActionsInv, ActionsTyped
<1> QED BY <1>2, <1>3, <1>4 DEF ActionsInv

-----------------------------------------------------------------------------
LEMMA ActionsInitInv == ActionsInit => ActionsInv
<1> SUFFICES ASSUME ActionsInit PROVE ActionsInv
  OBVIOUS
<1>1. ActionsTyped
  <2>1. sessions \in Nat /\ session \in 0..sessions /\ taps \in Nat
    BY DEF ActionsInit
  <2>2. listingShown \in BOOLEAN /\ openedLate \in BOOLEAN
    BY DEF ActionsInit
  <2> QED BY <2>1, <2>2 DEF ActionsInit, ActionsTyped
<1>2. GatesInv
  BY DEF ActionsInit, GatesInv, Alone, GateHasAction, ActionHasGate, SpinnerHasAction, Ours
<1>3. ListingInv
  BY DEF ActionsInit, ListingInv
<1> QED BY <1>1, <1>2, <1>3 DEF ActionsInv

LEMMA ActionsNextInv == ActionsInv /\ [ActionsNext]_actionVars => ActionsInv'
<1> SUFFICES ASSUME ActionsInv, [ActionsNext]_actionVars PROVE ActionsInv'
  OBVIOUS
<1>1. CASE AskToSend
  <2>1. /\ taps' \in Nat /\ session # 0
        /\ alerts' = alerts \cup {[id |-> taps + 1, session |-> session]}
        /\ UNCHANGED <<session, sessions, gate, spinning, actions, listing, listingShown,
                       openedLate>>
    BY <1>1 DEF AskToSend, Tap, ActionsInv, ActionsTyped
  <2>2. ActionsTyped'
    BY <2>1 DEF ActionsInv, ActionsTyped, Alert
  <2> QED BY <2>1, <2>2, ActionsStay, ListingStays DEF ActionsInv
<1>2. ASSUME NEW q \in alerts, CancelMail(q) PROVE ActionsInv'
  <2>1. /\ alerts' = alerts \ {q}
        /\ UNCHANGED <<session, sessions, taps, gate, spinning, actions, listing, listingShown,
                       openedLate>>
    BY <1>2 DEF CancelMail
  <2>2. ActionsTyped'
    BY <2>1 DEF ActionsInv, ActionsTyped
  <2> QED BY <2>1, <2>2, ActionsStay, ListingStays DEF ActionsInv
<1>3. ASSUME NEW a \in actions, Answered(a) PROVE ActionsInv'
  <2>1. CASE IsOfSession(a) /\ a.key # "translation"
    BY <1>3, <2>1, ReloadInv DEF Answered
  <2>2. CASE ~(IsOfSession(a) /\ a.key # "translation")
    BY <1>3, <2>2, EndInv, ActionsAssumption DEF Answered
  <2> QED BY <2>1, <2>2
<1>4. ASSUME NEW a \in actions, Over(a) PROVE ActionsInv'
  BY <1>4, EndInv, ActionsAssumption DEF Over
<1>5. CASE UNCHANGED actionVars
  <2>1. ActionsTyped'
    BY <1>5 DEF actionVars, ActionsInv, ActionsTyped
  <2> QED BY <1>5, <2>1, ActionsStay, ListingStays DEF actionVars, ActionsInv
<1> QED BY <1>1, <1>2, <1>3, <1>4, <1>5, StartSessionInv, EndSessionInv, BeginInv, SendMailInv,
           OpenRoomComposerInv, ListingEndsInv, ActionsAssumption DEF ActionsNext

THEOREM ActionsInvariance == ActionsSpec => []ActionsInv
BY ActionsInitInv, ActionsNextInv, PTL DEF ActionsSpec

-----------------------------------------------------------------------------
LEMMA OursOnTheWay == \A k : OnTheWay(k) = {a \in Ours : a.key = k}
BY DEF OnTheWay, Ours

\* The gate of a room, a schedule or a conversation is closed exactly while an
\* action of the current session is behind it; that of the mail and of the
\* translation never stays closed.
THEOREM GatesHold == ActionsSpec => []GateIsHeld
<1>1. ActionsInv => GateIsHeld
  BY OursOnTheWay
     DEF ActionsInv, GatesInv, GateHasAction, ActionHasGate, Fenced, GateIsHeld
<1> QED BY <1>1, ActionsInvariance, PTL

\* No finally block of a former session, and no overtaken list of people, ends
\* the spinner of what is on its way in this one.
THEOREM SpinnersAreTrue == ActionsSpec => []SpinnerIsTrue
<1>1. ActionsInv => SpinnerIsTrue
  BY OursOnTheWay
     DEF ActionsInv, GatesInv, SpinnerHasAction, SpinnerKinds, ListingInv, SpinnerIsTrue
<1> QED BY <1>1, ActionsInvariance, PTL

\* Nothing is started twice in one session - save the mail whose gate a mail of a
\* former session has opened.
THEOREM ActionsAreAlone == ActionsSpec => []OneAtATime
<1>1. ASSUME ActionsInv PROVE OneAtATime
  <2> SUFFICES ASSUME NEW k \in Keys, ~(k = "mail" /\ openedLate)
               PROVE  Cardinality(OnTheWay(k)) <= 1
    BY DEF OneAtATime
  <2>1. CASE OnTheWay(k) = {}
    BY <2>1, FS_EmptySet
  <2>2. CASE OnTheWay(k) # {}
    <3>1. PICK a \in OnTheWay(k) : OnTheWay(k) = {a}
      BY <1>1, <2>2, OursOnTheWay DEF ActionsInv, GatesInv, Alone
    <3>2. Cardinality({a}) = 1
      BY FS_Singleton
    <3> QED BY <3>1, <3>2
  <2> QED BY <2>1, <2>2
<1> QED BY <1>1, ActionsInvariance, PTL

-----------------------------------------------------------------------------
(***************************************************************************)
(* The personal AI of the mobile app, for any number of providers,         *)
(* sessions and steps: the gate, and what the form may say of the          *)
(* configuration that the server has, whatever requests it still works on  *)
(* that the app has given up.                                              *)
(***************************************************************************)

AiConfig == [provider : Providers \cup {NoProvider}, default : BOOLEAN, ready : BOOLEAN]
AiRow == [provider : Providers \cup {NoProvider}, key : BOOLEAN, ready : BOOLEAN]
AiRequestShape ==
  [id : Nat \ {0}, what : {"load", "save", "models", "test", "chat"}, session : Nat \ {0},
   provider : Providers \cup {NoProvider}, key : BOOLEAN,
   stage : {"sent", "read", "written", "handled"}, lost : BOOLEAN, saw : AiRow, got : AiConfig]
AiForm == [provider : Providers \cup {NoProvider}, modelsOf : Providers \cup {NoProvider},
           model : BOOLEAN, default : BOOLEAN, draft : BOOLEAN, offered : BOOLEAN]

AiTyped ==
  /\ aiSessions \in Nat /\ aiSession \in 0..aiSessions /\ steps \in Nat
  /\ ticket \in Nat /\ aiBusy \in BOOLEAN
  /\ aiRequests \subseteq AiRequestShape
  /\ form \in AiForm /\ stored \in AiRow /\ fallback \in Providers \cup {NoProvider}
  /\ ready \in BOOLEAN /\ dirty \in BOOLEAN /\ overrun \in BOOLEAN /\ swapped \in BOOLEAN
  /\ foreign \in BOOLEAN

\* A ticket is handed out once, to a session that has begun.
TicketsAreFresh ==
  /\ \A r \in aiRequests : r.id <= steps /\ r.session <= aiSessions
  /\ \A r, q \in aiRequests : r.id = q.id => r = q

\* Who has the ticket is all that the app waits for.
TicketIsHeld ==
  /\ aiBusy <=> ticket # 0
  /\ ticket # 0 => \E r \in aiRequests : Awaited(r) /\ r.id = ticket
  /\ \A r \in aiRequests : Awaited(r) => r.id = ticket

\* What the form says while the app waits: it may wait for models or an answer of
\* the AI, or it has taken "ready" back; only a load is not of its provider.
Fits(r) ==
  /\ r.what \notin {"models", "chat"} => ~ready
  /\ r.what # "load" => r.provider = form.provider /\ r.provider # NoProvider
  /\ r.what = "load" /\ dirty => overrun
  /\ r.what = "test" => ~dirty /\ form.model
  /\ r.what = "chat" => ready

\* What the server has found is what it has, save a test of the default that failed.
Served(r) ==
  /\ r.stage = "read" /\ r.what = "test"
       => r.got = Effective /\ r.got.provider # NoProvider
  /\ r.stage = "read" /\ r.what = "save" => r.saw = stored
  /\ r.stage = "handled" /\ r.what # "test" => r.got = Effective
  /\ r.stage = "handled" /\ r.what = "test"
       => r.got.provider = Effective.provider /\ (r.got.ready => Effective.ready)

RequestFits == \A r \in aiRequests : Awaited(r) => Fits(r) /\ (~foreign => Served(r))

\* The form is of the provider that is in force while it says so, and while what
\* it says of a model is not an edit.
ProviderFits ==
  ~foreign =>
    /\ ready => Effective.ready /\ form.provider = Effective.provider
    /\ ~dirty /\ form.model => form.provider = Effective.provider

FormFits ==
  /\ aiSession = 0 => form = EmptyForm /\ ~dirty /\ ~ready
  /\ ready /\ dirty => overrun

FormInv == ProviderFits /\ FormFits /\ ModelsAreOfProvider /\ UnsavedIsKept
GateInv == AiTyped /\ TicketsAreFresh /\ TicketIsHeld
AiInv == GateInv /\ RequestFits /\ FormInv

NoneAwaited == \A r \in aiRequests : ~Awaited(r)

-----------------------------------------------------------------------------
(* The configuration that is in force. *)

LEMMA EffectiveFacts ==
  ASSUME stored \in AiRow, fallback \in Providers \cup {NoProvider}
  PROVE  /\ Effective \in AiConfig
         /\ Effective.default => Effective.provider # NoProvider /\ Effective.ready
<1>1. CASE Usable(stored)
  <2>1. stored.provider \in Providers /\ stored.ready \in BOOLEAN
    BY <1>1 DEF Usable, AiRow
  <2> QED BY <1>1, <2>1 DEF Effective, AiConfig
<1>2. CASE ~Usable(stored)
  BY <1>2 DEF Effective, AiConfig
<1> QED BY <1>1, <1>2

\* A save that finds the row as it is now leaves a provider in force that it names.
LEMMA SaveKeepsProvider ==
  ASSUME stored \in AiRow, NEW r \in AiRequestShape, NEW same \in BOOLEAN,
         r.saw = stored, r.provider # NoProvider, Effective.provider = r.provider,
         stored' = Saved(r, same), UNCHANGED fallback
  PROVE  Effective'.provider = r.provider
<1>1. stored'.provider = r.provider /\ r.provider \in Providers
  BY DEF Saved, AiRequestShape
<1>2. CASE Usable(stored)
  <2>1. stored.provider = r.provider
    BY <1>2 DEF Effective
  <2>2. stored.key => stored'.key
    BY <2>1 DEF Saved
  <2>3. Usable(stored)'
    BY <1>1, <1>2, <2>1, <2>2 DEF Usable
  <2> QED BY <1>1, <2>3 DEF Effective
<1>3. CASE ~Usable(stored)
  <2>1. fallback = r.provider
    BY <1>3 DEF Effective
  <2> QED BY <1>1, <2>1 DEF Effective
<1> QED BY <1>2, <1>3

\* The result of a test changes neither the provider nor where it comes from.
LEMMA TestKeepsProvider ==
  ASSUME stored \in AiRow, NEW works \in BOOLEAN,
         stored' = [stored EXCEPT !.ready = works], UNCHANGED fallback
  PROVE  /\ Effective'.provider = Effective.provider
         /\ ~Effective.default /\ Effective.provider # NoProvider
              => Effective'.ready = works
<1>1. /\ stored'.provider = stored.provider /\ stored'.key = stored.key
      /\ stored'.ready = works
  BY DEF AiRow
<1>2. Usable(stored)' = Usable(stored)
  BY <1>1 DEF Usable
<1>3. CASE Usable(stored)
  BY <1>1, <1>2, <1>3 DEF Effective
<1>4. CASE ~Usable(stored)
  BY <1>1, <1>2, <1>4 DEF Effective
<1> QED BY <1>3, <1>4

LEMMA SameEffective ==
  UNCHANGED aiServer => UNCHANGED <<stored, fallback>> /\ Effective' = Effective
BY DEF aiServer, Effective, Usable

-----------------------------------------------------------------------------
(* The gate. *)

\* No ticket is out: the app waits for nothing.
LEMMA FreeIsNobody ==
  GateInv => (ticket = 0 <=> NoneAwaited) /\ (~aiBusy <=> NoneAwaited)
BY DEF GateInv, AiTyped, TicketIsHeld, AiRequestShape, NoneAwaited

\* Who begins has a ticket that nobody had, and is all that the app waits for.
LEMMA BeginKeeps ==
  ASSUME GateInv, NEW what \in {"load", "save", "models", "test", "chat"},
         BeginAi(what, aiSession'), steps' = steps + 1, aiSession' \in Nat \ {0},
         aiSessions' \in Nat, aiSession' <= aiSessions', aiSessions <= aiSessions',
         \A r \in aiRequests : ~Awaited(r)'
  PROVE  /\ (TicketsAreFresh /\ TicketIsHeld)'
         /\ aiRequests' \subseteq AiRequestShape /\ ticket' \in Nat /\ aiBusy' \in BOOLEAN
         /\ \A r \in aiRequests' : Awaited(r)' => r = AiRequest(what, aiSession')
<1>0. PICK n : n = AiRequest(what, aiSession')
  OBVIOUS
<1>1. /\ aiRequests' = aiRequests \cup {n} /\ ticket' = steps + 1 /\ aiBusy' = TRUE
      /\ steps \in Nat /\ aiSessions \in Nat /\ aiRequests \subseteq AiRequestShape
  BY <1>0 DEF BeginAi, GateInv, AiTyped
<1>2. n \in AiRequestShape /\ n.id = steps + 1 /\ n.session = aiSession' /\ Awaited(n)'
  <2>1. form.provider \in Providers \cup {NoProvider} /\ form.draft \in BOOLEAN
    BY DEF GateInv, AiTyped, AiForm
  <2>2. steps + 1 \in Nat \ {0} /\ NoRow \in AiRow /\ NoConfig \in AiConfig
    BY <1>1 DEF AiRow, NoRow, NoConfig, AiConfig
  <2>3. n \in AiRequestShape
    BY <1>0, <2>1, <2>2 DEF AiRequest, AiRequestShape
  <2> QED BY <1>0, <2>3 DEF AiRequest, Awaited, IsOurs
<1>3. \A r \in aiRequests : r.id <= steps /\ r.session <= aiSessions
                         /\ r.id \in Nat /\ r.session \in Nat
  BY <1>1 DEF GateInv, TicketsAreFresh, AiRequestShape
<1>4. \A r \in aiRequests : r.id # n.id
  BY <1>1, <1>2, <1>3
<1>5. TicketsAreFresh'
  <2>1. \A r \in aiRequests' : r.id <= steps + 1 /\ r.session <= aiSessions'
    BY <1>1, <1>2, <1>3
  <2>2. \A r, q \in aiRequests' : r.id = q.id => r = q
    BY <1>1, <1>4 DEF GateInv, TicketsAreFresh
  <2> QED BY <2>1, <2>2 DEF TicketsAreFresh
<1>7. \A r \in aiRequests' : Awaited(r)' => r = n
  BY <1>1
<1>6. TicketIsHeld'
  <2>1. ticket' # 0 /\ aiBusy' = TRUE
    BY <1>1
  <2>2. \E r \in aiRequests' : Awaited(r)' /\ r.id = ticket'
    BY <1>1, <1>2
  <2>3. \A r \in aiRequests' : Awaited(r)' => r.id = ticket'
    BY <1>1, <1>2, <1>7
  <2> QED BY <2>1, <2>2, <2>3, Zenon DEF TicketIsHeld
<1> QED BY <1>0, <1>1, <1>2, <1>5, <1>6, <1>7

\* The server goes on with a request: it keeps its number, and the app waits for it
\* as it did before.
LEMMA ServerKeepsGate ==
  ASSUME GateInv, NEW r \in aiRequests, NEW n \in AiRequestShape,
         n.id = r.id, n.session = r.session, Awaited(n) <=> Awaited(r),
         aiRequests' \subseteq (aiRequests \ {r}) \cup {n},
         Awaited(r) => n \in aiRequests', aiRequests \ {r} \subseteq aiRequests',
         UNCHANGED <<aiSession, aiSessions, steps, ticket, aiBusy>>
  PROVE  /\ (TicketsAreFresh /\ TicketIsHeld)'
         /\ aiRequests' \subseteq AiRequestShape
<1>1. \A q : Awaited(q)' <=> Awaited(q)
  BY DEF Awaited, IsOurs
<1>2. TicketsAreFresh'
  BY DEF GateInv, TicketsAreFresh
<1>3. \A q \in aiRequests' : Awaited(q)' => q.id = ticket'
  BY <1>1 DEF GateInv, TicketIsHeld
<1>4. ASSUME ticket' # 0 PROVE \E q \in aiRequests' : Awaited(q)' /\ q.id = ticket'
  <2>1. PICK q \in aiRequests : Awaited(q) /\ q.id = ticket
    BY <1>4 DEF GateInv, TicketIsHeld
  <2>2. CASE q = r
    BY <1>1, <2>1, <2>2
  <2>3. CASE q # r
    BY <1>1, <2>1, <2>3
  <2> QED BY <2>2, <2>3
<1>5. TicketIsHeld'
  BY <1>3, <1>4 DEF GateInv, TicketIsHeld
<1> QED BY <1>2, <1>5 DEF GateInv, AiTyped

\* The finally block gives back its own ticket only; the server may go on with what
\* the app has given up.
LEMMA LeaveKeeps ==
  ASSUME GateInv, NEW r \in aiRequests, LeaveGate(r), IsOurs(r) => Awaited(r),
         NEW n \in AiRequestShape, n.id = r.id, n.session = r.session, ~Awaited(n),
         aiRequests' \subseteq (aiRequests \ {r}) \cup {n},
         aiRequests \ {r} \subseteq aiRequests',
         UNCHANGED <<aiSession, aiSessions, steps>>
  PROVE  /\ (TicketsAreFresh /\ TicketIsHeld)'
         /\ aiRequests' \subseteq AiRequestShape /\ ticket' \in Nat /\ aiBusy' \in BOOLEAN
         /\ \A q \in aiRequests' : Awaited(q)' => q \in aiRequests /\ Awaited(q)
         /\ IsOurs(r) => NoneAwaited'
<1>0. \A q : Awaited(q)' <=> Awaited(q)
  BY DEF Awaited, IsOurs
<1>1. /\ aiRequests' \subseteq AiRequestShape
      /\ \A q \in aiRequests' : Awaited(q)' => q \in aiRequests /\ q # r /\ Awaited(q)
  <2>1. n.id \in Nat
    BY DEF AiRequestShape
  <2>2. \A q \in aiRequests' : Awaited(q)' => q \in aiRequests /\ q # r /\ Awaited(q)
    BY <1>0
  <2> QED BY <2>2 DEF GateInv, AiTyped
<1>2. TicketsAreFresh'
  BY DEF GateInv, TicketsAreFresh
<1>3. CASE IsOurs(r)
  <2>1. r.id = ticket /\ ticket # 0 /\ r.id \in Nat
    BY <1>3 DEF GateInv, TicketIsHeld, AiTyped, AiRequestShape
  <2>2. ticket' = 0 /\ aiBusy' = FALSE
    BY <1>3, <2>1 DEF LeaveGate
  <2>3. NoneAwaited'
    BY <1>1, <2>1 DEF GateInv, TicketIsHeld, TicketsAreFresh, NoneAwaited
  <2>4. TicketIsHeld'
    BY <2>2, <2>3 DEF TicketIsHeld, NoneAwaited
  <2> QED BY <1>1, <1>2, <2>2, <2>3, <2>4
<1>4. CASE ~IsOurs(r)
  <2>1. ticket' = ticket /\ aiBusy' = aiBusy
    BY <1>4 DEF LeaveGate, GateInv, AiTyped
  <2>2. \A q \in aiRequests' : Awaited(q)' => q.id = ticket'
    BY <1>1, <2>1 DEF GateInv, TicketIsHeld
  <2>3. ASSUME ticket' # 0 PROVE \E q \in aiRequests' : Awaited(q)' /\ q.id = ticket'
    <3>1. PICK q \in aiRequests : Awaited(q) /\ q.id = ticket
      BY <2>1, <2>3 DEF GateInv, TicketIsHeld
    <3>2. q # r
      BY <1>4, <3>1 DEF Awaited
    <3> QED BY <1>0, <2>1, <3>1, <3>2
  <2>4. TicketIsHeld'
    BY <2>1, <2>2, <2>3 DEF GateInv, TicketIsHeld
  <2> QED BY <1>1, <1>2, <1>4, <2>1, <2>4 DEF GateInv, AiTyped
<1> QED BY <1>3, <1>4

-----------------------------------------------------------------------------
(* What the user does. *)

LEMMA AiSignInInv == AiInv /\ AiSignIn => AiInv'
<1> SUFFICES ASSUME AiInv, AiSignIn PROVE AiInv'
  OBVIOUS
<1>1. /\ aiSession = 0 /\ aiSession' = aiSessions + 1 /\ aiSessions' = aiSessions + 1
      /\ steps' = steps + 1 /\ BeginAi("load", aiSession')
      /\ ready' = FALSE /\ dirty' = FALSE /\ foreign' = FALSE
      /\ UNCHANGED <<form, stored, fallback, chosen, overrun, swapped>>
  BY DEF AiSignIn, AiStep, aiServer, aiHistory
<1>2. aiSessions \in Nat /\ steps \in Nat /\ aiRequests \subseteq AiRequestShape
  BY DEF AiInv, GateInv, AiTyped
<1>3. \A r \in aiRequests : ~Awaited(r)'
  <2>1. \A r \in aiRequests : r.session # aiSession'
    BY <1>1, <1>2 DEF AiInv, GateInv, TicketsAreFresh, AiRequestShape
  <2> QED BY <2>1 DEF Awaited, IsOurs
<1>4. /\ (TicketsAreFresh /\ TicketIsHeld)'
      /\ aiRequests' \subseteq AiRequestShape /\ ticket' \in Nat /\ aiBusy' \in BOOLEAN
      /\ \A r \in aiRequests' : Awaited(r)' => r = AiRequest("load", aiSession')
  <2>1. /\ aiSession' \in Nat \ {0} /\ aiSessions' \in Nat
        /\ aiSession' <= aiSessions' /\ aiSessions <= aiSessions'
    BY <1>1, <1>2
  <2> QED BY <1>1, <1>3, <2>1, BeginKeeps DEF AiInv
<1>5. GateInv'
  <2>1. aiSessions' \in Nat /\ aiSession' \in 0..aiSessions' /\ steps' \in Nat
    BY <1>1, <1>2
  <2> QED BY <1>1, <1>4, <2>1 DEF AiInv, GateInv, AiTyped
<1>6. form = EmptyForm
  BY <1>1 DEF AiInv, FormInv, FormFits
<1>7. RequestFits'
  BY <1>1, <1>4 DEF RequestFits, Fits, Served, AiRequest
<1>8. FormInv'
  <2>1. ~EmptyForm.model /\ EmptyForm.modelsOf = NoProvider /\ aiSession' # 0
    BY <1>1, <1>2 DEF EmptyForm
  <2> QED BY <1>1, <1>6, <2>1
          DEF FormInv, ProviderFits, FormFits, ModelsAreOfProvider, UnsavedIsKept
<1> QED BY <1>5, <1>7, <1>8 DEF AiInv

LEMMA AiSignOutInv == AiInv /\ AiSignOut => AiInv'
<1> SUFFICES ASSUME AiInv, AiSignOut PROVE AiInv'
  OBVIOUS
<1>1. /\ aiSession' = 0 /\ ticket' = 0 /\ aiBusy' = FALSE
      /\ form' = EmptyForm /\ ready' = FALSE /\ dirty' = FALSE
      /\ overrun' = FALSE /\ swapped' = FALSE
      /\ UNCHANGED <<aiSessions, steps, aiRequests, stored, fallback, foreign>>
  BY DEF AiSignOut, NothingUnsaved, aiServer
<1>2. \A r \in aiRequests : ~Awaited(r)'
  BY <1>1 DEF AiInv, GateInv, AiTyped, AiRequestShape, Awaited, IsOurs
<1>3. AiTyped'
  <2>1. aiSession' \in 0..aiSessions' /\ ticket' \in Nat
    BY <1>1 DEF AiInv, GateInv, AiTyped
  <2>2. form' \in AiForm
    BY <1>1, AiAssumption DEF EmptyForm, AiForm, AiAssumption
  <2> QED BY <1>1, <2>1, <2>2 DEF AiInv, GateInv, AiTyped
<1>4. TicketsAreFresh' /\ TicketIsHeld'
  BY <1>1, <1>2 DEF AiInv, GateInv, TicketsAreFresh, TicketIsHeld
<1>5. RequestFits'
  BY <1>1, <1>2 DEF RequestFits
<1>6. FormInv'
  <2>1. ~EmptyForm.model /\ EmptyForm.modelsOf = NoProvider
    BY DEF EmptyForm
  <2> QED BY <1>1, <2>1
          DEF FormInv, ProviderFits, FormFits, ModelsAreOfProvider, UnsavedIsKept
<1> QED BY <1>3, <1>4, <1>5, <1>6 DEF AiInv, GateInv

LEMMA LoadAiInv == ASSUME AiInv, NEW resumed \in BOOLEAN, LoadAi(resumed) PROVE AiInv'
<1>1. /\ aiSession # 0 /\ steps' = steps + 1 /\ BeginAi("load", aiSession')
      /\ ready' = FALSE /\ overrun' = (overrun \/ dirty) /\ ticket = 0
      /\ UNCHANGED <<aiSession, aiSessions, form, dirty, aiServer, stored, fallback>>
      /\ UNCHANGED <<chosen, swapped, foreign>>
  BY DEF LoadAi, AiStep, BeginAi, IsFree, aiServer
<1>2. /\ aiSessions \in Nat /\ aiSession \in 0..aiSessions /\ steps \in Nat
      /\ overrun \in BOOLEAN /\ dirty \in BOOLEAN
  BY DEF AiInv, GateInv, AiTyped
<1>3. \A r \in aiRequests : ~Awaited(r)'
  BY <1>1, FreeIsNobody DEF AiInv, NoneAwaited, Awaited, IsOurs
<1>4. /\ (TicketsAreFresh /\ TicketIsHeld)'
      /\ aiRequests' \subseteq AiRequestShape /\ ticket' \in Nat /\ aiBusy' \in BOOLEAN
      /\ \A r \in aiRequests' : Awaited(r)' => r = AiRequest("load", aiSession')
  <2>1. /\ aiSession' \in Nat \ {0} /\ aiSessions' \in Nat
        /\ aiSession' <= aiSessions' /\ aiSessions <= aiSessions'
    BY <1>1, <1>2
  <2> QED BY <1>1, <1>3, <2>1, BeginKeeps DEF AiInv
<1>5. GateInv'
  <2>1. steps' \in Nat /\ overrun' \in BOOLEAN
    BY <1>1, <1>2
  <2> QED BY <1>1, <1>4, <2>1 DEF AiInv, GateInv, AiTyped
<1>6. RequestFits'
  BY <1>1, <1>2, <1>4 DEF RequestFits, Fits, Served, AiRequest
<1>7. FormInv'
  <2>1. Effective' = Effective
    BY <1>1, SameEffective
  <2> QED BY <1>1, <1>2, <2>1
          DEF AiInv, FormInv, ProviderFits, FormFits, ModelsAreOfProvider, UnsavedIsKept
<1> QED BY <1>5, <1>6, <1>7 DEF AiInv

LEMMA EditAiInv == AiInv /\ EditAi => AiInv'
<1> SUFFICES ASSUME AiInv, EditAi PROVE AiInv'
  OBVIOUS
<1>1. /\ aiSession # 0 /\ ~aiBusy /\ steps' = steps + 1
      /\ dirty' = TRUE /\ ready' = FALSE /\ overrun' = FALSE
      /\ UNCHANGED <<aiSession, aiSessions, ticket, aiBusy, aiRequests, stored, fallback>>
      /\ UNCHANGED foreign
  BY DEF EditAi, MayEdit, AiStep, aiServer
<1>2. NoneAwaited
  BY <1>1, FreeIsNobody DEF AiInv
<1>3. form \in AiForm /\ swapped \in BOOLEAN
  BY DEF AiInv, GateInv, AiTyped
<1>4. /\ form' \in AiForm /\ swapped' \in BOOLEAN /\ chosen' = form'.provider
      /\ \/ form'.modelsOf = NoProvider
         \/ /\ form'.provider = form.provider /\ form'.modelsOf = form.modelsOf
            /\ swapped' = swapped
  <2>1. ASSUME NEW p \in Providers, ChooseProvider(p)
        PROVE  /\ form' \in AiForm /\ swapped' \in BOOLEAN /\ chosen' = form'.provider
               /\ form'.modelsOf = NoProvider
    BY <2>1 DEF ChooseProvider, EmptyForm, AiForm
  <2>2. CASE ChooseModel
    BY <1>3, <2>2 DEF ChooseModel, AiForm
  <2>3. ASSUME NEW draft \in BOOLEAN, TypeKey(draft)
        PROVE  /\ form' \in AiForm /\ swapped' \in BOOLEAN /\ chosen' = form'.provider
               /\ form'.provider = form.provider /\ form'.modelsOf = form.modelsOf
               /\ swapped' = swapped
    BY <1>3, <2>3 DEF TypeKey, AiForm
  <2> QED BY <2>1, <2>2, <2>3 DEF EditAi
<1>5. AiTyped'
  <2>1. steps' \in Nat
    BY <1>1 DEF AiInv, GateInv, AiTyped
  <2> QED BY <1>1, <1>4, <2>1 DEF AiInv, GateInv, AiTyped
<1>6. TicketsAreFresh' /\ TicketIsHeld'
  <2>1. \A r \in aiRequests : r.id <= steps'
    BY <1>1 DEF AiInv, GateInv, AiTyped, TicketsAreFresh, AiRequestShape
  <2>2. TicketsAreFresh'
    BY <1>1, <2>1 DEF AiInv, GateInv, TicketsAreFresh
  <2> QED BY <1>1, <2>2 DEF AiInv, GateInv, TicketIsHeld, Awaited, IsOurs
<1>7. RequestFits'
  BY <1>1, <1>2 DEF RequestFits, NoneAwaited, Awaited, IsOurs
<1>8. FormInv'
  <2>1. ProviderFits' /\ FormFits' /\ UnsavedIsKept'
    BY <1>1, <1>4 DEF ProviderFits, FormFits, UnsavedIsKept
  <2>2. ModelsAreOfProvider'
    BY <1>1, <1>3, <1>4 DEF AiInv, FormInv, ModelsAreOfProvider
  <2> QED BY <2>1, <2>2 DEF FormInv
<1> QED BY <1>5, <1>6, <1>7, <1>8 DEF AiInv, GateInv

LEMMA UseAiInv ==
  ASSUME AiInv, NEW what \in {"save", "models", "test", "chat"}, UseAi(what)
  PROVE  AiInv'
<1>1. /\ aiSession # 0 /\ ~aiBusy /\ form.provider # NoProvider /\ steps' = steps + 1
      /\ what = "test" => ~dirty /\ form.model
      /\ what = "chat" => ready
      /\ BeginAi(what, aiSession')
      /\ form' = [form EXCEPT !.draft = @ /\ what # "save"]
      /\ ready' = (ready /\ what \in {"models", "chat"})
      /\ UNCHANGED <<aiSession, aiSessions, dirty, aiServer, stored, fallback>>
      /\ UNCHANGED <<chosen, overrun, swapped, foreign>>
  BY DEF UseAi, AiStep, aiServer, aiHistory
<1>2. /\ aiSessions \in Nat /\ aiSession \in 0..aiSessions /\ steps \in Nat
      /\ ready \in BOOLEAN /\ dirty \in BOOLEAN /\ form \in AiForm
  BY DEF AiInv, GateInv, AiTyped
<1>a. /\ form'.provider = form.provider /\ form'.modelsOf = form.modelsOf
      /\ form'.model = form.model /\ form'.default = form.default
      /\ form'.offered = form.offered
      /\ form'.draft = (form.draft /\ what # "save")
      /\ DOMAIN form' = DOMAIN form
  BY <1>1, <1>2 DEF AiForm
<1>b. form' \in AiForm
  BY <1>1, <1>2 DEF AiForm
<1>3. \A r \in aiRequests : ~Awaited(r)'
  BY <1>1, FreeIsNobody DEF AiInv, NoneAwaited, Awaited, IsOurs
<1>4. /\ (TicketsAreFresh /\ TicketIsHeld)'
      /\ aiRequests' \subseteq AiRequestShape /\ ticket' \in Nat /\ aiBusy' \in BOOLEAN
      /\ \A r \in aiRequests' : Awaited(r)' => r = AiRequest(what, aiSession')
  <2>1. /\ aiSession' \in Nat \ {0} /\ aiSessions' \in Nat
        /\ aiSession' <= aiSessions' /\ aiSessions <= aiSessions'
    BY <1>1, <1>2
  <2> QED BY <1>1, <1>3, <2>1, BeginKeeps DEF AiInv
<1>5. GateInv'
  <2>1. steps' \in Nat /\ ready' \in BOOLEAN
    BY <1>1, <1>2
  <2> QED BY <1>1, <1>4, <1>b, <2>1 DEF AiInv, GateInv, AiTyped
<1>6. RequestFits'
  <2> SUFFICES ASSUME NEW r \in aiRequests', Awaited(r)' PROVE Fits(r)' /\ Served(r)'
    BY DEF RequestFits
  <2>1. r.what = what /\ r.provider = form.provider /\ r.stage = "sent"
    BY <1>4 DEF AiRequest
  <2>2. Fits(r)'
    BY <1>1, <1>a, <2>1 DEF Fits
  <2> QED BY <2>1, <2>2 DEF Served
<1>7. FormInv'
  <2>1. Effective' = Effective /\ (ready' => ready)
    BY <1>1, SameEffective
  <2> QED BY <1>1, <1>a, <2>1
          DEF AiInv, FormInv, ProviderFits, FormFits, ModelsAreOfProvider, UnsavedIsKept
<1> QED BY <1>5, <1>6, <1>7 DEF AiInv

-----------------------------------------------------------------------------
(* What the server does, whether the app waits for it or not. *)

\* The form stays; the configuration stays, or the form is not to agree with it.
LEMMA OthersKeepForm ==
  ASSUME AiInv, UNCHANGED <<aiSession, form, ready, dirty, aiHistory>>,
         foreign' = TRUE \/ (UNCHANGED foreign /\ Effective' = Effective)
  PROVE  FormInv'
BY DEF AiInv, FormInv, ProviderFits, FormFits, ModelsAreOfProvider, UnsavedIsKept, aiHistory

\* A step for a request that the app has given up leaves the other one as it was.
LEMMA GivenUpKeepsRequests ==
  ASSUME AiInv, NEW r \in aiRequests, ~Awaited(r), NEW n, ~Awaited(n),
         aiRequests' \subseteq (aiRequests \ {r}) \cup {n},
         UNCHANGED <<aiSession, form, ready, dirty, overrun>>,
         foreign' = TRUE \/ (UNCHANGED <<foreign, stored>> /\ Effective' = Effective)
  PROVE  RequestFits'
<1> SUFFICES ASSUME NEW q \in aiRequests', Awaited(q)'
             PROVE  Fits(q)' /\ (~foreign' => Served(q)')
  BY DEF RequestFits
<1>1. q \in aiRequests /\ Awaited(q)
  BY DEF Awaited, IsOurs
<1>2. Fits(q) /\ (~foreign => Served(q))
  BY <1>1 DEF AiInv, RequestFits
<1>3. Fits(q)'
  BY <1>2 DEF Fits
<1>4. ASSUME ~foreign' PROVE Served(q)'
  <2>1. ~foreign /\ stored' = stored /\ Effective' = Effective
    BY <1>4
  <2> QED BY <1>2, <2>1 DEF Served
<1> QED BY <1>3, <1>4

\* A step for what the app waits for, which is all it waits for.
LEMMA AwaitedKeepsRequests ==
  ASSUME AiInv, NEW r \in aiRequests, Awaited(r), NEW n,
         n.what = r.what, n.provider = r.provider,
         aiRequests' \subseteq (aiRequests \ {r}) \cup {n},
         UNCHANGED <<aiSession, form, ready, dirty, overrun, foreign>>,
         ~foreign => Served(n)'
  PROVE  RequestFits'
<1> SUFFICES ASSUME NEW q \in aiRequests', Awaited(q)'
             PROVE  Fits(q)' /\ (~foreign' => Served(q)')
  BY DEF RequestFits
<1>1. q = n
  <2>1. \A p \in aiRequests : Awaited(p) => p = r
    BY DEF AiInv, GateInv, TicketIsHeld, TicketsAreFresh
  <2> QED BY <2>1 DEF Awaited, IsOurs
<1>2. Fits(r)
  BY DEF AiInv, RequestFits
<1>3. Fits(n)'
  BY <1>2 DEF Fits
<1> QED BY <1>1, <1>3

LEMMA AiReadsInv == ASSUME AiInv, NEW r \in aiRequests, AiReads(r) PROVE AiInv'
<1>0. PICK n : n = [r EXCEPT !.stage = "read", !.saw = stored, !.got = Effective]
  OBVIOUS
<1>1. /\ r.stage = "sent" /\ r.what \in {"save", "test"}
      /\ r.what = "test" => Effective.provider # NoProvider
      /\ aiRequests' = (aiRequests \ {r}) \cup {n}
      /\ UNCHANGED <<aiSession, aiSessions, steps, ticket, aiBusy, form, ready, dirty>>
      /\ UNCHANGED <<stored, fallback, chosen, overrun, swapped, foreign>>
      /\ UNCHANGED aiHistory
  BY <1>0 DEF AiReads, ServerOnly, aiHistory
<1>2. r \in AiRequestShape /\ Effective \in AiConfig /\ stored \in AiRow
  BY EffectiveFacts DEF AiInv, GateInv, AiTyped
<1>3. n \in AiRequestShape
  BY <1>0, <1>2 DEF AiRequestShape
<1>4. /\ n.id = r.id /\ n.session = r.session /\ n.what = r.what
      /\ n.provider = r.provider /\ n.stage = "read" /\ n.saw = stored /\ n.got = Effective
  BY <1>0, <1>2 DEF AiRequestShape
<1>5. Awaited(n) <=> Awaited(r)
  <2>1. n.lost = r.lost
    BY <1>0, <1>2 DEF AiRequestShape
  <2> QED BY <1>4, <2>1 DEF Awaited, IsOurs
<1>6. Effective' = Effective
  BY <1>1 DEF Effective, Usable
<1>7. GateInv'
  <2>1. (TicketsAreFresh /\ TicketIsHeld)' /\ aiRequests' \subseteq AiRequestShape
    BY <1>1, <1>3, <1>4, <1>5, ServerKeepsGate DEF AiInv
  <2> QED BY <1>1, <2>1 DEF AiInv, GateInv, AiTyped
<1>8. RequestFits'
  <2>1. CASE Awaited(r)
    <3>1. Served(n)'
      BY <1>1, <1>4, <1>6 DEF Served
    <3> QED BY <1>1, <1>4, <2>1, <3>1, AwaitedKeepsRequests
  <2>2. CASE ~Awaited(r)
    BY <1>1, <1>5, <1>6, <2>2, GivenUpKeepsRequests
  <2> QED BY <2>1, <2>2
<1>9. FormInv'
  BY <1>1, <1>6, OthersKeepForm
<1> QED BY <1>7, <1>8, <1>9 DEF AiInv

LEMMA AiRepliesInv == ASSUME AiInv, NEW r \in aiRequests, AiReplies(r) PROVE AiInv'
<1>0. PICK n : n = [r EXCEPT !.stage = "handled", !.got = Effective]
  OBVIOUS
<1>1. /\ r.what # "test"
      /\ aiRequests' = (aiRequests \ {r}) \cup {n}
      /\ UNCHANGED <<aiSession, aiSessions, steps, ticket, aiBusy, form, ready, dirty>>
      /\ UNCHANGED <<stored, fallback, chosen, overrun, swapped, foreign>>
      /\ UNCHANGED aiHistory
  BY <1>0 DEF AiReplies, ServerOnly, aiHistory
<1>2. r \in AiRequestShape /\ Effective \in AiConfig
  BY EffectiveFacts DEF AiInv, GateInv, AiTyped
<1>3. n \in AiRequestShape
  BY <1>0, <1>2 DEF AiRequestShape
<1>4. /\ n.id = r.id /\ n.session = r.session /\ n.what = r.what
      /\ n.provider = r.provider /\ n.stage = "handled" /\ n.got = Effective
  BY <1>0, <1>2 DEF AiRequestShape
<1>5. Awaited(n) <=> Awaited(r)
  <2>1. n.lost = r.lost
    BY <1>0, <1>2 DEF AiRequestShape
  <2> QED BY <1>4, <2>1 DEF Awaited, IsOurs
<1>6. Effective' = Effective
  BY <1>1 DEF Effective, Usable
<1>7. GateInv'
  <2>1. (TicketsAreFresh /\ TicketIsHeld)' /\ aiRequests' \subseteq AiRequestShape
    BY <1>1, <1>3, <1>4, <1>5, ServerKeepsGate DEF AiInv
  <2> QED BY <1>1, <2>1 DEF AiInv, GateInv, AiTyped
<1>8. RequestFits'
  <2>1. CASE Awaited(r)
    <3>1. Served(n)'
      BY <1>1, <1>4, <1>6 DEF Served
    <3> QED BY <1>1, <1>4, <2>1, <3>1, AwaitedKeepsRequests
  <2>2. CASE ~Awaited(r)
    BY <1>1, <1>5, <1>6, <2>2, GivenUpKeepsRequests
  <2> QED BY <2>1, <2>2
<1>9. FormInv'
  BY <1>1, <1>6, OthersKeepForm
<1> QED BY <1>7, <1>8, <1>9 DEF AiInv

\* A save that is awaited has found the row as it is now: the provider of a form
\* that is not edited stays in force.
LEMMA SaveWritesInv ==
  ASSUME AiInv, NEW r \in aiRequests, NEW same \in BOOLEAN, SaveWrites(r, same)
  PROVE  AiInv'
<1>0. PICK n : n = [r EXCEPT !.stage = "written"]
  OBVIOUS
<1>1. /\ r.what = "save" /\ r.stage = "read" /\ stored' = Saved(r, same)
      /\ aiRequests' = (aiRequests \ {r}) \cup (IF r.lost THEN {} ELSE {n})
      /\ foreign' = (foreign \/ ~Awaited(r))
      /\ UNCHANGED <<aiSession, aiSessions, steps, ticket, aiBusy, form, ready, dirty>>
      /\ UNCHANGED <<fallback, chosen, overrun, swapped>>
      /\ UNCHANGED aiHistory
  BY <1>0 DEF SaveWrites, Goes, ServerOnly, aiHistory
<1>2. r \in AiRequestShape /\ stored \in AiRow /\ foreign \in BOOLEAN
  BY DEF AiInv, GateInv, AiTyped
<1>3. n \in AiRequestShape
  BY <1>0, <1>2 DEF AiRequestShape
<1>4. /\ n.id = r.id /\ n.session = r.session /\ n.what = r.what
      /\ n.provider = r.provider /\ n.stage = "written"
  BY <1>0, <1>2 DEF AiRequestShape
<1>5. Awaited(n) <=> Awaited(r)
  <2>1. n.lost = r.lost
    BY <1>0, <1>2 DEF AiRequestShape
  <2> QED BY <1>4, <2>1 DEF Awaited, IsOurs
<1>a. /\ aiRequests' \subseteq (aiRequests \ {r}) \cup {n}
      /\ aiRequests \ {r} \subseteq aiRequests'
      /\ Awaited(r) => n \in aiRequests'
  BY <1>1 DEF Awaited
<1>6. stored' \in AiRow
  <2>1. r.saw \in AiRow /\ r.key \in BOOLEAN /\ r.provider \in Providers \cup {NoProvider}
    BY <1>2 DEF AiRequestShape
  <2>2. r.saw.key \in BOOLEAN /\ r.saw.ready \in BOOLEAN
    BY <2>1 DEF AiRow
  <2> QED BY <1>1, <2>1, <2>2 DEF Saved, AiRow
<1>7. GateInv'
  <2>1. (TicketsAreFresh /\ TicketIsHeld)' /\ aiRequests' \subseteq AiRequestShape
    BY <1>1, <1>3, <1>4, <1>5, <1>a, ServerKeepsGate DEF AiInv
  <2>2. foreign' \in BOOLEAN
    BY <1>1, <1>2
  <2> QED BY <1>1, <1>6, <2>1, <2>2 DEF AiInv, GateInv, AiTyped
<1>8. CASE ~Awaited(r)
  <2>1. RequestFits'
    BY <1>1, <1>5, <1>8, <1>a, GivenUpKeepsRequests
  <2>2. FormInv'
    BY <1>1, <1>8, OthersKeepForm
  <2> QED BY <1>7, <2>1, <2>2 DEF AiInv
<1>9. CASE Awaited(r)
  <2>1. Fits(r) /\ (~foreign => Served(r)) /\ foreign' = foreign
    BY <1>1, <1>2, <1>9 DEF AiInv, RequestFits
  <2>2. RequestFits'
    <3>1. Served(n)'
      BY <1>1, <1>4 DEF Served
    <3> QED BY <1>1, <1>4, <1>9, <1>a, <2>1, <3>1, AwaitedKeepsRequests
  <2>3. ~ready /\ r.provider = form.provider /\ r.provider # NoProvider
    BY <1>1, <2>1 DEF Fits
  <2>4. ~foreign /\ Effective.provider = r.provider => Effective'.provider = r.provider
    BY <1>1, <1>2, <2>1, <2>3, SaveKeepsProvider DEF Served
  <2>5. ProviderFits'
    BY <1>1, <2>1, <2>3, <2>4 DEF AiInv, FormInv, ProviderFits
  <2>6. FormFits' /\ ModelsAreOfProvider' /\ UnsavedIsKept'
    BY <1>1, <2>1 DEF AiInv, FormInv, FormFits, ModelsAreOfProvider, UnsavedIsKept
  <2> QED BY <1>7, <2>2, <2>5, <2>6 DEF AiInv, FormInv
<1> QED BY <1>8, <1>9

\* A test that is awaited has tested what is in force now.
LEMMA TestRecordsInv ==
  ASSUME AiInv, NEW r \in aiRequests, NEW works \in BOOLEAN, TestRecords(r, works)
  PROVE  AiInv'
<1>0. PICK n : n = [r EXCEPT !.stage = "handled", !.got = [@ EXCEPT !.ready = works]]
  OBVIOUS
<1>1. /\ r.what = "test" /\ r.stage = "read"
      /\ stored' = IF r.got.default THEN stored ELSE [stored EXCEPT !.ready = works]
      /\ aiRequests' = (aiRequests \ {r}) \cup (IF r.lost THEN {} ELSE {n})
      /\ foreign' = (foreign \/ ~Awaited(r))
      /\ UNCHANGED <<aiSession, aiSessions, steps, ticket, aiBusy, form, ready, dirty>>
      /\ UNCHANGED <<fallback, chosen, overrun, swapped>>
      /\ UNCHANGED aiHistory
  BY <1>0 DEF TestRecords, Goes, ServerOnly, aiHistory
<1>2. r \in AiRequestShape /\ r.got \in AiConfig /\ stored \in AiRow /\ foreign \in BOOLEAN
  BY DEF AiInv, GateInv, AiTyped, AiRequestShape
<1>b. /\ [r.got EXCEPT !.ready = works] \in AiConfig
      /\ [r.got EXCEPT !.ready = works].provider = r.got.provider
      /\ [r.got EXCEPT !.ready = works].ready = works
  BY <1>2 DEF AiConfig
<1>c. n = [r EXCEPT !.stage = "handled", !.got = [r.got EXCEPT !.ready = works]]
  BY <1>0
<1>3. n \in AiRequestShape
  BY <1>2, <1>b, <1>c DEF AiRequestShape
<1>4. /\ n.id = r.id /\ n.session = r.session /\ n.what = r.what
      /\ n.provider = r.provider /\ n.stage = "handled"
      /\ n.got = [r.got EXCEPT !.ready = works]
  BY <1>2, <1>c DEF AiRequestShape
<1>5. Awaited(n) <=> Awaited(r)
  <2>1. n.lost = r.lost
    BY <1>2, <1>c DEF AiRequestShape
  <2> QED BY <1>4, <2>1 DEF Awaited, IsOurs
<1>a. /\ aiRequests' \subseteq (aiRequests \ {r}) \cup {n}
      /\ aiRequests \ {r} \subseteq aiRequests'
      /\ Awaited(r) => n \in aiRequests'
  BY <1>1 DEF Awaited
<1>6. stored' \in AiRow
  BY <1>1, <1>2 DEF AiRow
<1>7. GateInv'
  <2>1. (TicketsAreFresh /\ TicketIsHeld)' /\ aiRequests' \subseteq AiRequestShape
    BY <1>1, <1>3, <1>4, <1>5, <1>a, ServerKeepsGate DEF AiInv
  <2>2. foreign' \in BOOLEAN
    BY <1>1, <1>2
  <2> QED BY <1>1, <1>6, <2>1, <2>2 DEF AiInv, GateInv, AiTyped
<1>8. CASE ~Awaited(r)
  <2>1. RequestFits'
    BY <1>1, <1>5, <1>8, <1>a, GivenUpKeepsRequests
  <2>2. FormInv'
    BY <1>1, <1>8, OthersKeepForm
  <2> QED BY <1>7, <2>1, <2>2 DEF AiInv
<1>9. CASE Awaited(r)
  <2>1. Fits(r) /\ (~foreign => Served(r)) /\ foreign' = foreign
    BY <1>1, <1>2, <1>9 DEF AiInv, RequestFits
  <2>2. ~ready
    BY <1>1, <2>1 DEF Fits
  <2>3. ASSUME ~foreign
        PROVE  /\ Effective'.provider = Effective.provider
               /\ n.got.provider = Effective'.provider
               /\ n.got.ready => Effective'.ready
    <3>1. r.got = Effective /\ Effective.provider # NoProvider
      BY <1>1, <2>1, <2>3 DEF Served
    <3>2. CASE Effective.default
      <4>1. stored' = stored
        BY <1>1, <3>1, <3>2
      <4>2. Effective' = Effective
        BY <1>1, <4>1 DEF Effective, Usable
      <4>3. Effective.ready
        BY <1>2, <3>2, EffectiveFacts DEF AiInv, GateInv, AiTyped
      <4> QED BY <1>4, <1>b, <3>1, <4>2, <4>3
    <3>3. CASE ~Effective.default
      <4>1. stored' = [stored EXCEPT !.ready = works]
        BY <1>1, <3>1, <3>3
      <4>2. Effective'.provider = Effective.provider /\ Effective'.ready = works
        BY <1>1, <1>2, <3>1, <3>3, <4>1, TestKeepsProvider
      <4> QED BY <1>4, <1>b, <3>1, <4>2
    <3> QED BY <3>2, <3>3
  <2>4. RequestFits'
    <3>1. ~foreign => Served(n)'
      BY <1>1, <1>4, <2>3 DEF Served
    <3> QED BY <1>1, <1>4, <1>9, <1>a, <2>1, <3>1, AwaitedKeepsRequests
  <2>5. ProviderFits'
    BY <1>1, <2>1, <2>2, <2>3 DEF AiInv, FormInv, ProviderFits
  <2>6. FormFits' /\ ModelsAreOfProvider' /\ UnsavedIsKept'
    BY <1>1, <2>1 DEF AiInv, FormInv, FormFits, ModelsAreOfProvider, UnsavedIsKept
  <2> QED BY <1>7, <2>4, <2>5, <2>6 DEF AiInv, FormInv
<1> QED BY <1>8, <1>9

\* Whatever others have changed, the form is not to agree with any more.
LEMMA OthersInv == AiInv /\ AiOthers => AiInv'
<1> SUFFICES ASSUME AiInv, AiOthers PROVE AiInv'
  OBVIOUS
<1>1. /\ steps' = steps + 1 /\ foreign' = TRUE
      /\ stored' \in AiRow /\ fallback' \in Providers \cup {NoProvider}
      /\ UNCHANGED <<aiSession, aiSessions, ticket, aiBusy, aiRequests, form, ready, dirty>>
      /\ UNCHANGED <<chosen, overrun, swapped>>
      /\ UNCHANGED aiHistory
  <2>1. stored \in AiRow /\ fallback \in Providers \cup {NoProvider}
    BY DEF AiInv, GateInv, AiTyped
  <2>2. Rows \subseteq AiRow
    BY DEF Rows, AiRow
  <2> QED BY <2>1, <2>2 DEF AiOthers, ChangedElsewhere, DefaultChanged, AiStep, aiHistory
<1>2. AiTyped'
  <2>1. steps' \in Nat
    BY <1>1 DEF AiInv, GateInv, AiTyped
  <2> QED BY <1>1, <2>1 DEF AiInv, GateInv, AiTyped
<1>3. TicketsAreFresh'
  <2>1. \A r \in aiRequests : r.id <= steps'
    BY <1>1 DEF AiInv, GateInv, AiTyped, TicketsAreFresh, AiRequestShape
  <2> QED BY <1>1, <2>1 DEF AiInv, GateInv, TicketsAreFresh
<1>4. TicketIsHeld' /\ RequestFits'
  BY <1>1 DEF AiInv, GateInv, TicketIsHeld, RequestFits, Fits, Awaited, IsOurs
<1>5. FormInv'
  BY <1>1, OthersKeepForm
<1> QED BY <1>2, <1>3, <1>4, <1>5 DEF AiInv, GateInv

-----------------------------------------------------------------------------
(* What comes back. *)

\* The finally block, of what is not read any more: what remains of a request of
\* this session is not awaited.
LEMMA EndKeepsGate ==
  ASSUME GateInv, NEW r \in aiRequests, LeaveGate(r), IsOurs(r) => Awaited(r),
         \/ aiRequests' = aiRequests \ {r}
         \/ aiRequests' = (aiRequests \ {r}) \cup {[r EXCEPT !.lost = TRUE]},
         UNCHANGED <<aiSession, aiSessions, steps>>
  PROVE  /\ (TicketsAreFresh /\ TicketIsHeld)'
         /\ aiRequests' \subseteq AiRequestShape /\ ticket' \in Nat /\ aiBusy' \in BOOLEAN
         /\ \A q \in aiRequests' : Awaited(q)' => q \in aiRequests /\ Awaited(q)
         /\ IsOurs(r) => NoneAwaited'
<1>0. PICK n : n = [r EXCEPT !.lost = TRUE]
  OBVIOUS
<1>1. r \in AiRequestShape
  BY DEF GateInv, AiTyped
<1>2. n \in AiRequestShape /\ n.id = r.id /\ n.session = r.session
  BY <1>0, <1>1 DEF AiRequestShape
<1>3. ~Awaited(n)
  BY <1>0, <1>1 DEF AiRequestShape, Awaited
<1>4. /\ aiRequests' \subseteq (aiRequests \ {r}) \cup {n}
      /\ aiRequests \ {r} \subseteq aiRequests'
  BY <1>0
<1> QED BY <1>2, <1>3, <1>4, LeaveKeeps

LEMMA AnsweredLateInv == ASSUME AiInv, NEW r \in aiRequests, AnsweredLate(r) PROVE AiInv'
<1>1. /\ ~IsOurs(r) /\ aiRequests' = aiRequests \ {r} /\ LeaveGate(r)
      /\ UNCHANGED <<aiSession, aiSessions, steps, form, ready, dirty, stored, fallback>>
      /\ UNCHANGED <<chosen, overrun, swapped, foreign>>
      /\ UNCHANGED aiHistory
  BY DEF AnsweredLate, aiServer, aiHistory
<1>2. /\ (TicketsAreFresh /\ TicketIsHeld)'
      /\ aiRequests' \subseteq AiRequestShape /\ ticket' \in Nat /\ aiBusy' \in BOOLEAN
  BY <1>1, EndKeepsGate DEF AiInv
<1>3. GateInv'
  BY <1>1, <1>2 DEF AiInv, GateInv, AiTyped
<1>4. Effective' = Effective
  BY <1>1 DEF Effective, Usable
<1>5. RequestFits'
  BY <1>1, <1>4, GivenUpKeepsRequests DEF Awaited
<1>6. FormInv'
  BY <1>1, <1>4, OthersKeepForm
<1> QED BY <1>3, <1>5, <1>6 DEF AiInv

\* What the app gives up leaves the form as it is, and takes "ready" back at most.
LEMMA AiFailsInv == ASSUME AiInv, NEW r \in aiRequests, AiFails(r) PROVE AiInv'
<1>1. /\ ~r.lost /\ LeaveGate(r)
      /\ \/ aiRequests' = aiRequests \ {r}
         \/ aiRequests' = (aiRequests \ {r}) \cup {[r EXCEPT !.lost = TRUE]}
      /\ ready' = (ready /\ ~(IsOurs(r) /\ r.what = "test"))
      /\ UNCHANGED <<aiSession, aiSessions, steps, form, dirty, stored, fallback>>
      /\ UNCHANGED <<chosen, overrun, swapped, foreign>>
  BY DEF AiFails, aiServer, aiHistory
<1>2. /\ (TicketsAreFresh /\ TicketIsHeld)'
      /\ aiRequests' \subseteq AiRequestShape /\ ticket' \in Nat /\ aiBusy' \in BOOLEAN
      /\ \A q \in aiRequests' : Awaited(q)' => q \in aiRequests /\ Awaited(q)
      /\ IsOurs(r) => NoneAwaited'
  BY <1>1, EndKeepsGate DEF AiInv, Awaited
<1>3. ready' \in BOOLEAN /\ (ready' => ready) /\ (~IsOurs(r) => ready' = ready)
  BY <1>1 DEF AiInv, GateInv, AiTyped
<1>4. GateInv'
  BY <1>1, <1>2, <1>3 DEF AiInv, GateInv, AiTyped
<1>5. Effective' = Effective
  BY <1>1 DEF Effective, Usable
<1>6. RequestFits'
  <2>1. CASE IsOurs(r)
    BY <1>2, <2>1 DEF RequestFits, NoneAwaited
  <2>2. CASE ~IsOurs(r)
    <3> SUFFICES ASSUME NEW q \in aiRequests', Awaited(q)'
                 PROVE  Fits(q)' /\ (~foreign' => Served(q)')
      BY DEF RequestFits
    <3>1. Fits(q) /\ (~foreign => Served(q))
      BY <1>2 DEF AiInv, RequestFits
    <3>2. Fits(q)'
      BY <1>1, <1>3, <2>2, <3>1 DEF Fits
    <3>3. Served(q) => Served(q)'
      BY <1>1, <1>5 DEF Served
    <3> QED BY <1>1, <3>1, <3>2, <3>3
  <2> QED BY <2>1, <2>2
<1>7. FormInv'
  BY <1>1, <1>3, <1>5
     DEF AiInv, FormInv, ProviderFits, FormFits, ModelsAreOfProvider, UnsavedIsKept
<1> QED BY <1>4, <1>6, <1>7 DEF AiInv

\* What every callback starts from: the app waits for this answer only, and it is
\* what the server has - unless somebody else has changed that.
LEMMA AnsweredFacts ==
  ASSUME AiInv, NEW r \in aiRequests, NEW what, AiAnswered(r, what)
  PROVE  /\ (TicketsAreFresh /\ TicketIsHeld)'
         /\ aiRequests' \subseteq AiRequestShape /\ ticket' \in Nat /\ aiBusy' \in BOOLEAN
         /\ RequestFits'
         /\ UNCHANGED <<aiSession, aiSessions, steps, stored, fallback>>
         /\ Effective' = Effective /\ aiSession' # 0
         /\ Fits(r) /\ (~foreign => Served(r))
         /\ r.what = what /\ r.stage = "handled" /\ r \in AiRequestShape /\ r.got \in AiConfig
<1>1. /\ r.what = what /\ r.stage = "handled" /\ Awaited(r) /\ IsOurs(r)
      /\ aiRequests' = aiRequests \ {r} /\ LeaveGate(r)
      /\ UNCHANGED <<aiSession, aiSessions, steps, aiServer, stored, fallback>>
  BY DEF AiAnswered, Awaited, aiServer
<1>2. /\ (TicketsAreFresh /\ TicketIsHeld)'
      /\ aiRequests' \subseteq AiRequestShape /\ ticket' \in Nat /\ aiBusy' \in BOOLEAN
      /\ IsOurs(r) => NoneAwaited'
  BY <1>1, EndKeepsGate DEF AiInv
<1>3. RequestFits'
  BY <1>1, <1>2 DEF RequestFits, NoneAwaited
<1>4. r \in AiRequestShape /\ r.got \in AiConfig /\ aiSession' # 0
  BY <1>1 DEF AiInv, GateInv, AiTyped, AiRequestShape, IsOurs
<1>5. Fits(r) /\ (~foreign => Served(r))
  BY <1>1 DEF AiInv, RequestFits
<1> QED BY <1>1, <1>2, <1>3, <1>4, <1>5, SameEffective

\* The configuration that was loaded is the last word, if it is still in force.
LEMMA LoadAnsweredInv == ASSUME AiInv, NEW r \in aiRequests, LoadAnswered(r) PROVE AiInv'
<1>1. /\ AiAnswered(r, "load")
      /\ form' = [form EXCEPT !.provider = IF r.got.provider = NoProvider THEN FirstProvider
                                           ELSE r.got.provider,
                              !.modelsOf = r.got.provider,
                              !.model = r.got.provider # NoProvider,
                              !.default = r.got.default, !.offered = TRUE]
      /\ ready' = (r.got.default /\ r.got.ready)
      /\ swapped' = FALSE /\ foreign' = (foreign /\ r.got # Effective)
      /\ UNCHANGED <<dirty, chosen, overrun>>
  BY DEF LoadAnswered
<1>2. /\ (TicketsAreFresh /\ TicketIsHeld)'
      /\ aiRequests' \subseteq AiRequestShape /\ ticket' \in Nat /\ aiBusy' \in BOOLEAN
      /\ RequestFits'
      /\ UNCHANGED <<aiSession, aiSessions, steps, stored, fallback>>
      /\ Effective' = Effective /\ aiSession' # 0
      /\ Fits(r) /\ (~foreign => Served(r))
      /\ r.what = "load" /\ r.stage = "handled" /\ r \in AiRequestShape /\ r.got \in AiConfig
  BY <1>1, AnsweredFacts
<1>3. /\ r.got.provider \in Providers \cup {NoProvider}
      /\ r.got.default \in BOOLEAN /\ r.got.ready \in BOOLEAN
      /\ FirstProvider \in Providers
  BY <1>2, AiAssumption DEF AiConfig, AiAssumption
<1>4. form \in AiForm /\ foreign \in BOOLEAN /\ dirty \in BOOLEAN
  BY DEF AiInv, GateInv, AiTyped
<1>5. /\ form' \in AiForm /\ form'.modelsOf = r.got.provider
      /\ form'.model => r.got.provider # NoProvider
      /\ r.got.provider # NoProvider => form'.provider = r.got.provider
  BY <1>1, <1>3, <1>4 DEF AiForm
<1>6. GateInv'
  <2>1. ready' \in BOOLEAN /\ foreign' \in BOOLEAN
    BY <1>1, <1>3, <1>4
  <2> QED BY <1>1, <1>2, <1>5, <2>1 DEF AiInv, GateInv, AiTyped
<1>7. ~foreign' => r.got = Effective
  BY <1>1, <1>2 DEF Served
<1>8. ProviderFits'
  <2>1. ASSUME ~foreign', ready' PROVE Effective'.ready /\ form'.provider = Effective'.provider
    <3>1. r.got = Effective /\ r.got.default /\ r.got.ready
      BY <1>1, <1>7, <2>1
    <3>2. Effective.provider # NoProvider
      BY <3>1, EffectiveFacts DEF AiInv, GateInv, AiTyped
    <3> QED BY <1>2, <1>5, <3>1, <3>2
  <2>2. ASSUME ~foreign', form'.model PROVE form'.provider = Effective'.provider
    BY <1>2, <1>5, <1>7, <2>2
  <2> QED BY <2>1, <2>2 DEF ProviderFits
<1>9. FormFits' /\ UnsavedIsKept'
  <2>1. dirty => overrun
    BY <1>2 DEF Fits
  <2> QED BY <1>1, <1>2, <2>1 DEF FormFits, UnsavedIsKept
<1>10. ModelsAreOfProvider'
  BY <1>5 DEF ModelsAreOfProvider
<1> QED BY <1>2, <1>6, <1>8, <1>9, <1>10 DEF AiInv, FormInv

LEMMA SaveAnsweredInv == ASSUME AiInv, NEW r \in aiRequests, SaveAnswered(r) PROVE AiInv'
<1>1. /\ AiAnswered(r, "save")
      /\ form' = [form EXCEPT !.provider = r.got.provider,
                              !.model = r.got.provider # NoProvider,
                              !.default = r.got.default]
      /\ dirty' = FALSE /\ overrun' = FALSE
      /\ swapped' = (swapped \/ r.got.provider # r.provider)
      /\ UNCHANGED <<ready, foreign>>
  BY DEF SaveAnswered, NothingUnsaved
<1>2. /\ (TicketsAreFresh /\ TicketIsHeld)'
      /\ aiRequests' \subseteq AiRequestShape /\ ticket' \in Nat /\ aiBusy' \in BOOLEAN
      /\ RequestFits'
      /\ UNCHANGED <<aiSession, aiSessions, steps, stored, fallback>>
      /\ Effective' = Effective /\ aiSession' # 0
      /\ Fits(r) /\ (~foreign => Served(r))
      /\ r.what = "save" /\ r.stage = "handled" /\ r \in AiRequestShape /\ r.got \in AiConfig
  BY <1>1, AnsweredFacts
<1>3. r.got.provider \in Providers \cup {NoProvider} /\ r.got.default \in BOOLEAN
  BY <1>2 DEF AiConfig
<1>4. form \in AiForm /\ swapped \in BOOLEAN
  BY DEF AiInv, GateInv, AiTyped
<1>5. form' \in AiForm /\ form'.modelsOf = form.modelsOf /\ form'.provider = r.got.provider
  BY <1>1, <1>3, <1>4 DEF AiForm
<1>6. GateInv'
  <2>1. swapped' \in BOOLEAN
    BY <1>1, <1>4
  <2> QED BY <1>1, <1>2, <1>5, <2>1 DEF AiInv, GateInv, AiTyped
<1>7. ~ready /\ r.provider = form.provider /\ (~foreign => r.got = Effective)
  BY <1>2 DEF Fits, Served
<1>8. ProviderFits' /\ FormFits' /\ UnsavedIsKept'
  BY <1>1, <1>2, <1>5, <1>7 DEF ProviderFits, FormFits, UnsavedIsKept
<1>9. ModelsAreOfProvider'
  BY <1>1, <1>4, <1>5, <1>7 DEF AiInv, FormInv, ModelsAreOfProvider
<1> QED BY <1>2, <1>6, <1>8, <1>9 DEF AiInv, FormInv

LEMMA ModelsAnsweredInv ==
  ASSUME AiInv, NEW r \in aiRequests, NEW works \in BOOLEAN, NEW listed \in BOOLEAN,
         ModelsAnswered(r, works, listed)
  PROVE  AiInv'
<1>1. /\ AiAnswered(r, "models")
      /\ form' = [form EXCEPT !.modelsOf = IF works THEN r.provider ELSE NoProvider,
                              !.model = @ /\ (works => listed)]
      /\ swapped' = FALSE
      /\ UNCHANGED <<ready, dirty, chosen, overrun, foreign>>
  BY DEF ModelsAnswered
<1>2. /\ (TicketsAreFresh /\ TicketIsHeld)'
      /\ aiRequests' \subseteq AiRequestShape /\ ticket' \in Nat /\ aiBusy' \in BOOLEAN
      /\ RequestFits'
      /\ UNCHANGED <<aiSession, aiSessions, steps, stored, fallback>>
      /\ Effective' = Effective /\ aiSession' # 0
      /\ Fits(r) /\ (~foreign => Served(r))
      /\ r.what = "models" /\ r.stage = "handled" /\ r \in AiRequestShape /\ r.got \in AiConfig
  BY <1>1, AnsweredFacts
<1>3. form \in AiForm /\ r.provider \in Providers \cup {NoProvider}
  BY <1>2 DEF AiInv, GateInv, AiTyped, AiRequestShape
<1>4. /\ form' \in AiForm /\ form'.modelsOf \in {NoProvider, r.provider}
      /\ form'.provider = form.provider /\ (form'.model => form.model)
  BY <1>1, <1>3 DEF AiForm
<1>5. GateInv'
  BY <1>1, <1>2, <1>4 DEF AiInv, GateInv, AiTyped
<1>6. r.provider = form.provider
  BY <1>2 DEF Fits
<1>7. ProviderFits' /\ FormFits' /\ UnsavedIsKept'
  BY <1>1, <1>2, <1>4 DEF AiInv, FormInv, ProviderFits, FormFits, UnsavedIsKept
<1>8. ModelsAreOfProvider'
  BY <1>4, <1>6 DEF ModelsAreOfProvider
<1> QED BY <1>2, <1>5, <1>7, <1>8 DEF AiInv, FormInv

\* A test was of a form that is not edited, whose provider is in force.
LEMMA TestAnsweredInv == ASSUME AiInv, NEW r \in aiRequests, TestAnswered(r) PROVE AiInv'
<1>1. /\ AiAnswered(r, "test")
      /\ form' = [form EXCEPT !.provider = r.got.provider, !.model = TRUE]
      /\ ready' = r.got.ready
      /\ UNCHANGED <<dirty, chosen, overrun, swapped, foreign>>
  BY DEF TestAnswered, aiHistory
<1>2. /\ (TicketsAreFresh /\ TicketIsHeld)'
      /\ aiRequests' \subseteq AiRequestShape /\ ticket' \in Nat /\ aiBusy' \in BOOLEAN
      /\ RequestFits'
      /\ UNCHANGED <<aiSession, aiSessions, steps, stored, fallback>>
      /\ Effective' = Effective /\ aiSession' # 0
      /\ Fits(r) /\ (~foreign => Served(r))
      /\ r.what = "test" /\ r.stage = "handled" /\ r \in AiRequestShape /\ r.got \in AiConfig
  BY <1>1, AnsweredFacts
<1>3. r.got.provider \in Providers \cup {NoProvider} /\ r.got.ready \in BOOLEAN
  BY <1>2 DEF AiConfig
<1>4. form \in AiForm
  BY DEF AiInv, GateInv, AiTyped
<1>5. form' \in AiForm /\ form'.modelsOf = form.modelsOf /\ form'.provider = r.got.provider
  BY <1>1, <1>3, <1>4 DEF AiForm
<1>6. GateInv'
  BY <1>1, <1>2, <1>3, <1>5 DEF AiInv, GateInv, AiTyped
<1>7. ~dirty /\ form.model
  BY <1>2 DEF Fits
<1>8. ~foreign => /\ form.provider = Effective.provider /\ r.got.provider = Effective.provider
                  /\ r.got.ready => Effective.ready
  BY <1>2, <1>7 DEF AiInv, FormInv, ProviderFits, Served
<1>9. ProviderFits' /\ FormFits' /\ UnsavedIsKept'
  BY <1>1, <1>2, <1>5, <1>7, <1>8 DEF ProviderFits, FormFits, UnsavedIsKept
<1>10. ModelsAreOfProvider'
  BY <1>1, <1>5, <1>8 DEF AiInv, FormInv, ModelsAreOfProvider
<1> QED BY <1>2, <1>6, <1>9, <1>10 DEF AiInv, FormInv

\* A question went to the configuration in force, and the form was ready for it.
LEMMA ChatAnsweredInv == ASSUME AiInv, NEW r \in aiRequests, ChatAnswered(r) PROVE AiInv'
<1>1. /\ AiAnswered(r, "chat")
      /\ form' = [form EXCEPT !.provider = r.got.provider, !.model = TRUE]
      /\ UNCHANGED <<ready, dirty, chosen, overrun, swapped, foreign>>
  BY DEF ChatAnswered, aiHistory
<1>2. /\ (TicketsAreFresh /\ TicketIsHeld)'
      /\ aiRequests' \subseteq AiRequestShape /\ ticket' \in Nat /\ aiBusy' \in BOOLEAN
      /\ RequestFits'
      /\ UNCHANGED <<aiSession, aiSessions, steps, stored, fallback>>
      /\ Effective' = Effective /\ aiSession' # 0
      /\ Fits(r) /\ (~foreign => Served(r))
      /\ r.what = "chat" /\ r.stage = "handled" /\ r \in AiRequestShape /\ r.got \in AiConfig
  BY <1>1, AnsweredFacts
<1>3. r.got.provider \in Providers \cup {NoProvider}
  BY <1>2 DEF AiConfig
<1>4. form \in AiForm
  BY DEF AiInv, GateInv, AiTyped
<1>5. form' \in AiForm /\ form'.modelsOf = form.modelsOf /\ form'.provider = r.got.provider
  BY <1>1, <1>3, <1>4 DEF AiForm
<1>6. GateInv'
  BY <1>1, <1>2, <1>5 DEF AiInv, GateInv, AiTyped
<1>7. ready
  BY <1>2 DEF Fits
<1>8. /\ ~foreign => /\ Effective.ready /\ form.provider = Effective.provider
                     /\ r.got.provider = Effective.provider
      /\ dirty => overrun
  BY <1>2, <1>7 DEF AiInv, FormInv, ProviderFits, FormFits, Served
<1>9. ProviderFits' /\ FormFits' /\ UnsavedIsKept'
  BY <1>1, <1>2, <1>5, <1>8 DEF ProviderFits, FormFits, UnsavedIsKept
<1>10. ModelsAreOfProvider'
  BY <1>1, <1>5, <1>8 DEF AiInv, FormInv, ModelsAreOfProvider
<1> QED BY <1>2, <1>6, <1>9, <1>10 DEF AiInv, FormInv

-----------------------------------------------------------------------------
LEMMA AiInitInv == AiInit => AiInv
<1> SUFFICES ASSUME AiInit PROVE AiInv
  OBVIOUS
<1>1. /\ aiSession = 0 /\ aiSessions = 0 /\ steps = 0 /\ ticket = 0 /\ aiBusy = FALSE
      /\ aiRequests = {} /\ form = EmptyForm /\ ready = FALSE /\ dirty = FALSE
      /\ overrun = FALSE /\ swapped = FALSE /\ foreign = FALSE
      /\ stored \in Rows \cup {NoRow} /\ fallback \in Providers \cup {NoProvider}
  BY DEF AiInit
<1>2. AiTyped
  <2>0. Rows \subseteq AiRow /\ NoRow \in AiRow
    BY DEF Rows, NoRow, AiRow
  <2>1. stored \in AiRow
    BY <1>1, <2>0
  <2>2. form \in AiForm
    BY <1>1, AiAssumption DEF EmptyForm, AiForm, AiAssumption
  <2>3. aiSessions \in Nat /\ aiSession \in 0..aiSessions /\ steps \in Nat /\ ticket \in Nat
    BY <1>1
  <2> QED BY <1>1, <2>1, <2>2, <2>3, Zenon DEF AiTyped
<1>3. TicketsAreFresh /\ TicketIsHeld /\ RequestFits
  BY <1>1 DEF TicketsAreFresh, TicketIsHeld, RequestFits
<1>4. FormInv
  <2>1. ~EmptyForm.model /\ EmptyForm.modelsOf = NoProvider
    BY DEF EmptyForm
  <2> QED BY <1>1, <2>1
          DEF FormInv, ProviderFits, FormFits, ModelsAreOfProvider, UnsavedIsKept
<1> QED BY <1>2, <1>3, <1>4 DEF AiInv, GateInv

LEMMA AiNetworkInv == AiInv /\ AiNetwork => AiInv'
<1> SUFFICES ASSUME AiInv, AiNetwork PROVE AiInv'
  OBVIOUS
<1>1. PICK r \in aiRequests :
        \/ AiReads(r) \/ AiReplies(r) \/ AiFails(r) \/ AnsweredLate(r)
        \/ \E same \in BOOLEAN : SaveWrites(r, same)
        \/ \E works \in BOOLEAN : TestRecords(r, works)
        \/ LoadAnswered(r) \/ SaveAnswered(r) \/ TestAnswered(r) \/ ChatAnswered(r)
        \/ \E works, listed \in BOOLEAN : ModelsAnswered(r, works, listed)
  BY DEF AiNetwork
<1>2. CASE AiReads(r) \/ AiReplies(r) \/ AiFails(r) \/ AnsweredLate(r)
  BY <1>2, AiReadsInv, AiRepliesInv, AiFailsInv, AnsweredLateInv
<1>3. ASSUME NEW same \in BOOLEAN, SaveWrites(r, same) PROVE AiInv'
  BY <1>3, SaveWritesInv
<1>4. ASSUME NEW works \in BOOLEAN, TestRecords(r, works) PROVE AiInv'
  BY <1>4, TestRecordsInv
<1>5. CASE LoadAnswered(r) \/ SaveAnswered(r) \/ TestAnswered(r) \/ ChatAnswered(r)
  BY <1>5, LoadAnsweredInv, SaveAnsweredInv, TestAnsweredInv, ChatAnsweredInv
<1>6. ASSUME NEW works \in BOOLEAN, NEW listed \in BOOLEAN, ModelsAnswered(r, works, listed)
      PROVE AiInv'
  BY <1>6, ModelsAnsweredInv
<1> QED BY <1>1, <1>2, <1>3, <1>4, <1>5, <1>6

LEMMA AiNextInv == AiInv /\ [AiNext]_aiVars => AiInv'
<1> SUFFICES ASSUME AiInv, [AiNext]_aiVars PROVE AiInv'
  OBVIOUS
<1>1. CASE AiSignIn \/ AiSignOut \/ EditAi
  BY <1>1, AiSignInInv, AiSignOutInv, EditAiInv
<1>2. ASSUME NEW resumed \in BOOLEAN, LoadAi(resumed) PROVE AiInv'
  BY <1>2, LoadAiInv
<1>3. ASSUME NEW what \in {"save", "models", "test", "chat"}, UseAi(what) PROVE AiInv'
  BY <1>3, UseAiInv
<1>4. CASE AiOthers
  BY <1>4, OthersInv
<1>5. CASE AiNetwork
  BY <1>5, AiNetworkInv
<1>6. CASE UNCHANGED aiVars
  <2>1. /\ UNCHANGED <<aiSession, aiSessions, steps, ticket, aiBusy, aiRequests, form, ready>>
        /\ UNCHANGED <<dirty, stored, fallback, chosen, overrun, swapped, foreign>>
        /\ UNCHANGED aiHistory
    BY <1>6 DEF aiVars, aiServer, aiHistory
  <2>2. GateInv'
    BY <2>1 DEF AiInv, GateInv, AiTyped, TicketsAreFresh, TicketIsHeld, Awaited, IsOurs
  <2>3. Effective' = Effective
    BY <2>1 DEF Effective, Usable
  <2>4. RequestFits'
    BY <2>1, <2>3 DEF AiInv, RequestFits, Fits, Served, Awaited, IsOurs
  <2>5. FormInv'
    BY <2>1, <2>3, OthersKeepForm
  <2> QED BY <2>2, <2>4, <2>5 DEF AiInv
<1> QED BY <1>1, <1>2, <1>3, <1>4, <1>5, <1>6 DEF AiNext, AiUser

-----------------------------------------------------------------------------
(* What holds of every run of the app. *)

\* The inductive invariant (createPersonalAiSingleFlight and the callbacks of
\* applyProtectedResponse in personal-ai-api.js and App.tsx, and the transactions
\* of personal_ai_service.py).
THEOREM AiInvariance == AiSpec => []AiInv
<1>1. AiInit => AiInv
  BY AiInitInv
<1>2. AiInv /\ [AiNext]_aiVars => AiInv'
  BY AiNextInv
<1> QED BY <1>1, <1>2, PTL DEF AiSpec

\* The gate of the personal AI (tryEnter, leave, the reset on sign-out): closed,
\* and shown as busy, exactly while the app waits for one answer of the current
\* session, whatever the server still works on.
THEOREM AiGateHolds == AiSpec => []AiGateIsHeld
<1>1. AiInv => AiGateIsHeld
  <2> SUFFICES ASSUME AiInv PROVE AiGateIsHeld
    OBVIOUS
  <2>1. TicketIsHeld /\ \A r \in aiRequests : r.id # 0
    BY DEF AiInv, GateInv, AiTyped, AiRequestShape
  <2>2. {r.id : r \in {q \in aiRequests : Awaited(q)}} = {ticket} \ {0}
    BY <2>1 DEF TicketIsHeld
  <2> QED BY <2>1, <2>2 DEF TicketIsHeld, AiGateIsHeld
<1> QED BY <1>1, AiInvariance, PTL

\* "Ready" in the form (personalAiTestReady, which askAi asks for) is what the
\* server would find (_effective_config), through edits, saves, tests and loads that
\* fail or come late, as long as nothing has changed the configuration that the form
\* does not wait for.
THEOREM ReadyStaysStored == AiSpec => []ReadyIsStored
<1>1. AiInv => ReadyIsStored
  BY DEF AiInv, FormInv, ProviderFits, ReadyIsStored
<1> QED BY <1>1, AiInvariance, PTL

\* The list of models (loadPersonalAiModels) is that of the provider of the form,
\* until a save is answered with another provider.
THEOREM ModelsStayOfProvider == AiSpec => []ModelsAreOfProvider
<1>1. AiInv => ModelsAreOfProvider
  BY DEF AiInv, FormInv
<1> QED BY <1>1, AiInvariance, PTL

\* No late answer overwrites a provider that was chosen and is not saved.
THEOREM UnsavedStays == AiSpec => []UnsavedIsKept
<1>1. AiInv => UnsavedIsKept
  BY DEF AiInv, FormInv
<1> QED BY <1>1, AiInvariance, PTL
=============================================================================
