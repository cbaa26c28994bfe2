--------------------------- MODULE DesktopBroker ---------------------------
(***************************************************************************)
(* The API broker of the desktop client (desktop-client/electron/          *)
(* api-broker.js): the one credential that the main process holds, and the *)
(* calls of the renderer (index.html), each of which waits for the network *)
(* without keeping the others out.  A credential is named by the sign-in   *)
(* it was issued for; 0 stands for "".                                     *)
(***************************************************************************)
EXTENDS Naturals, FiniteSets

CONSTANTS MaxBrokerLogins,  \* bound: sign-ins
          MaxCalls          \* bound: requests on their way

ASSUME DesktopAssumption == MaxBrokerLogins \in Nat /\ MaxCalls \in Nat

VARIABLES
  credential,      \* sessionCredential
  brokerLogins,    \* sign-ins started so far
  loginCalls,      \* sign-ins on their way
  apiCalls,        \* credentials of the requests on their way
  page,            \* the credential the renderer's rows were read with
  rejected         \* history: credentials of which a request was refused

desktopVars == <<credential, brokerLogins, loginCalls, apiCalls, page, rejected>>

DesktopInit ==
  /\ credential = 0 /\ brokerLogins = 0 /\ loginCalls = {} /\ apiCalls = {}
  /\ page = 0 /\ rejected = {}

\* broker.login: the button stays there until the sign-in is answered.
BrokerLogin ==
  /\ brokerLogins < MaxBrokerLogins
  /\ brokerLogins' = brokerLogins + 1 /\ loginCalls' = loginCalls \cup {brokerLogins + 1}
  /\ UNCHANGED <<credential, apiCalls, page, rejected>>

\* The credential of the answer becomes that of the broker.
BrokerLoginAnswers(n) ==
  /\ n \in loginCalls
  /\ loginCalls' = loginCalls \ {n} /\ credential' = n
  /\ UNCHANGED <<brokerLogins, apiCalls, page, rejected>>

\* readResponse: 401 and 423 clear the credential, other failures do not.
BrokerLoginFails(n, status) ==
  /\ n \in loginCalls
  /\ loginCalls' = loginCalls \ {n}
  /\ credential' = IF status \in {401, 423} THEN 0 ELSE credential
  /\ UNCHANGED <<brokerLogins, apiCalls, page, rejected>>

\* perform: no request without a credential.
Call ==
  /\ credential # 0 /\ Cardinality(apiCalls) < MaxCalls
  /\ apiCalls' = apiCalls \cup {credential}
  /\ UNCHANGED <<credential, brokerLogins, loginCalls, page, rejected>>

\* The renderer shows what it receives.
CallAnswers(c) ==
  /\ c \in apiCalls
  /\ apiCalls' = apiCalls \ {c} /\ page' = c
  /\ UNCHANGED <<credential, brokerLogins, loginCalls, rejected>>

\* A lock (423) is taken for any other failure.
MutRejects(status) == status = 401
\* The answers that say the credential is worth nothing any more.
Rejects(status) == status \in {401, 423}

CallFails(c, status) ==
  /\ c \in apiCalls
  /\ apiCalls' = apiCalls \ {c}
  /\ credential' = IF Rejects(status) THEN 0 ELSE credential
  /\ rejected' = IF status \in {401, 423} THEN rejected \cup {c} ELSE rejected
  /\ UNCHANGED <<brokerLogins, loginCalls, page>>

\* logout, and logoutDesktop of the renderer
BrokerLogout ==
  /\ credential' = 0 /\ page' = 0
  /\ UNCHANGED <<brokerLogins, loginCalls, apiCalls, rejected>>

DesktopNext ==
  \/ BrokerLogin \/ Call \/ BrokerLogout
  \/ \E n \in loginCalls : BrokerLoginAnswers(n)
  \/ \E n \in loginCalls, status \in {401, 423, 500} : BrokerLoginFails(n, status)
  \/ \E c \in apiCalls : CallAnswers(c)
  \/ \E c \in apiCalls, status \in {401, 423, 500} : CallFails(c, status)

DesktopSpec == DesktopInit /\ [][DesktopNext]_desktopVars

-----------------------------------------------------------------------------
\* A credential of which the server has refused a request is never held again,
\* in whatever order sign-ins, requests and refusals are answered.
RejectedIsDropped == credential \notin rejected

=============================================================================
