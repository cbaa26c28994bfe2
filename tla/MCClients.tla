----------------------------- MODULE MCClients -----------------------------
(***************************************************************************)
(* The components of the client programs, and the sign-in of               *)
(* administrators, side by side.  They share no state, so that interleaving *)
(* them would only multiply it: a behaviour takes steps of one component,  *)
(* the one in focus.                                                       *)
(***************************************************************************)
EXTENDS MCUserMailbox, MCMailCompose, NotificationStream, MobileSession, DesktopBroker,
        MobileActions, MobileAi, AdminMfa

VARIABLE focus

clientVars == <<mailboxVars, composeVars, streamVars, mobileVars, desktopVars, actionVars,
                aiVars, mfaVars, focus>>

ClientsInit ==
  /\ focus \in {"mailbox", "compose", "stream", "mobile", "desktop", "actions", "ai", "mfa"}
  /\ MailboxInit /\ ComposeInit /\ StreamInit /\ MobileInit /\ DesktopInit /\ ActionsInit
  /\ AiInit /\ MfaInit
  \* Neither a row nor a default, or both; one start is enough where the
  \* configuration and the profile are not looked at.
  /\ \/ stored = NoRow /\ fallback = NoProvider
     \/ stored = [provider |-> InitialProvider, key |-> TRUE, ready |-> TRUE]
        /\ fallback = InitialProvider
  /\ focus # "ai" => stored = NoRow
  /\ focus # "mfa" => profile.status = "none"

ClientsNext ==
  /\ UNCHANGED focus
  /\ \/ focus = "mailbox" /\ MailboxNext
        /\ UNCHANGED <<composeVars, streamVars, mobileVars, desktopVars, actionVars,
                        aiVars, mfaVars>>
     \/ focus = "compose" /\ ComposeNext
        /\ UNCHANGED <<mailboxVars, streamVars, mobileVars, desktopVars, actionVars,
                        aiVars, mfaVars>>
     \/ focus = "stream" /\ StreamNext
        /\ UNCHANGED <<mailboxVars, composeVars, mobileVars, desktopVars, actionVars,
                        aiVars, mfaVars>>
     \/ focus = "mobile" /\ MobileNext
        /\ UNCHANGED <<mailboxVars, composeVars, streamVars, desktopVars, actionVars,
                        aiVars, mfaVars>>
     \/ focus = "desktop" /\ DesktopNext
        /\ UNCHANGED <<mailboxVars, composeVars, streamVars, mobileVars, actionVars,
                        aiVars, mfaVars>>
     \/ focus = "actions" /\ ActionsNext
        /\ UNCHANGED <<mailboxVars, composeVars, streamVars, mobileVars, desktopVars,
                        aiVars, mfaVars>>
     \/ focus = "ai" /\ AiNext
        /\ UNCHANGED <<mailboxVars, composeVars, streamVars, mobileVars, desktopVars,
                        actionVars, mfaVars>>
     \/ focus = "mfa" /\ MfaNext
        /\ UNCHANGED <<mailboxVars, composeVars, streamVars, mobileVars, desktopVars,
                        actionVars, aiVars>>

ClientsSpec == ClientsInit /\ [][ClientsNext]_clientVars

\* Every variable keeps its type: pages start inside the list, uploads have a
\* place reserved, the stream retries are bounded, tasks and versions are numbers.
ClientsTypeOK ==
  MailboxTypeOK /\ ComposeTypeOK /\ StreamTypeOK /\ MobileTypeOK /\ MfaTypeOK
=============================================================================
