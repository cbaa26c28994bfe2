--------------------------- MODULE ClientsProofs ---------------------------
(***************************************************************************)
(* The client programs side by side: each component behaves in the         *)
(* composition as it does alone, so that what is proved of the components  *)
(* holds of the behaviours the composition is checked on.                  *)
(***************************************************************************)
EXTENDS MCClients, UserMailboxProofs, MailComposeProofs, NotificationStreamProofs,
        ClientAppProofs, AdminMfaProofs

\* A component takes its own steps, and none while another one is in focus.
LEMMA ClientsInitAll ==
  ClientsInit => /\ MailboxInit /\ ComposeInit /\ StreamInit /\ MobileInit /\ DesktopInit
                 /\ ActionsInit /\ AiInit /\ MfaInit
BY DEF ClientsInit

LEMMA ClientsNextAll ==
  [ClientsNext]_clientVars =>
    /\ [MailboxNext]_mailboxVars /\ [ComposeNext]_composeVars /\ [StreamNext]_streamVars
    /\ [MobileNext]_mobileVars /\ [DesktopNext]_desktopVars /\ [ActionsNext]_actionVars
    /\ [AiNext]_aiVars /\ [MfaNext]_mfaVars
BY Zenon DEF ClientsNext, clientVars

\* Each component implements its own specification.
THEOREM ClientsAreComponents ==
  ClientsSpec => /\ MailboxSpec /\ ComposeSpec /\ StreamSpec /\ MobileSpec /\ DesktopSpec
                 /\ ActionsSpec /\ AiSpec /\ MfaSpec
BY ClientsInitAll, ClientsNextAll, PTL
   DEF ClientsSpec, MailboxSpec, ComposeSpec, StreamSpec, MobileSpec, DesktopSpec, ActionsSpec,
       AiSpec, MfaSpec

\* Every variable of the composition keeps its type.
THEOREM ClientsTypeCorrect == ClientsSpec => []ClientsTypeOK
<1>1. /\ MailboxTypeOK /\ ComposeTypeOK /\ StreamTypeOK /\ MobileTypeOK /\ MfaTypeOK
      => ClientsTypeOK
  BY DEF ClientsTypeOK
<1> QED BY <1>1, ClientsAreComponents, MailboxTypeCorrect, ComposeTypeCorrect,
           StreamTypeCorrect, MobileTypeCorrect, MfaTypeCorrect, PTL

\* What is proved of each component as an invariant holds of the composition.
THEOREM ClientsSafe ==
  ClientsSpec => []( /\ LoadedDetailIsSelected /\ SelectionIsShown /\ ListIsOfFolder
                     /\ BadgeIsTrue /\ BulkBusyIsTrue
                     /\ UrlsAreOwned /\ ReservedIsTrue
                     /\ OneStream /\ GivesUpOnlyAfterFailures
                     /\ ScreenIsOfSession /\ RejectedIsDropped
                     /\ GateIsHeld /\ SpinnerIsTrue /\ OneAtATime
                     /\ AiGateIsHeld /\ ReadyIsStored /\ ModelsAreOfProvider /\ UnsavedIsKept
                     /\ TokensAreCurrent /\ NewestEnrolment /\ CodesAreSpent )
<1>1. ClientsSpec => []( /\ LoadedDetailIsSelected /\ SelectionIsShown /\ ListIsOfFolder
                         /\ BadgeIsTrue /\ BulkBusyIsTrue )
  BY ClientsAreComponents, DetailCorrect, SelectionCorrect, ListCorrect, BadgeCorrect,
     BulkBusyCorrect, PTL
<1>2. ClientsSpec => [](UrlsAreOwned /\ ReservedIsTrue /\ OneStream /\ GivesUpOnlyAfterFailures)
  BY ClientsAreComponents, UrlsCorrect, PlacesCorrect, StreamIsAlone, RetriesUsedUp, PTL
<1>3. ClientsSpec => []( /\ ScreenIsOfSession /\ RejectedIsDropped
                         /\ TokensAreCurrent /\ NewestEnrolment /\ CodesAreSpent )
  BY ClientsAreComponents, ScreenBelongsToSession, RejectedStaysDropped, TokensStayCurrent,
     EnrolmentsStayNewest, CodesStaySpent, PTL
<1>4. ClientsSpec => [](GateIsHeld /\ SpinnerIsTrue /\ OneAtATime)
  BY ClientsAreComponents, GatesHold, SpinnersAreTrue, ActionsAreAlone, PTL
<1>5. ClientsSpec => [](AiGateIsHeld /\ ReadyIsStored /\ ModelsAreOfProvider /\ UnsavedIsKept)
  BY ClientsAreComponents, AiGateHolds, ReadyStaysStored, ModelsStayOfProvider, UnsavedStays, PTL
<1> QED BY <1>1, <1>2, <1>3, <1>4, <1>5, PTL

\* The session controller implements the abstract session in the composition as well.
THEOREM ClientsKeepSessions == ClientsSpec => KeepsSession
BY ClientsAreComponents, MobileKeepsSession, PTL
=============================================================================
