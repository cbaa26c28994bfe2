--------------------------- MODULE MobileActions ---------------------------
(***************************************************************************)
(* What the buttons of the mobile app start (mobile-app/App.tsx): actions  *)
(* that wait for the server behind a gate, so that a second tap does not   *)
(* start them again.  Gates live in refs and change at once; the pending   *)
(* flags belong to the render.                                             *)
(*                                                                         *)
(* A handler runs from one await to the next; the session it captured may  *)
(* be over when it goes on.  Sessions are numbered, 0 is signed out.       *)
(***************************************************************************)
EXTENDS Naturals, FiniteSets

CONSTANTS Members,       \* people of the directory
          MaxSessions,   \* bound: sign-ins
          MaxTaps        \* bound: what the user does

ASSUME ActionsAssumption ==
  /\ Members \cap {"mail", "translation", "room", "schedule"} = {}
  /\ MaxSessions \in Nat /\ MaxTaps \in Nat

VARIABLES
  session, sessions,   \* the session that is current, how many there were
  taps,                \* what the user has done; numbers the actions
  gate,                \* the gates that are closed
  spinning,            \* the pending flags that are set
  actions,             \* actions on their way
  alerts,              \* confirmations on the screen: mails that may be sent
  listing,             \* directory requests of the room composer
  listingShown,        \* roomDirectoryLoading
  openedLate           \* history: a mail of a former session has opened the gate

actionVars == <<session, sessions, taps, gate, spinning, actions, alerts, listing,
                listingShown, openedLate>>

\* Kinds of action; a direct conversation has a gate per person.
Keys == {"mail", "translation", "room", "schedule"} \cup Members

ActionsInit ==
  /\ session = 0 /\ sessions = 0 /\ taps = 0
  /\ gate = {} /\ spinning = {} /\ actions = {} /\ alerts = {}
  /\ listing = {} /\ listingShown = FALSE /\ openedLate = FALSE

Tap == session # 0 /\ taps < MaxTaps /\ taps' = taps + 1

\* stage: "sent", then "reloading" while the lists are loaded again.
Action(k, id) == [id |-> id, key |-> k, session |-> session, stage |-> "sent"]

\* isCurrent
IsOfSession(a) == a.session = session

-----------------------------------------------------------------------------
(* Sign-in and sign-out: onLoginCommitted, onSessionReset. *)

\* Every gate is opened, every flag cleared.
ResetActions ==
  /\ gate' = {} /\ spinning' = {}
  /\ listing' = {[l EXCEPT !.newest = FALSE] : l \in listing} /\ listingShown' = FALSE
  /\ openedLate' = FALSE

StartSession ==
  /\ session = 0 /\ sessions < MaxSessions
  /\ session' = sessions + 1 /\ sessions' = sessions + 1
  /\ ResetActions
  /\ UNCHANGED <<taps, actions, alerts>>

\* A dialog of the system is not closed with the session.
EndSession ==
  /\ session # 0
  /\ session' = 0
  /\ ResetActions
  /\ UNCHANGED <<sessions, taps, actions, alerts>>

-----------------------------------------------------------------------------
(* Actions behind a gate. *)

\* Whoever is in is not asked.
MutIsOpen(k) == TRUE
\* tryEnter, and the refs that stand for it
IsOpen(k) == k \notin gate

\* directoryBusyUserId holds one person.
Enter(a) ==
  /\ IsOpen(a.key)
  /\ gate' = gate \cup {a.key}
  /\ spinning' = (IF a.key \in Members THEN spinning \ Members ELSE spinning) \cup {a.key}
  /\ actions' = actions \cup {a}

\* updateRoomTranslation, createSchedule, submitRoomCreate, startDirectRoom: the
\* button is disabled while the flag is set.
Begin(k) ==
  /\ Tap /\ k # "mail" /\ k \notin spinning
  /\ k = "room" => ~listingShown
  /\ Enter(Action(k, taps + 1))
  /\ UNCHANGED <<session, sessions, alerts, listing, listingShown, openedLate>>

\* confirmSendMail: until the dialog shows, the button can be tapped again.
AskToSend ==
  /\ Tap /\ "mail" \notin spinning \cup gate /\ Cardinality(alerts) < 2
  /\ alerts' = alerts \cup {[id |-> taps + 1, session |-> session]}
  /\ UNCHANGED <<session, sessions, gate, spinning, actions, listing, listingShown, openedLate>>

\* performSendMail, for the session in which it was asked.
SendMail(q) ==
  /\ q \in alerts
  /\ alerts' = alerts \ {q}
  /\ IF IsOpen("mail") /\ IsOfSession(q) THEN Enter(Action("mail", q.id))
     ELSE UNCHANGED <<gate, spinning, actions>>
  /\ UNCHANGED <<session, sessions, taps, listing, listingShown, openedLate>>

CancelMail(q) ==
  /\ q \in alerts
  /\ alerts' = alerts \ {q}
  /\ UNCHANGED <<session, sessions, taps, gate, spinning, actions, listing, listingShown,
                 openedLate>>

\* The finally block asks nobody.
MutReleases(a) == TRUE
\* The gates of mail and translation are opened by every action that ends, the
\* others by those of the current session.
Releases(a) == IsOfSession(a) \/ a.key \in {"mail", "translation"}

\* The finally blocks.
End(a) ==
  /\ actions' = actions \ {a}
  /\ gate' = IF Releases(a) THEN gate \ {a.key} ELSE gate
  /\ spinning' = IF IsOfSession(a)
                 THEN spinning \ (IF a.key \in Members THEN Members ELSE {a.key})
                 ELSE spinning
  /\ openedLate' = (openedLate \/ (a.key = "mail" /\ ~IsOfSession(a)))

\* The server has answered: the lists are loaded again behind the closed gate.
Answered(a) ==
  /\ a \in actions /\ a.stage = "sent"
  /\ IF IsOfSession(a) /\ a.key # "translation"
     THEN /\ actions' = (actions \ {a}) \cup {[a EXCEPT !.stage = "reloading"]}
          /\ UNCHANGED <<gate, spinning, openedLate>>
     ELSE End(a)
  /\ UNCHANGED <<session, sessions, taps, alerts, listing, listingShown>>

\* The request fails, or the lists are there.
Over(a) ==
  /\ a \in actions
  /\ End(a)
  /\ UNCHANGED <<session, sessions, taps, alerts, listing, listingShown>>

-----------------------------------------------------------------------------
(* The room composer loads the people one may choose. *)

OpenRoomComposer ==
  /\ Tap
  /\ listing' = {[l EXCEPT !.newest = FALSE] : l \in listing}
                  \cup {[id |-> taps + 1, newest |-> TRUE, session |-> session]}
  /\ listingShown' = TRUE
  /\ UNCHANGED <<session, sessions, gate, spinning, actions, alerts, openedLate>>

\* Any answer of this session ends the spinner.
MutIsNewestListing(l) == IsOfSession(l)
\* roomDirectoryRequestRef.current === requestGeneration
IsNewestListing(l) == IsOfSession(l) /\ l.newest

\* Success, failure and finally alike.
ListingEnds(l) ==
  /\ l \in listing
  /\ listing' = listing \ {l}
  /\ listingShown' = (listingShown /\ ~IsNewestListing(l))
  /\ UNCHANGED <<session, sessions, taps, gate, spinning, actions, alerts, openedLate>>

-----------------------------------------------------------------------------
ActionsNext ==
  \/ StartSession \/ EndSession \/ AskToSend \/ OpenRoomComposer
  \/ \E k \in Keys : Begin(k)
  \/ \E q \in alerts : SendMail(q) \/ CancelMail(q)
  \/ \E l \in listing : ListingEnds(l)
  \/ \E a \in actions : Answered(a) \/ Over(a)

ActionsSpec == ActionsInit /\ [][ActionsNext]_actionVars

-----------------------------------------------------------------------------
OnTheWay(k) == {a \in actions : a.key = k /\ IsOfSession(a)}

\* The gate of a room, a schedule or a conversation is closed exactly while an
\* action of the current session is behind it: no answer, failure or finally
\* block of a former session opens it, no end of a session leaves it closed.
\* The gates of mail and translation may open early, they never stay closed.
GateIsHeld ==
  \A k \in Keys :
    /\ k \in gate => OnTheWay(k) # {}
    /\ k \notin {"mail", "translation"} /\ OnTheWay(k) # {} => k \in gate

\* A button shows that it is busy exactly while its action is on its way in
\* this session, and so does the list of people in the room composer.
SpinnerIsTrue ==
  /\ \A k \in {"translation", "room", "schedule"} : k \in spinning <=> OnTheWay(k) # {}
  /\ listingShown <=> \E l \in listing : IsOfSession(l) /\ l.newest

\* Taps, dialogs and late answers never start the same action twice in one
\* session - save the mail, whose gate a mail of a former session can open.
OneAtATime ==
  \A k \in Keys : Cardinality(OnTheWay(k)) <= 1 \/ (k = "mail" /\ openedLate)
=============================================================================
