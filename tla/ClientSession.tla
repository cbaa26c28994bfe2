--------------------------- MODULE ClientSession ---------------------------
(***************************************************************************)
(* What a client with a sign-in promises, whatever its requests do.  A     *)
(* session is named by the sign-in attempt it comes from.                  *)
(*                                                                         *)
(*  - A session begins only for the attempt the user started last.         *)
(*  - It ends only because the user leaves, or because the server refused  *)
(*    the credential of that very session.                                 *)
(*  - The screen shows data of the session that is active, and none of it  *)
(*    is left when the session has ended.                                  *)
(***************************************************************************)
EXTENDS Naturals

VARIABLES begun,    \* the attempts ever started
          wanted,   \* the attempt the user waits for, 0 if there is none
          active,   \* the session the client is in, 0 if there is none
          shown,    \* the session whose data is on the screen, 0 if there is none
          refused   \* the sessions of which the server refused a request

clientVars == <<begun, wanted, active, shown, refused>>

ClientInit == begun = {} /\ wanted = 0 /\ active = 0 /\ shown = 0 /\ refused = {}

\* The user signs in: an earlier attempt is forgotten.
Begin ==
  /\ active = 0 /\ wanted' \in Nat \ ({0} \cup begun)
  /\ begun' = begun \cup {wanted'}
  /\ UNCHANGED <<active, shown, refused>>

\* The attempt fails for another reason than a refusal.
GiveUp ==
  /\ wanted # 0 /\ wanted' = 0
  /\ UNCHANGED <<begun, active, shown, refused>>

Establish ==
  /\ wanted # 0 /\ active = 0
  /\ active' = wanted /\ shown' = wanted /\ wanted' = 0
  /\ UNCHANGED <<begun, refused>>

\* Data of the session arrives.
Show ==
  /\ active # 0 /\ shown' = active
  /\ UNCHANGED <<begun, wanted, active, refused>>

\* The user signs out.
Leave ==
  /\ active # 0
  /\ active' = 0 /\ shown' = 0
  /\ UNCHANGED <<begun, wanted, refused>>

\* The server refuses a request of session s.
Refuse(s) ==
  /\ refused' = refused \cup {s}
  /\ IF s = active THEN active' = 0 /\ shown' = 0 ELSE UNCHANGED <<active, shown>>
  /\ wanted' = IF s = wanted THEN 0 ELSE wanted
  /\ UNCHANGED begun

ClientNext ==
  \/ Begin \/ GiveUp \/ Establish \/ Show \/ Leave
  \/ \E s \in begun : Refuse(s)

ClientSpec == ClientInit /\ [][ClientNext]_clientVars
=============================================================================
