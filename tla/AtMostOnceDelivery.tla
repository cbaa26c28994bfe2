------------------------- MODULE AtMostOnceDelivery -------------------------
(***************************************************************************)
(* What the outbound queue promises for each recipient of a mail, without  *)
(* claims, leases, workers, MX candidates or crashes.                      *)
(*                                                                         *)
(*  - A payload goes out only on a permit.  A row starts with one; a       *)
(*    confirmation of the duplicate risk and a DSN are worth one each.     *)
(*  - A permit comes back only when the server refuses the payload.        *)
(*  - Sent is read only once a server has a copy, and a reading that may   *)
(*    lead to another try only while a permit is left.                     *)
(*  - A row that reads sent changes by a DSN only, one that reads          *)
(*    result_unknown by a DSN or a confirmation only.                      *)
(***************************************************************************)
EXTENDS Naturals

CONSTANT Rows

VARIABLES told,     \* what the sender and the administrator read
          copies,   \* copies that remote servers took
          underway, \* payloads sent with no refusal and no copy known
          granted   \* confirmations and DSNs

promiseVars == <<told, copies, underway, granted>>

Unsent == {"queued", "retry_pending", "blocked", "failed"}

\* A payload more may go out.
Permitted(q) == copies[q] + underway[q] < 1 + granted[q]

PromiseInit ==
  /\ told = [q \in Rows |-> "absent"]
  /\ copies = [q \in Rows |-> 0]
  /\ underway = [q \in Rows |-> 0]
  /\ granted = [q \in Rows |-> 0]

Tell(q, reading) == told' = [told EXCEPT ![q] = reading]
OnlyTold == UNCHANGED <<copies, underway, granted>>

\* Recipients enter the queue together.
Enter(S) ==
  /\ \A q \in S : told[q] = "absent"
  /\ \E reading \in {"queued", "blocked"} :
        told' = [q \in Rows |-> IF q \in S THEN reading ELSE told[q]]
  /\ OnlyTold

Begin(q) ==
  /\ told[q] \in {"queued", "retry_pending"}
  /\ Tell(q, "processing")
  /\ OnlyTold

\* The payload goes out.
Expose(q) ==
  /\ told[q] = "processing" /\ Permitted(q)
  /\ underway' = [underway EXCEPT ![q] = @ + 1]
  /\ UNCHANGED <<told, copies, granted>>

\* The server refuses it, or takes it; no answer is a step of nobody.
Refuse(q) ==
  /\ underway[q] > 0
  /\ underway' = [underway EXCEPT ![q] = @ - 1]
  /\ UNCHANGED <<told, copies, granted>>

Accept(q) ==
  /\ underway[q] > 0
  /\ underway' = [underway EXCEPT ![q] = @ - 1]
  /\ copies' = [copies EXCEPT ![q] = @ + 1]
  /\ UNCHANGED <<told, granted>>

\* The attempt ends for the people who read the row.
Settle(q, reading) ==
  /\ told[q] = "processing"
  /\ reading = "sent" => copies[q] > 0
  /\ reading \in Unsent => Permitted(q)
  /\ Tell(q, reading)
  /\ OnlyTold

\* A person asks for another try of a mail that was not sent ...
Resend(q) ==
  /\ told[q] \in Unsent /\ Permitted(q)
  /\ Tell(q, "queued")
  /\ OnlyTold

\* ... or confirms the risk of a second copy.
Confirm(q) ==
  /\ told[q] = "result_unknown"
  /\ Tell(q, "queued")
  /\ granted' = [granted EXCEPT ![q] = @ + 1]
  /\ UNCHANGED <<copies, underway>>

\* A server that has a copy reports on it.
Report(q, reading) ==
  /\ copies[q] > 0
  /\ Tell(q, reading)
  /\ granted' = [granted EXCEPT ![q] = @ + 1]
  /\ UNCHANGED <<copies, underway>>

PromiseNext ==
  \/ \E S \in SUBSET Rows : Enter(S)
  \/ \E q \in Rows :
        \/ Begin(q) \/ Expose(q) \/ Refuse(q) \/ Accept(q) \/ Resend(q) \/ Confirm(q)
        \/ \E r \in (Unsent \ {"queued"}) \cup {"sent", "result_unknown"} : Settle(q, r)
        \/ \E r \in {"sent", "failed", "retry_pending"} : Report(q, r)

PromiseSpec == PromiseInit /\ [][PromiseNext]_promiseVars
=============================================================================
