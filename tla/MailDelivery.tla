---------------------------- MODULE MailDelivery ----------------------------
(***************************************************************************)
(* The outbound delivery queue of MoaWorks and the workers that drain it:  *)
(* backend/app/services/mail_delivery_operations.py (claim, renew,         *)
(* finalize, quota deferral, administrator retry), mail_delivery_service   *)
(* (deliver_claimed), mail_transports (the SMTP exchange), the daily quota *)
(* and the delivery status notifications (DSN) that come back.             *)
(*                                                                         *)
(* Every SQL transaction is one action.  A worker reads and writes the     *)
(* queue row in several transactions with the SMTP exchange between them,  *)
(* so each of its steps is an action of its own.                           *)
(***************************************************************************)
EXTENDS Integers, Sequences, FiniteSets

CONSTANTS
    Rows,       \* rows of mail_delivery_queue: one per (mail, recipient)
    Workers,    \* mail-worker processes
    Origins,    \* received mails that the auto-forward policy forwards
    OriginOf,   \* the received mail a row forwards, NoOrigin for other rows
    NoOrigin,
    KeepOriginal, \* origins whose policy keeps the original
    NoWorker,   \* the NULL of worker_id
    MaxRetry,   \* provider.max_retry_count
    Limit,      \* daily quota, 0 for no limit
    MaxMX,      \* bound: MX candidates of a recipient domain
    MaxToken,   \* bound: claims made in total
    MaxManual,  \* bound: retries that people request per row
    MaxDsn,     \* bound: distinct DSNs per row
    MaxDay      \* bound: midnights (Asia/Seoul)

ASSUME SetsAssumption ==
    /\ Rows # {}
    /\ NoWorker \notin Workers
    /\ NoOrigin \notin Origins
    /\ OriginOf \in [Rows -> Origins \cup {NoOrigin}]
    /\ KeepOriginal \subseteq Origins
    /\ IsFiniteSet(Workers)

ASSUME BoundsAssumption ==
    /\ MaxRetry \in Nat \ {0}
    /\ Limit \in Nat
    /\ MaxMX \in Nat \ {0}
    /\ MaxToken \in Nat
    /\ MaxManual \in Nat
    /\ MaxDsn \in Nat
    /\ MaxDay \in Nat

VARIABLES
    \* the row in PostgreSQL
    status, attemptCount, due, lease, claimToken, workerId,
    \* mail_delivery_attempts: the attempt numbers, in order of insertion
    attemptLog,
    \* mail_auto_forward_deliveries.status of the row; the deleted originals
    forwarded, deleted,
    \* provider.delivery_enabled /\ last_test_status = 'success'
    ready,
    \* mail_engine_daily_send_usage of today, the day, connections opened today
    usage, day, dialled,
    \* the worker: where it is in run_once, the job it holds, lost.is_set(),
    \* the MX candidates left, the DeliveryResult
    pc, job, lost, mx, result,
    \* the next fresh claim token
    nextToken,
    \* history: copies a remote server took, the claims they came from, the
    \* claims that sent the payload without an explicit refusal, and the
    \* requests of people and of remote servers to send again
    copies, acceptedBy, exposed, manual, confirmed, dsns

rowVars == <<status, attemptCount, due, lease, claimToken, workerId>>
forwardVars == <<forwarded, deleted>>
quotaVars == <<usage, day, dialled>>
workerVars == <<pc, job, lost, mx, result>>
historyVars == <<copies, acceptedBy, exposed>>
requestVars == <<manual, confirmed, dsns>>
vars == <<rowVars, attemptLog, forwardVars, ready, quotaVars, workerVars,
          nextToken, historyVars, requestVars>>

-----------------------------------------------------------------------------

Absent == "absent"                   \* not enqueued yet
Claimable == {"queued", "retry_pending"}
Status == Claimable \cup
    {Absent, "processing", "blocked", "sent", "failed", "result_unknown"}
LeaseState == {"none", "live", "expired"}
NoToken == 0                         \* the NULL of claim_token
Token == 0..MaxToken

\* Where a worker is in run_once.
PC == {"idle", "recover", "claimed", "prepare", "reserve", "dial", "session",
       "data", "payload", "record"}
\* The steps at which the keeper thread of run_once renews the lease.
Kept == PC \ {"idle", "recover", "claimed"}
\* The worker holds a claim it made itself.
Holding == Kept \cup {"claimed"}
Result == {"none", "blocked", "failed", "retry_pending", "sent",
           "result_unknown", "quota_deferred"}
Job == [row : Rows, token : Token, attempts : Nat]
NoJob == [row |-> CHOOSE q \in Rows : TRUE, token |-> NoToken, attempts |-> 0]

Init ==
    /\ status = [q \in Rows |-> Absent]
    /\ attemptCount = [q \in Rows |-> 0]
    /\ due = [q \in Rows |-> FALSE]
    /\ lease = [q \in Rows |-> "none"]
    /\ claimToken = [q \in Rows |-> NoToken]
    /\ workerId = [q \in Rows |-> NoWorker]
    /\ attemptLog = [q \in Rows |-> <<>>]
    /\ forwarded = [q \in Rows |-> Absent]
    /\ deleted = {}
    /\ ready \in BOOLEAN
    /\ usage = 0 /\ day = 0 /\ dialled = 0
    /\ pc = [w \in Workers |-> "idle"]
    /\ job = [w \in Workers |-> NoJob]
    /\ lost = [w \in Workers |-> FALSE]
    /\ mx = [w \in Workers |-> 0]
    /\ result = [w \in Workers |-> "none"]
    /\ nextToken = 1
    /\ copies = [q \in Rows |-> 0]
    /\ acceptedBy = [q \in Rows |-> {}]
    /\ exposed = [q \in Rows |-> {}]
    /\ manual = [q \in Rows |-> 0]
    /\ confirmed = [q \in Rows |-> 0]
    /\ dsns = [q \in Rows |-> 0]

-----------------------------------------------------------------------------
(* Rows enter the queue.  COALESCE(next_attempt_at, created_at) <= now is   *)
(* the Boolean due: a NULL next_attempt_at is due at once.                  *)

EnqueueStatus == IF ready THEN "queued" ELSE "blocked"

Insert(S) ==
    /\ S # {}
    /\ \A q \in S : status[q] = Absent
    /\ status' = [q \in Rows |-> IF q \in S THEN EnqueueStatus ELSE status[q]]
    /\ due' = [q \in Rows |-> q \in S \/ due[q]]
    /\ UNCHANGED <<attemptCount, lease, claimToken, workerId, attemptLog, ready,
                   quotaVars, workerVars, nextToken, historyVars, requestVars>>

\* send_mail queues an external recipient.
Enqueue(q) ==
    /\ OriginOf[q] = NoOrigin
    /\ Insert({q})
    /\ UNCHANGED forwardVars

\* apply_recipient queues every external forward of a received mail.  The
\* reconciliation at its end finds no forward sent yet.
ApplyRecipient(o) ==
    LET targets == {q \in Rows : OriginOf[q] = o}
    IN  /\ Insert(targets)
        /\ forwarded' = [q \in Rows |->
                            IF q \in targets THEN EnqueueStatus ELSE forwarded[q]]
        /\ UNCHANGED deleted

\* Time reaches next_attempt_at.
BecomeDue(q) ==
    /\ ~due[q]
    /\ status[q] # Absent
    /\ due' = [due EXCEPT ![q] = TRUE]
    /\ UNCHANGED <<status, attemptCount, lease, claimToken, workerId, attemptLog,
                   forwardVars, ready, quotaVars, workerVars, nextToken,
                   historyVars, requestVars>>

\* Two minutes pass without a renewal of the lease.
LeaseExpires(q) ==
    /\ lease[q] = "live"
    /\ lease' = [lease EXCEPT ![q] = "expired"]
    /\ UNCHANGED <<status, attemptCount, due, claimToken, workerId, attemptLog,
                   forwardVars, ready, quotaVars, workerVars, nextToken,
                   historyVars, requestVars>>

-----------------------------------------------------------------------------
(* claim_next, renew_claim and the keeper thread.                          *)

\* claim_next on a row waiting to be sent.  FOR UPDATE SKIP LOCKED passes over
\* the rows other transactions hold, so any due row may come first.
Claim(w, q) ==
    /\ pc[w] = "idle"
    /\ status[q] \in Claimable
    /\ due[q]
    /\ nextToken <= MaxToken
    /\ status' = [status EXCEPT ![q] = "processing"]
    /\ lease' = [lease EXCEPT ![q] = "live"]
    /\ claimToken' = [claimToken EXCEPT ![q] = nextToken]
    /\ workerId' = [workerId EXCEPT ![q] = w]
    /\ nextToken' = nextToken + 1
    /\ pc' = [pc EXCEPT ![w] = "claimed"]
    /\ job' = [job EXCEPT ![w] = [row |-> q, token |-> nextToken,
                                  attempts |-> attemptCount[q]]]
    /\ lost' = [lost EXCEPT ![w] = FALSE]
    /\ UNCHANGED <<attemptCount, due, attemptLog, forwardVars, ready, quotaVars,
                   mx, result, historyVars, requestVars>>

\* The lease of a claimed row is NULL or past.
MutLapsed(q) == status[q] = "processing" /\ lease[q] = "none"
Lapsed(q) == status[q] = "processing" /\ lease[q] # "live"

\* claim_next on a row whose lease ran out: it commits, releasing the row lock,
\* and recovers the row in a transaction of its own.
FindExpired(w, q) ==
    /\ pc[w] = "idle"
    /\ Lapsed(q)
    /\ pc' = [pc EXCEPT ![w] = "recover"]
    /\ job' = [job EXCEPT ![w] = [row |-> q, token |-> claimToken[q],
                                  attempts |-> attemptCount[q]]]
    /\ UNCHANGED <<rowVars, attemptLog, forwardVars, ready, quotaVars, lost, mx,
                   result, nextToken, historyVars, requestVars>>

\* The WHERE clause of renew_claim, finalize_claim and defer_claim_for_quota.
Owns(w) ==
    LET q == job[w].row
    IN  /\ status[q] = "processing"
        /\ workerId[q] = w
        /\ claimToken[q] = job[w].token
        /\ lease[q] = "live"

Drop(w) ==
    /\ pc' = [pc EXCEPT ![w] = "idle"]
    /\ mx' = [mx EXCEPT ![w] = 0]
    /\ result' = [result EXCEPT ![w] = "none"]
    /\ lost' = [lost EXCEPT ![w] = FALSE]
    /\ job' = [job EXCEPT ![w] = NoJob]

\* run_once leaves the row as it is: an exception outside the delivery, or the
\* end of the process, at any step.
Abandon(w) ==
    /\ pc[w] # "idle"
    /\ Drop(w)
    /\ UNCHANGED <<rowVars, attemptLog, forwardVars, ready, quotaVars, nextToken,
                   historyVars, requestVars>>

\* The keeper thread finds the claim gone, or cannot reach the database.
KeeperLosesClaim(w) ==
    /\ pc[w] \in Kept
    /\ ~lost[w]
    /\ lost' = [lost EXCEPT ![w] = TRUE]
    /\ UNCHANGED <<rowVars, attemptLog, forwardVars, ready, quotaVars, pc, job, mx,
                   result, nextToken, historyVars, requestVars>>

\* check_owner passes: the lease is renewed (it stays live).
CheckOwner(w) == ~lost[w] /\ Owns(w)

\* check_owner fails: MailTransportFailure ends the delivery, lost is set and
\* run_once returns without recording anything.
GiveUp(w) ==
    /\ pc[w] \in {"claimed", "session", "data"}
    /\ ~CheckOwner(w)
    /\ Drop(w)
    /\ UNCHANGED <<rowVars, attemptLog, forwardVars, ready, quotaVars, nextToken,
                   historyVars, requestVars>>

\* The first check_owner of run_once passes.
StartPrepare(w) ==
    /\ pc[w] = "claimed"
    /\ CheckOwner(w)
    /\ pc' = [pc EXCEPT ![w] = "prepare"]
    /\ UNCHANGED <<rowVars, attemptLog, forwardVars, ready, quotaVars, job, lost, mx,
                   result, nextToken, historyVars, requestVars>>

-----------------------------------------------------------------------------
(* deliver_claimed: from the provider snapshot to a DeliveryResult.  No     *)
(* step of this section but PayloadAccepted changes anything outside the   *)
(* worker, the quota and the remote server.                                *)

Conclude(w, r) ==
    /\ pc' = [pc EXCEPT ![w] = "record"]
    /\ result' = [result EXCEPT ![w] = r]

localUnchanged == <<rowVars, attemptLog, forwardVars, ready, job, lost, nextToken,
                    requestVars>>

\* prepare_claim reads the provider and the attachments; the adapter builds the
\* message.  "blocked": the snapshot is locked or untested, or the recipient is
\* on the OCI suppression list.  "failed": an attachment, the secret or the
\* message cannot be prepared, or the domain has no MX.  "result_unknown": the
\* MX lookup raises, in the send phase and outside the transport's own handler.
Prepare(w) ==
    /\ pc[w] = "prepare"
    /\ \/ /\ ready
          /\ \E n \in 1..MaxMX : mx' = [mx EXCEPT ![w] = n]
          /\ pc' = [pc EXCEPT ![w] = "reserve"]
          /\ UNCHANGED result
       \/ \E r \in {"blocked", "failed", "result_unknown"} :
             /\ r = "result_unknown" => ready
             /\ Conclude(w, r)
             /\ UNCHANGED mx
    /\ UNCHANGED <<localUnchanged, quotaVars, historyVars>>

\* The WHERE clause of the reservation's upsert.
MutQuotaLeft == Limit = 0 \/ usage <= Limit
QuotaLeft == Limit = 0 \/ usage < Limit

\* reserve_attempt, once per MX candidate.  A database error also defers.
Reserve(w) ==
    /\ pc[w] = "reserve"
    /\ \/ /\ QuotaLeft
          /\ usage' = usage + 1
          /\ pc' = [pc EXCEPT ![w] = "dial"]
          /\ UNCHANGED result
       \/ /\ Conclude(w, "quota_deferred")
          /\ UNCHANGED usage
    /\ UNCHANGED <<localUnchanged, mx, day, dialled, historyVars>>

\* The transport connects to the candidate.
Dial(w) ==
    /\ pc[w] = "dial"
    /\ pc' = [pc EXCEPT ![w] = "session"]
    /\ dialled' = dialled + 1
    /\ UNCHANGED <<localUnchanged, mx, result, usage, day, historyVars>>

\* MAIL, RCPT and the connection itself went well, and before_data still finds
\* the claim: the transport enters DATA.
EnterData(w) ==
    /\ pc[w] = "session"
    /\ CheckOwner(w)
    /\ pc' = [pc EXCEPT ![w] = "data"]
    /\ UNCHANGED <<localUnchanged, mx, result, quotaVars, historyVars>>

\* 354, and before_data finds the claim again: the payload goes out next.
EnterPayload(w) ==
    /\ pc[w] = "data"
    /\ CheckOwner(w)
    /\ pc' = [pc EXCEPT ![w] = "payload"]
    /\ exposed' = [exposed EXCEPT ![job[w].row] = @ \cup {job[w].token}]
    /\ UNCHANGED <<localUnchanged, mx, result, quotaVars, copies, acceptedBy>>

\* deliver_claimed on a transient failure of the last candidate.
MutTransientResult(attempts) ==
    IF attempts < MaxRetry THEN "retry_pending" ELSE "failed"
TransientResult(attempts) ==
    IF attempts + 1 < MaxRetry THEN "retry_pending" ELSE "failed"

\* A refusal or a broken connection that the transport classifies: a transient
\* one moves on to the next candidate.
Refused(w, transient) ==
    IF transient /\ mx[w] > 1
    THEN /\ mx' = [mx EXCEPT ![w] = @ - 1]
         /\ pc' = [pc EXCEPT ![w] = "reserve"]
         /\ UNCHANGED result
    ELSE /\ Conclude(w, IF transient THEN TransientResult(job[w].attempts)
                                     ELSE "failed")
         /\ UNCHANGED mx

\* ... before the payload was sent: connection, EHLO, STARTTLS, AUTH, MAIL,
\* RCPT, or a DATA command that is not answered with 354.
RefusedBeforeData(w) ==
    /\ pc[w] \in {"session", "data"}
    /\ \E transient \in BOOLEAN : Refused(w, transient)
    /\ UNCHANGED <<localUnchanged, quotaVars, historyVars>>

\* ... or after it, with an explicit 4xx or 5xx reply.
PayloadRefused(w) ==
    /\ pc[w] = "payload"
    /\ \E transient \in BOOLEAN : Refused(w, transient)
    /\ exposed' = [exposed EXCEPT ![job[w].row] = @ \ {job[w].token}]
    /\ UNCHANGED <<localUnchanged, quotaVars, copies, acceptedBy>>

\* What the worker makes of a lost reply to the payload.
MutLostReplyRetries(w) == TransientResult(job[w].attempts)
MutLostReplyIsSent(w) == "sent"
LostReply(w) == "result_unknown"

\* The server takes the message, and its 250 reaches the worker or is lost.
PayloadAccepted(w) ==
    /\ pc[w] = "payload"
    /\ copies' = [copies EXCEPT ![job[w].row] = @ + 1]
    /\ acceptedBy' = [acceptedBy EXCEPT ![job[w].row] = @ \cup {job[w].token}]
    /\ \E r \in {"sent", LostReply(w)} : Conclude(w, r)
    /\ UNCHANGED <<localUnchanged, mx, quotaVars, exposed>>

\* The server does not take it, and the worker cannot tell.
PayloadLost(w) ==
    /\ pc[w] = "payload"
    /\ Conclude(w, LostReply(w))
    /\ UNCHANGED <<localUnchanged, mx, quotaVars, historyVars>>

-----------------------------------------------------------------------------
(* finalize_claim and defer_claim_for_quota.                               *)

\* reconcile_original_retention: the original goes once every forward of it
\* is sent, unless the policy keeps originals.
MutReconcile(o, fwd) ==
    IF /\ o \notin KeepOriginal \cup {NoOrigin}
       /\ \E q \in Rows : OriginOf[q] = o /\ fwd[q] = "sent"
    THEN {o} ELSE {}
Reconcile(o, fwd) ==
    IF /\ o \notin KeepOriginal \cup {NoOrigin}
       /\ \A q \in Rows : OriginOf[q] = o => fwd[q] = "sent"
    THEN {o} ELSE {}

\* The transaction of finalize_claim once its UPDATE has matched the row.
Finalize(w, r) ==
    LET q == job[w].row
        n == job[w].attempts + 1
    IN  /\ status' = [status EXCEPT ![q] = r]
        /\ attemptCount' = [attemptCount EXCEPT ![q] = n]
        /\ due' = [due EXCEPT ![q] = r # "retry_pending"]
        /\ lease' = [lease EXCEPT ![q] = "none"]
        /\ attemptLog' = [attemptLog EXCEPT ![q] = Append(@, n)]
        /\ forwarded' = IF OriginOf[q] = NoOrigin THEN forwarded
                        ELSE [forwarded EXCEPT ![q] = r]
        /\ deleted' = deleted \cup Reconcile(OriginOf[q], forwarded')
        /\ Drop(w)
        /\ UNCHANGED <<claimToken, workerId, ready, quotaVars, nextToken,
                       historyVars, requestVars>>

FinalizeClaim(w) ==
    /\ pc[w] = "record"
    /\ result[w] # "quota_deferred"
    /\ ~lost[w]
    /\ Owns(w)
    /\ Finalize(w, result[w])

\* The WHERE clause of finalize_claim(recover_expired=True).
MutStillLapsed(w) == Lapsed(job[w].row)
StillLapsed(w) ==
    Lapsed(job[w].row) /\ claimToken[job[w].row] = job[w].token

RecoverExpired(w) ==
    /\ pc[w] = "recover"
    /\ StillLapsed(w)
    /\ Finalize(w, "result_unknown")

\* The row stays as it is when the UPDATE matches nothing.
RecordRefused(w) ==
    /\ \/ pc[w] = "recover" /\ ~StillLapsed(w)
       \/ pc[w] = "record" /\ (lost[w] \/ ~Owns(w))
    /\ Drop(w)
    /\ UNCHANGED <<rowVars, attemptLog, forwardVars, ready, quotaVars, nextToken,
                   historyVars, requestVars>>

DeferForQuota(w) ==
    LET q == job[w].row
    IN  /\ pc[w] = "record"
        /\ result[w] = "quota_deferred"
        /\ ~lost[w]
        /\ Owns(w)
        /\ status' = [status EXCEPT ![q] = "retry_pending"]
        /\ due' = [due EXCEPT ![q] = FALSE]
        /\ lease' = [lease EXCEPT ![q] = "none"]
        /\ workerId' = [workerId EXCEPT ![q] = NoWorker]
        /\ Drop(w)
        /\ UNCHANGED <<attemptCount, claimToken, attemptLog, forwardVars, ready,
                       quotaVars, nextToken, historyVars, requestVars>>

-----------------------------------------------------------------------------
(* Requests from people, DSNs, the provider's lock and midnight.           *)

\* The administrator's retry; confirm is confirm_duplicate_risk.
MayRetry(q, confirm) ==
    /\ status[q] \in {"failed", "blocked", "retry_pending", "result_unknown"}
    /\ status[q] = "result_unknown" => confirm
Retry(q, confirm) ==
    /\ manual[q] < MaxManual
    /\ MayRetry(q, confirm)
    /\ confirmed' = IF confirm /\ status[q] = "result_unknown"
                    THEN [confirmed EXCEPT ![q] = @ + 1] ELSE confirmed
    /\ manual' = [manual EXCEPT ![q] = @ + 1]
    /\ status' = [status EXCEPT ![q] = "queued"]
    /\ due' = [due EXCEPT ![q] = TRUE]
    /\ lease' = [lease EXCEPT ![q] = "none"]
    /\ claimToken' = [claimToken EXCEPT ![q] = NoToken]
    /\ workerId' = [workerId EXCEPT ![q] = NoWorker]
    /\ UNCHANGED <<attemptCount, attemptLog, forwardVars, ready, quotaVars,
                   workerVars, nextToken, historyVars, dsns>>

\* The sender's retry_scheduled_mail; it leaves the claim token in the row.
SenderRetry(q) ==
    /\ manual[q] < MaxManual
    /\ ready
    /\ status[q] \in {"failed", "blocked"}
    /\ manual' = [manual EXCEPT ![q] = @ + 1]
    /\ status' = [status EXCEPT ![q] = "queued"]
    /\ due' = [due EXCEPT ![q] = TRUE]
    /\ lease' = [lease EXCEPT ![q] = "none"]
    /\ workerId' = [workerId EXCEPT ![q] = NoWorker]
    /\ UNCHANGED <<attemptCount, claimToken, attemptLog, forwardVars, ready,
                   quotaVars, workerVars, nextToken, historyVars, confirmed, dsns>>

\* record: what a DSN's Action makes of the row.
MutDsnStatus(action) == action
DsnStatus(action) ==
    CASE action = "delayed" -> "retry_pending"
      [] action \in {"delivered", "relayed"} -> "sent"
      [] OTHER -> "failed"

\* A server that took a copy reports on it, at any later time.  record writes
\* the status whatever it was and touches no other column modelled here.
RecordFeedback(q, action) ==
    /\ dsns[q] < MaxDsn
    /\ copies[q] > 0
    /\ dsns' = [dsns EXCEPT ![q] = @ + 1]
    /\ status' = [status EXCEPT ![q] = DsnStatus(action)]
    /\ UNCHANGED <<attemptCount, due, lease, claimToken, workerId, attemptLog,
                   forwardVars, ready, quotaVars, workerVars, nextToken,
                   historyVars, manual, confirmed>>

\* update_provider and test_provider lock or open the provider.
ProviderChanges ==
    /\ ready' = ~ready
    /\ UNCHANGED <<rowVars, attemptLog, forwardVars, quotaVars, workerVars,
                   nextToken, historyVars, requestVars>>

\* Midnight in Asia/Seoul starts a new usage_date.
NewDay ==
    /\ day < MaxDay
    /\ day' = day + 1
    /\ usage' = 0
    /\ dialled' = 0
    /\ UNCHANGED <<rowVars, attemptLog, forwardVars, ready, workerVars, nextToken,
                   historyVars, requestVars>>

-----------------------------------------------------------------------------

\* One step of run_once.
WorkerStep(w) ==
    \/ GiveUp(w) \/ StartPrepare(w) \/ Prepare(w) \/ Reserve(w) \/ Dial(w)
    \/ EnterData(w) \/ EnterPayload(w) \/ RefusedBeforeData(w)
    \/ PayloadRefused(w) \/ PayloadAccepted(w) \/ PayloadLost(w)
    \/ FinalizeClaim(w) \/ RecoverExpired(w) \/ RecordRefused(w)
    \/ DeferForQuota(w)

Next ==
    \/ \E q \in Rows : Enqueue(q)
    \/ \E o \in Origins : ApplyRecipient(o)
    \/ \E q \in Rows : BecomeDue(q)
    \/ \E q \in Rows : LeaseExpires(q)
    \/ \E w \in Workers, q \in Rows : Claim(w, q)
    \/ \E w \in Workers, q \in Rows : FindExpired(w, q)
    \/ \E w \in Workers : Abandon(w)
    \/ \E w \in Workers : KeeperLosesClaim(w)
    \/ \E w \in Workers : WorkerStep(w)
    \/ \E q \in Rows, confirm \in BOOLEAN : Retry(q, confirm)
    \/ \E q \in Rows : SenderRetry(q)
    \/ \E q \in Rows, a \in {"failed", "delayed", "delivered"} : RecordFeedback(q, a)
    \/ ProviderChanges
    \/ NewDay

Spec == Init /\ [][Next]_vars

-----------------------------------------------------------------------------
(* Fairness.  A worker process that runs takes its next step; SMTP and the  *)
(* database have timeouts.  Time passes once nobody renews a lease.  The    *)
(* pollers come back to the queue every few seconds, so an expired row is   *)
(* found again and again, and a worker does not die every time it recovers  *)
(* one.  Nothing is assumed of people, remote servers or the provider.      *)

Unattended(q) ==
    \A w \in Workers : pc[w] \in Holding => job[w].token # claimToken[q]

Fairness ==
    /\ \A w \in Workers : WF_vars(WorkerStep(w)) /\ SF_vars(RecoverExpired(w))
    /\ \A q \in Rows : WF_vars(Unattended(q) /\ LeaseExpires(q))
    /\ \A q \in Rows : SF_vars(\E w \in Workers : FindExpired(w, q))

FairSpec == Spec /\ Fairness

-----------------------------------------------------------------------------
(* Properties.                                                             *)

RowTypes ==
    /\ status \in [Rows -> Status]
    /\ attemptCount \in [Rows -> Nat]
    /\ due \in [Rows -> BOOLEAN]
    /\ lease \in [Rows -> LeaseState]
    /\ claimToken \in [Rows -> Token]
    /\ workerId \in [Rows -> Workers \cup {NoWorker}]
    /\ nextToken \in 1..(MaxToken + 1)

LogTypes ==
    /\ attemptLog \in [Rows -> Seq(Nat)]
    /\ forwarded \in [Rows -> Status]
    /\ deleted \subseteq Origins

SettingTypes ==
    /\ ready \in BOOLEAN
    /\ usage \in Nat
    /\ day \in 0..MaxDay
    /\ dialled \in Nat

WorkerTypes ==
    /\ pc \in [Workers -> PC]
    /\ job \in [Workers -> Job]
    /\ lost \in [Workers -> BOOLEAN]
    /\ mx \in [Workers -> 0..MaxMX]
    /\ result \in [Workers -> Result]

HistoryTypes ==
    /\ copies \in [Rows -> Nat]
    /\ acceptedBy \in [Rows -> SUBSET Token]
    /\ exposed \in [Rows -> SUBSET Token]
    /\ manual \in [Rows -> 0..MaxManual]
    /\ confirmed \in [Rows -> Nat]
    /\ dsns \in [Rows -> 0..MaxDsn]

\* Every variable has its type: in particular a row's status is one of the
\* states the queue's SQL knows, never a raw DSN action.
TypeOK == RowTypes /\ LogTypes /\ SettingTypes /\ WorkerTypes /\ HistoryTypes

\* The recipient gets one copy, and one more for each time an administrator
\* confirmed the duplicate risk of a result_unknown row or a DSN rewrote the
\* row's status - whatever workers, leases, MX candidates and crashes do.
AtMostOnce ==
    \A q \in Rows : copies[q] <= 1 + confirmed[q] + dsns[q]

\* mail_delivery_attempts holds the attempts 1..attempt_count in order: the
\* UNIQUE(queue_id, attempt_number) insert of finalize_claim never fails.
AttemptLogContiguous ==
    \A q \in Rows :
        /\ Len(attemptLog[q]) = attemptCount[q]
        /\ \A i \in 1..attemptCount[q] : attemptLog[q][i] = i

\* A mail a server took never reads failed, blocked or due for another try,
\* unless a person confirmed the risk or a DSN said so.
AcceptedStaysClosed ==
    \A q \in Rows :
        copies[q] > 0 /\ confirmed[q] = 0 /\ dsns[q] = 0
            => status[q] \in {"processing", "sent", "result_unknown"}

\* Automatic retries are bounded: beyond max_retry_count every recorded attempt
\* needs a request of a person or a DSN.
RetryBudget ==
    \A q \in Rows : attemptCount[q] <= MaxRetry + manual[q] + dsns[q]

\* reconcile_original_retention deletes an original only when a server took
\* each of its forwards.
OriginalDeletedAfterForward ==
    \A o \in deleted : \A q \in Rows : OriginOf[q] = o => copies[q] > 0

\* Connections opened in a day stay within the quota, up to one per worker for
\* a reservation made just before midnight.
DailyLimit ==
    Limit > 0 => /\ usage <= Limit
                 /\ dialled <= Limit + Cardinality(Workers)

\* mail_delivery_operations.py:153: a result_unknown row goes back to sending
\* only after an explicit confirmation of the duplicate risk.
UnknownNeedsConfirmation ==
    [][\A q \in Rows :
          status[q] = "result_unknown" /\ status'[q] \in Claimable
              => confirmed'[q] > confirmed[q]]_vars

\* No row stays in processing for ever, whatever happened to its worker.
ClaimsEnd ==
    \A q \in Rows : status[q] = "processing" ~> status[q] # "processing"

(***************************************************************************)
(* The queue implements AtMostOnceDelivery.  A payload without an answer   *)
(* stays under way, whatever becomes of the worker that sent it.           *)
(***************************************************************************)
Underway == [q \in Rows |-> Cardinality(exposed[q] \ acceptedBy[q])]
Granted == [q \in Rows |-> confirmed[q] + dsns[q]]

Promise == INSTANCE AtMostOnceDelivery WITH
    told <- status, underway <- Underway, granted <- Granted

\* The promises of AtMostOnceDelivery, for every interleaving of claims, leases,
\* recoveries, retries and DSNs.
KeepsPromise == Promise!PromiseSpec

=============================================================================
