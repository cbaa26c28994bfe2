-------------------------- MODULE ExternalCollection --------------------------
(***************************************************************************)
(* Collection of mail from a user's external POP3 account:                 *)
(* backend/app/workers/mail_external_worker.py (jobs, leases, the POP3     *)
(* session) and backend/app/services/mail_external_service.py (the account *)
(* and its connection test).  One account, its jobs one after another.     *)
(*                                                                         *)
(* The database remembers a message by its UIDL; POP3 addresses it by a    *)
(* number that is good for one session, and deletes it only at QUIT.       *)
(***************************************************************************)
EXTENDS Integers, Sequences, FiniteSets

CONSTANTS
    Workers,    \* mail-external-worker processes
    Messages,   \* messages of the remote maildrops
    Boxes,      \* values of host, port, tls_mode, username and password
    NoBox,
    BoxOf,      \* the maildrop a message is in
    UidlOf,     \* the identifier its server gives it
    Batch,      \* messages a collection looks at (100 in the code)
    MaxJobs,    \* bound: collection jobs
    MaxUpdates  \* bound: edits of the account

ASSUME BoxAssumption ==
    /\ NoBox \notin Boxes
    /\ BoxOf \in [Messages -> Boxes]
    /\ IsFiniteSet(Messages)
    /\ DOMAIN UidlOf = Messages

\* A server gives no two messages of a maildrop the same UIDL.
ASSUME UidlAssumption ==
    \A m, n \in Messages :
        BoxOf[m] = BoxOf[n] /\ UidlOf[m] = UidlOf[n] => m = n

ASSUME BoundAssumption ==
    Batch \in Nat \ {0} /\ MaxJobs \in Nat /\ MaxUpdates \in Nat

VARIABLES
    \* the newest row of mail_external_collection_jobs
    jobNo, jobStatus, attempts, lease, jobDue,
    \* the row of mail_external_accounts; collectDue is next_collect_at <= now
    box, connection, enabled, deleteRemote, gone, collectDue,
    \* mail_external_imports.remote_delete_status by UIDL
    imports,
    \* the messages the remote maildrops hold
    drop,
    \* requests of the user between their check and their write, the box a
    \* connection test dials
    requests, testing,
    \* the worker: where it is in run_once, its local variables, its client
    pc, run, session,
    \* bound
    updates,
    \* history: local copies made, messages our QUITs removed, messages that
    \* arrived
    copies, removed, arrived

jobVars == <<jobNo, jobStatus, attempts, lease, jobDue>>
accountVars == <<box, connection, enabled, deleteRemote, gone>>
userVars == <<requests, testing, updates>>
remoteVars == <<drop, removed, arrived>>
localVars == <<imports, copies>>
workerVars == <<pc, run, session>>
vars == <<jobVars, accountVars, collectDue, localVars, remoteVars, userVars,
          workerVars>>

-----------------------------------------------------------------------------

Uidls == {UidlOf[m] : m \in Messages}
ImportState == {"none", "kept", "pending", "deleted", "failed"}
MaxAttempts == 3
InItem == {"item", "remote", "store", "stored"}
PC == InItem \cup {"idle", "enqueue", "claim", "context", "open", "loop",
                   "quit", "states", "finalize", "lost", "abort", "giveup"}

Session == [open : BOOLEAN, msgs : Seq(Messages), marked : SUBSET Messages]
Run == [no : Nat, attempts : Nat, box : Boxes \cup {NoBox}, delete : BOOLEAN,
        listing : Seq(Messages), pos : Nat \ {0},
        action : {"import", "delete_only", "deleted", "failed"},
        pending : SUBSET Uidls, failed : BOOLEAN]
Closed == [open |-> FALSE, msgs |-> <<>>, marked |-> {}]
\* no, attempts: the claimed row.  box, delete: the account as _context read it.
\* listing: the messages the loop runs over, pos: the next one.
NoRun == [no |-> 0, attempts |-> 0, box |-> NoBox, delete |-> FALSE,
          listing |-> <<>>, pos |-> 1, action |-> "import",
          pending |-> {}, failed |-> FALSE]

\* An account just created: not tested, not enabled, never collected.
Init ==
    /\ jobNo = 0 /\ jobStatus = "none" /\ attempts = 0
    /\ lease = "none" /\ jobDue = FALSE
    /\ box \in Boxes /\ connection = "untested" /\ enabled = FALSE
    /\ deleteRemote \in BOOLEAN /\ gone = FALSE /\ collectDue = TRUE
    /\ imports = [u \in Uidls |-> "none"]
    /\ drop = {}
    /\ requests = {} /\ testing = NoBox /\ updates = 0
    /\ pc = [w \in Workers |-> "idle"]
    /\ run = [w \in Workers |-> NoRun]
    /\ session = [w \in Workers |-> Closed]
    /\ copies = [m \in Messages |-> 0]
    /\ removed = {} /\ arrived = {}

-----------------------------------------------------------------------------
(* Jobs.  lease_owner is the same constant for every worker, so a guarded   *)
(* UPDATE only asks whether the row is still running.                       *)

Active == jobStatus \in {"queued", "running"}
HoldsLease(w) == jobStatus = "running" /\ jobNo = run[w].no

\* INSERT ... ON CONFLICT DO NOTHING against uq_mail_external_active_job.
InsertJob ==
    IF Active \/ jobNo = MaxJobs
    THEN UNCHANGED jobVars
    ELSE /\ jobNo' = jobNo + 1
         /\ jobStatus' = "queued"
         /\ attempts' = 0
         /\ lease' = "none"
         /\ jobDue' = TRUE

\* attempt_count has reached the last try.
MutExhausted(n) == n > MaxAttempts
Exhausted(n) == n >= MaxAttempts

\* Forgets the second UPDATE of the sweep.
MutExpired == jobStatus = "running" /\ lease = "expired" /\ ~Exhausted(attempts)
Expired == jobStatus = "running" /\ lease = "expired"

\* The job is put back, or ends.
MutRelease(st, due) ==
    /\ jobStatus' = st
    /\ jobDue' = due
    /\ UNCHANGED <<jobNo, attempts, lease>>
Release(st, due) ==
    /\ jobStatus' = st
    /\ lease' = "none"
    /\ jobDue' = due
    /\ UNCHANGED <<jobNo, attempts>>

Goto(w, l) == pc' = [pc EXCEPT ![w] = l]
Return(w) ==
    /\ Goto(w, "idle")
    /\ run' = [run EXCEPT ![w] = NoRun]
    /\ session' = [session EXCEPT ![w] = Closed]

JobBecomesDue ==
    /\ jobStatus = "queued" /\ ~jobDue
    /\ jobDue' = TRUE
    /\ UNCHANGED <<jobNo, jobStatus, attempts, lease, accountVars, collectDue,
                   localVars, remoteVars, userVars, workerVars>>

CollectBecomesDue ==
    /\ ~collectDue
    /\ collectDue' = TRUE
    /\ UNCHANGED <<jobVars, accountVars, localVars, remoteVars, userVars, workerVars>>

\* Five minutes without a heartbeat.
LeaseExpires ==
    /\ jobStatus = "running" /\ lease = "live"
    /\ lease' = "expired"
    /\ UNCHANGED <<jobNo, jobStatus, attempts, jobDue, accountVars, collectDue,
                   localVars, remoteVars, userVars, workerVars>>

\* _enqueue_scheduled: expired jobs, then the account if it is due.  The SELECT
\* and the INSERT are two statements without a lock.
Sweep(w) ==
    /\ pc[w] = "idle"
    /\ IF Expired
       THEN IF Exhausted(attempts)
            THEN Release("failed", FALSE)
            ELSE Release("queued", TRUE)
       ELSE UNCHANGED jobVars
    /\ Goto(w, IF ~gone /\ enabled /\ connection = "success" /\ collectDue
               THEN "enqueue" ELSE "claim")
    /\ UNCHANGED <<accountVars, collectDue, localVars, remoteVars, userVars,
                   run, session>>

EnqueueScheduled(w) ==
    /\ pc[w] = "enqueue"
    /\ InsertJob
    /\ Goto(w, "claim")
    /\ UNCHANGED <<accountVars, collectDue, localVars, remoteVars, userVars,
                   run, session>>

Claim(w) ==
    /\ pc[w] = "claim"
    /\ jobStatus = "queued" /\ jobDue
    /\ jobStatus' = "running"
    /\ lease' = "live"
    /\ attempts' = attempts + 1
    /\ run' = [run EXCEPT ![w].no = jobNo, ![w].attempts = attempts + 1]
    /\ Goto(w, "context")
    /\ UNCHANGED <<jobNo, jobDue, accountVars, collectDue, localVars, remoteVars,
                   userVars, session>>

NothingToClaim(w) ==
    /\ pc[w] = "claim"
    /\ ~(jobStatus = "queued" /\ jobDue)
    /\ Goto(w, "idle")
    /\ UNCHANGED <<jobVars, accountVars, collectDue, localVars, remoteVars,
                   userVars, run, session>>

-----------------------------------------------------------------------------
(* The POP3 session.                                                        *)

Uidl(w) == UidlOf[run[w].listing[run[w].pos]]
Last(w) == run[w].pos > Len(run[w].listing)
Numbers(w) == {i \in DOMAIN session[w].msgs : UidlOf[session[w].msgs[i]] = Uidl(w)}
\* refreshed_numbers.get(uidl): the number in the session that is open now.
MutNumber(w) == IF run[w].pos \in DOMAIN session[w].msgs THEN run[w].pos
                ELSE CHOOSE i \in Numbers(w) : TRUE
Number(w) == CHOOSE i \in Numbers(w) : TRUE
Target(w) == session[w].msgs[Number(w)]

\* The numberings a server may give the messages of b in a new session.
Listings(b) ==
    LET held == {m \in drop : BoxOf[m] = b}
    IN  {s \in [1..Cardinality(held) -> held] :
            \A i, j \in DOMAIN s : s[i] = s[j] => i = j}

Fresh(s) == [open |-> TRUE, msgs |-> s, marked |-> {}]
FirstBatch(s) == SubSeq(s, 1, IF Len(s) < Batch THEN Len(s) ELSE Batch)

\* What the handlers of an aborted run still use of its local variables.
Forget(w) ==
    run' = [run EXCEPT ![w] =
               [NoRun EXCEPT !.no = run[w].no, !.attempts = run[w].attempts]]

\* An exception that ends the run but not the process: the deadline, the
\* account, the connection, a statement outside the handling of one message.
Breaks(w) ==
    /\ pc[w] \in InItem \cup {"context", "open", "loop", "states", "finalize"}
    /\ Goto(w, "abort")
    /\ Forget(w)
    /\ UNCHANGED <<jobVars, accountVars, collectDue, localVars, remoteVars,
                   userVars, session>>

\* _context returns the account as it is now; a deleted one raises.
Context(w) ==
    /\ pc[w] = "context"
    /\ ~gone
    /\ run' = [run EXCEPT ![w].box = box, ![w].delete = deleteRemote]
    /\ Goto(w, "open")
    /\ UNCHANGED <<jobVars, accountVars, collectDue, localVars, remoteVars,
                   userVars, session>>

Open(w) ==
    /\ pc[w] = "open"
    /\ \E s \in Listings(run[w].box) :
          /\ session' = [session EXCEPT ![w] = Fresh(s)]
          /\ run' = [run EXCEPT ![w].listing = FirstBatch(s)]
    /\ Goto(w, "loop")
    /\ UNCHANGED <<jobVars, accountVars, collectDue, localVars, remoteVars, userVars>>

\* assert_lease before every message and before QUIT.
Heartbeat(w) ==
    /\ pc[w] = "loop"
    /\ IF HoldsLease(w)
       THEN /\ lease' = "live"
            /\ Goto(w, IF Last(w) THEN "quit" ELSE "item")
            /\ UNCHANGED run
       ELSE /\ Goto(w, "lost")
            /\ Forget(w)
            /\ UNCHANGED lease
    /\ UNCHANGED <<jobNo, jobStatus, attempts, jobDue, accountVars, collectDue,
                   localVars, remoteVars, userVars, session>>

UidlAction(st, delete) ==
    CASE st = "none" -> "import"
      [] st \in {"pending", "failed"} /\ delete -> "delete_only"
      [] OTHER -> "duplicate"

\* On to the next message, having changed the local variables to r.
Advance(w, r) ==
    /\ run' = [run EXCEPT ![w] = [r EXCEPT !.pos = @ + 1, !.action = "import"]]
    /\ Goto(w, "loop")

Lookup(w) ==
    /\ pc[w] = "item"
    /\ LET a == UidlAction(imports[Uidl(w)], run[w].delete) IN
         IF a = "duplicate"
         THEN Advance(w, run[w])
         ELSE run' = [run EXCEPT ![w].action = a] /\ Goto(w, "remote")
    /\ UNCHANGED <<jobVars, accountVars, collectDue, localVars, remoteVars,
                   userVars, session>>

\* The client was closed by an earlier failure: a new session, new numbers.
Reopen(w) ==
    /\ pc[w] = "remote" /\ ~session[w].open
    /\ \E s \in Listings(run[w].box) :
          session' = [session EXCEPT ![w] = Fresh(s)]
    /\ UNCHANGED <<jobVars, accountVars, collectDue, localVars, remoteVars,
                   userVars, pc, run>>

\* counts["failed"] += 1: the job will end 'partial'.
MutCountFailure(r) == r
CountFailure(r) == [r EXCEPT !.failed = TRUE]

Disappeared(w) ==
    /\ pc[w] = "remote" /\ session[w].open /\ Numbers(w) = {}
    /\ Advance(w, CountFailure(run[w]))
    /\ UNCHANGED <<jobVars, accountVars, collectDue, localVars, remoteVars,
                   userVars, session>>

\* client.dele(number); pending.append(uidl)
Dele(w) ==
    /\ session' = [session EXCEPT ![w].marked = @ \cup {Target(w)}]
    /\ Advance(w, [run[w] EXCEPT !.pending = @ \cup {Uidl(w)}])

DeleteOnly(w) ==
    /\ pc[w] = "remote" /\ run[w].action = "delete_only"
    /\ session[w].open /\ Numbers(w) # {}
    /\ Dele(w)
    /\ UNCHANGED <<jobVars, accountVars, collectDue, localVars, remoteVars, userVars>>

\* DELE before the message is stored.
MutRetrieve(w) ==
    /\ pc[w] = "remote" /\ run[w].action = "import"
    /\ session[w].open /\ Numbers(w) # {}
    /\ Goto(w, "store")
    /\ session' = [session EXCEPT ![w].marked =
                      IF run[w].delete THEN @ \cup {Target(w)} ELSE @]
    /\ UNCHANGED <<jobVars, accountVars, collectDue, localVars, remoteVars,
                   userVars, run>>
Retrieve(w) ==
    /\ pc[w] = "remote" /\ run[w].action = "import"
    /\ session[w].open /\ Numbers(w) # {}
    /\ Goto(w, "store")
    /\ UNCHANGED <<jobVars, accountVars, collectDue, localVars, remoteVars,
                   userVars, run, session>>

MutAlreadyImported(w) == FALSE
AlreadyImported(w) == imports[Uidl(w)] # "none"

\* INSERT ... ON CONFLICT(account_id, uidl) DO NOTHING and the message itself.
Store(w) ==
    /\ pc[w] = "store"
    /\ IF AlreadyImported(w)
       THEN Advance(w, run[w]) /\ UNCHANGED localVars
       ELSE /\ imports' = [imports EXCEPT ![Uidl(w)] =
                               IF run[w].delete THEN "pending" ELSE "kept"]
            /\ copies' = [copies EXCEPT ![Target(w)] = @ + 1]
            /\ Goto(w, "stored") /\ UNCHANGED run
    /\ UNCHANGED <<jobVars, accountVars, collectDue, remoteVars, userVars, session>>

DeleteStored(w) ==
    /\ pc[w] = "stored"
    /\ IF run[w].delete
       THEN Dele(w)
       ELSE Advance(w, run[w]) /\ UNCHANGED session
    /\ UNCHANGED <<jobVars, accountVars, collectDue, localVars, remoteVars, userVars>>

\* UIDLs of pending whose deletion a closed connection undoes.
Undone(w, closes) == IF closes THEN run[w].pending ELSE {}

\* One message fails, before or after it was stored.  A POP3 or socket error
\* closes the client without QUIT.
ItemFails(w, closes) ==
    /\ pc[w] \in InItem
    /\ LET undone == Undone(w, closes)
           own == IF run[w].delete THEN {Uidl(w)} ELSE {}
       IN  /\ imports' = [u \in Uidls |->
                  IF u \in undone \cup own /\ imports[u] # "none"
                  THEN "failed" ELSE imports[u]]
           /\ Advance(w, CountFailure([run[w] EXCEPT !.pending = @ \ undone]))
    /\ session' = [session EXCEPT ![w] = IF closes THEN Closed ELSE @]
    /\ UNCHANGED <<jobVars, accountVars, collectDue, remoteVars, userVars, copies>>

\* QUIT reaches the server: it removes what the session marked.
Commit(w) ==
    /\ removed' = removed \cup (session[w].marked \cap drop)
    /\ drop' = drop \ session[w].marked
    /\ UNCHANGED arrived

\* QUIT on an open client, if it reaches the server or not.
QuitUnheard(w) ==
    \/ session[w].open /\ Commit(w)
    \/ UNCHANGED remoteVars

\* RemoteDeleteState.after_quit
MutAfterQuit(ok) == "deleted"
AfterQuit(ok) == IF ok THEN "deleted" ELSE "failed"

\* client.quit(): on success everything in pending is gone.  A lost reply looks
\* like a failure.  Closed or not, the client is dropped.
Quit(w) ==
    /\ pc[w] = "quit"
    /\ \/ /\ session[w].open /\ Commit(w)
          /\ run' = [run EXCEPT ![w].action = AfterQuit(TRUE)]
       \/ /\ QuitUnheard(w)
          /\ run' = [run EXCEPT ![w].action = AfterQuit(FALSE)]
    /\ session' = [session EXCEPT ![w] = Closed]
    /\ Goto(w, "states")
    /\ UNCHANGED <<jobVars, accountVars, collectDue, localVars, userVars>>

RecordStates(w) ==
    /\ pc[w] = "states"
    /\ imports' = [u \in Uidls |->
          IF u \in run[w].pending /\ imports[u] # "none"
          THEN run[w].action ELSE imports[u]]
    /\ run' = [run EXCEPT ![w].pending = {}, ![w].action = "import", ![w].failed =
                  @ \/ (run[w].pending # {} /\ run[w].action = "failed")]
    /\ Goto(w, "finalize")
    /\ UNCHANGED <<jobVars, accountVars, collectDue, copies, remoteVars,
                   userVars, session>>

\* _finalize: the guarded UPDATE of the job and the account's next collection.
Finish(w, st) ==
    IF HoldsLease(w)
    THEN Release(st, FALSE) /\ collectDue' = FALSE
    ELSE UNCHANGED <<jobVars, collectDue>>

Finalize(w) ==
    /\ pc[w] = "finalize"
    /\ Finish(w, IF run[w].failed THEN "partial" ELSE "completed")
    /\ Return(w)
    /\ UNCHANGED <<accountVars, localVars, remoteVars, userVars>>

\* ExternalLeaseLostError: the handler still sends QUIT.
LeaseLost(w) ==
    /\ pc[w] = "lost"
    /\ QuitUnheard(w)
    /\ Return(w)
    /\ UNCHANGED <<jobVars, accountVars, collectDue, localVars, userVars>>

\* Any other exception: QUIT, then the job is put back or given up, by the
\* attempt count this worker read when it claimed.
Disconnect(w) ==
    /\ pc[w] = "abort"
    /\ QuitUnheard(w)
    /\ session' = [session EXCEPT ![w] = Closed]
    /\ Goto(w, "giveup")
    /\ UNCHANGED <<jobVars, accountVars, collectDue, localVars, userVars, run>>

GiveUp(w) ==
    /\ pc[w] = "giveup"
    /\ IF Exhausted(run[w].attempts)
       THEN Finish(w, "failed")
       ELSE /\ IF HoldsLease(w) THEN Release("queued", FALSE) ELSE UNCHANGED jobVars
            /\ UNCHANGED collectDue
    /\ Return(w)
    /\ UNCHANGED <<accountVars, localVars, remoteVars, userVars>>

\* The process dies and starts again; its server session ends without QUIT.
Crash(w) ==
    /\ pc[w] # "idle"
    /\ Return(w)
    /\ UNCHANGED <<jobVars, accountVars, collectDue, localVars, remoteVars, userVars>>

-----------------------------------------------------------------------------
(* Remote senders, other mail clients, and the user.                        *)

Arrive(m) ==
    /\ m \notin arrived
    /\ arrived' = arrived \cup {m}
    /\ drop' = drop \cup {m}
    /\ UNCHANGED <<jobVars, accountVars, collectDue, localVars, removed,
                   userVars, workerVars>>

\* Another mail client of the user empties the maildrop of one message.
Expunge(m) ==
    /\ m \in drop
    /\ drop' = drop \ {m}
    /\ UNCHANGED <<jobVars, accountVars, collectDue, localVars, removed, arrived,
                   userVars, workerVars>>

\* update_account: a changed connection is untested again and not enabled.
UpdateAccount(b, delete, enable) ==
    /\ ~gone /\ updates < MaxUpdates
    /\ enable /\ b = box => connection = "success"
    /\ box' = b
    /\ deleteRemote' = delete
    /\ connection' = IF b = box THEN connection ELSE "untested"
    /\ enabled' = (enable /\ connection' = "success")
    /\ updates' = updates + 1
    /\ UNCHANGED <<jobVars, gone, collectDue, localVars, remoteVars, requests,
                   testing, workerVars>>

\* test_account: reads the account, tests it with no lock held, writes.
StartTest ==
    /\ ~gone /\ testing = NoBox
    /\ testing' = box
    /\ UNCHANGED <<jobVars, accountVars, collectDue, localVars, remoteVars,
                   requests, updates, workerVars>>

EndTest ==
    /\ testing # NoBox
    /\ testing' = NoBox
    /\ \/ connection' = "success" /\ UNCHANGED enabled
       \/ connection' = "failed" /\ enabled' = FALSE
    /\ UNCHANGED <<jobVars, box, deleteRemote, gone, collectDue, localVars,
                   remoteVars, requests, updates, workerVars>>

\* queue_collect and delete_account each check in one statement and write in
\* a later one.
CheckCollect ==
    /\ ~gone /\ connection = "success" /\ jobNo < MaxJobs
    /\ requests' = requests \cup {"collect"}
    /\ UNCHANGED <<jobVars, accountVars, collectDue, localVars, remoteVars,
                   testing, updates, workerVars>>

QueueCollect ==
    /\ "collect" \in requests
    /\ InsertJob
    /\ requests' = requests \ {"collect"}
    /\ UNCHANGED <<accountVars, collectDue, localVars, remoteVars, testing,
                   updates, workerVars>>

CheckDelete ==
    /\ ~gone /\ ~Active
    /\ requests' = requests \cup {"delete"}
    /\ UNCHANGED <<jobVars, accountVars, collectDue, localVars, remoteVars,
                   testing, updates, workerVars>>

DeleteAccount ==
    /\ "delete" \in requests
    /\ gone' = TRUE /\ enabled' = FALSE
    /\ requests' = requests \ {"delete"}
    /\ UNCHANGED <<jobVars, box, connection, deleteRemote, collectDue, localVars,
                   remoteVars, testing, updates, workerVars>>

User ==
    \/ \E b \in Boxes, delete, enable \in BOOLEAN : UpdateAccount(b, delete, enable)
    \/ StartTest \/ EndTest
    \/ CheckCollect \/ QueueCollect \/ CheckDelete \/ DeleteAccount
Remote == \E m \in Messages : Arrive(m) \/ Expunge(m)
Clock == JobBecomesDue \/ CollectBecomesDue \/ LeaseExpires

\* What a worker does when it lives.
WorkerStep(w) ==
    \/ Sweep(w) \/ EnqueueScheduled(w) \/ Claim(w) \/ NothingToClaim(w)
    \/ Context(w) \/ Open(w) \/ Heartbeat(w) \/ Lookup(w) \/ Reopen(w)
    \/ Disappeared(w) \/ DeleteOnly(w) \/ Retrieve(w) \/ Store(w)
    \/ DeleteStored(w) \/ (\E closes \in BOOLEAN : ItemFails(w, closes))
    \/ Breaks(w) \/ Quit(w) \/ RecordStates(w) \/ Finalize(w)
    \/ LeaseLost(w) \/ Disconnect(w) \/ GiveUp(w)

Next ==
    \/ User \/ Remote \/ Clock
    \/ \E w \in Workers : WorkerStep(w) \/ Crash(w)

Spec == Init /\ [][Next]_vars

-----------------------------------------------------------------------------
(* Fairness: a living worker goes on (sockets time out after 20 s, a job    *)
(* after 300 s), time passes, and a lease runs out once nobody renews it.   *)
(* A restart policy starts the process again; it does not die in each of    *)
(* infinitely many attempts to queue or claim a job.                        *)

Renewing == \E w \in Workers : HoldsLease(w)
LeaseRunsOut == LeaseExpires /\ ~Renewing

FairSpec ==
    /\ Spec
    /\ WF_vars(JobBecomesDue)
    /\ WF_vars(LeaseRunsOut)
    /\ \A w \in Workers :
          /\ WF_vars(WorkerStep(w))
          /\ SF_vars(EnqueueScheduled(w)) /\ SF_vars(Claim(w))

-----------------------------------------------------------------------------
(* Properties.                                                              *)

JobTypes ==
    /\ jobNo \in 0..MaxJobs
    /\ jobStatus \in {"none", "queued", "running", "completed", "partial", "failed"}
    /\ attempts \in Nat
    /\ lease \in {"none", "live", "expired"}
    /\ lease # "none" <=> jobStatus = "running"
    /\ jobDue \in BOOLEAN
AccountTypes ==
    /\ box \in Boxes
    /\ connection \in {"untested", "success", "failed"}
    /\ enabled \in BOOLEAN /\ deleteRemote \in BOOLEAN
    /\ gone \in BOOLEAN /\ collectDue \in BOOLEAN
    /\ requests \subseteq {"collect", "delete"}
    /\ testing \in Boxes \cup {NoBox}
    /\ updates \in 0..MaxUpdates
MailTypes ==
    /\ imports \in [Uidls -> ImportState]
    /\ copies \in [Messages -> Nat]
    /\ arrived \subseteq Messages
    /\ drop \subseteq arrived
    /\ removed \subseteq arrived \ drop
WorkerTypes ==
    /\ pc \in [Workers -> PC]
    /\ run \in [Workers -> Run]
    /\ session \in [Workers -> Session]
TypeOK == JobTypes /\ AccountTypes /\ MailTypes /\ WorkerTypes

\* persist_then_delete: a message our QUIT removed from the server was stored
\* here first, whatever failed in between and however the server renumbered.
DeletedWasImported == \A m \in removed : copies[m] > 0

\* Two workers, lost deletions and repeated collections store a message once.
ImportedOnce == \A m \in Messages : copies[m] <= 1

\* remote_delete_status = 'deleted' is only ever recorded of a message that has
\* left the server: not for a DELE that a closed connection undid.
RecordedDeletionHappened ==
    \A m \in drop : imports[UidlOf[m]] # "deleted"

\* A job is tried three times, plus once for each other worker that still
\* runs on an older claim and puts the job back by the count it read then.
AttemptBudget == attempts <= MaxAttempts + Cardinality(Workers) - 1

\* A collection that ends 'completed' left no message of its listing behind.
CompletedCollectedAll ==
    [][\A w \in Workers :
          /\ pc[w] = "finalize" /\ pc'[w] = "idle"
          /\ jobStatus = "running" /\ jobStatus' = "completed"
          => \A i \in DOMAIN run[w].listing :
                imports[UidlOf[run[w].listing[i]]] # "none"]_vars

\* Every job ends: attempts are bounded and a dead worker's lease runs out.
JobsEnd ==
    \A n \in 1..MaxJobs : (jobNo = n /\ Active) ~> ~(jobNo = n /\ Active)

\* What the code and its tests say and the steps above violate.

\* A stale owner neither imports nor finalizes (test_ui029_external_mail.py:248).
StaleOwnerStops ==
    [][\A w \in Workers :
          /\ pc[w] \in {"store", "finalize"}
          /\ pc'[w] # pc[w]
          /\ (copies' # copies \/ jobStatus' # jobStatus)
          => run[w].no = jobNo /\ run[w].attempts = attempts]_vars
=============================================================================
