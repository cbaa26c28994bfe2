----------------------- MODULE ExternalCollectionProofs -----------------------
(***************************************************************************)
(* TLAPS proofs about ExternalCollection, for every set of workers, every  *)
(* finite set of messages and every value of the bounds: types, what a     *)
(* worker's position says about its session, and the link between import   *)
(* rows, local copies and deletions.                                       *)
(***************************************************************************)
EXTENDS ExternalCollection, FiniteSetTheorems, SequenceTheorems, TLAPS

USE DEF PC, InItem

-----------------------------------------------------------------------------
(* Local variables and sessions of a worker.                               *)

\* An idle worker's local variables and a closed client have their types.
LEMMA Idle == NoRun \in Run /\ Closed \in Session
  BY DEF NoRun, Run, Closed, Session

\* A claim and an aborted run know the job and its attempt.
LEMMA RunClaim ==
  ASSUME NEW r \in Run, NEW n \in Nat, NEW k \in Nat
  PROVE  /\ [r EXCEPT !.no = n, !.attempts = k] \in Run
         /\ [r EXCEPT !.no = n, !.attempts = k].pending = r.pending
  BY DEF Run

\* _context fills in the account.
LEMMA RunContext ==
  ASSUME NEW r \in Run, NEW b \in Boxes, NEW d \in BOOLEAN
  PROVE  /\ [r EXCEPT !.box = b, !.delete = d] \in Run
         /\ [r EXCEPT !.box = b, !.delete = d].pending = r.pending
  BY DEF Run

\* The loop gets its listing.
LEMMA RunListing ==
  ASSUME NEW r \in Run, NEW s \in Seq(Messages)
  PROVE  /\ [r EXCEPT !.listing = s] \in Run
         /\ [r EXCEPT !.listing = s].pending = r.pending
  BY DEF Run

\* On to the next message.
LEMMA RunAdvance ==
  ASSUME NEW r \in Run
  PROVE  /\ [r EXCEPT !.pos = @ + 1, !.action = "import"] \in Run
         /\ [r EXCEPT !.pos = @ + 1, !.action = "import"].pending = r.pending
<1>1. r.pos + 1 \in Nat \ {0}
  BY DEF Run
<1>2. ASSUME NEW n \in Nat \ {0}
      PROVE  /\ [r EXCEPT !.pos = n, !.action = "import"] \in Run
             /\ [r EXCEPT !.pos = n, !.action = "import"].pending = r.pending
  BY DEF Run
<1>. QED
  BY <1>1, <1>2

\* Deletions to be confirmed by QUIT.
LEMMA RunPending ==
  ASSUME NEW r \in Run, NEW P \in SUBSET Uidls
  PROVE  /\ [r EXCEPT !.pending = P] \in Run
         /\ [r EXCEPT !.pending = P].pending = P
  BY DEF Run

\* A failure is counted.
LEMMA RunFailure ==
  ASSUME NEW r \in Run
  PROVE  CountFailure(r) \in Run /\ CountFailure(r).pending = r.pending
  BY DEF Run, CountFailure

\* The decision about a message, or the result of QUIT.
Decisions == {"import", "delete_only", "deleted", "failed"}
LEMMA RunDecision ==
  ASSUME NEW r \in Run, NEW a \in Decisions
  PROVE  /\ [r EXCEPT !.action = a] \in Run
         /\ [r EXCEPT !.action = a].action = a
         /\ [r EXCEPT !.action = a].pending = r.pending
         /\ [r EXCEPT !.action = a].delete = r.delete
         /\ [r EXCEPT !.action = a].pos = r.pos
         /\ [r EXCEPT !.action = a].listing = r.listing
         /\ [r EXCEPT !.action = a].attempts = r.attempts
         /\ [r EXCEPT !.action = a].failed = r.failed
  BY DEF Run, Decisions

\* Everything in pending is settled.
LEMMA RunSettled ==
  ASSUME NEW r \in Run, NEW f \in BOOLEAN
  PROVE  /\ [r EXCEPT !.pending = {}, !.action = "import", !.failed = f] \in Run
         /\ [r EXCEPT !.pending = {}, !.action = "import", !.failed = f].pending = {}
  BY DEF Run

\* A numbering a server gives is a sequence of messages it holds.
LEMMA ListingType ==
  ASSUME drop \subseteq Messages, NEW b, NEW s \in Listings(b)
  PROVE  /\ s \in Seq(Messages)
         /\ \A i \in DOMAIN s : s[i] \in drop
         /\ Fresh(s) \in Session
         /\ Fresh(s).msgs = s /\ Fresh(s).marked = {} /\ Fresh(s).open
         /\ FirstBatch(s) \in Seq(Messages)
<1> DEFINE held == {m \in drop : BoxOf[m] = b}
<1>1. IsFiniteSet(held)
  BY BoxAssumption, FS_Subset
<1>2. Cardinality(held) \in Nat
  BY <1>1, FS_CardinalityType
<1>3. s \in [1..Cardinality(held) -> held]
  BY DEF Listings
<1>4. s \in Seq(Messages) /\ \A i \in DOMAIN s : s[i] \in drop
  <2>1. held \subseteq Messages /\ held \subseteq drop
    OBVIOUS
  <2>. HIDE DEF held
  <2>2. s \in [1..Cardinality(held) -> Messages]
    BY <1>3, <2>1
  <2>3. s \in Seq(Messages)
    BY <1>2, <2>2, SeqDef
  <2>. QED
    BY <1>3, <2>1, <2>3
<1>5. FirstBatch(s) \in Seq(Messages)
  BY <1>4, BoundAssumption DEF FirstBatch
<1>. QED
  BY <1>4, <1>5 DEF Fresh, Session

\* A message in the position of the open session that refreshed_numbers gives
\* is a message the session lists, with the UIDL that was looked up.
LEMMA TargetFound ==
  ASSUME NEW w \in Workers, session[w] \in Session, Numbers(w) # {}
  PROVE  /\ Number(w) \in DOMAIN session[w].msgs
         /\ Target(w) = session[w].msgs[Number(w)]
         /\ Target(w) \in Messages
         /\ UidlOf[Target(w)] = Uidl(w)
         /\ Uidl(w) \in Uidls
<1>1. Number(w) \in Numbers(w)
  BY DEF Number
<1>2. Number(w) \in DOMAIN session[w].msgs /\ UidlOf[Target(w)] = Uidl(w)
  BY <1>1 DEF Numbers, Target
<1>3. Target(w) \in Messages
  BY <1>2 DEF Target, Session
<1>. QED
  BY <1>2, <1>3 DEF Target, Uidls

\* DELE marks the message it found.
LEMMA SessionMark ==
  ASSUME NEW s \in Session, NEW m \in Messages
  PROVE  LET t == [s EXCEPT !.marked = @ \cup {m}]
         IN  /\ t \in Session /\ t.marked = s.marked \cup {m}
             /\ t.msgs = s.msgs /\ t.open = s.open
  BY DEF Session

-----------------------------------------------------------------------------
(* Where a worker is.                                                       *)

\* What the position of a worker says about its local variables: the loop is
\* at a message, a closed client marks nothing, deletions wait only between
\* the loop and QUIT.
LocalAt(w) ==
    /\ pc[w] \in InItem => run[w].pos \in DOMAIN run[w].listing
    /\ pc[w] = "states" => /\ run[w].action \in {"deleted", "failed"}
                           /\ ~session[w].open
    /\ pc[w] \in {"store", "stored"} => session[w].open /\ Numbers(w) # {}
    /\ ~session[w].open => session[w].marked = {}
    /\ pc[w] \notin InItem \cup {"loop", "quit", "states"} => run[w].pending = {}
Typed == TypeOK /\ \A w \in Workers : LocalAt(w)

\* A step of w keeps its own variables in their types and its position's facts.
Own(w) ==
    /\ \E p \in PC : pc' = [pc EXCEPT ![w] = p]
    /\ \E r \in Run : run' = [run EXCEPT ![w] = r]
    /\ \E s \in Session : session' = [session EXCEPT ![w] = s]
    /\ LocalAt(w)'

\* A step of w changes no other worker.
LEMMA OthersStay ==
  ASSUME WorkerTypes, NEW w \in Workers, Own(w)
  PROVE  /\ WorkerTypes'
         /\ \A v \in Workers \ {w} :
               /\ pc'[v] = pc[v] /\ run'[v] = run[v] /\ session'[v] = session[v]
               /\ LocalAt(v) => LocalAt(v)'
<1>1. WorkerTypes'
  BY DEF Own, WorkerTypes
<1>2. ASSUME NEW v \in Workers \ {w}
      PROVE  pc'[v] = pc[v] /\ run'[v] = run[v] /\ session'[v] = session[v]
  BY DEF Own, WorkerTypes
<1>3. ASSUME NEW v \in Workers \ {w}, LocalAt(v) PROVE LocalAt(v)'
  BY <1>2, <1>3 DEF LocalAt, Numbers, Uidl
<1>. QED
  BY <1>1, <1>2, <1>3

\* Leaving a run.
LEMMA ReturnOwn ==
  ASSUME WorkerTypes, NEW w \in Workers, Return(w) PROVE Own(w)
  BY Idle DEF WorkerTypes, Return, Goto, Own, LocalAt, NoRun, Closed

\* Aborting a run.
LEMMA ForgetType ==
  ASSUME WorkerTypes, NEW w \in Workers, Forget(w)
  PROVE  /\ \E r \in Run : run' = [run EXCEPT ![w] = r]
         /\ run'[w].pending = {}
<1>1. run[w].no \in Nat /\ run[w].attempts \in Nat
  BY DEF WorkerTypes, Run
<1>2. [NoRun EXCEPT !.no = run[w].no, !.attempts = run[w].attempts] \in Run
  BY <1>1, Idle, RunClaim
<1>3. [NoRun EXCEPT !.no = run[w].no, !.attempts = run[w].attempts].pending = {}
  BY <1>1, Idle, RunClaim DEF NoRun
<1>. QED
  BY <1>2, <1>3 DEF Forget, WorkerTypes

\* Going on to the next message with deletions that wait.
LEMMA AdvanceType ==
  ASSUME WorkerTypes, NEW w \in Workers, NEW r \in Run, Advance(w, r)
  PROVE  /\ pc' = [pc EXCEPT ![w] = "loop"] /\ pc'[w] = "loop"
         /\ \E q \in Run : run' = [run EXCEPT ![w] = q]
         /\ run'[w].pending = r.pending
  BY RunAdvance DEF Advance, Goto, WorkerTypes

\* Every step of a worker, and its death, keep its own variables in order.
LEMMA OwnStep ==
  ASSUME Typed, NEW w \in Workers, WorkerStep(w) \/ Crash(w)
  PROVE  Own(w)
<1> USE DEF WorkerTypes, workerVars
<1>0. /\ WorkerTypes /\ LocalAt(w) /\ drop \subseteq Messages
      /\ run[w] \in Run /\ session[w] \in Session
      /\ run = [run EXCEPT ![w] = run[w]]
      /\ session = [session EXCEPT ![w] = session[w]]
      /\ pc = [pc EXCEPT ![w] = pc[w]] /\ pc[w] \in PC
  BY DEF Typed, TypeOK, MailTypes
<1>1. ASSUME Sweep(w) \/ EnqueueScheduled(w) \/ NothingToClaim(w) PROVE Own(w)
  BY <1>0, <1>1 DEF Sweep, EnqueueScheduled, NothingToClaim, Goto, Own, LocalAt
<1>2. CASE Claim(w)
  <2>1. jobNo \in Nat /\ \E k \in Nat : k = attempts + 1
    BY BoundAssumption DEF Typed, TypeOK, JobTypes
  <2>. PICK k \in Nat : k = attempts + 1
    BY <2>1
  <2>. DEFINE r == [run[w] EXCEPT !.no = jobNo, !.attempts = k]
  <2>2. r \in Run /\ r.pending = run[w].pending
    <3>1. run[w] \in Run
      BY <1>0
    <3>. QED
      BY <2>1, <3>1, RunClaim
  <2>3. run' = [run EXCEPT ![w] = r] /\ pc' = [pc EXCEPT ![w] = "context"]
    BY <1>0, <1>2 DEF Claim, Goto
  <2>. QED
    BY <1>0, <1>2, <2>2, <2>3 DEF Claim, Own, LocalAt
<1>3. CASE Context(w)
  <2>. DEFINE r == [run[w] EXCEPT !.box = box, !.delete = deleteRemote]
  <2>1. r \in Run /\ r.pending = run[w].pending
    BY <1>0, RunContext DEF Typed, TypeOK, AccountTypes
  <2>2. run' = [run EXCEPT ![w] = r] /\ pc' = [pc EXCEPT ![w] = "open"]
    BY <1>0, <1>3 DEF Context, Goto
  <2>. QED
    BY <1>0, <1>3, <2>1, <2>2 DEF Context, Own, LocalAt
<1>4. CASE Open(w)
  <2>1. PICK s \in Listings(run[w].box) :
           /\ session' = [session EXCEPT ![w] = Fresh(s)]
           /\ run' = [run EXCEPT ![w] = [run[w] EXCEPT !.listing = FirstBatch(s)]]
    BY <1>0, <1>4 DEF Open
  <2>2. /\ Fresh(s) \in Session /\ Fresh(s).open
        /\ [run[w] EXCEPT !.listing = FirstBatch(s)] \in Run
    BY <1>0, ListingType, RunListing
  <2>. QED
    BY <1>0, <1>4, <2>1, <2>2 DEF Open, Goto, Own, LocalAt
<1>5. CASE Heartbeat(w)
  <2>1. CASE HoldsLease(w)
    <3>1. ~Last(w) => run[w].pos \in DOMAIN run[w].listing
      BY <1>0 DEF Last, Run
    <3>. QED
      BY <1>0, <1>5, <2>1, <3>1 DEF Heartbeat, Goto, Own, LocalAt
  <2>2. CASE ~HoldsLease(w)
    BY <1>0, <1>5, <2>2, ForgetType DEF Heartbeat, Goto, Own, LocalAt
  <2>. QED
    BY <2>1, <2>2
<1>6. CASE Lookup(w)
  <2>. DEFINE a == UidlAction(imports[Uidl(w)], run[w].delete)
  <2>1. CASE a = "duplicate"
    BY <1>0, <1>6, <2>1, AdvanceType DEF Lookup, Own, LocalAt
  <2>2. CASE a # "duplicate"
    <3>1. a \in Decisions
      BY <2>2 DEF UidlAction, Decisions
    <3>. HIDE DEF a
    <3>. DEFINE r == [run[w] EXCEPT !.action = a]
    <3>2. run' = [run EXCEPT ![w] = r] /\ pc' = [pc EXCEPT ![w] = "remote"]
      BY <1>0, <1>6, <2>2 DEF Lookup, Goto, a
    <3>3. r \in Run /\ r.pos = run[w].pos /\ r.listing = run[w].listing
      BY <1>0, <3>1, RunDecision
    <3>. QED
      BY <1>0, <1>6, <3>2, <3>3 DEF Lookup, Own, LocalAt
  <2>. QED
    BY <2>1, <2>2
<1>7. CASE Reopen(w)
  <2>1. PICK s \in Listings(run[w].box) : session' = [session EXCEPT ![w] = Fresh(s)]
    BY <1>7 DEF Reopen
  <2>2. Fresh(s) \in Session /\ Fresh(s).open
    BY <1>0, ListingType
  <2>. QED
    BY <1>0, <1>7, <2>1, <2>2 DEF Reopen, Own, LocalAt
<1>8. CASE Disappeared(w)
  BY <1>0, <1>8, AdvanceType, RunFailure DEF Disappeared, Own, LocalAt
<1>9. ASSUME Dele(w), session[w].open, Numbers(w) # {} PROVE Own(w)
  <2>. DEFINE r == [run[w] EXCEPT !.pending = @ \cup {Uidl(w)}]
              s == [session[w] EXCEPT !.marked = @ \cup {Target(w)}]
  <2>1. Target(w) \in Messages /\ Uidl(w) \in Uidls
    BY <1>0, <1>9, TargetFound
  <2>2. s \in Session /\ s.open = session[w].open
    BY <1>0, <2>1, SessionMark
  <2>3. run[w].pending \cup {Uidl(w)} \in SUBSET Uidls
    BY <1>0, <2>1 DEF Run
  <2>4. r \in Run
    BY <1>0, <2>3, RunPending
  <2>5. session' = [session EXCEPT ![w] = s]
    BY <1>0, <1>9 DEF Dele
  <2>6. pc' = [pc EXCEPT ![w] = "loop"] /\ \E q \in Run : run' = [run EXCEPT ![w] = q]
    BY <1>0, <1>9, <2>4, AdvanceType DEF Dele
  <2>. HIDE DEF s
  <2>. QED
    BY <1>0, <1>9, <2>2, <2>5, <2>6 DEF Own, LocalAt
<1>10. CASE DeleteOnly(w)
  BY <1>9, <1>10 DEF DeleteOnly
<1>11. CASE Retrieve(w)
  BY <1>0, <1>11 DEF Retrieve, Goto, Own, LocalAt, Numbers, Uidl
<1>12. CASE Store(w)
  <2>1. CASE AlreadyImported(w)
    BY <1>0, <1>12, <2>1, AdvanceType DEF Store, Own, LocalAt
  <2>2. CASE ~AlreadyImported(w)
    BY <1>0, <1>12, <2>2 DEF Store, Goto, Own, LocalAt, Numbers, Uidl
  <2>. QED
    BY <2>1, <2>2
<1>13. CASE DeleteStored(w)
  <2>1. CASE run[w].delete
    BY <1>0, <1>9, <1>13, <2>1 DEF DeleteStored, LocalAt
  <2>2. CASE ~run[w].delete
    BY <1>0, <1>13, <2>2, AdvanceType DEF DeleteStored, Own, LocalAt
  <2>. QED
    BY <2>1, <2>2
<1>14. ASSUME NEW closes \in BOOLEAN, ItemFails(w, closes) PROVE Own(w)
  <2>. DEFINE r == [run[w] EXCEPT !.pending = @ \ Undone(w, closes)]
              s == IF closes THEN Closed ELSE session[w]
  <2>1. run[w].pending \ Undone(w, closes) \in SUBSET Uidls
    BY <1>0 DEF Run
  <2>2. CountFailure(r) \in Run
    BY <1>0, <2>1, RunPending, RunFailure
  <2>3. pc' = [pc EXCEPT ![w] = "loop"] /\ \E q \in Run : run' = [run EXCEPT ![w] = q]
    BY <1>0, <1>14, <2>2, AdvanceType DEF ItemFails
  <2>4. session' = [session EXCEPT ![w] = s]
    BY <1>0, <1>14 DEF ItemFails
  <2>5. s \in Session /\ (~s.open => s.marked = {})
    BY <1>0, Idle DEF Closed, LocalAt
  <2>. HIDE DEF s
  <2>. QED
    BY <1>0, <2>3, <2>4, <2>5 DEF Own, LocalAt
<1>15. CASE Breaks(w)
  BY <1>0, <1>15, ForgetType DEF Breaks, Goto, Own, LocalAt
<1>16. CASE Quit(w)
  <2>1. PICK ok \in BOOLEAN :
           run' = [run EXCEPT ![w] = [run[w] EXCEPT !.action = AfterQuit(ok)]]
    BY <1>0, <1>16 DEF Quit
  <2>2. AfterQuit(ok) \in {"deleted", "failed"} /\ AfterQuit(ok) \in Decisions
    BY DEF AfterQuit, Decisions
  <2>3. /\ [run[w] EXCEPT !.action = AfterQuit(ok)] \in Run
        /\ [run[w] EXCEPT !.action = AfterQuit(ok)].action = AfterQuit(ok)
    BY <1>0, <2>2, RunDecision
  <2>. QED
    BY <1>0, <1>16, <2>1, <2>2, <2>3, Idle DEF Quit, Goto, Own, LocalAt, Closed
<1>17. CASE RecordStates(w)
  <2>. DEFINE f == run[w].failed \/ (run[w].pending # {} /\ run[w].action = "failed")
              r == [run[w] EXCEPT !.pending = {}, !.action = "import", !.failed = f]
  <2>1. f \in BOOLEAN
    BY <1>0 DEF Run
  <2>2. run' = [run EXCEPT ![w] = r]
    BY <1>0, <1>17 DEF RecordStates
  <2>. HIDE DEF f
  <2>3. r \in Run /\ r.pending = {}
    BY <1>0, <2>1, RunSettled
  <2>. QED
    BY <1>0, <1>17, <2>2, <2>3 DEF RecordStates, Goto, Own, LocalAt
<1>18. ASSUME Finalize(w) \/ LeaseLost(w) \/ GiveUp(w) \/ Crash(w) PROVE Own(w)
  BY <1>0, <1>18, ReturnOwn DEF Finalize, LeaseLost, GiveUp, Crash
<1>19. CASE Disconnect(w)
  BY <1>0, <1>19, Idle DEF Disconnect, Goto, Own, LocalAt, Closed
<1>. QED
  BY <1>1, <1>2, <1>3, <1>4, <1>5, <1>6, <1>7, <1>8, <1>10, <1>11, <1>12, <1>13,
     <1>14, <1>15, <1>16, <1>17, <1>18, <1>19 DEF WorkerStep

-----------------------------------------------------------------------------
(* Types.                                                                  *)

\* A new job starts with a row of the right type.
LEMMA InsertJobType ==
  ASSUME JobTypes, InsertJob PROVE JobTypes'
<1>1. CASE Active \/ jobNo = MaxJobs
  BY <1>1 DEF InsertJob, JobTypes, jobVars
<1>2. CASE ~(Active \/ jobNo = MaxJobs)
  <2>1. jobNo' \in 0..MaxJobs
    BY <1>2, BoundAssumption DEF InsertJob, JobTypes
  <2>. QED
    BY <1>2, <2>1 DEF InsertJob, JobTypes
<1>. QED
  BY <1>1, <1>2

\* So does a job that is put back or ends, without a lease.
LEMMA ReleaseType ==
  ASSUME JobTypes, NEW st \in {"queued", "completed", "partial", "failed"},
         NEW due \in BOOLEAN, Release(st, due)
  PROVE  JobTypes'
  BY DEF Release, JobTypes

\* The job row keeps its type, and a lease belongs to a running job only.
LEMMA JobStep == JobTypes /\ [Next]_vars => JobTypes'
<1> SUFFICES ASSUME JobTypes, [Next]_vars PROVE JobTypes'
  OBVIOUS
<1> USE DEF jobVars
<1>1. CASE User
  BY <1>1, InsertJobType
  DEF User, UpdateAccount, StartTest, EndTest, CheckCollect, QueueCollect,
      CheckDelete, DeleteAccount, JobTypes
<1>2. CASE Remote
  BY <1>2 DEF Remote, Arrive, Expunge, JobTypes
<1>3. CASE Clock
  BY <1>3 DEF Clock, JobBecomesDue, CollectBecomesDue, LeaseExpires, JobTypes
<1>4. ASSUME NEW w \in Workers, WorkerStep(w) \/ Crash(w) PROVE JobTypes'
  <2>1. CASE Sweep(w)
    BY <2>1, ReleaseType DEF Sweep, JobTypes
  <2>2. CASE EnqueueScheduled(w)
    BY <2>2, InsertJobType DEF EnqueueScheduled
  <2>3. CASE Claim(w)
    BY <2>3 DEF Claim, JobTypes
  <2>4. CASE Heartbeat(w)
    BY <2>4 DEF Heartbeat, HoldsLease, JobTypes
  <2>5. CASE Finalize(w)
    BY <2>5, ReleaseType DEF Finalize, Finish, JobTypes
  <2>6. CASE GiveUp(w)
    BY <2>6, ReleaseType DEF GiveUp, Finish, JobTypes
  <2>7. CASE UNCHANGED jobVars
    BY <2>7 DEF JobTypes
  <2>. QED
    BY <1>4, <2>1, <2>2, <2>3, <2>4, <2>5, <2>6, <2>7
    DEF WorkerStep, NothingToClaim, Context, Open, Lookup, Reopen, Disappeared,
        DeleteOnly, Retrieve, Store, DeleteStored, ItemFails, Breaks, Quit,
        RecordStates, LeaseLost, Disconnect, Crash
<1>5. CASE UNCHANGED vars
  BY <1>5 DEF vars, JobTypes
<1>. QED
  BY <1>1, <1>2, <1>3, <1>4, <1>5 DEF Next

\* The account row and the requests of the user keep their types.
LEMMA AccountStep == AccountTypes /\ [Next]_vars => AccountTypes'
<1> SUFFICES ASSUME AccountTypes, [Next]_vars PROVE AccountTypes'
  OBVIOUS
<1> USE DEF accountVars, userVars
<1>1. ASSUME NEW b \in Boxes, NEW delete \in BOOLEAN, NEW enable \in BOOLEAN,
             UpdateAccount(b, delete, enable)
      PROVE  AccountTypes'
  <2>1. updates' \in 0..MaxUpdates
    BY <1>1, BoundAssumption DEF UpdateAccount, AccountTypes
  <2>. QED
    BY <1>1, <2>1 DEF UpdateAccount, AccountTypes
<1>2. ASSUME StartTest \/ EndTest \/ CheckCollect \/ QueueCollect \/ CheckDelete
                \/ DeleteAccount
      PROVE  AccountTypes'
  BY <1>2
  DEF StartTest, EndTest, CheckCollect, QueueCollect, CheckDelete, DeleteAccount,
      AccountTypes
<1>3. CASE Remote
  BY <1>3 DEF Remote, Arrive, Expunge, AccountTypes
<1>4. CASE Clock
  BY <1>4 DEF Clock, JobBecomesDue, CollectBecomesDue, LeaseExpires, AccountTypes
<1>5. ASSUME NEW w \in Workers, WorkerStep(w) \/ Crash(w) PROVE AccountTypes'
  <2>1. UNCHANGED <<accountVars, userVars>> /\ collectDue' \in {collectDue, FALSE}
    BY <1>5
    DEF WorkerStep, Sweep, EnqueueScheduled, Claim, NothingToClaim, Context,
        Open, Heartbeat, Lookup, Reopen, Disappeared, DeleteOnly, Retrieve,
        Store, DeleteStored, ItemFails, Breaks, Quit, RecordStates, Finalize,
        LeaseLost, Disconnect, GiveUp, Finish, Crash
  <2>. QED
    BY <2>1 DEF AccountTypes
<1>6. CASE UNCHANGED vars
  BY <1>6 DEF vars, AccountTypes
<1>. QED
  BY <1>1, <1>2, <1>3, <1>4, <1>5, <1>6 DEF Next, User

\* An import: one message that had no import row, and one more copy of it.
Imports(w) ==
    /\ pc[w] = "store" /\ imports[Uidl(w)] = "none"
    /\ Uidl(w) \in Uidls /\ Target(w) \in Messages /\ UidlOf[Target(w)] = Uidl(w)
    /\ \E st \in {"pending", "kept"} : imports' = [imports EXCEPT ![Uidl(w)] = st]
    /\ copies' = [copies EXCEPT ![Target(w)] = @ + 1]
    /\ pc' = [pc EXCEPT ![w] = "stored"]
    /\ UNCHANGED <<remoteVars, run, session>>

\* Nothing imported: copies stay, and no import row comes or goes.
NoImport ==
    /\ copies' = copies
    /\ \A u \in Uidls : imports'[u] = "none" <=> imports[u] = "none"

\* A step imports one message or none, and import rows keep their type.
LEMMA ImportStep ==
  ASSUME Typed, [Next]_vars
  PROVE  /\ imports' \in [Uidls -> ImportState]
         /\ NoImport \/ \E w \in Workers : Imports(w)
<1> USE DEF localVars, NoImport
<1>0. imports \in [Uidls -> ImportState] /\ WorkerTypes
  BY DEF Typed, TypeOK, MailTypes
<1>1. ASSUME UNCHANGED localVars
      PROVE  imports' \in [Uidls -> ImportState] /\ NoImport
  BY <1>0, <1>1
<1>2. CASE User \/ Remote \/ Clock \/ UNCHANGED vars
  BY <1>1, <1>2
  DEF User, UpdateAccount, StartTest, EndTest, CheckCollect, QueueCollect,
      CheckDelete, DeleteAccount, Remote, Arrive, Expunge, Clock, JobBecomesDue,
      CollectBecomesDue, LeaseExpires, vars
<1>3. ASSUME NEW w \in Workers, Store(w)
      PROVE  /\ imports' \in [Uidls -> ImportState]
             /\ NoImport \/ Imports(w)
  <2>1. CASE AlreadyImported(w)
    BY <1>1, <1>3, <2>1 DEF Store
  <2>2. CASE ~AlreadyImported(w)
    <3>1. /\ Uidl(w) \in Uidls /\ Target(w) \in Messages
          /\ UidlOf[Target(w)] = Uidl(w)
      BY <1>0, <1>3, TargetFound DEF Store, Typed, LocalAt, WorkerTypes
    <3>2. Imports(w)
      BY <1>3, <2>2, <3>1 DEF Store, Goto, AlreadyImported, Imports
    <3>. QED
      BY <1>0, <3>2 DEF Imports, ImportState
  <2>. QED
    BY <2>1, <2>2
<1>4. ASSUME NEW w \in Workers, NEW closes \in BOOLEAN, ItemFails(w, closes)
      PROVE  imports' \in [Uidls -> ImportState] /\ NoImport
  BY <1>0, <1>4 DEF ItemFails, ImportState
<1>5. ASSUME NEW w \in Workers, RecordStates(w)
      PROVE  imports' \in [Uidls -> ImportState] /\ NoImport
  <2>1. run[w].action \in {"deleted", "failed"}
    BY <1>5 DEF RecordStates, Typed, LocalAt
  <2>. QED
    BY <1>0, <1>5, <2>1 DEF RecordStates, ImportState
<1>6. ASSUME NEW w \in Workers, WorkerStep(w) \/ Crash(w)
      PROVE  /\ imports' \in [Uidls -> ImportState]
             /\ NoImport \/ Imports(w)
  <2>1. \/ UNCHANGED localVars \/ Store(w) \/ RecordStates(w)
        \/ \E closes \in BOOLEAN : ItemFails(w, closes)
    BY <1>6
    DEF WorkerStep, Sweep, EnqueueScheduled, Claim, NothingToClaim, Context,
        Open, Heartbeat, Lookup, Reopen, Disappeared, DeleteOnly, Retrieve,
        DeleteStored, Breaks, Quit, Finalize, LeaseLost, Disconnect, GiveUp,
        Crash
  <2>. QED
    BY <1>1, <1>3, <1>4, <1>5, <2>1
<1>. QED
  BY <1>2, <1>6 DEF Next

\* A QUIT of w that the server hears removes the messages w marked.
Removes(w) ==
    /\ pc[w] \in {"quit", "lost", "abort"}
    /\ Commit(w)

\* What a step does to the remote maildrops: a QUIT, an arrival or a deletion
\* by another client.
LEMMA RemoteStep ==
  ASSUME Typed, [Next]_vars
  PROVE  \/ UNCHANGED remoteVars
         \/ \E w \in Workers : Removes(w)
         \/ \E m \in Messages \ arrived : Arrive(m)
         \/ \E m \in drop : Expunge(m)
<1> USE DEF remoteVars
<1>1. CASE User \/ Clock \/ UNCHANGED vars
  BY <1>1
  DEF User, UpdateAccount, StartTest, EndTest, CheckCollect, QueueCollect,
      CheckDelete, DeleteAccount, Clock, JobBecomesDue, CollectBecomesDue,
      LeaseExpires, vars
<1>2. CASE Remote
  BY <1>2 DEF Remote, Arrive, Expunge
<1>3. ASSUME NEW w \in Workers, WorkerStep(w) \/ Crash(w)
      PROVE  UNCHANGED remoteVars \/ Removes(w)
  BY <1>3
  DEF WorkerStep, Sweep, EnqueueScheduled, Claim, NothingToClaim, Context,
      Open, Heartbeat, Lookup, Reopen, Disappeared, DeleteOnly, Retrieve,
      Store, DeleteStored, ItemFails, Breaks, Quit, RecordStates, Finalize,
      LeaseLost, Disconnect, GiveUp, Crash, QuitUnheard, Removes
<1>. QED
  BY <1>1, <1>2, <1>3 DEF Next

\* Every variable keeps its type, and every worker's position its facts.
LEMMA TypedStep == Typed /\ [Next]_vars => Typed'
<1> SUFFICES ASSUME Typed, [Next]_vars PROVE Typed'
  OBVIOUS
<1>1. JobTypes' /\ AccountTypes'
  BY JobStep, AccountStep DEF Typed, TypeOK
<1>2. copies' \in [Messages -> Nat]
  BY ImportStep DEF NoImport, Imports, Typed, TypeOK, MailTypes
<1>3. arrived' \subseteq Messages /\ drop' \subseteq arrived'
      /\ removed' \subseteq arrived' \ drop'
  BY RemoteStep
  DEF remoteVars, Removes, Commit, Arrive, Expunge, Typed, TypeOK, MailTypes,
      WorkerTypes, Session
<1>4. MailTypes'
  BY <1>2, <1>3, ImportStep DEF MailTypes
<1>5. WorkerTypes' /\ \A v \in Workers : LocalAt(v)'
  <2>1. CASE UNCHANGED workerVars
    BY <2>1 DEF workerVars, Typed, TypeOK, WorkerTypes, LocalAt, Numbers, Uidl
  <2>2. ASSUME NEW w \in Workers, WorkerStep(w) \/ Crash(w)
        PROVE  WorkerTypes' /\ \A v \in Workers : LocalAt(v)'
    <3>1. Own(w)
      BY <2>2, OwnStep
    <3>. QED
      BY <3>1, OthersStay DEF Typed, TypeOK, Own
  <2>. QED
    BY <2>1, <2>2
    DEF Next, User, UpdateAccount, StartTest, EndTest, CheckCollect,
        QueueCollect, CheckDelete, DeleteAccount, Remote, Arrive, Expunge,
        Clock, JobBecomesDue, CollectBecomesDue, LeaseExpires, vars
<1>. QED
  BY <1>1, <1>4, <1>5 DEF Typed, TypeOK

-----------------------------------------------------------------------------
(* The session and the deletions that wait for QUIT.                       *)

\* DELE of a message the open session lists, imported before.
Marks(w) ==
    /\ pc[w] = "stored" \/ (pc[w] = "remote" /\ run[w].action = "delete_only")
    /\ Numbers(w) # {}
    /\ session'[w].marked = session[w].marked \cup {Target(w)}
    /\ session'[w].msgs = session[w].msgs
    /\ run'[w].pending = run[w].pending \cup {Uidl(w)}

\* The session goes on; the waiting deletions are forgotten or still wait.
Keeps(w) ==
    /\ session'[w] = session[w]
    /\ \/ run'[w].pending = {}
       \/ run'[w].pending = run[w].pending /\ pc[w] # "states"

\* The client is dropped, or a session opened that has no deletions.
Renews(w) ==
    /\ session'[w].marked = {}
    /\ \A i \in DOMAIN session'[w].msgs : session'[w].msgs[i] \in drop
    /\ \/ run'[w].pending = {}
       \/ run'[w].pending = run[w].pending /\ ~session[w].open /\ pc[w] # "states"

\* QUIT: the client is dropped, with deletions confirmed or not.
Quits(w) ==
    /\ pc[w] = "quit" /\ pc'[w] = "states"
    /\ session'[w] = Closed
    /\ run'[w].pending = run[w].pending
    /\ run'[w].action = "deleted" => Commit(w)

\* What a step of a worker does to its session.
LEMMA SessionStep ==
  ASSUME Typed, NEW w \in Workers, WorkerStep(w) \/ Crash(w)
  PROVE  Marks(w) \/ Keeps(w) \/ Renews(w) \/ Quits(w)
<1> USE DEF WorkerTypes, workerVars
<1>0. /\ WorkerTypes /\ LocalAt(w) /\ drop \subseteq Messages
      /\ run[w] \in Run /\ session[w] \in Session
  BY DEF Typed, TypeOK, MailTypes
<1>1. ASSUME Sweep(w) \/ EnqueueScheduled(w) \/ NothingToClaim(w) \/ Retrieve(w)
      PROVE  Keeps(w)
  BY <1>0, <1>1 DEF Sweep, EnqueueScheduled, NothingToClaim, Retrieve, Keeps
<1>2. ASSUME Claim(w) \/ Context(w) PROVE Keeps(w)
  <2>1. run'[w].pending = run[w].pending
    BY <1>0, <1>2 DEF Claim, Context, Run
  <2>. QED
    BY <1>0, <1>2, <2>1 DEF Claim, Context, Keeps
<1>3. CASE Open(w)
  <2>1. PICK s \in Listings(run[w].box) :
           /\ session' = [session EXCEPT ![w] = Fresh(s)]
           /\ run' = [run EXCEPT ![w] = [run[w] EXCEPT !.listing = FirstBatch(s)]]
    BY <1>0, <1>3 DEF Open
  <2>2. session'[w] = Fresh(s) /\ run'[w].pending = run[w].pending
    BY <1>0, <2>1, ListingType, RunListing
  <2>. QED
    BY <1>0, <1>3, <2>2, ListingType DEF Open, LocalAt, Renews
<1>4. CASE Heartbeat(w)
  BY <1>0, <1>4, ForgetType DEF Heartbeat, Keeps
<1>5. CASE Lookup(w)
  <2>. DEFINE a == UidlAction(imports[Uidl(w)], run[w].delete)
  <2>1. CASE a = "duplicate"
    BY <1>0, <1>5, <2>1, AdvanceType DEF Lookup, Keeps
  <2>2. CASE a # "duplicate"
    <3>1. run' = [run EXCEPT ![w] = [run[w] EXCEPT !.action = a]]
      BY <1>0, <1>5, <2>2 DEF Lookup
    <3>2. run'[w].pending = run[w].pending
      BY <1>0, <3>1 DEF Run
    <3>. QED
      BY <1>0, <1>5, <3>2 DEF Lookup, Keeps
  <2>. QED
    BY <2>1, <2>2
<1>6. CASE Reopen(w)
  <2>1. PICK s \in Listings(run[w].box) : session' = [session EXCEPT ![w] = Fresh(s)]
    BY <1>6 DEF Reopen
  <2>. QED
    BY <1>0, <1>6, <2>1, ListingType DEF Reopen, Renews
<1>7. CASE Disappeared(w)
  BY <1>0, <1>7, AdvanceType, RunFailure DEF Disappeared, Keeps
<1>8. ASSUME Dele(w), Numbers(w) # {},
             pc[w] = "stored" \/ (pc[w] = "remote" /\ run[w].action = "delete_only")
      PROVE  Marks(w)
  <2>1. Target(w) \in Messages /\ Uidl(w) \in Uidls
    BY <1>0, <1>8, TargetFound
  <2>2. run[w].pending \cup {Uidl(w)} \in SUBSET Uidls
    BY <1>0, <2>1 DEF Run
  <2>. DEFINE r == [run[w] EXCEPT !.pending = @ \cup {Uidl(w)}]
  <2>3. r \in Run /\ r.pending = run[w].pending \cup {Uidl(w)}
    BY <1>0, <2>2, RunPending
  <2>4. Advance(w, r)
    BY <1>8 DEF Dele
  <2>. HIDE DEF r
  <2>5. run'[w].pending = run[w].pending \cup {Uidl(w)}
    BY <1>0, <2>3, <2>4, AdvanceType
  <2>6. session'[w] = [session[w] EXCEPT !.marked = @ \cup {Target(w)}]
    BY <1>0, <1>8 DEF Dele
  <2>7. /\ session'[w].marked = session[w].marked \cup {Target(w)}
        /\ session'[w].msgs = session[w].msgs
    BY <1>0, <2>1, <2>6, SessionMark
  <2>. QED
    BY <1>8, <2>5, <2>7 DEF Marks
<1>9. CASE DeleteOnly(w)
  BY <1>8, <1>9 DEF DeleteOnly
<1>10. CASE Store(w)
  BY <1>0, <1>10, AdvanceType DEF Store, Keeps
<1>11. CASE DeleteStored(w)
  <2>1. CASE run[w].delete
    <3>1. Dele(w) /\ pc[w] = "stored"
      BY <1>11, <2>1 DEF DeleteStored
    <3>2. Numbers(w) # {}
      BY <1>0, <3>1 DEF LocalAt
    <3>. QED
      BY <1>8, <3>1, <3>2
  <2>2. CASE ~run[w].delete
    BY <1>0, <1>11, <2>2, AdvanceType DEF DeleteStored, Keeps
  <2>. QED
    BY <2>1, <2>2
<1>12. ASSUME NEW closes \in BOOLEAN, ItemFails(w, closes)
       PROVE  Keeps(w) \/ Renews(w)
  <2>. DEFINE r == [run[w] EXCEPT !.pending = @ \ Undone(w, closes)]
  <2>1. run[w].pending \ Undone(w, closes) \in SUBSET Uidls
    BY <1>0 DEF Run
  <2>2. r \in Run /\ r.pending = run[w].pending \ Undone(w, closes)
    BY <1>0, <2>1, RunPending
  <2>3. Advance(w, CountFailure(r))
    BY <1>12 DEF ItemFails
  <2>. HIDE DEF r
  <2>4. run'[w].pending = run[w].pending \ Undone(w, closes)
    BY <1>0, <2>2, <2>3, AdvanceType, RunFailure
  <2>5. session'[w] = IF closes THEN Closed ELSE session[w]
    BY <1>0, <1>12 DEF ItemFails
  <2>. QED
    BY <1>12, <2>4, <2>5 DEF ItemFails, Undone, Keeps, Renews, Closed
<1>13. CASE Breaks(w)
  BY <1>0, <1>13, ForgetType DEF Breaks, Keeps
<1>14. CASE Quit(w)
  <2>1. PICK ok \in BOOLEAN :
           /\ run' = [run EXCEPT ![w] = [run[w] EXCEPT !.action = AfterQuit(ok)]]
           /\ ok => Commit(w)
    BY <1>0, <1>14 DEF Quit
  <2>2. /\ run'[w].action = AfterQuit(ok)
        /\ run'[w].pending = run[w].pending
    BY <1>0, <2>1 DEF Run
  <2>. QED
    BY <1>0, <1>14, <2>1, <2>2 DEF Quit, Goto, Quits, AfterQuit
<1>15. CASE RecordStates(w)
  <2>1. run'[w].pending = {}
    BY <1>0, <1>15 DEF RecordStates, Run
  <2>. QED
    BY <1>0, <1>15, <2>1 DEF RecordStates, Keeps
<1>16. ASSUME Finalize(w) \/ LeaseLost(w) \/ GiveUp(w) \/ Crash(w) PROVE Renews(w)
  <2>1. Return(w)
    BY <1>16 DEF Finalize, LeaseLost, GiveUp, Crash
  <2>2. session'[w] = Closed /\ run'[w] = NoRun
    BY <1>0, <2>1 DEF Return
  <2>. QED
    BY <2>2 DEF Renews, Closed, NoRun
<1>17. CASE Disconnect(w)
  BY <1>0, <1>17 DEF Disconnect, Renews, Closed, LocalAt
<1>. QED
  BY <1>1, <1>2, <1>3, <1>4, <1>5, <1>6, <1>7, <1>9, <1>10, <1>11, <1>12, <1>13,
     <1>14, <1>15, <1>16, <1>17 DEF WorkerStep

-----------------------------------------------------------------------------
(* Import rows.                                                            *)

\* A message has a copy only if it has an import row, and then one.
OneCopy ==
    \A m \in Messages :
        copies[m] <= 1 /\ (imports[UidlOf[m]] = "none" => copies[m] = 0)

\* What a worker may delete has an import row.
MarkedImported(w) ==
    /\ (pc[w] = "remote" /\ run[w].action = "delete_only") \/ pc[w] = "stored"
       => imports[Uidl(w)] # "none"
    /\ \A m \in session[w].marked : imports[UidlOf[m]] # "none"
RemovedImported == \A m \in removed : imports[UidlOf[m]] # "none"

Backed ==
    OneCopy /\ RemovedImported /\ \A w \in Workers : MarkedImported(w)

\* The loop's message has a UIDL.
LEMMA PlacedUidl ==
  ASSUME Typed, NEW w \in Workers, pc[w] \in InItem
  PROVE  Uidl(w) \in Uidls
<1>1. run[w].pos \in DOMAIN run[w].listing /\ run[w] \in Run
  BY DEF Typed, LocalAt, TypeOK, WorkerTypes
<1>2. run[w].listing[run[w].pos] \in Messages
  BY <1>1 DEF Run
<1>. QED
  BY <1>2 DEF Uidl, Uidls

\* A message is stored once: only a message without an import row is stored,
\* and its row is written in the same transaction.
LEMMA OneCopyStep ==
  ASSUME Typed, OneCopy, [Next]_vars PROVE OneCopy'
<1>0. imports \in [Uidls -> ImportState] /\ copies \in [Messages -> Nat]
  BY DEF Typed, TypeOK, MailTypes
<1>1. \A m \in Messages : UidlOf[m] \in Uidls
  BY DEF Uidls
<1>2. CASE NoImport
  BY <1>1, <1>2 DEF NoImport, OneCopy
<1>3. ASSUME NEW w \in Workers, Imports(w) PROVE OneCopy'
  <2>1. imports'[Uidl(w)] # "none" /\ copies[Target(w)] = 0
    BY <1>0, <1>3 DEF Imports, OneCopy
  <2>2. ASSUME NEW m \in Messages
        PROVE  copies'[m] <= 1 /\ (imports'[UidlOf[m]] = "none" => copies'[m] = 0)
    <3>1. CASE m = Target(w)
      BY <1>0, <1>3, <2>1, <3>1 DEF Imports
    <3>2. CASE m # Target(w)
      BY <1>0, <1>1, <1>3, <2>1, <3>2 DEF Imports, OneCopy
    <3>. QED
      BY <3>1, <3>2
  <2>. QED
    BY <2>2 DEF OneCopy
<1>. QED
  BY <1>2, <1>3, ImportStep

\* Import rows are never removed.
LEMMA ImportsStay ==
  ASSUME Typed, [Next]_vars
  PROVE  \A u \in Uidls : imports[u] # "none" => imports'[u] # "none"
  BY ImportStep DEF NoImport, Imports, Typed, TypeOK, MailTypes

\* A step that is no worker's leaves the workers alone.
LEMMA WorkersStep ==
  ASSUME [Next]_vars
  PROVE  UNCHANGED workerVars \/ \E w \in Workers : WorkerStep(w) \/ Crash(w)
  BY DEF Next, User, UpdateAccount, StartTest, EndTest, CheckCollect,
         QueueCollect, CheckDelete, DeleteAccount, Remote, Arrive, Expunge,
         Clock, JobBecomesDue, CollectBecomesDue, LeaseExpires, vars

\* A worker reaches a deletion through Lookup or Store only.
LEMMA DeletionDecided ==
  ASSUME Typed, NEW w \in Workers, WorkerStep(w) \/ Crash(w), MarkedImported(w),
         (pc'[w] = "remote" /\ run'[w].action = "delete_only") \/ pc'[w] = "stored"
  PROVE  Uidl(w)' = Uidl(w) /\ imports'[Uidl(w)] # "none"
<1> USE DEF WorkerTypes, workerVars
<1>0. /\ WorkerTypes /\ LocalAt(w) /\ run[w] \in Run
      /\ imports \in [Uidls -> ImportState]
  BY DEF Typed, TypeOK, MailTypes
<1>1. Lookup(w) \/ Reopen(w) \/ (Store(w) /\ ~AlreadyImported(w))
  <2>1. pc' = [pc EXCEPT ![w] = pc'[w]]
    BY OwnStep DEF Own, Typed, TypeOK
  <2>. QED
    BY <1>0, <2>1
    DEF WorkerStep, Sweep, EnqueueScheduled, Claim, NothingToClaim, Context,
        Open, Heartbeat, Disappeared, DeleteOnly, Dele, Advance, Retrieve,
        DeleteStored, Store, ItemFails, Breaks, Quit, RecordStates, Finalize,
        LeaseLost, Disconnect, GiveUp, Return, Crash, Goto
<1>2. CASE Lookup(w)
  <2>. DEFINE a == UidlAction(imports[Uidl(w)], run[w].delete)
  <2>1. a # "duplicate"
    BY <1>0, <1>2 DEF Lookup, Advance, Goto
  <2>2. run' = [run EXCEPT ![w] = [run[w] EXCEPT !.action = a]] /\ UNCHANGED imports
    BY <1>0, <1>2, <2>1 DEF Lookup, localVars
  <2>3. pc'[w] = "remote"
    BY <1>0, <1>2, <2>1 DEF Lookup, Goto
  <2>4. /\ run'[w].action = a /\ run'[w].pos = run[w].pos
        /\ run'[w].listing = run[w].listing
    BY <1>0, <2>2 DEF Run
  <2>5. imports[Uidl(w)] # "none"
    BY <2>3, <2>4 DEF UidlAction
  <2>. QED
    BY <2>2, <2>4, <2>5 DEF Uidl
<1>3. CASE Reopen(w)
  BY <1>3 DEF Reopen, MarkedImported, Uidl, localVars
<1>4. CASE Store(w) /\ ~AlreadyImported(w)
  <2>1. Uidl(w) \in Uidls /\ Uidl(w)' = Uidl(w)
    BY <1>4, PlacedUidl DEF Store, Uidl
  <2>. QED
    BY <1>0, <1>4, <2>1 DEF Store
<1>. QED
  BY <1>1, <1>2, <1>3, <1>4

\* DELE is only sent for a message that has an import row: run_once decides
\* delete_only by the row and deletes a new message after _store committed.
LEMMA MarkedStep ==
  ASSUME Typed, [Next]_vars, \A w \in Workers : MarkedImported(w), NEW v \in Workers
  PROVE  MarkedImported(v)'
<1>0. /\ \A u \in Uidls : imports[u] # "none" => imports'[u] # "none"
      /\ WorkerTypes /\ session[v] \in Session /\ MarkedImported(v)
  BY ImportsStay DEF Typed, TypeOK, WorkerTypes
<1>1. \A m \in session[v].marked : UidlOf[m] \in Uidls
  BY <1>0 DEF Session, Uidls
<1>2. ASSUME pc'[v] = pc[v], run'[v] = run[v], session'[v] = session[v]
      PROVE  MarkedImported(v)'
  <2>1. pc[v] \in InItem => Uidl(v) \in Uidls
    BY PlacedUidl
  <2>. QED
    BY <1>0, <1>1, <1>2, <2>1 DEF MarkedImported, Uidl
<1>3. ASSUME NEW w \in Workers, WorkerStep(w) \/ Crash(w) PROVE MarkedImported(v)'
  <2>1. CASE v # w
    BY <1>0, <1>2, <1>3, <2>1, OwnStep, OthersStay
  <2>2. CASE v = w
    <3>1. (pc'[v] = "remote" /\ run'[v].action = "delete_only") \/ pc'[v] = "stored"
             => imports'[Uidl(v)'] # "none"
      BY <1>0, <1>3, <2>2, DeletionDecided
    <3>2. \A m \in session[v].marked : imports'[UidlOf[m]] # "none"
      BY <1>0, <1>1 DEF MarkedImported
    <3>3. Marks(v) => imports'[UidlOf[Target(v)]] # "none"
      BY <1>0, TargetFound DEF Marks, MarkedImported
    <3>4. \A m \in session'[v].marked : imports'[UidlOf[m]] # "none"
      BY <1>3, <2>2, <3>2, <3>3, SessionStep DEF Marks, Keeps, Renews, Quits, Closed
    <3>. QED
      BY <3>1, <3>4 DEF MarkedImported
  <2>. QED
    BY <2>1, <2>2
<1>. QED
  BY <1>2, <1>3, WorkersStep DEF workerVars

\* Copies, deletions and marks keep being backed by import rows.
LEMMA BackedStep ==
  ASSUME Typed, Backed, [Next]_vars PROVE Backed'
<1>1. \A u \in Uidls : imports[u] # "none" => imports'[u] # "none"
  BY ImportsStay
<1>2. \A m \in removed : UidlOf[m] \in Uidls
  BY DEF Typed, TypeOK, MailTypes, Uidls
<1>3. ASSUME NEW w \in Workers
      PROVE  \A m \in session[w].marked :
                UidlOf[m] \in Uidls /\ imports[UidlOf[m]] # "none"
  BY DEF Typed, TypeOK, WorkerTypes, Session, Uidls, Backed, MarkedImported
<1>4. \A m \in removed' : m \in removed \/ \E w \in Workers : m \in session[w].marked
  BY RemoteStep DEF remoteVars, Removes, Commit, Arrive, Expunge
<1>5. RemovedImported'
  BY <1>1, <1>2, <1>3, <1>4 DEF Backed, RemovedImported
<1>. QED
  BY <1>5, OneCopyStep, MarkedStep DEF Backed

-----------------------------------------------------------------------------
(* Deletions, when no two maildrops share a UIDL.                          *)

\* No two messages of any maildrop have the same UIDL: the account stays with
\* one maildrop, or its servers never use the same UIDL.
DistinctUidls == \A m, n \in Messages : UidlOf[m] = UidlOf[n] => m = n

\* An import row is the row of a message that was stored.
RowHasCopy == \A m \in Messages : imports[UidlOf[m]] # "none" => copies[m] > 0

\* An import row comes with the copy of its message.
LEMMA RowHasCopyStep ==
  ASSUME DistinctUidls, Typed, RowHasCopy, [Next]_vars PROVE RowHasCopy'
<1>0. imports \in [Uidls -> ImportState] /\ copies \in [Messages -> Nat]
  BY DEF Typed, TypeOK, MailTypes
<1>1. \A m \in Messages : UidlOf[m] \in Uidls
  BY DEF Uidls
<1>2. CASE NoImport
  BY <1>1, <1>2 DEF NoImport, RowHasCopy
<1>3. ASSUME NEW w \in Workers, Imports(w) PROVE RowHasCopy'
  <2>1. ASSUME NEW m \in Messages, imports'[UidlOf[m]] # "none" PROVE copies'[m] > 0
    <3>1. CASE m = Target(w)
      BY <1>0, <1>3, <3>1 DEF Imports
    <3>2. CASE m # Target(w)
      <4>1. UidlOf[m] # Uidl(w)
        BY <1>3, <3>2 DEF DistinctUidls, Imports
      <4>. QED
        BY <1>0, <1>1, <1>3, <2>1, <3>2, <4>1 DEF Imports, RowHasCopy
    <3>. QED
      BY <3>1, <3>2
  <2>. QED
    BY <2>1 DEF RowHasCopy
<1>. QED
  BY <1>2, <1>3, ImportStep

\* A deletion that waits was marked in the open session, until QUIT; confirmed
\* deletions have left the server.
WaitingMarked(w) ==
    /\ \A i \in DOMAIN session[w].msgs : session[w].msgs[i] \in arrived
    /\ session[w].marked \subseteq arrived
    /\ \A m \in Messages : UidlOf[m] \in run[w].pending =>
          \/ m \in session[w].marked
          \/ /\ pc[w] = "states"
             /\ run[w].action = "deleted" => m \in arrived \ drop
DeletedLeft ==
    \A m \in Messages : imports[UidlOf[m]] = "deleted" => m \in arrived \ drop

Settled == DeletedLeft /\ \A w \in Workers : WaitingMarked(w)

\* Once a message has left the server it does not come back.
LEMMA GoneStays ==
  ASSUME Typed, [Next]_vars
  PROVE  /\ arrived \subseteq arrived'
         /\ \A m \in arrived \ drop : m \in arrived' \ drop'
  BY RemoteStep DEF remoteVars, Removes, Commit, Arrive, Expunge

\* pending follows the marks of the open session through every failure: a
\* closed client empties both.
LEMMA WaitingStep ==
  ASSUME DistinctUidls, Typed, [Next]_vars,
         \A w \in Workers : WaitingMarked(w),
         NEW v \in Workers
  PROVE  WaitingMarked(v)'
<1>0. /\ WorkerTypes /\ session[v] \in Session /\ LocalAt(v)
      /\ WaitingMarked(v) /\ drop \subseteq arrived
  BY DEF Typed, TypeOK, WorkerTypes, MailTypes
<1>1. ASSUME pc'[v] = pc[v], run'[v] = run[v], session'[v] = session[v]
      PROVE  WaitingMarked(v)'
  BY <1>0, <1>1, GoneStays DEF WaitingMarked
<1>2. ASSUME NEW w \in Workers, WorkerStep(w) \/ Crash(w) PROVE WaitingMarked(v)'
  <2>1. CASE v # w
    BY <1>0, <1>1, <1>2, <2>1, OwnStep, OthersStay
  <2>2. CASE v = w
    <3>1. CASE Marks(v)
      <4>1. /\ Target(v) \in Messages /\ Target(v) \in arrived
            /\ UidlOf[Target(v)] = Uidl(v)
        BY <1>0, <3>1, TargetFound DEF Marks, WaitingMarked
      <4>2. ASSUME NEW m \in Messages, UidlOf[m] \in run'[v].pending
            PROVE  m \in session'[v].marked
        <5>1. CASE UidlOf[m] = Uidl(v)
          BY <3>1, <4>1, <5>1 DEF Marks, DistinctUidls
        <5>2. CASE UidlOf[m] \in run[v].pending
          BY <1>0, <3>1, <5>2 DEF Marks, WaitingMarked
        <5>. QED
          BY <3>1, <4>2, <5>1, <5>2 DEF Marks
      <4>. QED
        BY <1>0, <3>1, <4>1, <4>2, GoneStays DEF Marks, WaitingMarked
    <3>2. CASE Keeps(v)
      BY <1>0, <3>2, GoneStays DEF Keeps, WaitingMarked
    <3>3. CASE Renews(v)
      BY <1>0, <3>3, GoneStays DEF Renews, WaitingMarked, LocalAt
    <3>4. CASE Quits(v)
      <4>1. Closed.marked = {} /\ DOMAIN Closed.msgs = {}
        BY DEF Closed
      <4>2. ASSUME NEW m \in Messages, UidlOf[m] \in run'[v].pending,
                   run'[v].action = "deleted"
            PROVE  m \in arrived' \ drop'
        BY <1>0, <3>4, <4>2 DEF Quits, Commit, WaitingMarked
      <4>. QED
        BY <3>4, <4>1, <4>2 DEF Quits, WaitingMarked
    <3>. QED
      BY <1>2, <2>2, <3>1, <3>2, <3>3, <3>4, SessionStep
  <2>. QED
    BY <2>1, <2>2
<1>. QED
  BY <1>1, <1>2, WorkersStep DEF workerVars

\* 'deleted' is recorded by run_once after a QUIT that was confirmed, only.
LEMMA DeletedStep ==
  ASSUME Typed, Settled, [Next]_vars PROVE DeletedLeft'
<1>0. imports \in [Uidls -> ImportState] /\ \A m \in Messages : UidlOf[m] \in Uidls
  BY DEF Typed, TypeOK, MailTypes, Uidls
<1>1. ASSUME NEW w \in Workers, WorkerStep(w) \/ Crash(w), NEW m \in Messages,
             imports'[UidlOf[m]] = "deleted", imports[UidlOf[m]] # "deleted"
      PROVE  m \in arrived' \ drop'
  <2>1. RecordStates(w)
    <3>1. \/ UNCHANGED localVars \/ Store(w) \/ RecordStates(w)
          \/ \E closes \in BOOLEAN : ItemFails(w, closes)
      BY <1>1
      DEF WorkerStep, Sweep, EnqueueScheduled, Claim, NothingToClaim, Context,
          Open, Heartbeat, Lookup, Reopen, Disappeared, DeleteOnly, Retrieve,
          DeleteStored, Breaks, Quit, Finalize, LeaseLost, Disconnect, GiveUp,
          Crash
    <3>2. ~UNCHANGED localVars
      BY <1>1 DEF localVars
    <3>3. ~Store(w)
      BY <1>0, <1>1, <3>2 DEF Store, localVars
    <3>4. ASSUME NEW closes \in BOOLEAN, ItemFails(w, closes) PROVE FALSE
      BY <1>0, <1>1, <3>4 DEF ItemFails
    <3>. QED
      BY <3>1, <3>2, <3>3, <3>4
  <2>2. /\ pc[w] = "states" /\ run[w].action = "deleted"
        /\ UidlOf[m] \in run[w].pending
    BY <1>0, <1>1, <2>1 DEF RecordStates
  <2>3. session[w].marked = {}
    BY <2>2 DEF Typed, LocalAt
  <2>. QED
    BY <2>2, <2>3, GoneStays DEF Settled, WaitingMarked
<1>2. ASSUME imports' = imports PROVE DeletedLeft'
  BY <1>2, GoneStays DEF Settled, DeletedLeft
<1>3. imports' = imports \/ \E w \in Workers : WorkerStep(w) \/ Crash(w)
  BY DEF Next, User, UpdateAccount, StartTest, EndTest, CheckCollect,
         QueueCollect, CheckDelete, DeleteAccount, Remote, Arrive, Expunge,
         Clock, JobBecomesDue, CollectBecomesDue, LeaseExpires, vars, localVars
<1>. QED
  BY <1>1, <1>2, <1>3, GoneStays DEF Settled, DeletedLeft

-----------------------------------------------------------------------------
(* The tries of a job.                                                      *)

\* Workers inside a run whose claim was not the last try: only they put a job
\* back, by the count they read when they claimed it.
Outside == {"idle", "enqueue", "claim"}
Late == {w \in Workers : pc[w] \notin Outside /\ run[w].attempts < MaxAttempts}

\* After the last try each further one has used up a late worker, and a queued
\* job has used up one more.
TriesAt(n, l, k, queued) ==
    n >= MaxAttempts => /\ n + l < MaxAttempts + k
                        /\ queued => n + l + 1 < MaxAttempts + k
Tries == TriesAt(attempts, Cardinality(Late), Cardinality(Workers), jobStatus = "queued")

\* The four ways in which the count, the late workers and the status move.
LEMMA TriesKept ==
  ASSUME NEW n \in Nat, NEW l \in Nat, NEW c \in Nat, NEW k \in Nat,
         NEW p \in BOOLEAN, NEW q \in BOOLEAN, TriesAt(n, l, k, p), c <= l, q => p
  PROVE  TriesAt(n, c, k, q)
  BY DEF TriesAt, MaxAttempts

LEMMA TriesStarted ==
  ASSUME NEW n \in Nat, ~(n >= MaxAttempts), NEW c, NEW k, NEW q
  PROVE  TriesAt(n, c, k, q)
  BY DEF TriesAt

LEMMA TriesClaimed ==
  ASSUME NEW n \in Nat, NEW l \in Nat, NEW c \in Nat, NEW k \in Nat,
         TriesAt(n, l, k, TRUE), Exhausted(n + 1) => c <= l, l < k
  PROVE  TriesAt(n + 1, c, k, FALSE)
  BY DEF TriesAt, MaxAttempts, Exhausted

LEMMA TriesPutBack ==
  ASSUME NEW n \in Nat, NEW l \in Nat, NEW c \in Nat, NEW k \in Nat,
         NEW p, TriesAt(n, l, k, p), c < l
  PROVE  TriesAt(n, c, k, TRUE)
  BY DEF TriesAt, MaxAttempts

\* Nobody but a worker that claims enters a run, and nobody changes the count it
\* has read.
LEMMA CountKept ==
  ASSUME Typed, NEW w \in Workers, WorkerStep(w) \/ Crash(w), ~Claim(w),
         pc'[w] \notin Outside
  PROVE  pc[w] \notin Outside /\ run'[w].attempts = run[w].attempts
<1> USE DEF WorkerTypes, workerVars, Outside
<1>0. WorkerTypes /\ run[w] \in Run
  BY DEF Typed, TypeOK
<1>1. ASSUME Sweep(w) \/ EnqueueScheduled(w) \/ NothingToClaim(w) \/ Finalize(w)
                \/ LeaseLost(w) \/ GiveUp(w) \/ Crash(w)
      PROVE  FALSE
  BY <1>0, <1>1
     DEF Sweep, EnqueueScheduled, NothingToClaim, Finalize, LeaseLost, GiveUp, Crash, Return, Goto
<1>2. ASSUME NEW r \in Run, Advance(w, r), r.attempts = run[w].attempts
      PROVE  run'[w].attempts = run[w].attempts
  <2>1. run'[w] = [r EXCEPT !.pos = r.pos + 1, !.action = "import"]
    BY <1>0, <1>2 DEF Advance
  <2>. QED
    BY <1>2, <2>1 DEF Run
<1>3. ASSUME Forget(w) PROVE run'[w].attempts = run[w].attempts
  <2>1. run'[w] = [NoRun EXCEPT !.no = run[w].no, !.attempts = run[w].attempts]
    BY <1>0, <1>3 DEF Forget
  <2>. QED
    BY <2>1 DEF NoRun
<1>4. ASSUME Dele(w) PROVE run'[w].attempts = run[w].attempts
  <2>. DEFINE r == [run[w] EXCEPT !.pending = @ \cup {Uidl(w)}]
  <2>1. run'[w] = [r EXCEPT !.pos = r.pos + 1, !.action = "import"]
    BY <1>0, <1>4 DEF Dele, Advance
  <2>2. r.attempts = run[w].attempts
    BY <1>0 DEF Run
  <2>3. [r EXCEPT !.pos = r.pos + 1, !.action = "import"].attempts = r.attempts
    BY <1>0 DEF Run
  <2>. QED
    BY <2>1, <2>2, <2>3
<1>5. CASE Context(w) \/ Open(w)
  BY <1>0, <1>5 DEF Context, Open, Goto, Run
<1>6. CASE Heartbeat(w)
  BY <1>0, <1>3, <1>6 DEF Heartbeat
<1>7. CASE Lookup(w)
  <2>1. CASE Advance(w, run[w])
    BY <1>0, <1>2, <1>7, <2>1 DEF Lookup
  <2>2. CASE ~Advance(w, run[w])
    BY <1>0, <1>7, <2>2 DEF Lookup, Run
  <2>. QED
    BY <2>1, <2>2
<1>8. CASE Reopen(w) \/ Retrieve(w) \/ Disconnect(w)
  BY <1>0, <1>8 DEF Reopen, Retrieve, Disconnect
<1>9. CASE Disappeared(w)
  <2>1. CountFailure(run[w]) \in Run /\ CountFailure(run[w]).attempts = run[w].attempts
    BY <1>0 DEF CountFailure, Run
  <2>. QED
    BY <1>2, <1>9, <2>1 DEF Disappeared
<1>10. CASE DeleteOnly(w)
  BY <1>4, <1>10 DEF DeleteOnly
<1>11. CASE Store(w)
  BY <1>0, <1>2, <1>11 DEF Store
<1>12. CASE DeleteStored(w)
  BY <1>0, <1>2, <1>4, <1>12 DEF DeleteStored
<1>13. ASSUME NEW closes \in BOOLEAN, ItemFails(w, closes)
       PROVE  run'[w].attempts = run[w].attempts
  <2>. DEFINE r == [run[w] EXCEPT !.pending = @ \ Undone(w, closes)]
  <2>1. run[w].pending \ Undone(w, closes) \in SUBSET Uidls
    BY <1>0 DEF Run
  <2>2. r \in Run /\ r.attempts = run[w].attempts
    BY <1>0, <2>1, RunPending DEF Run
  <2>3. Advance(w, CountFailure(r))
    BY <1>13 DEF ItemFails
  <2>. HIDE DEF r
  <2>4. CountFailure(r) \in Run /\ CountFailure(r).attempts = run[w].attempts
    BY <2>2 DEF CountFailure, Run
  <2>. QED
    BY <1>2, <2>3, <2>4
<1>14. CASE Breaks(w)
  BY <1>0, <1>3, <1>14 DEF Breaks
<1>15. CASE Quit(w)
  <2>1. PICK ok \in BOOLEAN :
           run' = [run EXCEPT ![w] = [run[w] EXCEPT !.action = AfterQuit(ok)]]
    BY <1>0, <1>15 DEF Quit
  <2>2. AfterQuit(ok) \in Decisions
    BY DEF AfterQuit, Decisions
  <2>. QED
    BY <1>0, <1>15, <2>1, <2>2, RunDecision DEF Quit
<1>16. CASE RecordStates(w)
  BY <1>0, <1>16 DEF RecordStates, Run
<1>17. run'[w].attempts = run[w].attempts
  BY <1>1, <1>5, <1>6, <1>7, <1>8, <1>9, <1>10, <1>11, <1>12, <1>13, <1>14, <1>15, <1>16
     DEF WorkerStep
<1>18. pc[w] \notin Outside
  BY <1>1
     DEF WorkerStep, Context, Open, Heartbeat, Lookup, Reopen, Disappeared, DeleteOnly,
         Retrieve, Store, DeleteStored, ItemFails, Breaks, Quit, RecordStates, Disconnect
<1>. QED
  BY <1>17, <1>18

\* A step leaves no worker late that was not, except that a claim makes its
\* worker late if it is not the last try.
LEMMA LateStep ==
  ASSUME Typed, [Next]_vars
  PROVE  /\ (\A w \in Workers : ~Claim(w)) => Late' \subseteq Late
         /\ \A w \in Workers : Claim(w) =>
               w \notin Late /\ (Exhausted(attempts + 1) => Late' \subseteq Late)
<1>0. WorkerTypes /\ attempts \in Nat /\ MaxAttempts \in Nat
  BY DEF Typed, TypeOK, JobTypes, MaxAttempts
<1>1. ASSUME NEW w \in Workers, WorkerStep(w) \/ Crash(w), NEW v \in Late', v # w
      PROVE  v \in Late
  <2>1. pc'[v] = pc[v] /\ run'[v] = run[v]
    BY <1>0, <1>1, OwnStep, OthersStay DEF Late
  <2>. QED
    BY <1>1, <2>1 DEF Late
<1>2. ASSUME NEW w \in Workers, WorkerStep(w) \/ Crash(w), ~Claim(w), w \in Late'
      PROVE  w \in Late
  BY <1>2, CountKept DEF Late
<1>3. ASSUME NEW w \in Workers, Claim(w)
      PROVE  w \notin Late /\ (Exhausted(attempts + 1) => Late' \subseteq Late)
  <2>1. pc[w] = "claim"
    BY <1>3 DEF Claim
  <2>2. run'[w].attempts = attempts + 1
    BY <1>0, <1>3 DEF Claim, WorkerTypes, Run
  <2>3. WorkerStep(w)
    BY <1>3 DEF WorkerStep
  <2>4. ASSUME Exhausted(attempts + 1) PROVE w \notin Late'
    <3>1. \A n \in Nat : Exhausted(n) => ~(n < MaxAttempts)
      BY DEF Exhausted, MaxAttempts
    <3>2. ~(attempts + 1 < MaxAttempts)
      BY <1>0, <2>4, <3>1
    <3>3. ~(run'[w].attempts < MaxAttempts)
      BY <2>2, <3>2, Zenon
    <3>. QED
      BY <3>3, Zenon DEF Late, MaxAttempts
  <2>. QED
    BY <1>1, <2>1, <2>3, <2>4 DEF Late, Outside
<1>4. ASSUME UNCHANGED workerVars PROVE Late' \subseteq Late
  BY <1>4 DEF workerVars, Late
<1>. QED
  BY <1>1, <1>2, <1>3, <1>4, WorkersStep

\* What a step does to the count and the status of the job.
LEMMA CountStep ==
  ASSUME Typed, [Next]_vars
  PROVE  \/ attempts' \in Nat /\ ~(attempts' >= MaxAttempts)
         \/ attempts' = attempts /\ (jobStatus' = "queued" => jobStatus = "queued")
         \/ \E w \in Workers : Claim(w)
         \/ \E w \in Late : GiveUp(w) /\ attempts' = attempts
<1> USE DEF jobVars
<1>0. attempts \in Nat /\ JobTypes
  BY DEF Typed, TypeOK, JobTypes
<1>1. ASSUME InsertJob
      PROVE  \/ attempts' \in Nat /\ ~(attempts' >= MaxAttempts)
             \/ attempts' = attempts /\ (jobStatus' = "queued" => jobStatus = "queued")
  BY <1>1 DEF InsertJob, MaxAttempts
<1>2. CASE User \/ Remote \/ Clock \/ UNCHANGED vars
  BY <1>1, <1>2
  DEF User, UpdateAccount, StartTest, EndTest, CheckCollect, QueueCollect,
      CheckDelete, DeleteAccount, Remote, Arrive, Expunge, Clock, JobBecomesDue,
      CollectBecomesDue, LeaseExpires, vars
<1>3. ASSUME NEW w \in Workers, Sweep(w)
      PROVE  \/ attempts' \in Nat /\ ~(attempts' >= MaxAttempts)
             \/ attempts' = attempts /\ (jobStatus' = "queued" => jobStatus = "queued")
  BY <1>0, <1>3 DEF Sweep, Release, Exhausted
<1>4. ASSUME NEW w \in Workers, Finalize(w)
      PROVE  \/ attempts' = attempts /\ jobStatus' # "queued"
             \/ UNCHANGED <<attempts, jobStatus>>
  BY <1>4 DEF Finalize, Finish, Release
<1>5. ASSUME NEW w \in Workers, GiveUp(w)
      PROVE  \/ attempts' = attempts /\ (jobStatus' = "queued" => jobStatus = "queued")
             \/ w \in Late /\ attempts' = attempts
  <2>1. CASE Exhausted(run[w].attempts)
    BY <1>5, <2>1 DEF GiveUp, Finish, Release
  <2>2. CASE ~Exhausted(run[w].attempts)
    <3>1. w \in Late
      BY <1>5, <2>2 DEF GiveUp, Exhausted, Late, Outside, MaxAttempts, Typed, TypeOK,
                        WorkerTypes, Run
    <3>. QED
      BY <1>5, <2>2, <3>1 DEF GiveUp, Release
  <2>. QED
    BY <2>1, <2>2
<1>6. ASSUME NEW w \in Workers, WorkerStep(w) \/ Crash(w)
      PROVE  \/ UNCHANGED <<attempts, jobStatus>> \/ InsertJob \/ Claim(w) \/ Sweep(w)
             \/ Finalize(w) \/ GiveUp(w)
  BY <1>6
  DEF WorkerStep, EnqueueScheduled, NothingToClaim, Context, Open, Heartbeat, Lookup, Reopen,
      Disappeared, DeleteOnly, Retrieve, Store, DeleteStored, ItemFails, Breaks, Quit,
      RecordStates, LeaseLost, Disconnect, Crash
<1>. QED
  BY <1>1, <1>2, <1>3, <1>4, <1>5, <1>6 DEF Next

\* Every further try costs a late worker.
LEMMA TriesStep ==
  ASSUME IsFiniteSet(Workers), Typed, Tries, [Next]_vars PROVE Tries'
<1>0. /\ IsFiniteSet(Late) /\ IsFiniteSet(Late')
      /\ Cardinality(Late) \in Nat /\ Cardinality(Late') \in Nat /\ Cardinality(Workers) \in Nat
      /\ attempts \in Nat
  <2>1. Late \in SUBSET Workers /\ Late' \in SUBSET Workers
    BY DEF Late
  <2>. QED
    BY <2>1, FS_Subset, FS_CardinalityType DEF Typed, TypeOK, JobTypes
<1>1. ASSUME Late' \subseteq Late PROVE Cardinality(Late') <= Cardinality(Late)
  BY <1>0, <1>1, FS_Subset
<1>2. CASE attempts' \in Nat /\ ~(attempts' >= MaxAttempts)
  BY <1>2, TriesStarted, Zenon DEF Tries
<1>3. CASE \E w \in Workers : Claim(w)
  <2>. PICK w \in Workers : Claim(w)
    BY <1>3
  <2>1. attempts' = attempts + 1 /\ jobStatus = "queued" /\ jobStatus' = "running"
    BY DEF Claim
  <2>2. Exhausted(attempts + 1) => Cardinality(Late') <= Cardinality(Late)
    BY <1>1, LateStep
  <2>3. Cardinality(Late) < Cardinality(Workers)
    <3>1. w \notin Late /\ Late \in SUBSET Workers
      BY LateStep DEF Late
    <3>2. Cardinality(Late) <= Cardinality(Workers) /\ Cardinality(Late) # Cardinality(Workers)
      BY <3>1, FS_Subset
    <3>. QED
      BY <1>0, <3>2
  <2>4. TriesAt(attempts, Cardinality(Late), Cardinality(Workers), TRUE)
    <3>1. (jobStatus = "queued") = TRUE
      BY <2>1
    <3>. QED
      BY <3>1 DEF Tries
  <2>5. TriesAt(attempts + 1, Cardinality(Late'), Cardinality(Workers), FALSE)
    BY <1>0, <2>2, <2>3, <2>4, TriesClaimed, Zenon
  <2>6. (jobStatus' = "queued") = FALSE
    BY <2>1
  <2>. QED
    BY <2>1, <2>5, <2>6, Zenon DEF Tries
<1>4. CASE (\A w \in Workers : ~Claim(w)) /\ attempts' = attempts
           /\ (jobStatus' = "queued" => jobStatus = "queued")
  <2>1. Cardinality(Late') <= Cardinality(Late)
    BY <1>1, <1>4, LateStep
  <2>2. TriesAt(attempts, Cardinality(Late'), Cardinality(Workers), jobStatus' = "queued")
    BY <1>0, <1>4, <2>1, TriesKept, Zenon DEF Tries
  <2>. QED
    BY <1>4, <2>2, Zenon DEF Tries
<1>5. CASE (\A w \in Workers : ~Claim(w)) /\ \E w \in Late : GiveUp(w) /\ attempts' = attempts
  <2>. PICK w \in Late : GiveUp(w) /\ attempts' = attempts
    BY <1>5
  <2>1. w \in Workers /\ w \notin Late'
    BY DEF Late, GiveUp, Return, Goto, Typed, TypeOK, WorkerTypes, Outside
  <2>2. Late' \in SUBSET Late /\ Late' # Late
    BY <1>5, <2>1, LateStep
  <2>3. Cardinality(Late') < Cardinality(Late)
    <3>1. Cardinality(Late') <= Cardinality(Late) /\ Cardinality(Late') # Cardinality(Late)
      BY <1>0, <2>2, FS_Subset
    <3>. QED
      BY <1>0, <3>1
  <2>4. TriesAt(attempts, Cardinality(Late'), Cardinality(Workers), TRUE)
    BY <1>0, <2>3, TriesPutBack, Zenon DEF Tries
  <2>5. TriesAt(attempts, Cardinality(Late'), Cardinality(Workers), jobStatus' = "queued")
    BY <2>4 DEF TriesAt
  <2>. QED
    BY <2>5, Zenon DEF Tries
<1>. QED
  BY <1>2, <1>3, <1>4, <1>5, CountStep

-----------------------------------------------------------------------------
(* What a collection has behind it.                                         *)

\* The messages before the loop's position have import rows, unless a failure was
\* counted; past the loop that is the whole listing.
Passed == InItem \cup {"loop", "quit", "states", "finalize"}
Gathered(w) ==
    /\ pc[w] \in Outside \cup {"context", "open"} => run[w].pos = 1
    /\ pc[w] \in Passed /\ ~run[w].failed =>
          \A i \in DOMAIN run[w].listing :
             i < run[w].pos => imports[UidlOf[run[w].listing[i]]] # "none"
    /\ pc[w] \in {"quit", "states", "finalize"} => run[w].pos > Len(run[w].listing)

\* The messages of a listing have a place among the import rows.
LEMMA ListedUidls ==
  ASSUME NEW r \in Run, NEW i \in DOMAIN r.listing
  PROVE  i \in Nat /\ UidlOf[r.listing[i]] \in Uidls
<1>1. r.listing \in Seq(Messages)
  BY DEF Run
<1>2. i \in Nat /\ r.listing[i] \in Messages
  BY <1>1
<1>. QED
  BY <1>2 DEF Uidls

\* A step inside the loop or behind it that stays at its message.
LEMMA GatherStays ==
  ASSUME Typed, [Next]_vars, NEW w \in Workers, Gathered(w),
         run'[w].listing = run[w].listing, run'[w].pos = run[w].pos,
         run[w].failed => run'[w].failed,
         pc'[w] \in Outside \cup {"context", "open"} =>
            pc[w] \in Outside \cup {"context", "open"},
         pc'[w] \in Passed => pc[w] \in Passed,
         pc'[w] \in {"quit", "states", "finalize"} =>
            pc[w] \in {"quit", "states", "finalize"} \/ Last(w)
  PROVE  Gathered(w)'
<1>1. run[w] \in Run
  BY DEF Typed, TypeOK, WorkerTypes
<1>2. ASSUME NEW i \in DOMAIN run[w].listing, imports[UidlOf[run[w].listing[i]]] # "none"
      PROVE  imports'[UidlOf[run[w].listing[i]]] # "none"
  BY <1>1, <1>2, ListedUidls, ImportsStay
<1>. QED
  BY <1>2 DEF Gathered, Last

\* On to the next message: this one has an import row, or a failure is counted.
LEMMA GatherAdvances ==
  ASSUME Typed, [Next]_vars, NEW w \in Workers, Gathered(w), pc[w] \in InItem,
         NEW r \in Run, Advance(w, r), r.listing = run[w].listing, r.pos = run[w].pos,
         run[w].failed => r.failed,
         r.failed \/ imports'[Uidl(w)] # "none"
  PROVE  Gathered(w)'
<1>0. run[w] \in Run /\ WorkerTypes
  BY DEF Typed, TypeOK, WorkerTypes
<1>1. pc'[w] = "loop" /\ run'[w] = [r EXCEPT !.pos = r.pos + 1, !.action = "import"]
  BY <1>0 DEF Advance, Goto, WorkerTypes
<1>2. PICK n \in Nat : n = run[w].pos
  BY <1>0 DEF Run
<1>3. /\ run'[w].listing = run[w].listing /\ run'[w].pos = n + 1
      /\ run'[w].failed = r.failed
  BY <1>1, <1>2 DEF Run
<1>4. ASSUME ~r.failed, NEW i \in DOMAIN run[w].listing, i < n + 1
      PROVE  imports'[UidlOf[run[w].listing[i]]] # "none"
  <2>1. i \in Nat /\ UidlOf[run[w].listing[i]] \in Uidls
    BY <1>0, ListedUidls
  <2>2. CASE i < n
    <3>1. pc[w] \in Passed /\ ~run[w].failed
      BY <1>4 DEF Passed
    <3>2. imports[UidlOf[run[w].listing[i]]] # "none"
      BY <1>2, <2>2, <3>1 DEF Gathered
    <3>. QED
      BY <2>1, <3>2, ImportsStay
  <2>3. CASE i = n
    BY <1>2, <1>4, <2>3 DEF Uidl
  <2>. QED
    BY <1>2, <1>4, <2>1, <2>2, <2>3
<1>5. ASSUME ~run'[w].failed, NEW i \in DOMAIN run'[w].listing, i < run'[w].pos
      PROVE  imports'[UidlOf[run'[w].listing[i]]] # "none"
  BY <1>3, <1>4, <1>5
<1>. QED
  BY <1>1, <1>5, Zenon DEF Gathered, Passed, Outside

\* Leaving a run, or giving it up.
LEMMA GatherEnds ==
  ASSUME WorkerTypes, NEW w \in Workers,
         Return(w) \/ (pc'[w] \in {"lost", "abort", "giveup"})
  PROVE  Gathered(w)'
<1>1. CASE Return(w)
  BY <1>1 DEF WorkerTypes, Return, Goto, NoRun, Gathered, Passed, Outside
<1>2. CASE pc'[w] \in {"lost", "abort", "giveup"}
  BY <1>2 DEF Gathered, Passed, Outside
<1>. QED
  BY <1>1, <1>2

\* A step of a worker keeps what it has behind it.
LEMMA GatherOwn ==
  ASSUME Typed, Backed, [Next]_vars, NEW w \in Workers, WorkerStep(w) \/ Crash(w),
         Gathered(w)
  PROVE  Gathered(w)'
<1> USE DEF WorkerTypes, workerVars
<1>0. WorkerTypes /\ LocalAt(w) /\ run[w] \in Run
  BY DEF Typed, TypeOK
<1>1. CASE Sweep(w) \/ EnqueueScheduled(w) \/ NothingToClaim(w)
  <2>1. /\ pc[w] \in Outside /\ pc'[w] \in Outside /\ run'[w] = run[w]
    BY <1>0, <1>1 DEF Sweep, EnqueueScheduled, NothingToClaim, Goto, Outside
  <2>. QED
    BY <2>1 DEF Gathered, Passed, Outside
<1>2. CASE Claim(w) \/ Context(w)
  <2>1. pc[w] \in Outside \cup {"context", "open"} /\ pc'[w] \in {"context", "open"}
    BY <1>0, <1>2 DEF Claim, Context, Goto, Outside
  <2>2. run'[w].pos = run[w].pos
    BY <1>0, <1>2 DEF Claim, Context, Run
  <2>. QED
    BY <2>1, <2>2 DEF Gathered, Passed, Outside
<1>3. CASE Open(w)
  <2>1. PICK s \in Listings(run[w].box) :
           run' = [run EXCEPT ![w] = [run[w] EXCEPT !.listing = FirstBatch(s)]]
    BY <1>0, <1>3 DEF Open
  <2>2. run'[w].pos = run[w].pos /\ run'[w].listing = FirstBatch(s)
    BY <1>0, <2>1 DEF Run
  <2>3. run[w].pos = 1 /\ pc'[w] = "loop"
    BY <1>0, <1>3 DEF Open, Goto, Gathered, Outside
  <2>4. FirstBatch(s) \in Seq(Messages)
    BY ListingType DEF Typed, TypeOK, MailTypes
  <2>5. \A i \in DOMAIN FirstBatch(s) : ~(i < 1)
    BY <2>4
  <2>. QED
    BY <2>2, <2>3, <2>5 DEF Gathered, Passed, Outside
<1>4. CASE Heartbeat(w)
  <2>1. CASE HoldsLease(w)
    <3>1. /\ pc[w] = "loop" /\ run'[w] = run[w]
          /\ pc'[w] = (IF Last(w) THEN "quit" ELSE "item")
      BY <1>0, <1>4, <2>1 DEF Heartbeat, Goto
    <3>. QED
      BY <3>1, GatherStays DEF Passed, Outside
  <2>2. CASE ~HoldsLease(w)
    BY <1>0, <1>4, <2>2, GatherEnds DEF Heartbeat, Goto
  <2>. QED
    BY <2>1, <2>2
<1>5. CASE Lookup(w)
  <2>. DEFINE a == UidlAction(imports[Uidl(w)], run[w].delete)
  <2>1. CASE a = "duplicate"
    <3>1. Advance(w, run[w]) /\ pc[w] \in InItem /\ imports' = imports
      BY <1>5, <2>1 DEF Lookup, localVars
    <3>2. imports[Uidl(w)] # "none"
      BY <2>1 DEF UidlAction
    <3>. QED
      BY <1>0, <3>1, <3>2, GatherAdvances
  <2>2. CASE a # "duplicate"
    <3>1. a \in Decisions
      BY <2>2 DEF UidlAction, Decisions
    <3>. HIDE DEF a
    <3>2. /\ run' = [run EXCEPT ![w] = [run[w] EXCEPT !.action = a]]
          /\ pc[w] = "item" /\ pc'[w] = "remote"
      BY <1>0, <1>5, <2>2 DEF Lookup, Goto, a
    <3>3. /\ run'[w].pos = run[w].pos /\ run'[w].listing = run[w].listing
          /\ run'[w].failed = run[w].failed
      BY <1>0, <3>1, <3>2, RunDecision
    <3>. QED
      BY <3>2, <3>3, GatherStays DEF Passed, Outside
  <2>. QED
    BY <2>1, <2>2
<1>6. CASE Reopen(w) \/ Retrieve(w) \/ (Store(w) /\ ~AlreadyImported(w))
  <2>1. run'[w] = run[w] /\ pc[w] \in InItem /\ pc'[w] \in InItem
    BY <1>0, <1>6 DEF Reopen, Retrieve, Store, Goto
  <2>. QED
    BY <2>1, GatherStays DEF Passed, Outside
<1>7. CASE Disappeared(w)
  <2>1. CountFailure(run[w]) \in Run
    BY <1>0, RunFailure
  <2>2. /\ CountFailure(run[w]).listing = run[w].listing
        /\ CountFailure(run[w]).pos = run[w].pos /\ CountFailure(run[w]).failed
    BY <1>0 DEF CountFailure, Run
  <2>3. Advance(w, CountFailure(run[w])) /\ pc[w] \in InItem
    BY <1>7 DEF Disappeared
  <2>. QED
    BY <2>1, <2>2, <2>3, GatherAdvances
<1>8. CASE Store(w) /\ AlreadyImported(w)
  <2>1. /\ Advance(w, run[w]) /\ pc[w] \in InItem
        /\ imports' = imports /\ imports[Uidl(w)] # "none"
    BY <1>8 DEF Store, AlreadyImported, localVars
  <2>. QED
    BY <1>0, <2>1, GatherAdvances
<1>9. ASSUME Dele(w), pc[w] \in InItem, imports' = imports, imports[Uidl(w)] # "none",
             Uidl(w) \in Uidls
      PROVE  Gathered(w)'
  <2>. DEFINE r == [run[w] EXCEPT !.pending = @ \cup {Uidl(w)}]
  <2>1. run[w].pending \cup {Uidl(w)} \in SUBSET Uidls
    BY <1>0, <1>9 DEF Run
  <2>2. /\ r \in Run /\ r.listing = run[w].listing /\ r.pos = run[w].pos
        /\ r.failed = run[w].failed
    BY <1>0, <2>1, RunPending DEF Run
  <2>3. Advance(w, r)
    BY <1>9 DEF Dele
  <2>. HIDE DEF r
  <2>. QED
    BY <1>9, <2>2, <2>3, GatherAdvances
<1>10. CASE DeleteOnly(w)
  <2>1. imports[Uidl(w)] # "none" /\ imports' = imports /\ pc[w] \in InItem
    BY <1>10 DEF DeleteOnly, Backed, MarkedImported, localVars
  <2>. QED
    BY <1>9, <1>10, <2>1, PlacedUidl DEF DeleteOnly
<1>11. CASE DeleteStored(w)
  <2>1. imports[Uidl(w)] # "none" /\ imports' = imports /\ pc[w] \in InItem
    BY <1>11 DEF DeleteStored, Backed, MarkedImported, localVars
  <2>2. CASE run[w].delete
    BY <1>9, <1>11, <2>1, <2>2, PlacedUidl DEF DeleteStored
  <2>3. CASE ~run[w].delete
    BY <1>0, <1>11, <2>1, <2>3, GatherAdvances DEF DeleteStored
  <2>. QED
    BY <2>2, <2>3
<1>12. ASSUME NEW closes \in BOOLEAN, ItemFails(w, closes) PROVE Gathered(w)'
  <2>. DEFINE r == [run[w] EXCEPT !.pending = @ \ Undone(w, closes)]
  <2>1. run[w].pending \ Undone(w, closes) \in SUBSET Uidls
    BY <1>0 DEF Run
  <2>2. r \in Run /\ r.listing = run[w].listing /\ r.pos = run[w].pos
    BY <1>0, <2>1, RunPending DEF Run
  <2>3. Advance(w, CountFailure(r)) /\ pc[w] \in InItem
    BY <1>12 DEF ItemFails
  <2>. HIDE DEF r
  <2>4. /\ CountFailure(r) \in Run /\ CountFailure(r).failed
        /\ CountFailure(r).listing = run[w].listing /\ CountFailure(r).pos = run[w].pos
    BY <2>2 DEF CountFailure, Run
  <2>. QED
    BY <2>3, <2>4, GatherAdvances
<1>13. CASE Quit(w)
  <2>1. PICK ok \in BOOLEAN :
           run' = [run EXCEPT ![w] = [run[w] EXCEPT !.action = AfterQuit(ok)]]
    BY <1>0, <1>13 DEF Quit
  <2>2. AfterQuit(ok) \in Decisions
    BY DEF AfterQuit, Decisions
  <2>3. /\ run'[w].pos = run[w].pos /\ run'[w].listing = run[w].listing
        /\ run'[w].failed = run[w].failed
    BY <1>0, <2>1, <2>2, RunDecision
  <2>4. pc[w] = "quit" /\ pc'[w] = "states"
    BY <1>0, <1>13 DEF Quit, Goto
  <2>. QED
    BY <2>3, <2>4, GatherStays DEF Passed, Outside
<1>14. CASE RecordStates(w)
  <2>1. /\ run'[w].pos = run[w].pos /\ run'[w].listing = run[w].listing
        /\ run[w].failed => run'[w].failed
    BY <1>0, <1>14 DEF RecordStates, Run
  <2>2. pc[w] = "states" /\ pc'[w] = "finalize"
    BY <1>0, <1>14 DEF RecordStates, Goto
  <2>. QED
    BY <2>1, <2>2, GatherStays DEF Passed, Outside
<1>15. CASE Finalize(w) \/ LeaseLost(w) \/ GiveUp(w) \/ Crash(w)
  BY <1>0, <1>15, GatherEnds DEF Finalize, LeaseLost, GiveUp, Crash
<1>16. CASE Breaks(w) \/ Disconnect(w)
  BY <1>0, <1>16, GatherEnds DEF Breaks, Disconnect, Goto
<1>. QED
  BY <1>1, <1>2, <1>3, <1>4, <1>5, <1>6, <1>7, <1>8, <1>10, <1>11, <1>12, <1>13,
     <1>14, <1>15, <1>16 DEF WorkerStep

\* So does a step of anybody else.
LEMMA GatherStep ==
  ASSUME Typed, Backed, [Next]_vars, \A w \in Workers : Gathered(w), NEW v \in Workers
  PROVE  Gathered(v)'
<1>1. ASSUME pc'[v] = pc[v], run'[v] = run[v] PROVE Gathered(v)'
  BY <1>1, GatherStays DEF Gathered, Last
<1>2. ASSUME NEW w \in Workers, WorkerStep(w) \/ Crash(w) PROVE Gathered(v)'
  <2>1. CASE v # w
    BY <1>1, <1>2, <2>1, OwnStep, OthersStay DEF Typed, TypeOK
  <2>2. CASE v = w
    BY <1>2, <2>2, GatherOwn
  <2>. QED
    BY <2>1, <2>2
<1>. QED
  BY <1>1, <1>2, WorkersStep DEF workerVars

\* Only _finalize of a run without a counted failure completes the job.
LEMMA CompletedStep ==
  ASSUME Typed, \A w \in Workers : Gathered(w), [Next]_vars, NEW w \in Workers,
         pc[w] = "finalize", pc'[w] = "idle",
         jobStatus = "running", jobStatus' = "completed"
  PROVE  \A i \in DOMAIN run[w].listing : imports[UidlOf[run[w].listing[i]]] # "none"
<1>0. WorkerTypes /\ run[w] \in Run
  BY DEF Typed, TypeOK, WorkerTypes
<1>1. ~UNCHANGED workerVars
  BY DEF workerVars
<1>2. PICK v \in Workers : WorkerStep(v) \/ Crash(v)
  BY <1>1, WorkersStep
<1>3. v = w
  BY <1>0, <1>2, OwnStep, OthersStay
<1>4. Finalize(w)
  BY <1>2, <1>3
     DEF WorkerStep, Sweep, EnqueueScheduled, Claim, NothingToClaim, Context, Open, Heartbeat,
         Lookup, Reopen, Disappeared, DeleteOnly, Retrieve, Store, DeleteStored, ItemFails,
         Breaks, Quit, RecordStates, LeaseLost, Disconnect, GiveUp, Crash, jobVars
<1>5. ~run[w].failed
  BY <1>4 DEF Finalize, Finish, Release, jobVars
<1>6. run[w].pos \in Nat /\ run[w].pos > Len(run[w].listing)
      /\ run[w].listing \in Seq(Messages)
  BY <1>0 DEF Gathered, Run
<1>7. \A i \in DOMAIN run[w].listing : i < run[w].pos
  BY <1>6
<1>. QED
  BY <1>5, <1>7 DEF Gathered, Passed

-----------------------------------------------------------------------------
(* Theorems.                                                               *)

\* The state of an account just created.
LEMMA InitTyped == Init => Typed /\ Backed
<1> SUFFICES ASSUME Init PROVE Typed /\ Backed
  OBVIOUS
<1>1. JobTypes /\ AccountTypes
  <2>1. 0 \in 0..MaxJobs /\ 0 \in 0..MaxUpdates
    BY BoundAssumption
  <2>. QED
    BY <2>1 DEF Init, JobTypes, AccountTypes
<1>2. MailTypes /\ OneCopy /\ RemovedImported
  BY DEF Init, MailTypes, ImportState, OneCopy, RemovedImported
<1>3. WorkerTypes
  BY Idle DEF Init, WorkerTypes
<1>4. \A w \in Workers : LocalAt(w) /\ MarkedImported(w)
  BY DEF Init, LocalAt, MarkedImported, NoRun, Closed
<1>. QED
  BY <1>1, <1>2, <1>3, <1>4 DEF Typed, TypeOK, Backed

\* Nothing is imported, deleted or waiting in a new account.
LEMMA InitSettled == Init => RowHasCopy /\ Settled
<1> SUFFICES ASSUME Init PROVE RowHasCopy /\ Settled
  OBVIOUS
<1>1. RowHasCopy /\ DeletedLeft
  BY DEF Init, RowHasCopy, DeletedLeft, Uidls
<1>2. \A w \in Workers : WaitingMarked(w)
  BY DEF Init, WaitingMarked, NoRun, Closed
<1>. QED
  BY <1>1, <1>2 DEF Settled

\* Every variable keeps its type: a lease belongs to a running job only, and what
\* QUIT removed had arrived and is gone.
THEOREM TypeCorrect == Spec => []TypeOK
<1>1. Typed => TypeOK
  BY DEF Typed
<1>. QED
  BY <1>1, InitTyped, TypedStep, PTL DEF Spec

\* Types and backing together are invariant.
LEMMA BackedAlways == Spec => [](Typed /\ Backed)
<1>1. Typed /\ Backed /\ [Next]_vars => (Typed /\ Backed)'
  BY TypedStep, BackedStep
<1>. QED
  BY <1>1, InitTyped, PTL DEF Spec

\* Two workers, lost deletions and repeated collections store a message once:
\* the conflict clause of _store admits one row for a UIDL.
THEOREM StoredOnce == Spec => []ImportedOnce
<1>1. Backed => ImportedOnce
  BY DEF Backed, OneCopy, ImportedOnce
<1>. QED
  BY <1>1, BackedAlways, PTL

\* A message our QUIT removed from the server was stored here first, when no
\* two maildrops share a UIDL.
THEOREM PersistThenDelete ==
  ASSUME DistinctUidls PROVE Spec => []DeletedWasImported
<1>1. Typed /\ RowHasCopy /\ [Next]_vars => (Typed /\ RowHasCopy)'
  BY TypedStep, RowHasCopyStep
<1>2. Init => Typed /\ RowHasCopy
  BY InitTyped, InitSettled
<1>3. Typed /\ Backed /\ RowHasCopy => DeletedWasImported
  BY DEF Typed, TypeOK, MailTypes, Backed, RemovedImported, RowHasCopy,
         DeletedWasImported
<1>. QED
  BY <1>1, <1>2, <1>3, BackedAlways, PTL DEF Spec

\* 'deleted' is recorded only of messages that have left the server, when no
\* two maildrops share a UIDL: not for a DELE a closed connection undid.
THEOREM RecordedMeansGone ==
  ASSUME DistinctUidls PROVE Spec => []RecordedDeletionHappened
<1>1. Typed /\ Settled /\ [Next]_vars => (Typed /\ Settled)'
  BY TypedStep, WaitingStep, DeletedStep DEF Settled
<1>2. Init => Typed /\ Settled
  BY InitTyped, InitSettled
<1>3. Typed /\ Settled => RecordedDeletionHappened
  BY DEF Typed, TypeOK, MailTypes, Settled, DeletedLeft, RecordedDeletionHappened
<1>. QED
  BY <1>1, <1>2, <1>3, PTL DEF Spec

\* A job is tried three times, plus once for each other worker that still runs on
\* an older claim (the guard of _requeue is the count that run_once read).
THEOREM TriesBounded ==
  ASSUME IsFiniteSet(Workers), Workers # {} PROVE Spec => []AttemptBudget
<1>1. Init => Typed /\ Tries
  <2>1. Init => Tries
    BY DEF Init, Tries, TriesAt, MaxAttempts
  <2>. QED
    BY <2>1, InitTyped
<1>2. Typed /\ Tries /\ [Next]_vars => (Typed /\ Tries)'
  BY TypedStep, TriesStep
<1>3. Typed /\ Tries => AttemptBudget
  <2> SUFFICES ASSUME Typed, Tries PROVE AttemptBudget
    OBVIOUS
  <2>1. Cardinality(Workers) \in Nat /\ Cardinality(Workers) # 0
    BY FS_CardinalityType, FS_EmptySet
  <2>2. Cardinality(Late) \in Nat /\ attempts \in Nat
    <3>1. Late \in SUBSET Workers
      BY DEF Late
    <3>. QED
      BY <3>1, FS_Subset, FS_CardinalityType DEF Typed, TypeOK, JobTypes
  <2>. QED
    BY <2>1, <2>2 DEF Tries, TriesAt, AttemptBudget, MaxAttempts
<1>. QED
  BY <1>1, <1>2, <1>3, PTL DEF Spec

\* A job that ends 'completed' left no message of its listing without an import
\* row: every way past a message that has none counts a failure.
THEOREM CompletedIsComplete == Spec => CompletedCollectedAll
<1> DEFINE I == Typed /\ Backed /\ \A w \in Workers : Gathered(w)
<1>1. Init => I
  <2>1. Init => \A w \in Workers : Gathered(w)
    BY DEF Init, Gathered, NoRun, Passed, Outside
  <2>. QED
    BY <2>1, InitTyped
<1>2. I /\ [Next]_vars => I'
  BY TypedStep, BackedStep, GatherStep
<1>3. I /\ [Next]_vars
        => [\A w \in Workers :
              /\ pc[w] = "finalize" /\ pc'[w] = "idle"
              /\ jobStatus = "running" /\ jobStatus' = "completed"
              => \A i \in DOMAIN run[w].listing :
                    imports[UidlOf[run[w].listing[i]]] # "none"]_vars
  BY CompletedStep
<1>. QED
  BY <1>1, <1>2, <1>3, PTL DEF Spec, CompletedCollectedAll
=============================================================================
