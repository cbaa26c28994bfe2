------------------------- MODULE MailDeliveryProofs -------------------------
(***************************************************************************)
(* TLAPS proofs about MailDelivery, for every set of rows and workers and  *)
(* every value of the bounds.  Each invariant is proved inductive from the *)
(* ones before it: types, claim tokens, the snapshot a worker holds, what  *)
(* its phase says about its token, and the budget of copies.  The last      *)
(* section proves that the queue implements AtMostOnceDelivery.             *)
(***************************************************************************)
EXTENDS MailDelivery, FiniteSetTheorems, TLAPS

USE DEF Absent, Claimable, Status, LeaseState, NoToken, Token, PC, Kept, Holding,
        Result

-----------------------------------------------------------------------------
(* Types.                                                                  *)

\* TypeOK is inductive together with: a worker that records has a result.
ResultSet == \A w \in Workers : pc[w] = "record" => result[w] # "none"
Typed == TypeOK /\ ResultSet

\* The job of an idle worker is a job.
LEMMA NoJobType == NoJob \in Job
  BY SetsAssumption, BoundsAssumption DEF NoJob, Job

\* Adding the next attempt number keeps an attempt log a sequence of numbers.
LEMMA LogAppend ==
  ASSUME NEW log \in [Rows -> Seq(Nat)], NEW q \in Rows, NEW n \in Nat
  PROVE  [log EXCEPT ![q] = Append(@, n)] \in [Rows -> Seq(Nat)]
  OBVIOUS


\* A step of the queue, its workers or the people around them keeps every
\* variable in its type.
LEMMA TypedStep == Typed /\ [Next]_vars => Typed'
<1> SUFFICES ASSUME Typed, [Next]_vars PROVE Typed'
  OBVIOUS
<1> USE SetsAssumption, BoundsAssumption, NoJobType
<1>1. ASSUME NEW q \in Rows, Enqueue(q) PROVE Typed'
  <2>1. RowTypes'
    BY <1>1 DEF Typed, TypeOK, RowTypes, rowVars, Enqueue, Insert, EnqueueStatus
  <2>2. LogTypes' /\ SettingTypes' /\ WorkerTypes' /\ HistoryTypes' /\ ResultSet'
    BY <1>1
    DEF Typed, TypeOK, LogTypes, SettingTypes, WorkerTypes, HistoryTypes,
        ResultSet, forwardVars, quotaVars, workerVars, historyVars, requestVars,
        Enqueue, Insert, EnqueueStatus
  <2>. QED
    BY <2>1, <2>2 DEF Typed, TypeOK
<1>2. ASSUME NEW o \in Origins, ApplyRecipient(o) PROVE Typed'
  <2>1. RowTypes'
    BY <1>2
    DEF Typed, TypeOK, RowTypes, rowVars, ApplyRecipient, Insert, EnqueueStatus
  <2>2. LogTypes'
    BY <1>2
    DEF Typed, TypeOK, LogTypes, WorkerTypes, RowTypes, ResultSet, Job,
        forwardVars, ApplyRecipient, Insert, EnqueueStatus
  <2>3. SettingTypes' /\ WorkerTypes' /\ HistoryTypes' /\ ResultSet'
    BY <1>2
    DEF Typed, TypeOK, SettingTypes, WorkerTypes, HistoryTypes, ResultSet,
        quotaVars, workerVars, historyVars, requestVars, ApplyRecipient, Insert,
        EnqueueStatus
  <2>. QED
    BY <2>1, <2>2, <2>3 DEF Typed, TypeOK
<1>3. ASSUME NEW q \in Rows, BecomeDue(q) PROVE Typed'
  <2>1. RowTypes'
    BY <1>3 DEF Typed, TypeOK, RowTypes, rowVars, BecomeDue
  <2>2. LogTypes' /\ SettingTypes' /\ WorkerTypes' /\ HistoryTypes' /\ ResultSet'
    BY <1>3
    DEF Typed, TypeOK, LogTypes, SettingTypes, WorkerTypes, HistoryTypes,
        ResultSet, forwardVars, quotaVars, workerVars, historyVars, requestVars,
        BecomeDue
  <2>. QED
    BY <2>1, <2>2 DEF Typed, TypeOK
<1>4. ASSUME NEW q \in Rows, LeaseExpires(q) PROVE Typed'
  <2>1. RowTypes'
    BY <1>4 DEF Typed, TypeOK, RowTypes, rowVars, LeaseExpires
  <2>2. LogTypes' /\ SettingTypes' /\ WorkerTypes' /\ HistoryTypes' /\ ResultSet'
    BY <1>4
    DEF Typed, TypeOK, LogTypes, SettingTypes, WorkerTypes, HistoryTypes,
        ResultSet, forwardVars, quotaVars, workerVars, historyVars, requestVars,
        LeaseExpires
  <2>. QED
    BY <2>1, <2>2 DEF Typed, TypeOK
<1>5. ASSUME NEW w \in Workers, NEW q \in Rows, Claim(w, q) PROVE Typed'
  <2>1. RowTypes'
    BY <1>5 DEF Typed, TypeOK, RowTypes, rowVars, Claim
  <2>2. WorkerTypes'
    BY <1>5 DEF Typed, TypeOK, WorkerTypes, RowTypes, Job, workerVars, Claim
  <2>3. ResultSet'
    BY <1>5 DEF Typed, TypeOK, ResultSet, WorkerTypes, workerVars, Claim
  <2>4. LogTypes' /\ SettingTypes' /\ HistoryTypes'
    BY <1>5
    DEF Typed, TypeOK, LogTypes, SettingTypes, HistoryTypes, forwardVars,
        quotaVars, historyVars, requestVars, Claim
  <2>. QED
    BY <2>1, <2>2, <2>3, <2>4 DEF Typed, TypeOK
<1>6. ASSUME NEW w \in Workers, NEW q \in Rows, FindExpired(w, q) PROVE Typed'
  <2>1. WorkerTypes'
    BY <1>6
    DEF Typed, TypeOK, WorkerTypes, RowTypes, Job, workerVars, FindExpired,
        Lapsed
  <2>2. ResultSet'
    BY <1>6
    DEF Typed, TypeOK, ResultSet, WorkerTypes, workerVars, FindExpired, Lapsed
  <2>3. RowTypes' /\ LogTypes' /\ SettingTypes' /\ HistoryTypes'
    BY <1>6
    DEF Typed, TypeOK, RowTypes, LogTypes, SettingTypes, HistoryTypes, rowVars,
        forwardVars, quotaVars, historyVars, requestVars, FindExpired, Lapsed
  <2>. QED
    BY <2>1, <2>2, <2>3 DEF Typed, TypeOK
<1>7. ASSUME NEW w \in Workers, Abandon(w) PROVE Typed'
  <2>1. WorkerTypes'
    BY <1>7 DEF Typed, TypeOK, WorkerTypes, workerVars, Abandon, Drop
  <2>2. ResultSet'
    BY <1>7 DEF Typed, TypeOK, ResultSet, WorkerTypes, workerVars, Abandon, Drop
  <2>3. RowTypes' /\ LogTypes' /\ SettingTypes' /\ HistoryTypes'
    BY <1>7
    DEF Typed, TypeOK, RowTypes, LogTypes, SettingTypes, HistoryTypes, rowVars,
        forwardVars, quotaVars, historyVars, requestVars, Abandon, Drop
  <2>. QED
    BY <2>1, <2>2, <2>3 DEF Typed, TypeOK
<1>8. ASSUME NEW w \in Workers, KeeperLosesClaim(w) PROVE Typed'
  <2>1. WorkerTypes'
    BY <1>8 DEF Typed, TypeOK, WorkerTypes, workerVars, KeeperLosesClaim
  <2>2. RowTypes' /\ LogTypes' /\ SettingTypes' /\ HistoryTypes' /\ ResultSet'
    BY <1>8
    DEF Typed, TypeOK, RowTypes, LogTypes, SettingTypes, HistoryTypes,
        ResultSet, rowVars, forwardVars, quotaVars, workerVars, historyVars,
        requestVars, KeeperLosesClaim
  <2>. QED
    BY <2>1, <2>2 DEF Typed, TypeOK
<1>9. ASSUME NEW w \in Workers, GiveUp(w) PROVE Typed'
  <2>1. WorkerTypes'
    BY <1>9 DEF Typed, TypeOK, WorkerTypes, workerVars, GiveUp, Drop
  <2>2. ResultSet'
    BY <1>9 DEF Typed, TypeOK, ResultSet, WorkerTypes, workerVars, GiveUp, Drop
  <2>3. RowTypes' /\ LogTypes' /\ SettingTypes' /\ HistoryTypes'
    BY <1>9
    DEF Typed, TypeOK, RowTypes, LogTypes, SettingTypes, HistoryTypes, rowVars,
        forwardVars, quotaVars, historyVars, requestVars, GiveUp, Drop
  <2>. QED
    BY <2>1, <2>2, <2>3 DEF Typed, TypeOK
<1>10. ASSUME NEW w \in Workers, StartPrepare(w) PROVE Typed'
  <2>1. WorkerTypes'
    BY <1>10 DEF Typed, TypeOK, WorkerTypes, workerVars, StartPrepare
  <2>2. ResultSet'
    BY <1>10 DEF Typed, TypeOK, ResultSet, WorkerTypes, workerVars, StartPrepare
  <2>3. RowTypes' /\ LogTypes' /\ SettingTypes' /\ HistoryTypes'
    BY <1>10
    DEF Typed, TypeOK, RowTypes, LogTypes, SettingTypes, HistoryTypes, rowVars,
        forwardVars, quotaVars, historyVars, requestVars, StartPrepare
  <2>. QED
    BY <2>1, <2>2, <2>3 DEF Typed, TypeOK
<1>11. ASSUME NEW w \in Workers, Prepare(w) PROVE Typed'
  <2>1. WorkerTypes'
    BY <1>11
    DEF Typed, TypeOK, WorkerTypes, workerVars, Prepare, Conclude,
        localUnchanged
  <2>2. ResultSet'
    BY <1>11
    DEF Typed, TypeOK, ResultSet, WorkerTypes, workerVars, Prepare, Conclude,
        localUnchanged
  <2>3. RowTypes' /\ LogTypes' /\ SettingTypes' /\ HistoryTypes'
    BY <1>11
    DEF Typed, TypeOK, RowTypes, LogTypes, SettingTypes, HistoryTypes, rowVars,
        forwardVars, quotaVars, historyVars, requestVars, Prepare, Conclude,
        localUnchanged
  <2>. QED
    BY <2>1, <2>2, <2>3 DEF Typed, TypeOK
<1>12. ASSUME NEW w \in Workers, Reserve(w) PROVE Typed'
  <2>1. SettingTypes'
    BY <1>12
    DEF Typed, TypeOK, SettingTypes, quotaVars, Reserve, Conclude,
        localUnchanged
  <2>2. WorkerTypes'
    BY <1>12
    DEF Typed, TypeOK, WorkerTypes, workerVars, Reserve, Conclude,
        localUnchanged
  <2>3. ResultSet'
    BY <1>12
    DEF Typed, TypeOK, ResultSet, WorkerTypes, workerVars, Reserve, Conclude,
        localUnchanged
  <2>4. RowTypes' /\ LogTypes' /\ HistoryTypes'
    BY <1>12
    DEF Typed, TypeOK, RowTypes, LogTypes, HistoryTypes, rowVars, forwardVars,
        historyVars, requestVars, Reserve, Conclude, localUnchanged
  <2>. QED
    BY <2>1, <2>2, <2>3, <2>4 DEF Typed, TypeOK
<1>13. ASSUME NEW w \in Workers, Dial(w) PROVE Typed'
  <2>1. SettingTypes'
    BY <1>13 DEF Typed, TypeOK, SettingTypes, quotaVars, Dial, localUnchanged
  <2>2. WorkerTypes'
    BY <1>13 DEF Typed, TypeOK, WorkerTypes, workerVars, Dial, localUnchanged
  <2>3. ResultSet'
    BY <1>13
    DEF Typed, TypeOK, ResultSet, WorkerTypes, workerVars, Dial, localUnchanged
  <2>4. RowTypes' /\ LogTypes' /\ HistoryTypes'
    BY <1>13
    DEF Typed, TypeOK, RowTypes, LogTypes, HistoryTypes, rowVars, forwardVars,
        historyVars, requestVars, Dial, localUnchanged
  <2>. QED
    BY <2>1, <2>2, <2>3, <2>4 DEF Typed, TypeOK
<1>14. ASSUME NEW w \in Workers, EnterData(w) PROVE Typed'
  <2>1. WorkerTypes'
    BY <1>14
    DEF Typed, TypeOK, WorkerTypes, workerVars, EnterData, localUnchanged
  <2>2. ResultSet'
    BY <1>14
    DEF Typed, TypeOK, ResultSet, WorkerTypes, workerVars, EnterData,
        localUnchanged
  <2>3. RowTypes' /\ LogTypes' /\ SettingTypes' /\ HistoryTypes'
    BY <1>14
    DEF Typed, TypeOK, RowTypes, LogTypes, SettingTypes, HistoryTypes, rowVars,
        forwardVars, quotaVars, historyVars, requestVars, EnterData,
        localUnchanged
  <2>. QED
    BY <2>1, <2>2, <2>3 DEF Typed, TypeOK
<1>15. ASSUME NEW w \in Workers, EnterPayload(w) PROVE Typed'
  <2>1. WorkerTypes'
    BY <1>15
    DEF Typed, TypeOK, WorkerTypes, workerVars, EnterPayload, CheckOwner, Owns,
        localUnchanged
  <2>2. HistoryTypes'
    BY <1>15
    DEF Typed, TypeOK, HistoryTypes, WorkerTypes, Job, historyVars, requestVars,
        EnterPayload, CheckOwner, Owns, localUnchanged
  <2>3. ResultSet'
    BY <1>15
    DEF Typed, TypeOK, ResultSet, WorkerTypes, workerVars, EnterPayload,
        CheckOwner, Owns, localUnchanged
  <2>4. RowTypes' /\ LogTypes' /\ SettingTypes'
    BY <1>15
    DEF Typed, TypeOK, RowTypes, LogTypes, SettingTypes, rowVars, forwardVars,
        quotaVars, EnterPayload, CheckOwner, Owns, localUnchanged
  <2>. QED
    BY <2>1, <2>2, <2>3, <2>4 DEF Typed, TypeOK
<1>16. ASSUME NEW w \in Workers, RefusedBeforeData(w) PROVE Typed'
  <2>1. WorkerTypes'
    BY <1>16
    DEF Typed, TypeOK, WorkerTypes, workerVars, RefusedBeforeData, Refused,
        Conclude, TransientResult, localUnchanged
  <2>2. ResultSet'
    BY <1>16
    DEF Typed, TypeOK, ResultSet, WorkerTypes, workerVars, RefusedBeforeData,
        Refused, Conclude, TransientResult, localUnchanged
  <2>3. RowTypes' /\ LogTypes' /\ SettingTypes' /\ HistoryTypes'
    BY <1>16
    DEF Typed, TypeOK, RowTypes, LogTypes, SettingTypes, HistoryTypes, rowVars,
        forwardVars, quotaVars, historyVars, requestVars, RefusedBeforeData,
        Refused, Conclude, TransientResult, localUnchanged
  <2>. QED
    BY <2>1, <2>2, <2>3 DEF Typed, TypeOK
<1>17. ASSUME NEW w \in Workers, PayloadRefused(w) PROVE Typed'
  <2>1. WorkerTypes'
    BY <1>17
    DEF Typed, TypeOK, WorkerTypes, workerVars, PayloadRefused, Refused,
        Conclude, TransientResult, localUnchanged
  <2>2. HistoryTypes'
    BY <1>17
    DEF Typed, TypeOK, HistoryTypes, WorkerTypes, Job, historyVars, requestVars,
        PayloadRefused, Refused, Conclude, TransientResult, localUnchanged
  <2>3. ResultSet'
    BY <1>17
    DEF Typed, TypeOK, ResultSet, WorkerTypes, workerVars, PayloadRefused,
        Refused, Conclude, TransientResult, localUnchanged
  <2>4. RowTypes' /\ LogTypes' /\ SettingTypes'
    BY <1>17
    DEF Typed, TypeOK, RowTypes, LogTypes, SettingTypes, rowVars, forwardVars,
        quotaVars, PayloadRefused, Refused, Conclude, TransientResult,
        localUnchanged
  <2>. QED
    BY <2>1, <2>2, <2>3, <2>4 DEF Typed, TypeOK
<1>18. ASSUME NEW w \in Workers, PayloadAccepted(w) PROVE Typed'
  <2>1. WorkerTypes'
    BY <1>18
    DEF Typed, TypeOK, WorkerTypes, workerVars, PayloadAccepted, LostReply,
        Conclude, localUnchanged
  <2>2. HistoryTypes'
    BY <1>18
    DEF Typed, TypeOK, HistoryTypes, WorkerTypes, Job, historyVars, requestVars,
        PayloadAccepted, LostReply, Conclude, localUnchanged
  <2>3. ResultSet'
    BY <1>18
    DEF Typed, TypeOK, ResultSet, WorkerTypes, workerVars, PayloadAccepted,
        LostReply, Conclude, localUnchanged
  <2>4. RowTypes' /\ LogTypes' /\ SettingTypes'
    BY <1>18
    DEF Typed, TypeOK, RowTypes, LogTypes, SettingTypes, rowVars, forwardVars,
        quotaVars, PayloadAccepted, LostReply, Conclude, localUnchanged
  <2>. QED
    BY <2>1, <2>2, <2>3, <2>4 DEF Typed, TypeOK
<1>19. ASSUME NEW w \in Workers, PayloadLost(w) PROVE Typed'
  <2>1. WorkerTypes'
    BY <1>19
    DEF Typed, TypeOK, WorkerTypes, workerVars, PayloadLost, LostReply,
        Conclude, localUnchanged
  <2>2. ResultSet'
    BY <1>19
    DEF Typed, TypeOK, ResultSet, WorkerTypes, workerVars, PayloadLost,
        LostReply, Conclude, localUnchanged
  <2>3. RowTypes' /\ LogTypes' /\ SettingTypes' /\ HistoryTypes'
    BY <1>19
    DEF Typed, TypeOK, RowTypes, LogTypes, SettingTypes, HistoryTypes, rowVars,
        forwardVars, quotaVars, historyVars, requestVars, PayloadLost,
        LostReply, Conclude, localUnchanged
  <2>. QED
    BY <2>1, <2>2, <2>3 DEF Typed, TypeOK
<1>20. ASSUME NEW w \in Workers, FinalizeClaim(w) PROVE Typed'
  <2>1. RowTypes'
    BY <1>20
    DEF Typed, TypeOK, RowTypes, WorkerTypes, ResultSet, Job, rowVars,
        FinalizeClaim, Finalize, Owns, Reconcile, Drop
  <2>2. LogTypes'
    <3> DEFINE q == job[w].row
               n == job[w].attempts + 1
    <3>1. q \in Rows /\ n \in Nat /\ result[w] \in Status
      BY <1>20 DEF Typed, TypeOK, WorkerTypes, ResultSet, FinalizeClaim, Job
    <3>2. attemptLog' = [attemptLog EXCEPT ![q] = Append(@, n)]
      BY <1>20 DEF FinalizeClaim, Finalize
    <3>3. attemptLog' \in [Rows -> Seq(Nat)]
      BY <3>1, <3>2, LogAppend DEF Typed, TypeOK, LogTypes
    <3>4. forwarded' \in [Rows -> Status] /\ deleted' \subseteq Origins
      BY <1>20, <3>1
      DEF Typed, TypeOK, LogTypes, FinalizeClaim, Finalize, Reconcile
    <3>. QED
      BY <3>3, <3>4 DEF LogTypes
  <2>3. WorkerTypes'
    BY <1>20
    DEF Typed, TypeOK, WorkerTypes, workerVars, FinalizeClaim, Finalize, Owns,
        Reconcile, Drop
  <2>4. ResultSet'
    BY <1>20
    DEF Typed, TypeOK, ResultSet, WorkerTypes, workerVars, FinalizeClaim,
        Finalize, Owns, Reconcile, Drop
  <2>5. SettingTypes' /\ HistoryTypes'
    BY <1>20
    DEF Typed, TypeOK, SettingTypes, HistoryTypes, quotaVars, historyVars,
        requestVars, FinalizeClaim, Finalize, Owns, Reconcile, Drop
  <2>. QED
    BY <2>1, <2>2, <2>3, <2>4, <2>5 DEF Typed, TypeOK
<1>21. ASSUME NEW w \in Workers, RecoverExpired(w) PROVE Typed'
  <2>1. RowTypes'
    BY <1>21
    DEF Typed, TypeOK, RowTypes, WorkerTypes, ResultSet, Job, rowVars,
        RecoverExpired, StillLapsed, Lapsed, Finalize, Reconcile, Drop
  <2>2. LogTypes'
    <3> DEFINE q == job[w].row
               n == job[w].attempts + 1
    <3>1. q \in Rows /\ n \in Nat /\ "result_unknown" \in Status
      BY <1>21 DEF Typed, TypeOK, WorkerTypes, ResultSet, RecoverExpired, Job
    <3>2. attemptLog' = [attemptLog EXCEPT ![q] = Append(@, n)]
      BY <1>21 DEF RecoverExpired, Finalize
    <3>3. attemptLog' \in [Rows -> Seq(Nat)]
      BY <3>1, <3>2, LogAppend DEF Typed, TypeOK, LogTypes
    <3>4. forwarded' \in [Rows -> Status] /\ deleted' \subseteq Origins
      BY <1>21, <3>1
      DEF Typed, TypeOK, LogTypes, RecoverExpired, Finalize, Reconcile
    <3>. QED
      BY <3>3, <3>4 DEF LogTypes
  <2>3. WorkerTypes'
    BY <1>21
    DEF Typed, TypeOK, WorkerTypes, workerVars, RecoverExpired, StillLapsed,
        Lapsed, Finalize, Reconcile, Drop
  <2>4. ResultSet'
    BY <1>21
    DEF Typed, TypeOK, ResultSet, WorkerTypes, workerVars, RecoverExpired,
        StillLapsed, Lapsed, Finalize, Reconcile, Drop
  <2>5. SettingTypes' /\ HistoryTypes'
    BY <1>21
    DEF Typed, TypeOK, SettingTypes, HistoryTypes, quotaVars, historyVars,
        requestVars, RecoverExpired, StillLapsed, Lapsed, Finalize, Reconcile,
        Drop
  <2>. QED
    BY <2>1, <2>2, <2>3, <2>4, <2>5 DEF Typed, TypeOK
<1>22. ASSUME NEW w \in Workers, RecordRefused(w) PROVE Typed'
  <2>1. WorkerTypes'
    BY <1>22 DEF Typed, TypeOK, WorkerTypes, workerVars, RecordRefused, Drop
  <2>2. ResultSet'
    BY <1>22
    DEF Typed, TypeOK, ResultSet, WorkerTypes, workerVars, RecordRefused, Drop
  <2>3. RowTypes' /\ LogTypes' /\ SettingTypes' /\ HistoryTypes'
    BY <1>22
    DEF Typed, TypeOK, RowTypes, LogTypes, SettingTypes, HistoryTypes, rowVars,
        forwardVars, quotaVars, historyVars, requestVars, RecordRefused, Drop
  <2>. QED
    BY <2>1, <2>2, <2>3 DEF Typed, TypeOK
<1>23. ASSUME NEW w \in Workers, DeferForQuota(w) PROVE Typed'
  <2>1. RowTypes'
    BY <1>23
    DEF Typed, TypeOK, RowTypes, WorkerTypes, ResultSet, Job, rowVars,
        DeferForQuota, Owns, Drop
  <2>2. WorkerTypes'
    BY <1>23
    DEF Typed, TypeOK, WorkerTypes, workerVars, DeferForQuota, Owns, Drop
  <2>3. ResultSet'
    BY <1>23
    DEF Typed, TypeOK, ResultSet, WorkerTypes, workerVars, DeferForQuota, Owns,
        Drop
  <2>4. LogTypes' /\ SettingTypes' /\ HistoryTypes'
    BY <1>23
    DEF Typed, TypeOK, LogTypes, SettingTypes, HistoryTypes, forwardVars,
        quotaVars, historyVars, requestVars, DeferForQuota, Owns, Drop
  <2>. QED
    BY <2>1, <2>2, <2>3, <2>4 DEF Typed, TypeOK
<1>24. ASSUME NEW q \in Rows, NEW confirm \in BOOLEAN, Retry(q, confirm)
       PROVE  Typed'
  <2>1. RowTypes'
    BY <1>24 DEF Typed, TypeOK, RowTypes, rowVars, Retry, MayRetry
  <2>2. HistoryTypes'
    BY <1>24
    DEF Typed, TypeOK, HistoryTypes, historyVars, requestVars, Retry, MayRetry
  <2>3. LogTypes' /\ SettingTypes' /\ WorkerTypes' /\ ResultSet'
    BY <1>24
    DEF Typed, TypeOK, LogTypes, SettingTypes, WorkerTypes, ResultSet,
        forwardVars, quotaVars, workerVars, Retry, MayRetry
  <2>. QED
    BY <2>1, <2>2, <2>3 DEF Typed, TypeOK
<1>25. ASSUME NEW q \in Rows, SenderRetry(q) PROVE Typed'
  <2>1. RowTypes'
    BY <1>25 DEF Typed, TypeOK, RowTypes, rowVars, SenderRetry
  <2>2. HistoryTypes'
    BY <1>25
    DEF Typed, TypeOK, HistoryTypes, historyVars, requestVars, SenderRetry
  <2>3. LogTypes' /\ SettingTypes' /\ WorkerTypes' /\ ResultSet'
    BY <1>25
    DEF Typed, TypeOK, LogTypes, SettingTypes, WorkerTypes, ResultSet,
        forwardVars, quotaVars, workerVars, SenderRetry
  <2>. QED
    BY <2>1, <2>2, <2>3 DEF Typed, TypeOK
<1>26. ASSUME NEW q \in Rows, NEW a \in {"failed", "delayed", "delivered"}, RecordFeedback(q, a)
       PROVE  Typed'
  <2>1. RowTypes'
    BY <1>26 DEF Typed, TypeOK, RowTypes, rowVars, RecordFeedback, DsnStatus
  <2>2. HistoryTypes'
    BY <1>26
    DEF Typed, TypeOK, HistoryTypes, historyVars, requestVars, RecordFeedback,
        DsnStatus
  <2>3. LogTypes' /\ SettingTypes' /\ WorkerTypes' /\ ResultSet'
    BY <1>26
    DEF Typed, TypeOK, LogTypes, SettingTypes, WorkerTypes, ResultSet,
        forwardVars, quotaVars, workerVars, RecordFeedback, DsnStatus
  <2>. QED
    BY <2>1, <2>2, <2>3 DEF Typed, TypeOK
<1>27. CASE ProviderChanges
  <2>1. SettingTypes'
    BY <1>27 DEF Typed, TypeOK, SettingTypes, quotaVars, ProviderChanges
  <2>2. RowTypes' /\ LogTypes' /\ WorkerTypes' /\ HistoryTypes' /\ ResultSet'
    BY <1>27
    DEF Typed, TypeOK, RowTypes, LogTypes, WorkerTypes, HistoryTypes, ResultSet,
        rowVars, forwardVars, workerVars, historyVars, requestVars,
        ProviderChanges
  <2>. QED
    BY <2>1, <2>2 DEF Typed, TypeOK
<1>28. CASE NewDay
  <2>1. SettingTypes'
    BY <1>28 DEF Typed, TypeOK, SettingTypes, quotaVars, NewDay
  <2>2. RowTypes' /\ LogTypes' /\ WorkerTypes' /\ HistoryTypes' /\ ResultSet'
    BY <1>28
    DEF Typed, TypeOK, RowTypes, LogTypes, WorkerTypes, HistoryTypes, ResultSet,
        rowVars, forwardVars, workerVars, historyVars, requestVars, NewDay
  <2>. QED
    BY <2>1, <2>2 DEF Typed, TypeOK
<1>29. CASE UNCHANGED vars
  BY <1>29
  DEF Typed, TypeOK, RowTypes, LogTypes, SettingTypes, WorkerTypes,
      HistoryTypes, ResultSet, vars, rowVars, forwardVars, quotaVars,
      workerVars, historyVars, requestVars
<1>30. QED
  BY <1>1, <1>2, <1>3, <1>4, <1>5, <1>6, <1>7, <1>8, <1>9, <1>10, <1>11, <1>12,
     <1>13, <1>14, <1>15, <1>16, <1>17, <1>18, <1>19, <1>20, <1>21, <1>22,
     <1>23, <1>24, <1>25, <1>26, <1>27, <1>28, <1>29
  DEF Next, WorkerStep

\* Every variable of the delivery queue has its type in every reachable state.
THEOREM TypeCorrect == Spec => []TypeOK
<1>1. Init => Typed
  BY SetsAssumption, BoundsAssumption, NoJobType
  DEF Init, Typed, TypeOK, RowTypes, LogTypes, SettingTypes, WorkerTypes,
      HistoryTypes, ResultSet
<1>2. Typed /\ [Next]_vars => Typed'
  BY TypedStep
<1>3. Typed => TypeOK
  BY DEF Typed
<1>. QED
  BY <1>1, <1>2, <1>3, PTL DEF Spec

-----------------------------------------------------------------------------
(* The inductive invariant, in the order of its proof.                     *)

\* Every token in use is below the next fresh one, and two workers that hold a
\* claim hold different claims.
Fresh ==
    /\ \A q \in Rows : claimToken[q] < nextToken
    /\ \A q \in Rows : \A t \in exposed[q] : t < nextToken
    /\ \A w \in Workers : job[w].token < nextToken
    /\ \A v, w \in Workers :
          v # w /\ pc[v] \in Holding /\ pc[w] \in Holding
              => job[v].token # job[w].token

\* While the token in a processing row is the one a worker knows, the
\* attempt_count the worker read is still the row's.
KnowsClaim(w) ==
    /\ pc[w] # "idle"
    /\ status[job[w].row] = "processing"
    /\ claimToken[job[w].row] = job[w].token

Snapshot ==
    \A w \in Workers :
        KnowsClaim(w) => job[w].attempts = attemptCount[job[w].row]

\* What the position of a worker says about its claim: before the payload, and
\* after an outcome that is neither sent nor unknown, the claim exposed nothing.
Unexposed(w) ==
    \/ pc[w] \in {"claimed", "prepare", "reserve", "dial", "session", "data"}
    \/ pc[w] = "record" /\ result[w] \notin {"sent", "result_unknown"}

Phase ==
    \A w \in Workers :
        /\ Unexposed(w) => job[w].token \notin exposed[job[w].row]
        /\ pc[w] = "payload" =>
              /\ job[w].token \in exposed[job[w].row]
              /\ job[w].token \notin acceptedBy[job[w].row]
        /\ pc[w] = "record" /\ result[w] = "sent" =>
              job[w].token \in acceptedBy[job[w].row]

\* Each copy comes from an exposed claim, one copy per claim.
Backed ==
    \A q \in Rows :
        /\ acceptedBy[q] \subseteq exposed[q]
        /\ copies[q] = Cardinality(acceptedBy[q])

\* A row that may still be sent without anybody's consent.
Open(q) ==
    \/ status[q] \in {Absent, "queued", "retry_pending", "blocked", "failed"}
    \/ status[q] = "processing" /\ claimToken[q] \notin exposed[q]

\* The budget of copies: an open row keeps one in reserve.
Budget ==
    \A q \in Rows :
        Cardinality(exposed[q]) + (IF Open(q) THEN 1 ELSE 0)
            <= 1 + confirmed[q] + dsns[q]

\* The budget of attempts: a row that may be claimed again keeps one in reserve.
Attempts ==
    \A q \in Rows :
        attemptCount[q] + (IF status[q] \in {Absent, "queued", "retry_pending",
                                             "processing"} THEN 1 ELSE 0)
            <= MaxRetry + manual[q] + dsns[q]

\* A worker asks for another try only below max_retry_count.
RetryResult ==
    \A w \in Workers : pc[w] = "record" /\ result[w] = "retry_pending"
        => job[w].attempts + 1 < MaxRetry

\* A forward that reads sent, and every forward of a deleted original, has a copy.
ForwardTaken ==
    /\ \A q \in Rows : forwarded[q] = "sent" => copies[q] > 0
    /\ \A o \in deleted : \A q \in Rows : OriginOf[q] = o => copies[q] > 0

\* A row that reads sent has a copy at a server.
SentWasAccepted ==
    \A q \in Rows : status[q] = "sent" => copies[q] > 0

\* A step of run_once that gives the job up.
Dropped(w) ==
    /\ Drop(w)
    /\ UNCHANGED <<rowVars, attemptLog, forwardVars, ready, quotaVars, nextToken,
                   historyVars, requestVars>>

\* Three actions of run_once give the job up.
LEMMA DropSteps ==
  ASSUME NEW w \in Workers, Abandon(w) \/ GiveUp(w) \/ RecordRefused(w)
  PROVE  Dropped(w)
  BY DEF Dropped, Abandon, GiveUp, RecordRefused

\* What is left of the worker after such a step.
LEMMA DropFacts ==
  ASSUME Typed, NEW w \in Workers, Dropped(w)
  PROVE  /\ pc' = [pc EXCEPT ![w] = "idle"]
         /\ job' = [job EXCEPT ![w] = NoJob]
         /\ result' = [result EXCEPT ![w] = "none"]
         /\ NoJob.token < nextToken
         /\ UNCHANGED <<status, attemptCount, claimToken, attemptLog, forwarded,
                        deleted, usage, dialled, nextToken, copies, acceptedBy,
                        exposed, manual, confirmed, dsns>>
  BY DEF Dropped, Drop, NoJob, Typed, TypeOK, RowTypes, rowVars, forwardVars,
         quotaVars, historyVars, requestVars

\* The steps of deliver_claimed move the worker among its kept positions and
\* leave the queue row and the job alone.
Inner(w) ==
    /\ pc[w] \in Holding
    /\ \E p \in Kept : pc' = [pc EXCEPT ![w] = p]
    /\ UNCHANGED <<status, attemptCount, claimToken, job, nextToken>>

\* They are the steps between the first check_owner and the DeliveryResult.
LEMMA InnerSteps ==
  ASSUME NEW w \in Workers,
         \/ StartPrepare(w) \/ Dial(w) \/ EnterData(w)
         \/ Prepare(w) \/ Reserve(w) \/ RefusedBeforeData(w)
         \/ PayloadRefused(w) \/ PayloadAccepted(w) \/ PayloadLost(w)
  PROVE  Inner(w)
<1>1. CASE Prepare(w)
  BY <1>1 DEF Inner, Prepare, Conclude, localUnchanged, rowVars
<1>2. CASE Reserve(w)
  BY <1>2 DEF Inner, Reserve, Conclude, localUnchanged, rowVars
<1>3. CASE RefusedBeforeData(w)
  BY <1>3
  DEF Inner, RefusedBeforeData, Refused, Conclude, localUnchanged, rowVars
<1>4. CASE PayloadRefused(w)
  BY <1>4 DEF Inner, PayloadRefused, Refused, Conclude, localUnchanged, rowVars
<1>5. CASE PayloadAccepted(w)
  BY <1>5 DEF Inner, PayloadAccepted, Conclude, localUnchanged, rowVars
<1>6. CASE PayloadLost(w)
  BY <1>6 DEF Inner, PayloadLost, Conclude, localUnchanged, rowVars
<1>7. CASE StartPrepare(w) \/ Dial(w) \/ EnterData(w)
  BY <1>7 DEF Inner, StartPrepare, Dial, EnterData, localUnchanged, rowVars
<1>. QED
  BY <1>1, <1>2, <1>3, <1>4, <1>5, <1>6, <1>7

\* Such a step keeps the tokens apart if it exposes no new claim ...
LEMMA InnerFresh ==
  ASSUME Typed, Fresh, NEW w \in Workers, Inner(w),
         \A q \in Rows : exposed'[q] \subseteq exposed[q]
  PROVE  Fresh'
  BY DEF Inner, Fresh, Typed, TypeOK, WorkerTypes, Job

\* ... and keeps the snapshots.
LEMMA InnerSnapshot ==
  ASSUME Typed, Snapshot, NEW w \in Workers, Inner(w)
  PROVE  Snapshot'
  BY DEF Inner, Snapshot, KnowsClaim, Typed, TypeOK, WorkerTypes, Job

\* What the transaction of finalize_claim does to claims and jobs.
LEMMA FinalizeFacts ==
  ASSUME Typed, NEW w \in Workers, NEW r, Finalize(w, r)
  PROVE  /\ pc' = [pc EXCEPT ![w] = "idle"]
         /\ job' = [job EXCEPT ![w] = NoJob]
         /\ UNCHANGED <<claimToken, nextToken, historyVars, requestVars>>
         /\ status' = [status EXCEPT ![job[w].row] = r]
         /\ attemptCount' = [attemptCount EXCEPT ![job[w].row] =
                                job[w].attempts + 1]
         /\ job[w].row \in Rows
         /\ job[w].attempts \in Nat
  BY DEF Finalize, Drop, Typed, TypeOK, WorkerTypes, Job


\* claim_next draws a token nobody has seen.
LEMMA FreshStep == Typed /\ Fresh /\ [Next]_vars => Fresh'
<1> SUFFICES ASSUME Typed, Fresh, [Next]_vars PROVE Fresh'
  OBVIOUS
<1> USE SetsAssumption, BoundsAssumption, NoJobType
<1>1. ASSUME NEW w \in Workers,
       \/ Abandon(w) \/ GiveUp(w) \/ RecordRefused(w)
     PROVE  Fresh'
  <2>1. Dropped(w)
    BY <1>1, DropSteps
  <2>2. /\ pc' = [pc EXCEPT ![w] = "idle"]
        /\ job' = [job EXCEPT ![w] = NoJob]
        /\ NoJob.token < nextToken /\ NoJob \in Job
        /\ UNCHANGED <<claimToken, nextToken, exposed>>
    BY <2>1, DropFacts, NoJobType
  <2>. QED
    BY <2>2 DEF Fresh, Typed, TypeOK, RowTypes, WorkerTypes, HistoryTypes, Job
<1>2. ASSUME NEW w \in Workers,
       \/ StartPrepare(w) \/ Dial(w) \/ EnterData(w) \/ Prepare(w)
       \/ Reserve(w) \/ RefusedBeforeData(w) \/ PayloadLost(w)
       \/ PayloadAccepted(w)
     PROVE  Fresh'
  <2>1. Inner(w)
    BY <1>2, InnerSteps
  <2>2. exposed' = exposed
    BY <1>2
    DEF StartPrepare, Dial, EnterData, Prepare, Reserve, RefusedBeforeData, PayloadAccepted, PayloadLost,
        localUnchanged, historyVars
  <2>. QED
    BY <2>1, <2>2, InnerFresh
<1>3. ASSUME NEW q \in Rows,
       \/ Enqueue(q) \/ BecomeDue(q) \/ LeaseExpires(q) \/ SenderRetry(q)
     PROVE  Fresh'
  BY <1>3
  DEF Fresh, rowVars, workerVars, historyVars, Enqueue, Insert, BecomeDue,
      LeaseExpires, SenderRetry
<1>4. ASSUME NEW o \in Origins, ApplyRecipient(o) PROVE Fresh'
  BY <1>4 DEF Fresh, rowVars, workerVars, historyVars, ApplyRecipient, Insert
<1>5. ASSUME NEW w \in Workers, KeeperLosesClaim(w) PROVE Fresh'
  BY <1>5 DEF Fresh, rowVars, workerVars, historyVars, KeeperLosesClaim
<1>6. ASSUME NEW q \in Rows, NEW a \in {"failed", "delayed", "delivered"},
       RecordFeedback(q, a)
     PROVE  Fresh'
  BY <1>6 DEF Fresh, rowVars, workerVars, historyVars, RecordFeedback
<1>7. CASE ProviderChanges
  BY <1>7 DEF Fresh, rowVars, workerVars, historyVars, ProviderChanges
<1>8. CASE NewDay
  BY <1>8 DEF Fresh, rowVars, workerVars, historyVars, NewDay
<1>9. ASSUME NEW w \in Workers, NEW q \in Rows, Claim(w, q) PROVE Fresh'
  BY <1>9
  DEF Fresh, Typed, TypeOK, RowTypes, WorkerTypes, HistoryTypes, Job, rowVars,
      workerVars, historyVars, Claim
<1>10. ASSUME NEW w \in Workers, NEW q \in Rows, FindExpired(w, q) PROVE Fresh'
  BY <1>10
  DEF Fresh, Typed, TypeOK, RowTypes, WorkerTypes, HistoryTypes, Job, rowVars,
      workerVars, historyVars, FindExpired, Lapsed
<1>11. ASSUME NEW w \in Workers, EnterPayload(w) PROVE Fresh'
  BY <1>11
  DEF Fresh, Typed, TypeOK, RowTypes, WorkerTypes, HistoryTypes, Job, rowVars,
      workerVars, historyVars, EnterPayload, CheckOwner, Owns, localUnchanged
<1>12. ASSUME NEW w \in Workers, PayloadRefused(w) PROVE Fresh'
  <2>1. Inner(w)
    BY <1>12, InnerSteps
  <2>2. \A q \in Rows : exposed'[q] \subseteq exposed[q]
    BY <1>12 DEF PayloadRefused, Typed, TypeOK, HistoryTypes
  <2>. QED
    BY <2>1, <2>2, InnerFresh
<1>13. ASSUME NEW w \in Workers, FinalizeClaim(w) PROVE Fresh'
  <2>1. Finalize(w, result[w])
    BY <1>13 DEF FinalizeClaim
  <2>2. NoJob.token < nextToken
    BY DEF NoJob, Typed, TypeOK, RowTypes
  <2>. QED
    BY <2>1, <2>2, FinalizeFacts
    DEF Fresh, historyVars, Typed, TypeOK, RowTypes, WorkerTypes
<1>14. ASSUME NEW w \in Workers, RecoverExpired(w) PROVE Fresh'
  <2>1. Finalize(w, "result_unknown")
    BY <1>14 DEF RecoverExpired
  <2>2. NoJob.token < nextToken
    BY DEF NoJob, Typed, TypeOK, RowTypes
  <2>. QED
    BY <2>1, <2>2, FinalizeFacts
    DEF Fresh, historyVars, Typed, TypeOK, RowTypes, WorkerTypes
<1>15. ASSUME NEW w \in Workers, DeferForQuota(w) PROVE Fresh'
  BY <1>15
  DEF Fresh, Typed, TypeOK, RowTypes, WorkerTypes, HistoryTypes, Job, rowVars,
      workerVars, historyVars, DeferForQuota, Owns, Drop, NoJob
<1>16. ASSUME NEW q \in Rows, NEW confirm \in BOOLEAN,
       Retry(q, confirm)
     PROVE  Fresh'
  BY <1>16
  DEF Fresh, Typed, TypeOK, RowTypes, WorkerTypes, HistoryTypes, Job, rowVars,
      workerVars, historyVars, Retry, MayRetry
<1>17. CASE UNCHANGED vars
  BY <1>17 DEF Fresh, vars, rowVars, workerVars, historyVars
<1>18. ASSUME NEW w \in Workers, WorkerStep(w) PROVE Fresh'
  BY <1>18, <1>1, <1>2, <1>11, <1>12, <1>13, <1>14, <1>15 DEF WorkerStep
<1>. QED
  BY <1>1, <1>3, <1>4, <1>5, <1>6, <1>7, <1>8, <1>9, <1>10, <1>16, <1>17, <1>18
  DEF Next

\* Only the transaction that ends a claim changes its attempt_count.
LEMMA SnapshotStep == Typed /\ Fresh /\ Snapshot /\ [Next]_vars => Snapshot'
<1> SUFFICES ASSUME Typed, Fresh, Snapshot, [Next]_vars PROVE Snapshot'
  OBVIOUS
<1> USE SetsAssumption, BoundsAssumption, NoJobType
<1>1. ASSUME NEW w \in Workers,
       \/ Abandon(w) \/ GiveUp(w) \/ RecordRefused(w)
     PROVE  Snapshot'
  <2>1. Dropped(w)
    BY <1>1, DropSteps
  <2>2. /\ pc' = [pc EXCEPT ![w] = "idle"]
        /\ job' = [job EXCEPT ![w] = NoJob]
        /\ NoJob.token < nextToken /\ NoJob \in Job
        /\ UNCHANGED <<status, attemptCount, claimToken>>
    BY <2>1, DropFacts, NoJobType
  <2>. QED
    BY <2>2
    DEF Fresh, Snapshot, KnowsClaim, Typed, TypeOK, RowTypes, WorkerTypes,
        HistoryTypes, Job
<1>2. ASSUME NEW w \in Workers,
       \/ StartPrepare(w) \/ Dial(w) \/ EnterData(w) \/ Prepare(w)
       \/ Reserve(w) \/ RefusedBeforeData(w) \/ PayloadLost(w)
       \/ PayloadRefused(w) \/ PayloadAccepted(w)
     PROVE  Snapshot'
  BY <1>2, InnerSteps, InnerSnapshot
<1>3. ASSUME NEW q \in Rows,
       \/ BecomeDue(q) \/ LeaseExpires(q)
     PROVE  Snapshot'
  BY <1>3
  DEF Fresh, Snapshot, KnowsClaim, rowVars, workerVars, BecomeDue, LeaseExpires
<1>4. ASSUME NEW w \in Workers, KeeperLosesClaim(w) PROVE Snapshot'
  BY <1>4 DEF Fresh, Snapshot, KnowsClaim, rowVars, workerVars, KeeperLosesClaim
<1>5. CASE ProviderChanges
  BY <1>5 DEF Fresh, Snapshot, KnowsClaim, rowVars, workerVars, ProviderChanges
<1>6. CASE NewDay
  BY <1>6 DEF Fresh, Snapshot, KnowsClaim, rowVars, workerVars, NewDay
<1>7. ASSUME NEW q \in Rows, Enqueue(q) PROVE Snapshot'
  BY <1>7
  DEF Fresh, Snapshot, KnowsClaim, Typed, TypeOK, RowTypes, WorkerTypes,
      HistoryTypes, Job, rowVars, workerVars, Enqueue, Insert, EnqueueStatus
<1>8. ASSUME NEW o \in Origins, ApplyRecipient(o) PROVE Snapshot'
  BY <1>8
  DEF Fresh, Snapshot, KnowsClaim, Typed, TypeOK, RowTypes, WorkerTypes,
      HistoryTypes, Job, rowVars, workerVars, ApplyRecipient, Insert,
      EnqueueStatus
<1>9. ASSUME NEW w \in Workers, NEW q \in Rows, Claim(w, q) PROVE Snapshot'
  BY <1>9
  DEF Fresh, Snapshot, KnowsClaim, Typed, TypeOK, RowTypes, WorkerTypes,
      HistoryTypes, Job, rowVars, workerVars, Claim
<1>10. ASSUME NEW w \in Workers, NEW q \in Rows, FindExpired(w, q)
       PROVE  Snapshot'
  BY <1>10
  DEF Fresh, Snapshot, KnowsClaim, Typed, TypeOK, RowTypes, WorkerTypes,
      HistoryTypes, Job, rowVars, workerVars, FindExpired, Lapsed
<1>11. ASSUME NEW w \in Workers, EnterPayload(w) PROVE Snapshot'
  BY <1>11
  DEF Fresh, Snapshot, KnowsClaim, Typed, TypeOK, RowTypes, WorkerTypes,
      HistoryTypes, Job, rowVars, workerVars, EnterPayload, CheckOwner, Owns,
      localUnchanged
<1>12. ASSUME NEW w \in Workers, FinalizeClaim(w) PROVE Snapshot'
  BY <1>12
  DEF Fresh, Snapshot, KnowsClaim, Typed, TypeOK, RowTypes, WorkerTypes,
      HistoryTypes, Job, rowVars, workerVars, FinalizeClaim, Finalize, Owns,
      Reconcile, Drop, NoJob
<1>13. ASSUME NEW w \in Workers, RecoverExpired(w) PROVE Snapshot'
  BY <1>13
  DEF Fresh, Snapshot, KnowsClaim, Typed, TypeOK, RowTypes, WorkerTypes,
      HistoryTypes, Job, rowVars, workerVars, RecoverExpired, StillLapsed,
      Lapsed, Finalize, Reconcile, Drop, NoJob
<1>14. ASSUME NEW w \in Workers, DeferForQuota(w) PROVE Snapshot'
  BY <1>14
  DEF Fresh, Snapshot, KnowsClaim, Typed, TypeOK, RowTypes, WorkerTypes,
      HistoryTypes, Job, rowVars, workerVars, DeferForQuota, Owns, Drop, NoJob
<1>15. ASSUME NEW q \in Rows, NEW confirm \in BOOLEAN,
       Retry(q, confirm)
     PROVE  Snapshot'
  BY <1>15
  DEF Fresh, Snapshot, KnowsClaim, Typed, TypeOK, RowTypes, WorkerTypes,
      HistoryTypes, Job, rowVars, workerVars, Retry, MayRetry
<1>16. ASSUME NEW q \in Rows, SenderRetry(q) PROVE Snapshot'
  BY <1>16
  DEF Fresh, Snapshot, KnowsClaim, Typed, TypeOK, RowTypes, WorkerTypes,
      HistoryTypes, Job, rowVars, workerVars, SenderRetry
<1>17. ASSUME NEW q \in Rows, NEW a \in {"failed", "delayed", "delivered"},
       RecordFeedback(q, a)
     PROVE  Snapshot'
  BY <1>17
  DEF Fresh, Snapshot, KnowsClaim, Typed, TypeOK, RowTypes, WorkerTypes,
      HistoryTypes, Job, rowVars, workerVars, RecordFeedback, DsnStatus
<1>18. CASE UNCHANGED vars
  BY <1>18 DEF Fresh, Snapshot, KnowsClaim, vars, rowVars, workerVars
<1>19. ASSUME NEW w \in Workers, WorkerStep(w) PROVE Snapshot'
  BY <1>19, <1>1, <1>2, <1>11, <1>12, <1>13, <1>14 DEF WorkerStep
<1>. QED
  BY <1>1, <1>3, <1>4, <1>5, <1>6, <1>7, <1>8, <1>9, <1>10, <1>15, <1>16, <1>17,
     <1>18, <1>19
  DEF Next

\* A claim is exposed by EnterPayload and cleared by an explicit refusal only.
LEMMA PhaseStep == Typed /\ Fresh /\ Backed /\ Phase /\ [Next]_vars => Phase'
<1> SUFFICES ASSUME Typed, Fresh, Backed, Phase, [Next]_vars PROVE Phase'
  OBVIOUS
<1> USE SetsAssumption, BoundsAssumption, NoJobType
<1>1. ASSUME NEW w \in Workers,
       \/ Abandon(w) \/ GiveUp(w) \/ RecordRefused(w)
     PROVE  Phase'
  <2>1. Dropped(w)
    BY <1>1, DropSteps
  <2>2. /\ pc' = [pc EXCEPT ![w] = "idle"]
        /\ job' = [job EXCEPT ![w] = NoJob]
        /\ NoJob.token < nextToken /\ NoJob \in Job
        /\ result' = [result EXCEPT ![w] = "none"]
        /\ UNCHANGED <<acceptedBy, exposed>>
    BY <2>1, DropFacts, NoJobType
  <2>. QED
    BY <2>2
    DEF Fresh, Phase, Unexposed, Typed, TypeOK, RowTypes, WorkerTypes,
        HistoryTypes, Job
<1>2. ASSUME NEW q \in Rows,
       \/ Enqueue(q) \/ BecomeDue(q) \/ LeaseExpires(q) \/ SenderRetry(q)
     PROVE  Phase'
  BY <1>2
  DEF Fresh, Phase, Unexposed, workerVars, historyVars, Enqueue, Insert,
      BecomeDue, LeaseExpires, SenderRetry
<1>3. ASSUME NEW o \in Origins, ApplyRecipient(o) PROVE Phase'
  BY <1>3
  DEF Fresh, Phase, Unexposed, workerVars, historyVars, ApplyRecipient, Insert
<1>4. ASSUME NEW w \in Workers, KeeperLosesClaim(w) PROVE Phase'
  BY <1>4 DEF Fresh, Phase, Unexposed, workerVars, historyVars, KeeperLosesClaim
<1>5. ASSUME NEW q \in Rows, NEW confirm \in BOOLEAN,
       Retry(q, confirm)
     PROVE  Phase'
  BY <1>5 DEF Fresh, Phase, Unexposed, workerVars, historyVars, Retry
<1>6. ASSUME NEW q \in Rows, NEW a \in {"failed", "delayed", "delivered"},
       RecordFeedback(q, a)
     PROVE  Phase'
  BY <1>6 DEF Fresh, Phase, Unexposed, workerVars, historyVars, RecordFeedback
<1>7. CASE ProviderChanges
  BY <1>7 DEF Fresh, Phase, Unexposed, workerVars, historyVars, ProviderChanges
<1>8. CASE NewDay
  BY <1>8 DEF Fresh, Phase, Unexposed, workerVars, historyVars, NewDay
<1>9. ASSUME NEW w \in Workers, NEW q \in Rows, Claim(w, q) PROVE Phase'
  BY <1>9
  DEF Fresh, Phase, Unexposed, Typed, TypeOK, RowTypes, WorkerTypes,
      HistoryTypes, Job, workerVars, historyVars, Claim
<1>10. ASSUME NEW w \in Workers, NEW q \in Rows, FindExpired(w, q) PROVE Phase'
  BY <1>10
  DEF Fresh, Phase, Unexposed, Typed, TypeOK, RowTypes, WorkerTypes,
      HistoryTypes, Job, workerVars, historyVars, FindExpired, Lapsed
<1>11. ASSUME NEW w \in Workers, StartPrepare(w) PROVE Phase'
  BY <1>11
  DEF Fresh, Phase, Unexposed, Typed, TypeOK, RowTypes, WorkerTypes,
      HistoryTypes, Job, workerVars, historyVars, StartPrepare
<1>12. ASSUME NEW w \in Workers, Prepare(w) PROVE Phase'
  BY <1>12
  DEF Fresh, Phase, Unexposed, Typed, TypeOK, RowTypes, WorkerTypes,
      HistoryTypes, Job, workerVars, historyVars, Prepare, Conclude,
      localUnchanged
<1>13. ASSUME NEW w \in Workers, Reserve(w) PROVE Phase'
  BY <1>13
  DEF Fresh, Phase, Unexposed, Typed, TypeOK, RowTypes, WorkerTypes,
      HistoryTypes, Job, workerVars, historyVars, Reserve, Conclude,
      localUnchanged
<1>14. ASSUME NEW w \in Workers, Dial(w) PROVE Phase'
  BY <1>14
  DEF Fresh, Phase, Unexposed, Typed, TypeOK, RowTypes, WorkerTypes,
      HistoryTypes, Job, workerVars, historyVars, Dial, localUnchanged
<1>15. ASSUME NEW w \in Workers, EnterData(w) PROVE Phase'
  BY <1>15
  DEF Fresh, Phase, Unexposed, Typed, TypeOK, RowTypes, WorkerTypes,
      HistoryTypes, Job, workerVars, historyVars, EnterData, localUnchanged
<1>16. ASSUME NEW w \in Workers, EnterPayload(w) PROVE Phase'
  <2> DEFINE t == job[w].token
             q == job[w].row
  <2>1. /\ pc[w] = "data" /\ q \in Rows
        /\ pc' = [pc EXCEPT ![w] = "payload"]
        /\ exposed' = [exposed EXCEPT ![q] = @ \cup {t}]
        /\ UNCHANGED <<job, result, acceptedBy>>
    BY <1>16
    DEF EnterPayload, localUnchanged, Typed, TypeOK, WorkerTypes, HistoryTypes,
        Job
  <2>2. t \notin acceptedBy[q]
    BY <2>1 DEF Phase, Unexposed, Backed
  <2>3. ASSUME NEW v \in Workers, v # w, pc[v] \in Holding
        PROVE  job[v].token # t
    BY <2>1, <2>3 DEF Fresh
  <2>4. ASSUME NEW v \in Workers, v # w, Unexposed(v)'
        PROVE  (job[v].token \notin exposed[job[v].row])'
    <3>1. Unexposed(v) /\ pc[v] \in Holding
      BY <2>1, <2>4 DEF Unexposed, Typed, TypeOK, WorkerTypes
    <3>2. job[v].token # t /\ job[v].token \notin exposed[job[v].row]
      BY <2>3, <2>4, <3>1 DEF Phase
    <3>. QED
      BY <2>1, <3>2 DEF Typed, TypeOK, WorkerTypes, HistoryTypes, Job
  <2>5. ASSUME NEW v \in Workers, v # w
        PROVE  /\ (pc[v] = "payload")' =>
                    /\ (job[v].token \in exposed[job[v].row])'
                    /\ (job[v].token \notin acceptedBy[job[v].row])'
               /\ (pc[v] = "record" /\ result[v] = "sent")' =>
                    (job[v].token \in acceptedBy[job[v].row])'
    BY <2>1, <2>5 DEF Phase, Typed, TypeOK, WorkerTypes, HistoryTypes, Job
  <2>6. /\ ~Unexposed(w)'
        /\ pc'[w] = "payload"
        /\ (job[w].token \in exposed[job[w].row])'
        /\ (job[w].token \notin acceptedBy[job[w].row])'
    BY <2>1, <2>2 DEF Unexposed, Typed, TypeOK, WorkerTypes, HistoryTypes, Job
  <2>. QED
    BY <2>4, <2>5, <2>6 DEF Phase
<1>17. ASSUME NEW w \in Workers, RefusedBeforeData(w) PROVE Phase'
  BY <1>17
  DEF Fresh, Phase, Unexposed, Typed, TypeOK, RowTypes, WorkerTypes,
      HistoryTypes, Job, workerVars, historyVars, RefusedBeforeData, Refused,
      Conclude, TransientResult, localUnchanged
<1>18. ASSUME NEW w \in Workers, PayloadRefused(w) PROVE Phase'
  <2> DEFINE t == job[w].token
             q == job[w].row
  <2>1. /\ pc[w] = "payload" /\ q \in Rows
        /\ exposed' = [exposed EXCEPT ![q] = @ \ {t}]
        /\ UNCHANGED <<job, acceptedBy>>
    BY <1>18
    DEF PayloadRefused, localUnchanged, Typed, TypeOK, WorkerTypes,
        HistoryTypes, Job
  <2>2. /\ \A v \in Workers \ {w} : pc'[v] = pc[v] /\ result'[v] = result[v]
        /\ pc'[w] = "reserve" \/ (pc'[w] = "record" /\ result'[w] # "sent")
    BY <1>18
    DEF PayloadRefused, Refused, Conclude, TransientResult, Typed, TypeOK,
        WorkerTypes, HistoryTypes, Job
  <2>3. ASSUME NEW v \in Workers, v # w, pc[v] \in Holding
        PROVE  job[v].token # t
    BY <2>1, <2>3 DEF Fresh
  <2>4. ASSUME NEW v \in Workers, v # w
        PROVE  /\ Unexposed(v)' => (job[v].token \notin exposed[job[v].row])'
               /\ (pc[v] = "payload")' =>
                    /\ (job[v].token \in exposed[job[v].row])'
                    /\ (job[v].token \notin acceptedBy[job[v].row])'
               /\ (pc[v] = "record" /\ result[v] = "sent")' =>
                    (job[v].token \in acceptedBy[job[v].row])'
    BY <2>1, <2>2, <2>3, <2>4
    DEF Phase, Unexposed, Typed, TypeOK, WorkerTypes, HistoryTypes, Job
  <2>5. /\ (job[w].token \notin exposed[job[w].row])'
        /\ pc'[w] # "payload"
        /\ ~(pc'[w] = "record" /\ result'[w] = "sent")
    BY <2>1, <2>2 DEF Typed, TypeOK, WorkerTypes, HistoryTypes, Job
  <2>. QED
    BY <2>4, <2>5 DEF Phase
<1>19. ASSUME NEW w \in Workers, PayloadAccepted(w) PROVE Phase'
  <2> DEFINE t == job[w].token
             q == job[w].row
  <2>1. /\ pc[w] = "payload" /\ q \in Rows
        /\ pc' = [pc EXCEPT ![w] = "record"]
        /\ acceptedBy' = [acceptedBy EXCEPT ![q] = @ \cup {t}]
        /\ UNCHANGED <<job, exposed>>
        /\ result'[w] \in {"sent", "result_unknown"}
        /\ \A v \in Workers \ {w} : result'[v] = result[v]
    BY <1>19
    DEF PayloadAccepted, LostReply, Conclude, localUnchanged, Typed, TypeOK,
        WorkerTypes, HistoryTypes, Job
  <2>2. ASSUME NEW v \in Workers, v # w, pc[v] \in Holding
        PROVE  job[v].token # t
    BY <2>1, <2>2 DEF Fresh
  <2>3. ASSUME NEW v \in Workers, v # w
        PROVE  /\ Unexposed(v)' => (job[v].token \notin exposed[job[v].row])'
               /\ (pc[v] = "payload")' =>
                    /\ (job[v].token \in exposed[job[v].row])'
                    /\ (job[v].token \notin acceptedBy[job[v].row])'
               /\ (pc[v] = "record" /\ result[v] = "sent")' =>
                    (job[v].token \in acceptedBy[job[v].row])'
    BY <2>1, <2>2, <2>3
    DEF Phase, Unexposed, Typed, TypeOK, WorkerTypes, HistoryTypes, Job
  <2>4. /\ ~Unexposed(w)'
        /\ pc'[w] # "payload"
        /\ (job[w].token \in acceptedBy[job[w].row])'
    BY <2>1 DEF Unexposed, Typed, TypeOK, WorkerTypes, HistoryTypes, Job
  <2>. QED
    BY <2>3, <2>4 DEF Phase
<1>20. ASSUME NEW w \in Workers, PayloadLost(w) PROVE Phase'
  BY <1>20
  DEF Fresh, Phase, Unexposed, Typed, TypeOK, RowTypes, WorkerTypes,
      HistoryTypes, Job, workerVars, historyVars, PayloadLost, LostReply,
      Conclude, localUnchanged
<1>21. ASSUME NEW w \in Workers, FinalizeClaim(w) PROVE Phase'
  BY <1>21
  DEF Fresh, Phase, Unexposed, Typed, TypeOK, RowTypes, WorkerTypes,
      HistoryTypes, Job, workerVars, historyVars, FinalizeClaim, Finalize, Owns,
      Reconcile, Drop, NoJob
<1>22. ASSUME NEW w \in Workers, RecoverExpired(w) PROVE Phase'
  BY <1>22
  DEF Fresh, Phase, Unexposed, Typed, TypeOK, RowTypes, WorkerTypes,
      HistoryTypes, Job, workerVars, historyVars, RecoverExpired, StillLapsed,
      Lapsed, Finalize, Reconcile, Drop, NoJob
<1>23. ASSUME NEW w \in Workers, DeferForQuota(w) PROVE Phase'
  BY <1>23
  DEF Fresh, Phase, Unexposed, Typed, TypeOK, RowTypes, WorkerTypes,
      HistoryTypes, Job, workerVars, historyVars, DeferForQuota, Owns, Drop,
      NoJob
<1>24. CASE UNCHANGED vars
  BY <1>24 DEF Fresh, Phase, Unexposed, vars, workerVars, historyVars
<1>25. ASSUME NEW w \in Workers, WorkerStep(w) PROVE Phase'
  BY <1>25, <1>1, <1>11, <1>12, <1>13, <1>14, <1>15, <1>16, <1>17, <1>18, <1>19,
     <1>20, <1>21, <1>22, <1>23
  DEF WorkerStep
<1>. QED
  BY <1>1, <1>2, <1>3, <1>4, <1>5, <1>6, <1>7, <1>8, <1>9, <1>10, <1>24, <1>25
  DEF Next


\* Sets of claim tokens are finite: the models bound the claims by MaxToken.
LEMMA TokensFinite ==
  ASSUME NEW S \in SUBSET Token
  PROVE  IsFiniteSet(S) /\ Cardinality(S) \in Nat
<1>1. IsFiniteSet(0..MaxToken)
  BY FS_Interval, BoundsAssumption
<1>2. IsFiniteSet(S)
  BY <1>1, FS_Subset
<1>. QED
  BY <1>2, FS_CardinalityType

\* A step that exposes no claim keeps the budget when every row it opens is paid
\* for by a confirmation or a DSN.
LEMMA BudgetKept ==
  ASSUME Typed, Typed', Budget, exposed' = exposed,
         \A q \in Rows :
            /\ confirmed'[q] + dsns'[q] >= confirmed[q] + dsns[q]
            /\ Open(q)' /\ ~Open(q) =>
                  confirmed'[q] + dsns'[q] >= confirmed[q] + dsns[q] + 1
  PROVE  Budget'
<1> SUFFICES ASSUME NEW q \in Rows
    PROVE  (Cardinality(exposed[q]) + (IF Open(q) THEN 1 ELSE 0)
                <= 1 + confirmed[q] + dsns[q])'
  BY DEF Budget
<1>1. /\ exposed'[q] = exposed[q]
      /\ Cardinality(exposed[q]) \in Nat
      /\ Cardinality(exposed[q]) + (IF Open(q) THEN 1 ELSE 0)
            <= 1 + confirmed[q] + dsns[q]
  BY TokensFinite DEF Budget, Typed, TypeOK, HistoryTypes
<1>2. /\ confirmed[q] \in Nat /\ dsns[q] \in Nat
      /\ confirmed'[q] \in Nat /\ dsns'[q] \in Nat
  BY DEF Typed, TypeOK, HistoryTypes
<1>. QED
  BY <1>1, <1>2

\* Only a server's acceptance adds a copy, once per exposed claim.
LEMMA BackedStep == Typed /\ Phase /\ Backed /\ [Next]_vars => Backed'
<1> SUFFICES ASSUME Typed, Phase, Backed, [Next]_vars PROVE Backed'
  OBVIOUS
<1> USE SetsAssumption, BoundsAssumption, NoJobType
<1>1. ASSUME NEW w \in Workers,
       \/ Abandon(w) \/ GiveUp(w) \/ RecordRefused(w)
     PROVE  Backed'
  <2>1. Dropped(w)
    BY <1>1, DropSteps
  <2>2. /\ UNCHANGED <<copies, acceptedBy, exposed>>
    BY <2>1, DropFacts, NoJobType
  <2>. QED
    BY <2>2
    DEF Phase, Backed, Typed, TypeOK, RowTypes, WorkerTypes, HistoryTypes, Job
<1>2. ASSUME NEW q \in Rows,
       \/ Enqueue(q) \/ BecomeDue(q) \/ LeaseExpires(q) \/ SenderRetry(q)
     PROVE  Backed'
  BY <1>2
  DEF Phase, Backed, historyVars, Enqueue, Insert, BecomeDue, LeaseExpires,
      SenderRetry
<1>3. ASSUME NEW o \in Origins, ApplyRecipient(o) PROVE Backed'
  BY <1>3 DEF Phase, Backed, historyVars, ApplyRecipient, Insert
<1>4. CASE \/ \E w \in Workers, q \in Rows : Claim(w, q)
          \/ \E w \in Workers, q \in Rows : FindExpired(w, q)
  BY <1>4 DEF Phase, Backed, historyVars, Claim, FindExpired
<1>5. ASSUME NEW w \in Workers,
       \/ KeeperLosesClaim(w) \/ StartPrepare(w) \/ Prepare(w)
       \/ Reserve(w) \/ Dial(w) \/ EnterData(w)
     PROVE  Backed'
  BY <1>5
  DEF Phase, Backed, historyVars, KeeperLosesClaim, StartPrepare, Prepare,
      localUnchanged, Reserve, Dial, EnterData, Conclude
<1>6. ASSUME NEW w \in Workers,
       \/ RefusedBeforeData(w) \/ PayloadLost(w) \/ FinalizeClaim(w)
       \/ RecoverExpired(w) \/ DeferForQuota(w)
     PROVE  Backed'
  BY <1>6
  DEF Phase, Backed, historyVars, RefusedBeforeData, localUnchanged,
      PayloadLost, FinalizeClaim, Finalize, Drop, RecoverExpired, DeferForQuota,
      Refused, Conclude
<1>7. ASSUME NEW q \in Rows, NEW confirm \in BOOLEAN,
       Retry(q, confirm)
     PROVE  Backed'
  BY <1>7 DEF Phase, Backed, historyVars, Retry
<1>8. ASSUME NEW q \in Rows, NEW a \in {"failed", "delayed", "delivered"},
       RecordFeedback(q, a)
     PROVE  Backed'
  BY <1>8 DEF Phase, Backed, historyVars, RecordFeedback
<1>9. CASE ProviderChanges
  BY <1>9 DEF Phase, Backed, historyVars, ProviderChanges
<1>10. CASE NewDay
  BY <1>10 DEF Phase, Backed, historyVars, NewDay
<1>11. ASSUME NEW w \in Workers, EnterPayload(w) PROVE Backed'
  BY <1>11
  DEF Phase, Backed, Typed, TypeOK, RowTypes, WorkerTypes, HistoryTypes, Job,
      historyVars, EnterPayload, CheckOwner, Owns, localUnchanged
<1>12. ASSUME NEW w \in Workers, PayloadRefused(w) PROVE Backed'
  BY <1>12
  DEF Phase, Backed, Typed, TypeOK, RowTypes, WorkerTypes, HistoryTypes, Job,
      historyVars, PayloadRefused, Refused, Conclude, TransientResult,
      localUnchanged
<1>13. ASSUME NEW w \in Workers, PayloadAccepted(w) PROVE Backed'
  <2> DEFINE t == job[w].token
             q == job[w].row
  <2>1. /\ q \in Rows /\ t \in Token
        /\ t \in exposed[q] /\ t \notin acceptedBy[q]
        /\ copies' = [copies EXCEPT ![q] = @ + 1]
        /\ acceptedBy' = [acceptedBy EXCEPT ![q] = @ \cup {t}]
        /\ exposed' = exposed
    BY <1>13
    DEF Phase, PayloadAccepted, Typed, TypeOK, WorkerTypes, HistoryTypes, Job
  <2>2. Cardinality(acceptedBy[q] \cup {t}) = Cardinality(acceptedBy[q]) + 1
    BY <2>1, TokensFinite, FS_AddElement
    DEF Typed, TypeOK, WorkerTypes, HistoryTypes, Job
  <2>. QED
    BY <2>1, <2>2 DEF Backed, Typed, TypeOK, WorkerTypes, HistoryTypes, Job
<1>14. CASE UNCHANGED vars
  BY <1>14 DEF Phase, Backed, vars, historyVars
<1>15. ASSUME NEW w \in Workers, WorkerStep(w) PROVE Backed'
  BY <1>15, <1>1, <1>5, <1>6, <1>11, <1>12, <1>13 DEF WorkerStep
<1>. QED
  BY <1>1, <1>2, <1>3, <1>4, <1>5, <1>7, <1>8, <1>9, <1>10, <1>14, <1>15
  DEF Next

\* An open row is closed when its claim is exposed, and opened again only by an
\* explicit refusal, a confirmation or a DSN.
LEMMA BudgetStep == Typed /\ Fresh /\ Phase /\ Budget /\ [Next]_vars => Budget'
<1> SUFFICES ASSUME Typed, Fresh, Phase, Budget, [Next]_vars PROVE Budget'
  OBVIOUS
<1> USE SetsAssumption, BoundsAssumption, NoJobType
<1>1. CASE \/ \E q \in Rows : Enqueue(q)
          \/ \E o \in Origins : ApplyRecipient(o)
  BY <1>1
  DEF Fresh, Phase, Unexposed, Budget, Open, Typed, TypeOK, RowTypes,
      WorkerTypes, HistoryTypes, Job, rowVars, historyVars, requestVars,
      Enqueue, Insert, EnqueueStatus, ApplyRecipient
<1>2. ASSUME NEW w \in Workers,
       \/ Abandon(w) \/ GiveUp(w) \/ RecordRefused(w)
     PROVE  Budget'
  <2>1. Dropped(w)
    BY <1>2, DropSteps
  <2>2. /\ UNCHANGED <<status, claimToken, exposed, confirmed, dsns>>
    BY <2>1, DropFacts, NoJobType
  <2>. QED
    BY <2>2
    DEF Fresh, Phase, Unexposed, Budget, Open, Typed, TypeOK, RowTypes,
        WorkerTypes, HistoryTypes, Job
<1>3. ASSUME NEW q \in Rows,
       \/ BecomeDue(q) \/ LeaseExpires(q)
     PROVE  Budget'
  BY <1>3
  DEF Fresh, Phase, Unexposed, Budget, Open, rowVars, historyVars, requestVars,
      BecomeDue, LeaseExpires
<1>4. ASSUME NEW w \in Workers, NEW q \in Rows, FindExpired(w, q) PROVE Budget'
  BY <1>4
  DEF Fresh, Phase, Unexposed, Budget, Open, rowVars, historyVars, requestVars,
      FindExpired
<1>5. ASSUME NEW w \in Workers,
       \/ KeeperLosesClaim(w) \/ StartPrepare(w) \/ Prepare(w)
       \/ Reserve(w) \/ Dial(w) \/ EnterData(w)
     PROVE  Budget'
  BY <1>5
  DEF Fresh, Phase, Unexposed, Budget, Open, rowVars, historyVars, requestVars,
      KeeperLosesClaim, StartPrepare, Prepare, localUnchanged, Reserve, Dial,
      EnterData, Conclude
<1>6. ASSUME NEW w \in Workers,
       \/ RefusedBeforeData(w) \/ PayloadAccepted(w) \/ PayloadLost(w)
     PROVE  Budget'
  BY <1>6
  DEF Fresh, Phase, Unexposed, Budget, Open, rowVars, historyVars, requestVars,
      RefusedBeforeData, localUnchanged, PayloadAccepted, PayloadLost, Refused,
      Conclude
<1>7. CASE ProviderChanges
  BY <1>7
  DEF Fresh, Phase, Unexposed, Budget, Open, rowVars, historyVars, requestVars,
      ProviderChanges
<1>8. CASE NewDay
  BY <1>8
  DEF Fresh, Phase, Unexposed, Budget, Open, rowVars, historyVars, requestVars,
      NewDay
<1>9. ASSUME NEW w \in Workers, NEW q \in Rows, Claim(w, q) PROVE Budget'
  BY <1>9
  DEF Fresh, Phase, Unexposed, Budget, Open, Typed, TypeOK, RowTypes,
      WorkerTypes, HistoryTypes, Job, rowVars, historyVars, requestVars, Claim
<1>10. ASSUME NEW w \in Workers, EnterPayload(w) PROVE Budget'
  <2> DEFINE t == job[w].token
             q == job[w].row
  <2>1. /\ q \in Rows /\ t \in Token
        /\ status[q] = "processing" /\ claimToken[q] = t /\ t \notin exposed[q]
        /\ exposed' = [exposed EXCEPT ![q] = @ \cup {t}]
        /\ UNCHANGED <<status, claimToken, confirmed, dsns, job>>
    BY <1>10
    DEF Phase, Unexposed, EnterPayload, CheckOwner, Owns, localUnchanged, 
                 rowVars, requestVars, Typed, TypeOK, WorkerTypes, HistoryTypes, Job
  <2>2. /\ Cardinality(exposed[q] \cup {t}) = Cardinality(exposed[q]) + 1
        /\ Cardinality(exposed[q]) \in Nat
    BY <2>1, TokensFinite, FS_AddElement
    DEF Typed, TypeOK, WorkerTypes, HistoryTypes, Job
  <2>3. Open(q) /\ ~Open(q)'
    BY <2>1 DEF Open, Typed, TypeOK, WorkerTypes, HistoryTypes, Job
  <2>4. \A r \in Rows \ {q} : exposed'[r] = exposed[r] /\ (Open(r)' <=> Open(r))
    BY <2>1 DEF Open, Typed, TypeOK, WorkerTypes, HistoryTypes, Job
  <2>5. ASSUME NEW r \in Rows
        PROVE  (Cardinality(exposed[r]) + (IF Open(r) THEN 1 ELSE 0)
                   <= 1 + confirmed[r] + dsns[r])'
    <3>1. CASE r = q
      <4>1. Cardinality(exposed'[r]) = Cardinality(exposed[r]) + 1
        BY <2>1, <2>2, <3>1 DEF Typed, TypeOK, WorkerTypes, HistoryTypes, Job
      <4>2. ~Open(r)'
        BY <2>1, <3>1 DEF Open, Typed, TypeOK, WorkerTypes, HistoryTypes, Job
      <4>3. Cardinality(exposed[r]) + 1 <= 1 + confirmed[r] + dsns[r]
        BY <2>3, <3>1 DEF Budget
      <4>. QED
        BY <2>1, <2>2, <3>1, <4>1, <4>2, <4>3
        DEF Typed, TypeOK, WorkerTypes, HistoryTypes, Job
    <3>2. CASE r # q
      BY <2>1, <2>4, <3>2
      DEF Budget, Typed, TypeOK, WorkerTypes, HistoryTypes, Job
    <3>. QED
      BY <3>1, <3>2
  <2>. QED
    BY <2>5 DEF Budget
<1>11. ASSUME NEW w \in Workers, PayloadRefused(w) PROVE Budget'
  <2> DEFINE t == job[w].token
             q == job[w].row
  <2>1. /\ q \in Rows /\ t \in Token /\ t \in exposed[q]
        /\ exposed' = [exposed EXCEPT ![q] = @ \ {t}]
        /\ UNCHANGED <<status, claimToken, confirmed, dsns, job>>
    BY <1>11
    DEF Phase, PayloadRefused, localUnchanged, rowVars, requestVars, Typed,
        TypeOK, WorkerTypes, HistoryTypes, Job
  <2>2. /\ Cardinality(exposed[q] \ {t}) = Cardinality(exposed[q]) - 1
        /\ Cardinality(exposed[q]) \in Nat
    <3>1. exposed[q] \in SUBSET Token
      BY <2>1 DEF Typed, TypeOK, WorkerTypes, HistoryTypes, Job
    <3>2. IsFiniteSet(exposed[q]) /\ Cardinality(exposed[q]) \in Nat
      BY <3>1, TokensFinite
    <3>. QED
      BY <2>1, <3>2, FS_RemoveElement
  <2>3. \A r \in Rows \ {q} : exposed'[r] = exposed[r] /\ (Open(r)' <=> Open(r))
    BY <2>1 DEF Open, Typed, TypeOK, WorkerTypes, HistoryTypes, Job
  <2>4. ASSUME NEW r \in Rows
        PROVE  (Cardinality(exposed[r]) + (IF Open(r) THEN 1 ELSE 0)
                   <= 1 + confirmed[r] + dsns[r])'
    <3>1. CASE r = q
      <4>1. /\ Cardinality(exposed'[r]) = Cardinality(exposed[r]) - 1
            /\ Cardinality(exposed[r]) \in Nat
        BY <2>1, <2>2, <3>1 DEF Typed, TypeOK, WorkerTypes, HistoryTypes, Job
      <4>2. Cardinality(exposed[r]) <= 1 + confirmed[r] + dsns[r]
        BY <4>1 DEF Budget, Typed, TypeOK, WorkerTypes, HistoryTypes, Job
      <4>3. (IF Open(r) THEN 1 ELSE 0)' \in {0, 1}
        OBVIOUS
      <4>. QED
        BY <2>1, <4>1, <4>2, <4>3
        DEF Typed, TypeOK, WorkerTypes, HistoryTypes, Job
    <3>2. CASE r # q
      BY <2>1, <2>3, <3>2
      DEF Budget, Typed, TypeOK, WorkerTypes, HistoryTypes, Job
    <3>. QED
      BY <3>1, <3>2
  <2>. QED
    BY <2>4 DEF Budget
<1>12. ASSUME NEW w \in Workers, FinalizeClaim(w) PROVE Budget'
  <2> DEFINE q == job[w].row
             r == result[w]
  <2>1. /\ status' = [status EXCEPT ![q] = r] /\ q \in Rows
        /\ UNCHANGED <<claimToken, exposed, confirmed, dsns>>
    BY <1>12, FinalizeFacts DEF FinalizeClaim, historyVars, requestVars
  <2>2. Open(q) \/ r \in {"sent", "result_unknown"}
    BY <1>12
    DEF Phase, Unexposed, Open, FinalizeClaim, Owns, Typed, TypeOK, RowTypes,
        WorkerTypes, HistoryTypes, Job
  <2>3. \A p \in Rows : Open(p)' => Open(p)
    BY <2>1, <2>2
    DEF Open, Typed, TypeOK, RowTypes, WorkerTypes, HistoryTypes, Job
  <2>. QED
    BY <2>1, <2>3, TypedStep, BudgetKept
    DEF Typed, TypeOK, RowTypes, WorkerTypes, HistoryTypes, Job
<1>13. ASSUME NEW w \in Workers, RecoverExpired(w) PROVE Budget'
  <2> DEFINE q == job[w].row
  <2>1. /\ status' = [status EXCEPT ![q] = "result_unknown"] /\ q \in Rows
        /\ UNCHANGED <<claimToken, exposed, confirmed, dsns>>
    BY <1>13, FinalizeFacts DEF RecoverExpired, historyVars, requestVars
  <2>2. \A p \in Rows : Open(p)' => Open(p)
    BY <2>1 DEF Open, Typed, TypeOK, RowTypes, WorkerTypes, HistoryTypes, Job
  <2>. QED
    BY <2>1, <2>2, TypedStep, BudgetKept
    DEF Typed, TypeOK, RowTypes, WorkerTypes, HistoryTypes, Job
<1>14. ASSUME NEW w \in Workers, DeferForQuota(w) PROVE Budget'
  BY <1>14
  DEF Fresh, Phase, Unexposed, Budget, Open, Typed, TypeOK, RowTypes,
      WorkerTypes, HistoryTypes, Job, rowVars, historyVars, requestVars,
      DeferForQuota, Owns, Drop, NoJob
<1>15. ASSUME NEW q \in Rows, NEW confirm \in BOOLEAN,
       Retry(q, confirm)
     PROVE  Budget'
  <2>1. /\ UNCHANGED <<exposed, dsns>>
        /\ \A p \in Rows \ {q} : status'[p] = status[p] /\ claimToken'[p] = claimToken[p]
                                 /\ confirmed'[p] = confirmed[p]
        /\ confirmed'[q] >= confirmed[q]
        /\ status[q] = "result_unknown" => confirmed'[q] = confirmed[q] + 1
        /\ status[q] \in {"failed", "blocked", "retry_pending", "result_unknown"}
    BY <1>15
    DEF Retry, MayRetry, historyVars, Typed, TypeOK, RowTypes, WorkerTypes,
        HistoryTypes, Job
  <2>2. \A p \in Rows \ {q} : Open(p)' <=> Open(p)
    BY <2>1 DEF Open
  <2>3. Open(q) \/ confirmed'[q] = confirmed[q] + 1
    BY <2>1 DEF Open
  <2>4. /\ confirmed \in [Rows -> Nat] /\ confirmed' \in [Rows -> Nat]
        /\ dsns \in [Rows -> Nat] /\ Typed'
    BY TypedStep DEF Typed, TypeOK, RowTypes, WorkerTypes, HistoryTypes, Job
  <2>. QED
    BY <2>1, <2>2, <2>3, <2>4, BudgetKept
<1>16. ASSUME NEW q \in Rows, SenderRetry(q) PROVE Budget'
  BY <1>16
  DEF Fresh, Phase, Unexposed, Budget, Open, Typed, TypeOK, RowTypes,
      WorkerTypes, HistoryTypes, Job, rowVars, historyVars, requestVars,
      SenderRetry
<1>17. ASSUME NEW q \in Rows, NEW a \in {"failed", "delayed", "delivered"},
       RecordFeedback(q, a)
     PROVE  Budget'
  <2>1. /\ UNCHANGED <<exposed, confirmed, claimToken>>
        /\ dsns' = [dsns EXCEPT ![q] = @ + 1]
        /\ \A p \in Rows \ {q} : status'[p] = status[p]
    BY <1>17
    DEF RecordFeedback, historyVars, rowVars, Typed, TypeOK, RowTypes,
        WorkerTypes, HistoryTypes, Job
  <2>2. \A p \in Rows \ {q} : Open(p)' <=> Open(p)
    BY <2>1 DEF Open
  <2>3. /\ confirmed \in [Rows -> Nat] /\ dsns \in [Rows -> Nat] /\ Typed'
    BY TypedStep DEF Typed, TypeOK, RowTypes, WorkerTypes, HistoryTypes, Job
  <2>. QED
    BY <2>1, <2>2, <2>3, BudgetKept
<1>18. CASE UNCHANGED vars
  BY <1>18
  DEF Fresh, Phase, Unexposed, Budget, Open, vars, rowVars, historyVars,
      requestVars
<1>19. ASSUME NEW w \in Workers, WorkerStep(w) PROVE Budget'
  BY <1>19, <1>2, <1>5, <1>6, <1>10, <1>11, <1>12, <1>13, <1>14 DEF WorkerStep
<1>. QED
  BY <1>1, <1>2, <1>3, <1>4, <1>5, <1>7, <1>8, <1>9, <1>15, <1>16, <1>17, <1>18,
     <1>19
  DEF Next


\* A row has a copy when one of its claims was accepted.
LEMMA AcceptedCopy ==
  ASSUME Typed, Backed, NEW q \in Rows, NEW t \in acceptedBy[q]
  PROVE  copies[q] > 0
<1>1. acceptedBy[q] \in SUBSET Token /\ acceptedBy[q] # {}
  BY DEF Typed, TypeOK, HistoryTypes
<1>2. Cardinality(acceptedBy[q]) # 0
  BY <1>1, TokensFinite, FS_EmptySet
<1>. QED
  BY <1>1, <1>2, TokensFinite DEF Backed

\* A recorded attempt uses the reserve of its row, and only a result below
\* max_retry_count gives it back.
LEMMA AttemptsStep ==
  Typed /\ Snapshot /\ RetryResult /\ Attempts /\ [Next]_vars => Attempts'
<1> SUFFICES ASSUME Typed, Snapshot, RetryResult, Attempts, [Next]_vars PROVE Attempts'
  OBVIOUS
<1> USE SetsAssumption, BoundsAssumption, NoJobType
<1>1. CASE \/ \E q \in Rows : Enqueue(q)
          \/ \E o \in Origins : ApplyRecipient(o)
  BY <1>1
  DEF Snapshot, KnowsClaim, RetryResult, Attempts, Typed, TypeOK, RowTypes,
      WorkerTypes, HistoryTypes, Job, rowVars, requestVars, Enqueue, Insert,
      EnqueueStatus, ApplyRecipient
<1>2. ASSUME NEW w \in Workers,
       \/ Abandon(w) \/ GiveUp(w) \/ RecordRefused(w)
     PROVE  Attempts'
  <2>1. Dropped(w)
    BY <1>2, DropSteps
  <2>2. /\ UNCHANGED <<status, attemptCount, manual, dsns>>
    BY <2>1, DropFacts, NoJobType
  <2>. QED
    BY <2>2
    DEF Snapshot, KnowsClaim, RetryResult, Attempts, Typed, TypeOK, RowTypes,
        WorkerTypes, HistoryTypes, Job
<1>3. ASSUME NEW q \in Rows,
       \/ BecomeDue(q) \/ LeaseExpires(q)
     PROVE  Attempts'
  BY <1>3
  DEF Snapshot, KnowsClaim, RetryResult, Attempts, rowVars, requestVars,
      BecomeDue, LeaseExpires
<1>4. ASSUME NEW w \in Workers, NEW q \in Rows, FindExpired(w, q)
      PROVE  Attempts'
  BY <1>4
  DEF Snapshot, KnowsClaim, RetryResult, Attempts, rowVars, requestVars,
      FindExpired
<1>5. ASSUME NEW w \in Workers,
       \/ KeeperLosesClaim(w) \/ StartPrepare(w) \/ Prepare(w)
       \/ Reserve(w) \/ Dial(w) \/ EnterData(w)
     PROVE  Attempts'
  BY <1>5
  DEF Snapshot, KnowsClaim, RetryResult, Attempts, rowVars, requestVars,
      KeeperLosesClaim, StartPrepare, Prepare, localUnchanged, Reserve, Dial,
      EnterData, Conclude
<1>6. ASSUME NEW w \in Workers,
       \/ EnterPayload(w) \/ RefusedBeforeData(w) \/ PayloadRefused(w)
       \/ PayloadAccepted(w) \/ PayloadLost(w)
     PROVE  Attempts'
  BY <1>6
  DEF Snapshot, KnowsClaim, RetryResult, Attempts, rowVars, requestVars,
      EnterPayload, localUnchanged, RefusedBeforeData, PayloadRefused,
      PayloadAccepted, PayloadLost, Refused, Conclude
<1>7. CASE ProviderChanges
  BY <1>7
  DEF Snapshot, KnowsClaim, RetryResult, Attempts, rowVars, requestVars,
      ProviderChanges
<1>8. CASE NewDay
  BY <1>8
  DEF Snapshot, KnowsClaim, RetryResult, Attempts, rowVars, requestVars, NewDay
<1>9. ASSUME NEW w \in Workers, NEW q \in Rows, Claim(w, q) PROVE Attempts'
  BY <1>9
  DEF Snapshot, KnowsClaim, RetryResult, Attempts, Typed, TypeOK, RowTypes,
      WorkerTypes, HistoryTypes, Job, rowVars, requestVars, Claim
<1>10. ASSUME NEW w \in Workers, FinalizeClaim(w) PROVE Attempts'
  <2> DEFINE q == job[w].row
             r == result[w]
  <2>1. /\ status' = [status EXCEPT ![q] = r] /\ q \in Rows
        /\ attemptCount' = [attemptCount EXCEPT ![q] = job[w].attempts + 1]
        /\ UNCHANGED <<manual, dsns>>
    BY <1>10, FinalizeFacts DEF FinalizeClaim, requestVars
  <2>2. /\ status[q] = "processing" /\ job[w].attempts = attemptCount[q]
        /\ r # "processing" /\ r \in Result
        /\ r = "retry_pending" => job[w].attempts + 1 < MaxRetry
    BY <1>10
    DEF Snapshot, KnowsClaim, RetryResult, FinalizeClaim, Owns, StillLapsed,
        Lapsed, Typed, TypeOK, WorkerTypes, HistoryTypes, Job
  <2>. QED
    BY <2>1, <2>2
    DEF Attempts, Typed, TypeOK, RowTypes, WorkerTypes, HistoryTypes
<1>11. ASSUME NEW w \in Workers, RecoverExpired(w) PROVE Attempts'
  <2> DEFINE q == job[w].row
             r == "result_unknown"
  <2>1. /\ status' = [status EXCEPT ![q] = r] /\ q \in Rows
        /\ attemptCount' = [attemptCount EXCEPT ![q] = job[w].attempts + 1]
        /\ UNCHANGED <<manual, dsns>>
    BY <1>11, FinalizeFacts DEF RecoverExpired, requestVars
  <2>2. /\ status[q] = "processing" /\ job[w].attempts = attemptCount[q]
        /\ r # "processing" /\ r \in Result
        /\ r = "retry_pending" => job[w].attempts + 1 < MaxRetry
    BY <1>11
    DEF Snapshot, KnowsClaim, RetryResult, RecoverExpired, Owns, StillLapsed,
        Lapsed, Typed, TypeOK, WorkerTypes, HistoryTypes, Job
  <2>. QED
    BY <2>1, <2>2
    DEF Attempts, Typed, TypeOK, RowTypes, WorkerTypes, HistoryTypes
<1>12. ASSUME NEW w \in Workers, DeferForQuota(w) PROVE Attempts'
  BY <1>12
  DEF Snapshot, KnowsClaim, RetryResult, Attempts, Typed, TypeOK, RowTypes,
      WorkerTypes, HistoryTypes, Job, rowVars, requestVars, DeferForQuota, Owns,
      Drop, NoJob
<1>13. ASSUME NEW q \in Rows, NEW confirm \in BOOLEAN,
       Retry(q, confirm)
     PROVE  Attempts'
  BY <1>13
  DEF Snapshot, KnowsClaim, RetryResult, Attempts, Typed, TypeOK, RowTypes,
      WorkerTypes, HistoryTypes, Job, rowVars, requestVars, Retry, MayRetry
<1>14. ASSUME NEW q \in Rows, SenderRetry(q) PROVE Attempts'
  BY <1>14
  DEF Snapshot, KnowsClaim, RetryResult, Attempts, Typed, TypeOK, RowTypes,
      WorkerTypes, HistoryTypes, Job, rowVars, requestVars, SenderRetry
<1>15. ASSUME NEW q \in Rows, NEW a \in {"failed", "delayed", "delivered"},
       RecordFeedback(q, a)
     PROVE  Attempts'
  BY <1>15
  DEF Snapshot, KnowsClaim, RetryResult, Attempts, Typed, TypeOK, RowTypes,
      WorkerTypes, HistoryTypes, Job, rowVars, requestVars, RecordFeedback,
      DsnStatus
<1>16. CASE UNCHANGED vars
  BY <1>16
  DEF Snapshot, KnowsClaim, RetryResult, Attempts, vars, rowVars, requestVars
<1>17. ASSUME NEW w \in Workers, WorkerStep(w) PROVE Attempts'
  BY <1>17, <1>2, <1>5, <1>6, <1>10, <1>11, <1>12 DEF WorkerStep
<1>. QED
  BY <1>1, <1>2, <1>3, <1>4, <1>5, <1>7, <1>8, <1>9, <1>13, <1>14, <1>15, <1>16,
     <1>17
  DEF Next

\* deliver_claimed compares the attempt it makes with max_retry_count.
LEMMA RetryResultStep == Typed /\ RetryResult /\ [Next]_vars => RetryResult'
<1> SUFFICES ASSUME Typed, RetryResult, [Next]_vars PROVE RetryResult'
  OBVIOUS
<1> USE SetsAssumption, BoundsAssumption, NoJobType
<1>1. ASSUME NEW w \in Workers,
       \/ Abandon(w) \/ GiveUp(w) \/ RecordRefused(w)
     PROVE  RetryResult'
  <2>1. Dropped(w)
    BY <1>1, DropSteps
  <2>2. /\ pc' = [pc EXCEPT ![w] = "idle"]
        /\ job' = [job EXCEPT ![w] = NoJob]
        /\ NoJob.token < nextToken /\ NoJob \in Job
        /\ result' = [result EXCEPT ![w] = "none"]
    BY <2>1, DropFacts, NoJobType
  <2>. QED
    BY <2>2
    DEF RetryResult, Typed, TypeOK, RowTypes, WorkerTypes, HistoryTypes, Job
<1>2. ASSUME NEW w \in Workers,
       \/ StartPrepare(w) \/ Dial(w) \/ EnterData(w)
     PROVE  RetryResult'
  BY <1>2
  DEF RetryResult, Typed, TypeOK, RowTypes, WorkerTypes, HistoryTypes, Job,
      workerVars, StartPrepare, Dial, localUnchanged, EnterData
<1>3. ASSUME NEW q \in Rows,
       \/ Enqueue(q) \/ BecomeDue(q) \/ LeaseExpires(q) \/ SenderRetry(q)
     PROVE  RetryResult'
  BY <1>3
  DEF RetryResult, workerVars, Enqueue, Insert, BecomeDue, LeaseExpires,
      SenderRetry
<1>4. ASSUME NEW o \in Origins, ApplyRecipient(o) PROVE RetryResult'
  BY <1>4 DEF RetryResult, workerVars, ApplyRecipient, Insert
<1>5. ASSUME NEW w \in Workers, KeeperLosesClaim(w) PROVE RetryResult'
  BY <1>5 DEF RetryResult, workerVars, KeeperLosesClaim
<1>6. ASSUME NEW q \in Rows, NEW confirm \in BOOLEAN,
       Retry(q, confirm)
     PROVE  RetryResult'
  BY <1>6 DEF RetryResult, workerVars, Retry
<1>7. ASSUME NEW q \in Rows, NEW a \in {"failed", "delayed", "delivered"},
       RecordFeedback(q, a)
     PROVE  RetryResult'
  BY <1>7 DEF RetryResult, workerVars, RecordFeedback
<1>8. CASE ProviderChanges
  BY <1>8 DEF RetryResult, workerVars, ProviderChanges
<1>9. CASE NewDay
  BY <1>9 DEF RetryResult, workerVars, NewDay
<1>10. ASSUME NEW w \in Workers, NEW q \in Rows, Claim(w, q) PROVE RetryResult'
  BY <1>10
  DEF RetryResult, Typed, TypeOK, RowTypes, WorkerTypes, HistoryTypes, Job,
      workerVars, Claim
<1>11. ASSUME NEW w \in Workers, NEW q \in Rows, FindExpired(w, q)
       PROVE  RetryResult'
  BY <1>11
  DEF RetryResult, Typed, TypeOK, RowTypes, WorkerTypes, HistoryTypes, Job,
      workerVars, FindExpired, Lapsed
<1>12. ASSUME NEW w \in Workers, Prepare(w) PROVE RetryResult'
  BY <1>12
  DEF RetryResult, Typed, TypeOK, RowTypes, WorkerTypes, HistoryTypes, Job,
      workerVars, Prepare, Conclude, localUnchanged
<1>13. ASSUME NEW w \in Workers, Reserve(w) PROVE RetryResult'
  BY <1>13
  DEF RetryResult, Typed, TypeOK, RowTypes, WorkerTypes, HistoryTypes, Job,
      workerVars, Reserve, Conclude, localUnchanged
<1>14. ASSUME NEW w \in Workers, EnterPayload(w) PROVE RetryResult'
  BY <1>14
  DEF RetryResult, Typed, TypeOK, RowTypes, WorkerTypes, HistoryTypes, Job,
      workerVars, EnterPayload, CheckOwner, Owns, localUnchanged
<1>15. ASSUME NEW w \in Workers, RefusedBeforeData(w) PROVE RetryResult'
  BY <1>15
  DEF RetryResult, Typed, TypeOK, RowTypes, WorkerTypes, HistoryTypes, Job,
      workerVars, RefusedBeforeData, Refused, Conclude, TransientResult,
      localUnchanged
<1>16. ASSUME NEW w \in Workers, PayloadRefused(w) PROVE RetryResult'
  BY <1>16
  DEF RetryResult, Typed, TypeOK, RowTypes, WorkerTypes, HistoryTypes, Job,
      workerVars, PayloadRefused, Refused, Conclude, TransientResult,
      localUnchanged
<1>17. ASSUME NEW w \in Workers, PayloadAccepted(w) PROVE RetryResult'
  BY <1>17
  DEF RetryResult, Typed, TypeOK, RowTypes, WorkerTypes, HistoryTypes, Job,
      workerVars, PayloadAccepted, LostReply, Conclude, localUnchanged
<1>18. ASSUME NEW w \in Workers, PayloadLost(w) PROVE RetryResult'
  BY <1>18
  DEF RetryResult, Typed, TypeOK, RowTypes, WorkerTypes, HistoryTypes, Job,
      workerVars, PayloadLost, LostReply, Conclude, localUnchanged
<1>19. ASSUME NEW w \in Workers, FinalizeClaim(w) PROVE RetryResult'
  BY <1>19
  DEF RetryResult, Typed, TypeOK, RowTypes, WorkerTypes, HistoryTypes, Job,
      workerVars, FinalizeClaim, Finalize, Owns, Reconcile, Drop, NoJob
<1>20. ASSUME NEW w \in Workers, RecoverExpired(w) PROVE RetryResult'
  BY <1>20
  DEF RetryResult, Typed, TypeOK, RowTypes, WorkerTypes, HistoryTypes, Job,
      workerVars, RecoverExpired, StillLapsed, Lapsed, Finalize, Reconcile,
      Drop, NoJob
<1>21. ASSUME NEW w \in Workers, DeferForQuota(w) PROVE RetryResult'
  BY <1>21
  DEF RetryResult, Typed, TypeOK, RowTypes, WorkerTypes, HistoryTypes, Job,
      workerVars, DeferForQuota, Owns, Drop, NoJob
<1>22. CASE UNCHANGED vars
  BY <1>22 DEF RetryResult, vars, workerVars
<1>23. ASSUME NEW w \in Workers, WorkerStep(w) PROVE RetryResult'
  BY <1>23, <1>1, <1>2, <1>12, <1>13, <1>14, <1>15, <1>16, <1>17, <1>18, <1>19,
     <1>20, <1>21
  DEF WorkerStep
<1>. QED
  BY <1>1, <1>3, <1>4, <1>5, <1>6, <1>7, <1>8, <1>9, <1>10, <1>11, <1>22, <1>23
  DEF Next

\* The reconciliation only sees sent forwards, and a sent forward has a copy.
LEMMA ForwardTakenStep ==
  Typed /\ Phase /\ Backed /\ ForwardTaken /\ [Next]_vars => ForwardTaken'
<1> SUFFICES ASSUME Typed, Phase, Backed, ForwardTaken, [Next]_vars PROVE ForwardTaken'
  OBVIOUS
<1> USE SetsAssumption, BoundsAssumption, NoJobType
<1>1. ASSUME NEW o \in Origins, ApplyRecipient(o) PROVE ForwardTaken'
  BY <1>1
  DEF Phase, Backed, ForwardTaken, Typed, TypeOK, RowTypes, WorkerTypes,
      HistoryTypes, LogTypes, Job, forwardVars, historyVars, ApplyRecipient,
      Insert, EnqueueStatus
<1>2. ASSUME NEW w \in Workers,
       \/ Abandon(w) \/ GiveUp(w) \/ RecordRefused(w)
     PROVE  ForwardTaken'
  <2>1. Dropped(w)
    BY <1>2, DropSteps
  <2>2. /\ UNCHANGED <<forwarded, deleted, copies>>
    BY <2>1, DropFacts, NoJobType
  <2>. QED
    BY <2>2
    DEF Phase, Backed, ForwardTaken, Typed, TypeOK, RowTypes, WorkerTypes,
        HistoryTypes, LogTypes, Job
<1>3. ASSUME NEW q \in Rows,
       \/ Enqueue(q) \/ BecomeDue(q) \/ LeaseExpires(q) \/ SenderRetry(q)
     PROVE  ForwardTaken'
  BY <1>3
  DEF Phase, Backed, ForwardTaken, forwardVars, historyVars, Enqueue, Insert,
      BecomeDue, LeaseExpires, SenderRetry
<1>4. CASE \/ \E w \in Workers, q \in Rows : Claim(w, q)
          \/ \E w \in Workers, q \in Rows : FindExpired(w, q)
  BY <1>4
  DEF Phase, Backed, ForwardTaken, forwardVars, historyVars, Claim, FindExpired
<1>5. ASSUME NEW w \in Workers,
       \/ KeeperLosesClaim(w) \/ StartPrepare(w) \/ Prepare(w)
       \/ Reserve(w) \/ Dial(w) \/ EnterData(w)
     PROVE  ForwardTaken'
  BY <1>5
  DEF Phase, Backed, ForwardTaken, forwardVars, historyVars, KeeperLosesClaim,
      StartPrepare, Prepare, localUnchanged, Reserve, Dial, EnterData, Conclude
<1>6. ASSUME NEW w \in Workers,
       \/ EnterPayload(w) \/ RefusedBeforeData(w) \/ PayloadRefused(w)
       \/ PayloadLost(w) \/ DeferForQuota(w)
     PROVE  ForwardTaken'
  BY <1>6
  DEF Phase, Backed, ForwardTaken, forwardVars, historyVars, EnterPayload,
      localUnchanged, RefusedBeforeData, PayloadRefused, PayloadLost,
      DeferForQuota, Drop, Refused, Conclude
<1>7. ASSUME NEW q \in Rows, NEW confirm \in BOOLEAN,
       Retry(q, confirm)
     PROVE  ForwardTaken'
  BY <1>7 DEF Phase, Backed, ForwardTaken, forwardVars, historyVars, Retry
<1>8. ASSUME NEW q \in Rows, NEW a \in {"failed", "delayed", "delivered"},
       RecordFeedback(q, a)
     PROVE  ForwardTaken'
  BY <1>8
  DEF Phase, Backed, ForwardTaken, forwardVars, historyVars, RecordFeedback
<1>9. CASE ProviderChanges
  BY <1>9
  DEF Phase, Backed, ForwardTaken, forwardVars, historyVars, ProviderChanges
<1>10. CASE NewDay
  BY <1>10 DEF Phase, Backed, ForwardTaken, forwardVars, historyVars, NewDay
<1>11. ASSUME NEW w \in Workers, PayloadAccepted(w) PROVE ForwardTaken'
  <2>1. /\ \A q \in Rows : copies[q] \in Nat /\ copies'[q] >= copies[q]
        /\ \A q \in Rows : copies'[q] \in Nat
        /\ UNCHANGED <<forwarded, deleted>>
    BY <1>11
    DEF PayloadAccepted, localUnchanged, forwardVars, Typed, TypeOK,
        WorkerTypes, HistoryTypes, Job
  <2>2. deleted \subseteq Origins
    BY DEF Typed, TypeOK, LogTypes
  <2>. QED
    BY <2>1, <2>2 DEF ForwardTaken
<1>12. ASSUME NEW w \in Workers, FinalizeClaim(w) PROVE ForwardTaken'
  <2> DEFINE q == job[w].row
  <2>1. /\ q \in Rows
        /\ \A p \in Rows \ {q} : forwarded'[p] = forwarded[p]
        /\ forwarded'[q] \in {forwarded[q], result[w]}
        /\ \A o \in deleted' \ deleted : \A p \in Rows : OriginOf[p] = o => forwarded'[p] = "sent"
        /\ copies' = copies
    BY <1>12
    DEF FinalizeClaim, Finalize, Reconcile, historyVars, LogTypes, Typed,
        TypeOK, WorkerTypes, HistoryTypes, Job
  <2>2. result[w] = "sent" => copies[q] > 0
    BY <1>12, <2>1, AcceptedCopy DEF FinalizeClaim, Phase
  <2>3. \A p \in Rows : forwarded'[p] = "sent" => copies[p] > 0
    BY <2>1, <2>2 DEF ForwardTaken
  <2>. QED
    BY <2>1, <2>3 DEF ForwardTaken
<1>13. ASSUME NEW w \in Workers, RecoverExpired(w) PROVE ForwardTaken'
  BY <1>13
  DEF Phase, Backed, ForwardTaken, Typed, TypeOK, RowTypes, WorkerTypes,
      HistoryTypes, LogTypes, Job, forwardVars, historyVars, RecoverExpired,
      StillLapsed, Lapsed, Finalize, Reconcile, Drop, NoJob
<1>14. CASE UNCHANGED vars
  BY <1>14 DEF Phase, Backed, ForwardTaken, vars, forwardVars, historyVars
<1>15. ASSUME NEW w \in Workers, WorkerStep(w) PROVE ForwardTaken'
  BY <1>15, <1>2, <1>5, <1>6, <1>11, <1>12, <1>13 DEF WorkerStep
<1>. QED
  BY <1>1, <1>2, <1>3, <1>4, <1>5, <1>7, <1>8, <1>9, <1>10, <1>14, <1>15
  DEF Next

\* A worker records sent after an acceptance, a server reports on a copy it has.
LEMMA SentStep ==
  Typed /\ Phase /\ Backed /\ SentWasAccepted /\ [Next]_vars => SentWasAccepted'
<1> SUFFICES ASSUME Typed, Phase, Backed, SentWasAccepted, [Next]_vars PROVE SentWasAccepted'
  OBVIOUS
<1> USE SetsAssumption, BoundsAssumption, NoJobType
<1>1. CASE \/ \E q \in Rows : Enqueue(q)
          \/ \E o \in Origins : ApplyRecipient(o)
  BY <1>1
  DEF Phase, Backed, SentWasAccepted, Typed, TypeOK, RowTypes, WorkerTypes,
      HistoryTypes, Job, rowVars, historyVars, Enqueue, Insert, EnqueueStatus,
      ApplyRecipient
<1>2. ASSUME NEW w \in Workers,
       \/ Abandon(w) \/ GiveUp(w) \/ RecordRefused(w)
     PROVE  SentWasAccepted'
  <2>1. Dropped(w)
    BY <1>2, DropSteps
  <2>2. /\ UNCHANGED <<status, copies>>
    BY <2>1, DropFacts, NoJobType
  <2>. QED
    BY <2>2
    DEF Phase, Backed, SentWasAccepted, Typed, TypeOK, RowTypes, WorkerTypes,
        HistoryTypes, Job
<1>3. ASSUME NEW q \in Rows,
       \/ BecomeDue(q) \/ LeaseExpires(q)
     PROVE  SentWasAccepted'
  BY <1>3
  DEF Phase, Backed, SentWasAccepted, rowVars, historyVars, BecomeDue,
      LeaseExpires
<1>4. ASSUME NEW w \in Workers, NEW q \in Rows, FindExpired(w, q)
      PROVE  SentWasAccepted'
  BY <1>4 DEF Phase, Backed, SentWasAccepted, rowVars, historyVars, FindExpired
<1>5. ASSUME NEW w \in Workers,
       \/ KeeperLosesClaim(w) \/ StartPrepare(w) \/ Prepare(w)
       \/ Reserve(w) \/ Dial(w) \/ EnterData(w)
     PROVE  SentWasAccepted'
  BY <1>5
  DEF Phase, Backed, SentWasAccepted, rowVars, historyVars, KeeperLosesClaim,
      StartPrepare, Prepare, localUnchanged, Reserve, Dial, EnterData, Conclude
<1>6. ASSUME NEW w \in Workers,
       \/ EnterPayload(w) \/ RefusedBeforeData(w) \/ PayloadRefused(w)
       \/ PayloadLost(w)
     PROVE  SentWasAccepted'
  BY <1>6
  DEF Phase, Backed, SentWasAccepted, rowVars, historyVars, EnterPayload,
      localUnchanged, RefusedBeforeData, PayloadRefused, PayloadLost, Refused,
      Conclude
<1>7. CASE ProviderChanges
  BY <1>7
  DEF Phase, Backed, SentWasAccepted, rowVars, historyVars, ProviderChanges
<1>8. CASE NewDay
  BY <1>8 DEF Phase, Backed, SentWasAccepted, rowVars, historyVars, NewDay
<1>9. ASSUME NEW w \in Workers, NEW q \in Rows, Claim(w, q)
      PROVE  SentWasAccepted'
  BY <1>9
  DEF Phase, Backed, SentWasAccepted, Typed, TypeOK, RowTypes, WorkerTypes,
      HistoryTypes, Job, rowVars, historyVars, Claim
<1>10. ASSUME NEW w \in Workers, PayloadAccepted(w) PROVE SentWasAccepted'
  BY <1>10
  DEF Phase, Backed, SentWasAccepted, Typed, TypeOK, RowTypes, WorkerTypes,
      HistoryTypes, Job, rowVars, historyVars, PayloadAccepted, LostReply,
      Conclude, localUnchanged
<1>11. ASSUME NEW w \in Workers, FinalizeClaim(w) PROVE SentWasAccepted'
  <2> DEFINE q == job[w].row
  <2>1. /\ status' = [status EXCEPT ![q] = result[w]] /\ q \in Rows
        /\ copies' = copies
    BY <1>11, FinalizeFacts DEF FinalizeClaim, historyVars
  <2>2. result[w] = "sent" => copies[q] > 0
    BY <1>11, <2>1, AcceptedCopy DEF FinalizeClaim, Phase
  <2>. QED
    BY <2>1, <2>2
    DEF SentWasAccepted, Typed, TypeOK, RowTypes, WorkerTypes, HistoryTypes
<1>12. ASSUME NEW w \in Workers, RecoverExpired(w) PROVE SentWasAccepted'
  BY <1>12
  DEF Phase, Backed, SentWasAccepted, Typed, TypeOK, RowTypes, WorkerTypes,
      HistoryTypes, Job, rowVars, historyVars, RecoverExpired, StillLapsed,
      Lapsed, Finalize, Reconcile, Drop, NoJob
<1>13. ASSUME NEW w \in Workers, DeferForQuota(w) PROVE SentWasAccepted'
  BY <1>13
  DEF Phase, Backed, SentWasAccepted, Typed, TypeOK, RowTypes, WorkerTypes,
      HistoryTypes, Job, rowVars, historyVars, DeferForQuota, Owns, Drop, NoJob
<1>14. ASSUME NEW q \in Rows, NEW confirm \in BOOLEAN,
       Retry(q, confirm)
     PROVE  SentWasAccepted'
  BY <1>14
  DEF Phase, Backed, SentWasAccepted, Typed, TypeOK, RowTypes, WorkerTypes,
      HistoryTypes, Job, rowVars, historyVars, Retry, MayRetry
<1>15. ASSUME NEW q \in Rows, SenderRetry(q) PROVE SentWasAccepted'
  BY <1>15
  DEF Phase, Backed, SentWasAccepted, Typed, TypeOK, RowTypes, WorkerTypes,
      HistoryTypes, Job, rowVars, historyVars, SenderRetry
<1>16. ASSUME NEW q \in Rows, NEW a \in {"failed", "delayed", "delivered"},
       RecordFeedback(q, a)
     PROVE  SentWasAccepted'
  BY <1>16
  DEF Phase, Backed, SentWasAccepted, Typed, TypeOK, RowTypes, WorkerTypes,
      HistoryTypes, Job, rowVars, historyVars, RecordFeedback, DsnStatus
<1>17. CASE UNCHANGED vars
  BY <1>17 DEF Phase, Backed, SentWasAccepted, vars, rowVars, historyVars
<1>18. ASSUME NEW w \in Workers, WorkerStep(w) PROVE SentWasAccepted'
  BY <1>18, <1>2, <1>5, <1>6, <1>10, <1>11, <1>12, <1>13 DEF WorkerStep
<1>. QED
  BY <1>1, <1>2, <1>3, <1>4, <1>5, <1>7, <1>8, <1>9, <1>14, <1>15, <1>16, <1>17,
     <1>18
  DEF Next

\* The attempt a claim records is the one after the last recorded.
LEMMA LogStep ==
  Typed /\ Snapshot /\ AttemptLogContiguous /\ [Next]_vars => AttemptLogContiguous'
<1> SUFFICES ASSUME Typed, Snapshot, AttemptLogContiguous, [Next]_vars PROVE AttemptLogContiguous'
  OBVIOUS
<1> USE SetsAssumption, BoundsAssumption, NoJobType
<1>1. ASSUME NEW w \in Workers,
       \/ Abandon(w) \/ GiveUp(w) \/ RecordRefused(w)
     PROVE  AttemptLogContiguous'
  <2>1. Dropped(w)
    BY <1>1, DropSteps
  <2>2. /\ UNCHANGED <<attemptCount, attemptLog>>
    BY <2>1, DropFacts, NoJobType
  <2>. QED
    BY <2>2
    DEF Snapshot, KnowsClaim, AttemptLogContiguous, Typed, TypeOK, RowTypes,
        WorkerTypes, HistoryTypes, LogTypes, Job
<1>2. ASSUME NEW q \in Rows,
       \/ Enqueue(q) \/ BecomeDue(q) \/ LeaseExpires(q) \/ SenderRetry(q)
     PROVE  AttemptLogContiguous'
  BY <1>2
  DEF Snapshot, KnowsClaim, AttemptLogContiguous, rowVars, Enqueue, Insert,
      BecomeDue, LeaseExpires, SenderRetry
<1>3. ASSUME NEW o \in Origins, ApplyRecipient(o) PROVE AttemptLogContiguous'
  BY <1>3
  DEF Snapshot, KnowsClaim, AttemptLogContiguous, rowVars, ApplyRecipient,
      Insert
<1>4. CASE \/ \E w \in Workers, q \in Rows : Claim(w, q)
          \/ \E w \in Workers, q \in Rows : FindExpired(w, q)
  BY <1>4
  DEF Snapshot, KnowsClaim, AttemptLogContiguous, rowVars, Claim, FindExpired
<1>5. ASSUME NEW w \in Workers,
       \/ KeeperLosesClaim(w) \/ StartPrepare(w) \/ Prepare(w)
       \/ Reserve(w) \/ Dial(w) \/ EnterData(w)
     PROVE  AttemptLogContiguous'
  BY <1>5
  DEF Snapshot, KnowsClaim, AttemptLogContiguous, rowVars, KeeperLosesClaim,
      StartPrepare, Prepare, localUnchanged, Reserve, Dial, EnterData, Conclude
<1>6. ASSUME NEW w \in Workers,
       \/ EnterPayload(w) \/ RefusedBeforeData(w) \/ PayloadRefused(w)
       \/ PayloadAccepted(w) \/ PayloadLost(w) \/ DeferForQuota(w)
     PROVE  AttemptLogContiguous'
  BY <1>6
  DEF Snapshot, KnowsClaim, AttemptLogContiguous, rowVars, EnterPayload,
      localUnchanged, RefusedBeforeData, PayloadRefused, PayloadAccepted,
      PayloadLost, DeferForQuota, Drop, Refused, Conclude
<1>7. ASSUME NEW q \in Rows, NEW confirm \in BOOLEAN,
       Retry(q, confirm)
     PROVE  AttemptLogContiguous'
  BY <1>7 DEF Snapshot, KnowsClaim, AttemptLogContiguous, rowVars, Retry
<1>8. ASSUME NEW q \in Rows, NEW a \in {"failed", "delayed", "delivered"},
       RecordFeedback(q, a)
     PROVE  AttemptLogContiguous'
  BY <1>8
  DEF Snapshot, KnowsClaim, AttemptLogContiguous, rowVars, RecordFeedback
<1>9. CASE ProviderChanges
  BY <1>9
  DEF Snapshot, KnowsClaim, AttemptLogContiguous, rowVars, ProviderChanges
<1>10. CASE NewDay
  BY <1>10 DEF Snapshot, KnowsClaim, AttemptLogContiguous, rowVars, NewDay
<1>11. ASSUME NEW w \in Workers, FinalizeClaim(w) PROVE AttemptLogContiguous'
  <2> DEFINE q == job[w].row
             n == attemptCount[q] + 1
  <2>1. /\ q \in Rows /\ attemptCount[q] \in Nat /\ attemptLog[q] \in Seq(Nat)
        /\ job[w].attempts = attemptCount[q]
    BY <1>11
    DEF Snapshot, KnowsClaim, FinalizeClaim, Owns, StillLapsed, Lapsed,
        RowTypes, LogTypes, Typed, TypeOK, WorkerTypes, HistoryTypes, Job
  <2>2. /\ attemptCount' = [attemptCount EXCEPT ![q] = n]
        /\ attemptLog' = [attemptLog EXCEPT ![q] = Append(@, n)]
    BY <1>11, <2>1 DEF FinalizeClaim, Finalize
  <2>3. /\ Len(Append(attemptLog[q], n)) = n
        /\ \A k \in 1..n : Append(attemptLog[q], n)[k] = k
    BY <2>1 DEF AttemptLogContiguous
  <2>. QED
    BY <2>1, <2>2, <2>3
    DEF AttemptLogContiguous, RowTypes, LogTypes, Typed, TypeOK
<1>12. ASSUME NEW w \in Workers, RecoverExpired(w) PROVE AttemptLogContiguous'
  <2> DEFINE q == job[w].row
             n == attemptCount[q] + 1
  <2>1. /\ q \in Rows /\ attemptCount[q] \in Nat /\ attemptLog[q] \in Seq(Nat)
        /\ job[w].attempts = attemptCount[q]
    BY <1>12
    DEF Snapshot, KnowsClaim, RecoverExpired, Owns, StillLapsed, Lapsed,
        RowTypes, LogTypes, Typed, TypeOK, WorkerTypes, HistoryTypes, Job
  <2>2. /\ attemptCount' = [attemptCount EXCEPT ![q] = n]
        /\ attemptLog' = [attemptLog EXCEPT ![q] = Append(@, n)]
    BY <1>12, <2>1 DEF RecoverExpired, Finalize
  <2>3. /\ Len(Append(attemptLog[q], n)) = n
        /\ \A k \in 1..n : Append(attemptLog[q], n)[k] = k
    BY <2>1 DEF AttemptLogContiguous
  <2>. QED
    BY <2>1, <2>2, <2>3
    DEF AttemptLogContiguous, RowTypes, LogTypes, Typed, TypeOK
<1>13. CASE UNCHANGED vars
  BY <1>13 DEF Snapshot, KnowsClaim, AttemptLogContiguous, vars, rowVars
<1>14. ASSUME NEW w \in Workers, WorkerStep(w) PROVE AttemptLogContiguous'
  BY <1>14, <1>1, <1>5, <1>6, <1>11, <1>12 DEF WorkerStep
<1>. QED
  BY <1>1, <1>2, <1>3, <1>4, <1>5, <1>7, <1>8, <1>9, <1>10, <1>13, <1>14
  DEF Next


\* The workers that hold a reservation and have not connected yet, and what the
\* connections of the day may add up to: midnight leaves at most one reservation
\* of the day before to each worker.
Dialing == {w \in Workers : pc[w] = "dial"}

QuotaBudget ==
    /\ Limit > 0 => usage <= Limit
    /\ dialled + Cardinality(Dialing) <= usage + Cardinality(Workers)

\* Workers are finitely many, and so are those about to connect.
LEMMA DialingFinite ==
  /\ IsFiniteSet(Dialing) /\ Cardinality(Dialing) \in Nat
  /\ Cardinality(Workers) \in Nat
  /\ Cardinality(Dialing) <= Cardinality(Workers)
<1>1. Dialing \subseteq Workers
  BY DEF Dialing
<1>. QED
  BY <1>1, SetsAssumption, FS_Subset, FS_CardinalityType

\* A step that neither reserves nor connects keeps the quota's budget.
LEMMA QuotaKept ==
  ASSUME Typed, QuotaBudget, Dialing' \subseteq Dialing,
         usage' = usage, dialled' = dialled
  PROVE  QuotaBudget'
<1>1. Cardinality(Dialing') <= Cardinality(Dialing) /\ Cardinality(Dialing') \in Nat
  BY DialingFinite, FS_Subset, FS_CardinalityType
<1>. QED
  BY <1>1, DialingFinite DEF QuotaBudget, Typed, TypeOK, SettingTypes

\* Only reserve_attempt spends the quota, and each connection follows one.
LEMMA QuotaStep == Typed /\ QuotaBudget /\ [Next]_vars => QuotaBudget'
<1> SUFFICES ASSUME Typed, QuotaBudget, [Next]_vars PROVE QuotaBudget'
  OBVIOUS
<1> USE SetsAssumption, BoundsAssumption, NoJobType
<1>1. ASSUME NEW w \in Workers, NEW q \in Rows, Claim(w, q) PROVE QuotaBudget'
  <2>1. Dialing' \subseteq Dialing /\ usage' = usage /\ dialled' = dialled
    BY <1>1 DEF Dialing, Typed, TypeOK, WorkerTypes, quotaVars, Claim
  <2>. QED
    BY <2>1, QuotaKept
<1>2. ASSUME NEW w \in Workers, NEW q \in Rows, FindExpired(w, q)
      PROVE  QuotaBudget'
  <2>1. Dialing' \subseteq Dialing /\ usage' = usage /\ dialled' = dialled
    BY <1>2 DEF Dialing, Typed, TypeOK, WorkerTypes, quotaVars, FindExpired
  <2>. QED
    BY <2>1, QuotaKept
<1>3. ASSUME NEW w \in Workers,
       \/ Abandon(w) \/ GiveUp(w) \/ RecordRefused(w)
     PROVE  QuotaBudget'
  <2>1. Dialing' \subseteq Dialing /\ usage' = usage /\ dialled' = dialled
    BY <1>3, DropSteps, DropFacts DEF Dialing, Typed, TypeOK, WorkerTypes
  <2>. QED
    BY <2>1, QuotaKept
<1>4. ASSUME NEW w \in Workers,
       \/ StartPrepare(w) \/ Prepare(w) \/ EnterData(w)
       \/ EnterPayload(w)
     PROVE  QuotaBudget'
  <2>1. Dialing' \subseteq Dialing /\ usage' = usage /\ dialled' = dialled
    BY <1>4
    DEF Dialing, Typed, TypeOK, WorkerTypes, quotaVars, StartPrepare, Prepare,
        Conclude, localUnchanged, EnterData, EnterPayload
  <2>. QED
    BY <2>1, QuotaKept
<1>5. ASSUME NEW w \in Workers,
       \/ RefusedBeforeData(w) \/ PayloadRefused(w) \/ PayloadAccepted(w)
       \/ PayloadLost(w)
     PROVE  QuotaBudget'
  <2>1. Dialing' \subseteq Dialing /\ usage' = usage /\ dialled' = dialled
    BY <1>5
    DEF Dialing, Typed, TypeOK, WorkerTypes, quotaVars, RefusedBeforeData,
        Refused, Conclude, localUnchanged, PayloadRefused, PayloadAccepted,
        PayloadLost
  <2>. QED
    BY <2>1, QuotaKept
<1>6. ASSUME NEW w \in Workers,
       \/ FinalizeClaim(w) \/ RecoverExpired(w) \/ DeferForQuota(w)
     PROVE  QuotaBudget'
  <2>1. Dialing' \subseteq Dialing /\ usage' = usage /\ dialled' = dialled
    BY <1>6
    DEF Dialing, Typed, TypeOK, WorkerTypes, quotaVars, FinalizeClaim, Finalize,
        Drop, RecoverExpired, DeferForQuota
  <2>. QED
    BY <2>1, QuotaKept
<1>7. ASSUME NEW q \in Rows,
       \/ Enqueue(q) \/ BecomeDue(q) \/ LeaseExpires(q) \/ SenderRetry(q)
     PROVE  QuotaBudget'
  BY <1>7
  DEF QuotaBudget, Dialing, quotaVars, workerVars, Enqueue, Insert, BecomeDue,
      LeaseExpires, SenderRetry
<1>8. ASSUME NEW o \in Origins, ApplyRecipient(o) PROVE QuotaBudget'
  BY <1>8
  DEF QuotaBudget, Dialing, quotaVars, workerVars, ApplyRecipient, Insert
<1>9. ASSUME NEW w \in Workers, KeeperLosesClaim(w) PROVE QuotaBudget'
  BY <1>9 DEF QuotaBudget, Dialing, quotaVars, workerVars, KeeperLosesClaim
<1>10. ASSUME NEW q \in Rows, NEW confirm \in BOOLEAN,
       Retry(q, confirm)
     PROVE  QuotaBudget'
  BY <1>10 DEF QuotaBudget, Dialing, quotaVars, workerVars, Retry
<1>11. ASSUME NEW q \in Rows, NEW a \in {"failed", "delayed", "delivered"},
       RecordFeedback(q, a)
     PROVE  QuotaBudget'
  BY <1>11 DEF QuotaBudget, Dialing, quotaVars, workerVars, RecordFeedback
<1>12. CASE ProviderChanges
  BY <1>12 DEF QuotaBudget, Dialing, quotaVars, workerVars, ProviderChanges
<1>13. ASSUME NEW w \in Workers, Reserve(w) PROVE QuotaBudget'
  <2>1. CASE QuotaLeft /\ usage' = usage + 1 /\ pc' = [pc EXCEPT ![w] = "dial"]
    <3>1. Dialing' = Dialing \cup {w} /\ w \notin Dialing /\ dialled' = dialled
      BY <1>13, <2>1 DEF Reserve, Dialing, Typed, TypeOK, WorkerTypes
    <3>2. Cardinality(Dialing') = Cardinality(Dialing) + 1
      BY <3>1, DialingFinite, FS_AddElement
    <3>. QED
      BY <2>1, <3>1, <3>2, DialingFinite
      DEF QuotaBudget, QuotaLeft, Typed, TypeOK, SettingTypes
  <2>2. CASE Conclude(w, "quota_deferred") /\ usage' = usage
    <3>1. Dialing' \subseteq Dialing /\ dialled' = dialled
      BY <1>13, <2>2 DEF Reserve, Conclude, Dialing, Typed, TypeOK, WorkerTypes
    <3>. QED
      BY <2>2, <3>1, QuotaKept
  <2>. QED
    BY <1>13, <2>1, <2>2 DEF Reserve
<1>14. ASSUME NEW w \in Workers, Dial(w) PROVE QuotaBudget'
  <2>1. /\ Dialing' = Dialing \ {w} /\ w \in Dialing
        /\ dialled' = dialled + 1 /\ usage' = usage
    BY <1>14 DEF Dial, Dialing, Typed, TypeOK, WorkerTypes
  <2>2. Cardinality(Dialing') = Cardinality(Dialing) - 1
    BY <2>1, DialingFinite, FS_RemoveElement
  <2>. QED
    BY <2>1, <2>2, DialingFinite DEF QuotaBudget, Typed, TypeOK, SettingTypes
<1>15. CASE NewDay
  <2>1. Dialing' = Dialing /\ usage' = 0 /\ dialled' = 0
    BY <1>15 DEF NewDay, Dialing, workerVars
  <2>. QED
    BY <2>1, DialingFinite DEF QuotaBudget
<1>16. CASE UNCHANGED vars
  BY <1>16 DEF QuotaBudget, Dialing, vars, quotaVars, workerVars
<1>17. ASSUME NEW w \in Workers, WorkerStep(w) PROVE QuotaBudget'
  BY <1>17, <1>3, <1>4, <1>5, <1>6, <1>13, <1>14 DEF WorkerStep
<1>. QED
  BY <1>1, <1>2, <1>3, <1>7, <1>8, <1>9, <1>10, <1>11, <1>12, <1>15, <1>16,
     <1>17
  DEF Next


-----------------------------------------------------------------------------
(* The theorems.                                                           *)

\* The inductive invariant of the delivery queue.
IInv ==
    /\ Typed /\ Fresh /\ Snapshot /\ Phase /\ Backed /\ Budget
    /\ RetryResult /\ Attempts /\ ForwardTaken /\ SentWasAccepted
    /\ AttemptLogContiguous /\ QuotaBudget

\* It holds of an empty queue with idle workers ...
LEMMA InitIInv == Init => IInv
<1> SUFFICES ASSUME Init PROVE IInv
  OBVIOUS
<1> USE SetsAssumption, BoundsAssumption
<1>1. Typed
  BY NoJobType
  DEF Init, Typed, TypeOK, RowTypes, LogTypes, SettingTypes, WorkerTypes, 
     HistoryTypes, ResultSet
<1>2. Fresh /\ Snapshot /\ Phase
  BY DEF Init, NoJob, Fresh, Snapshot, KnowsClaim, Phase, Unexposed
<1>3. Backed /\ Budget
  BY FS_EmptySet DEF Init, Backed, Budget, Open
<1>4. RetryResult /\ Attempts /\ ForwardTaken /\ SentWasAccepted
  BY DEF Init, RetryResult, Attempts, ForwardTaken, SentWasAccepted
<1>5. AttemptLogContiguous
  BY DEF Init, AttemptLogContiguous
<1>6. QuotaBudget
  BY DialingFinite DEF Init, QuotaBudget
<1>. QED
  BY <1>1, <1>2, <1>3, <1>4, <1>5, <1>6 DEF IInv

\* ... and every step keeps it.
LEMMA NextIInv == IInv /\ [Next]_vars => IInv'
  BY TypedStep, FreshStep, SnapshotStep, PhaseStep, BackedStep, BudgetStep,
     RetryResultStep, AttemptsStep, ForwardTakenStep, SentStep, LogStep, QuotaStep
  DEF IInv

\* The inductive invariant holds in every reachable state.
THEOREM Invariance == Spec => []IInv
  BY InitIInv, NextIInv, PTL DEF Spec

\* A recipient gets one copy per mail, plus one per confirmed duplicate risk and
\* per DSN that rewrote the row: what finalize_claim's fencing and
\* the result_unknown state are for.
THEOREM CopiesBounded == Spec => []AtMostOnce
<1>1. IInv => AtMostOnce
  <2> SUFFICES ASSUME IInv, NEW q \in Rows
      PROVE  copies[q] <= 1 + confirmed[q] + dsns[q]
    BY DEF AtMostOnce
  <2>1. /\ exposed[q] \in SUBSET Token /\ acceptedBy[q] \subseteq exposed[q]
        /\ confirmed[q] \in Nat /\ dsns[q] \in Nat
    BY DEF IInv, Typed, TypeOK, HistoryTypes, Backed
  <2>2. /\ Cardinality(acceptedBy[q]) <= Cardinality(exposed[q])
        /\ Cardinality(exposed[q]) \in Nat /\ Cardinality(acceptedBy[q]) \in Nat
    BY <2>1, TokensFinite, FS_Subset
  <2>3. Cardinality(exposed[q]) <= 1 + confirmed[q] + dsns[q]
    BY <2>1, <2>2 DEF IInv, Budget
  <2>. QED
    BY <2>1, <2>2, <2>3 DEF IInv, Backed
<1>. QED
  BY <1>1, Invariance, PTL

\* A mail a server took stays closed: it is never failed, blocked or waiting for
\* another try without a confirmation or a DSN.
THEOREM AcceptedClosed == Spec => []AcceptedStaysClosed
<1>1. IInv => AcceptedStaysClosed
  <2> SUFFICES ASSUME IInv, NEW q \in Rows, copies[q] > 0, confirmed[q] = 0, dsns[q] = 0
      PROVE  status[q] \in {"processing", "sent", "result_unknown"}
    BY DEF AcceptedStaysClosed
  <2>1. exposed[q] \in SUBSET Token /\ acceptedBy[q] \subseteq exposed[q]
    BY DEF IInv, Typed, TypeOK, HistoryTypes, Backed
  <2>2. /\ Cardinality(acceptedBy[q]) <= Cardinality(exposed[q])
        /\ Cardinality(exposed[q]) \in Nat /\ Cardinality(acceptedBy[q]) \in Nat
    BY <2>1, TokensFinite, FS_Subset
  <2>3. Cardinality(exposed[q]) >= 1
    BY <2>2 DEF IInv, Backed
  <2>4. ~Open(q)
    BY <2>2, <2>3 DEF IInv, Budget
  <2>. QED
    BY <2>4 DEF Open, IInv, Typed, TypeOK, RowTypes
<1>. QED
  BY <1>1, Invariance, PTL

\* The UNIQUE(queue_id, attempt_number) insert of finalize_claim never fails.
THEOREM AttemptLogCorrect == Spec => []AttemptLogContiguous
  BY Invariance, PTL DEF IInv

\* A row that reads sent has a copy at a server.
THEOREM SentCorrect == Spec => []SentWasAccepted
  BY Invariance, PTL DEF IInv

\* Automatic retries stop at max_retry_count.
THEOREM RetriesBounded == Spec => []RetryBudget
<1>1. IInv => RetryBudget
  BY BoundsAssumption
  DEF IInv, Attempts, RetryBudget, Typed, TypeOK, RowTypes, HistoryTypes
<1>. QED
  BY <1>1, Invariance, PTL

\* An original is deleted only when every forward of it was taken by a server.
THEOREM ForwardsBeforeDeletion == Spec => []OriginalDeletedAfterForward
<1>1. IInv => OriginalDeletedAfterForward
  BY DEF IInv, ForwardTaken, OriginalDeletedAfterForward
<1>. QED
  BY <1>1, Invariance, PTL

\* The reservations of a day stay within the daily limit, its connections within
\* the limit and one reservation per worker carried over midnight.
THEOREM QuotaHolds == Spec => []DailyLimit
<1>1. IInv => DailyLimit
  BY DialingFinite, BoundsAssumption
  DEF IInv, QuotaBudget, DailyLimit, Typed, TypeOK, SettingTypes
<1>. QED
  BY <1>1, Invariance, PTL

-----------------------------------------------------------------------------
(* The queue implements AtMostOnceDelivery.                                *)

\* The claims exposed are those a server accepted and those under way.
LEMMA ExposedSplit ==
  ASSUME Typed, Backed, NEW q \in Rows
  PROVE  /\ IsFiniteSet(exposed[q] \ acceptedBy[q])
         /\ Underway[q] = Cardinality(exposed[q] \ acceptedBy[q])
         /\ Underway[q] \in Nat
         /\ copies[q] + Underway[q] = Cardinality(exposed[q])
<1>1. /\ exposed[q] \in SUBSET Token
      /\ acceptedBy[q] \subseteq exposed[q]
      /\ copies[q] = Cardinality(acceptedBy[q])
  BY DEF Typed, TypeOK, HistoryTypes, Backed
<1>2. /\ IsFiniteSet(exposed[q]) /\ Cardinality(exposed[q]) \in Nat
      /\ Cardinality(acceptedBy[q]) \in Nat
  BY <1>1, TokensFinite
<1>3. exposed[q] \cap acceptedBy[q] = acceptedBy[q]
  BY <1>1
<1>4. /\ IsFiniteSet(exposed[q] \ acceptedBy[q])
      /\ Cardinality(exposed[q] \ acceptedBy[q])
            = Cardinality(exposed[q]) - Cardinality(acceptedBy[q])
  BY <1>2, <1>3, FS_Difference
<1>5. Cardinality(exposed[q] \ acceptedBy[q]) \in Nat
  BY <1>4, FS_CardinalityType
<1>6. Underway[q] = Cardinality(exposed[q] \ acceptedBy[q])
  BY DEF Underway
<1>. QED
  BY <1>1, <1>2, <1>4, <1>5, <1>6

\* An open row has the permit that the budget reserves for it.
LEMMA OpenPermitted ==
  ASSUME Typed, Backed, Budget, NEW q \in Rows, Open(q)
  PROVE  Promise!Permitted(q)
<1>1. copies[q] + Underway[q] < 1 + (confirmed[q] + dsns[q])
  <2>1. Cardinality(exposed[q]) + 1 <= 1 + confirmed[q] + dsns[q]
    BY DEF Budget
  <2>2. copies[q] + Underway[q] = Cardinality(exposed[q]) /\ Underway[q] \in Nat
    BY ExposedSplit
  <2>3. confirmed[q] \in Nat /\ dsns[q] \in Nat /\ copies[q] \in Nat
    BY DEF Typed, TypeOK, HistoryTypes
  <2>. QED
    BY <2>1, <2>2, <2>3
<1>2. Granted[q] = confirmed[q] + dsns[q]
  BY DEF Granted
<1>. QED
  BY <1>1, <1>2 DEF Promise!Permitted

\* A step that leaves the tokens and the requests alone leaves three of the
\* four variables of the promise alone.
LEMMA SameHistory ==
  ASSUME UNCHANGED <<copies, acceptedBy, exposed, confirmed, dsns>>
  PROVE  UNCHANGED <<copies, Underway, Granted>>
  BY DEF Underway, Granted

\* A step that changes the tokens of one row changes what is under way there.
LEMMA UnderwayAt ==
  ASSUME NEW q \in Rows, NEW n,
         \A r \in Rows \ {q} : /\ exposed'[r] = exposed[r]
                               /\ acceptedBy'[r] = acceptedBy[r],
         Cardinality(exposed'[q] \ acceptedBy'[q]) = n
  PROVE  Underway' = [Underway EXCEPT ![q] = n]
<1>1. Underway' = [r \in Rows |-> Cardinality(exposed'[r] \ acceptedBy'[r])]
  BY DEF Underway
<1>2. \A r \in Rows : Underway'[r] = IF r = q THEN n ELSE Underway[r]
  BY <1>1 DEF Underway
<1>3. Underway = [r \in Rows |-> Underway[r]]
  BY DEF Underway
<1>. QED
  BY <1>1, <1>2, <1>3

\* The empty queue has promised nothing.
LEMMA PromiseStart == Init => Promise!PromiseInit
<1> SUFFICES ASSUME Init PROVE Promise!PromiseInit
  OBVIOUS
<1>1. Underway = [q \in Rows |-> 0]
  <2>1. \A q \in Rows : exposed[q] \ acceptedBy[q] = {}
    BY DEF Init
  <2>. QED
    BY <2>1, FS_EmptySet DEF Underway
<1>2. Granted = [q \in Rows |-> 0]
  BY DEF Init, Granted
<1>. QED
  BY <1>1, <1>2 DEF Init, Promise!PromiseInit

\* A finite set loses one of its elements.
LEMMA WithoutOne ==
  ASSUME NEW S, IsFiniteSet(S), NEW x \in S
  PROVE  Cardinality(S \ {x}) = Cardinality(S) - 1 /\ Cardinality(S) > 0
<1>1. Cardinality(S) \in Nat /\ Cardinality(S) # 0
  BY FS_CardinalityType, FS_EmptySet
<1>2. Cardinality(S \ {x}) = Cardinality(S) - 1
  BY FS_RemoveElement
<1>. QED
  BY <1>1, <1>2

\* What the promise allows of one row, it allows.
LEMMA RowStep ==
  ASSUME NEW q \in Rows,
         \/ Promise!Begin(q) \/ Promise!Expose(q) \/ Promise!Refuse(q)
         \/ Promise!Accept(q) \/ Promise!Resend(q) \/ Promise!Confirm(q)
  PROVE  Promise!PromiseNext
  BY DEF Promise!PromiseNext

\* A payload goes out on a permit.
LEMMA ExposeStep ==
  ASSUME IInv, NEW w \in Workers, EnterPayload(w)
  PROVE  Promise!Expose(job[w].row)
<1> DEFINE t == job[w].token
           q == job[w].row
<1>1. /\ q \in Rows /\ t \in Token
      /\ status[q] = "processing" /\ claimToken[q] = t /\ t \notin exposed[q]
      /\ exposed' = [exposed EXCEPT ![q] = @ \cup {t}]
      /\ UNCHANGED <<status, copies, acceptedBy, confirmed, dsns>>
  BY DEF IInv, Phase, Unexposed, EnterPayload, CheckOwner, Owns, localUnchanged,
         rowVars, requestVars, Typed, TypeOK, WorkerTypes, Job
<1>2. Promise!Permitted(q)
  <2>1. Open(q)
    BY <1>1 DEF Open
  <2>. QED
    BY <1>1, <2>1, OpenPermitted DEF IInv
<1>3. /\ exposed'[q] = exposed[q] \cup {t} /\ acceptedBy' = acceptedBy
      /\ \A r \in Rows \ {q} : exposed'[r] = exposed[r]
  BY <1>1 DEF IInv, Typed, TypeOK, HistoryTypes
<1>4. exposed'[q] \ acceptedBy'[q] = (exposed[q] \ acceptedBy[q]) \cup {t}
  BY <1>1, <1>3 DEF IInv, Backed
<1>5. Cardinality(exposed'[q] \ acceptedBy'[q]) = Underway[q] + 1
  <2>1. /\ IsFiniteSet(exposed[q] \ acceptedBy[q])
        /\ Underway[q] = Cardinality(exposed[q] \ acceptedBy[q])
    BY <1>1, ExposedSplit DEF IInv
  <2>. QED
    BY <1>1, <1>4, <2>1, FS_AddElement
<1>6. Underway' = [Underway EXCEPT ![q] = Underway[q] + 1]
  BY <1>1, <1>3, <1>5, UnderwayAt
<1>7. UNCHANGED <<status, copies, Granted>>
  BY <1>1 DEF Granted
<1>. QED
  BY <1>1, <1>2, <1>6, <1>7 DEF Promise!Expose

\* A refusal gives the permit back.
LEMMA RefuseStep ==
  ASSUME IInv, NEW w \in Workers, PayloadRefused(w)
  PROVE  job[w].row \in Rows /\ Promise!Refuse(job[w].row)
<1> DEFINE t == job[w].token
           q == job[w].row
<1>1. /\ q \in Rows /\ t \in exposed[q] /\ t \notin acceptedBy[q]
      /\ exposed' = [exposed EXCEPT ![q] = @ \ {t}]
      /\ UNCHANGED <<status, copies, acceptedBy, confirmed, dsns>>
  BY DEF IInv, Phase, PayloadRefused, localUnchanged, rowVars, requestVars, Typed,
         TypeOK, WorkerTypes, Job
<1>2. /\ exposed'[q] = exposed[q] \ {t} /\ acceptedBy' = acceptedBy
      /\ \A r \in Rows \ {q} : exposed'[r] = exposed[r]
  BY <1>1 DEF IInv, Typed, TypeOK, HistoryTypes
<1>3. exposed'[q] \ acceptedBy'[q] = (exposed[q] \ acceptedBy[q]) \ {t}
  BY <1>2
<1>4. /\ Cardinality(exposed'[q] \ acceptedBy'[q]) = Underway[q] - 1
      /\ Underway[q] > 0
  <2>1. /\ IsFiniteSet(exposed[q] \ acceptedBy[q])
        /\ Underway[q] = Cardinality(exposed[q] \ acceptedBy[q])
        /\ Underway[q] \in Nat
    BY <1>1, ExposedSplit DEF IInv
  <2>2. t \in exposed[q] \ acceptedBy[q]
    BY <1>1
  <2>3. /\ Cardinality((exposed[q] \ acceptedBy[q]) \ {t})
              = Cardinality(exposed[q] \ acceptedBy[q]) - 1
        /\ Cardinality(exposed[q] \ acceptedBy[q]) > 0
    BY <2>1, <2>2, WithoutOne
  <2>. QED
    BY <1>3, <2>1, <2>3
<1>5. Underway' = [Underway EXCEPT ![q] = Underway[q] - 1]
  BY <1>1, <1>2, <1>4, UnderwayAt
<1>6. UNCHANGED <<status, copies, Granted>>
  BY <1>1 DEF Granted
<1>. QED
  BY <1>1, <1>4, <1>5, <1>6 DEF Promise!Refuse

\* An acceptance turns the payload under way into a copy.
LEMMA AcceptStep ==
  ASSUME IInv, NEW w \in Workers, PayloadAccepted(w)
  PROVE  job[w].row \in Rows /\ Promise!Accept(job[w].row)
<1> DEFINE t == job[w].token
           q == job[w].row
<1>1. /\ q \in Rows /\ t \in exposed[q] /\ t \notin acceptedBy[q]
      /\ acceptedBy' = [acceptedBy EXCEPT ![q] = @ \cup {t}]
      /\ copies' = [copies EXCEPT ![q] = @ + 1]
      /\ UNCHANGED <<status, exposed, confirmed, dsns>>
  BY DEF IInv, Phase, PayloadAccepted, localUnchanged, rowVars, requestVars,
         Typed, TypeOK, WorkerTypes, Job
<1>2. /\ acceptedBy'[q] = acceptedBy[q] \cup {t} /\ exposed' = exposed
      /\ \A r \in Rows \ {q} : acceptedBy'[r] = acceptedBy[r]
  BY <1>1 DEF IInv, Typed, TypeOK, HistoryTypes
<1>3. exposed'[q] \ acceptedBy'[q] = (exposed[q] \ acceptedBy[q]) \ {t}
  BY <1>2
<1>4. /\ Cardinality(exposed'[q] \ acceptedBy'[q]) = Underway[q] - 1
      /\ Underway[q] > 0
  <2>1. /\ IsFiniteSet(exposed[q] \ acceptedBy[q])
        /\ Underway[q] = Cardinality(exposed[q] \ acceptedBy[q])
        /\ Underway[q] \in Nat
    BY <1>1, ExposedSplit DEF IInv
  <2>2. t \in exposed[q] \ acceptedBy[q]
    BY <1>1
  <2>3. /\ Cardinality((exposed[q] \ acceptedBy[q]) \ {t})
              = Cardinality(exposed[q] \ acceptedBy[q]) - 1
        /\ Cardinality(exposed[q] \ acceptedBy[q]) > 0
    BY <2>1, <2>2, WithoutOne
  <2>. QED
    BY <1>3, <2>1, <2>3
<1>5. Underway' = [Underway EXCEPT ![q] = Underway[q] - 1]
  BY <1>1, <1>2, <1>4, UnderwayAt
<1>6. UNCHANGED <<status, Granted>>
  BY <1>1 DEF Granted
<1>. QED
  BY <1>1, <1>4, <1>5, <1>6 DEF Promise!Accept

\* finalize_claim tells what it may: sent after an acceptance, and another try or
\* a failure only of a claim that exposed nothing.
LEMMA FinalizeSettles ==
  ASSUME IInv, IInv', NEW w \in Workers, FinalizeClaim(w)
  PROVE  Promise!PromiseNext
<1> DEFINE q == job[w].row
           r == result[w]
<1>1. /\ q \in Rows /\ status[q] = "processing"
      /\ status' = [status EXCEPT ![q] = r]
      /\ UNCHANGED <<copies, acceptedBy, exposed, confirmed, dsns>>
  BY FinalizeFacts DEF IInv, FinalizeClaim, Owns, historyVars, requestVars
<1>2. r \in {"blocked", "failed", "retry_pending", "sent", "result_unknown"}
  BY DEF IInv, FinalizeClaim, Typed, TypeOK, WorkerTypes, ResultSet
<1>3. r = "sent" => copies[q] > 0
  <2>1. status'[q] = r /\ copies' = copies
    BY <1>1 DEF IInv, Typed, TypeOK, RowTypes
  <2>2. status'[q] = "sent" => copies'[q] > 0
    BY <1>1 DEF IInv, SentWasAccepted
  <2>. QED
    BY <2>1, <2>2
<1>4. r \in Promise!Unsent => Promise!Permitted(q)
  <2> SUFFICES ASSUME r \in Promise!Unsent PROVE Promise!Permitted(q)
    OBVIOUS
  <2>1. Open(q)
    BY <1>1 DEF IInv, Phase, Unexposed, Open, FinalizeClaim, Owns, Promise!Unsent
  <2>. QED
    BY <1>1, <2>1, OpenPermitted DEF IInv
<1>5. UNCHANGED <<copies, Underway, Granted>>
  BY <1>1, SameHistory
<1>6. Promise!Settle(q, r)
  BY <1>1, <1>3, <1>4, <1>5
  DEF Promise!Settle, Promise!Tell, Promise!OnlyTold
<1>. QED
  BY <1>1, <1>2, <1>6 DEF Promise!PromiseNext, Promise!Unsent

\* A recovered claim is unknown, and a deferred one exposed nothing.
LEMMA OtherSettles ==
  ASSUME IInv, NEW w \in Workers, RecoverExpired(w) \/ DeferForQuota(w)
  PROVE  Promise!PromiseNext
<1> DEFINE q == job[w].row
<1>1. CASE RecoverExpired(w)
  <2>1. /\ q \in Rows /\ status[q] = "processing"
        /\ status' = [status EXCEPT ![q] = "result_unknown"]
        /\ UNCHANGED <<copies, acceptedBy, exposed, confirmed, dsns>>
    BY <1>1, FinalizeFacts
    DEF IInv, RecoverExpired, StillLapsed, Lapsed, historyVars, requestVars
  <2>2. UNCHANGED <<copies, Underway, Granted>>
    BY <2>1, SameHistory
  <2>3. Promise!Settle(q, "result_unknown")
    BY <2>1, <2>2
    DEF Promise!Settle, Promise!Tell, Promise!OnlyTold, Promise!Unsent
  <2>. QED
    BY <2>1, <2>3 DEF Promise!PromiseNext
<1>2. CASE DeferForQuota(w)
  <2>1. /\ q \in Rows /\ status[q] = "processing"
        /\ status' = [status EXCEPT ![q] = "retry_pending"]
        /\ UNCHANGED <<copies, acceptedBy, exposed, confirmed, dsns>>
    BY <1>2
    DEF IInv, DeferForQuota, Owns, historyVars, requestVars, Typed, TypeOK,
        WorkerTypes, Job
  <2>2. UNCHANGED <<copies, Underway, Granted>>
    BY <2>1, SameHistory
  <2>3. Promise!Permitted(q)
    <3>1. Open(q)
      BY <1>2, <2>1 DEF IInv, Phase, Unexposed, Open, DeferForQuota, Owns
    <3>. QED
      BY <2>1, <3>1, OpenPermitted DEF IInv
  <2>4. Promise!Settle(q, "retry_pending")
    BY <2>1, <2>2, <2>3
    DEF Promise!Settle, Promise!Tell, Promise!OnlyTold, Promise!Unsent
  <2>. QED
    BY <2>1, <2>4 DEF Promise!PromiseNext, Promise!Unsent
<1>. QED
  BY <1>1, <1>2

\* What people and remote servers ask for.
LEMMA RequestStep ==
  ASSUME IInv, NEW q \in Rows,
         \/ \E confirm \in BOOLEAN : Retry(q, confirm)
         \/ SenderRetry(q)
         \/ \E a \in {"failed", "delayed", "delivered"} : RecordFeedback(q, a)
  PROVE  Promise!PromiseNext
<1>1. ASSUME status[q] \in Promise!Unsent,
             status' = [status EXCEPT ![q] = "queued"],
             UNCHANGED <<copies, acceptedBy, exposed, confirmed, dsns>>
      PROVE  Promise!PromiseNext
  <2>1. Promise!Permitted(q)
    BY <1>1, OpenPermitted DEF IInv, Open, Promise!Unsent
  <2>2. Promise!Resend(q)
    BY <1>1, <2>1, SameHistory
    DEF Promise!Resend, Promise!Tell, Promise!OnlyTold
  <2>. QED
    BY <2>2, RowStep
<1>2. ASSUME NEW confirm \in BOOLEAN, Retry(q, confirm) PROVE Promise!PromiseNext
  <2>1. CASE status[q] # "result_unknown"
    BY <1>1, <1>2, <2>1
    DEF Retry, MayRetry, historyVars, Promise!Unsent
  <2>2. CASE status[q] = "result_unknown"
    <3>1. Granted' = [Granted EXCEPT ![q] = Granted[q] + 1]
      <4>1. \A p \in Rows : confirmed'[p] + dsns'[p] =
                  IF p = q THEN confirmed[p] + dsns[p] + 1
                           ELSE confirmed[p] + dsns[p]
        BY <1>2, <2>2
        DEF IInv, Retry, MayRetry, Typed, TypeOK, HistoryTypes
      <4>. QED
        BY <4>1 DEF Granted
    <3>2. UNCHANGED <<copies, Underway>>
      BY <1>2 DEF Retry, historyVars, Underway
    <3>3. Promise!Confirm(q)
      BY <1>2, <2>2, <3>1, <3>2 DEF Retry, Promise!Confirm, Promise!Tell
    <3>. QED
      BY <3>3, RowStep
  <2>. QED
    BY <2>1, <2>2
<1>3. ASSUME SenderRetry(q) PROVE Promise!PromiseNext
  BY <1>1, <1>3 DEF SenderRetry, historyVars, Promise!Unsent
<1>4. ASSUME NEW a \in {"failed", "delayed", "delivered"}, RecordFeedback(q, a)
      PROVE  Promise!PromiseNext
  <2>1. DsnStatus(a) \in {"sent", "failed", "retry_pending"}
    BY DEF DsnStatus
  <2>2. Granted' = [Granted EXCEPT ![q] = Granted[q] + 1]
    <3>1. \A p \in Rows : confirmed'[p] + dsns'[p] =
                IF p = q THEN confirmed[p] + dsns[p] + 1
                         ELSE confirmed[p] + dsns[p]
      BY <1>4 DEF IInv, RecordFeedback, Typed, TypeOK, HistoryTypes
    <3>. QED
      BY <3>1 DEF Granted
  <2>3. UNCHANGED <<copies, Underway>>
    BY <1>4 DEF RecordFeedback, historyVars, Underway
  <2>4. Promise!Report(q, DsnStatus(a))
    BY <1>4, <2>2, <2>3 DEF RecordFeedback, Promise!Report, Promise!Tell
  <2>. QED
    BY <2>1, <2>4 DEF Promise!PromiseNext
<1>. QED
  BY <1>2, <1>3, <1>4

\* A step of the queue is a step of the promise or leaves it as it is.
LEMMA PromiseStep ==
  IInv /\ IInv' /\ [Next]_vars
      => [Promise!PromiseNext]_(Promise!promiseVars)
<1> SUFFICES ASSUME IInv, IInv', [Next]_vars
    PROVE  Promise!PromiseNext \/ UNCHANGED Promise!promiseVars
  OBVIOUS
<1>0. ASSUME UNCHANGED <<status, copies, acceptedBy, exposed, confirmed, dsns>>
      PROVE  UNCHANGED Promise!promiseVars
  BY <1>0, SameHistory DEF Promise!promiseVars
<1>1. ASSUME NEW S \in SUBSET Rows, Insert(S) PROVE Promise!PromiseNext
  <2>1. UNCHANGED <<copies, Underway, Granted>>
    BY <1>1, SameHistory DEF Insert, historyVars, requestVars
  <2>2. Promise!Enter(S)
    BY <1>1, <2>1 DEF Insert, EnqueueStatus, Promise!Enter, Promise!OnlyTold
  <2>. QED
    BY <2>2 DEF Promise!PromiseNext
<1>2. ASSUME NEW q \in Rows, Enqueue(q) PROVE Promise!PromiseNext
  BY <1>1, <1>2 DEF Enqueue
<1>3. ASSUME NEW o \in Origins, ApplyRecipient(o) PROVE Promise!PromiseNext
  BY <1>1, <1>3 DEF ApplyRecipient
<1>4. ASSUME NEW w \in Workers, NEW q \in Rows, Claim(w, q)
      PROVE  Promise!PromiseNext
  <2>1. UNCHANGED <<copies, Underway, Granted>>
    BY <1>4, SameHistory DEF Claim, historyVars, requestVars
  <2>2. Promise!Begin(q)
    BY <1>4, <2>1 DEF Claim, Promise!Begin, Promise!Tell, Promise!OnlyTold
  <2>. QED
    BY <2>2, RowStep
<1>5. ASSUME NEW w \in Workers, WorkerStep(w)
      PROVE  Promise!PromiseNext \/ UNCHANGED Promise!promiseVars
  <2>1. CASE GiveUp(w) \/ RecordRefused(w)
    BY <1>0, <2>1, DropSteps, DropFacts DEF IInv
  <2>2. CASE StartPrepare(w) \/ Dial(w) \/ EnterData(w)
    BY <1>0, <2>2
    DEF StartPrepare, Dial, EnterData, localUnchanged, rowVars, historyVars,
        requestVars
  <2>3. CASE Prepare(w) \/ Reserve(w) \/ RefusedBeforeData(w) \/ PayloadLost(w)
    BY <1>0, <2>3
    DEF Prepare, Reserve, RefusedBeforeData, PayloadLost, localUnchanged, rowVars,
        historyVars, requestVars
  <2>4. CASE EnterPayload(w)
    <3>1. job[w].row \in Rows
      BY DEF IInv, Typed, TypeOK, WorkerTypes, Job
    <3>. QED
      BY <2>4, <3>1, ExposeStep, RowStep
  <2>5. CASE PayloadRefused(w)
    BY <2>5, RefuseStep, RowStep
  <2>6. CASE PayloadAccepted(w)
    BY <2>6, AcceptStep, RowStep
  <2>7. CASE FinalizeClaim(w)
    BY <2>7, FinalizeSettles
  <2>8. CASE RecoverExpired(w) \/ DeferForQuota(w)
    BY <2>8, OtherSettles
  <2>. QED
    BY <1>5, <2>1, <2>2, <2>3, <2>4, <2>5, <2>6, <2>7, <2>8 DEF WorkerStep
<1>6. ASSUME NEW q \in Rows,
             \/ \E confirm \in BOOLEAN : Retry(q, confirm)
             \/ SenderRetry(q)
             \/ \E a \in {"failed", "delayed", "delivered"} : RecordFeedback(q, a)
      PROVE  Promise!PromiseNext
  BY <1>6, RequestStep
<1>7. ASSUME NEW w \in Workers, Abandon(w) PROVE UNCHANGED Promise!promiseVars
  BY <1>0, <1>7, DropSteps, DropFacts DEF IInv
<1>8. ASSUME NEW w \in Workers, NEW q \in Rows,
             FindExpired(w, q) \/ KeeperLosesClaim(w)
      PROVE  UNCHANGED Promise!promiseVars
  BY <1>0, <1>8
  DEF FindExpired, KeeperLosesClaim, rowVars, historyVars, requestVars
<1>9. ASSUME NEW q \in Rows, BecomeDue(q) \/ LeaseExpires(q)
      PROVE  UNCHANGED Promise!promiseVars
  BY <1>0, <1>9 DEF BecomeDue, LeaseExpires, historyVars, requestVars
<1>10. CASE ProviderChanges \/ NewDay \/ UNCHANGED vars
  BY <1>0, <1>10
  DEF ProviderChanges, NewDay, vars, rowVars, historyVars, requestVars
<1>. QED
  BY SetsAssumption, <1>2, <1>3, <1>4, <1>5, <1>6, <1>7, <1>8, <1>9, <1>10 DEF Next

\* The queue implements AtMostOnceDelivery, for any rows, workers and bounds: no
\* interleaving of claims, recoveries and retries sends a payload without a
\* permit or tells the people who read the row more than is known.
THEOREM PromiseKept == Spec => KeepsPromise
<1>1. IInv /\ [Next]_vars => [Promise!PromiseNext]_(Promise!promiseVars)
  BY NextIInv, PromiseStep
<1>. QED
  BY <1>1, PromiseStart, Invariance, PTL
  DEF Spec, KeepsPromise, Promise!PromiseSpec

=============================================================================
