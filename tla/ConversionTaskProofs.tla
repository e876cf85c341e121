------------------------ MODULE ConversionTaskProofs ------------------------
(***************************************************************************)
(* What TLAPS proves of ConversionTask for any number of tasks, instances  *)
(* and retries.                                                            *)
(***************************************************************************)
EXTENDS ConversionTask, TLAPS

USE DEF requestVars, queueVars, rowVars, workerVars, runVars

-----------------------------------------------------------------------------
(* Lemmas about the operators the actions are built from.                   *)

\* The components of runs and attempts are what their names say.
LEMMA RunsAndAttempts ==
  /\ \A a \in Attempts : a.task \in Tasks /\ a.no \in 0 .. MaxRetry
  /\ \A r \in Runs : r.attempt \in Attempts /\ r.mode \in Modes /\ TaskOf(r) \in Tasks
  /\ \A a \in Attempts, m \in Modes : RunOf(a, m) \in Runs
BY DEF Attempts, Runs, Modes, RunOf, TaskOf

\* The next attempt at a task is an attempt.
LEMMA CurrentIsAttempt ==
  ASSUME TypeOK, NEW t \in Tasks
  PROVE  Current(t) \in Attempts
BY DEF TypeOK, Current, Attempts

Labels   == Busy \cup {"idle", "ok", "err"}
Statuses == {"absent", "pending", "failed", "completed"}
Results  == {"null", "notFound", "error"} \cup Conversions

\* Moving a run to a label keeps the type of pc.
LEMMA MoveToType ==
  ASSUME TypeOK, NEW r \in Runs, NEW l \in Labels, MoveTo(r, l)
  PROVE  pc' \in [Runs -> Labels]
BY DEF TypeOK, MoveTo, Labels

\* A run that returns keeps the types of pc and cause.
LEMMA ReturnType ==
  ASSUME TypeOK, NEW r \in Runs, NEW v \in {"ok", "err"}, Return(r, v)
  PROVE  pc' \in [Runs -> Labels] /\ cause' \in [Runs -> {"none", "noresult", "other"}]
<1>1. (IF Awaited(r) THEN v ELSE "idle") \in Labels
  BY DEF Labels
<1>2. cause' \in [Runs -> {"none", "noresult", "other"}]
  BY DEF TypeOK, Return
<1> QED
  BY <1>1, <1>2, MoveToType DEF Return

\* The two updates of a row keep its type.
LEMMA SetStatusType ==
  ASSUME TypeOK, NEW t \in Tasks, NEW s \in Statuses, SetStatus(t, s)
  PROVE  status' \in [Tasks -> Statuses]
BY DEF TypeOK, SetStatus, Statuses

\* Updating a row's result keeps the type of result.
LEMMA SetResultType ==
  ASSUME TypeOK, NEW t \in Tasks, NEW x \in Results, SetResult(t, x)
  PROVE  result' \in [Tasks -> Results]
BY DEF TypeOK, SetResult, Results

\* PlaylistHandler stores one of two payloads for a failed conversion.
LEMMA ErrorPayloadType == \A e : ErrorPayload(e) \in {"notFound", "error"}
BY DEF ErrorPayload

\* A task whose attempt failed is archived, or it is retried once more, which
\* never exceeds MaxRetry.
LEMMA FailTaskType ==
  ASSUME TypeOK, NEW t \in Tasks, FailTask(t)
  PROVE  /\ queue' \in [Tasks -> {"none", "scheduled", "pending", "active", "retry"} \cup Settled]
         /\ retried' \in [Tasks -> 0 .. MaxRetry]
<1>1. queue' \in [Tasks -> {"none", "scheduled", "pending", "active", "retry"} \cup Settled]
  BY DEF TypeOK, FailTask, Settled
<1>2. CASE retried[t] >= MaxRetry
  BY <1>1, <1>2 DEF TypeOK, FailTask
<1>3. CASE ~(retried[t] >= MaxRetry)
  <2>1. retried[t] \in 0 .. MaxRetry
    BY DEF TypeOK
  <2>2. retried[t] + 1 \in 0 .. MaxRetry
    BY <1>3, <2>1, MaxRetryAssumption
  <2>3. retried' = [retried EXCEPT ![t] = retried[t] + 1]
    BY <1>3 DEF FailTask
  <2> QED
    BY <1>1, <2>2, <2>3 DEF TypeOK
<1> QED
  BY <1>2, <1>3

\* A process that ends keeps the type of the state.
LEMMA TerminateType ==
  ASSUME TypeOK, NEW i, Terminate(i), paused' \in BOOLEAN
  PROVE  TypeOK'
<1>1. /\ req' \in [Tasks -> {"idle", "enqueued", "accepted", "rejected", "aborted"}]
      /\ life' \in [Instances -> {"down", "booting", "unpausing"} \cup Answering]
  BY DEF TypeOK, Terminate
<1>2. /\ worker' \in [Attempts -> {"none", "handling", "failing", "orphanRun", "retrying"}]
      /\ holder' \in [Attempts -> Instances \cup {NoInstance}]
  BY DEF TypeOK, Terminate
<1>3. lease' \in [Attempts -> BOOLEAN]
  BY DEF TypeOK, Terminate
<1>4. /\ pc' \in [Runs -> Busy \cup {"idle", "ok", "err"}]
      /\ cause' \in [Runs -> {"none", "noresult", "other"}]
  BY DEF TypeOK, Terminate
<1>5. UNCHANGED <<server, queueVars, rowVars>>
  BY DEF Terminate
<1> QED
  BY <1>1, <1>2, <1>3, <1>4, <1>5 DEF TypeOK

-----------------------------------------------------------------------------
\* Every state has the type TypeOK gives it.
THEOREM TypeCorrect == Spec => []TypeOK
<1>1. Init => TypeOK
  <2> SUFFICES ASSUME Init PROVE TypeOK
    OBVIOUS
  <2>1. lease \in [Attempts -> BOOLEAN] /\ paused \in BOOLEAN
    BY DEF Init
  <2>2. retried \in [Tasks -> 0 .. MaxRetry]
    BY MaxRetryAssumption DEF Init
  <2> QED
    BY <2>1, <2>2 DEF Init, TypeOK, Busy
<1>2. TypeOK /\ [Next]_vars => TypeOK'
  <2> SUFFICES ASSUME TypeOK, [Next]_vars PROVE TypeOK'
    OBVIOUS
  <2> USE RunsAndAttempts DEF TypeOK, Labels, Statuses, Results, Answering
  <2>1. ASSUME NEW i \in Instances, NEW t \in Tasks, EnqueueTask(i, t) PROVE TypeOK'
    BY <2>1 DEF EnqueueTask
  <2>2. ASSUME NEW i \in Instances, NEW t \in Tasks, DeleteTask(i, t) PROVE TypeOK'
    BY <2>2 DEF DeleteTask
  <2>3. ASSUME NEW i \in Instances, NEW t \in Tasks, Dequeue(i, t) PROVE TypeOK'
    BY <2>3, CurrentIsAttempt DEF Dequeue, Busy, Modes
  <2>4. ASSUME NEW t \in Tasks, CreateOrUpdateTask(t) PROVE TypeOK'
    BY <2>4 DEF CreateOrUpdateTask
  <2>5. ASSUME NEW t \in Tasks, Forward(t) PROVE TypeOK'
    BY <2>5 DEF Forward
  <2>6. ASSUME NEW t \in Tasks, Recover(t) PROVE TypeOK'
    BY <2>6, FailTaskType DEF Recover
  <2>7. ASSUME NEW r \in Runs, Fetch(r) PROVE TypeOK'
    BY <2>7, MoveToType, ReturnType DEF Fetch, Busy
  <2>8. ASSUME NEW r \in Runs, Convert(r) PROVE TypeOK'
    BY <2>8, MoveToType, ReturnType DEF Convert, Busy
  <2>9. ASSUME NEW r \in Runs, MarkFailed(r) PROVE TypeOK'
    BY <2>9, MoveToType, ReturnType, SetStatusType DEF MarkFailed, Busy
  <2>10. ASSUME NEW r \in Runs, StoreError(r) PROVE TypeOK'
    BY <2>10, ReturnType, SetResultType, ErrorPayloadType DEF StoreError
  <2>11. ASSUME NEW r \in Runs, StoreConversion(r) PROVE TypeOK'
    BY <2>11, MoveToType, ReturnType, SetResultType DEF StoreConversion, Busy
  <2>12. ASSUME NEW r \in Runs, MarkCompleted(r) PROVE TypeOK'
    BY <2>12, ReturnType, SetStatusType DEF MarkCompleted
  <2>13. ASSUME NEW a \in Attempts, Done(a) PROVE TypeOK'
    BY <2>13 DEF Done, Release, MoveTo, Settled, Modes
  <2>14. ASSUME NEW a \in Attempts, HandlerFails(a) PROVE TypeOK'
    BY <2>14 DEF HandlerFails, MoveTo, Modes
  <2>15. ASSUME NEW a \in Attempts, ErrorHandler(a) PROVE TypeOK'
    BY <2>15, MoveToType DEF ErrorHandler, Modes, Busy
  <2>16. ASSUME NEW a \in Attempts, OrphanRunReturns(a) PROVE TypeOK'
    <3>1. worker[a] = "orphanRun" /\ UNCHANGED paused
      BY <2>16 DEF OrphanRunReturns
    <3>2. CASE /\ worker' = [worker EXCEPT ![a] = "retrying"]
              /\ MoveTo(RunOf(a, "rescue"), "idle")
              /\ UNCHANGED <<requestVars, queueVars, rowVars, holder, lease, cause, life>>
      BY <3>1, <3>2, MoveToType DEF Modes, Busy
    <3>3. CASE Terminate(holder[a])
      BY <3>1, <3>3, TerminateType
    <3> QED
      BY <2>16, <3>2, <3>3 DEF OrphanRunReturns
  <2>17. ASSUME NEW a \in Attempts, RetryOrArchive(a) PROVE TypeOK'
    BY <2>17, FailTaskType DEF RetryOrArchive, Release
  <2>18. ASSUME NEW a \in Attempts, Abandon(a) PROVE TypeOK'
    BY <2>18 DEF Abandon, Modes
  <2>19. ASSUME NEW a \in Attempts, LeaseExpires(a) PROVE TypeOK'
    BY <2>19 DEF LeaseExpires
  <2>20. ASSUME NEW i \in Instances, Boot(i) PROVE TypeOK'
    BY <2>20 DEF Boot
  <2>21. ASSUME NEW i \in Instances, CheckQueue(i) PROVE TypeOK'
    BY <2>21 DEF CheckQueue
  <2>22. ASSUME NEW i \in Instances, UnpauseQueue(i) PROVE TypeOK'
    <3>1. CASE paused /\ paused' = FALSE /\ life' = [life EXCEPT ![i] = "serving"]
                /\ UNCHANGED <<requestVars, queueVars, rowVars, workerVars, runVars>>
      BY <3>1
    <3>2. CASE ~paused /\ Terminate(i) /\ UNCHANGED paused
      BY <3>2, TerminateType
    <3> QED
      BY <2>22, <3>1, <3>2 DEF UnpauseQueue
  <2>23. ASSUME NEW i \in Instances, PauseQueue(i) PROVE TypeOK'
    BY <2>23 DEF PauseQueue
  <2>24. ASSUME NEW i \in Instances, StopListening(i) PROVE TypeOK'
    BY <2>24 DEF StopListening
  <2>25. ASSUME NEW i \in Instances, Exit(i) PROVE TypeOK'
    BY <2>25, TerminateType DEF Exit
  <2>26. ASSUME NEW i \in Instances, Crash(i) PROVE TypeOK'
    BY <2>26, TerminateType DEF Crash
  <2>27. CASE UNCHANGED vars
    BY <2>27 DEF vars
  <2> QED
    BY <2>1, <2>2, <2>3, <2>4, <2>5, <2>6, <2>7, <2>8, <2>9, <2>10, <2>11, <2>12, <2>13, <2>14, <2>15, <2>16, <2>17, <2>18, <2>19, <2>20, <2>21, <2>22, <2>23, <2>24, <2>25, <2>26, <2>27
    DEF Next, Work, Serve, Process, Start, PlaylistHandler, Worker
<1> QED
  BY <1>1, <1>2, PTL DEF Spec

-----------------------------------------------------------------------------
(* The inductive invariant.                                                 *)

\* Attempts at one task differ in their number.
LEMMA AttemptsDiffer ==
  \A a, b \in Attempts : a.task = b.task /\ a.no = b.no => a = b
BY DEF Attempts

\* The fields of the current attempt at a task.
LEMMA CurrentFields == \A t \in Tasks : Current(t).task = t /\ Current(t).no = retried[t]
BY DEF Current

\* What a worker waits for, by the parts of a run.
LEMMA RunParts ==
  /\ \A r \in Runs : r = RunOf(r.attempt, r.mode)
  /\ \A a \in Attempts, m \in Modes : RunOf(a, m).attempt = a /\ RunOf(a, m).mode = m
BY DEF Runs, RunOf

\* Two runs that are not over are runs of different tasks.
LEMMA OneRun ==
  ASSUME TypeOK, Owned, Leased, Attended,
         NEW r \in Runs, NEW s \in Runs,
         pc[r] # "idle", pc[s] # "idle", TaskOf(r) = TaskOf(s)
  PROVE  r = s
<1>1. /\ worker[r.attempt] # "none" /\ worker[s.attempt] # "none"
      /\ r.mode = "handler" => worker[r.attempt] = "handling"
      /\ s.mode = "handler" => worker[s.attempt] = "handling"
      /\ r.mode = "rescue" => worker[r.attempt] # "handling"
      /\ s.mode = "rescue" => worker[s.attempt] # "handling"
  BY RunsAndAttempts, RunParts DEF Attended, Modes
<1>2. r.attempt = s.attempt
  BY <1>1, RunsAndAttempts, AttemptsDiffer DEF Owned, Leased, TaskOf
<1>3. r.mode = s.mode
  BY <1>1, <1>2, RunsAndAttempts DEF Modes
<1> QED
  BY <1>2, <1>3, RunParts

\* A step keeps every worker under a lease in possession of its task.
LEMMA OwnedStep ==
  ASSUME TypeOK, Owned, [Next]_vars
  PROVE  Owned'
<1> USE RunsAndAttempts DEF TypeOK, Owned
<1>1. ASSUME NEW i \in Instances, NEW t \in Tasks, EnqueueTask(i, t) PROVE Owned'
  <2>1. queue[t] = "none"
    BY <1>1 DEF EnqueueTask
  <2>2. \A u \in Tasks : u # t => queue'[u] = queue[u] /\ req'[u] = req[u]
    BY <1>1 DEF EnqueueTask
  <2>3. req'[t] # "idle" /\ UNCHANGED <<worker, retried, lease>>
    BY <1>1 DEF EnqueueTask
  <2>4. \A b \in Attempts : worker[b] # "none" /\ lease[b] => b.task # t
    BY <2>1
  <2> QED
    BY <2>2, <2>3, <2>4
<1>2. ASSUME NEW i \in Instances, NEW t \in Tasks, DeleteTask(i, t) PROVE Owned'
  BY <1>2 DEF DeleteTask
<1>3. ASSUME NEW i \in Instances, NEW t \in Tasks, Dequeue(i, t) PROVE Owned'
  BY <1>3, CurrentIsAttempt, CurrentFields DEF Dequeue
<1>4. ASSUME NEW t \in Tasks, CreateOrUpdateTask(t) PROVE Owned'
  BY <1>4 DEF CreateOrUpdateTask
<1>5. ASSUME NEW t \in Tasks, Forward(t) PROVE Owned'
  BY <1>5 DEF Forward
<1>6. ASSUME NEW t \in Tasks, Recover(t) PROVE Owned'
  BY <1>6, AttemptsDiffer, CurrentIsAttempt, CurrentFields DEF Recover, FailTask
<1>7. ASSUME NEW r \in Runs, Fetch(r) PROVE Owned'
  BY <1>7 DEF Fetch
<1>8. ASSUME NEW r \in Runs, Convert(r) PROVE Owned'
  BY <1>8 DEF Convert
<1>9. ASSUME NEW r \in Runs, MarkFailed(r) PROVE Owned'
  BY <1>9 DEF MarkFailed
<1>10. ASSUME NEW r \in Runs, StoreError(r) PROVE Owned'
  BY <1>10 DEF StoreError
<1>11. ASSUME NEW r \in Runs, StoreConversion(r) PROVE Owned'
  BY <1>11 DEF StoreConversion
<1>12. ASSUME NEW r \in Runs, MarkCompleted(r) PROVE Owned'
  BY <1>12 DEF MarkCompleted
<1>13. ASSUME NEW a \in Attempts, Done(a) PROVE Owned'
  <2>1. worker[a] # "none"
    BY <1>13 DEF Done
  <2>2. worker' = [worker EXCEPT ![a] = "none"] /\ lease' = [lease EXCEPT ![a] = FALSE]
    BY <1>13 DEF Done, Release
  <2>3. CASE lease[a]
    <3>1. \A b \in Attempts : b.task = a.task /\ worker[b] # "none" /\ lease[b] => b = a
      BY <2>1, <2>3, AttemptsDiffer
    <3>2. UNCHANGED <<req, retried>> /\ queue' = [queue EXCEPT ![a.task] = "completed"]
      BY <1>13, <2>3 DEF Done
    <3>3. req[a.task] # "idle"
      BY <2>1, <2>3
    <3> QED
      BY <2>2, <3>1, <3>2, <3>3 DEF Settled
  <2>4. CASE ~lease[a]
    BY <1>13, <2>2, <2>4 DEF Done
  <2> QED
    BY <2>3, <2>4
<1>14. ASSUME NEW a \in Attempts, HandlerFails(a) PROVE Owned'
  BY <1>14 DEF HandlerFails
<1>15. ASSUME NEW a \in Attempts, ErrorHandler(a) PROVE Owned'
  BY <1>15 DEF ErrorHandler
<1>16. ASSUME NEW a \in Attempts, OrphanRunReturns(a) PROVE Owned'
  <2>1. worker[a] = "orphanRun" /\ UNCHANGED paused
    BY <1>16 DEF OrphanRunReturns
  <2>2. CASE /\ worker' = [worker EXCEPT ![a] = "retrying"]
            /\ MoveTo(RunOf(a, "rescue"), "idle")
            /\ UNCHANGED <<requestVars, queueVars, rowVars, holder, lease, cause, life>>
    BY <2>1, <2>2 DEF MoveTo
  <2>3. CASE Terminate(holder[a])
    BY <2>1, <2>3 DEF Terminate
  <2> QED
    BY <1>16, <2>2, <2>3 DEF OrphanRunReturns
<1>17. ASSUME NEW a \in Attempts, RetryOrArchive(a) PROVE Owned'
  BY <1>17, AttemptsDiffer DEF RetryOrArchive, Release, FailTask, Settled
<1>18. ASSUME NEW a \in Attempts, Abandon(a) PROVE Owned'
  BY <1>18 DEF Abandon
<1>19. ASSUME NEW a \in Attempts, LeaseExpires(a) PROVE Owned'
  BY <1>19 DEF LeaseExpires
<1>20. ASSUME NEW i \in Instances, Boot(i) PROVE Owned'
  BY <1>20 DEF Boot
<1>21. ASSUME NEW i \in Instances, CheckQueue(i) PROVE Owned'
  BY <1>21 DEF CheckQueue
<1>22. ASSUME NEW i \in Instances, UnpauseQueue(i) PROVE Owned'
  <2>1. CASE UNCHANGED <<requestVars, queueVars, rowVars, workerVars, runVars>>
    BY <2>1
  <2>2. CASE Terminate(i)
    BY <2>2 DEF Terminate
  <2> QED
    BY <1>22, <2>1, <2>2 DEF UnpauseQueue
<1>23. ASSUME NEW i \in Instances, PauseQueue(i) PROVE Owned'
  BY <1>23 DEF PauseQueue
<1>24. ASSUME NEW i \in Instances, StopListening(i) PROVE Owned'
  BY <1>24 DEF StopListening
<1>25. ASSUME NEW i \in Instances, Exit(i) PROVE Owned'
  BY <1>25 DEF Exit, Terminate
<1>26. ASSUME NEW i \in Instances, Crash(i) PROVE Owned'
  BY <1>26 DEF Crash, Terminate
<1>27. CASE UNCHANGED vars
  BY <1>27 DEF vars
<1> QED
  BY <1>1, <1>2, <1>3, <1>4, <1>5, <1>6, <1>7, <1>8, <1>9, <1>10, <1>11, <1>12, <1>13, <1>14, <1>15, <1>16, <1>17, <1>18, <1>19, <1>20, <1>21, <1>22, <1>23, <1>24, <1>25, <1>26, <1>27 DEF Next, Work, Serve, Process, Start, PlaylistHandler, Worker

\* No step but a crash takes the lease from a busy worker.
LEMMA LeasedStep ==
  ASSUME TypeOK, ~MayAbandon, Leased, [Next]_vars
  PROVE  Leased'
<1> USE DEF TypeOK, Leased
<1>1. ASSUME NEW i \in Instances, NEW t \in Tasks, EnqueueTask(i, t) PROVE Leased'
  BY <1>1 DEF EnqueueTask
<1>2. ASSUME NEW i \in Instances, NEW t \in Tasks, DeleteTask(i, t) PROVE Leased'
  BY <1>2 DEF DeleteTask
<1>3. ASSUME NEW i \in Instances, NEW t \in Tasks, Dequeue(i, t) PROVE Leased'
  BY <1>3, CurrentIsAttempt DEF Dequeue
<1>4. ASSUME NEW t \in Tasks, CreateOrUpdateTask(t) PROVE Leased'
  BY <1>4 DEF CreateOrUpdateTask
<1>5. ASSUME NEW t \in Tasks, Forward(t) PROVE Leased'
  BY <1>5 DEF Forward
<1>6. ASSUME NEW t \in Tasks, Recover(t) PROVE Leased'
  BY <1>6 DEF Recover
<1>7. ASSUME NEW r \in Runs, Fetch(r) PROVE Leased'
  BY <1>7 DEF Fetch
<1>8. ASSUME NEW r \in Runs, Convert(r) PROVE Leased'
  BY <1>8 DEF Convert
<1>9. ASSUME NEW r \in Runs, MarkFailed(r) PROVE Leased'
  BY <1>9 DEF MarkFailed
<1>10. ASSUME NEW r \in Runs, StoreError(r) PROVE Leased'
  BY <1>10 DEF StoreError
<1>11. ASSUME NEW r \in Runs, StoreConversion(r) PROVE Leased'
  BY <1>11 DEF StoreConversion
<1>12. ASSUME NEW r \in Runs, MarkCompleted(r) PROVE Leased'
  BY <1>12 DEF MarkCompleted
<1>13. ASSUME NEW a \in Attempts, Done(a) PROVE Leased'
  BY <1>13 DEF Done, Release
<1>14. ASSUME NEW a \in Attempts, HandlerFails(a) PROVE Leased'
  BY <1>14 DEF HandlerFails
<1>15. ASSUME NEW a \in Attempts, ErrorHandler(a) PROVE Leased'
  BY <1>15 DEF ErrorHandler
<1>16. ASSUME NEW a \in Attempts, OrphanRunReturns(a) PROVE Leased'
  <2>1. worker[a] = "orphanRun" /\ UNCHANGED paused
    BY <1>16 DEF OrphanRunReturns
  <2>2. CASE /\ worker' = [worker EXCEPT ![a] = "retrying"]
            /\ MoveTo(RunOf(a, "rescue"), "idle")
            /\ UNCHANGED <<requestVars, queueVars, rowVars, holder, lease, cause, life>>
    BY <2>1, <2>2 DEF MoveTo
  <2>3. CASE Terminate(holder[a])
    BY <2>1, <2>3 DEF Terminate
  <2> QED
    BY <1>16, <2>2, <2>3 DEF OrphanRunReturns
<1>17. ASSUME NEW a \in Attempts, RetryOrArchive(a) PROVE Leased'
  BY <1>17 DEF RetryOrArchive, Release
<1>18. ASSUME NEW a \in Attempts, Abandon(a) PROVE Leased'
  BY <1>18 DEF Abandon
<1>19. ASSUME NEW a \in Attempts, LeaseExpires(a) PROVE Leased'
  BY <1>19 DEF LeaseExpires
<1>20. ASSUME NEW i \in Instances, Boot(i) PROVE Leased'
  BY <1>20 DEF Boot
<1>21. ASSUME NEW i \in Instances, CheckQueue(i) PROVE Leased'
  BY <1>21 DEF CheckQueue
<1>22. ASSUME NEW i \in Instances, UnpauseQueue(i) PROVE Leased'
  <2>1. CASE UNCHANGED <<requestVars, queueVars, rowVars, workerVars, runVars>>
    BY <2>1
  <2>2. CASE Terminate(i)
    BY <2>2 DEF Terminate
  <2> QED
    BY <1>22, <2>1, <2>2 DEF UnpauseQueue
<1>23. ASSUME NEW i \in Instances, PauseQueue(i) PROVE Leased'
  BY <1>23 DEF PauseQueue
<1>24. ASSUME NEW i \in Instances, StopListening(i) PROVE Leased'
  BY <1>24 DEF StopListening
<1>25. ASSUME NEW i \in Instances, Exit(i) PROVE Leased'
  BY <1>25 DEF Exit, Terminate
<1>26. ASSUME NEW i \in Instances, Crash(i) PROVE Leased'
  BY <1>26 DEF Crash, Terminate
<1>27. CASE UNCHANGED vars
  BY <1>27 DEF vars
<1> QED
  BY <1>1, <1>2, <1>3, <1>4, <1>5, <1>6, <1>7, <1>8, <1>9, <1>10, <1>11, <1>12, <1>13, <1>14, <1>15, <1>16, <1>17, <1>18, <1>19, <1>20, <1>21, <1>22, <1>23, <1>24, <1>25, <1>26, <1>27 DEF Next, Work, Serve, Process, Start, PlaylistHandler, Worker

\* A step leaves no run behind that its worker does not wait for.
LEMMA AttendedStep ==
  ASSUME TypeOK, ~MayAbandon, Owned, Leased, Attended, [Next]_vars
  PROVE  Attended'
<1> USE RunsAndAttempts DEF TypeOK, Attended, Modes
<1>1. ASSUME NEW i \in Instances, NEW t \in Tasks, EnqueueTask(i, t) PROVE Attended'
  BY <1>1 DEF EnqueueTask
<1>2. ASSUME NEW i \in Instances, NEW t \in Tasks, DeleteTask(i, t) PROVE Attended'
  BY <1>2 DEF DeleteTask
<1>3. ASSUME NEW i \in Instances, NEW t \in Tasks, Dequeue(i, t) PROVE Attended'
  <2> DEFINE c == Current(t)
  <2>1. c \in Attempts /\ c.task = t
    BY CurrentIsAttempt, CurrentFields
  <2>2. worker[c] = "none" /\ pc[RunOf(c, "rescue")] = "idle"
    BY <1>3, <2>1 DEF Dequeue, Owned, Leased
  <2>3. worker' = [worker EXCEPT ![c] = "handling"] /\ pc' = [pc EXCEPT ![RunOf(c, "handler")] = "start"]
    BY <1>3 DEF Dequeue
  <2> HIDE DEF c
  <2> QED
    BY <2>1, <2>2, <2>3, RunParts
<1>4. ASSUME NEW t \in Tasks, CreateOrUpdateTask(t) PROVE Attended'
  BY <1>4 DEF CreateOrUpdateTask
<1>5. ASSUME NEW t \in Tasks, Forward(t) PROVE Attended'
  BY <1>5 DEF Forward
<1>6. ASSUME NEW t \in Tasks, Recover(t) PROVE Attended'
  BY <1>6 DEF Recover
<1>7. ASSUME NEW r \in Runs, Fetch(r) PROVE Attended'
  BY <1>7 DEF Fetch, MoveTo, Return
<1>8. ASSUME NEW r \in Runs, Convert(r) PROVE Attended'
  BY <1>8 DEF Convert, MoveTo, Return
<1>9. ASSUME NEW r \in Runs, MarkFailed(r) PROVE Attended'
  BY <1>9 DEF MarkFailed, MoveTo, Return
<1>10. ASSUME NEW r \in Runs, StoreError(r) PROVE Attended'
  BY <1>10 DEF StoreError, MoveTo, Return
<1>11. ASSUME NEW r \in Runs, StoreConversion(r) PROVE Attended'
  BY <1>11 DEF StoreConversion, MoveTo, Return
<1>12. ASSUME NEW r \in Runs, MarkCompleted(r) PROVE Attended'
  BY <1>12 DEF MarkCompleted, MoveTo, Return
<1>13. ASSUME NEW a \in Attempts, Done(a) PROVE Attended'
  BY <1>13, RunParts DEF Done, MoveTo, Release
<1>14. ASSUME NEW a \in Attempts, HandlerFails(a) PROVE Attended'
  BY <1>14, RunParts DEF HandlerFails, MoveTo
<1>15. ASSUME NEW a \in Attempts, ErrorHandler(a) PROVE Attended'
  <2>1. worker[a] = "failing"
    BY <1>15 DEF ErrorHandler
  <2>2. /\ pc[RunOf(a, "handler")] = "idle"
        /\ pc[RunOf(a, "rescue")] = "idle"
    BY <2>1
  <2>3. CASE worker' = [worker EXCEPT ![a] = "retrying"] /\ UNCHANGED pc
    BY <2>2, <2>3
  <2>4. CASE /\ worker' = [worker EXCEPT ![a] = "orphanRun"]
             /\ pc' = [pc EXCEPT ![RunOf(a, "rescue")] = "start"]
    BY <2>2, <2>4, RunParts
  <2> QED
    BY <1>15, <2>3, <2>4 DEF ErrorHandler, MoveTo
<1>16. ASSUME NEW a \in Attempts, OrphanRunReturns(a) PROVE Attended'
  <2>1. worker[a] = "orphanRun" /\ UNCHANGED paused
    BY <1>16 DEF OrphanRunReturns
  <2>2. CASE /\ worker' = [worker EXCEPT ![a] = "retrying"]
            /\ MoveTo(RunOf(a, "rescue"), "idle")
            /\ UNCHANGED <<requestVars, queueVars, rowVars, holder, lease, cause, life>>
    BY <2>1, <2>2, RunParts DEF MoveTo
  <2>3. CASE Terminate(holder[a])
    BY <2>1, <2>3, RunParts DEF Terminate
  <2> QED
    BY <1>16, <2>2, <2>3 DEF OrphanRunReturns
<1>17. ASSUME NEW a \in Attempts, RetryOrArchive(a) PROVE Attended'
  BY <1>17 DEF RetryOrArchive, Release
<1>18. ASSUME NEW a \in Attempts, Abandon(a) PROVE Attended'
  BY <1>18 DEF Abandon
<1>19. ASSUME NEW a \in Attempts, LeaseExpires(a) PROVE Attended'
  BY <1>19 DEF LeaseExpires
<1>20. ASSUME NEW i \in Instances, Boot(i) PROVE Attended'
  BY <1>20 DEF Boot
<1>21. ASSUME NEW i \in Instances, CheckQueue(i) PROVE Attended'
  BY <1>21 DEF CheckQueue
<1>22. ASSUME NEW i \in Instances, UnpauseQueue(i) PROVE Attended'
  <2>1. CASE UNCHANGED <<requestVars, queueVars, rowVars, workerVars, runVars>>
    BY <2>1
  <2>2. CASE Terminate(i)
    BY <2>2, RunParts DEF Terminate
  <2> QED
    BY <1>22, <2>1, <2>2 DEF UnpauseQueue
<1>23. ASSUME NEW i \in Instances, PauseQueue(i) PROVE Attended'
  BY <1>23 DEF PauseQueue
<1>24. ASSUME NEW i \in Instances, StopListening(i) PROVE Attended'
  BY <1>24 DEF StopListening
<1>25. ASSUME NEW i \in Instances, Exit(i) PROVE Attended'
  BY <1>25, RunParts DEF Exit, Terminate
<1>26. ASSUME NEW i \in Instances, Crash(i) PROVE Attended'
  BY <1>26, RunParts DEF Crash, Terminate
<1>27. CASE UNCHANGED vars
  BY <1>27 DEF vars
<1> QED
  BY <1>1, <1>2, <1>3, <1>4, <1>5, <1>6, <1>7, <1>8, <1>9, <1>10, <1>11, <1>12, <1>13, <1>14, <1>15, <1>16, <1>17, <1>18, <1>19, <1>20, <1>21, <1>22, <1>23, <1>24, <1>25, <1>26, <1>27 DEF Next, Work, Serve, Process, Start, PlaylistHandler, Worker

\* The task of a run that is not over is active, and no other run is at it.
LEMMA RunAlone ==
  ASSUME TypeOK, Owned, Leased, Attended, NEW r \in Runs, pc[r] # "idle"
  PROVE  /\ queue[TaskOf(r)] = "active"
         /\ \A s \in Runs : s # r /\ TaskOf(s) = TaskOf(r) => pc[s] = "idle"
<1>1. worker[r.attempt] # "none"
  BY RunsAndAttempts, RunParts DEF Attended, Modes
<1>2. queue[TaskOf(r)] = "active"
  BY <1>1, RunsAndAttempts DEF Owned, Leased, TaskOf
<1> QED
  BY <1>2, OneRun

\* A step never makes a pending row of a verdict.
LEMMA VerdictsStep ==
  ASSUME TypeOK, Verdicts, [Next]_vars
  PROVE  Verdicts'
<1> USE RunsAndAttempts DEF TypeOK, Verdicts
<1>1. ASSUME NEW i \in Instances, NEW t \in Tasks, EnqueueTask(i, t) PROVE Verdicts'
  BY <1>1 DEF EnqueueTask, RowOf
<1>2. ASSUME NEW i \in Instances, NEW t \in Tasks, DeleteTask(i, t) PROVE Verdicts'
  BY <1>2 DEF DeleteTask, RowOf
<1>3. ASSUME NEW i \in Instances, NEW t \in Tasks, Dequeue(i, t) PROVE Verdicts'
  BY <1>3, CurrentIsAttempt DEF Dequeue, Modes, RowOf
<1>4. ASSUME NEW t \in Tasks, CreateOrUpdateTask(t) PROVE Verdicts'
  BY <1>4 DEF CreateOrUpdateTask, RowOf
<1>5. ASSUME NEW t \in Tasks, Forward(t) PROVE Verdicts'
  BY <1>5 DEF Forward, RowOf
<1>6. ASSUME NEW t \in Tasks, Recover(t) PROVE Verdicts'
  BY <1>6 DEF Recover, FailTask, RowOf
<1>7. ASSUME NEW r \in Runs, Fetch(r) PROVE Verdicts'
  BY <1>7 DEF Fetch, MoveTo, Return, RowOf
<1>8. ASSUME NEW r \in Runs, Convert(r) PROVE Verdicts'
  BY <1>8 DEF Convert, MoveTo, Return, RowOf
<1>9. ASSUME NEW r \in Runs, MarkFailed(r) PROVE Verdicts'
  <2>1. /\ UNCHANGED <<req, queue>>
        /\ \A u \in Tasks : status'[u] # "pending" \/ status'[u] = status[u]
        /\ \A u \in Tasks : RowOf(u) <=> status'[u] # "absent"
        /\ \A s \in Runs : s # r => pc'[s] = pc[s]
    BY <1>9 DEF MarkFailed, SetStatus, MoveTo, Return, RowOf
  <2>2. \/ pc'[r] = "failResult" /\ status'[TaskOf(r)] # "pending"
        \/ pc'[r] \in {"idle", "err"}
    BY <1>9 DEF MarkFailed, SetStatus, MoveTo, Return, RowOf
  <2>3. pc[r] = "failStatus"
    BY <1>9 DEF MarkFailed
  <2> QED
    BY <2>1, <2>2, <2>3 DEF RowOf
<1>10. ASSUME NEW r \in Runs, StoreError(r) PROVE Verdicts'
  BY <1>10 DEF StoreError, MoveTo, Return, RowOf, SetResult
<1>11. ASSUME NEW r \in Runs, StoreConversion(r) PROVE Verdicts'
  BY <1>11 DEF StoreConversion, MoveTo, Return, RowOf, SetResult
<1>12. ASSUME NEW r \in Runs, MarkCompleted(r) PROVE Verdicts'
  BY <1>12 DEF MarkCompleted, MoveTo, Return, RowOf, SetStatus
<1>13. ASSUME NEW a \in Attempts, Done(a) PROVE Verdicts'
  BY <1>13, RunParts DEF Done, Modes, TaskOf, MoveTo, Release, RowOf
<1>14. ASSUME NEW a \in Attempts, HandlerFails(a) PROVE Verdicts'
  BY <1>14 DEF HandlerFails, Modes, MoveTo, RowOf
<1>15. ASSUME NEW a \in Attempts, ErrorHandler(a) PROVE Verdicts'
  BY <1>15 DEF ErrorHandler, Modes, MoveTo, RowOf
<1>16. ASSUME NEW a \in Attempts, OrphanRunReturns(a) PROVE Verdicts'
  <2>1. worker[a] = "orphanRun" /\ UNCHANGED paused
    BY <1>16 DEF OrphanRunReturns
  <2>2. CASE /\ worker' = [worker EXCEPT ![a] = "retrying"]
            /\ MoveTo(RunOf(a, "rescue"), "idle")
            /\ UNCHANGED <<requestVars, queueVars, rowVars, holder, lease, cause, life>>
    BY <2>1, <2>2 DEF Modes, MoveTo, RowOf
  <2>3. CASE Terminate(holder[a])
    BY <2>1, <2>3 DEF Terminate, RowOf
  <2> QED
    BY <1>16, <2>2, <2>3 DEF OrphanRunReturns
<1>17. ASSUME NEW a \in Attempts, RetryOrArchive(a) PROVE Verdicts'
  BY <1>17 DEF RetryOrArchive, Release, FailTask, RowOf
<1>18. ASSUME NEW a \in Attempts, Abandon(a) PROVE Verdicts'
  BY <1>18 DEF Abandon, Modes, Busy, RowOf
<1>19. ASSUME NEW a \in Attempts, LeaseExpires(a) PROVE Verdicts'
  BY <1>19 DEF LeaseExpires, RowOf
<1>20. ASSUME NEW i \in Instances, Boot(i) PROVE Verdicts'
  BY <1>20 DEF Boot, RowOf
<1>21. ASSUME NEW i \in Instances, CheckQueue(i) PROVE Verdicts'
  BY <1>21 DEF CheckQueue, RowOf
<1>22. ASSUME NEW i \in Instances, UnpauseQueue(i) PROVE Verdicts'
  <2>1. CASE UNCHANGED <<requestVars, queueVars, rowVars, workerVars, runVars>>
    BY <2>1 DEF RowOf
  <2>2. CASE Terminate(i)
    BY <2>2 DEF Terminate, RowOf
  <2> QED
    BY <1>22, <2>1, <2>2 DEF UnpauseQueue
<1>23. ASSUME NEW i \in Instances, PauseQueue(i) PROVE Verdicts'
  BY <1>23 DEF PauseQueue, RowOf
<1>24. ASSUME NEW i \in Instances, StopListening(i) PROVE Verdicts'
  BY <1>24 DEF StopListening, RowOf
<1>25. ASSUME NEW i \in Instances, Exit(i) PROVE Verdicts'
  BY <1>25 DEF Exit, Terminate, RowOf
<1>26. ASSUME NEW i \in Instances, Crash(i) PROVE Verdicts'
  BY <1>26 DEF Crash, Terminate, RowOf
<1>27. CASE UNCHANGED vars
  BY <1>27 DEF vars, RowOf
<1> QED
  BY <1>1, <1>2, <1>3, <1>4, <1>5, <1>6, <1>7, <1>8, <1>9, <1>10, <1>11, <1>12, <1>13, <1>14, <1>15, <1>16, <1>17, <1>18, <1>19, <1>20, <1>21, <1>22, <1>23, <1>24, <1>25, <1>26, <1>27 DEF Next, Work, Serve, Process, Start, PlaylistHandler, Worker

\* A step keeps row, runs and queue in agreement.
LEMMA RecordedStep ==
  ASSUME TypeOK, ~MayAbandon, Owned, Verdicts, Leased, Attended, Recorded, [Next]_vars
  PROVE  Recorded'
<1> USE RunsAndAttempts DEF TypeOK, Recorded
<1>1. ASSUME NEW i \in Instances, NEW t \in Tasks, EnqueueTask(i, t) PROVE Recorded'
  BY <1>1 DEF EnqueueTask, RowOf, Consistent
<1>2. ASSUME NEW i \in Instances, NEW t \in Tasks, DeleteTask(i, t) PROVE Recorded'
  BY <1>2 DEF DeleteTask, RowOf, Consistent
<1>3. ASSUME NEW i \in Instances, NEW t \in Tasks, Dequeue(i, t) PROVE Recorded'
  BY <1>3, CurrentIsAttempt DEF Dequeue, Modes, RowOf, Consistent
<1>4. ASSUME NEW t \in Tasks, CreateOrUpdateTask(t) PROVE Recorded'
  <2>1. /\ queue[t] # "completed"
        /\ \A s \in Runs : TaskOf(s) = t => pc[s] \in {"idle", "start", "err"}
    BY <1>4 DEF CreateOrUpdateTask, Verdicts
  <2>2. /\ UNCHANGED <<queue, result, pc>>
        /\ \A u \in Tasks : u # t => status'[u] = status[u]
        /\ status'[t] \in {status[t], "pending"}
    BY <1>4 DEF CreateOrUpdateTask
  <2> QED
    BY <2>1, <2>2 DEF RowOf, Consistent
<1>5. ASSUME NEW t \in Tasks, Forward(t) PROVE Recorded'
  BY <1>5 DEF Forward, RowOf, Consistent
<1>6. ASSUME NEW t \in Tasks, Recover(t) PROVE Recorded'
  BY <1>6 DEF Recover, FailTask, RowOf, Consistent
<1>7. ASSUME NEW r \in Runs, Fetch(r) PROVE Recorded'
  BY <1>7, RunAlone DEF Fetch, MoveTo, Return, RowOf, Consistent
<1>8. ASSUME NEW r \in Runs, Convert(r) PROVE Recorded'
  BY <1>8, RunAlone DEF Convert, MoveTo, Return, RowOf, Consistent
<1>9. ASSUME NEW r \in Runs, MarkFailed(r) PROVE Recorded'
  BY <1>9, RunAlone DEF MarkFailed, MoveTo, Return, RowOf, Consistent, SetStatus
<1>10. ASSUME NEW r \in Runs, StoreError(r) PROVE Recorded'
  <2> DEFINE u == TaskOf(r)
  <2>1. /\ u \in Tasks
        /\ queue[u] = "active"
        /\ \A s \in Runs : s # r /\ TaskOf(s) = u => pc[s] = "idle"
        /\ RowOf(u) => status[u] = "failed"
    BY <1>10, RunAlone DEF StoreError
  <2>2. /\ UNCHANGED <<req, queue, status>>
        /\ \A v \in Tasks : v # u => result'[v] = result[v]
        /\ \A s \in Runs : s # r => pc'[s] = pc[s]
        /\ pc'[r] \in {"idle", "ok", "err"}
    BY <1>10 DEF StoreError, SetResult, Return, MoveTo
  <2>3. pc'[r] = "ok" => RowOf(u) /\ result'[u] \in {"notFound", "error"}
    BY <1>10, ErrorPayloadType DEF StoreError, SetResult, Return, MoveTo
  <2> HIDE DEF u
  <2> QED
    BY <2>1, <2>2, <2>3 DEF u, RowOf, Consistent
<1>11. ASSUME NEW r \in Runs, StoreConversion(r) PROVE Recorded'
  <2> DEFINE u == TaskOf(r)
  <2>1. /\ u \in Tasks
        /\ queue[u] = "active"
        /\ \A s \in Runs : s # r /\ TaskOf(s) = u => pc[s] = "idle"
    BY <1>11, RunAlone DEF StoreConversion
  <2>2. /\ UNCHANGED <<req, queue, status>>
        /\ \A v \in Tasks : v # u => result'[v] = result[v]
        /\ \A s \in Runs : s # r => pc'[s] = pc[s]
        /\ pc'[r] \in {"idle", "err", "convStatus"}
    BY <1>11 DEF StoreConversion, SetResult, Return, MoveTo
  <2>3. /\ result'[u] \in {result[u]} \cup Conversions
        /\ pc'[r] = "convStatus" /\ RowOf(u) => result'[u] \in Conversions
    BY <1>11 DEF StoreConversion, SetResult, Return, MoveTo, Conversions
  <2> HIDE DEF u
  <2>4. \A t \in Tasks : /\ status'[t] = "completed" => result'[t] \in Conversions
                         /\ queue'[t] = "completed" /\ RowOf(t)' => Consistent(t)'
    <3> TAKE t \in Tasks
    <3>1. CASE t = u
      BY <2>1, <2>2, <2>3, <3>1
    <3>2. CASE t # u
      BY <2>2, <3>2 DEF RowOf, Consistent
    <3> QED
      BY <3>1, <3>2
  <2>5. ASSUME NEW s \in Runs
        PROVE  /\ pc'[s] = "failResult" /\ RowOf(TaskOf(s))' => status'[TaskOf(s)] = "failed"
               /\ pc'[s] = "convStatus" /\ RowOf(TaskOf(s))' => result'[TaskOf(s)] \in Conversions
               /\ pc'[s] = "ok" /\ RowOf(TaskOf(s))' => Consistent(TaskOf(s))'
    <3>1. CASE s = r
      BY <2>2, <2>3, <3>1 DEF u, RowOf
    <3>2. CASE s # r /\ TaskOf(s) = u
      BY <2>1, <2>2, <3>2
    <3>3. CASE s # r /\ TaskOf(s) # u
      BY <2>2, <3>3 DEF RowOf, Consistent
    <3> QED
      BY <3>1, <3>2, <3>3
  <2> QED
    BY <2>4, <2>5
<1>12. ASSUME NEW r \in Runs, MarkCompleted(r) PROVE Recorded'
  <2> DEFINE u == TaskOf(r)
  <2>1. /\ u \in Tasks
        /\ queue[u] = "active"
        /\ \A s \in Runs : s # r /\ TaskOf(s) = u => pc[s] = "idle"
        /\ RowOf(u) => result[u] \in Conversions
    BY <1>12, RunAlone DEF MarkCompleted
  <2>2. /\ UNCHANGED <<req, queue, result>>
        /\ \A v \in Tasks : v # u => status'[v] = status[v]
        /\ \A s \in Runs : s # r => pc'[s] = pc[s]
        /\ pc'[r] \in {"idle", "ok", "err"}
    BY <1>12 DEF MarkCompleted, SetStatus, Return, MoveTo
  <2>3. /\ status'[u] \in {status[u], "completed"}
        /\ RowOf(u)' => RowOf(u)
        /\ pc'[r] = "ok" /\ RowOf(u) => status'[u] = "completed"
    BY <1>12 DEF MarkCompleted, SetStatus, Return, MoveTo, RowOf
  <2> HIDE DEF u
  <2>4. \A t \in Tasks : /\ status'[t] = "completed" => result'[t] \in Conversions
                         /\ queue'[t] = "completed" /\ RowOf(t)' => Consistent(t)'
    <3> TAKE t \in Tasks
    <3>1. CASE t = u
      BY <2>1, <2>2, <2>3, <3>1 DEF RowOf
    <3>2. CASE t # u
      BY <2>2, <3>2 DEF RowOf, Consistent
    <3> QED
      BY <3>1, <3>2
  <2>5. ASSUME NEW s \in Runs
        PROVE  /\ pc'[s] = "failResult" /\ RowOf(TaskOf(s))' => status'[TaskOf(s)] = "failed"
               /\ pc'[s] = "convStatus" /\ RowOf(TaskOf(s))' => result'[TaskOf(s)] \in Conversions
               /\ pc'[s] = "ok" /\ RowOf(TaskOf(s))' => Consistent(TaskOf(s))'
    <3>1. CASE s = r
      BY <2>1, <2>2, <2>3, <3>1 DEF u, RowOf, Consistent
    <3>2. CASE s # r /\ TaskOf(s) = u
      BY <2>1, <2>2, <3>2
    <3>3. CASE s # r /\ TaskOf(s) # u
      BY <2>2, <3>3 DEF RowOf, Consistent
    <3> QED
      BY <3>1, <3>2, <3>3
  <2> QED
    BY <2>4, <2>5
<1>13. ASSUME NEW a \in Attempts, Done(a) PROVE Recorded'
  BY <1>13, RunAlone, RunParts DEF Done, Modes, TaskOf, MoveTo, Release, RowOf, Consistent
<1>14. ASSUME NEW a \in Attempts, HandlerFails(a) PROVE Recorded'
  BY <1>14 DEF HandlerFails, Modes, MoveTo, RowOf, Consistent
<1>15. ASSUME NEW a \in Attempts, ErrorHandler(a) PROVE Recorded'
  BY <1>15 DEF ErrorHandler, Modes, MoveTo, RowOf, Consistent
<1>16. ASSUME NEW a \in Attempts, OrphanRunReturns(a) PROVE Recorded'
  <2>1. worker[a] = "orphanRun" /\ UNCHANGED paused
    BY <1>16 DEF OrphanRunReturns
  <2>2. CASE /\ worker' = [worker EXCEPT ![a] = "retrying"]
            /\ MoveTo(RunOf(a, "rescue"), "idle")
            /\ UNCHANGED <<requestVars, queueVars, rowVars, holder, lease, cause, life>>
    BY <2>1, <2>2 DEF Modes, MoveTo, RowOf, Consistent
  <2>3. CASE Terminate(holder[a])
    BY <2>1, <2>3 DEF Terminate, RowOf, Consistent
  <2> QED
    BY <1>16, <2>2, <2>3 DEF OrphanRunReturns
<1>17. ASSUME NEW a \in Attempts, RetryOrArchive(a) PROVE Recorded'
  BY <1>17 DEF RetryOrArchive, Release, FailTask, RowOf, Consistent
<1>18. ASSUME NEW a \in Attempts, Abandon(a) PROVE Recorded'
  BY <1>18 DEF Abandon, RowOf, Consistent
<1>19. ASSUME NEW a \in Attempts, LeaseExpires(a) PROVE Recorded'
  BY <1>19 DEF LeaseExpires, RowOf, Consistent
<1>20. ASSUME NEW i \in Instances, Boot(i) PROVE Recorded'
  BY <1>20 DEF Boot, RowOf, Consistent
<1>21. ASSUME NEW i \in Instances, CheckQueue(i) PROVE Recorded'
  BY <1>21 DEF CheckQueue, RowOf, Consistent
<1>22. ASSUME NEW i \in Instances, UnpauseQueue(i) PROVE Recorded'
  <2>1. CASE UNCHANGED <<requestVars, queueVars, rowVars, workerVars, runVars>>
    BY <2>1 DEF RowOf, Consistent
  <2>2. CASE Terminate(i)
    BY <2>2 DEF Terminate, RowOf, Consistent
  <2> QED
    BY <1>22, <2>1, <2>2 DEF UnpauseQueue
<1>23. ASSUME NEW i \in Instances, PauseQueue(i) PROVE Recorded'
  BY <1>23 DEF PauseQueue, RowOf, Consistent
<1>24. ASSUME NEW i \in Instances, StopListening(i) PROVE Recorded'
  BY <1>24 DEF StopListening, RowOf, Consistent
<1>25. ASSUME NEW i \in Instances, Exit(i) PROVE Recorded'
  BY <1>25 DEF Exit, Terminate, RowOf, Consistent
<1>26. ASSUME NEW i \in Instances, Crash(i) PROVE Recorded'
  BY <1>26 DEF Crash, Terminate, RowOf, Consistent
<1>27. CASE UNCHANGED vars
  BY <1>27 DEF vars, RowOf, Consistent
<1> QED
  BY <1>1, <1>2, <1>3, <1>4, <1>5, <1>6, <1>7, <1>8, <1>9, <1>10, <1>11, <1>12, <1>13, <1>14, <1>15, <1>16, <1>17, <1>18, <1>19, <1>20, <1>21, <1>22, <1>23, <1>24, <1>25, <1>26, <1>27 DEF Next, Work, Serve, Process, Start, PlaylistHandler, Worker

-----------------------------------------------------------------------------
\* IInv holds initially and is kept by every step.
LEMMA IInvInvariant == Spec => []IInv
<1>1. Init => Owned /\ Verdicts /\ Leased /\ Attended /\ Recorded
  BY RunsAndAttempts DEF Init, Verdicts, Owned, Leased, Attended, Recorded, Modes, RowOf, Consistent
<1>2. IInv /\ TypeOK' /\ [Next]_vars => IInv'
  BY OwnedStep, VerdictsStep, LeasedStep, AttendedStep, RecordedStep DEF IInv
<1>3. Init /\ TypeOK => IInv
  BY <1>1 DEF IInv
<1> QED
  BY <1>2, <1>3, TypeCorrect, PTL DEF Spec

\* Without abandoned handlers no task is converted twice at the same time.
THEOREM OneRun_AtATime == Spec => []OneRunAtATime
<1>1. IInv => OneRunAtATime
  BY OneRun DEF IInv, OneRunAtATime, Busy
<1> QED
  BY <1>1, IInvInvariant, PTL

\* Without abandoned handlers a completed row holds its conversion.
THEOREM Completed_HasConversion == Spec => []CompletedHasConversion
<1>1. IInv => CompletedHasConversion
  BY DEF IInv, Recorded, CompletedHasConversion
<1> QED
  BY <1>1, IInvInvariant, PTL

\* A task the queue keeps as completed has a verdict, and without abandoned
\* handlers status and result agree.
THEOREM QueueDone_MeansRecorded == Spec => []QueueDoneMeansRecorded
<1>1. IInv => QueueDoneMeansRecorded
  BY DEF IInv, Verdicts, Recorded, QueueDoneMeansRecorded
<1> QED
  BY <1>1, IInvInvariant, PTL


\* A step leaves the tasks the queue is done with to themselves.
LEMMA SettledStep ==
  ASSUME TypeOK, Owned, [Next]_vars
  PROVE  \A u \in Tasks : queue[u] \in Settled => queue'[u] = queue[u]
<1> USE RunsAndAttempts DEF TypeOK, Owned, Settled
<1>1. ASSUME NEW i \in Instances, NEW t \in Tasks, EnqueueTask(i, t) PROVE \A u \in Tasks : queue[u] \in Settled => queue'[u] = queue[u]
  <2>1. queue[t] = "none"
    BY <1>1 DEF EnqueueTask
  <2> QED
    BY <1>1, <2>1 DEF EnqueueTask
<1>2. ASSUME NEW i \in Instances, NEW t \in Tasks, DeleteTask(i, t) PROVE \A u \in Tasks : queue[u] \in Settled => queue'[u] = queue[u]
  BY <1>2 DEF DeleteTask
<1>3. ASSUME NEW i \in Instances, NEW t \in Tasks, Dequeue(i, t) PROVE \A u \in Tasks : queue[u] \in Settled => queue'[u] = queue[u]
  BY <1>3 DEF Dequeue
<1>4. ASSUME NEW t \in Tasks, CreateOrUpdateTask(t) PROVE \A u \in Tasks : queue[u] \in Settled => queue'[u] = queue[u]
  BY <1>4 DEF CreateOrUpdateTask
<1>5. ASSUME NEW t \in Tasks, Forward(t) PROVE \A u \in Tasks : queue[u] \in Settled => queue'[u] = queue[u]
  BY <1>5 DEF Forward
<1>6. ASSUME NEW t \in Tasks, Recover(t) PROVE \A u \in Tasks : queue[u] \in Settled => queue'[u] = queue[u]
  BY <1>6 DEF Recover, FailTask
<1>7. ASSUME NEW r \in Runs, Fetch(r) PROVE \A u \in Tasks : queue[u] \in Settled => queue'[u] = queue[u]
  BY <1>7 DEF Fetch
<1>8. ASSUME NEW r \in Runs, Convert(r) PROVE \A u \in Tasks : queue[u] \in Settled => queue'[u] = queue[u]
  BY <1>8 DEF Convert
<1>9. ASSUME NEW r \in Runs, MarkFailed(r) PROVE \A u \in Tasks : queue[u] \in Settled => queue'[u] = queue[u]
  BY <1>9 DEF MarkFailed
<1>10. ASSUME NEW r \in Runs, StoreError(r) PROVE \A u \in Tasks : queue[u] \in Settled => queue'[u] = queue[u]
  BY <1>10 DEF StoreError
<1>11. ASSUME NEW r \in Runs, StoreConversion(r) PROVE \A u \in Tasks : queue[u] \in Settled => queue'[u] = queue[u]
  BY <1>11 DEF StoreConversion
<1>12. ASSUME NEW r \in Runs, MarkCompleted(r) PROVE \A u \in Tasks : queue[u] \in Settled => queue'[u] = queue[u]
  BY <1>12 DEF MarkCompleted
<1>13. ASSUME NEW a \in Attempts, Done(a) PROVE \A u \in Tasks : queue[u] \in Settled => queue'[u] = queue[u]
  BY <1>13 DEF Done
<1>14. ASSUME NEW a \in Attempts, HandlerFails(a) PROVE \A u \in Tasks : queue[u] \in Settled => queue'[u] = queue[u]
  BY <1>14 DEF HandlerFails
<1>15. ASSUME NEW a \in Attempts, ErrorHandler(a) PROVE \A u \in Tasks : queue[u] \in Settled => queue'[u] = queue[u]
  BY <1>15 DEF ErrorHandler
<1>16. ASSUME NEW a \in Attempts, OrphanRunReturns(a) PROVE \A u \in Tasks : queue[u] \in Settled => queue'[u] = queue[u]
  BY <1>16 DEF OrphanRunReturns, Terminate
<1>17. ASSUME NEW a \in Attempts, RetryOrArchive(a) PROVE \A u \in Tasks : queue[u] \in Settled => queue'[u] = queue[u]
  BY <1>17 DEF RetryOrArchive, FailTask
<1>18. ASSUME NEW a \in Attempts, Abandon(a) PROVE \A u \in Tasks : queue[u] \in Settled => queue'[u] = queue[u]
  BY <1>18 DEF Abandon
<1>19. ASSUME NEW a \in Attempts, LeaseExpires(a) PROVE \A u \in Tasks : queue[u] \in Settled => queue'[u] = queue[u]
  BY <1>19 DEF LeaseExpires
<1>20. ASSUME NEW i \in Instances, Boot(i) PROVE \A u \in Tasks : queue[u] \in Settled => queue'[u] = queue[u]
  BY <1>20 DEF Boot
<1>21. ASSUME NEW i \in Instances, CheckQueue(i) PROVE \A u \in Tasks : queue[u] \in Settled => queue'[u] = queue[u]
  BY <1>21 DEF CheckQueue
<1>22. ASSUME NEW i \in Instances, UnpauseQueue(i) PROVE \A u \in Tasks : queue[u] \in Settled => queue'[u] = queue[u]
  BY <1>22 DEF UnpauseQueue, Terminate
<1>23. ASSUME NEW i \in Instances, PauseQueue(i) PROVE \A u \in Tasks : queue[u] \in Settled => queue'[u] = queue[u]
  BY <1>23 DEF PauseQueue
<1>24. ASSUME NEW i \in Instances, StopListening(i) PROVE \A u \in Tasks : queue[u] \in Settled => queue'[u] = queue[u]
  BY <1>24 DEF StopListening
<1>25. ASSUME NEW i \in Instances, Exit(i) PROVE \A u \in Tasks : queue[u] \in Settled => queue'[u] = queue[u]
  BY <1>25 DEF Exit, Terminate
<1>26. ASSUME NEW i \in Instances, Crash(i) PROVE \A u \in Tasks : queue[u] \in Settled => queue'[u] = queue[u]
  BY <1>26 DEF Crash, Terminate
<1>27. CASE UNCHANGED vars
  BY <1>27 DEF vars
<1> QED
  BY <1>1, <1>2, <1>3, <1>4, <1>5, <1>6, <1>7, <1>8, <1>9, <1>10, <1>11, <1>12, <1>13, <1>14, <1>15, <1>16, <1>17, <1>18, <1>19, <1>20, <1>21, <1>22, <1>23, <1>24, <1>25, <1>26, <1>27 DEF Next, Work, Serve, Process, Start, PlaylistHandler, Worker

\* What the queue completed or archived stays so, abandoned handlers or not.
THEOREM Queue_NeverReopens == Spec => QueueNeverReopens
<1>1. IInv /\ [Next]_vars => [\A t \in Tasks : queue[t] \in Settled => queue'[t] = queue[t]]_vars
  BY SettledStep DEF IInv
<1> QED
  BY <1>1, IInvInvariant, PTL DEF Spec, QueueNeverReopens


\* A step of a lone instance never leaves it serving with its queue paused.
LEMMA UnpausedUntilToldStep ==
  ASSUME TypeOK, UnpausedUntilTold, [Next]_vars
  PROVE  UnpausedUntilTold'
<1> USE DEF TypeOK, UnpausedUntilTold
<1>1. ASSUME NEW i \in Instances, NEW t \in Tasks, EnqueueTask(i, t) PROVE UnpausedUntilTold'
  BY <1>1 DEF EnqueueTask
<1>2. ASSUME NEW i \in Instances, NEW t \in Tasks, DeleteTask(i, t) PROVE UnpausedUntilTold'
  BY <1>2 DEF DeleteTask
<1>3. ASSUME NEW i \in Instances, NEW t \in Tasks, Dequeue(i, t) PROVE UnpausedUntilTold'
  BY <1>3 DEF Dequeue
<1>4. ASSUME NEW t \in Tasks, CreateOrUpdateTask(t) PROVE UnpausedUntilTold'
  BY <1>4 DEF CreateOrUpdateTask
<1>5. ASSUME NEW t \in Tasks, Forward(t) PROVE UnpausedUntilTold'
  BY <1>5 DEF Forward
<1>6. ASSUME NEW t \in Tasks, Recover(t) PROVE UnpausedUntilTold'
  BY <1>6 DEF Recover
<1>7. ASSUME NEW r \in Runs, Fetch(r) PROVE UnpausedUntilTold'
  BY <1>7 DEF Fetch
<1>8. ASSUME NEW r \in Runs, Convert(r) PROVE UnpausedUntilTold'
  BY <1>8 DEF Convert
<1>9. ASSUME NEW r \in Runs, MarkFailed(r) PROVE UnpausedUntilTold'
  BY <1>9 DEF MarkFailed
<1>10. ASSUME NEW r \in Runs, StoreError(r) PROVE UnpausedUntilTold'
  BY <1>10 DEF StoreError
<1>11. ASSUME NEW r \in Runs, StoreConversion(r) PROVE UnpausedUntilTold'
  BY <1>11 DEF StoreConversion
<1>12. ASSUME NEW r \in Runs, MarkCompleted(r) PROVE UnpausedUntilTold'
  BY <1>12 DEF MarkCompleted
<1>13. ASSUME NEW a \in Attempts, Done(a) PROVE UnpausedUntilTold'
  BY <1>13 DEF Done
<1>14. ASSUME NEW a \in Attempts, HandlerFails(a) PROVE UnpausedUntilTold'
  BY <1>14 DEF HandlerFails
<1>15. ASSUME NEW a \in Attempts, ErrorHandler(a) PROVE UnpausedUntilTold'
  BY <1>15 DEF ErrorHandler
<1>16. ASSUME NEW a \in Attempts, OrphanRunReturns(a) PROVE UnpausedUntilTold'
  BY <1>16 DEF OrphanRunReturns, Terminate
<1>17. ASSUME NEW a \in Attempts, RetryOrArchive(a) PROVE UnpausedUntilTold'
  BY <1>17 DEF RetryOrArchive
<1>18. ASSUME NEW a \in Attempts, Abandon(a) PROVE UnpausedUntilTold'
  BY <1>18 DEF Abandon
<1>19. ASSUME NEW a \in Attempts, LeaseExpires(a) PROVE UnpausedUntilTold'
  BY <1>19 DEF LeaseExpires
<1>20. ASSUME NEW i \in Instances, Boot(i) PROVE UnpausedUntilTold'
  BY <1>20 DEF Boot
<1>21. ASSUME NEW i \in Instances, CheckQueue(i) PROVE UnpausedUntilTold'
  BY <1>21 DEF CheckQueue
<1>22. ASSUME NEW i \in Instances, UnpauseQueue(i) PROVE UnpausedUntilTold'
  BY <1>22 DEF UnpauseQueue, Terminate
<1>23. ASSUME NEW i \in Instances, PauseQueue(i) PROVE UnpausedUntilTold'
  BY <1>23 DEF PauseQueue
<1>24. ASSUME NEW i \in Instances, StopListening(i) PROVE UnpausedUntilTold'
  BY <1>24 DEF StopListening
<1>25. ASSUME NEW i \in Instances, Exit(i) PROVE UnpausedUntilTold'
  BY <1>25 DEF Exit, Terminate
<1>26. ASSUME NEW i \in Instances, Crash(i) PROVE UnpausedUntilTold'
  BY <1>26 DEF Crash, Terminate
<1>27. CASE UNCHANGED vars
  BY <1>27 DEF vars
<1> QED
  BY <1>1, <1>2, <1>3, <1>4, <1>5, <1>6, <1>7, <1>8, <1>9, <1>10, <1>11, <1>12, <1>13, <1>14, <1>15, <1>16, <1>17, <1>18, <1>19, <1>20, <1>21, <1>22, <1>23, <1>24, <1>25, <1>26, <1>27 DEF Next, Work, Serve, Process, Start, PlaylistHandler, Worker

\* A lone instance never serves with its queue paused.
THEOREM Unpaused_UntilTold == Spec => []UnpausedUntilTold
<1>1. Init => UnpausedUntilTold
  BY DEF Init, UnpausedUntilTold
<1>2. TypeOK /\ UnpausedUntilTold /\ [Next]_vars => UnpausedUntilTold'
  BY UnpausedUntilToldStep
<1> QED
  BY <1>1, <1>2, TypeCorrect, PTL DEF Spec
=============================================================================
