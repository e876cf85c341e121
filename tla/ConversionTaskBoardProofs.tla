--------------------- MODULE ConversionTaskBoardProofs ---------------------
(***************************************************************************)
(* ConversionTask implements TaskBoard, for any number of tasks, instances *)
(* and retries, as long as no worker gives up on a running handler.        *)
(***************************************************************************)
EXTENDS ConversionTaskProofs

USE DEF requestVars, queueVars, rowVars, workerVars, runVars

\* What the board shows of a task.
Seen(t) == <<TaskView(t), ShownPending(t), QueueOutcome(t)>>

\* A step that changes no task's view and outcome is none of the board's.
LEMMA BoardStutters ==
  ASSUME \A t \in Tasks : Seen(t)' = Seen(t)
  PROVE  UNCHANGED Board!boardVars
<1>1. \A t \in Tasks : /\ TaskView(t)' = TaskView(t)
                       /\ ShownPending(t)' = ShownPending(t)
                       /\ QueueOutcome(t)' = QueueOutcome(t)
  BY DEF Seen
<1> QED
  BY <1>1 DEF Board!boardVars

\* A step that changes only task t is one of the board's if the view and the
\* outcome of t change as the board allows.
LEMMA BoardMoves ==
  ASSUME NEW t \in Tasks,
         \A u \in Tasks : u # t => Seen(u)' = Seen(u),
         \/ /\ QueueOutcome(t)' = QueueOutcome(t)
            /\ \/ /\ TaskView(t) = "unknown" /\ TaskView(t)' = "pending"
                  /\ ShownPending(t)' = ShownPending(t)
               \/ /\ TaskView(t) \in {"pending", "failed", "completed"}
                  /\ \/ TaskView(t)' = "deleted" /\ ~ShownPending(t)'
                     \/ /\ QueueOutcome(t) = "open"
                        /\ \/ TaskView(t)' \in {"failed", "completed"} /\ ~ShownPending(t)'
                           \/ TaskView(t)' = "pending" /\ ShownPending(t)'
         \/ /\ TaskView(t)' = TaskView(t) /\ ShownPending(t)' = ShownPending(t)
            /\ QueueOutcome(t) = "open"
            /\ \/ QueueOutcome(t)' = "dropped"
               \/ /\ QueueOutcome(t)' = "done"
                  /\ TaskView(t) \in {"failed", "completed", "deleted"} \/ ShownPending(t)
  PROVE  Board!BoardNext
<1> DEFINE v == [u \in Tasks |-> TaskView(u)]
           b == {u \in Tasks : ShownPending(u)}
           o == [u \in Tasks |-> QueueOutcome(u)]
<1>1. /\ v' = [v EXCEPT ![t] = TaskView(t)']
      /\ o' = [o EXCEPT ![t] = QueueOutcome(t)']
      /\ v[t] = TaskView(t) /\ o[t] = QueueOutcome(t)
      /\ t \in b <=> ShownPending(t)
  BY DEF Seen
<1>2. /\ QueueOutcome(t)' = QueueOutcome(t) => o' = o
      /\ TaskView(t)' = TaskView(t) => v' = v
  BY DEF Seen
<1>3. \A u \in Tasks : u # t => ShownPending(u)' = ShownPending(u)
  BY DEF Seen
<1>4. /\ ShownPending(t)' => b' = b \cup {t}
      /\ ~ShownPending(t)' => b' = b \ {t}
      /\ ShownPending(t)' = ShownPending(t) => b' = b
  BY <1>3
<1> QED
  BY <1>1, <1>2, <1>4
  DEF Board!BoardNext, Board!Accept, Board!Report, Board!ReportBlank, Board!Reported,
      Board!Forget, Board!Close, Board!Drop

\* A step that touches neither rows nor the queue, and that accepts no request,
\* is not seen.
LEMMA NotSeen ==
  ASSUME TypeOK, UNCHANGED <<status, result, queue>>,
         \A t \in Tasks : req'[t] = "accepted" <=> req[t] = "accepted"
  PROVE  \A t \in Tasks : Seen(t)' = Seen(t)
BY DEF TypeOK, Seen, TaskView, ShownPending, QueueOutcome

\* A step is seen of a task only through its row, its request and its queue state.
LEMMA SeenOf ==
  ASSUME NEW t \in Tasks,
         status'[t] = status[t], result'[t] = result[t], queue'[t] = queue[t], req'[t] = req[t]
  PROVE  Seen(t)' = Seen(t)
BY DEF Seen, TaskView, ShownPending, QueueOutcome

\* An attempt at a task that fails drops the task or leaves it open.
LEMMA FailTaskMoves ==
  ASSUME TypeOK, NEW t \in Tasks, queue[t] = "active", FailTask(t), UNCHANGED <<req, status, result>>
  PROVE  [Board!BoardNext]_(Board!boardVars)
<1>1. \A u \in Tasks : u # t => Seen(u)' = Seen(u)
  BY SeenOf DEF TypeOK, FailTask
<1>2. TaskView(t)' = TaskView(t) /\ ShownPending(t)' = ShownPending(t)
  BY DEF TaskView, ShownPending
<1>3. QueueOutcome(t) = "open"
  BY DEF QueueOutcome
<1>4. QueueOutcome(t)' \in {"open", "dropped"}
  BY DEF TypeOK, FailTask, QueueOutcome
<1>5. CASE QueueOutcome(t)' = "open"
  BY <1>1, <1>2, <1>3, <1>5, BoardStutters DEF Seen
<1>6. CASE QueueOutcome(t)' = "dropped"
  BY <1>1, <1>2, <1>3, <1>6, BoardMoves
<1> QED
  BY <1>4, <1>5, <1>6

-----------------------------------------------------------------------------
\* Every step is one of the board's or is not seen.
LEMMA BoardStep ==
  ASSUME ~MayAbandon, IInv, [Next]_vars
  PROVE  [Board!BoardNext]_(Board!boardVars)
<1> DEFINE Step == [Board!BoardNext]_(Board!boardVars)
<1> SUFFICES Step
  OBVIOUS
<1>a. /\ TypeOK /\ Owned /\ Verdicts /\ Leased /\ Attended /\ Recorded
  BY DEF IInv
<1>b. ASSUME \A t \in Tasks : Seen(t)' = Seen(t) PROVE Step
  BY <1>b, BoardStutters
<1>c. ASSUME UNCHANGED <<status, result, queue>>,
             \A t \in Tasks : req'[t] = "accepted" <=> req[t] = "accepted"
      PROVE  Step
  BY <1>a, <1>b, <1>c, NotSeen
<1>d. ASSUME NEW i, Terminate(i) PROVE Step
  <2>1. \A t \in Tasks : req'[t] = "accepted" <=> req[t] = "accepted"
    BY <1>d DEF Terminate
  <2> QED
    BY <1>c, <1>d, <2>1 DEF Terminate
<1> HIDE DEF Step
<1> USE <1>a, RunsAndAttempts
<1>1. ASSUME NEW i \in Instances, NEW t \in Tasks, EnqueueTask(i, t) PROVE Step
  <2>1. \A u \in Tasks : u # t => Seen(u)' = Seen(u)
    BY <1>1, SeenOf DEF EnqueueTask, TypeOK
  <2>2. queue[t] = "none" /\ queue'[t] \in {"none", "scheduled"}
    BY <1>1 DEF EnqueueTask, Owned, TypeOK
  <2>3. req[t] # "accepted" /\ req'[t] # "accepted" /\ UNCHANGED <<status, result>>
    BY <1>1 DEF EnqueueTask, TypeOK
  <2>4. Seen(t)' = Seen(t)
    BY <2>2, <2>3 DEF Seen, TaskView, ShownPending, QueueOutcome
  <2> QED
    BY <2>1, <2>4, <1>b
<1>2. ASSUME NEW i \in Instances, NEW t \in Tasks, DeleteTask(i, t) PROVE Step
  <2>1. \A u \in Tasks : u # t => Seen(u)' = Seen(u)
    BY <1>2, SeenOf DEF DeleteTask, TypeOK
  <2>2. /\ TaskView(t) \in {"pending", "failed", "completed"}
        /\ TaskView(t)' = "deleted" /\ ~ShownPending(t)'
        /\ QueueOutcome(t)' = QueueOutcome(t)
    BY <1>2 DEF DeleteTask, TypeOK, TaskView, ShownPending, QueueOutcome, RowOf
  <2> QED
    BY <2>1, <2>2, BoardMoves DEF Step
<1>3. ASSUME NEW i \in Instances, NEW t \in Tasks, Dequeue(i, t) PROVE Step
  <2>1. \A u \in Tasks : QueueOutcome(u)' = QueueOutcome(u)
    BY <1>3 DEF Dequeue, TypeOK, QueueOutcome
  <2>2. \A u \in Tasks : TaskView(u)' = TaskView(u) /\ ShownPending(u)' = ShownPending(u)
    BY <1>3 DEF Dequeue, TaskView, ShownPending
  <2> QED
    BY <2>1, <2>2, <1>b DEF Seen
<1>4. ASSUME NEW t \in Tasks, CreateOrUpdateTask(t) PROVE Step
  <2>1. \A u \in Tasks : u # t => Seen(u)' = Seen(u)
    BY <1>4, SeenOf DEF CreateOrUpdateTask, TypeOK
  <2>2. TaskView(t) = "unknown" /\ ~ShownPending(t) /\ QueueOutcome(t)' = QueueOutcome(t)
    BY <1>4 DEF CreateOrUpdateTask, Verdicts, TaskView, ShownPending, QueueOutcome, RowOf
  <2>3. CASE status'[t] = "pending"
    <3>1. TaskView(t)' = "pending" /\ ~ShownPending(t)'
      BY <2>3 DEF TaskView, ShownPending
    <3>2. ShownPending(t)' = ShownPending(t)
      BY <2>2, <3>1 DEF ShownPending
    <3> QED
      BY <2>1, <2>2, <3>1, <3>2, BoardMoves DEF Step
  <2>4. CASE status'[t] # "pending"
    <3>1. status'[t] = "absent" /\ req'[t] = "rejected"
      BY <1>4, <2>4 DEF CreateOrUpdateTask, Verdicts, TypeOK, RowOf
    <3>2. TaskView(t)' = "unknown"
      BY <3>1 DEF TaskView
    <3>3. ShownPending(t)' = ShownPending(t)
      BY <2>2, <3>1 DEF ShownPending
    <3> QED
      BY <2>1, <2>2, <3>2, <3>3, <1>b DEF Seen
  <2> QED
    BY <2>3, <2>4
<1>5. ASSUME NEW t \in Tasks, Forward(t) PROVE Step
  <2>1. \A u \in Tasks : QueueOutcome(u)' = QueueOutcome(u)
    BY <1>5 DEF Forward, TypeOK, QueueOutcome
  <2>2. \A u \in Tasks : TaskView(u)' = TaskView(u) /\ ShownPending(u)' = ShownPending(u)
    BY <1>5 DEF Forward, TaskView, ShownPending
  <2> QED
    BY <2>1, <2>2, <1>b DEF Seen
<1>6. ASSUME NEW t \in Tasks, Recover(t) PROVE Step
  BY <1>6, FailTaskMoves DEF Recover, Step
<1>7. ASSUME NEW r \in Runs, Fetch(r) PROVE Step
  BY <1>7, <1>c DEF Fetch
<1>8. ASSUME NEW r \in Runs, Convert(r) PROVE Step
  BY <1>8, <1>c DEF Convert
<1>9. ASSUME NEW r \in Runs, MarkFailed(r) PROVE Step
  <2> DEFINE u == TaskOf(r)
  <2>1. u \in Tasks /\ QueueOutcome(u) = "open"
    BY <1>9, RunAlone DEF MarkFailed, QueueOutcome
  <2>2. \A w \in Tasks : w # u => Seen(w)' = Seen(w)
    BY <1>9, SeenOf DEF MarkFailed, SetStatus, TypeOK
  <2>3. CASE status'[u] = status[u]
    BY <1>9, <2>1, <2>2, <2>3, SeenOf, <1>b DEF MarkFailed
  <2>4. CASE status'[u] # status[u]
    <3>1. RowOf(u) /\ status'[u] = "failed" /\ UNCHANGED <<queue, result, req>>
      BY <1>9, <2>4 DEF MarkFailed, SetStatus, TypeOK
    <3>2. TaskView(u) \in {"pending", "failed", "completed"} /\ TaskView(u)' = "failed" /\ ~ShownPending(u)'
      BY <2>1, <3>1 DEF TaskView, ShownPending, RowOf, TypeOK
    <3>3. QueueOutcome(u)' = QueueOutcome(u)
      BY <3>1 DEF QueueOutcome
    <3> HIDE DEF u
    <3> QED
      BY <2>1, <2>2, <3>2, <3>3, BoardMoves DEF Step
  <2> QED
    BY <2>3, <2>4
<1>10. ASSUME NEW r \in Runs, StoreError(r) PROVE Step
  <2> DEFINE u == TaskOf(r)
  <2>1. u \in Tasks /\ status[u] \in {"absent", "failed"}
    BY <1>10 DEF StoreError, Recorded, RowOf
  <2>2. UNCHANGED <<status, queue, req>> /\ \A w \in Tasks : w # u => result'[w] = result[w]
    BY <1>10 DEF StoreError, SetResult, TypeOK
  <2>3. Seen(u)' = Seen(u)
    BY <2>1, <2>2 DEF Seen, TaskView, ShownPending, QueueOutcome
  <2> QED
    BY <2>2, <2>3, SeenOf, <1>b
<1>11. ASSUME NEW r \in Runs, StoreConversion(r) PROVE Step
  <2> DEFINE u == TaskOf(r)
  <2>1. u \in Tasks /\ QueueOutcome(u) = "open"
    BY <1>11, RunAlone DEF StoreConversion, QueueOutcome
  <2>2. UNCHANGED <<status, queue, req>> /\ \A w \in Tasks : w # u => result'[w] = result[w]
    BY <1>11 DEF StoreConversion, SetResult, TypeOK
  <2>3. \A w \in Tasks : w # u => Seen(w)' = Seen(w)
    BY <2>2, SeenOf
  <2>4. QueueOutcome(u)' = QueueOutcome(u)
    BY <2>2 DEF QueueOutcome
  <2> HIDE DEF u
  <2>5. CASE status[u] # "completed"
    <3>1. TaskView(u)' = TaskView(u) /\ ShownPending(u)' = ShownPending(u)
      BY <2>1, <2>2, <2>5 DEF TaskView, ShownPending, TypeOK
    <3> QED
      BY <2>3, <2>4, <3>1, <1>b DEF Seen
  <2>6. CASE status[u] = "completed"
    <3>1. TaskView(u) \in {"pending", "completed"}
      BY <2>6 DEF TaskView
    <3>2. \/ TaskView(u)' = "completed" /\ ~ShownPending(u)'
          \/ TaskView(u)' = "pending" /\ ShownPending(u)'
      BY <2>2, <2>6 DEF TaskView, ShownPending
    <3> QED
      BY <2>1, <2>3, <2>4, <3>1, <3>2, BoardMoves DEF Step
  <2> QED
    BY <2>5, <2>6
<1>12. ASSUME NEW r \in Runs, MarkCompleted(r) PROVE Step
  <2> DEFINE u == TaskOf(r)
  <2>1. u \in Tasks /\ QueueOutcome(u) = "open"
    BY <1>12, RunAlone DEF MarkCompleted, QueueOutcome
  <2>2. \A w \in Tasks : w # u => Seen(w)' = Seen(w)
    BY <1>12, SeenOf DEF MarkCompleted, SetStatus, TypeOK
  <2>3. CASE status'[u] = status[u]
    BY <1>12, <2>1, <2>2, <2>3, SeenOf, <1>b DEF MarkCompleted
  <2>4. CASE status'[u] # status[u]
    <3>1. RowOf(u) /\ status'[u] = "completed" /\ UNCHANGED <<queue, result, req>>
      BY <1>12, <2>4 DEF MarkCompleted, SetStatus, TypeOK
    <3>2. TaskView(u) \in {"pending", "failed", "completed"}
      BY <2>1, <3>1 DEF TaskView, RowOf, TypeOK
    <3>3. QueueOutcome(u)' = QueueOutcome(u)
      BY <3>1 DEF QueueOutcome
    <3>4. \/ TaskView(u)' = "completed" /\ ~ShownPending(u)'
          \/ TaskView(u)' = "pending" /\ ShownPending(u)'
      BY <3>1 DEF TaskView, ShownPending
    <3> HIDE DEF u
    <3> QED
      BY <2>1, <2>2, <3>2, <3>3, <3>4, BoardMoves DEF Step
  <2> QED
    BY <2>3, <2>4
<1>13. ASSUME NEW a \in Attempts, Done(a) PROVE Step
  <2> DEFINE u == a.task
              r == RunOf(a, "handler")
  <2>1. u \in Tasks /\ r \in Runs /\ TaskOf(r) = u /\ pc[r] = "ok" /\ lease[a] /\ queue[u] = "active"
    BY <1>13, RunParts DEF Done, Modes, TaskOf, Leased, Owned
  <2>2. queue' = [queue EXCEPT ![u] = "completed"] /\ UNCHANGED <<status, result, req>>
    BY <1>13, <2>1 DEF Done
  <2>3. \A w \in Tasks : w # u => Seen(w)' = Seen(w)
    BY <2>2, SeenOf DEF TypeOK
  <2>4. /\ TaskView(u) \in {"failed", "completed", "deleted"} \/ ShownPending(u)
        /\ TaskView(u)' = TaskView(u) /\ ShownPending(u)' = ShownPending(u)
    BY <2>1, <2>2 DEF Verdicts, Recorded, Consistent, RowOf, TaskView, ShownPending, TypeOK
  <2>5. QueueOutcome(u) = "open" /\ QueueOutcome(u)' = "done"
    BY <2>1, <2>2 DEF QueueOutcome, TypeOK
  <2> HIDE DEF u
  <2> QED
    BY <2>1, <2>3, <2>4, <2>5, BoardMoves DEF Step
<1>14. ASSUME NEW a \in Attempts, HandlerFails(a) PROVE Step
  BY <1>14, <1>c DEF HandlerFails
<1>15. ASSUME NEW a \in Attempts, ErrorHandler(a) PROVE Step
  BY <1>15, <1>c DEF ErrorHandler
<1>16. ASSUME NEW a \in Attempts, OrphanRunReturns(a) PROVE Step
  BY <1>16, <1>c, <1>d DEF OrphanRunReturns
<1>17. ASSUME NEW a \in Attempts, RetryOrArchive(a) PROVE Step
  <2>1. lease[a] /\ queue[a.task] = "active" /\ a.task \in Tasks
    BY <1>17 DEF RetryOrArchive, Leased, Owned
  <2> QED
    BY <1>17, <2>1, FailTaskMoves DEF RetryOrArchive, Step
<1>18. ASSUME NEW a \in Attempts, Abandon(a) PROVE Step
  BY <1>18, <1>c DEF Abandon
<1>19. ASSUME NEW a \in Attempts, LeaseExpires(a) PROVE Step
  BY <1>19, <1>c DEF LeaseExpires
<1>20. ASSUME NEW i \in Instances, Boot(i) PROVE Step
  BY <1>20, <1>c DEF Boot
<1>21. ASSUME NEW i \in Instances, CheckQueue(i) PROVE Step
  BY <1>21, <1>c DEF CheckQueue
<1>22. ASSUME NEW i \in Instances, UnpauseQueue(i) PROVE Step
  BY <1>22, <1>c, <1>d DEF UnpauseQueue
<1>23. ASSUME NEW i \in Instances, PauseQueue(i) PROVE Step
  BY <1>23, <1>c DEF PauseQueue
<1>24. ASSUME NEW i \in Instances, StopListening(i) PROVE Step
  BY <1>24, <1>c DEF StopListening
<1>25. ASSUME NEW i \in Instances, Exit(i) PROVE Step
  BY <1>25, <1>d DEF Exit
<1>26. ASSUME NEW i \in Instances, Crash(i) PROVE Step
  BY <1>26, <1>d DEF Crash
<1>27. CASE UNCHANGED vars
  BY <1>27, <1>c DEF vars
<1> QED
  BY <1>1, <1>2, <1>3, <1>4, <1>5, <1>6, <1>7, <1>8, <1>9, <1>10, <1>11, <1>12, <1>13, <1>14, <1>15, <1>16, <1>17, <1>18, <1>19, <1>20, <1>21, <1>22, <1>23, <1>24, <1>25, <1>26, <1>27 DEF Next, Work, Serve, Process, Start, PlaylistHandler, Worker

\* Without abandoned handlers, the queue, its retries, its recovery and the row
\* together show clients the task board.
THEOREM Implements_TaskBoard ==
  ASSUME ~MayAbandon
  PROVE  Spec => ImplementsTaskBoard
<1>1. Init => Board!BoardInit
  <2> SUFFICES ASSUME Init PROVE Board!BoardInit
    OBVIOUS
  <2>1. \A t \in Tasks : TaskView(t) = "unknown" /\ ~ShownPending(t) /\ QueueOutcome(t) = "open"
    BY DEF Init, TaskView, ShownPending, QueueOutcome
  <2> QED
    BY <2>1 DEF Board!BoardInit
<1>2. IInv /\ [Next]_vars => [Board!BoardNext]_(Board!boardVars)
  BY BoardStep
<1> QED
  BY <1>1, <1>2, IInvInvariant, PTL DEF Spec, ImplementsTaskBoard, Board!BoardSpec
=============================================================================
