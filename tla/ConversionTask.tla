-------------------------- MODULE ConversionTask --------------------------
(***************************************************************************)
(* The life of a playlist conversion task of orchdio, across               *)
(*   - the HTTP request that queues it and then inserts its row,           *)
(*   - the asynq queue in Redis, shared by all instances of the server,    *)
(*   - the worker that runs its handler, the queue's error handler, which  *)
(*     converts the playlist itself, and asynq's retries and recovery,     *)
(*   - the task's row in Postgres (status and result), and                 *)
(*   - the start, the shutdown and the crash of server instances.          *)
(* asynq is not part of the repository: its actions are modelled from how  *)
(* the server configures and uses it.                                      *)
(***************************************************************************)
EXTENDS Integers

CONSTANTS
  Tasks,          \* tasks that clients ask for
  Instances,      \* server processes that share Redis and Postgres
  NoInstance,     \* "no process"
  MaxRetry,       \* asynq.MaxRetry of a conversion task
  MayAbandon,     \* may a worker give up on a handler that is still running
  StoresMayFail   \* may a call to Postgres or Redis return an error

ASSUME MaxRetryAssumption == MaxRetry \in Nat
ASSUME NoInstanceAssumption == NoInstance \notin Instances
ASSUME FailureAssumption == MayAbandon \in BOOLEAN /\ StoresMayFail \in BOOLEAN

VARIABLES
  req,      \* the HTTP request of each task
  server,   \* the instance that serves this request
  queue,    \* the state of the task in asynq
  retried,  \* how often asynq has retried the task
  paused,   \* is the conversion queue paused
  status,   \* the task's row: its status ("absent": no row) ...
  result,   \* ... and its result
  worker,   \* the asynq worker of each attempt at a task
  holder,   \* the instance this worker runs in
  lease,    \* does the worker hold asynq's lease on the task
  pc,       \* where each run of PlaylistHandler is
  cause,    \* why the conversion of this run failed
  life      \* the phase of each instance

requestVars == <<req, server>>
queueVars   == <<queue, retried>>
rowVars     == <<status, result>>
workerVars  == <<worker, holder, lease>>
runVars     == <<pc, cause>>
vars == <<requestVars, queueVars, paused, rowVars, workerVars, runVars, life>>

-----------------------------------------------------------------------------
\* asynq delivers a task at most MaxRetry + 1 times; each delivery is an
\* attempt.  PlaylistHandler runs in the goroutine of the task handler and, if
\* that fails, in the worker's own goroutine on behalf of the error handler.
Attempts == [task : Tasks, no : 0 .. MaxRetry]
Modes    == {"handler", "rescue"}
Runs     == [attempt : Attempts, mode : Modes]

RunOf(a, m) == [attempt |-> a, mode |-> m]
TaskOf(r)   == r.attempt.task
Current(t)  == [task |-> t, no |-> retried[t]]

Up(i)      == life[i] # "down"
SomeoneUp  == \E i \in Instances : Up(i)
RowOf(t)   == status[t] # "absent"
Settled    == {"completed", "archived"}

\* An instance answers requests until it exits: the shutdown pauses the queue
\* before it stops listening, and it waits for the requests that are open then.
Answering  == {"serving", "leaving", "stopping"}

\* Between its first and its last database call a run is busy.
Busy == {"start", "convert", "failStatus", "failResult", "convResult", "convStatus"}

\* What a successful conversion may have produced.  Deezer answers some errors
\* with status 200 and no error check: the playlist read from such a body has
\* no URL and no tracks, and its conversion is blank.
Conversions == {"conversion", "blank"}

\* The payload PlaylistHandler stores for a failed conversion.  It asks whether
\* the error is EnoResult, but AsynqConvertPlaylist formats the error of the
\* playlist's lookup into a new one, which is not EnoResult any more.
ReportedError(e) == "other"
ErrorPayload(e)  == IF e = "noresult" THEN "notFound" ELSE "error"

Init ==
  /\ req     = [t \in Tasks |-> "idle"]
  /\ server  = [t \in Tasks |-> NoInstance]
  /\ queue   = [t \in Tasks |-> "none"]
  /\ retried = [t \in Tasks |-> 0]
  /\ paused  = FALSE
  /\ status  = [t \in Tasks |-> "absent"]
  /\ result  = [t \in Tasks |-> "null"]
  /\ worker  = [a \in Attempts |-> "none"]
  /\ holder  = [a \in Attempts |-> NoInstance]
  /\ lease   = [a \in Attempts |-> FALSE]
  /\ pc      = [r \in Runs |-> "idle"]
  /\ cause   = [r \in Runs |-> "none"]
  /\ life    = [i \in Instances |-> "down"]

-----------------------------------------------------------------------------
(* The request: ConvertPlaylist, DeletePlaylistTask.                        *)

\* The task is queued before its row exists.  An error answer leaves it queued
\* when only the acknowledgement was lost.
EnqueueTask(i, t) ==
  /\ life[i] \in Answering
  /\ req[t] = "idle"
  /\ \/ /\ queue' = [queue EXCEPT ![t] = "scheduled"]
        /\ req' = [req EXCEPT ![t] = "enqueued"]
     \/ /\ StoresMayFail
        /\ queue' \in {queue, [queue EXCEPT ![t] = "scheduled"]}
        /\ req' = [req EXCEPT ![t] = "rejected"]
  /\ server' = [server EXCEPT ![t] = i]
  /\ UNCHANGED <<retried, paused, rowVars, workerVars, runVars, life>>

\* Mutant: a client's retry may insert the row again, which resets its status.
CreateOrUpdateTaskAgain(t) ==
  /\ req[t] \in {"enqueued", "accepted"}
  /\ status' = [status EXCEPT ![t] = "pending"]
  /\ req' = [req EXCEPT ![t] = "accepted"]
  /\ UNCHANGED <<server, queueVars, paused, result, workerVars, runVars, life>>

\* The row is inserted with the default status; a failed insert answers 500
\* and leaves the task in the queue.
CreateOrUpdateTask(t) ==
  /\ req[t] = "enqueued"
  /\ \/ /\ status' = [status EXCEPT ![t] = "pending"]
        /\ req' = [req EXCEPT ![t] = "accepted"]
     \/ /\ StoresMayFail
        /\ status' \in {status, [status EXCEPT ![t] = "pending"]}
        /\ req' = [req EXCEPT ![t] = "rejected"]
  /\ UNCHANGED <<server, queueVars, paused, result, workerVars, runVars, life>>

\* Only a client that was given the id of a task deletes it.
DeleteTask(i, t) ==
  /\ life[i] \in Answering
  /\ req[t] = "accepted"
  /\ RowOf(t)
  /\ status' = [status EXCEPT ![t] = "absent"]
  /\ result' = [result EXCEPT ![t] = "null"]
  /\ UNCHANGED <<requestVars, queueVars, paused, workerVars, runVars, life>>

-----------------------------------------------------------------------------
(* asynq's delivery.                                                        *)

\* The forwarder of any process moves a due task to the pending list.
Forward(t) ==
  /\ SomeoneUp
  /\ queue[t] \in {"scheduled", "retry"}
  /\ queue' = [queue EXCEPT ![t] = "pending"]
  /\ UNCHANGED <<requestVars, retried, paused, rowVars, workerVars, runVars, life>>

\* A worker takes the task and starts PlaylistTaskHandler in a goroutine.
\* Workers run from the moment the process has started, whatever its phase.
Dequeue(i, t) ==
  /\ Up(i)
  /\ ~paused
  /\ queue[t] = "pending"
  /\ queue'  = [queue EXCEPT ![t] = "active"]
  /\ worker' = [worker EXCEPT ![Current(t)] = "handling"]
  /\ holder' = [holder EXCEPT ![Current(t)] = i]
  /\ lease'  = [lease EXCEPT ![Current(t)] = TRUE]
  /\ pc'     = [pc EXCEPT ![RunOf(Current(t), "handler")] = "start"]
  /\ UNCHANGED <<requestVars, retried, paused, rowVars, cause, life>>

-----------------------------------------------------------------------------
(* PlaylistHandler, one database call or one conversion at a time.          *)

MoveTo(r, label) == pc' = [pc EXCEPT ![r] = label]

\* A run returns.  Nobody waits for a handler its worker gave up on.
Awaited(r) == r.mode = "rescue" \/ worker[r.attempt] = "handling"

Return(r, verdict) ==
  /\ MoveTo(r, IF Awaited(r) THEN verdict ELSE "idle")
  /\ cause' = [cause EXCEPT ![r] = "none"]

\* Updates of an absent row change nothing.
SetStatus(t, s) == status' = [status EXCEPT ![t] = IF RowOf(t) THEN s ELSE @]
SetResult(t, p) == result' = [result EXCEPT ![t] = IF RowOf(t) THEN p ELSE @]

\* Mutant: a task that cannot be fetched is skipped but marked as done.
FetchSkips(r) ==
  /\ pc[r] = "start"
  /\ \/ RowOf(TaskOf(r)) /\ MoveTo(r, "convert") /\ UNCHANGED cause
     \/ (~RowOf(TaskOf(r)) \/ StoresMayFail) /\ Return(r, "ok")
  /\ UNCHANGED <<requestVars, queueVars, paused, rowVars, workerVars, life>>

\* FetchApp and FetchTask: a missing row and a failed query end the run.
Fetch(r) ==
  /\ pc[r] = "start"
  /\ \/ RowOf(TaskOf(r)) /\ MoveTo(r, "convert") /\ UNCHANGED cause
     \/ (~RowOf(TaskOf(r)) \/ StoresMayFail) /\ Return(r, "err")
  /\ UNCHANGED <<requestVars, queueVars, paused, rowVars, workerVars, life>>

\* universal.ConvertPlaylist.  A panic in the handler's goroutine is an error
\* to asynq; in the error handler's it ends the process (Crash).
Convert(r) ==
  /\ pc[r] = "convert"
  /\ \/ MoveTo(r, "convResult") /\ UNCHANGED cause
     \/ /\ MoveTo(r, "failStatus")
        /\ \E e \in {"noresult", "other"} : cause' = [cause EXCEPT ![r] = e]
     \/ r.mode = "handler" /\ Return(r, "err")
  /\ UNCHANGED <<requestVars, queueVars, paused, rowVars, workerVars, life>>

\* A failed conversion: first the status, then the error payload.
MarkFailed(r) ==
  /\ pc[r] = "failStatus"
  /\ \/ /\ SetStatus(TaskOf(r), "failed")
        /\ MoveTo(r, "failResult")
        /\ UNCHANGED cause
     \/ /\ StoresMayFail
        /\ SetStatus(TaskOf(r), "failed") \/ UNCHANGED status
        /\ Return(r, "err")
  /\ UNCHANGED <<requestVars, queueVars, paused, result, workerVars, life>>

StoreError(r) ==
  /\ pc[r] = "failResult"
  /\ \/ /\ RowOf(TaskOf(r))
        /\ SetResult(TaskOf(r), ErrorPayload(ReportedError(cause[r])))
        /\ Return(r, "ok")
     \/ /\ ~RowOf(TaskOf(r)) \/ StoresMayFail
        /\ \/ SetResult(TaskOf(r), ErrorPayload(ReportedError(cause[r])))
           \/ UNCHANGED result
        /\ Return(r, "err")
  /\ UNCHANGED <<requestVars, queueVars, paused, status, workerVars, life>>

\* Mutant: the error of the result's update is only logged.
StoreConversionGoesOn(r) ==
  /\ pc[r] = "convResult"
  /\ \/ \E c \in Conversions : SetResult(TaskOf(r), c)
     \/ StoresMayFail /\ UNCHANGED result
  /\ MoveTo(r, "convStatus")
  /\ UNCHANGED <<requestVars, queueVars, paused, status, workerVars, cause, life>>

\* A successful conversion: first the result, then the status.
StoreConversion(r) ==
  /\ pc[r] = "convResult"
  /\ \/ /\ RowOf(TaskOf(r))
        /\ \E c \in Conversions : SetResult(TaskOf(r), c)
        /\ MoveTo(r, "convStatus")
        /\ UNCHANGED cause
     \/ /\ ~RowOf(TaskOf(r)) \/ StoresMayFail
        /\ (\E c \in Conversions : SetResult(TaskOf(r), c)) \/ UNCHANGED result
        /\ Return(r, "err")
  /\ UNCHANGED <<requestVars, queueVars, paused, status, workerVars, life>>

MarkCompleted(r) ==
  /\ pc[r] = "convStatus"
  /\ \/ SetStatus(TaskOf(r), "completed") /\ Return(r, "ok")
     \/ /\ StoresMayFail
        /\ SetStatus(TaskOf(r), "completed") \/ UNCHANGED status
        /\ Return(r, "err")
  /\ UNCHANGED <<requestVars, queueVars, paused, result, workerVars, life>>

PlaylistHandler(r) == \/ Fetch(r) \/ Convert(r)
                      \/ MarkFailed(r) \/ StoreError(r)
                      \/ StoreConversion(r) \/ MarkCompleted(r)

-----------------------------------------------------------------------------
(* The worker of an attempt.                                                *)

\* The worker is free again and its lease is given up.
Release(a) == /\ worker' = [worker EXCEPT ![a] = "none"]
              /\ lease'  = [lease EXCEPT ![a] = FALSE]

\* The handler returned nil: asynq keeps the task as completed, unless the
\* worker lost its lease.
Done(a) ==
  /\ worker[a] = "handling"
  /\ pc[RunOf(a, "handler")] = "ok"
  /\ queue' = IF lease[a] THEN [queue EXCEPT ![a.task] = "completed"] ELSE queue
  /\ Release(a)
  /\ MoveTo(RunOf(a, "handler"), "idle")
  /\ UNCHANGED <<requestVars, retried, paused, rowVars, holder, cause, life>>

\* The handler returned an error (the middleware turns every error into
\* EnoResult): asynq calls the server's ErrorHandler before it retries.
HandlerFails(a) ==
  /\ worker[a] = "handling"
  /\ pc[RunOf(a, "handler")] = "err"
  /\ worker' = [worker EXCEPT ![a] = "failing"]
  /\ MoveTo(RunOf(a, "handler"), "idle")
  /\ UNCHANGED <<requestVars, queueVars, paused, rowVars, holder, lease, cause, life>>

\* The task's timeout or the loss of the lease ends the wait for the handler,
\* which ignores its context and keeps running.
Abandon(a) ==
  /\ MayAbandon
  /\ worker[a] = "handling"
  /\ worker' = [worker EXCEPT ![a] = "failing"]
  /\ pc' = [pc EXCEPT ![RunOf(a, "handler")] = IF @ \in Busy THEN @ ELSE "idle"]
  /\ UNCHANGED <<requestVars, queueVars, paused, rowVars, holder, lease, cause, life>>

LeaseExpires(a) ==
  /\ MayAbandon
  /\ lease[a]
  /\ worker[a] # "none"
  /\ lease' = [lease EXCEPT ![a] = FALSE]
  /\ UNCHANGED <<requestVars, queueVars, paused, rowVars, worker, holder, runVars, life>>

\* Mutant: the error handler converts in a goroutine of its own.
ErrorHandlerForks(a) ==
  /\ worker[a] = "failing"
  /\ worker' = [worker EXCEPT ![a] = "retrying"]
  /\ IF paused
     THEN paused' = FALSE /\ UNCHANGED pc
     ELSE MoveTo(RunOf(a, "rescue"), "start") /\ UNCHANGED paused
  /\ UNCHANGED <<requestVars, queueVars, rowVars, holder, lease, cause, life>>

\* ErrorHandler of a conversion task.  It stops at a failed queue lookup,
\* it stops after unpausing a paused queue, and it converts otherwise.
ErrorHandler(a) ==
  /\ worker[a] = "failing"
  /\ \/ /\ StoresMayFail
        /\ worker' = [worker EXCEPT ![a] = "retrying"]
        /\ UNCHANGED <<paused, pc>>
     \/ /\ paused
        /\ paused' = FALSE
        /\ worker' = [worker EXCEPT ![a] = "retrying"]
        /\ UNCHANGED pc
     \/ /\ ~paused
        /\ worker' = [worker EXCEPT ![a] = "orphanRun"]
        /\ MoveTo(RunOf(a, "rescue"), "start")
        /\ UNCHANGED paused
  /\ UNCHANGED <<requestVars, queueVars, rowVars, holder, lease, cause, life>>

\* Everything that runs in a process ends with it.  Its leases run out.
Terminate(i) ==
  LET Held(a) == holder[a] = i
  IN /\ life'   = [life EXCEPT ![i] = "down"]
     /\ req'    = [t \in Tasks |-> IF server[t] = i /\ req[t] = "enqueued"
                                   THEN "aborted" ELSE req[t]]
     /\ worker' = [a \in Attempts |-> IF Held(a) THEN "none" ELSE worker[a]]
     /\ holder' = [a \in Attempts |-> IF Held(a) THEN NoInstance ELSE holder[a]]
     /\ lease'  = [a \in Attempts |-> IF Held(a) THEN FALSE ELSE lease[a]]
     /\ pc'     = [r \in Runs |-> IF Held(r.attempt) THEN "idle" ELSE pc[r]]
     /\ cause'  = [r \in Runs |-> IF Held(r.attempt) THEN "none" ELSE cause[r]]
     /\ UNCHANGED <<server, queueVars, rowVars>>

\* Mutant: the error handler is over only when its conversion succeeded.
OrphanRunSucceeds(a) ==
  /\ worker[a] = "orphanRun"
  /\ pc[RunOf(a, "rescue")] = "ok"
  /\ Terminate(holder[a])
  /\ UNCHANGED paused

\* The error handler's conversion returned.  Its error is only logged.  After a
\* success the code asks the task for its ResultWriter, which is nil in the copy
\* of the task that asynq gives an error handler: nobody recovers from this
\* panic in the worker's own goroutine, and the process dies.
OrphanRunReturns(a) ==
  /\ worker[a] = "orphanRun"
  /\ \/ /\ pc[RunOf(a, "rescue")] = "err"
        /\ worker' = [worker EXCEPT ![a] = "retrying"]
        /\ MoveTo(RunOf(a, "rescue"), "idle")
        /\ UNCHANGED <<requestVars, queueVars, rowVars, holder, lease, cause, life>>
     \/ /\ pc[RunOf(a, "rescue")] = "ok"
        /\ Terminate(holder[a])
  /\ UNCHANGED paused

\* Mutant: one retry too many.
FailTaskLate(t) ==
  IF retried[t] > MaxRetry
  THEN /\ queue' = [queue EXCEPT ![t] = "archived"]
       /\ UNCHANGED retried
  ELSE /\ queue' = [queue EXCEPT ![t] = "retry"]
       /\ retried' = [retried EXCEPT ![t] = @ + 1]

\* What becomes of a task whose attempt failed.
FailTask(t) ==
  IF retried[t] >= MaxRetry
  THEN /\ queue' = [queue EXCEPT ![t] = "archived"]
       /\ UNCHANGED retried
  ELSE /\ queue' = [queue EXCEPT ![t] = "retry"]
       /\ retried' = [retried EXCEPT ![t] = @ + 1]

\* Mutant: the task is failed even if the lease is lost.
RetryOrArchiveUnleased(a) ==
  /\ worker[a] = "retrying"
  /\ FailTask(a.task)
  /\ Release(a)
  /\ UNCHANGED <<requestVars, paused, rowVars, holder, runVars, life>>

\* Whatever ErrorHandler did, asynq retries the task or archives it; without
\* the lease it leaves this to the recoverer.
RetryOrArchive(a) ==
  /\ worker[a] = "retrying"
  /\ IF lease[a] THEN FailTask(a.task) ELSE UNCHANGED queueVars
  /\ Release(a)
  /\ UNCHANGED <<requestVars, paused, rowVars, holder, runVars, life>>

Worker(a) == \/ Done(a) \/ HandlerFails(a) \/ ErrorHandler(a)
             \/ OrphanRunReturns(a) \/ RetryOrArchive(a)

\* The recoverer of any process fails the active tasks whose lease ran out.
Recover(t) ==
  /\ SomeoneUp
  /\ queue[t] = "active"
  /\ ~lease[Current(t)]
  /\ FailTask(t)
  /\ UNCHANGED <<requestVars, paused, rowVars, workerVars, runVars, life>>

-----------------------------------------------------------------------------
(* Start, shutdown and crash of an instance.                                *)

\* main starts asynq's workers first ...
Boot(i) ==
  /\ life[i] = "down"
  /\ life' = [life EXCEPT ![i] = "booting"]
  /\ UNCHANGED <<requestVars, queueVars, paused, rowVars, workerVars, runVars>>

\* Mutant: the queue is taken to be running.
CheckQueueNever(i) ==
  /\ life[i] = "booting"
  /\ life' = [life EXCEPT ![i] = "serving"]
  /\ UNCHANGED <<requestVars, queueVars, paused, rowVars, workerVars, runVars>>

\* ... then looks whether the queue is paused ...
CheckQueue(i) ==
  /\ life[i] = "booting"
  /\ life' = [life EXCEPT ![i] = IF paused THEN "unpausing" ELSE "serving"]
  /\ UNCHANGED <<requestVars, queueVars, paused, rowVars, workerVars, runVars>>

\* ... and unpauses it; unpausing a queue that is not paused (another instance
\* was faster) is an error, and an error makes main return.
UnpauseQueue(i) ==
  /\ life[i] = "unpausing"
  /\ \/ /\ paused
        /\ paused' = FALSE
        /\ life' = [life EXCEPT ![i] = "serving"]
        /\ UNCHANGED <<requestVars, queueVars, rowVars, workerVars, runVars>>
     \/ /\ ~paused
        /\ Terminate(i)
        /\ UNCHANGED paused

\* SIGINT or SIGTERM: first the shared queue is paused, while the instance goes
\* on serving ...
PauseQueue(i) ==
  /\ life[i] = "serving"
  /\ paused' = TRUE \/ (StoresMayFail /\ UNCHANGED paused)
  /\ life' = [life EXCEPT ![i] = "leaving"]
  /\ UNCHANGED <<requestVars, queueVars, rowVars, workerVars, runVars>>

\* ... then, even if that failed, app.Shutdown stops listening ...
StopListening(i) ==
  /\ life[i] = "leaving"
  /\ life' = [life EXCEPT ![i] = "stopping"]
  /\ UNCHANGED <<requestVars, queueVars, paused, rowVars, workerVars, runVars>>

\* ... and waits for the open requests.  The asynq server is never shut
\* down: its workers end with the process.
Exit(i) ==
  /\ life[i] = "stopping"
  /\ \A t \in Tasks : server[t] = i => req[t] # "enqueued"
  /\ Terminate(i)
  /\ UNCHANGED paused

\* A kill, a panic outside the goroutine asynq recovers, the SIGKILL fiber's
\* error handler sends to a queue server, or an error while starting.
Crash(i) ==
  /\ Up(i)
  /\ Terminate(i)
  /\ UNCHANGED paused

-----------------------------------------------------------------------------
Serve(i, t) == EnqueueTask(i, t) \/ DeleteTask(i, t) \/ Dequeue(i, t)

\* An instance comes up.
Start(i) == Boot(i) \/ CheckQueue(i) \/ UnpauseQueue(i)

Process(i) == Start(i) \/ PauseQueue(i) \/ StopListening(i) \/ Exit(i) \/ Crash(i)

\* All that happens while instances are up.
Work ==
  \/ \E i \in Instances, t \in Tasks : Serve(i, t)
  \/ \E t \in Tasks : CreateOrUpdateTask(t) \/ Forward(t) \/ Recover(t)
  \/ \E r \in Runs : PlaylistHandler(r)
  \/ \E a \in Attempts : Worker(a) \/ Abandon(a) \/ LeaseExpires(a)

Next == Work \/ \E i \in Instances : Process(i)

Spec == Init /\ [][Next]_vars

\* asynq's forwarder, recoverer and workers poll for as long as a process
\* lives, and goroutines that are not blocked go on.
Fairness ==
  /\ \A t \in Tasks : /\ WF_vars(Forward(t))
                      /\ WF_vars(Recover(t))
                      /\ WF_vars(\E i \in Instances : Dequeue(i, t))
  /\ \A r \in Runs : WF_vars(PlaylistHandler(r))
  /\ \A a \in Attempts : WF_vars(Worker(a))

FairSpec == Spec /\ Fairness

\* Nobody stops or kills an instance: what ends one is its own code.
UndisturbedSpec == Init /\ [][Work \/ \E i \in Instances : Start(i)]_vars

-----------------------------------------------------------------------------
(* What polling a task answers: GetPlaylistTask.                            *)

\* A completed row whose result has no playlist URL is shown as pending.
ShownPending(t) == status[t] = "completed" /\ result[t] # "conversion"

TaskView(t) ==
  CASE status[t] = "absent"    -> IF req[t] = "accepted" THEN "deleted" ELSE "unknown"
    [] status[t] = "pending"   -> "pending"
    [] status[t] = "failed"    -> "failed"
    [] status[t] = "completed" -> IF ShownPending(t) THEN "pending" ELSE "completed"

QueueOutcome(t) ==
  CASE queue[t] = "completed" -> "done"
    [] queue[t] = "archived"  -> "dropped"
    [] OTHER                  -> "open"

-----------------------------------------------------------------------------
(* Properties.                                                              *)

\* The type of the state.
TypeOK ==
  /\ req \in [Tasks -> {"idle", "enqueued", "accepted", "rejected", "aborted"}]
  /\ server \in [Tasks -> Instances \cup {NoInstance}]
  /\ queue \in [Tasks -> {"none", "scheduled", "pending", "active", "retry"} \cup Settled]
  /\ retried \in [Tasks -> 0 .. MaxRetry]
  /\ paused \in BOOLEAN
  /\ status \in [Tasks -> {"absent", "pending", "failed", "completed"}]
  /\ result \in [Tasks -> {"null", "notFound", "error"} \cup Conversions]
  /\ worker \in [Attempts -> {"none", "handling", "failing", "orphanRun", "retrying"}]
  /\ holder \in [Attempts -> Instances \cup {NoInstance}]
  /\ lease \in [Attempts -> BOOLEAN]
  /\ pc \in [Runs -> Busy \cup {"idle", "ok", "err"}]
  /\ cause \in [Runs -> {"none", "noresult", "other"}]
  /\ life \in [Instances -> {"down", "booting", "unpausing"} \cup Answering]

\* As long as no worker gives up on a running handler, the handler, the
\* conversion of the error handler, the retries and the recovery after a crash
\* never convert the same task at the same time (PlaylistHandler has no lock).
OneRunAtATime ==
  MayAbandon \/ \A r, s \in Runs :
    pc[r] \in Busy /\ pc[s] \in Busy /\ TaskOf(r) = TaskOf(s) => r = s

\* As long as no worker gives up on a running handler, a row that says
\* "completed" holds what a conversion produced, a blank one at worst, and never
\* nothing or the payload of an error, however often the task was converted
\* again, failed in between or crashed between the two updates of the row.
CompletedHasConversion ==
  MayAbandon \/ \A t \in Tasks : status[t] = "completed" => result[t] \in Conversions

\* A row whose result and status belong together.
Consistent(t) == \/ status[t] = "completed" /\ result[t] \in Conversions
                 \/ status[t] = "failed" /\ result[t] \in {"notFound", "error"}

\* A task asynq keeps as completed has a verdict in its row, and this row is not
\* left half written unless a worker gave up on a handler that still writes.
QueueDoneMeansRecorded ==
  \A t \in Tasks : queue[t] = "completed" /\ RowOf(t) =>
    status[t] # "pending" /\ (MayAbandon \/ Consistent(t))

\* The queue's last word on a task is never taken back, not even by a worker
\* whose lease ran out and whose task the recoverer gave to another worker.
QueueNeverReopens ==
  [][\A t \in Tasks : queue[t] \in Settled => queue'[t] = queue[t]]_vars

\* The queue, its retries and the row together are the task board clients see.
Board == INSTANCE TaskBoard WITH view    <- [t \in Tasks |-> TaskView(t)],
                                 blank   <- {t \in Tasks : ShownPending(t)},
                                 outcome <- [t \in Tasks |-> QueueOutcome(t)]
ImplementsTaskBoard == Board!BoardSpec

\* One instance alone that was not told to stop never serves with its queue
\* paused, whatever the shutdowns and crashes before: nothing else would unpause
\* the queue.  Between the pause and its end it does, and the tasks it accepts
\* then wait for the next start.
UnpausedUntilTold ==
  \A i \in Instances : Instances = {i} /\ life[i] = "serving" => ~paused

\* If from some time on an instance serves and the queue stays unpaused, every
\* queued task reaches the end of its life in the queue, whatever fails or
\* crashes on the way.
EveryTaskSettles ==
  (\E i \in Instances : <>[](life[i] = "serving" /\ ~paused))
    => \A t \in Tasks : queue[t] = "scheduled" ~> queue[t] \in Settled

-----------------------------------------------------------------------------
(* The inductive invariant behind OneRunAtATime, CompletedHasConversion and *)
(* QueueDoneMeansRecorded.                                                  *)

\* A worker under a lease has its task: it is active, at this very attempt.  A
\* task nobody asked for is not in the queue.
Owned == /\ \A a \in Attempts : worker[a] # "none" /\ lease[a] =>
              queue[a.task] = "active" /\ retried[a.task] = a.no
         /\ \A t \in Tasks : req[t] = "idle" => queue[t] = "none"

\* Only the crash of its process takes the lease from a busy worker.
Leased == \A a \in Attempts : worker[a] # "none" => lease[a]

\* A run that is not over is waited for by its worker, and a worker waits for
\* its handler or for the error handler, never for both.
Attended ==
  \A a \in Attempts :
    /\ pc[RunOf(a, "handler")] # "idle" => worker[a] = "handling"
    /\ pc[RunOf(a, "rescue")] # "idle" => worker[a] = "orphanRun"

\* A run past its first call found the row: the row is not inserted after that,
\* and if it is gone then it was deleted; once a verdict is written the row is not
\* pending any more.  This holds for abandoned handlers too.
Verdicts ==
  /\ \A t \in Tasks :
       /\ req[t] \in {"idle", "enqueued"} => ~RowOf(t) /\ queue[t] # "completed"
       /\ queue[t] = "completed" => status[t] # "pending"
  /\ \A r \in Runs :
       /\ pc[r] \notin {"idle", "start", "err"} =>
            /\ req[TaskOf(r)] \notin {"idle", "enqueued"}
            /\ RowOf(TaskOf(r)) \/ req[TaskOf(r)] = "accepted"
       /\ pc[r] \in {"failResult", "ok"} => status[TaskOf(r)] # "pending"

\* What the row holds at each point of a run and once the queue is done.
Recorded ==
  /\ \A t \in Tasks :
       /\ status[t] = "completed" => result[t] \in Conversions
       /\ queue[t] = "completed" /\ RowOf(t) => Consistent(t)
  /\ \A r \in Runs :
       /\ pc[r] = "failResult" /\ RowOf(TaskOf(r)) => status[TaskOf(r)] = "failed"
       /\ pc[r] = "convStatus" /\ RowOf(TaskOf(r)) => result[TaskOf(r)] \in Conversions
       /\ pc[r] = "ok" /\ RowOf(TaskOf(r)) => Consistent(TaskOf(r))

\* The first three always hold.  Attended is kept because of Owned and Leased,
\* Recorded because of all the others.
IInv == /\ TypeOK
        /\ Owned
        /\ Verdicts
        /\ MayAbandon \/ (Leased /\ Attended /\ Recorded)

-----------------------------------------------------------------------------
(* What comments in the code say of it.                                     *)

\* queue.go: a task that was converted with success, if only by the error
\* handler, is marked as done in the database and in the queue; only after an
\* error it is retried.
OrphanSuccessSettlesTask ==
  [][\A t \in Tasks : queue[t] = "active" /\ status[t] = "completed"
                      => queue'[t] \in {"active", "completed"}]_vars
=============================================================================
