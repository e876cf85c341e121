----------------------------- MODULE TaskBoard -----------------------------
(***************************************************************************)
(* What a client of the conversion API may rely on when it polls           *)
(* GET /task/:id, with no queue, no worker, no retry and no crash in it.   *)
(* A task is unknown until its row appears and is pending until a          *)
(* conversion reports on it.  Reports may change (a retried conversion     *)
(* reports again) until the queue closes the task; a task closed as "done" *)
(* has been reported on, a task closed as "dropped" may not have been.     *)
(* One report cannot be told from none: that of a blank conversion, whose  *)
(* task is shown as pending, and stays so once the queue closed it.        *)
(***************************************************************************)

CONSTANT Tasks

VARIABLES view,     \* what polling answers for each task
          blank,    \* the tasks shown as pending whose last report was blank
          outcome   \* whether reports on the task can still come

boardVars == <<view, blank, outcome>>

Views    == {"unknown", "pending", "failed", "completed", "deleted"}
Reported == {"failed", "completed"}
Outcomes == {"open", "done", "dropped"}

BoardTypeOK == /\ view \in [Tasks -> Views]
               /\ blank \subseteq {t \in Tasks : view[t] = "pending"}
               /\ outcome \in [Tasks -> Outcomes]

BoardInit == /\ view = [t \in Tasks |-> "unknown"]
             /\ blank = {}
             /\ outcome = [t \in Tasks |-> "open"]

\* The row of a task appears.  This may be after the queue dropped it.
Accept(t) == /\ view[t] = "unknown"
             /\ view' = [view EXCEPT ![t] = "pending"]
             /\ UNCHANGED <<blank, outcome>>

\* A conversion of a task that is still open reports its verdict.
Report(t, v) == /\ view[t] \in {"pending"} \cup Reported
                /\ outcome[t] = "open"
                /\ view' = [view EXCEPT ![t] = v]
                /\ blank' = blank \ {t}
                /\ UNCHANGED outcome

\* A conversion of a task that is still open reports that it is blank.
ReportBlank(t) == /\ view[t] \in {"pending"} \cup Reported
                  /\ outcome[t] = "open"
                  /\ view' = [view EXCEPT ![t] = "pending"]
                  /\ blank' = blank \cup {t}
                  /\ UNCHANGED outcome

\* The client deletes the task; it stays deleted.
Forget(t) == /\ view[t] \in {"pending"} \cup Reported
             /\ view' = [view EXCEPT ![t] = "deleted"]
             /\ blank' = blank \ {t}
             /\ UNCHANGED outcome

\* The queue is done with the task: only what was reported on is done.
Close(t) == /\ outcome[t] = "open"
            /\ view[t] \in Reported \cup {"deleted"} \/ t \in blank
            /\ outcome' = [outcome EXCEPT ![t] = "done"]
            /\ UNCHANGED <<view, blank>>

\* The queue gives the task up after its last retry.
Drop(t) == /\ outcome[t] = "open"
           /\ outcome' = [outcome EXCEPT ![t] = "dropped"]
           /\ UNCHANGED <<view, blank>>

BoardNext == \E t \in Tasks : \/ Accept(t)
                              \/ \E v \in Reported : Report(t, v)
                              \/ ReportBlank(t)
                              \/ Forget(t)
                              \/ Close(t)
                              \/ Drop(t)

BoardSpec == BoardInit /\ [][BoardNext]_boardVars
=============================================================================
