------------------------------- MODULE Tasks -------------------------------
(***************************************************************************)
(* The work that follows from an assessment: mitigation tasks                *)
(* (backend/app/routers/tasks.py), control assignments (routers/controls.py) *)
(* and the evidence uploaded for them (routers/evidence.py).                *)
(*                                                                         *)
(* A handler that only writes is one step.  submit_task reads the task       *)
(* before it writes, and upload_evidence stores the file in GridFS, which    *)
(* no rollback of the PostgreSQL transaction undoes, before it inserts.     *)
(***************************************************************************)
EXTENDS ComplianceTables

workVars == <<tasks, assignments, evidence, files, notified>>

Assigned(c) == assignments[c] # None

(***************************************************************************)
(* tasks.py                                                                *)
(***************************************************************************)
\* The foreign keys refuse a gap or an assignment for which there is no row.
CreateTask(t, g, c, assignee, status) ==
  /\ tasks[t] = None
  /\ g # Null => gaps[g] # None
  /\ c # Null => Assigned(c)
  /\ tasks' = [tasks EXCEPT ![t] =
       [gap |-> g, control |-> c, assignee |-> assignee, status |-> status]]
  /\ Tell(assignee, t)
  /\ UNCHANGED <<assignments, evidence, files, req>>

\* Variant: a new assignee is not told.
UpdateTaskSilently(t, assignee, status) ==
  /\ tasks[t] # None
  /\ tasks' = [tasks EXCEPT ![t].assignee = IF assignee = Null THEN @ ELSE assignee,
                            ![t].status = status]
  /\ UNCHANGED <<assignments, evidence, files, notified, req>>

\* A field that the payload leaves out keeps its value, so nothing unassigns a
\* task.  The linked assignment is left as it is, also by a completion.
UpdateTask(t, assignee, status) ==
  /\ tasks[t] # None
  /\ tasks' = [tasks EXCEPT ![t].assignee = IF assignee = Null THEN @ ELSE assignee,
                            ![t].status = status]
  /\ Tell(assignee, t)
  /\ UNCHANGED <<assignments, evidence, files, req>>

SubmitTaskRead(r, t) ==
  /\ tasks[t] # None
  /\ Start(r, [at |-> "submit_task", task |-> t, control |-> tasks[t].control,
               assignee |-> tasks[t].assignee])
  /\ UNCHANGED workVars

\* Whatever status the linked assignment has by now, it is submitted; whoever
\* the task was assigned to when it was read is told.
SubmitTaskCommit(r) ==
  /\ req[r].at = "submit_task"
  /\ tasks' = [tasks EXCEPT ![req[r].task].status = "completed"]
  /\ assignments' = [c \in Controls |->
       IF c = req[r].control THEN [assignments[c] EXCEPT !.status = "submitted"]
       ELSE assignments[c]]
  /\ Tell(req[r].assignee, req[r].task)
  /\ Finish(r)
  /\ UNCHANGED <<evidence, files>>

(***************************************************************************)
(* controls.py: unique (institution_id, control_id)                         *)
(***************************************************************************)
CreateControlAssignment(c, assignee, status) ==
  /\ assignments[c] = None
  /\ assignments' = [assignments EXCEPT ![c] = [status |-> status, assignee |-> assignee]]
  /\ Tell(assignee, c)
  /\ UNCHANGED <<tasks, evidence, files, req>>

UpdateControlStatus(c, status) ==
  /\ Assigned(c)
  /\ assignments' = [assignments EXCEPT ![c].status = status]
  /\ UNCHANGED <<tasks, evidence, files, notified, req>>

(***************************************************************************)
(* evidence.py: upload_evidence                                            *)
(***************************************************************************)
\* Bound of an instance: an upload starts with an evidence id no other has used.
Fresh(e) ==
  /\ evidence[e] = None /\ e \notin files
  /\ \A r \in At({"upload"}) : req[r].id # e

\* Variant: a failure to store the file is swallowed.
UploadUnstored(r, e, c) ==
  /\ Fresh(e)
  /\ c # Null => Assigned(c)
  /\ Start(r, [at |-> "upload", id |-> e, control |-> c])
  /\ UNCHANGED workVars

UploadStore(r, e, c) ==
  /\ Fresh(e)
  /\ c # Null => Assigned(c)
  /\ files' = files \cup {e}
  /\ Start(r, [at |-> "upload", id |-> e, control |-> c])
  /\ UNCHANGED <<tasks, assignments, evidence, notified>>

UploadCommit(r) ==
  /\ req[r].at = "upload"
  /\ LET e == req[r].id
         c == req[r].control
     IN /\ evidence' = [evidence EXCEPT ![e] = [control |-> c]]
        /\ Tell(IF c = Null THEN Null ELSE assignments[c].assignee, e)
  /\ Finish(r)
  /\ UNCHANGED <<tasks, assignments, files>>
=============================================================================
