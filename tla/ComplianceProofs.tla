-------------------------- MODULE ComplianceProofs --------------------------
(***************************************************************************)
(* Proofs about Compliance, for every number of assessments, tasks, controls, *)
(* uploads, accounts and concurrent requests.                               *)
(***************************************************************************)
EXTENDS Compliance, FiniteSetTheorems, TLAPS

(***************************************************************************)
(* What a request has read is still there when it writes.  TypeOK is not     *)
(* inductive without it: the submission of a task updates the status of the *)
(* task and of the assignment it has read, which must be rows.              *)
(***************************************************************************)
RequestRefers(r) ==
  /\ req[r].at = "insert" => req[r].value \in Values
  /\ req[r].at = "submit" => \A i \in req[r].read : responses[i] # None
  /\ req[r].at = "upload" =>
       /\ req[r].id \in files
       /\ req[r].control # Null => Assigned(req[r].control)
  /\ req[r].at = "submit_task" =>
       /\ tasks[req[r].task] # None
       /\ req[r].control # Null => Assigned(req[r].control)

Typed == TypeOK /\ \A r \in Requests : RequestRefers(r)

\* The foreign key of mitigation_tasks.assignment_id.
TasksRefer ==
  \A t \in TaskIds :
    (tasks[t] # None /\ tasks[t].control # Null) => Assigned(tasks[t].control)

(***************************************************************************)
(* The kinds of rows and of requests.                                       *)
(***************************************************************************)
LEMMA RowsExist ==
  /\ None \notin Response
  /\ None \notin Gap
  /\ None \notin Task
  /\ None \notin Assignment
  /\ None \notin Evidence
  BY DEF None, Response, Gap, Task, Assignment, Evidence

LEMMA RequestKinds ==
  ASSUME TypeOK, NEW r \in Requests
  PROVE  /\ req[r].at \in {"save", "insert", "update"} => req[r] \in Save
         /\ req[r].at = "submit" => req[r] \in Submission
         /\ req[r].at = "upload" => req[r] \in Upload
         /\ req[r].at = "submit_task" => req[r] \in TaskSubmission
  BY DEF TypeOK, TablesTypeOK, Request, Idle, Save, Submission, Upload, TaskSubmission

LEMMA StartTyped ==
  ASSUME TablesTypeOK, NEW r \in Requests, NEW q \in Request, Start(r, q)
  PROVE  /\ req' \in [Requests -> Request]
         /\ req'[r] = q
         /\ \A p \in Requests : p # r => req'[p] = req[p]
  BY DEF TablesTypeOK, Start

LEMMA FinishTyped ==
  ASSUME TablesTypeOK, NEW r \in Requests, Finish(r)
  PROVE  /\ req' \in [Requests -> Request]
         /\ req'[r].at = "idle"
         /\ \A p \in Requests : p # r => req'[p] = req[p]
  BY DEF TablesTypeOK, Finish, Request, Idle

\* Being told is for ever, and Tell tells whom it is called for.
LEMMA Told ==
  ASSUME TablesTypeOK, NEW assignee \in Staff \cup {Null},
         NEW about \in TaskIds \cup Controls \cup EvidenceIds, Tell(assignee, about)
  PROVE  /\ notified \subseteq notified'
         /\ notified' \subseteq Staff \X (TaskIds \cup Controls \cup EvidenceIds)
         /\ assignee # Null => <<assignee, about>> \in notified'
  BY DEF TablesTypeOK, Tell

\* The rows a submission inserts are new, and each is the gap of one response.
LEMMA SubmissionInserts ==
  ASSUME Typed, NEW r \in Requests, SubmitCommit(r)
  PROVE  /\ req[r].assessment \in AssessmentIds
         /\ gaps' \in [GapIds -> Gap \cup {None}]
         /\ \A g \in GapIds :
              (gaps[g] # None /\ g \notin GapsOf(req[r].assessment)) => gaps'[g] = gaps[g]
<1> DEFINE a == req[r].assessment
           yes == {i \in req[r].read : responses[i].value = "yes"}
           bad == {i \in req[r].read : responses[i].value \in {"no", "partial"}}
           kept == DeletedGaps(a)
<1>1. req[r] \in Submission
  BY RequestKinds DEF SubmitCommit, Typed
<1>2. kept \in [GapIds -> Gap \cup {None}]
  BY DEF DeletedGaps, Typed, TypeOK, TablesTypeOK
<1>3. \A i \in bad : responses[i] \in Response
  BY <1>1 DEF SubmitCommit, Typed, RequestRefers, TypeOK, TablesTypeOK, Submission
<1>4. PICK id \in Injection(bad, {g \in GapIds : kept[g] = None}) :
        gaps' = [g \in GapIds |->
                   IF g \in Range(id)
                   THEN LET i == CHOOSE i \in bad : id[i] = g
                        IN [assessment |-> a, question |-> responses[i].question,
                            severity |-> Severity(responses[i].value)]
                   ELSE kept[g]]
  BY DEF SubmitCommit
<1>5. id \in [bad -> {g \in GapIds : kept[g] = None}]
  BY DEF Injection
<1>6. ASSUME NEW g \in GapIds
      PROVE  /\ gaps'[g] \in Gap \cup {None}
             /\ (gaps[g] # None /\ g \notin GapsOf(a)) => gaps'[g] = gaps[g]
  <2>1. CASE g \in Range(id)
    <3> DEFINE i == CHOOSE i \in bad : id[i] = g
    <3>1. i \in bad
      BY <1>5, <2>1 DEF Range
    <3>2. gaps'[g] = [assessment |-> a, question |-> responses[i].question,
                      severity |-> Severity(responses[i].value)]
      BY <1>4, <2>1
    <3>3. kept[g] = None
      BY <1>5, <2>1 DEF Range
    <3> HIDE DEF i
    <3>4. gaps'[g] \in Gap
      BY <1>1, <1>3, <3>1, <3>2 DEF Gap, Response, Severity, Submission
    <3> QED
      BY <3>3, <3>4 DEF DeletedGaps
  <2>2. CASE g \notin Range(id)
    BY <1>2, <1>4, <2>2 DEF DeletedGaps
  <2> QED
    BY <2>1, <2>2
<1>7. DOMAIN gaps' = GapIds /\ gaps' = [g \in GapIds |-> gaps'[g]]
  BY <1>4
<1> QED
  BY <1>1, <1>6, <1>7 DEF Submission

(***************************************************************************)
(* Types are invariant.                                                     *)
(***************************************************************************)
LEMMA TypedInit == Init => Typed
<1> SUFFICES ASSUME Init PROVE Typed
  OBVIOUS
<1>1. /\ assessments \in [AssessmentIds -> AssessmentStatus]
      /\ responses \in [ResponseIds -> Response \cup {None}]
      /\ results \in [AssessmentIds -> Seq(Result)]
      /\ gaps \in [GapIds -> Gap \cup {None}]
  BY SeedsAssumption DEF Init, Seeded
<1> QED
  BY <1>1 DEF Init, Typed, TypeOK, TablesTypeOK, RequestRefers, Request, Idle

LEMMA TypedFail ==
  ASSUME Typed, NEW r \in Requests, Fail(r)
  PROVE  Typed'
<1>1. req' \in [Requests -> Request] /\ req'[r].at = "idle"
      /\ \A p \in Requests : p # r => req'[p] = req[p]
  BY FinishTyped DEF Fail, Typed, TypeOK
<1>2. TypeOK'
  BY <1>1 DEF Fail, Typed, TypeOK, TablesTypeOK, assessmentVars, workVars
<1>3. ASSUME NEW p \in Requests
      PROVE  RequestRefers(p)'
  BY <1>1 DEF Fail, Typed, RequestRefers, assessmentVars, workVars, Assigned
<1> QED
  BY <1>2, <1>3 DEF Typed

LEMMA TypedAssess ==
  ASSUME Typed, Assess
  PROVE  Typed'
<1> USE DEF Typed
<1>1. ASSUME NEW a \in AssessmentIds, CreateAssessment(a) \/ Open(a)
      PROVE  Typed'
  <2>1. TypeOK'
    BY <1>1 DEF CreateAssessment, Open, TypeOK, TablesTypeOK, AssessmentStatus, Assess, workVars
  <2>2. ASSUME NEW p \in Requests
        PROVE  RequestRefers(p)'
    BY <1>1 DEF CreateAssessment, Open, RequestRefers, Assess, workVars, Assigned
  <2> QED
    BY <2>1, <2>2
<1>2. ASSUME NEW r \in Requests, NEW a \in AssessmentIds, NEW q \in Questions,
             NEW v \in Options, Select(r, a, q, v)
      PROVE  Typed'
  <2> DEFINE new == [at |-> "save", assessment |-> a, question |-> q, value |-> v]
  <2>1. new \in Request
    BY OptionsAssumption DEF Request, Save
  <2>2. req' \in [Requests -> Request] /\ req'[r] = new
        /\ \A p \in Requests : p # r => req'[p] = req[p]
    BY <1>2, <2>1, StartTyped DEF Select, TypeOK
  <2>3. TypeOK'
    BY <1>2, <2>2 DEF Select, TypeOK, TablesTypeOK, Assess, workVars
  <2>4. ASSUME NEW p \in Requests
        PROVE  RequestRefers(p)'
    BY <1>2, <2>2 DEF Select, RequestRefers, Assess, workVars, Assigned
  <2> QED
    BY <2>3, <2>4
<1>3. ASSUME NEW r \in Requests, NEW a \in AssessmentIds, SubmitRead(r, a)
      PROVE  Typed'
  <2> DEFINE new == [at |-> "submit", assessment |-> a, read |-> ResponsesOf(a)]
  <2>1. new \in Request
    BY DEF Request, Submission, ResponsesOf
  <2>2. req' \in [Requests -> Request] /\ req'[r] = new
        /\ \A p \in Requests : p # r => req'[p] = req[p]
    BY <1>3, <2>1, StartTyped DEF SubmitRead, TypeOK
  <2>3. TypeOK'
    BY <1>3, <2>2 DEF SubmitRead, TypeOK, TablesTypeOK, Assess, workVars, assessmentVars
  <2>4. ASSUME NEW p \in Requests
        PROVE  RequestRefers(p)'
    BY <1>3, <2>2 DEF SubmitRead, RequestRefers, Assess, workVars, assessmentVars, Assigned,
                      ResponsesOf
  <2> QED
    BY <2>3, <2>4
<1>4. ASSUME NEW r \in Requests, SaveRead(r)
      PROVE  Typed'
  <2> DEFINE next == UpdateOrInsert(req[r].assessment, req[r].question)
  <2>1. req[r] \in Save /\ req[r].value \in Values
    BY <1>4, RequestKinds DEF SaveRead
  <2>2. next \in {"update", "insert"}
    BY DEF UpdateOrInsert
  <2>3. req' = [req EXCEPT ![r].at = next]
    BY <1>4 DEF SaveRead
  <2>4. [req[r] EXCEPT !.at = next] \in Save
    BY <2>1, <2>2 DEF Save
  <2>5. req' \in [Requests -> Request] /\ req'[r] = [req[r] EXCEPT !.at = next]
        /\ \A p \in Requests : p # r => req'[p] = req[p]
    BY <2>3, <2>4 DEF TypeOK, TablesTypeOK, Request
  <2>6. overlaps' \subseteq AssessmentIds \X Questions
    BY <1>4, <2>1 DEF SaveRead, TypeOK, Save
  <2>7. TypeOK'
    BY <1>4, <2>5, <2>6 DEF SaveRead, TypeOK, TablesTypeOK, Assess, workVars
  <2>8. ASSUME NEW p \in Requests
        PROVE  RequestRefers(p)'
    BY <1>4, <2>1, <2>2, <2>5 DEF SaveRead, RequestRefers, Assess, workVars, Assigned, Save
  <2> QED
    BY <2>7, <2>8
<1>5. ASSUME NEW r \in Requests, SaveInsert(r)
      PROVE  Typed'
  <2>1. req[r] \in Save /\ req[r].value \in Values
    BY <1>5, RequestKinds DEF SaveInsert, RequestRefers
  <2>2. req' \in [Requests -> Request] /\ req'[r].at = "idle"
        /\ \A p \in Requests : p # r => req'[p] = req[p]
    BY <1>5, FinishTyped DEF SaveInsert, TypeOK
  <2>3. PICK i \in ResponseIds :
          /\ responses[i] = None
          /\ responses' = [responses EXCEPT ![i] =
               [assessment |-> req[r].assessment, question |-> req[r].question,
                value |-> req[r].value]]
    BY <1>5 DEF SaveInsert
  <2>4. [assessment |-> req[r].assessment, question |-> req[r].question,
         value |-> req[r].value] \in Response
    BY <2>1 DEF Save, Response
  <2>5. TypeOK'
    BY <1>5, <2>2, <2>3, <2>4 DEF SaveInsert, TypeOK, TablesTypeOK, Assess, workVars
  <2>6. \A j \in ResponseIds : responses[j] # None => responses'[j] # None
    BY <2>3 DEF TypeOK, TablesTypeOK
  <2>7. ASSUME NEW p \in Requests
        PROVE  RequestRefers(p)'
    <3>1. req[p].at = "submit" => req[p].read \subseteq ResponseIds
      BY RequestKinds DEF Submission
    <3> QED
      BY <1>5, <2>2, <2>6, <3>1 DEF SaveInsert, RequestRefers, Assess, workVars, Assigned
  <2> QED
    BY <2>5, <2>7
<1>6. ASSUME NEW r \in Requests, SaveUpdateFails(r) \/ SaveRefused(r) \/ SubmitRefused(r)
      PROVE  Typed'
  <2>1. Finish(r) /\ UNCHANGED <<assessmentVars, workVars>>
    BY <1>6 DEF SaveUpdateFails, SaveRefused, SubmitRefused, Assess
  <2>2. req[r] # Idle
    BY <1>6 DEF SaveUpdateFails, SaveRefused, SubmitRefused, Idle
  <2> QED
    BY <2>1, <2>2, TypedFail DEF Fail
<1>7. ASSUME NEW r \in Requests, SubmitCommit(r)
      PROVE  Typed'
  <2> DEFINE a == req[r].assessment
             yes == {i \in req[r].read : responses[i].value = "yes"}
             rest == req[r].read \ yes
             result == [compliant |-> Cardinality(yes), nonCompliant |-> Cardinality(rest)]
  <2>1. req[r] \in Submission
    BY <1>7, RequestKinds DEF SubmitCommit
  <2>2. req' \in [Requests -> Request] /\ req'[r].at = "idle"
        /\ \A p \in Requests : p # r => req'[p] = req[p]
    BY <1>7, FinishTyped DEF SubmitCommit, TypeOK
  <2>3. result \in Result
    <3>1. IsFiniteSet(yes) /\ IsFiniteSet(rest)
      BY <2>1, SeedsAssumption, FS_Subset DEF Submission
    <3>2. Cardinality(yes) \in Nat /\ Cardinality(rest) \in Nat
      BY <3>1, FS_CardinalityType
    <3> QED
      BY <3>2 DEF Result
  <2>4. <<result>> \in Seq(Result)
    BY <2>3
  <2>5. results' = [results EXCEPT ![a] = <<result>>]
    BY <1>7 DEF SubmitCommit
  <2>6. results' \in [AssessmentIds -> Seq(Result)]
    BY <2>4, <2>5 DEF TypeOK, TablesTypeOK
  <2>7. gaps' \in [GapIds -> Gap \cup {None}]
    BY <1>7, SubmissionInserts
  <2>8. /\ assessments' \in [AssessmentIds -> AssessmentStatus]
        /\ submitted' \subseteq AssessmentIds
    BY <1>7, <2>1 DEF SubmitCommit, TypeOK, TablesTypeOK, AssessmentStatus, Submission
  <2>9. UNCHANGED <<responses, selection, overlaps, workVars>>
    BY <1>7 DEF SubmitCommit, Assess
  <2>10. TypeOK'
    BY <2>2, <2>6, <2>7, <2>8, <2>9 DEF TypeOK, TablesTypeOK, workVars
  <2>11. ASSUME NEW p \in Requests
         PROVE  RequestRefers(p)'
    BY <2>2, <2>9 DEF RequestRefers, workVars, Assigned
  <2> QED
    BY <2>10, <2>11
<1> QED
  BY <1>1, <1>2, <1>3, <1>4, <1>5, <1>6, <1>7 DEF Assess

LEMMA TypedWork ==
  ASSUME Typed, TasksRefer, Work
  PROVE  Typed'
<1> USE DEF Typed
<1>0. UNCHANGED assessmentVars
  BY DEF Work
<1>1. ASSUME NEW t \in TaskIds, NEW g \in GapIds \cup {Null}, NEW c \in Controls \cup {Null},
             NEW assignee \in Staff \cup {Null}, NEW status \in {"open", "completed"},
             CreateTask(t, g, c, assignee, status)
      PROVE  Typed'
  <2>1. [gap |-> g, control |-> c, assignee |-> assignee, status |-> status] \in Task
    BY DEF Task
  <2>2. notified' \subseteq Staff \X (TaskIds \cup Controls \cup EvidenceIds)
    BY <1>1, Told DEF CreateTask, TypeOK
  <2>3. TypeOK'
    BY <1>0, <1>1, <2>1, <2>2 DEF CreateTask, TypeOK, TablesTypeOK, assessmentVars
  <2>4. \A x \in TaskIds : tasks[x] # None => tasks'[x] # None
    BY <1>1 DEF CreateTask, TypeOK, TablesTypeOK
  <2>5. ASSUME NEW p \in Requests
        PROVE  RequestRefers(p)'
    <3>1. req[p].at = "submit_task" => req[p].task \in TaskIds
      BY RequestKinds DEF TaskSubmission
    <3> QED
      BY <1>0, <1>1, <2>4, <3>1 DEF CreateTask, RequestRefers, assessmentVars, Assigned
  <2> QED
    BY <2>3, <2>5
<1>2. ASSUME NEW t \in TaskIds, NEW assignee \in Staff \cup {Null},
             NEW status \in {"open", "completed"}, UpdateTask(t, assignee, status)
      PROVE  Typed'
  <2> DEFINE row == [tasks[t] EXCEPT !.assignee = IF assignee = Null THEN @ ELSE assignee,
                                     !.status = status]
  <2>1. row \in Task
    BY <1>2 DEF UpdateTask, TypeOK, TablesTypeOK, Task
  <2>2. tasks' = [tasks EXCEPT ![t] = row]
    BY <1>2 DEF UpdateTask, TypeOK, TablesTypeOK
  <2>3. notified' \subseteq Staff \X (TaskIds \cup Controls \cup EvidenceIds)
    BY <1>2, Told DEF UpdateTask, TypeOK
  <2> HIDE DEF row
  <2>4. TypeOK'
    BY <1>0, <1>2, <2>1, <2>2, <2>3 DEF UpdateTask, TypeOK, TablesTypeOK, assessmentVars
  <2>5. \A x \in TaskIds : tasks[x] # None => tasks'[x] # None
    BY <2>1, <2>2, RowsExist DEF TypeOK, TablesTypeOK
  <2>6. ASSUME NEW p \in Requests
        PROVE  RequestRefers(p)'
    <3>1. req[p].at = "submit_task" => req[p].task \in TaskIds
      BY RequestKinds DEF TaskSubmission
    <3> QED
      BY <1>0, <1>2, <2>5, <3>1 DEF UpdateTask, RequestRefers, assessmentVars, Assigned
  <2> QED
    BY <2>4, <2>6
<1>3. ASSUME NEW c \in Controls, NEW status \in ControlStatus, NEW assignee \in Staff \cup {Null},
             CreateControlAssignment(c, assignee, status)
      PROVE  Typed'
  <2>1. [status |-> status, assignee |-> assignee] \in Assignment
    BY DEF Assignment
  <2>2. notified' \subseteq Staff \X (TaskIds \cup Controls \cup EvidenceIds)
    BY <1>3, Told DEF CreateControlAssignment, TypeOK
  <2>3. TypeOK'
    BY <1>0, <1>3, <2>1, <2>2 DEF CreateControlAssignment, TypeOK, TablesTypeOK, assessmentVars
  <2>4. \A x \in Controls : Assigned(x) => Assigned(x)'
    BY <1>3 DEF CreateControlAssignment, TypeOK, TablesTypeOK, Assigned
  <2>5. ASSUME NEW p \in Requests
        PROVE  RequestRefers(p)'
    <3>1. req[p].at \in {"upload", "submit_task"} => req[p].control \in Controls \cup {Null}
      BY RequestKinds DEF TaskSubmission, Upload
    <3> QED
      BY <1>0, <1>3, <2>4, <3>1 DEF CreateControlAssignment, RequestRefers, assessmentVars
  <2> QED
    BY <2>3, <2>5
<1>4. ASSUME NEW c \in Controls, NEW status \in ControlStatus, UpdateControlStatus(c, status)
      PROVE  Typed'
  <2> DEFINE row == [assignments[c] EXCEPT !.status = status]
  <2>1. row \in Assignment
    BY <1>4 DEF UpdateControlStatus, Assigned, TypeOK, TablesTypeOK, Assignment
  <2>2. assignments' = [assignments EXCEPT ![c] = row]
    BY <1>4 DEF UpdateControlStatus
  <2> HIDE DEF row
  <2>3. TypeOK'
    BY <1>0, <1>4, <2>1, <2>2 DEF UpdateControlStatus, TypeOK, TablesTypeOK, assessmentVars
  <2>4. \A x \in Controls : Assigned(x) => Assigned(x)'
    BY <2>1, <2>2, RowsExist DEF TypeOK, TablesTypeOK, Assigned
  <2>5. ASSUME NEW p \in Requests
        PROVE  RequestRefers(p)'
    <3>1. req[p].at \in {"upload", "submit_task"} => req[p].control \in Controls \cup {Null}
      BY RequestKinds DEF TaskSubmission, Upload
    <3> QED
      BY <1>0, <1>4, <2>4, <3>1 DEF UpdateControlStatus, RequestRefers, assessmentVars
  <2> QED
    BY <2>3, <2>5
<1>5. ASSUME NEW r \in Requests, NEW t \in TaskIds, SubmitTaskRead(r, t)
      PROVE  Typed'
  <2> DEFINE new == [at |-> "submit_task", task |-> t, control |-> tasks[t].control,
                     assignee |-> tasks[t].assignee]
  <2>1. new \in Request
    BY <1>5 DEF SubmitTaskRead, TypeOK, TablesTypeOK, Task, Request, TaskSubmission
  <2>2. req' \in [Requests -> Request] /\ req'[r] = new
        /\ \A p \in Requests : p # r => req'[p] = req[p]
    BY <1>5, <2>1, StartTyped DEF SubmitTaskRead, TypeOK
  <2>3. TypeOK'
    BY <1>0, <1>5, <2>2 DEF SubmitTaskRead, TypeOK, TablesTypeOK, workVars, assessmentVars
  <2>4. tasks[t].control # Null => Assigned(tasks[t].control)
    BY <1>5 DEF SubmitTaskRead, TasksRefer
  <2>5. ASSUME NEW p \in Requests
        PROVE  RequestRefers(p)'
    BY <1>0, <1>5, <2>2, <2>4 DEF SubmitTaskRead, RequestRefers, workVars, assessmentVars, Assigned
  <2> QED
    BY <2>3, <2>5

<1>6. ASSUME NEW r \in Requests, SubmitTaskCommit(r)
      PROVE  Typed'
  <2>1. req[r] \in TaskSubmission
    BY <1>6, RequestKinds DEF SubmitTaskCommit
  <2>2. req' \in [Requests -> Request] /\ req'[r].at = "idle"
        /\ \A p \in Requests : p # r => req'[p] = req[p]
    BY <1>6, FinishTyped DEF SubmitTaskCommit, TypeOK
  <2> DEFINE row == [tasks[req[r].task] EXCEPT !.status = "completed"]
  <2>3. row \in Task
    BY <1>6, <2>1 DEF SubmitTaskCommit, RequestRefers, TypeOK, TablesTypeOK, Task, TaskSubmission
  <2>4. tasks' = [tasks EXCEPT ![req[r].task] = row]
    BY <1>6 DEF SubmitTaskCommit
  <2> HIDE DEF row
  <2>5. tasks' \in [TaskIds -> Task \cup {None}]
        /\ \A x \in TaskIds : tasks[x] # None => tasks'[x] # None
    BY <2>1, <2>3, <2>4, RowsExist DEF TypeOK, TablesTypeOK, TaskSubmission
  <2>6. ASSUME NEW c \in Controls
        PROVE  /\ assignments'[c] \in Assignment \cup {None}
               /\ Assigned(c) => assignments'[c] # None
    <3>1. CASE c = req[r].control
      <4>1. assignments[c] \in Assignment
        BY <1>6, <3>1, NullAssumption DEF SubmitTaskCommit, RequestRefers, Assigned, TypeOK, TablesTypeOK
      <4>2. assignments'[c] = [assignments[c] EXCEPT !.status = "submitted"]
        BY <1>6, <3>1 DEF SubmitTaskCommit
      <4>3. assignments'[c] \in Assignment
        BY <4>1, <4>2 DEF Assignment, ControlStatus
      <4> QED
        BY <4>3, RowsExist
    <3>2. CASE c # req[r].control
      BY <1>6, <3>2 DEF SubmitTaskCommit, TypeOK, TablesTypeOK, Assigned
    <3> QED
      BY <3>1, <3>2
  <2>7. assignments' = [c \in Controls |-> assignments'[c]]
    BY <1>6 DEF SubmitTaskCommit
  <2>8. assignments' \in [Controls -> Assignment \cup {None}]
    BY <2>6, <2>7
  <2>9. notified' \subseteq Staff \X (TaskIds \cup Controls \cup EvidenceIds)
    BY <1>6, <2>1, Told DEF SubmitTaskCommit, TypeOK, TaskSubmission
  <2>10. TypeOK'
    BY <1>0, <1>6, <2>2, <2>5, <2>8, <2>9 DEF SubmitTaskCommit, TypeOK, TablesTypeOK, assessmentVars
  <2>11. ASSUME NEW p \in Requests
         PROVE  RequestRefers(p)'
    <3>1. /\ req[p].at = "submit_task" => req[p].task \in TaskIds
          /\ req[p].at \in {"upload", "submit_task"} => req[p].control \in Controls \cup {Null}
      BY RequestKinds DEF TaskSubmission, Upload
    <3>2. UNCHANGED <<responses, files>>
      BY <1>0, <1>6 DEF SubmitTaskCommit, assessmentVars
    <3> QED
      BY <2>2, <2>5, <2>6, <3>1, <3>2 DEF RequestRefers, Assigned
  <2> QED
    BY <2>10, <2>11
<1>7. ASSUME NEW r \in Requests, NEW e \in EvidenceIds, NEW c \in Controls \cup {Null},
             UploadStore(r, e, c)
      PROVE  Typed'
  <2> DEFINE new == [at |-> "upload", id |-> e, control |-> c]
  <2>1. new \in Request
    BY DEF Request, Upload
  <2>2. req' \in [Requests -> Request] /\ req'[r] = new
        /\ \A p \in Requests : p # r => req'[p] = req[p]
    BY <1>7, <2>1, StartTyped DEF UploadStore, TypeOK
  <2>3. TypeOK'
    BY <1>0, <1>7, <2>2 DEF UploadStore, TypeOK, TablesTypeOK, assessmentVars
  <2>4. ASSUME NEW p \in Requests
        PROVE  RequestRefers(p)'
    BY <1>0, <1>7, <2>2 DEF UploadStore, RequestRefers, assessmentVars, Assigned
  <2> QED
    BY <2>3, <2>4
<1>8. ASSUME NEW r \in Requests, UploadCommit(r)
      PROVE  Typed'
  <2>1. req[r] \in Upload
    BY <1>8, RequestKinds DEF UploadCommit
  <2>2. req' \in [Requests -> Request] /\ req'[r].at = "idle"
        /\ \A p \in Requests : p # r => req'[p] = req[p]
    BY <1>8, FinishTyped DEF UploadCommit, TypeOK
  <2>3. evidence' \in [EvidenceIds -> Evidence \cup {None}]
    BY <1>8, <2>1 DEF UploadCommit, TypeOK, TablesTypeOK, Upload, Evidence
  <2> DEFINE c == req[r].control
             assignee == IF c = Null THEN Null ELSE assignments[c].assignee
  <2>4. assignee \in Staff \cup {Null}
    BY <1>8, <2>1 DEF UploadCommit, RequestRefers, Assigned, TypeOK, TablesTypeOK, Upload, Assignment
  <2>5. Tell(assignee, req[r].id) /\ req[r].id \in EvidenceIds
    BY <1>8, <2>1 DEF UploadCommit, Upload
  <2> HIDE DEF assignee
  <2>6. notified' \subseteq Staff \X (TaskIds \cup Controls \cup EvidenceIds)
    BY <2>4, <2>5, Told DEF TypeOK
  <2>7. TypeOK'
    BY <1>0, <1>8, <2>2, <2>3, <2>6 DEF UploadCommit, TypeOK, TablesTypeOK, assessmentVars
  <2>8. ASSUME NEW p \in Requests
        PROVE  RequestRefers(p)'
    BY <1>0, <1>8, <2>2 DEF UploadCommit, RequestRefers, assessmentVars, Assigned
  <2> QED
    BY <2>7, <2>8
<1> QED
  BY <1>1, <1>2, <1>3, <1>4, <1>5, <1>6, <1>7, <1>8 DEF Work

LEMMA TasksReferStep ==
  ASSUME Typed, TasksRefer, [Next]_vars
  PROVE  TasksRefer'
<1> USE DEF Typed
<1>1. CASE UNCHANGED <<tasks, assignments>>
  BY <1>1 DEF TasksRefer, Assigned
<1>2. ASSUME NEW t \in TaskIds, NEW g \in GapIds \cup {Null}, NEW c \in Controls \cup {Null},
             NEW assignee \in Staff \cup {Null}, NEW status \in {"open", "completed"},
             CreateTask(t, g, c, assignee, status)
      PROVE  TasksRefer'
  BY <1>2 DEF CreateTask, TasksRefer, Assigned, TypeOK, TablesTypeOK
<1>3. ASSUME NEW t \in TaskIds, NEW assignee \in Staff \cup {Null},
             NEW status \in {"open", "completed"}, UpdateTask(t, assignee, status)
      PROVE  TasksRefer'
  <2>1. tasks[t] \in Task
    BY <1>3 DEF UpdateTask, TypeOK, TablesTypeOK
  <2>2. tasks'[t].control = tasks[t].control
    BY <1>3, <2>1 DEF UpdateTask, TypeOK, TablesTypeOK, Task
  <2> QED
    BY <1>3, <2>2 DEF UpdateTask, TasksRefer, Assigned, TypeOK, TablesTypeOK
<1>4. ASSUME NEW c \in Controls, NEW status \in ControlStatus, NEW assignee \in Staff \cup {Null},
             CreateControlAssignment(c, assignee, status) \/ UpdateControlStatus(c, status)
      PROVE  TasksRefer'
  <2>1. \A x \in Controls : Assigned(x) => Assigned(x)'
    <3>1. CASE CreateControlAssignment(c, assignee, status)
      BY <3>1 DEF CreateControlAssignment, TypeOK, TablesTypeOK, Assigned
    <3>2. CASE UpdateControlStatus(c, status)
      <4>1. [assignments[c] EXCEPT !.status = status] \in Assignment
        BY <3>2 DEF UpdateControlStatus, Assigned, TypeOK, TablesTypeOK, Assignment
      <4> QED
        BY <3>2, <4>1, RowsExist DEF UpdateControlStatus, TypeOK, TablesTypeOK, Assigned
    <3> QED
      BY <1>4, <3>1, <3>2
  <2>2. UNCHANGED tasks
    BY <1>4 DEF CreateControlAssignment, UpdateControlStatus
  <2>3. \A t \in TaskIds : tasks[t] # None => tasks[t].control \in Controls \cup {Null}
    BY DEF TypeOK, TablesTypeOK, Task
  <2> QED
    BY <2>1, <2>2, <2>3 DEF TasksRefer
<1>5. ASSUME NEW r \in Requests, SubmitTaskCommit(r)
      PROVE  TasksRefer'
  <2>1. req[r] \in TaskSubmission /\ tasks[req[r].task] \in Task
    BY <1>5, RequestKinds
    DEF SubmitTaskCommit, RequestRefers, TypeOK, TablesTypeOK, TaskSubmission
  <2> DEFINE row == [tasks[req[r].task] EXCEPT !.status = "completed"]
  <2>2. row.control = tasks[req[r].task].control /\ tasks[req[r].task] # None
    BY <1>5, <2>1, RowsExist DEF Task
  <2>3. tasks' = [tasks EXCEPT ![req[r].task] = row]
    BY <1>5 DEF SubmitTaskCommit
  <2> HIDE DEF row
  <2>4. \A t \in TaskIds : /\ tasks'[t] # None => tasks[t] # None
                           /\ tasks[t] # None => tasks'[t].control = tasks[t].control
    BY <2>1, <2>2, <2>3 DEF TypeOK, TablesTypeOK
  <2>5. ASSUME NEW c \in Controls, Assigned(c)
        PROVE  Assigned(c)'
    <3>1. CASE c = req[r].control
      <4>1. assignments'[c] = [assignments[c] EXCEPT !.status = "submitted"]
            /\ assignments[c] \in Assignment
        BY <1>5, <2>5, <3>1 DEF SubmitTaskCommit, Assigned, TypeOK, TablesTypeOK
      <4>2. assignments'[c] \in Assignment
        BY <4>1 DEF Assignment, ControlStatus
      <4> QED
        BY <4>2, RowsExist DEF Assigned
    <3>2. CASE c # req[r].control
      BY <1>5, <2>5, <3>2 DEF SubmitTaskCommit, Assigned
    <3> QED
      BY <3>1, <3>2
  <2>6. \A t \in TaskIds : tasks[t] # None => tasks[t].control \in Controls \cup {Null}
    BY DEF TypeOK, TablesTypeOK, Task
  <2> QED
    BY <2>4, <2>5, <2>6 DEF TasksRefer
<1>6. ASSUME Assess \/ (\E r \in Requests : Fail(r)) \/ UNCHANGED vars
      PROVE  UNCHANGED <<tasks, assignments>>
  BY <1>6 DEF Assess, Fail, workVars, vars
<1>7. ASSUME NEW r \in Requests, NEW t \in TaskIds, SubmitTaskRead(r, t)
      PROVE  UNCHANGED <<tasks, assignments>>
  BY <1>7 DEF SubmitTaskRead, workVars
<1>8. ASSUME NEW r \in Requests, NEW e \in EvidenceIds, NEW c \in Controls \cup {Null},
             UploadStore(r, e, c)
      PROVE  UNCHANGED <<tasks, assignments>>
  BY <1>8 DEF UploadStore
<1>9. ASSUME NEW r \in Requests, UploadCommit(r)
      PROVE  UNCHANGED <<tasks, assignments>>
  BY <1>9 DEF UploadCommit
<1> QED
  BY <1>1, <1>2, <1>3, <1>4, <1>5, <1>6, <1>7, <1>8, <1>9 DEF Next, Work

(***************************************************************************)
(* Every reachable state is typed, and what requests and tasks refer to      *)
(* exists: the invariant that the theorems below rest on.                   *)
(***************************************************************************)
THEOREM TypesHold == Spec => [](Typed /\ TasksRefer)
<1>1. Init => Typed /\ TasksRefer
  BY TypedInit DEF Init, TasksRefer
<1>2. Typed /\ TasksRefer /\ [Next]_vars => (Typed /\ TasksRefer)'
  <2> SUFFICES ASSUME Typed, TasksRefer, [Next]_vars
               PROVE  Typed' /\ TasksRefer'
    OBVIOUS
  <2>1. TasksRefer'
    BY TasksReferStep
  <2>2. CASE UNCHANGED vars
    <3>1. TypeOK'
      BY <2>2 DEF vars, assessmentVars, workVars, Typed, TypeOK, TablesTypeOK
    <3>2. \A r \in Requests : RequestRefers(r)'
      BY <2>2 DEF vars, assessmentVars, workVars, Typed, RequestRefers, Assigned
    <3> QED
      BY <2>1, <3>1, <3>2 DEF Typed
  <2>3. CASE Next
    BY <2>1, <2>3, TypedAssess, TypedWork, TypedFail DEF Next
  <2> QED
    BY <2>1, <2>2, <2>3
<1> QED
  BY <1>1, <1>2, PTL DEF Spec

\* Every reachable state of assessments, tasks and uploads is typed.
THEOREM TypeCorrect == Spec => []TypeOK
<1>1. Typed => TypeOK
  BY DEF Typed
<1> QED
  BY <1>1, TypesHold, PTL

(***************************************************************************)
(* Evidence, tasks and assignments.                                         *)
(***************************************************************************)
\* No evidence row is without its file: an upload's file is in GridFS before its
\* row is, and no failure takes it away (upload_evidence).
THEOREM EvidenceHasFileHolds == Spec => []EvidenceHasFile
<1>1. Init => EvidenceHasFile
  BY DEF Init, EvidenceHasFile
<1>2. EvidenceHasFile /\ Typed /\ [Next]_vars => EvidenceHasFile'
  <2> SUFFICES ASSUME EvidenceHasFile, Typed, [Next]_vars
               PROVE  EvidenceHasFile'
    OBVIOUS
  <2>1. CASE UNCHANGED <<evidence, files>>
    BY <2>1 DEF EvidenceHasFile
  <2>2. ASSUME NEW r \in Requests, UploadCommit(r)
        PROVE  EvidenceHasFile'
    BY <2>2, RequestKinds
    DEF UploadCommit, EvidenceHasFile, Typed, RequestRefers, TypeOK, TablesTypeOK, Upload
  <2>3. ASSUME NEW r \in Requests, NEW e \in EvidenceIds, NEW c \in Controls \cup {Null},
               UploadStore(r, e, c)
        PROVE  EvidenceHasFile'
    BY <2>3 DEF UploadStore, EvidenceHasFile
  <2>4. CASE Assess \/ (\E r \in Requests : Fail(r)) \/ UNCHANGED vars
    BY <2>1, <2>4 DEF Assess, Fail, workVars, vars
  <2>5. CASE Work
    BY <2>1, <2>2, <2>3, <2>5
    DEF Work, CreateTask, UpdateTask, CreateControlAssignment, UpdateControlStatus,
        SubmitTaskRead, SubmitTaskCommit, workVars
  <2> QED
    BY <2>4, <2>5 DEF Next
<1> QED
  BY <1>1, <1>2, TypesHold, PTL DEF Spec

\* An assignee is told in the step that assigns the work, and nothing that reads
\* the assignee before it writes puts an older one back (create_task,
\* update_task, submit_task, create_control_assignment).
THEOREM AssigneesToldHolds == Spec => []AssigneesTold
<1>1. Init => AssigneesTold
  BY DEF Init, AssigneesTold, Assigned
<1>2. AssigneesTold /\ Typed /\ [Next]_vars => AssigneesTold'
  <2> SUFFICES ASSUME AssigneesTold, Typed, [Next]_vars
               PROVE  AssigneesTold'
    OBVIOUS
  <2> USE DEF Typed
  <2>1. CASE UNCHANGED <<tasks, assignments, notified>>
    BY <2>1 DEF AssigneesTold, Assigned
  <2>2. ASSUME NEW t \in TaskIds, NEW g \in GapIds \cup {Null}, NEW c \in Controls \cup {Null},
               NEW assignee \in Staff \cup {Null}, NEW status \in {"open", "completed"},
               CreateTask(t, g, c, assignee, status)
        PROVE  AssigneesTold'
    <3>1. notified \subseteq notified' /\ (assignee # Null => <<assignee, t>> \in notified')
      BY <2>2, Told DEF CreateTask, TypeOK
    <3>2. tasks'[t].assignee = assignee /\ \A x \in TaskIds \ {t} : tasks'[x] = tasks[x]
      BY <2>2 DEF CreateTask, TypeOK, TablesTypeOK
    <3> QED
      BY <2>2, <3>1, <3>2 DEF CreateTask, AssigneesTold, Assigned
  <2>3. ASSUME NEW t \in TaskIds, NEW assignee \in Staff \cup {Null},
               NEW status \in {"open", "completed"}, UpdateTask(t, assignee, status)
        PROVE  AssigneesTold'
    <3>1. notified \subseteq notified' /\ (assignee # Null => <<assignee, t>> \in notified')
      BY <2>3, Told DEF UpdateTask, TypeOK
    <3>2. tasks'[t].assignee = (IF assignee = Null THEN tasks[t].assignee ELSE assignee)
          /\ \A x \in TaskIds \ {t} : tasks'[x] = tasks[x]
      BY <2>3 DEF UpdateTask, TypeOK, TablesTypeOK, Task
    <3> QED
      BY <2>3, <3>1, <3>2 DEF UpdateTask, AssigneesTold, Assigned
  <2>4. ASSUME NEW c \in Controls, NEW status \in ControlStatus, NEW assignee \in Staff \cup {Null},
               CreateControlAssignment(c, assignee, status)
        PROVE  AssigneesTold'
    <3>1. notified \subseteq notified' /\ (assignee # Null => <<assignee, c>> \in notified')
      BY <2>4, Told DEF CreateControlAssignment, TypeOK
    <3>2. assignments'[c].assignee = assignee
          /\ \A x \in Controls \ {c} : assignments'[x] = assignments[x]
      BY <2>4 DEF CreateControlAssignment, TypeOK, TablesTypeOK
    <3> QED
      BY <2>4, <3>1, <3>2 DEF CreateControlAssignment, AssigneesTold, Assigned
  <2>5. ASSUME NEW c \in Controls, NEW status \in ControlStatus, UpdateControlStatus(c, status)
        PROVE  AssigneesTold'
    <3>1. assignments[c] \in Assignment
      BY <2>5 DEF UpdateControlStatus, Assigned, TypeOK, TablesTypeOK
    <3>2. assignments'[c].assignee = assignments[c].assignee
          /\ \A x \in Controls \ {c} : assignments'[x] = assignments[x]
      BY <2>5, <3>1 DEF UpdateControlStatus, TypeOK, TablesTypeOK, Assignment
    <3> QED
      BY <2>5, <3>2 DEF UpdateControlStatus, AssigneesTold, Assigned
  <2>6. ASSUME NEW r \in Requests, SubmitTaskCommit(r)
        PROVE  AssigneesTold'
    <3>1. req[r] \in TaskSubmission /\ tasks[req[r].task] # None
      BY <2>6, RequestKinds DEF SubmitTaskCommit, RequestRefers
    <3>2. notified \subseteq notified'
      BY <2>6, <3>1, Told DEF SubmitTaskCommit, TypeOK, TaskSubmission
    <3> DEFINE row == [tasks[req[r].task] EXCEPT !.status = "completed"]
    <3>3. row.assignee = tasks[req[r].task].assignee
      BY <3>1 DEF TypeOK, TablesTypeOK, Task, TaskSubmission
    <3>4. tasks' = [tasks EXCEPT ![req[r].task] = row]
      BY <2>6 DEF SubmitTaskCommit
    <3> HIDE DEF row
    <3>5. \A t \in TaskIds : tasks'[t] # None =>
            tasks[t] # None /\ tasks'[t].assignee = tasks[t].assignee
      BY <3>1, <3>3, <3>4 DEF TypeOK, TablesTypeOK
    <3>6. ASSUME NEW c \in Controls, assignments'[c] # None
          PROVE  Assigned(c) /\ assignments'[c].assignee = assignments[c].assignee
      <4>1. CASE c = req[r].control
        <5>1. assignments[c] \in Assignment /\ Assigned(c)
          BY <2>6, <4>1, NullAssumption
          DEF SubmitTaskCommit, RequestRefers, Assigned, TypeOK, TablesTypeOK
        <5>2. assignments'[c] = [assignments[c] EXCEPT !.status = "submitted"]
          BY <2>6, <4>1 DEF SubmitTaskCommit
        <5> QED
          BY <5>1, <5>2 DEF Assignment
      <4>2. CASE c # req[r].control
        BY <2>6, <3>6, <4>2 DEF SubmitTaskCommit, Assigned
      <4> QED
        BY <4>1, <4>2
    <3> QED
      BY <3>2, <3>5, <3>6 DEF AssigneesTold, Assigned
  <2>7. ASSUME NEW r \in Requests, UploadCommit(r)
        PROVE  AssigneesTold'
    <3>1. notified \subseteq notified'
      BY <2>7 DEF UploadCommit, Tell
    <3> QED
      BY <2>7, <3>1 DEF UploadCommit, AssigneesTold, Assigned
  <2>8. CASE Assess \/ (\E r \in Requests : Fail(r)) \/ UNCHANGED vars
    BY <2>1, <2>8 DEF Assess, Fail, workVars, vars
  <2>9. CASE Work
    BY <2>1, <2>2, <2>3, <2>4, <2>5, <2>6, <2>7, <2>9
    DEF Work, SubmitTaskRead, UploadStore, workVars
  <2> QED
    BY <2>8, <2>9 DEF Next
<1> QED
  BY <1>1, <1>2, TypesHold, PTL DEF Spec

(***************************************************************************)
(* Submissions.                                                            *)
(***************************************************************************)
\* A task's gap is never replaced under it: a submission inserts into empty ids,
\* and deletes no gap a task refers to (submit_assessment, create_task).
THEOREM TaskKeepsItsGapHolds == Spec => []TaskKeepsItsGap
<1>1. Init => TaskKeepsItsGap
  BY DEF Init, TaskKeepsItsGap
<1>2. TaskKeepsItsGap /\ Typed /\ [Next]_vars => TaskKeepsItsGap'
  <2> SUFFICES ASSUME TaskKeepsItsGap, Typed, [Next]_vars
               PROVE  TaskKeepsItsGap'
    OBVIOUS
  <2>1. \A t \in TaskIds : tasks[t] # None => tasks[t].gap \in GapIds \cup {Null}
    BY DEF Typed, TypeOK, TablesTypeOK, Task
  <2>2. CASE UNCHANGED <<tasks, gaps>>
    BY <2>2 DEF TaskKeepsItsGap
  <2>3. ASSUME NEW r \in Requests, SubmitCommit(r), UNCHANGED tasks
        PROVE  TaskKeepsItsGap'
    <3>1. ASSUME NEW t \in TaskIds, tasks[t] # None, tasks[t].gap # Null
          PROVE  gaps'[tasks[t].gap] # None
      <4>1. tasks[t].gap \in GapIds /\ gaps[tasks[t].gap] # None
        BY <2>1, <3>1 DEF TaskKeepsItsGap
      <4>2. tasks[t].gap \notin GapsOf(req[r].assessment)
        BY <2>3, <3>1 DEF SubmitCommit, Tasked
      <4> QED
        BY <2>3, <4>1, <4>2, SubmissionInserts
    <3> QED
      BY <2>3, <3>1 DEF TaskKeepsItsGap
  <2>4. ASSUME NEW t \in TaskIds, NEW g \in GapIds \cup {Null}, NEW c \in Controls \cup {Null},
               NEW assignee \in Staff \cup {Null}, NEW status \in {"open", "completed"},
               CreateTask(t, g, c, assignee, status), UNCHANGED gaps
        PROVE  TaskKeepsItsGap'
    BY <2>4 DEF CreateTask, TaskKeepsItsGap, Typed, TypeOK, TablesTypeOK
  <2>5. ASSUME NEW t \in TaskIds, NEW assignee \in Staff \cup {Null},
               NEW status \in {"open", "completed"}, UpdateTask(t, assignee, status),
               UNCHANGED gaps
        PROVE  TaskKeepsItsGap'
    <3>1. tasks[t] \in Task
      BY <2>5 DEF UpdateTask, Typed, TypeOK, TablesTypeOK
    <3>2. tasks'[t].gap = tasks[t].gap
      BY <2>5, <3>1 DEF UpdateTask, Typed, TypeOK, TablesTypeOK, Task
    <3> QED
      BY <2>5, <3>2 DEF UpdateTask, TaskKeepsItsGap, Typed, TypeOK, TablesTypeOK
  <2>6. ASSUME NEW r \in Requests, SubmitTaskCommit(r), UNCHANGED gaps
        PROVE  TaskKeepsItsGap'
    <3>1. req[r] \in TaskSubmission /\ tasks[req[r].task] # None
      BY <2>6, RequestKinds DEF SubmitTaskCommit, Typed, RequestRefers
    <3> DEFINE row == [tasks[req[r].task] EXCEPT !.status = "completed"]
    <3>2. row.gap = tasks[req[r].task].gap
      BY <3>1 DEF Typed, TypeOK, TablesTypeOK, Task, TaskSubmission
    <3>3. tasks' = [tasks EXCEPT ![req[r].task] = row]
      BY <2>6 DEF SubmitTaskCommit
    <3> HIDE DEF row
    <3>4. \A t \in TaskIds : tasks'[t] # None =>
            tasks[t] # None /\ tasks'[t].gap = tasks[t].gap
      BY <3>1, <3>2, <3>3 DEF Typed, TypeOK, TablesTypeOK
    <3> QED
      BY <2>6, <3>4 DEF TaskKeepsItsGap
  <2>7. CASE Assess
    <3>1. UNCHANGED tasks
      BY <2>7 DEF Assess, workVars
    <3> QED
      BY <2>2, <2>3, <2>7, <3>1
      DEF Assess, CreateAssessment, Open, Select, SubmitRead, SaveRead, SaveInsert,
          SaveUpdateFails, SaveRefused, SubmitRefused, assessmentVars
  <2>8. CASE Work
    <3>1. UNCHANGED gaps
      BY <2>8 DEF Work, assessmentVars
    <3> QED
      BY <2>2, <2>4, <2>5, <2>6, <2>8, <3>1
      DEF Work, CreateControlAssignment, UpdateControlStatus, SubmitTaskRead, UploadStore,
          UploadCommit, workVars
  <2>9. CASE (\E r \in Requests : Fail(r)) \/ UNCHANGED vars
    BY <2>2, <2>9 DEF Fail, workVars, assessmentVars, vars
  <2> QED
    BY <2>7, <2>8, <2>9 DEF Next
<1> QED
  BY <1>1, <1>2, TypesHold, PTL DEF Spec

(***************************************************************************)
(* Answers.  A save that has found no answer inserts one: what it found is   *)
(* still so unless another save of the question overlapped it.              *)
(***************************************************************************)
SameQuestion(p, r) ==
  req[p].assessment = req[r].assessment /\ req[p].question = req[r].question

InsertsApart ==
  \A r \in Requests : req[r].at = "insert" =>
    /\ Answered(req[r].assessment, req[r].question)
         => <<req[r].assessment, req[r].question>> \in overlaps
    /\ \A p \in Requests : (p # r /\ req[p].at = "insert" /\ SameQuestion(p, r))
         => <<req[r].assessment, req[r].question>> \in overlaps

LEMMA InsertsApartStep ==
  ASSUME InsertsApart, OneAnswerUnlessOverlap, Typed, [Next]_vars
  PROVE  InsertsApart' /\ OneAnswerUnlessOverlap'
<1> USE DEF Typed
<1>1. ASSUME UNCHANGED <<responses, overlaps>>,
             \A r \in Requests : req'[r] = req[r] \/ req'[r].at # "insert"
      PROVE  InsertsApart' /\ OneAnswerUnlessOverlap'
  BY <1>1 DEF InsertsApart, OneAnswerUnlessOverlap, Answered, ResponsesOf, SameQuestion
<1>2. ASSUME NEW r \in Requests, NEW q \in Request, Start(r, q), q.at # "insert",
             UNCHANGED <<responses, overlaps>>
      PROVE  InsertsApart' /\ OneAnswerUnlessOverlap'
  BY <1>1, <1>2, StartTyped DEF TypeOK
<1>3. ASSUME NEW r \in Requests, Finish(r), UNCHANGED <<responses, overlaps>>
      PROVE  InsertsApart' /\ OneAnswerUnlessOverlap'
  BY <1>1, <1>3, FinishTyped DEF TypeOK
<1>4. ASSUME NEW r \in Requests, SaveRead(r)
      PROVE  InsertsApart' /\ OneAnswerUnlessOverlap'
  <2> DEFINE a == req[r].assessment
             q == req[r].question
  <2>1. req[r] \in Save
    BY <1>4, RequestKinds DEF SaveRead
  <2>2. /\ req'[r].at = UpdateOrInsert(a, q)
        /\ req'[r].assessment = a /\ req'[r].question = q
        /\ \A p \in Requests : p # r => req'[p] = req[p]
    BY <1>4, <2>1 DEF SaveRead, TypeOK, TablesTypeOK, Save
  <2>3. overlaps \subseteq overlaps' /\ UNCHANGED responses
    BY <1>4 DEF SaveRead
  <2>4. ASSUME NEW p \in Requests, p # r, req[p].at = "insert", req[p].assessment = a,
               req[p].question = q
        PROVE  <<a, q>> \in overlaps'
    BY <1>4, <2>4 DEF SaveRead, At
  <2>5. req'[r].at = "insert" => ~Answered(a, q)
    BY <2>2 DEF UpdateOrInsert
  <2>6. OneAnswerUnlessOverlap'
    BY <2>3 DEF OneAnswerUnlessOverlap
  <2>7. ASSUME NEW p \in Requests, req'[p].at = "insert"
        PROVE  /\ Answered(req[p].assessment, req[p].question)'
                    => <<req[p].assessment, req[p].question>>' \in overlaps'
               /\ \A o \in Requests : (o # p /\ req'[o].at = "insert" /\ SameQuestion(o, p)')
                    => <<req[p].assessment, req[p].question>>' \in overlaps'
    <3>1. CASE p = r
      BY <2>2, <2>3, <2>4, <2>5, <2>7, <3>1 DEF Answered, ResponsesOf, SameQuestion
    <3>2. CASE p # r
      BY <2>2, <2>3, <2>4, <2>7, <3>2 DEF InsertsApart, Answered, ResponsesOf, SameQuestion
    <3> QED
      BY <3>1, <3>2
  <2> QED
    BY <2>6, <2>7 DEF InsertsApart
<1>5. ASSUME NEW r \in Requests, SaveInsert(r)
      PROVE  InsertsApart' /\ OneAnswerUnlessOverlap'
  <2> DEFINE a == req[r].assessment
             q == req[r].question
             new == [assessment |-> a, question |-> q, value |-> req[r].value]
  <2>1. PICK i \in ResponseIds : responses[i] = None /\ responses' = [responses EXCEPT ![i] = new]
    BY <1>5 DEF SaveInsert
  <2>2. /\ req'[r].at = "idle"
        /\ \A p \in Requests : p # r => req'[p] = req[p]
    BY <1>5, FinishTyped DEF SaveInsert, TypeOK
  <2>3. UNCHANGED overlaps
    BY <1>5 DEF SaveInsert
  <2>4. /\ responses'[i].assessment = a /\ responses'[i].question = q
        /\ \A j \in ResponseIds \ {i} : responses'[j] = responses[j]
    BY <2>1 DEF TypeOK, TablesTypeOK
  <2>5. \A b, c : Answered(b, c)' => Answered(b, c) \/ (b = a /\ c = q)
    BY <2>4 DEF Answered, ResponsesOf
  <2>6. OneAnswerUnlessOverlap'
    <3>1. ASSUME NEW j \in ResponseIds \ {i}, responses[j] # None,
                 responses[j].assessment = a, responses[j].question = q
          PROVE  <<a, q>> \in overlaps
      <4>1. Answered(a, q)
        BY <3>1 DEF Answered, ResponsesOf
      <4> QED
        BY <1>5, <4>1 DEF SaveInsert, InsertsApart
    <3> QED
      BY <2>3, <2>4, <3>1 DEF OneAnswerUnlessOverlap
  <2>7. ASSUME NEW p \in Requests, req'[p].at = "insert"
        PROVE  /\ Answered(req[p].assessment, req[p].question)'
                    => <<req[p].assessment, req[p].question>>' \in overlaps'
               /\ \A o \in Requests : (o # p /\ req'[o].at = "insert" /\ SameQuestion(o, p)')
                    => <<req[p].assessment, req[p].question>>' \in overlaps'
    <3>1. p # r /\ req'[p] = req[p]
      BY <2>2, <2>7
    <3>2. req[p].assessment = a /\ req[p].question = q => <<a, q>> \in overlaps
      BY <1>5, <2>7, <3>1 DEF SaveInsert, InsertsApart, SameQuestion
    <3>3. Answered(req[p].assessment, req[p].question)'
            => <<req[p].assessment, req[p].question>> \in overlaps
      BY <2>5, <2>7, <3>1, <3>2 DEF InsertsApart
    <3>4. ASSUME NEW o \in Requests, o # p, req'[o].at = "insert", SameQuestion(o, p)'
          PROVE  <<req[p].assessment, req[p].question>> \in overlaps
      BY <2>2, <2>7, <3>1, <3>4 DEF InsertsApart, SameQuestion
    <3> QED
      BY <2>3, <3>1, <3>3, <3>4
  <2> QED
    BY <2>6, <2>7 DEF InsertsApart
<1>6. CASE UNCHANGED vars
  BY <1>1, <1>6 DEF vars, assessmentVars
<1>7. CASE \E r \in Requests : Fail(r)
  BY <1>3, <1>7 DEF Fail, assessmentVars
<1>8. CASE Assess
  <2>1. ASSUME NEW r \in Requests, NEW a \in AssessmentIds, NEW q \in Questions,
               NEW v \in Options, Select(r, a, q, v)
        PROVE  InsertsApart' /\ OneAnswerUnlessOverlap'
    <3>1. [at |-> "save", assessment |-> a, question |-> q, value |-> v] \in Request
      BY OptionsAssumption DEF Request, Save
    <3> QED
      BY <1>2, <2>1, <3>1 DEF Select
  <2>2. ASSUME NEW r \in Requests, NEW a \in AssessmentIds, SubmitRead(r, a)
        PROVE  InsertsApart' /\ OneAnswerUnlessOverlap'
    <3>1. [at |-> "submit", assessment |-> a, read |-> ResponsesOf(a)] \in Request
      BY DEF Request, Submission, ResponsesOf
    <3> QED
      BY <1>2, <2>2, <3>1 DEF SubmitRead, assessmentVars
  <2>3. ASSUME NEW r \in Requests,
               SaveUpdateFails(r) \/ SaveRefused(r) \/ SubmitCommit(r) \/ SubmitRefused(r)
        PROVE  InsertsApart' /\ OneAnswerUnlessOverlap'
    BY <1>3, <2>3 DEF SaveUpdateFails, SaveRefused, SubmitCommit, SubmitRefused, assessmentVars
  <2>4. ASSUME NEW a \in AssessmentIds, CreateAssessment(a) \/ Open(a)
        PROVE  InsertsApart' /\ OneAnswerUnlessOverlap'
    BY <1>1, <2>4 DEF CreateAssessment, Open
  <2> QED
    BY <1>4, <1>5, <1>8, <2>1, <2>2, <2>3, <2>4 DEF Assess
<1>9. CASE Work
  <2>1. UNCHANGED <<responses, overlaps>>
    BY <1>9 DEF Work, assessmentVars
  <2>2. \A r \in Requests : req'[r] = req[r] \/ req'[r].at # "insert"
    <3>1. ASSUME NEW r \in Requests, NEW q, Start(r, q), q.at # "insert"
          PROVE  \A p \in Requests : req'[p] = req[p] \/ req'[p].at # "insert"
      BY <3>1 DEF Start, TypeOK, TablesTypeOK
    <3>2. ASSUME NEW r \in Requests, Finish(r)
          PROVE  \A p \in Requests : req'[p] = req[p] \/ req'[p].at # "insert"
      BY <3>2, FinishTyped DEF TypeOK
    <3> QED
      BY <1>9, <3>1, <3>2
      DEF Work, CreateTask, UpdateTask, CreateControlAssignment, UpdateControlStatus,
          SubmitTaskRead, SubmitTaskCommit, UploadStore, UploadCommit
  <2> QED
    BY <1>1, <2>1, <2>2
<1> QED
  BY <1>6, <1>7, <1>8, <1>9 DEF Next

\* A question has two answers only if two saves of it overlapped, for any number
\* of saves, submissions and failures (save_assessment_response).
THEOREM OneAnswerUnlessOverlapHolds == Spec => []OneAnswerUnlessOverlap
<1>1. Init => InsertsApart /\ OneAnswerUnlessOverlap
  BY SeedsAssumption DEF Init, Seeded, InsertsApart, OneAnswerUnlessOverlap, Idle
<1>2. InsertsApart /\ OneAnswerUnlessOverlap /\ Typed /\ [Next]_vars
        => (InsertsApart /\ OneAnswerUnlessOverlap)'
  BY InsertsApartStep
<1> QED
  BY <1>1, <1>2, TypesHold, PTL DEF Spec

(***************************************************************************)
(* Results.  A submission counts every response it has read once, and gives  *)
(* each that is neither a yes nor exempt a gap of its own.                  *)
(***************************************************************************)
LEMMA Split ==
  ASSUME NEW S, IsFiniteSet(S), NEW T \in SUBSET S
  PROVE  Cardinality(T) + Cardinality(S \ T) = Cardinality(S)
<1>1. IsFiniteSet(T) /\ IsFiniteSet(S \ T)
  BY FS_Subset
<1>2. T \cup (S \ T) = S /\ T \cap (S \ T) = {}
  OBVIOUS
<1>3. Cardinality(T \cup (S \ T))
        = Cardinality(T) + Cardinality(S \ T) - Cardinality(T \cap (S \ T))
  BY <1>1, FS_Union
<1>4. Cardinality(T) \in Nat /\ Cardinality(S \ T) \in Nat /\ Cardinality({}) = 0
  BY <1>1, FS_CardinalityType, FS_EmptySet
<1>5. Cardinality(S) = Cardinality(T) + Cardinality(S \ T) - Cardinality({})
  BY <1>2, <1>3
<1> QED
  BY <1>4, <1>5

LEMMA SubmissionCounts ==
  ASSUME Typed, NEW r \in Requests, SubmitCommit(r),
         NEW a \in AssessmentIds, a = req[r].assessment
  PROVE  /\ \E n \in Result :
              /\ results' = [results EXCEPT ![a] = <<n>>]
              /\ n.nonCompliant = Cardinality(GapsOf(a)')
                   + Cardinality({i \in req[r].read : responses[i].value = NotApplicable})
              /\ Counted(n) = Cardinality(req[r].read)
         /\ \A b \in AssessmentIds \ {a} : GapsOf(b)' = GapsOf(b)
<1> DEFINE yes == {i \in req[r].read : responses[i].value = "yes"}
           bad == {i \in req[r].read : responses[i].value \in {"no", "partial"}}
           exempt == {i \in req[r].read : responses[i].value = NotApplicable}
           rest == req[r].read \ yes
           kept == DeletedGaps(a)
           n == [compliant |-> Cardinality(yes), nonCompliant |-> Cardinality(rest)]
<1>1. req[r] \in Submission
  BY RequestKinds DEF SubmitCommit, Typed
<1>2. IsFiniteSet(req[r].read) /\ IsFiniteSet(yes) /\ IsFiniteSet(bad) /\ IsFiniteSet(rest)
  BY <1>1, SeedsAssumption, FS_Subset DEF Submission
<1>3. Cardinality(yes) \in Nat /\ Cardinality(rest) \in Nat
  BY <1>2, FS_CardinalityType
<1>4. n \in Result /\ n.compliant = Cardinality(yes) /\ n.nonCompliant = Cardinality(rest)
  BY <1>3 DEF Result
<1>5. Cardinality(yes) + Cardinality(rest) = Cardinality(req[r].read)
  BY <1>2, Split
<1>6. \A i \in bad : responses[i] \in Response
  BY <1>1 DEF SubmitCommit, Typed, RequestRefers, TypeOK, TablesTypeOK, Submission
<1>7. PICK id \in Injection(bad, {g \in GapIds : kept[g] = None}) :
        gaps' = [g \in GapIds |->
                   IF g \in Range(id)
                   THEN LET i == CHOOSE i \in bad : id[i] = g
                        IN [assessment |-> a, question |-> responses[i].question,
                            severity |-> Severity(responses[i].value)]
                   ELSE kept[g]]
  BY DEF SubmitCommit
<1>8. id \in [bad -> {g \in GapIds : kept[g] = None}]
  BY DEF Injection
<1>9. ASSUME NEW g \in Range(id)
      PROVE  /\ g \in GapIds /\ kept[g] = None
             /\ gaps'[g] # None /\ gaps'[g].assessment = a
  <2> DEFINE i == CHOOSE i \in bad : id[i] = g
  <2>1. i \in bad
    BY <1>8 DEF Range
  <2>2. g \in GapIds /\ kept[g] = None
    BY <1>8 DEF Range
  <2>3. gaps'[g] = [assessment |-> a, question |-> responses[i].question,
                    severity |-> Severity(responses[i].value)]
    BY <1>7, <2>2
  <2> HIDE DEF i
  <2>4. gaps'[g] \in Gap
    BY <1>1, <1>6, <2>1, <2>3 DEF Gap, Response, Severity, Submission
  <2> QED
    BY <2>2, <2>3, <2>4, RowsExist
<1>10. \A g \in GapIds \ Range(id) : gaps'[g] = kept[g]
  BY <1>7
<1>11. GapsOf(a)' = Range(id)
  BY <1>9, <1>10 DEF GapsOf, DeletedGaps
<1>12. \A b \in AssessmentIds \ {a} : GapsOf(b)' = GapsOf(b)
  BY <1>9, <1>10 DEF GapsOf, DeletedGaps
<1>13. Cardinality(Range(id)) = Cardinality(bad)
  <2>1. id \in Bijection(bad, Range(id))
    BY <1>7, <1>8 DEF Bijection, Injection, Surjection, Range
  <2>2. ExistsBijection(bad, Range(id))
    BY <2>1 DEF ExistsBijection
  <2> QED
    BY <1>2, <2>2, FS_Bijection
<1>14. results' = [results EXCEPT ![a] = <<n>>]
  BY DEF SubmitCommit
<1>15. Cardinality(bad) + Cardinality(exempt) = Cardinality(rest)
  <2>1. \A i \in req[r].read : responses[i] \in Response
    BY <1>1 DEF SubmitCommit, Typed, RequestRefers, TypeOK, TablesTypeOK, Submission
  <2>2. bad \subseteq rest
    OBVIOUS
  <2>3. exempt = rest \ bad
    BY <2>1 DEF Response, Values, NotApplicable
  <2> HIDE DEF bad, exempt, rest
  <2> QED
    BY <1>2, <2>2, <2>3, Split
<1> HIDE DEF n
<1>16. /\ n.nonCompliant = Cardinality(GapsOf(a)') + Cardinality(exempt)
       /\ Counted(n) = Cardinality(req[r].read)
  BY <1>4, <1>5, <1>11, <1>13, <1>15 DEF Counted
<1> QED
  BY <1>4, <1>12, <1>14, <1>16

(***************************************************************************)
(* No answer becomes exempt or ceases to be: saves only insert values of the  *)
(* three classes.  So a submission has read all the exempt answers there are *)
(* when it commits, even if other answers were inserted in between.         *)
(***************************************************************************)
ExemptRead ==
  \A r \in Requests : req[r].at = "submit" =>
    {i \in req[r].read : responses[i].value = NotApplicable} = Exempt(req[r].assessment)

LEMMA ExemptStands ==
  ASSUME Typed, [Next]_vars
  PROVE  /\ \A a : Exempt(a)' = Exempt(a)
         /\ \A i \in ResponseIds : responses[i] # None => responses'[i] = responses[i]
<1> USE DEF Typed
<1>1. CASE UNCHANGED responses
  BY <1>1 DEF Exempt, ResponsesOf
<1>2. ASSUME NEW r \in Requests, SaveInsert(r)
      PROVE  /\ \A a : Exempt(a)' = Exempt(a)
             /\ \A i \in ResponseIds : responses[i] # None => responses'[i] = responses[i]
  <2>1. PICK i \in ResponseIds :
          /\ responses[i] = None
          /\ responses' = [responses EXCEPT ![i] =
               [assessment |-> req[r].assessment, question |-> req[r].question,
                value |-> req[r].value]]
    BY <1>2 DEF SaveInsert
  <2>2. req[r].value # NotApplicable
    BY <1>2 DEF SaveInsert, RequestRefers, Values, NotApplicable
  <2>3. /\ responses'[i].value # NotApplicable
        /\ \A j \in ResponseIds \ {i} : responses'[j] = responses[j]
    BY <2>1, <2>2 DEF TypeOK, TablesTypeOK
  <2> QED
    BY <2>1, <2>3 DEF Exempt, ResponsesOf
<1>3. CASE Assess
  BY <1>1, <1>2, <1>3
  DEF Assess, CreateAssessment, Open, Select, SubmitRead, SaveRead, SaveUpdateFails, SaveRefused,
      SubmitCommit, SubmitRefused, assessmentVars
<1>4. CASE Work \/ (\E r \in Requests : Fail(r)) \/ UNCHANGED vars
  BY <1>1, <1>4 DEF Work, Fail, assessmentVars, vars
<1> QED
  BY <1>3, <1>4 DEF Next

LEMMA ExemptReadStep ==
  ASSUME ExemptRead, Typed, [Next]_vars
  PROVE  ExemptRead'
<1> USE DEF Typed
<1>1. ASSUME NEW p \in Requests, req'[p].at = "submit", req'[p] = req[p]
      PROVE  {i \in req'[p].read : responses'[i].value = NotApplicable}
               = Exempt(req[p].assessment)'
  <2>1. req[p].read \subseteq ResponseIds /\ \A i \in req[p].read : responses[i] # None
    BY <1>1, RequestKinds DEF RequestRefers, Submission
  <2> QED
    BY <1>1, <2>1, ExemptStands DEF ExemptRead
<1>2. ASSUME \A p \in Requests : req'[p] = req[p] \/ req'[p].at # "submit"
      PROVE  ExemptRead'
  BY <1>1, <1>2 DEF ExemptRead
<1>3. ASSUME NEW r \in Requests, NEW q, Start(r, q), q.at # "submit"
      PROVE  ExemptRead'
  BY <1>2, <1>3 DEF Start, TypeOK, TablesTypeOK
<1>4. ASSUME NEW r \in Requests, Finish(r)
      PROVE  ExemptRead'
  BY <1>2, <1>4, FinishTyped DEF TypeOK
<1>5. ASSUME NEW r \in Requests, NEW a \in AssessmentIds, SubmitRead(r, a)
      PROVE  ExemptRead'
  <2>1. [at |-> "submit", assessment |-> a, read |-> ResponsesOf(a)] \in Request
    BY DEF Request, Submission, ResponsesOf
  <2>2. /\ req'[r] = [at |-> "submit", assessment |-> a, read |-> ResponsesOf(a)]
        /\ \A p \in Requests : p # r => req'[p] = req[p]
    BY <1>5, <2>1, StartTyped DEF SubmitRead, TypeOK
  <2>3. {i \in req'[r].read : responses'[i].value = NotApplicable} = Exempt(a)'
    <3>1. req'[r].read = ResponsesOf(a) /\ UNCHANGED responses
      BY <1>5, <2>2 DEF SubmitRead, assessmentVars
    <3> QED
      BY <3>1 DEF Exempt, ResponsesOf
  <2> QED
    BY <1>1, <2>2, <2>3 DEF ExemptRead
<1>6. ASSUME NEW r \in Requests, SaveRead(r)
      PROVE  ExemptRead'
  <2>1. \A p \in Requests : req'[p] = req[p] \/ req'[p].at # "submit"
    BY <1>6, RequestKinds DEF SaveRead, UpdateOrInsert, TypeOK, TablesTypeOK, Save
  <2> QED
    BY <1>2, <2>1
<1>7. CASE Assess
  BY <1>2, <1>3, <1>4, <1>5, <1>6, <1>7
  DEF Assess, CreateAssessment, Open, Select, SaveInsert, SaveUpdateFails, SaveRefused,
      SubmitCommit, SubmitRefused
<1>8. CASE Work
  BY <1>2, <1>3, <1>4, <1>8
  DEF Work, CreateTask, UpdateTask, CreateControlAssignment, UpdateControlStatus,
      SubmitTaskRead, SubmitTaskCommit, UploadStore, UploadCommit
<1>9. CASE (\E r \in Requests : Fail(r)) \/ UNCHANGED vars
  BY <1>2, <1>4, <1>9 DEF Fail, vars
<1> QED
  BY <1>7, <1>8, <1>9 DEF Next

\* However often an assessment is submitted and whatever it was seeded with, its
\* one result counts the gaps it has and its exempt answers: a submission removes
\* the assessment's old gaps, seeded ones too, and no other assessment's
\* (submit_assessment).
THEOREM ResultAgreesWithGapsHolds == Spec => []ResultAgreesWithGaps
<1>1. Init => ExemptRead /\ ResultAgreesWithGaps
  BY DEF Init, ExemptRead, ResultAgreesWithGaps, Idle
<1>2. ExemptRead /\ Typed /\ [Next]_vars => ExemptRead'
  BY ExemptReadStep
<1>3. ResultAgreesWithGaps /\ ExemptRead /\ Typed /\ [Next]_vars => ResultAgreesWithGaps'
  <2> SUFFICES ASSUME ResultAgreesWithGaps, ExemptRead, Typed, [Next]_vars
               PROVE  ResultAgreesWithGaps'
    OBVIOUS
  <2>0. \A a : Exempt(a)' = Exempt(a)
    BY ExemptStands
  <2>1. CASE UNCHANGED <<assessments, results, gaps, submitted>>
    BY <2>0, <2>1 DEF ResultAgreesWithGaps, GapsOf
  <2>2. ASSUME NEW a \in AssessmentIds, CreateAssessment(a)
        PROVE  ResultAgreesWithGaps'
    <3>1. a \notin submitted /\ submitted \subseteq AssessmentIds
      BY <2>2 DEF CreateAssessment, ResultAgreesWithGaps, Typed, TypeOK
    <3> QED
      BY <2>0, <2>2, <3>1
      DEF CreateAssessment, ResultAgreesWithGaps, GapsOf, Typed, TypeOK, TablesTypeOK
  <2>3. ASSUME NEW r \in Requests, SubmitCommit(r)
        PROVE  ResultAgreesWithGaps'
    <3>1. PICK a \in AssessmentIds : a = req[r].assessment
      BY <2>3, SubmissionInserts
    <3>2. PICK n \in Result :
            /\ results' = [results EXCEPT ![a] = <<n>>]
            /\ n.nonCompliant = Cardinality(GapsOf(a)')
                 + Cardinality({i \in req[r].read : responses[i].value = NotApplicable})
      BY <2>3, <3>1, SubmissionCounts
    <3>3. \A b \in AssessmentIds \ {a} : GapsOf(b)' = GapsOf(b)
      BY <2>3, <3>1, SubmissionCounts
    <3>4. results'[a] = <<n>> /\ \A b \in AssessmentIds \ {a} : results'[b] = results[b]
      BY <3>2 DEF Typed, TypeOK, TablesTypeOK
    <3>5. /\ assessments'[a] = "completed"
          /\ \A b \in AssessmentIds \ {a} : assessments'[b] = assessments[b]
          /\ submitted' = submitted \cup {a} /\ submitted \subseteq AssessmentIds
      BY <2>3, <3>1 DEF SubmitCommit, Typed, TypeOK, TablesTypeOK
    <3>6. {i \in req[r].read : responses[i].value = NotApplicable} = Exempt(a)'
      BY <2>0, <2>3, <3>1 DEF SubmitCommit, ExemptRead
    <3>7. ASSUME NEW b \in submitted'
          PROVE  /\ assessments'[b] = "completed" /\ Len(results'[b]) = 1
                 /\ results'[b][1].nonCompliant
                      = Cardinality(GapsOf(b)') + Cardinality(Exempt(b)')
      <4>1. CASE b = a
        <5>1. n.nonCompliant = Cardinality(GapsOf(a)') + Cardinality(Exempt(a)')
          BY <3>2, <3>6
        <5>2. results'[a][1] = n /\ Len(results'[a]) = 1
          BY <3>4
        <5> QED
          BY <3>5, <4>1, <5>1, <5>2
      <4>2. CASE b # a
        BY <2>0, <3>3, <3>4, <3>5, <3>7, <4>2 DEF ResultAgreesWithGaps
      <4> QED
        BY <4>1, <4>2
    <3> QED
      BY <3>7 DEF ResultAgreesWithGaps
  <2>4. CASE Assess
    BY <2>1, <2>2, <2>3, <2>4
    DEF Assess, Open, Select, SubmitRead, SaveRead, SaveInsert, SaveUpdateFails, SaveRefused,
        SubmitRefused, assessmentVars
  <2>5. CASE Work \/ (\E r \in Requests : Fail(r)) \/ UNCHANGED vars
    BY <2>1, <2>5 DEF Work, Fail, assessmentVars, vars
  <2> QED
    BY <2>4, <2>5 DEF Next
<1> QED
  BY <1>1, <1>2, <1>3, TypesHold, PTL DEF Spec

(***************************************************************************)
(* A submission that holds the lock of its assessment has read at least what *)
(* the last one counted, because it read after it had taken the lock, and no *)
(* other can commit before it.                                              *)
(***************************************************************************)
Submitting(r) == req[r].at = "submit"

CountsGrow ==
  /\ \A a \in submitted :
       results[a] # <<>> /\ Counted(results[a][1]) <= Cardinality(ResponsesOf(a))
  /\ \A r \in Requests : Submitting(r) =>
       LET a == req[r].assessment
       IN /\ req[r].read \subseteq ResponsesOf(a)
          /\ a \in submitted => Counted(results[a][1]) <= Cardinality(req[r].read)
          /\ \A p \in Requests : Submitting(p) /\ req[p].assessment = a => p = r

LEMMA ResponsesFinite ==
  ASSUME NEW a \in AssessmentIds
  PROVE  IsFiniteSet(ResponsesOf(a)) /\ Cardinality(ResponsesOf(a)) \in Nat
<1>1. ResponsesOf(a) \in SUBSET ResponseIds
  BY DEF ResponsesOf
<1>2. IsFiniteSet(ResponsesOf(a))
  BY <1>1, SeedsAssumption, FS_Subset
<1> QED
  BY <1>2, FS_CardinalityType

LEMMA CountedIsNat ==
  ASSUME TablesTypeOK, NEW a \in AssessmentIds, results[a] # <<>>
  PROVE  Counted(results[a][1]) \in Nat
<1>1. results[a] \in Seq(Result)
  BY DEF TablesTypeOK
<1>2. results[a][1] \in Result
  BY <1>1
<1> QED
  BY <1>2 DEF Result, Counted

LEMMA CountsGrowStep ==
  ASSUME CountsGrow, Typed, [Next]_vars
  PROVE  CountsGrow'
<1> USE DEF Typed
<1>1. ASSUME UNCHANGED <<responses, results, submitted>>,
             \A r \in Requests : req'[r] = req[r] \/ req'[r].at # "submit"
      PROVE  CountsGrow'
  BY <1>1 DEF CountsGrow, ResponsesOf, Submitting
<1>2. ASSUME NEW r \in Requests, NEW q \in Request, Start(r, q), q.at # "submit",
             UNCHANGED <<responses, results, submitted>>
      PROVE  CountsGrow'
  BY <1>1, <1>2, StartTyped DEF TypeOK
<1>3. ASSUME NEW r \in Requests, Finish(r), UNCHANGED <<responses, results, submitted>>
      PROVE  CountsGrow'
  BY <1>1, <1>3, FinishTyped DEF TypeOK
<1>4. ASSUME NEW r \in Requests, NEW a \in AssessmentIds, SubmitRead(r, a)
      PROVE  CountsGrow'
  <2> DEFINE new == [at |-> "submit", assessment |-> a, read |-> ResponsesOf(a)]
  <2>1. new \in Request
    BY DEF Request, Submission, ResponsesOf
  <2>2. req'[r] = new /\ \A p \in Requests : p # r => req'[p] = req[p]
    BY <1>4, <2>1, StartTyped DEF SubmitRead, TypeOK
  <2>3. UNCHANGED <<responses, results, submitted>>
    BY <1>4 DEF SubmitRead, assessmentVars
  <2>4. \A p \in Requests : Submitting(p) => req[p].assessment # a
    BY <1>4 DEF SubmitRead, AssessmentFree, At, Submitting
  <2> QED
    BY <2>2, <2>3, <2>4 DEF CountsGrow, ResponsesOf, Submitting
<1>5. ASSUME NEW r \in Requests, SaveRead(r)
      PROVE  CountsGrow'
  <2>1. \A p \in Requests : req'[p] = req[p] \/ req'[p].at # "submit"
    BY <1>5, RequestKinds DEF SaveRead, UpdateOrInsert, TypeOK, TablesTypeOK, Save
  <2> QED
    BY <1>1, <1>5, <2>1 DEF SaveRead
<1>6. ASSUME NEW r \in Requests, SaveInsert(r)
      PROVE  CountsGrow'
  <2>1. \A p \in Requests : req'[p] = req[p] \/ req'[p].at # "submit"
    BY <1>6, FinishTyped DEF SaveInsert, TypeOK
  <2>2. ASSUME NEW a \in AssessmentIds
        PROVE  /\ ResponsesOf(a) \subseteq ResponsesOf(a)'
               /\ Cardinality(ResponsesOf(a)) <= Cardinality(ResponsesOf(a)')
               /\ Cardinality(ResponsesOf(a)) \in Nat /\ Cardinality(ResponsesOf(a)') \in Nat
    <3>1. ResponsesOf(a) \subseteq ResponsesOf(a)'
      BY <1>6 DEF SaveInsert, ResponsesOf, TypeOK, TablesTypeOK
    <3>2. ResponsesOf(a)' \in SUBSET ResponseIds
      BY DEF ResponsesOf
    <3>3. IsFiniteSet(ResponsesOf(a)')
      BY <3>2, SeedsAssumption, FS_Subset
    <3>4. Cardinality(ResponsesOf(a)') \in Nat
      BY <3>3, FS_CardinalityType
    <3> QED
      BY <3>1, <3>3, <3>4, FS_Subset, ResponsesFinite
  <2>3. UNCHANGED <<results, submitted>> /\ submitted \subseteq AssessmentIds
    BY <1>6 DEF SaveInsert, TypeOK
  <2>4. \A a \in submitted' :
          results'[a] # <<>> /\ Counted(results'[a][1]) <= Cardinality(ResponsesOf(a)')
    BY <2>2, <2>3, CountedIsNat DEF CountsGrow, TypeOK
  <2>5. \A p \in Requests : Submitting(p) => req[p].assessment \in AssessmentIds
    BY RequestKinds DEF Submitting, Submission
  <2> QED
    BY <2>1, <2>2, <2>3, <2>4, <2>5 DEF CountsGrow, Submitting
<1>7. ASSUME NEW r \in Requests, SubmitCommit(r)
      PROVE  CountsGrow'
  <2>1. req[r] \in Submission
    BY <1>7, RequestKinds DEF SubmitCommit
  <2>2. PICK a \in AssessmentIds : a = req[r].assessment
    BY <2>1 DEF Submission
  <2>3. PICK n \in Result : /\ results' = [results EXCEPT ![a] = <<n>>]
                            /\ Counted(n) = Cardinality(req[r].read)
    BY <1>7, <2>2, SubmissionCounts
  <2>4. results'[a] = <<n>> /\ \A b \in AssessmentIds \ {a} : results'[b] = results[b]
    BY <2>3 DEF TypeOK, TablesTypeOK
  <2>5. \A p \in Requests : p # r => req'[p] = req[p]
    BY <1>7, FinishTyped DEF SubmitCommit, TypeOK
  <2>6. req'[r].at = "idle" /\ UNCHANGED responses
    BY <1>7, FinishTyped DEF SubmitCommit, TypeOK
  <2>7. Cardinality(req[r].read) <= Cardinality(ResponsesOf(a))
    <3>1. req[r].read \in SUBSET ResponsesOf(a)
      BY <1>7, <2>2 DEF SubmitCommit, CountsGrow, Submitting
    <3> QED
      BY <3>1, ResponsesFinite, FS_Subset
  <2>8. results'[a][1] = n
    BY <2>4
  <2>9. \A p \in Requests : (p # r /\ Submitting(p)) => req[p].assessment # a
    BY <1>7, <2>2 DEF SubmitCommit, CountsGrow, Submitting
  <2>10. \A p \in Requests : Submitting(p) => req[p].assessment \in AssessmentIds
    BY RequestKinds DEF Submitting, Submission
  <2>13. submitted' = submitted \cup {a} /\ submitted \subseteq AssessmentIds
    BY <1>7, <2>2 DEF SubmitCommit, TypeOK
  <2>11. \A b \in submitted' :
           results'[b] # <<>> /\ Counted(results'[b][1]) <= Cardinality(ResponsesOf(b)')
    <3>1. \A b \in AssessmentIds : ResponsesOf(b)' = ResponsesOf(b)
      BY <2>6 DEF ResponsesOf
    <3>2. Counted(results'[a][1]) <= Cardinality(ResponsesOf(a)')
      BY <2>3, <2>7, <2>8, <3>1
    <3>3. ASSUME NEW b \in submitted', b # a
          PROVE  results'[b] # <<>> /\ Counted(results'[b][1]) <= Cardinality(ResponsesOf(b)')
      BY <2>4, <2>13, <3>1, <3>3 DEF CountsGrow
    <3> QED
      BY <2>4, <3>2, <3>3
  <2>12. \A p \in Requests : Submitting(p)' => p # r /\ Submitting(p)
    BY <2>5, <2>6 DEF Submitting
  <2> QED
    BY <2>4, <2>5, <2>6, <2>9, <2>10, <2>11, <2>12, <2>13 DEF CountsGrow, ResponsesOf, Submitting
<1>8. CASE UNCHANGED vars
  BY <1>1, <1>8 DEF vars, assessmentVars
<1>9. CASE \E r \in Requests : Fail(r)
  BY <1>3, <1>9 DEF Fail, assessmentVars
<1>10. CASE Assess
  <2>1. ASSUME NEW r \in Requests, NEW a \in AssessmentIds, NEW q \in Questions,
               NEW v \in Options, Select(r, a, q, v)
        PROVE  CountsGrow'
    <3>1. [at |-> "save", assessment |-> a, question |-> q, value |-> v] \in Request
      BY OptionsAssumption DEF Request, Save
    <3> QED
      BY <1>2, <2>1, <3>1 DEF Select
  <2>2. ASSUME NEW r \in Requests, SaveUpdateFails(r) \/ SaveRefused(r) \/ SubmitRefused(r)
        PROVE  CountsGrow'
    BY <1>3, <2>2 DEF SaveUpdateFails, SaveRefused, SubmitRefused, assessmentVars
  <2>3. ASSUME NEW a \in AssessmentIds, CreateAssessment(a) \/ Open(a)
        PROVE  CountsGrow'
    BY <1>1, <2>3 DEF CreateAssessment, Open
  <2> QED
    BY <1>4, <1>5, <1>6, <1>7, <1>10, <2>1, <2>2, <2>3 DEF Assess
<1>11. CASE Work
  <2>1. UNCHANGED <<responses, results, submitted>>
    BY <1>11 DEF Work, assessmentVars
  <2>2. \A r \in Requests : req'[r] = req[r] \/ req'[r].at # "submit"
    <3>1. ASSUME NEW r \in Requests, NEW q, Start(r, q), q.at # "submit"
          PROVE  \A p \in Requests : req'[p] = req[p] \/ req'[p].at # "submit"
      BY <3>1 DEF Start, TypeOK, TablesTypeOK
    <3>2. ASSUME NEW r \in Requests, Finish(r)
          PROVE  \A p \in Requests : req'[p] = req[p] \/ req'[p].at # "submit"
      BY <3>2, FinishTyped DEF TypeOK
    <3> QED
      BY <1>11, <3>1, <3>2
      DEF Work, CreateTask, UpdateTask, CreateControlAssignment, UpdateControlStatus,
          SubmitTaskRead, SubmitTaskCommit, UploadStore, UploadCommit
  <2> QED
    BY <1>1, <2>1, <2>2
<1> QED
  BY <1>8, <1>9, <1>10, <1>11 DEF Next

\* No submission forgets a response that an earlier one counted, for any number
\* of overlapping submissions and saves (submit_assessment).
THEOREM SubmissionsAddUpHolds == Spec => SubmissionsAddUp
<1> DEFINE Adds == \A a \in AssessmentIds :
      a \in submitted => Counted(results'[a][1]) >= Counted(results[a][1])
<1>1. Init => CountsGrow
  BY DEF Init, CountsGrow, Submitting, Idle
<1>2. CountsGrow /\ Typed /\ [Next]_vars => CountsGrow'
  BY CountsGrowStep
<1>3. CountsGrow /\ Typed /\ [Next]_vars => [Adds]_vars
  <2> SUFFICES ASSUME CountsGrow, Typed, [Next]_vars
               PROVE  Adds
    OBVIOUS
  <2>1. CASE UNCHANGED results
    BY <2>1, CountedIsNat DEF CountsGrow, Typed, TypeOK
  <2>2. ASSUME NEW r \in Requests, SubmitCommit(r)
        PROVE  Adds
    <3>1. req[r] \in Submission
      BY <2>2, RequestKinds DEF SubmitCommit, Typed
    <3>2. PICK a \in AssessmentIds : a = req[r].assessment
      BY <3>1 DEF Submission
    <3>3. PICK n \in Result : /\ results' = [results EXCEPT ![a] = <<n>>]
                              /\ Counted(n) = Cardinality(req[r].read)
      BY <2>2, <3>2, SubmissionCounts
    <3>4. results'[a][1] = n /\ \A b \in AssessmentIds \ {a} : results'[b] = results[b]
      BY <3>3 DEF Typed, TypeOK, TablesTypeOK
    <3>5. a \in submitted => Counted(results[a][1]) <= Counted(n)
      BY <2>2, <3>2, <3>3 DEF SubmitCommit, CountsGrow, Submitting
    <3>6. Counted(n) \in Nat
      BY DEF Counted, Result
    <3>7. \A b \in submitted : Counted(results[b][1]) \in Nat
      BY CountedIsNat DEF CountsGrow, Typed, TypeOK
    <3> QED
      BY <3>4, <3>5, <3>6, <3>7
  <2>3. CASE Assess
    BY <2>1, <2>2, <2>3
    DEF Assess, CreateAssessment, Open, Select, SubmitRead, SaveRead, SaveInsert,
        SaveUpdateFails, SaveRefused, SubmitRefused, assessmentVars
  <2>4. CASE Work \/ (\E r \in Requests : Fail(r)) \/ UNCHANGED vars
    BY <2>1, <2>4 DEF Work, Fail, assessmentVars, vars
  <2> QED
    BY <2>3, <2>4 DEF Next
<1> QED
  BY <1>1, <1>2, <1>3, TypesHold, PTL DEF Spec, SubmissionsAddUp

=============================================================================
