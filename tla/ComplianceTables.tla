-------------------------- MODULE ComplianceTables --------------------------
(***************************************************************************)
(* The rows of one institution that assessments, tasks, control assignments  *)
(* and evidence keep in PostgreSQL, the evidence files in MongoDB GridFS,    *)
(* and the requests being served: the state that Assessments.tla and        *)
(* Tasks.tla share and Compliance.tla composes.                             *)
(***************************************************************************)
EXTENDS Naturals, Sequences, FiniteSets, Functions

CONSTANTS
  AssessmentIds,
  Questions,    \* "Q-" and a control id: a question is about one control
  ResponseIds,
  GapIds,
  TaskIds,
  Controls,     \* control_assignments has one row per control: its key here
  EvidenceIds,
  Staff,        \* the accounts work is assigned to
  Null,         \* the value of an empty column
  Requests,     \* requests being served at the same time
  Seeds         \* the contents the tables may have when the service starts

ASSUME NullAssumption == Null \notin Staff \cup GapIds \cup Controls


VARIABLES
  assessments,  \* assessment_status, "none" before the row is inserted
  responses,    \* assessment_responses, by response id
  results,      \* compliance_results: the rows of each assessment
  gaps,         \* compliance_gaps, by gap id
  tasks,        \* mitigation_tasks, by task id
  assignments,  \* control_assignments, by control
  evidence,     \* evidence_documents, by evidence id
  files,        \* the GridFS files, by the evidence id in their metadata
  notified,     \* the notifications rows: who has been told of what
  req           \* what each request being served has read so far

\* None is the value of an id for which there is no row.
None == [row |-> FALSE]

\* The three classes of AssessmentResponseValue: "fully implemented" is read as
\* "yes" by the submission, "not implemented" as "no".
Values == {"yes", "partial", "no"}

\* What a row may hold: seed.py also inserts "Not Applicable", which no PATCH may.
NotApplicable == "not applicable"

Response ==
  [assessment : AssessmentIds, question : Questions, value : Values \cup {NotApplicable}]

Result == [compliant : Nat, nonCompliant : Nat]

Gap == [assessment : AssessmentIds, question : Questions,
        severity : {"critical", "high", "medium", "low"}]

AssessmentStatus == {"none", "draft", "in_progress", "completed"}

(***************************************************************************)
(* A seed has at most one answer to a question.  Its results and gaps are     *)
(* numbers and titles of their own, whatever the answers are.  The bounds of *)
(* an instance leave an id for every gap of a submission.                   *)
(***************************************************************************)
ASSUME SeedsAssumption ==
  /\ IsFiniteSet(ResponseIds) /\ IsFiniteSet(GapIds)
  /\ \A S \in Seeds :
       /\ S.assessments \in [AssessmentIds -> AssessmentStatus]
       /\ S.responses \in [ResponseIds -> Response \cup {None}]
       /\ S.results \in [AssessmentIds -> Seq(Result)]
       /\ S.gaps \in [GapIds -> Gap \cup {None}]
       /\ \A i, j \in ResponseIds :
            (/\ S.responses[i] # None /\ S.responses[j] # None
             /\ S.responses[i].assessment = S.responses[j].assessment
             /\ S.responses[i].question = S.responses[j].question) => i = j
       /\ \A a \in AssessmentIds :
            Cardinality({g \in GapIds : S.gaps[g] = None \/ S.gaps[g].assessment = a})
              >= Cardinality(ResponseIds)

Task == [gap : GapIds \cup {Null}, control : Controls \cup {Null},
         assignee : Staff \cup {Null}, status : {"open", "completed"}]

ControlStatus ==
  {"not_started", "in_progress", "submitted", "compliant", "non_compliant", "na"}

Assignment == [status : ControlStatus, assignee : Staff \cup {Null}]

Evidence == [control : Controls \cup {Null}]

Idle == [at |-> "idle"]

\* A PATCH of a response before it has read the table, and after it.
Save == [at : {"save", "insert", "update"}, assessment : AssessmentIds,
         question : Questions, value : Values \cup {"na"}]

\* A submission holds the row lock of its assessment, and the responses it read.
Submission == [at : {"submit"}, assessment : AssessmentIds, read : SUBSET ResponseIds]

\* An upload whose file is stored.
Upload == [at : {"upload"}, id : EvidenceIds, control : Controls \cup {Null}]

\* The submission of a task, which has read the task's row.
TaskSubmission == [at : {"submit_task"}, task : TaskIds, control : Controls \cup {Null},
                   assignee : Staff \cup {Null}]

Request == {Idle} \cup Save \cup Submission \cup Upload \cup TaskSubmission

At(steps) == {r \in Requests : req[r].at \in steps}

Start(r, q) == req[r] = Idle /\ req' = [req EXCEPT ![r] = q]

Finish(r) == req' = [req EXCEPT ![r] = Idle]

\* Variant: whether there is anyone to tell is not asked.
TellAnyone(assignee, about) == notified' = notified \cup {<<assignee, about>>}

\* NotificationRepository.create, for the column assigned_to of a row.
Tell(assignee, about) ==
  notified' = IF assignee = Null THEN notified ELSE notified \cup {<<assignee, about>>}

TablesTypeOK ==
  /\ assessments \in [AssessmentIds -> AssessmentStatus]
  /\ responses \in [ResponseIds -> Response \cup {None}]
  /\ results \in [AssessmentIds -> Seq(Result)]
  /\ gaps \in [GapIds -> Gap \cup {None}]
  /\ tasks \in [TaskIds -> Task \cup {None}]
  /\ assignments \in [Controls -> Assignment \cup {None}]
  /\ evidence \in [EvidenceIds -> Evidence \cup {None}]
  /\ files \subseteq EvidenceIds
  /\ notified \subseteq Staff \X (TaskIds \cup Controls \cup EvidenceIds)
  /\ req \in [Requests -> Request]
=============================================================================
