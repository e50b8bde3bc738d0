----------------------------- MODULE Compliance -----------------------------
(***************************************************************************)
(* Assessments and the work that follows from them, composed: a submission    *)
(* replaces the gaps that mitigation tasks refer to, and tasks and evidence  *)
(* are about the control assignments the questions were made from.          *)
(***************************************************************************)
EXTENDS Assessments, Tasks

vars == <<assessmentVars, workVars, req>>

\* The database is as it was seeded.  No task is: a seeded task has the effect on
\* submissions of one that is created for a seeded gap.
Seeded ==
  \E S \in Seeds : /\ assessments = S.assessments
                    /\ responses = S.responses
                    /\ results = S.results
                    /\ gaps = S.gaps

Init ==
  /\ Seeded
  /\ submitted = {}
  /\ selection = [a \in AssessmentIds |-> [q \in Questions |-> NotSelected]]
  /\ overlaps = {}
  /\ tasks = [t \in TaskIds |-> None]
  /\ assignments = [c \in Controls |-> None]
  /\ evidence = [e \in EvidenceIds |-> None]
  /\ files = {}
  /\ notified = {}
  /\ req = [r \in Requests |-> Idle]

\* The connection is lost or the server stops before the commit: PostgreSQL
\* rolls the transaction back, and a file already in GridFS stays there.
Fail(r) ==
  /\ req[r] # Idle
  /\ Finish(r)
  /\ UNCHANGED <<assessmentVars, workVars>>

Assess ==
  /\ \/ \E a \in AssessmentIds : CreateAssessment(a) \/ Open(a)
     \/ \E r \in Requests, a \in AssessmentIds :
          \/ \E q \in Questions, v \in Options : Select(r, a, q, v)
          \/ SubmitRead(r, a)
     \/ \E r \in Requests :
          \/ SaveRead(r) \/ SaveInsert(r) \/ SaveUpdateFails(r) \/ SaveRefused(r)
          \/ SubmitCommit(r) \/ SubmitRefused(r)
  /\ UNCHANGED workVars

Work ==
  /\ \/ \E t \in TaskIds, assignee \in Staff \cup {Null}, status \in {"open", "completed"} :
          \/ \E g \in GapIds \cup {Null}, c \in Controls \cup {Null} :
               CreateTask(t, g, c, assignee, status)
          \/ UpdateTask(t, assignee, status)
     \/ \E c \in Controls, status \in ControlStatus :
          \/ \E assignee \in Staff \cup {Null} : CreateControlAssignment(c, assignee, status)
          \/ UpdateControlStatus(c, status)
     \/ \E r \in Requests :
          \/ \E t \in TaskIds : SubmitTaskRead(r, t)
          \/ SubmitTaskCommit(r)
          \/ \E e \in EvidenceIds, c \in Controls \cup {Null} : UploadStore(r, e, c)
          \/ UploadCommit(r)
  /\ UNCHANGED assessmentVars

Next == Assess \/ Work \/ \E r \in Requests : Fail(r)

Spec == Init /\ [][Next]_vars

\* The same when no request fails.
SteadySpec == Init /\ [][Assess \/ Work]_vars

(***************************************************************************)
(* Properties.                                                             *)
(***************************************************************************)
TypeOK ==
  /\ TablesTypeOK
  /\ selection \in [AssessmentIds -> [Questions -> Options \cup {NotSelected}]]
  /\ overlaps \subseteq AssessmentIds \X Questions
  /\ submitted \subseteq AssessmentIds

\* The answers of an assessment that need no remediation and are yet no yes.
Exempt(a) == {i \in ResponsesOf(a) : responses[i].value = NotApplicable}

\* However often an assessment is submitted, whatever it was seeded with, and
\* whatever tasks are made of its gaps meanwhile, a submitted one has exactly one
\* result; what that counts as non-compliant is the gaps the assessment now has
\* and its answers that are not applicable, to the last one (submit_assessment).
ResultAgreesWithGaps ==
  \A a \in submitted :
    /\ assessments[a] = "completed" /\ Len(results[a]) = 1
    /\ results[a][1].nonCompliant = Cardinality(GapsOf(a)) + Cardinality(Exempt(a))

Counted(result) == result.compliant + result.nonCompliant

\* A submission never forgets a response that an earlier one has counted,
\* although each computes its result from what it read some time before it
\* commits, and submissions of one assessment overlap (submit_assessment).
SubmissionsAddUp ==
  [][\A a \in AssessmentIds :
       a \in submitted => Counted(results'[a][1]) >= Counted(results[a][1])]_vars

\* The table has no unique constraint on assessment and question; what keeps a
\* question from being answered, and counted, twice is the SELECT before the
\* INSERT.  It is defeated only by two saves of one question that overlap
\* (save_assessment_response).
OneAnswerUnlessOverlap ==
  \A i, j \in ResponseIds :
    (/\ i # j
     /\ responses[i] # None /\ responses[j] # None
     /\ responses[i].assessment = responses[j].assessment
     /\ responses[i].question = responses[j].question)
      => <<responses[i].assessment, responses[i].question>> \in overlaps

\* The wizard says of a selection that it is saved automatically: once no
\* request of the question is under way, what is shown as selected is what a
\* response holds, when no request fails (AssessmentRunner,
\* save_assessment_response).
SelectionSaved ==
  \A a \in AssessmentIds, q \in Questions :
    (/\ selection[a][q] \in Values
     /\ \A r \in At({"save", "insert", "update"}) :
          req[r].assessment # a \/ req[r].question # q)
      => \E i \in ResponsesOf(a) :
           responses[i].question = q /\ responses[i].value = selection[a][q]

\* Submitting again replaces every gap by a new row; a task made in between
\* never ends up referring to a gap that is gone (submit_assessment,
\* create_task).
TaskKeepsItsGap ==
  \A t \in TaskIds :
    (tasks[t] # None /\ tasks[t].gap # Null) => gaps[tasks[t].gap] # None

\* An evidence document can always be downloaded: wherever an upload fails, and
\* whatever is uploaded at the same time, no row is without its file
\* (upload_evidence).
EvidenceHasFile == \A e \in EvidenceIds : evidence[e] # None => e \in files

\* Whoever a task or a control is assigned to has been told of it, through
\* whatever sequence of creation, reassignment and submission it came about
\* (create_task, update_task, submit_task, create_control_assignment).
AssigneesTold ==
  /\ \A t \in TaskIds :
       tasks[t] # None => tasks[t].assignee = Null \/ <<tasks[t].assignee, t>> \in notified
  /\ \A c \in Controls :
       Assigned(c) => assignments[c].assignee = Null \/ <<assignments[c].assignee, c>> \in notified
=============================================================================
