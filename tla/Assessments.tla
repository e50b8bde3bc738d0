----------------------------- MODULE Assessments ----------------------------
(***************************************************************************)
(* Assessments: backend/app/routers/assessments.py, and the wizard that      *)
(* answers them, frontend/src/pages/compliance/AssessmentRunner.tsx.        *)
(*                                                                         *)
(* The wizard sends a PATCH on every selection and a POST to submit, and     *)
(* waits for none of them, so requests for one assessment overlap and are    *)
(* served in any order.  Each is one READ COMMITTED transaction.            *)
(***************************************************************************)
EXTENDS ComplianceTables

CONSTANT Options  \* the options the wizard offers

ASSUME OptionsAssumption == Options \subseteq Values \cup {"na"}

VARIABLES
  selection,  \* the wizard: the option last selected for each question
  overlaps,   \* history: assessment and question pairs two saves of which overlapped
  submitted   \* history: the assessments submitted since the service started

assessmentVars == <<assessments, responses, results, gaps, selection, overlaps, submitted>>

NotSelected == "none"

ResponsesOf(a) == {i \in ResponseIds : responses[i] # None /\ responses[i].assessment = a}

Answered(a, q) == \E i \in ResponsesOf(a) : responses[i].question = q

GapsOf(a) == {g \in GapIds : gaps[g] # None /\ gaps[g].assessment = a}

\* Bound of an instance: a selection is made while a response id is left for it.
ResponseIdLeft ==
  Cardinality({i \in ResponseIds : responses[i] = None}) > Cardinality(At({"save", "insert"}))

CreateAssessment(a) ==
  /\ assessments[a] = "none"
  /\ assessments' = [assessments EXCEPT ![a] = "in_progress"]
  /\ UNCHANGED <<responses, results, gaps, selection, overlaps, submitted, req>>

(***************************************************************************)
(* The wizard.                                                             *)
(***************************************************************************)
\* saveAnswer: the selection is shown at once and the PATCH is on its way.
Select(r, a, q, v) ==
  /\ assessments[a] # "none"
  /\ ResponseIdLeft
  /\ selection' = [selection EXCEPT ![a][q] = v]
  /\ Start(r, [at |-> "save", assessment |-> a, question |-> q, value |-> v])
  /\ UNCHANGED <<assessments, responses, results, gaps, overlaps, submitted>>

\* The page starts with no selection: it does not load the saved responses.
Open(a) ==
  /\ assessments[a] # "none"
  /\ selection' = [selection EXCEPT ![a] = [q \in Questions |-> NotSelected]]
  /\ UNCHANGED <<assessments, responses, results, gaps, overlaps, submitted, req>>

(***************************************************************************)
(* save_assessment_response: one SELECT decides between an UPDATE and an      *)
(* INSERT.  The UPDATE sets updated_at, which assessment_responses does not  *)
(* have (schema.sql): it fails, and the response stands as it is.           *)
(***************************************************************************)
\* Variant: nothing is looked up.
AlwaysInsert(a, q) == "insert"

UpdateOrInsert(a, q) == IF Answered(a, q) THEN "update" ELSE "insert"

SaveRead(r) ==
  /\ req[r].at = "save" /\ req[r].value \in Values
  /\ LET a == req[r].assessment
         q == req[r].question
     IN /\ req' = [req EXCEPT ![r].at = UpdateOrInsert(a, q)]
        /\ overlaps' = IF \E p \in At({"insert"}) : req[p].assessment = a /\ req[p].question = q
                       THEN overlaps \cup {<<a, q>>}
                       ELSE overlaps
  /\ UNCHANGED <<assessments, responses, results, gaps, selection, submitted>>

SaveInsert(r) ==
  /\ req[r].at = "insert"
  /\ \E i \in ResponseIds :
       /\ responses[i] = None
       /\ responses' = [responses EXCEPT ![i] =
            [assessment |-> req[r].assessment, question |-> req[r].question,
             value |-> req[r].value]]
  /\ Finish(r)
  /\ UNCHANGED <<assessments, results, gaps, selection, overlaps, submitted>>

SaveUpdateFails(r) ==
  /\ req[r].at = "update"
  /\ Finish(r)
  /\ UNCHANGED assessmentVars

\* 422: the option is not an AssessmentResponseValue.
SaveRefused(r) ==
  /\ req[r].at = "save" /\ req[r].value \notin Values
  /\ Finish(r)
  /\ UNCHANGED assessmentVars

(***************************************************************************)
(* submit_assessment: the UPDATE of the assessment locks its row until the    *)
(* commit, so submissions of one assessment are served one after the other; *)
(* saves do not need that lock.  Results and gaps are deleted and inserted   *)
(* anew from the responses that were read: all but the yeses are counted as  *)
(* non-compliant, those that are no or partial get a gap.  The DELETE fails, *)
(* and with it the submission, when a task refers to one of the gaps.        *)
(***************************************************************************)
\* Variant: the row is locked only by the commit.
Unlocked(a) == TRUE

AssessmentFree(a) == ~\E r \in At({"submit"}) : req[r].assessment = a

SubmitRead(r, a) ==
  /\ assessments[a] # "none"
  /\ AssessmentFree(a)
  /\ Start(r, [at |-> "submit", assessment |-> a, read |-> ResponsesOf(a)])
  /\ UNCHANGED assessmentVars

\* Variant: foreign keys are not enforced.
NoTasks(a) == FALSE

Tasked(a) == \E t \in TaskIds : tasks[t] # None /\ tasks[t].gap \in GapsOf(a)

Severity(value) == IF value = "no" THEN "high" ELSE "medium"

\* Variant: the gaps of an earlier submission are left.
KeptGaps(a) == gaps

DeletedGaps(a) == [g \in GapIds |-> IF g \in GapsOf(a) THEN None ELSE gaps[g]]

SubmitCommit(r) ==
  /\ req[r].at = "submit"
  /\ ~Tasked(req[r].assessment)
  /\ LET a == req[r].assessment
         yes == {i \in req[r].read : responses[i].value = "yes"}
         bad == {i \in req[r].read : responses[i].value \in {"no", "partial"}}
         kept == DeletedGaps(a)
     IN /\ assessments' = [assessments EXCEPT ![a] = "completed"]
        /\ results' = [results EXCEPT ![a] =
             <<[compliant |-> Cardinality(yes), nonCompliant |-> Cardinality(req[r].read \ yes)]>>]
        /\ submitted' = submitted \cup {a}
        /\ \E id \in Injection(bad, {g \in GapIds : kept[g] = None}) :
             gaps' = [g \in GapIds |->
                        IF g \in Range(id)
                        THEN LET i == CHOOSE i \in bad : id[i] = g
                             IN [assessment |-> a, question |-> responses[i].question,
                                 severity |-> Severity(responses[i].value)]
                        ELSE kept[g]]
  /\ Finish(r)
  /\ UNCHANGED <<responses, selection, overlaps>>

SubmitRefused(r) ==
  /\ req[r].at = "submit"
  /\ Tasked(req[r].assessment)
  /\ Finish(r)
  /\ UNCHANGED assessmentVars
=============================================================================
