---------------------------- MODULE MCCompliance ----------------------------
(***************************************************************************)
(* Instances of Compliance for TLC.  Ids of one kind are compared for        *)
(* equality only, and are therefore interchangeable.                        *)
(***************************************************************************)
EXTENDS Compliance, TLC

Interchangeable ==
  Permutations(ResponseIds) \cup Permutations(GapIds) \cup Permutations(Staff)
    \cup Permutations(Requests) \cup Permutations(Questions)

\* A database of which seed.py has written nothing.
Unseeded ==
  [assessments |-> [a \in AssessmentIds |-> "none"],
   responses |-> [i \in ResponseIds |-> None],
   results |-> [a \in AssessmentIds |-> <<>>],
   gaps |-> [g \in GapIds |-> None]]

\* The rows of an answered assessment, one of the answers being "Not Applicable".
SeededAnswers(a, n) ==
  {rows \in [ResponseIds -> [assessment : {a}, question : Questions,
                             value : {"yes", "no", NotApplicable}] \cup {None}] :
     LET filled == {i \in ResponseIds : rows[i] # None}
     IN /\ Cardinality(filled) = n
        /\ \A i, j \in filled : rows[i].question = rows[j].question => i = j
        /\ \E i \in filled : rows[i].value = NotApplicable}

SeededResult == <<[compliant |-> 3, nonCompliant |-> 1]>>

\* The ISO assessment of seed.py: half of it answered, and a result.
HalfAnswered(a) ==
  {[Unseeded EXCEPT !.assessments[a] = "in_progress", !.responses = rows,
                    !.results[a] = SeededResult] : rows \in SeededAnswers(a, 1)}

\* The DPDP assessment: all of it answered, a result, and gaps of any question.
Complete(a) ==
  {[Unseeded EXCEPT !.assessments[a] = "completed", !.responses = rows,
                    !.results[a] = SeededResult,
                    !.gaps[g] = [assessment |-> a, question |-> q, severity |-> "critical"]] :
     rows \in SeededAnswers(a, Cardinality(Questions)), g \in GapIds, q \in Questions}

\* The NIST assessment: a draft.
Draft(a) == [Unseeded EXCEPT !.assessments[a] = "draft"]

MCSeeds ==
  {Unseeded} \cup UNION {{Draft(a)} \cup HalfAnswered(a) \cup Complete(a) : a \in AssessmentIds}

\* The seeds of an instance that starts with no assessment.
NoSeeds == {Unseeded}
=============================================================================
