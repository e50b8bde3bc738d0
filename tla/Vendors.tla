------------------------------- MODULE Vendors -------------------------------
(***************************************************************************)
(* Vendors and their risk assessments (backend/app/routers/vendors.py), and   *)
(* the analysis of a contract that makes one (routers/ai/vendor.py), which     *)
(* waits for the AI service between reading the vendor and inserting.       *)
(***************************************************************************)
EXTENDS Inbox

CONSTANTS VendorIds, RiskIds

ASSUME VendorAssumption == /\ Null \notin VendorIds \cup RiskIds
                           /\ Null \notin [vendor : VendorIds, source : {"manual", "analysis"}]
ASSUME FiniteAssumption == IsFiniteSet(Requests) /\ IsFiniteSet(RiskIds)

VARIABLES vendors,       \* the vendors there are
          risks,         \* vendor_risk_assessments: Null before the row is inserted
          asked,         \* history: analyses asked for, per vendor
          unanswered     \* history: analyses the AI service did not answer, per vendor

vendorVars == <<vendors, risks, asked, unanswered>>

Assessed == {x \in RiskIds : risks[x] # Null}
Analyses(v) == {x \in Assessed : risks[x] = [vendor |-> v, source |-> "analysis"]}
Waiting(v) == {r \in UnderWay("analyze_contract") : req[r].vendor = v}

CreateVendor(a, v) ==
  /\ May(a, "manage_vendors")
  /\ v \notin vendors
  /\ vendors' = vendors \cup {v}
  /\ UNCHANGED <<inboxVars, risks, asked, unanswered>>

\* Variant: the reviewer who assesses is told, and no other.
TellAssessor(a, x) == Tell({a}, <<x, "review">>)

TellReviewers(a, x) == Tell(Holders("Vendor Reviewer"), <<x, "review">>)

CreateRiskAssessment(a, v, x) ==
  /\ May(a, "manage_vendors")
  /\ v \in vendors /\ x \notin Assessed
  /\ risks' = [risks EXCEPT ![x] = [vendor |-> v, source |-> "manual"]]
  /\ TellReviewers(a, x)
  /\ UNCHANGED <<accountVars, req, vendors, asked, unanswered>>

\* The copy of the contract in MongoDB, which may fail to be stored, is never read.
AnalyzeContract(r, a, v) ==
  /\ May(a, "manage_vendors")
  /\ v \in vendors
  \* Bound of an instance: a risk id is left for every analysis there has been.
  /\ asked[v] < Cardinality(RiskIds)
  /\ asked' = [asked EXCEPT ![v] = @ + 1]
  /\ Start(r, [at |-> "analyze_contract", vendor |-> v])
  /\ UNCHANGED <<accountVars, told, vendors, risks, unanswered>>

\* Nobody is told of an assessment that comes of an analysis.
AnalysisAnswered(r, x) ==
  /\ req[r].at = "analyze_contract"
  /\ x \notin Assessed
  /\ risks' = [risks EXCEPT ![x] = [vendor |-> req[r].vendor, source |-> "analysis"]]
  /\ Finish(r)
  /\ UNCHANGED <<accountVars, told, vendors, asked, unanswered>>

\* Variant: an answer that came late is saved all the same.
SavedLate(r) == \E x \in RiskIds \ Assessed :
  risks' = [risks EXCEPT ![x] = [vendor |-> req[r].vendor, source |-> "analysis"]]

\* forward_to_ai_service gives up after 45 seconds, or passes on an error: the
\* request fails, and what the service still does is not seen.
NothingSaved(r) == risks' = risks

AnalysisFailed(r) ==
  /\ req[r].at = "analyze_contract"
  /\ NothingSaved(r)
  /\ unanswered' = [unanswered EXCEPT ![req[r].vendor] = @ + 1]
  /\ Finish(r)
  /\ UNCHANGED <<accountVars, told, vendors, asked>>

VendorNext ==
  \/ \E a \in Accounts, v \in VendorIds :
       \/ CreateVendor(a, v)
       \/ \E x \in RiskIds : CreateRiskAssessment(a, v, x)
       \/ \E r \in Requests : AnalyzeContract(r, a, v)
  \/ \E r \in Requests : (\E x \in RiskIds : AnalysisAnswered(r, x)) \/ AnalysisFailed(r)

VendorInit ==
  /\ vendors = {} /\ risks = [x \in RiskIds |-> Null]
  /\ asked = [v \in VendorIds |-> 0] /\ unanswered = asked

VendorTypeOK ==
  /\ vendors \subseteq VendorIds
  /\ \A x \in Assessed : risks[x] \in [vendor : vendors, source : {"manual", "analysis"}]
  /\ {asked, unanswered} \subseteq [VendorIds -> Nat]

(***************************************************************************)
(* Properties                                                              *)
(***************************************************************************)
\* A risk assessment made by hand is known to everybody who has been a Vendor
\* Reviewer all the time (upsert_vendor_risk_assessment).
RiskKnown ==
  \A x \in Assessed, a \in Holders("Vendor Reviewer") :
    risks[x].source = "manual" /\ Steady(a) => <<a, <<x, "review">>>> \in told

\* Each analysis asked for is waiting for the service, was given up, or has one
\* assessment: giving up and trying again leaves no second one
\* (analyze_contract, forward_to_ai_service).
AnalysesAccounted ==
  \A v \in VendorIds :
    asked[v] = Cardinality(Analyses(v)) + Cardinality(Waiting(v)) + unanswered[v]
=============================================================================
