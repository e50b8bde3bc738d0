-------------------------- MODULE GovernanceProofs --------------------------
(***************************************************************************)
(* Proofs about Governance, for every number of accounts, requests, policies, *)
(* departments, observations, reports, incidents and vendors.                *)
(*                                                                         *)
(* All of them rest on the accounts: what an account has held is never        *)
(* forgotten, and what has been told is never taken back.  Each area has an   *)
(* invariant of its own over that.                                          *)
(***************************************************************************)
EXTENDS Governance, FiniteSetTheorems, TLAPS

(***************************************************************************)
(* Accounts                                                                *)
(***************************************************************************)
Peopled ==
  /\ served \in DOMAIN Assignable
  /\ role \in [Accounts -> RoleNames \cup {Null}]
  /\ held \in [Accounts -> SUBSET RoleNames]
  /\ \A a \in Accounts : role[a] # Null => role[a] \in held[a]

\* What any step of Governance does to the accounts.
Remembers ==
  /\ served' = served /\ told \subseteq told'
  /\ \A a \in Accounts : held[a] \subseteq held'[a]

\* A role that is given is remembered.
LEMMA GivenRoles ==
  ASSUME Peopled, NEW u \in Accounts, NEW r \in Assignable[served] \ {Null}, GiveRole(u, r), served' = served
  PROVE  Peopled' /\ \A a \in Accounts : held[a] \subseteq held'[a]
<1>1. r \in RoleNames
  BY AssignableAssumption DEF Peopled
<1>2. role' = [role EXCEPT ![u] = r] /\ held' = [held EXCEPT ![u] = @ \cup {r}]
  BY DEF GiveRole
<1> HIDE DEF RoleNames
<1> QED
  BY <1>1, <1>2 DEF Peopled, RoleNames

LEMMA RoleStepPeopled ==
  ASSUME Peopled, NEW a \in Accounts, NEW r \in RoleNames, ChangeUserRole(a, r)
  PROVE  Peopled' /\ Remembers /\ role[a] # Null
  BY GivenRoles DEF ChangeUserRole, GiveRole, Remembers

LEMMA DepartmentPeopled ==
  ASSUME Peopled, DepartmentNext
  PROVE  Peopled' /\ Remembers
<1>1. ASSUME NEW u \in Accounts, NEW d, NEW r \in RoleNames,
             CreateUser(u, r, d) \/ InviteUser(u, r, d) \/ UpdateUser(u, r, d)
      PROVE  Peopled' /\ Remembers
  BY <1>1, GivenRoles DEF CreateUser, InviteUser, UpdateUser, Remembers
<1>2. UNCHANGED <<accountVars, told>> => Peopled' /\ Remembers
  BY DEF accountVars, Peopled, Remembers
<1> QED
  BY <1>1, <1>2 DEF DepartmentNext, CreateRead, CreateCommit, UpdateRead, UpdateCommit,
     DepartmentRefused, ToggleDepartmentStatus, inboxVars, accountVars

\* Every other handler leaves the accounts alone, and only adds to what has been told.
LEMMA OthersPeopled ==
  ASSUME Peopled, PolicyNext \/ AuditNext \/ IncidentNext \/ VendorNext
  PROVE  UNCHANGED accountVars /\ told \subseteq told'
<1>1. PolicyNext => UNCHANGED accountVars /\ told \subseteq told'
  <2> SUFFICES ASSUME NEW a \in Accounts, NEW p \in PolicyIds,
                      \/ \E status \in Statuses : CreatePolicy(a, p, status)
                      \/ \E status \in Statuses \cup {Null}, edits \in BOOLEAN, to \in Accounts \cup {Null} :
                           UpdatePolicy(a, p, status, edits, to)
                      \/ SavePolicyContent(a, p) \/ ApprovePolicy(a, p) \/ RejectPolicy(a, p)
               PROVE  UNCHANGED accountVars /\ told \subseteq told'
    BY DEF PolicyNext
  <2>1. ASSUME NEW status, CreatePolicy(a, p, status) PROVE UNCHANGED accountVars /\ told \subseteq told'
    BY <2>1 DEF CreatePolicy, accountVars
  <2>2. ASSUME NEW status, NEW edits, NEW to, UpdatePolicy(a, p, status, edits, to)
        PROVE  UNCHANGED accountVars /\ told \subseteq told'
    BY <2>2 DEF UpdatePolicy, Told, accountVars
  <2>3. CASE SavePolicyContent(a, p) \/ ApprovePolicy(a, p) \/ RejectPolicy(a, p)
    BY <2>3 DEF SavePolicyContent, ApprovePolicy, RejectPolicy, HearDecision, Tell, Told,
                inboxVars, accountVars
  <2> QED
    BY <2>1, <2>2, <2>3
<1>2. AuditNext => UNCHANGED accountVars /\ told \subseteq told'
  BY DEF AuditNext, CreateObservation, UpdateObservation, DeleteObservation, CreateAuditReport,
         SummarizeReport, inboxVars, accountVars
<1>3. IncidentNext => UNCHANGED accountVars /\ told \subseteq told'
  BY DEF IncidentNext, CreateIncident, UpdateIncident, Tick, Tell, Told, inboxVars, accountVars
<1>4. VendorNext => UNCHANGED accountVars /\ told \subseteq told'
  BY DEF VendorNext, CreateVendor, CreateRiskAssessment, TellReviewers, AnalyzeContract,
         AnalysisAnswered, AnalysisFailed, Tell, Told, inboxVars, accountVars
<1> QED
  BY <1>1, <1>2, <1>3, <1>4

LEMMA PeopledStep ==
  ASSUME Peopled, [Next]_vars
  PROVE  Peopled' /\ Remembers
<1>1. ASSUME UNCHANGED accountVars, told \subseteq told' PROVE Peopled' /\ Remembers
  BY <1>1 DEF accountVars, Peopled, Remembers
<1>2. CASE UNCHANGED vars \/ TenantStep
  BY <1>1, <1>2 DEF vars, TenantStep, inboxVars, accountVars
<1>3. CASE PolicyStep \/ AuditStep \/ IncidentStep \/ VendorStep
  BY <1>1, <1>3, OthersPeopled DEF PolicyStep, AuditStep, IncidentStep, VendorStep
<1>4. CASE DepartmentStep
  BY <1>4, DepartmentPeopled DEF DepartmentStep
<1>5. CASE RoleStep
  BY <1>5, RoleStepPeopled DEF RoleStep
<1> QED
  BY <1>2, <1>3, <1>4, <1>5 DEF Next

LEMMA PeopledInit == Init => Peopled
<1> SUFFICES ASSUME Init PROVE Peopled
  OBVIOUS
<1>1. served \in DOMAIN Assignable /\ Assignable[served] \subseteq RoleNames \cup {Null}
  BY AssignableAssumption DEF Init
<1>2. role \in [Accounts -> RoleNames \cup {Null}] /\ held = [a \in Accounts |-> {role[a]} \ {Null}]
  BY <1>1 DEF Init, InboxInit
<1> QED
  BY <1>1, <1>2 DEF Peopled

\* Whoever has had a single role, had it before the step as well, where no account is
\* created.
LEMMA SteadyBefore ==
  ASSUME Peopled, [Next]_vars, served # "departments", NEW a \in Accounts, Steady(a)', role'[a] # Null
  PROVE  Steady(a) /\ role'[a] = role[a]
<1>1. CASE role' = role /\ held' = held
  BY <1>1 DEF Steady
<1>2. CASE RoleStep
  <2>1. PICK b \in Accounts, r \in RoleNames : ChangeUserRole(b, r)
    BY <1>2 DEF RoleStep
  <2>2. Peopled' /\ held[a] \subseteq held'[a]
    BY <2>1, RoleStepPeopled DEF Remembers
  <2>3. role[a] # Null
    BY <2>1 DEF ChangeUserRole, Peopled
  <2>4. role[a] \in held[a] /\ held'[a] = {role'[a]}
    BY <2>3 DEF Peopled, Steady
  <2> QED
    BY <2>2, <2>4 DEF Steady
<1>3. ~DepartmentStep
  BY DEF DepartmentStep
<1>4. CASE PolicyStep \/ AuditStep \/ IncidentStep \/ VendorStep
  BY <1>1, <1>4, OthersPeopled DEF PolicyStep, AuditStep, IncidentStep, VendorStep, accountVars
<1>5. CASE UNCHANGED vars \/ TenantStep
  BY <1>1, <1>5 DEF vars, TenantStep, inboxVars
<1> QED
  BY <1>2, <1>3, <1>4, <1>5 DEF Next

(***************************************************************************)
(* Requests                                                                *)
(***************************************************************************)
\* A step that moves requests between these steps only.
Moved(steps) ==
  /\ req' = [r \in Requests |-> req'[r]]
  /\ \A r \in Requests :
       req'[r] = req[r] \/ {req[r].at, req'[r].at} \subseteq {"idle"} \cup steps

LEMMA RequestMoved ==
  ASSUME req = [r \in Requests |-> req[r]], NEW r \in Requests, NEW steps, NEW q,
         req' = [req EXCEPT ![r] = q], {req[r].at, q.at} \subseteq {"idle"} \cup steps
  PROVE  Moved(steps)
<1>1. req' = [s \in Requests |-> IF s = r THEN q ELSE req[s]]
  OBVIOUS
<1>2. req' = [s \in Requests |-> req'[s]]
  BY <1>1
<1> QED
  BY <1>1, <1>2 DEF Moved

\* No area starts, or finishes, a request of another.
LEMMA RequestAreas ==
  ASSUME req = [r \in Requests |-> req[r]], [Next]_vars
  PROVE  \/ UNCHANGED req
         \/ DepartmentStep /\ Moved({"create_department", "update_department"})
         \/ AuditStep /\ Moved({"generate_report"})
         \/ VendorStep /\ Moved({"analyze_contract"})
<1>1. Idle.at = "idle"
  BY DEF Idle
<1>2. ASSUME NEW r \in Requests, NEW steps, NEW q, Start(r, q), q.at \in steps PROVE Moved(steps)
  BY <1>1, <1>2, RequestMoved DEF Start
<1>3. ASSUME NEW r \in Requests, NEW steps, Finish(r), req[r].at \in steps PROVE Moved(steps)
  BY <1>1, <1>3, RequestMoved DEF Finish
<1>4. CASE DepartmentStep
  <2> DEFINE steps == {"create_department", "update_department"}
  <2>1. ASSUME NEW r \in Requests, NEW name, NEW u, CreateRead(r, name) \/ UpdateRead(r, name, u)
        PROVE  Moved(steps)
    <3>1. [at |-> "create_department", name |-> name].at \in steps
      OBVIOUS
    <3>2. [at |-> "update_department", name |-> name, reviewer |-> u].at \in steps
      OBVIOUS
    <3> QED
      BY <1>2, <2>1, <3>1, <3>2 DEF CreateRead, UpdateRead
  <2>2. ASSUME NEW r \in Requests, NEW d,
               CreateCommit(r, d) \/ UpdateCommit(r, d) \/ DepartmentRefused(r)
        PROVE  Moved(steps)
    BY <1>3, <2>2 DEF CreateCommit, UpdateCommit, DepartmentRefused
  <2>3. ASSUME NEW u, NEW d, NEW x,
               \/ CreateUser(u, x, d) \/ InviteUser(u, x, d) \/ UpdateUser(u, x, d)
               \/ ToggleDepartmentStatus(d, x)
        PROVE  UNCHANGED req
    BY <2>3 DEF CreateUser, InviteUser, UpdateUser, ToggleDepartmentStatus, inboxVars
  <2> QED
    BY <1>4, <2>1, <2>2, <2>3 DEF DepartmentStep, DepartmentNext
<1>5. CASE AuditStep
  <2> DEFINE steps == {"generate_report"}
  <2>1. ASSUME NEW r \in Requests, NEW a, NEW x, CreateAuditReport(r, a, x) PROVE Moved(steps)
    <3>1. [at |-> "generate_report", report |-> x].at \in steps
      OBVIOUS
    <3> QED
      BY <1>2, <2>1, <3>1 DEF CreateAuditReport
  <2>2. ASSUME NEW r \in Requests, SummarizeReport(r) PROVE Moved(steps)
    BY <1>3, <2>2 DEF SummarizeReport
  <2>3. ASSUME NEW a, NEW o, NEW status,
               CreateObservation(a, o) \/ DeleteObservation(a, o) \/ UpdateObservation(a, o, status)
        PROVE  UNCHANGED req
    BY <2>3 DEF CreateObservation, DeleteObservation, UpdateObservation, inboxVars
  <2> QED
    BY <1>5, <2>1, <2>2, <2>3 DEF AuditStep, AuditNext
<1>6. CASE VendorStep
  <2> DEFINE steps == {"analyze_contract"}
  <2>1. ASSUME NEW r \in Requests, NEW a, NEW v, AnalyzeContract(r, a, v) PROVE Moved(steps)
    <3>1. [at |-> "analyze_contract", vendor |-> v].at \in steps
      OBVIOUS
    <3> QED
      BY <1>2, <2>1, <3>1 DEF AnalyzeContract
  <2>2. ASSUME NEW r \in Requests, NEW x, AnalysisAnswered(r, x) \/ AnalysisFailed(r) PROVE Moved(steps)
    BY <1>3, <2>2 DEF AnalysisAnswered, AnalysisFailed
  <2>3. ASSUME NEW a, NEW v, NEW x, CreateVendor(a, v) \/ CreateRiskAssessment(a, v, x)
        PROVE  UNCHANGED req
    BY <2>3 DEF CreateVendor, CreateRiskAssessment, inboxVars
  <2> QED
    BY <1>6, <2>1, <2>2, <2>3 DEF VendorStep, VendorNext
<1>7. CASE PolicyStep
  <2>1. ASSUME NEW a, NEW p, NEW status, CreatePolicy(a, p, status) PROVE UNCHANGED req
    BY <2>1 DEF CreatePolicy
  <2>2. ASSUME NEW a, NEW p, NEW status, NEW edits, NEW to, UpdatePolicy(a, p, status, edits, to)
        PROVE  UNCHANGED req
    BY <2>2 DEF UpdatePolicy
  <2>3. ASSUME NEW a, NEW p, SavePolicyContent(a, p) \/ ApprovePolicy(a, p) \/ RejectPolicy(a, p)
        PROVE  UNCHANGED req
    BY <2>3 DEF SavePolicyContent, ApprovePolicy, RejectPolicy, inboxVars
  <2> QED
    BY <1>7, <2>1, <2>2, <2>3 DEF PolicyStep, PolicyNext
<1>8. CASE IncidentStep \/ TenantStep \/ RoleStep \/ UNCHANGED vars
  <2>1. IncidentNext => UNCHANGED req
    BY DEF IncidentNext, CreateIncident, UpdateIncident, Tick, inboxVars
  <2>2. TenantStep \/ RoleStep \/ UNCHANGED vars => UNCHANGED req
    BY DEF TenantStep, RoleStep, ChangeUserRole, vars, inboxVars
  <2> QED
    BY <1>8, <2>1, <2>2 DEF IncidentStep
<1> QED
  BY <1>4, <1>5, <1>6, <1>7, <1>8 DEF Next

(***************************************************************************)
(* Policies                                                                *)
(***************************************************************************)
PolicyRow == [status : Statuses, born : Decisions \cup {Null}, creator : Accounts,
              editor : Accounts, approver : Accounts \cup {Null}]

HasBeen(a, r) == held[a] \cap {"Super Admin", "Institution Admin"} # {} \/ r \in held[a]

\* What a policy shows was done by accounts that had a role for it, and was announced.
PolicyFacts ==
  /\ policies = [p \in PolicyIds |-> policies[p]]
  /\ \A p \in PolicyIds : PolicyExists(p) =>
       /\ served = "policies"
       /\ policies[p] \in PolicyRow
       /\ HasBeen(policies[p].creator, "Compliance Officer")
       /\ HasBeen(policies[p].editor, "Compliance Officer")
       /\ policies[p].approver # Null => HasBeen(policies[p].approver, "Policy Approver")

\* Which roles have permitted an action.
LEMMA PermittedRoles ==
  ASSUME Peopled, NEW a \in Accounts
  PROVE  /\ May(a, "draft_policies") => HasBeen(a, "Compliance Officer")
         /\ May(a, "approve_policies") => HasBeen(a, "Policy Approver")
<1>1. ASSUME NEW r \in RoleNames, "draft_policies" \in Grants[r]
      PROVE  r \in {"Super Admin", "Compliance Officer"}
  BY <1>1 DEF Grants, RoleNames
<1>2. ASSUME NEW r \in RoleNames, "approve_policies" \in Grants[r]
      PROVE  r \in {"Super Admin", "Policy Approver"}
  BY <1>2 DEF Grants, RoleNames
<1>3. ASSUME NEW r \in ActingRoles(a)
      PROVE  r \in RoleNames /\ HasBeen(a, r) /\ (r = "Super Admin" => r \in held[a])
  <2>1. CASE r \in held[a]
    BY <2>1 DEF HasBeen, Peopled
  <2>2. CASE \E g \in held[a] : r \in Assumable[g]
    <3>1. PICK g \in RoleNames : g \in held[a] /\ r \in Assumable[g]
      BY <2>2 DEF Peopled
    <3>2. /\ g \in {"Super Admin", "Institution Admin"} /\ r \in RoleNames
          /\ r = "Super Admin" => g = "Super Admin"
      BY <3>1 DEF Assumable, RoleNames
    <3> QED
      BY <3>1, <3>2 DEF HasBeen
  <2> QED
    BY <1>3, <2>1, <2>2 DEF ActingRoles
<1> HIDE DEF RoleNames, Grants
<1> QED
  BY <1>1, <1>2, <1>3 DEF May, HasBeen

\* A row that a step leaves alone, or writes by somebody who may.
LEMMA PolicyFactsStep ==
  ASSUME Peopled, PolicyFacts, DecisionsHeard, PendingKnown, PolicyStep
  PROVE  PolicyFacts' /\ DecisionsHeard' /\ PendingKnown'
<1> PICK a \in Accounts, p \in PolicyIds :
      \/ \E status \in Statuses : CreatePolicy(a, p, status)
      \/ \E status \in Statuses \cup {Null}, edits \in BOOLEAN, to \in Accounts \cup {Null} :
           UpdatePolicy(a, p, status, edits, to)
      \/ SavePolicyContent(a, p) \/ ApprovePolicy(a, p) \/ RejectPolicy(a, p)
  BY DEF PolicyStep, PolicyNext
<1>0. /\ served = "policies" /\ UNCHANGED <<served, role, held>> /\ told \subseteq told'
  BY OthersPeopled DEF PolicyStep, accountVars
<1>1. ASSUME NEW row \in PolicyRow, policies' = [policies EXCEPT ![p] = row],
             HasBeen(row.creator, "Compliance Officer"), HasBeen(row.editor, "Compliance Officer"),
             row.approver # Null => HasBeen(row.approver, "Policy Approver"),
             row.status \in Decisions => \/ <<row.creator, <<p, row.status>>>> \in told'
                                         \/ row.born = row.status,
             row.status = "pending_approval" =>
               \A b \in Holders("Policy Approver") : Steady(b) => <<b, Awaiting(p)>> \in told'
      PROVE  PolicyFacts' /\ DecisionsHeard' /\ PendingKnown'
  <2>1. /\ policies' = [q \in PolicyIds |-> IF q = p THEN row ELSE policies[q]]
    BY <1>1 DEF PolicyFacts
  <2>2. policies'[p] = row /\ \A q \in PolicyIds \ {p} : policies'[q] = policies[q]
    BY <2>1
  <2>3. PolicyFacts'
    BY <1>0, <1>1, <2>1, <2>2 DEF PolicyFacts, PolicyExists, HasBeen
  <2>4. DecisionsHeard'
    BY <1>0, <1>1, <2>2 DEF DecisionsHeard, PolicyExists
  <2>5. PendingKnown'
    BY <1>0, <1>1, <2>2 DEF PendingKnown, PolicyExists, Holders, Steady, Awaiting
  <2> QED
    BY <2>3, <2>4, <2>5
<1>2. ASSUME NEW status \in Statuses, CreatePolicy(a, p, status)
      PROVE  PolicyFacts' /\ DecisionsHeard' /\ PendingKnown'
  <2> DEFINE row == [status |-> status, born |-> IF status \in Decisions THEN status ELSE Null,
                     creator |-> a, editor |-> a, approver |-> Null]
  <2>1. row \in PolicyRow /\ policies' = [policies EXCEPT ![p] = row]
    BY <1>2 DEF CreatePolicy, PolicyRow
  <2>2. HasBeen(a, "Compliance Officer")
    BY <1>2, PermittedRoles DEF CreatePolicy
  <2>3. status = "pending_approval" => \A b \in Holders("Policy Approver") : <<b, Awaiting(p)>> \in told'
    BY <1>2 DEF CreatePolicy, Announce
  <2> QED
    BY <1>1, <2>1, <2>2, <2>3
<1>3. ASSUME NEW status \in Statuses \cup {Null}, NEW edits \in BOOLEAN, NEW to \in Accounts \cup {Null},
             UpdatePolicy(a, p, status, edits, to)
      PROVE  PolicyFacts' /\ DecisionsHeard' /\ PendingKnown'
  <2> DEFINE row == [policies[p] EXCEPT !.status = IF status = Null THEN @ ELSE status,
                                        !.editor = IF edits THEN a ELSE @]
  <2>1. PolicyExists(p) /\ policies[p] \in PolicyRow
    BY <1>3 DEF UpdatePolicy, PolicyFacts
  <2>2. policies' = [policies EXCEPT ![p] = row]
    BY <1>3, <2>1 DEF UpdatePolicy, PolicyRow
  <2>3. /\ row \in PolicyRow
        /\ row.creator = policies[p].creator /\ row.born = policies[p].born /\ row.approver = policies[p].approver
        /\ row.status = IF status = Null THEN policies[p].status ELSE status
        /\ row.editor \in {a, policies[p].editor}
    BY <1>3, <2>1 DEF PolicyRow
  <2>4. HasBeen(a, "Compliance Officer")
    BY <1>3, PermittedRoles DEF UpdatePolicy
  <2>5. status \notin Decisions /\ told' = Told({to}, Awaiting(p)) \cup Announce(status, p)
    BY <1>3 DEF UpdatePolicy
  <2>6. row.status \in Decisions => \/ <<row.creator, <<p, row.status>>>> \in told'
                                    \/ row.born = row.status
    BY <1>0, <2>1, <2>3, <2>5 DEF DecisionsHeard
  <2>7. status = "pending_approval" => \A b \in Holders("Policy Approver") : <<b, Awaiting(p)>> \in told'
    BY <2>5 DEF Announce
  <2>8. row.status = "pending_approval" =>
          \A b \in Holders("Policy Approver") : Steady(b) => <<b, Awaiting(p)>> \in told'
    BY <1>0, <2>1, <2>3, <2>7 DEF PendingKnown
  <2> HIDE DEF row
  <2> QED
    BY <1>1, <2>1, <2>2, <2>3, <2>4, <2>6, <2>8 DEF PolicyFacts
<1>4. CASE SavePolicyContent(a, p)
  <2> DEFINE row == [policies[p] EXCEPT !.editor = a]
  <2>1. PolicyExists(p) /\ policies[p] \in PolicyRow
    BY <1>4 DEF SavePolicyContent, PolicyFacts
  <2>2. policies' = [policies EXCEPT ![p] = row]
    BY <1>4 DEF SavePolicyContent
  <2>3. /\ row \in PolicyRow /\ row.editor = a
        /\ row.creator = policies[p].creator /\ row.born = policies[p].born
        /\ row.approver = policies[p].approver /\ row.status = policies[p].status
    BY <2>1 DEF PolicyRow
  <2>4. HasBeen(a, "Compliance Officer")
    BY <1>4, PermittedRoles DEF SavePolicyContent
  <2> HIDE DEF row
  <2>5. row.status \in Decisions => \/ <<row.creator, <<p, row.status>>>> \in told'
                                    \/ row.born = row.status
    BY <1>0, <2>1, <2>3 DEF DecisionsHeard
  <2>6. row.status = "pending_approval" =>
          \A b \in Holders("Policy Approver") : Steady(b) => <<b, Awaiting(p)>> \in told'
    BY <1>0, <2>1, <2>3 DEF PendingKnown
  <2> QED
    BY <1>1, <2>1, <2>2, <2>3, <2>4, <2>5, <2>6 DEF PolicyFacts
<1>5. CASE ApprovePolicy(a, p)
  <2> DEFINE row == [policies[p] EXCEPT !.status = "approved", !.approver = a]
  <2>1. PolicyExists(p) /\ policies[p] \in PolicyRow
    BY <1>5 DEF ApprovePolicy, PolicyFacts
  <2>2. policies' = [policies EXCEPT ![p] = row]
    BY <1>5, <2>1 DEF ApprovePolicy, PolicyRow
  <2>3. /\ row \in PolicyRow /\ row.editor = policies[p].editor /\ row.creator = policies[p].creator
        /\ row.approver = a /\ row.status = "approved"
    BY <2>1 DEF PolicyRow, Statuses, Decisions
  <2>4. HasBeen(a, "Policy Approver")
    BY <1>5, PermittedRoles DEF ApprovePolicy
  <2>5. <<policies[p].creator, <<p, "approved">>>> \in told'
    BY <1>5, <2>1, NobodyAssumption DEF ApprovePolicy, HearDecision, Tell, Told, PolicyRow
  <2> HIDE DEF row
  <2> QED
    BY <1>1, <2>1, <2>2, <2>3, <2>4, <2>5 DEF PolicyFacts
<1>6. CASE RejectPolicy(a, p)
  <2> DEFINE row == [policies[p] EXCEPT !.status = "rejected"]
  <2>1. PolicyExists(p) /\ policies[p] \in PolicyRow
    BY <1>6 DEF RejectPolicy, PolicyFacts
  <2>2. policies' = [policies EXCEPT ![p] = row]
    BY <1>6 DEF RejectPolicy
  <2>3. /\ row \in PolicyRow /\ row.editor = policies[p].editor /\ row.creator = policies[p].creator
        /\ row.approver = policies[p].approver /\ row.status = "rejected"
    BY <2>1 DEF PolicyRow, Statuses, Decisions
  <2>4. <<policies[p].creator, <<p, "rejected">>>> \in told'
    BY <1>6, <2>1, NobodyAssumption DEF RejectPolicy, HearDecision, Tell, Told, PolicyRow
  <2> HIDE DEF row
  <2> QED
    BY <1>1, <2>1, <2>2, <2>3, <2>4 DEF PolicyFacts
<1> QED
  BY <1>2, <1>3, <1>4, <1>5, <1>6

\* Wherever the policies stay as they are, roles may still change.
LEMMA PolicyFactsElsewhere ==
  ASSUME Peopled, PolicyFacts, DecisionsHeard, PendingKnown, [Next]_vars, policies' = policies
  PROVE  PolicyFacts' /\ DecisionsHeard' /\ PendingKnown'
<1>1. Remembers /\ Peopled'
  BY PeopledStep
<1>2. PolicyFacts'
  BY <1>1 DEF PolicyFacts, PolicyExists, PolicyRow, HasBeen, Remembers
<1>3. DecisionsHeard'
  BY <1>1 DEF DecisionsHeard, PolicyExists, Remembers
<1>4. ASSUME NEW p \in PolicyIds, NEW b \in Accounts, role'[b] = "Policy Approver", PolicyExists(p),
             policies[p].status = "pending_approval", Steady(b)'
      PROVE  <<b, Awaiting(p)>> \in told'
  <2>1. served # "departments"
    BY <1>4 DEF PolicyFacts
  <2>2. role'[b] # Null
    BY <1>4, NobodyAssumption DEF RoleNames
  <2>3. Steady(b) /\ role[b] = "Policy Approver"
    BY <1>4, <2>1, <2>2, SteadyBefore
  <2>4. <<b, Awaiting(p)>> \in told
    BY <1>4, <2>3 DEF PendingKnown, Holders
  <2> QED
    BY <1>1, <2>4 DEF Remembers
<1>5. PendingKnown'
  BY <1>4 DEF PendingKnown, PolicyExists, Holders, Awaiting
<1> QED
  BY <1>2, <1>3, <1>5

PolicyInv == Peopled /\ PolicyFacts /\ DecisionsHeard /\ PendingKnown

LEMMA PolicyInvariant == Spec => []PolicyInv
<1>1. Init => PolicyInv
  BY PeopledInit DEF Init, PolicyInit, PolicyInv, PolicyFacts, PolicyExists, DecisionsHeard, PendingKnown
<1>2. PolicyInv /\ [Next]_vars => PolicyInv'
  <2> SUFFICES ASSUME PolicyInv, [Next]_vars PROVE PolicyInv'
    OBVIOUS
  <2>1. PolicyStep \/ policies' = policies
    BY DEF Next, vars, DepartmentStep, AuditStep, IncidentStep, VendorStep, TenantStep, RoleStep
  <2> QED
    BY <2>1, PeopledStep, PolicyFactsStep, PolicyFactsElsewhere DEF PolicyInv
<1> QED
  BY <1>1, <1>2, PTL DEF Spec

\* For every number of accounts and policies, whatever roles change and in whatever role
\* an old session still acts, whoever approved his own policy has had both roles, or an
\* administrator's (policies.py, deps.py).
THEOREM FourEyesSafe == Spec => []FourEyes
<1>1. ASSUME PolicyInv PROVE FourEyes
  <2>1. SUFFICES ASSUME NEW p \in PolicyIds, PolicyExists(p),
                        NEW a \in {policies[p].creator, policies[p].editor},
                        a = policies[p].approver
                 PROVE  \/ held[a] \cap {"Super Admin", "Institution Admin"} # {}
                        \/ {"Compliance Officer", "Policy Approver"} \subseteq held[a]
    BY DEF FourEyes
  <2>2. policies[p] \in PolicyRow
    BY <1>1, <2>1 DEF PolicyInv, PolicyFacts
  <2>3. a # Null
    BY <2>2, NobodyAssumption DEF PolicyRow
  <2>4. HasBeen(a, "Compliance Officer") /\ HasBeen(a, "Policy Approver")
    BY <1>1, <2>1, <2>3 DEF PolicyInv, PolicyFacts
  <2> QED
    BY <2>4 DEF HasBeen
<1> QED
  BY <1>1, PolicyInvariant, PTL

\* For every sequence of decisions and resubmissions, the creator has been told of the
\* decision that a policy shows (approve_policy, reject_policy).
THEOREM DecisionsSafe == Spec => []DecisionsHeard
<1>1. PolicyInv => DecisionsHeard
  BY DEF PolicyInv
<1> QED
  BY <1>1, PolicyInvariant, PTL

(***************************************************************************)
(* Incidents                                                               *)
(***************************************************************************)
IncidentRow ==
  [status : IncidentStatuses, detectedAt : Int, deadline : Int, reported : BOOLEAN,
   assignee : Accounts \cup {Null}, nth : Nat, detected : Nat,
   zone : Zones \cup {0}]

\* The deadline is six hours after the detection, as far as the zone of the clock allows.
Timed(row) ==
  /\ row.deadline = row.detectedAt + 6
  /\ row.detectedAt = row.detected + row.zone

IncidentFacts ==
  /\ now \in Nat
  /\ incidents = [i \in IncidentIds |-> incidents[i]]
  /\ \A i \in Logged : served = "incidents" /\ incidents[i] \in IncidentRow /\ Timed(incidents[i])

LEMMA LoggedFinite == IsFiniteSet(Logged)
BY IncidentAssumption, FS_Subset DEF Logged

LEMMA IncidentRowWritten ==
  ASSUME IncidentFacts, IncidentKnown, served = "incidents", UNCHANGED <<served, role, held, now>>,
         told \subseteq told',
         NEW i \in IncidentIds, NEW row \in IncidentRow, incidents' = [incidents EXCEPT ![i] = row],
         Timed(row),
         \A b \in Accounts :
           \/ b = row.assignee
           \/ role[b] \in {"IT Security Officer", "Compliance Officer"} /\ Steady(b)
           => <<b, <<i, "logged">>>> \in told'
  PROVE  IncidentFacts' /\ IncidentKnown'
<1>1. incidents' = [j \in IncidentIds |-> IF j = i THEN row ELSE incidents[j]]
  BY DEF IncidentFacts
<1>2. incidents'[i] = row /\ \A j \in IncidentIds \ {i} : incidents'[j] = incidents[j]
  BY <1>1
<1>3. Logged' \subseteq Logged \cup {i}
  BY <1>2 DEF Logged
<1>4. IncidentFacts'
  BY <1>1, <1>2, <1>3 DEF IncidentFacts, Logged
<1>5. IncidentKnown'
  BY <1>2, <1>3 DEF IncidentKnown, Logged, Steady
<1> QED
  BY <1>4, <1>5

LEMMA IncidentFactsStep ==
  ASSUME Peopled, IncidentFacts, IncidentKnown, IncidentStep
  PROVE  IncidentFacts' /\ IncidentKnown'
<1>0. /\ served = "incidents" /\ UNCHANGED <<served, role, held>> /\ told \subseteq told'
  BY OthersPeopled DEF IncidentStep, accountVars
<1>1. ASSUME NEW a \in Accounts, NEW i \in IncidentIds, NEW assignee \in Accounts \cup {Null},
             NEW detected, NEW zone,
             \/ detected \in {t \in Times : t <= now} /\ zone \in Zones
             \/ detected = Null /\ zone = 0,
             CreateIncident(a, i, detected, zone, assignee)
      PROVE  IncidentFacts' /\ IncidentKnown'
  <2> DEFINE seen == IF detected = Null THEN now ELSE detected
             stored == IF detected = Null THEN now ELSE detected + zone
             row == [status |-> "open", detectedAt |-> stored, deadline |-> stored + 6,
                     reported |-> FALSE, assignee |-> assignee, nth |-> Cardinality(Logged),
                     detected |-> seen, zone |-> zone]
  <2>1. incidents' = [incidents EXCEPT ![i] = row] /\ now' = now
    BY <1>1 DEF CreateIncident, ParseDatetime, Entered, CertInDeadline
  <2>2. seen \in Nat /\ zone \in Zones \cup {0} /\ zone \in Int /\ stored = seen + zone
    <3>1. CASE detected = Null
      BY <1>1, <3>1, IncidentAssumption DEF IncidentFacts
    <3>2. CASE detected # Null
      BY <1>1, <3>2, IncidentAssumption
    <3> QED
      BY <3>1, <3>2
  <2>3. row \in IncidentRow
    <3>1. Cardinality(Logged) \in Nat
      BY LoggedFinite, FS_CardinalityType
    <3> HIDE DEF seen, stored
    <3> QED
      BY <2>2, <3>1 DEF IncidentRow, IncidentStatuses
  <2>4. row.assignee = assignee
    OBVIOUS
  <2>5. Timed(row)
    <3> HIDE DEF seen, stored
    <3> QED
      BY <2>2 DEF Timed
  <2>6. ASSUME NEW b \in Accounts,
               b = assignee \/ role[b] \in {"IT Security Officer", "Compliance Officer"}
        PROVE  <<b, <<i, "logged">>>> \in told'
    BY <1>1, <2>6, NobodyAssumption DEF CreateIncident, Tell, Told, Holders
  <2> HIDE DEF row, seen, stored
  <2> QED
    BY <1>0, <2>1, <2>3, <2>4, <2>5, <2>6, IncidentRowWritten
<1>2. ASSUME NEW a \in Accounts, NEW i \in IncidentIds, NEW status \in IncidentStatuses \cup {Null},
             NEW reported \in {TRUE, FALSE} \cup {Null}, UpdateIncident(a, i, status, reported)
      PROVE  IncidentFacts' /\ IncidentKnown'
  <2> DEFINE row == [incidents[i] EXCEPT !.status = IF status = Null THEN @ ELSE status,
                                         !.reported = IF reported = Null THEN @ ELSE reported]
  <2>1. i \in Logged /\ incidents[i] \in IncidentRow
    BY <1>2 DEF UpdateIncident, IncidentFacts
  <2>2. incidents' = [incidents EXCEPT ![i] = row] /\ now' = now
    BY <1>2, <2>1 DEF UpdateIncident, IncidentRow
  <2>3. row \in IncidentRow
    BY <1>2, <2>1 DEF IncidentRow, IncidentFacts
  <2>4. Timed(row) /\ row.assignee = incidents[i].assignee
    BY <2>1 DEF IncidentRow, IncidentFacts, Timed
  <2> HIDE DEF row
  <2>5. \A b \in Accounts :
          \/ b = row.assignee
          \/ role[b] \in {"IT Security Officer", "Compliance Officer"} /\ Steady(b)
          => <<b, <<i, "logged">>>> \in told'
    BY <1>0, <2>1, <2>4 DEF IncidentKnown
  <2> QED
    BY <1>0, <2>1, <2>2, <2>3, <2>4, <2>5, IncidentRowWritten DEF IncidentFacts
<1>3. CASE Tick
  <2>1. incidents' = incidents /\ now' \in Nat
    BY <1>3, IncidentAssumption DEF Tick
  <2>2. Logged' = Logged
    BY <2>1 DEF Logged
  <2>3. IncidentFacts'
    BY <1>0, <2>1, <2>2 DEF IncidentFacts
  <2>4. IncidentKnown'
    BY <1>0, <2>1, <2>2 DEF IncidentKnown, Steady
  <2> QED
    BY <2>3, <2>4
<1> QED
  BY <1>1, <1>2, <1>3 DEF IncidentStep, IncidentNext

LEMMA IncidentFactsElsewhere ==
  ASSUME Peopled, IncidentFacts, IncidentKnown, [Next]_vars, UNCHANGED incidentVars
  PROVE  IncidentFacts' /\ IncidentKnown'
<1>1. Remembers /\ incidents' = incidents /\ now' = now
  BY PeopledStep DEF incidentVars
<1>2. IncidentFacts' /\ Logged' = Logged
  <2>1. served' = served /\ Logged' = Logged
    BY <1>1 DEF Remembers, Logged
  <2> QED
    BY <1>1, <2>1 DEF IncidentFacts
<1>3. ASSUME NEW i \in Logged, NEW b \in Accounts,
             role'[b] \in {"IT Security Officer", "Compliance Officer"}, Steady(b)'
      PROVE  role[b] = role'[b] /\ Steady(b)
  <2>1. served # "departments"
    BY <1>3 DEF IncidentFacts
  <2>2. role'[b] # Null
    BY <1>3, NobodyAssumption DEF RoleNames
  <2> QED
    BY <1>3, <2>1, <2>2, SteadyBefore
<1>4. IncidentKnown'
  BY <1>1, <1>2, <1>3 DEF IncidentKnown, Remembers
<1> QED
  BY <1>2, <1>4

IncidentInv == Peopled /\ IncidentFacts /\ IncidentKnown

LEMMA IncidentInvariant == Spec => []IncidentInv
<1>1. Init => IncidentInv
  <2> SUFFICES ASSUME Init PROVE IncidentInv
    OBVIOUS
  <2>1. now \in Nat /\ incidents = [i \in IncidentIds |-> Null]
    BY IncidentAssumption DEF Init, IncidentInit
  <2>2. Logged = {}
    BY <2>1 DEF Logged
  <2> QED
    BY <2>1, <2>2, PeopledInit DEF IncidentInv, IncidentFacts, IncidentKnown
<1>2. IncidentInv /\ [Next]_vars => IncidentInv'
  <2> SUFFICES ASSUME IncidentInv, [Next]_vars PROVE IncidentInv'
    OBVIOUS
  <2>1. IncidentStep \/ UNCHANGED incidentVars
    BY DEF Next, vars, PolicyStep, DepartmentStep, AuditStep, VendorStep, TenantStep, RoleStep
  <2> QED
    BY <2>1, PeopledStep, IncidentFactsStep, IncidentFactsElsewhere DEF IncidentInv
<1> QED
  BY <1>1, <1>2, PTL DEF Spec

\* For every number of incidents, every clock and length of the page, the list of overdue
\* incidents is early or late by at most the zone of the reporter, and what it leaves out
\* beyond that has a page of unreported incidents with later deadlines before it
\* (create_incident, update_incident, list_incidents).
THEOREM OverdueSafe == Spec => []OverdueWithinZone
<1>1. ASSUME IncidentInv PROVE OverdueWithinZone
  <2> DEFINE selected == {i \in Logged : incidents[i].deadline < now /\ ~incidents[i].reported}
  <2>1. /\ now \in Nat
        /\ \A i \in Logged : incidents[i] \in IncidentRow /\ Timed(incidents[i])
    BY <1>1 DEF IncidentInv, IncidentFacts
  <2>0. \A i \in Logged :
          /\ incidents[i].detected \in Nat /\ incidents[i].zone \in Int
          /\ incidents[i].deadline = incidents[i].detected + incidents[i].zone + 6
          /\ Ahead(i) >= incidents[i].zone /\ -Behind(i) <= incidents[i].zone
          /\ Ahead(i) \in Int /\ -Behind(i) \in Int
    <3> SUFFICES ASSUME NEW i \in Logged
                 PROVE  /\ incidents[i].detected \in Nat /\ incidents[i].zone \in Int
                        /\ incidents[i].deadline = incidents[i].detected + incidents[i].zone + 6
                        /\ Ahead(i) >= incidents[i].zone /\ -Behind(i) <= incidents[i].zone
                        /\ Ahead(i) \in Int /\ -Behind(i) \in Int
      OBVIOUS
    <3>1. incidents[i].detected \in Nat /\ incidents[i].zone \in Int
      <4>1. incidents[i] \in IncidentRow
        BY <2>1
      <4>2. incidents[i].detected \in Nat /\ incidents[i].zone \in Zones \cup {0}
        BY <4>1 DEF IncidentRow
      <4>3. \A z \in Zones \cup {0} : z \in Int
        BY IncidentAssumption
      <4> QED
        BY <4>2, <4>3
    <3>2. incidents[i].deadline = incidents[i].detected + incidents[i].zone + 6
      BY <2>1, <3>1 DEF Timed
    <3> QED
      BY <3>1, <3>2 DEF Ahead, Behind
  <2>2. \A i \in Overdue : Late(i, -Behind(i))
    BY <2>0, <2>1 DEF Overdue, Late
  <2>3. ASSUME NEW i \in Logged, Late(i, Ahead(i)), i \notin Overdue PROVE Crowded(i)
    <3> DEFINE before == {j \in selected : Newer(j, i)}
               rest == {j \in Logged \ {i} : /\ ~incidents[j].reported
                                             /\ incidents[j].deadline >= incidents[i].deadline}
    <3>1. i \in selected
      BY <2>0, <2>1, <2>3 DEF Late
    <3>2. ~(Cardinality(before) < PageLimit)
      BY <2>3, <3>1 DEF Overdue
    <3>3. before \subseteq rest
      BY <2>1 DEF Newer, Timed, IncidentRow
    <3>4. IsFiniteSet(rest)
      BY LoggedFinite, FS_Subset
    <3>5. /\ Cardinality(before) <= Cardinality(rest)
          /\ Cardinality(before) \in Nat /\ Cardinality(rest) \in Nat
      BY <3>3, <3>4, FS_Subset, FS_CardinalityType
    <3> HIDE DEF before
    <3>6. Cardinality(rest) >= PageLimit
      <4> HIDE DEF rest
      <4> QED
        BY <3>2, <3>5, IncidentAssumption
    <3> QED
      BY <3>6 DEF Crowded
  <2> QED
    BY <2>2, <2>3 DEF OverdueWithinZone
<1> QED
  BY <1>1, IncidentInvariant, PTL

(***************************************************************************)
(* Risk assessments                                                        *)
(***************************************************************************)
RiskFacts ==
  /\ risks = [x \in RiskIds |-> risks[x]]
  /\ Assessed # {} => served = "vendors"

LEMMA RiskFactsStep ==
  ASSUME Peopled, RiskFacts, RiskKnown, VendorStep
  PROVE  RiskFacts' /\ RiskKnown'
<1>0. /\ served = "vendors" /\ UNCHANGED <<served, role, held>> /\ told \subseteq told'
  BY OthersPeopled DEF VendorStep, accountVars
<1>1. ASSUME NEW x \in RiskIds, NEW row, risks' = [risks EXCEPT ![x] = row],
             row.source = "manual" =>
               \A b \in Holders("Vendor Reviewer") : <<b, <<x, "review">>>> \in told'
      PROVE  RiskFacts' /\ RiskKnown'
  <2>1. risks' = [y \in RiskIds |-> IF y = x THEN row ELSE risks[y]]
    BY <1>1 DEF RiskFacts
  <2>2. Assessed' \subseteq Assessed \cup {x} /\ Holders("Vendor Reviewer")' = Holders("Vendor Reviewer")
    BY <1>0, <2>1 DEF Assessed, Holders
  <2>3. RiskFacts'
    BY <1>0, <2>1 DEF RiskFacts
  <2>4. RiskKnown'
    BY <1>0, <1>1, <2>1, <2>2 DEF RiskKnown, Steady, Assessed
  <2> QED
    BY <2>3, <2>4
<1>2. CASE UNCHANGED risks
  BY <1>0, <1>2 DEF RiskFacts, RiskKnown, Assessed, Holders, Steady
<1>3. ASSUME NEW a \in Accounts, NEW v \in VendorIds, NEW x \in RiskIds, CreateRiskAssessment(a, v, x)
      PROVE  RiskFacts' /\ RiskKnown'
  <2>1. \A b \in Holders("Vendor Reviewer") : <<b, <<x, "review">>>> \in told'
    BY <1>3, NobodyAssumption DEF CreateRiskAssessment, TellReviewers, Tell, Told, Holders
  <2> QED
    BY <1>1, <1>3, <2>1 DEF CreateRiskAssessment
<1>4. ASSUME NEW r \in Requests, NEW x \in RiskIds, AnalysisAnswered(r, x)
      PROVE  RiskFacts' /\ RiskKnown'
  <2>1. [vendor |-> req[r].vendor, source |-> "analysis"].source # "manual"
    OBVIOUS
  <2> QED
    BY <1>1, <1>4, <2>1 DEF AnalysisAnswered
<1> QED
  BY <1>2, <1>3, <1>4 DEF VendorStep, VendorNext, CreateVendor, AnalyzeContract, AnalysisFailed, NothingSaved

LEMMA RiskFactsElsewhere ==
  ASSUME Peopled, RiskFacts, RiskKnown, [Next]_vars, UNCHANGED risks
  PROVE  RiskFacts' /\ RiskKnown'
<1>1. Remembers
  BY PeopledStep
<1>2. RiskFacts' /\ Assessed' = Assessed
  BY <1>1 DEF RiskFacts, Assessed, Remembers
<1>3. ASSUME NEW x \in Assessed, NEW b \in Accounts, role'[b] = "Vendor Reviewer", Steady(b)'
      PROVE  role[b] = "Vendor Reviewer" /\ Steady(b)
  <2>1. served # "departments"
    BY <1>3 DEF RiskFacts
  <2>2. role'[b] # Null
    BY <1>3, NobodyAssumption DEF RoleNames
  <2> QED
    BY <1>3, <2>1, <2>2, SteadyBefore
<1>4. RiskKnown'
  BY <1>1, <1>2, <1>3 DEF RiskKnown, Remembers, Holders
<1> QED
  BY <1>2, <1>4

RiskInv == Peopled /\ RiskFacts /\ RiskKnown

LEMMA RiskInvariant == Spec => []RiskInv
<1>1. Init => RiskInv
  BY PeopledInit DEF Init, VendorInit, RiskInv, RiskFacts, RiskKnown, Assessed
<1>2. RiskInv /\ [Next]_vars => RiskInv'
  <2> SUFFICES ASSUME RiskInv, [Next]_vars PROVE RiskInv'
    OBVIOUS
  <2>1. VendorStep \/ UNCHANGED risks
    BY DEF Next, vars, vendorVars, PolicyStep, DepartmentStep, AuditStep, IncidentStep, TenantStep, RoleStep
  <2> QED
    BY <2>1, PeopledStep, RiskFactsStep, RiskFactsElsewhere DEF RiskInv
<1> QED
  BY <1>1, <1>2, PTL DEF Spec

\* For every number of accounts and rows, nothing waits unknown to those who have to
\* act on it (create_policy, create_incident, upsert_vendor_risk_assessment).
THEOREM AwaitedSafe == Spec => []AwaitedKnown
<1>1. PolicyInv /\ IncidentInv /\ RiskInv => AwaitedKnown
  BY DEF PolicyInv, IncidentInv, RiskInv, AwaitedKnown
<1> QED
  BY <1>1, PolicyInvariant, IncidentInvariant, RiskInvariant, PTL

(***************************************************************************)
(* Departments                                                             *)
(***************************************************************************)
DepartmentRow == [name : Names, active : BOOLEAN, reviewer : Accounts \cup {Null}]

\* What a request that has checked carries until it writes.
Carried(q) ==
  /\ q.at = "create_department" => q.name \in Names
  /\ q.at = "update_department" =>
       /\ q.name \in Names \cup {Null} /\ q.reviewer \in Accounts \cup {Null}
       /\ q.reviewer # Null => "Department Reviewer" \in held[q.reviewer]

DepartmentFacts ==
  /\ req = [r \in Requests |-> req[r]]
  /\ departments = [d \in DepartmentIds |-> departments[d]]
  /\ \A r \in Requests : Carried(req[r])
  /\ \A d \in Existing : departments[d] \in DepartmentRow

\* A name that a request found free is held only by departments that count as renamed.
NamesChecked ==
  \A r \in UnderWay("create_department"), d \in Existing \ renamed :
    Fold(departments[d].name) # Fold(req[r].name)

DepartmentInv == Peopled /\ DepartmentFacts /\ NamesChecked /\ ReviewersReview /\ TwinsOverlap

LEMMA CarriedOn ==
  ASSUME Remembers, NEW r \in Requests, Carried(req[r]), req'[r] = req[r]
  PROVE  Carried(req[r])'
<1>1. \A a \in Accounts : held[a] \subseteq held'[a]
  BY DEF Remembers
<1>2. (req[r].at)' = req[r].at /\ (req[r].name)' = req[r].name /\ (req[r].reviewer)' = req[r].reviewer
  OBVIOUS
<1>3. req[r].at = "update_department" /\ req[r].reviewer # Null =>
        "Department Reviewer" \in held'[req[r].reviewer]
  BY <1>1 DEF Carried
<1> QED
  BY <1>2, <1>3 DEF Carried

\* A row that is written, or created; the requests do not change but for the one that
\* has written it.
LEMMA DepartmentWritten ==
  ASSUME DepartmentInv, Remembers, NEW d \in DepartmentIds, NEW row \in DepartmentRow,
         departments' = [departments EXCEPT ![d] = row],
         \A r \in Requests : req'[r] \in {req[r], Idle},
         req' = [r \in Requests |-> req'[r]],
         renamed \subseteq renamed', unchecked \subseteq unchecked' \cup {d},
         d \notin unchecked' /\ row.reviewer # Null => "Department Reviewer" \in held'[row.reviewer],
         \/ d \in renamed'
         \/ d \in Existing /\ row.name = departments[d].name
         \/ /\ \A e \in Existing \ renamed : Fold(departments[e].name) # Fold(row.name)
            /\ \A r \in Requests : req'[r].at # "create_department"
  PROVE  DepartmentFacts' /\ NamesChecked' /\ ReviewersReview' /\ TwinsOverlap'
<1> USE DEF DepartmentInv
<1>1. departments' = [e \in DepartmentIds |-> IF e = d THEN row ELSE departments[e]]
  BY DEF DepartmentFacts
<1>2. departments'[d] = row /\ \A e \in DepartmentIds \ {d} : departments'[e] = departments[e]
  BY <1>1
<1>3. Existing' \subseteq Existing \cup {d} /\ Existing' \subseteq DepartmentIds
  BY <1>2 DEF Existing, Exists
<1>4. row.name \in Names /\ row.reviewer \in Accounts \cup {Null}
  BY DEF DepartmentRow
<1>5. DepartmentFacts'
  <2>1. ASSUME NEW r \in Requests PROVE Carried(req[r])'
    <3>1. CASE req'[r] = Idle
      <4>1. Idle.at = "idle"
        BY DEF Idle
      <4>2. req'[r].at = "idle"
        BY <3>1, <4>1
      <4> QED
        BY <4>2 DEF Carried
    <3>2. CASE req'[r] = req[r]
      <4>1. Carried(req[r])
        BY DEF DepartmentFacts
      <4> QED
        BY <3>2, <4>1, CarriedOn
    <3> QED
      BY <3>1, <3>2
  <2>2. \A e \in Existing' : departments'[e] \in DepartmentRow
    BY <1>2, <1>3 DEF DepartmentFacts
  <2> QED
    BY <1>1, <2>1, <2>2 DEF DepartmentFacts, DepartmentRow
<1>6. ASSUME NEW r \in UnderWay("create_department")'
      PROVE  r \in UnderWay("create_department") /\ req'[r] = req[r]
  <2>1. r \in Requests /\ req'[r].at = "create_department"
    BY <1>6 DEF UnderWay
  <2>2. Idle.at # "create_department"
    BY DEF Idle
  <2>3. req'[r] \in {req[r], Idle}
    BY <2>1
  <2>4. req'[r] = req[r]
    BY <2>1, <2>2, <2>3
  <2> QED
    BY <2>1, <2>4 DEF UnderWay
<1>7. NamesChecked'
  <2> SUFFICES ASSUME NEW r \in UnderWay("create_department")', NEW e \in (Existing \ renamed)'
               PROVE  Fold(departments'[e].name) # Fold(req'[r].name)
    BY DEF NamesChecked
  <2>1. r \in UnderWay("create_department") /\ req'[r] = req[r] /\ r \in Requests
        /\ req'[r].at = "create_department"
    BY <1>6 DEF UnderWay
  <2>2. CASE e = d
    <3>1. d \in Existing \ renamed /\ departments'[d].name = departments[d].name
      BY <1>2, <2>1, <2>2
    <3> QED
      BY <2>1, <2>2, <3>1 DEF NamesChecked
  <2>3. CASE e # d
    <3>1. e \in Existing \ renamed /\ departments'[e] = departments[e]
      BY <1>2, <1>3, <2>3
    <3> QED
      BY <2>1, <3>1 DEF NamesChecked
  <2> QED
    BY <2>2, <2>3
<1>8. ReviewersReview'
  BY <1>2, <1>3, <1>4 DEF ReviewersReview, DepartmentFacts, DepartmentRow, Remembers
<1>9. TwinsOverlap'
  <2>1. ASSUME NEW e \in (Existing \ renamed)', e # d
        PROVE  /\ e \in Existing \ renamed /\ departments'[e] = departments[e]
               /\ d \notin renamed' => Fold(departments[e].name) # Fold(row.name)
    <3>1. e \in Existing \ renamed /\ departments'[e] = departments[e]
      BY <1>2, <1>3, <2>1
    <3>2. CASE d \in Existing \ renamed /\ row.name = departments[d].name
      BY <2>1, <3>1, <3>2 DEF TwinsOverlap
    <3>3. CASE ~(d \in Existing \ renamed /\ row.name = departments[d].name)
      BY <3>1, <3>3
    <3> QED
      BY <3>1, <3>2, <3>3
  <2>2. ASSUME NEW e \in (Existing \ renamed)', NEW f \in (Existing \ renamed)', e # f
        PROVE  Fold(departments'[e].name) # Fold(departments'[f].name)
    <3>1. CASE e = d
      BY <1>2, <2>1, <2>2, <3>1
    <3>2. CASE f = d
      BY <1>2, <2>1, <2>2, <3>2
    <3>3. CASE e # d /\ f # d
      BY <2>1, <2>2, <3>3 DEF TwinsOverlap
    <3> QED
      BY <3>1, <3>2, <3>3
  <2> QED
    BY <2>2 DEF TwinsOverlap
<1> QED
  BY <1>5, <1>7, <1>8, <1>9

\* User management links and unlinks reviewers, and touches no name.
LEMMA LinksMoved ==
  ASSUME DepartmentInv, Remembers, UNCHANGED <<req, renamed>>, unchecked \subseteq unchecked',
         departments' = [d \in DepartmentIds |-> departments'[d]],
         Existing' \subseteq Existing,
         \A d \in Existing :
           /\ departments'[d] \in DepartmentRow /\ departments'[d].name = departments[d].name
           /\ departments'[d].reviewer \in {departments[d].reviewer, Null} \/ d \in unchecked'
  PROVE  DepartmentFacts' /\ NamesChecked' /\ ReviewersReview' /\ TwinsOverlap'
<1> USE DEF DepartmentInv
<1>1. ASSUME NEW r \in Requests PROVE Carried(req[r])'
  BY <1>1, CarriedOn DEF DepartmentFacts
<1>2. DepartmentFacts'
  BY <1>1 DEF DepartmentFacts
<1>3. NamesChecked' /\ TwinsOverlap'
  BY DEF NamesChecked, TwinsOverlap, UnderWay
<1>4. ASSUME NEW d \in (Existing \ unchecked)', departments'[d].reviewer # Null
      PROVE  "Department Reviewer" \in held'[departments'[d].reviewer]
  <2>1. d \in Existing \ unchecked /\ departments'[d].reviewer = departments[d].reviewer
    BY <1>4
  <2>2. /\ "Department Reviewer" \in held[departments[d].reviewer]
        /\ departments[d].reviewer \in Accounts
    BY <1>4, <2>1 DEF ReviewersReview, DepartmentFacts, DepartmentRow
  <2> QED
    BY <2>1, <2>2 DEF Remembers
<1> QED
  BY <1>2, <1>3, <1>4 DEF ReviewersReview

\* A step that writes no department: what a request now carries has been checked.
LEMMA RequestsMoved ==
  ASSUME DepartmentInv, Remembers, UNCHANGED departmentVars,
         req' = [r \in Requests |-> req'[r]],
         \A r \in Requests :
           \/ req'[r] = req[r]
           \/ /\ Carried(req[r])'
              /\ req'[r].at = "create_department" =>
                   \A d \in Existing \ renamed : Fold(departments[d].name) # Fold(req'[r].name)
  PROVE  DepartmentFacts' /\ NamesChecked' /\ ReviewersReview' /\ TwinsOverlap'
<1> USE DEF DepartmentInv
<1>1. UNCHANGED <<departments, unchecked, renamed>> /\ Existing' = Existing
  BY DEF departmentVars, Existing, Exists
<1>2. ASSUME NEW r \in Requests PROVE Carried(req[r])'
  <2>1. CASE req'[r] = req[r]
    BY <2>1, CarriedOn DEF DepartmentFacts
  <2> QED
    BY <2>1
<1>3. DepartmentFacts'
  BY <1>1, <1>2 DEF DepartmentFacts
<1>4. ASSUME NEW r \in UnderWay("create_department")', NEW d \in Existing \ renamed
      PROVE  Fold(departments[d].name) # Fold(req'[r].name)
  <2>1. r \in Requests /\ req'[r].at = "create_department"
    BY <1>4 DEF UnderWay
  <2>2. CASE req'[r] = req[r]
    BY <1>4, <2>1, <2>2 DEF NamesChecked, UnderWay
  <2> QED
    BY <2>1, <2>2
<1>5. NamesChecked'
  BY <1>1, <1>4 DEF NamesChecked
<1>6. TwinsOverlap'
  BY <1>1 DEF TwinsOverlap
<1>7. ReviewersReview'
  BY <1>1 DEF ReviewersReview, Remembers, DepartmentFacts, DepartmentRow
<1> QED
  BY <1>3, <1>5, <1>6, <1>7

\* An account that is a Department Reviewer has been one.
LEMMA ReviewerHeld ==
  ASSUME Peopled, NEW u \in Accounts, MayReview(u)
  PROVE  "Department Reviewer" \in held[u]
<1>1. role[u] # Null
  BY NobodyAssumption DEF MayReview, RoleNames
<1> QED
  BY <1>1 DEF MayReview, Peopled

\* The steps that only move a request.
LEMMA DepartmentChecks ==
  ASSUME DepartmentInv, Remembers, NEW r \in Requests,
         NEW name \in Names \cup {Null}, NEW u \in Accounts \cup {Null},
         \/ name # Null /\ CreateRead(r, name)
         \/ UpdateRead(r, name, u)
         \/ DepartmentRefused(r)
  PROVE  DepartmentFacts' /\ NamesChecked' /\ ReviewersReview' /\ TwinsOverlap'
<1>1. ASSUME NEW q, UNCHANGED departmentVars, req' = [req EXCEPT ![r] = q], Carried(q)',
             q.at = "create_department" =>
               \A d \in Existing \ renamed : Fold(departments[d].name) # Fold(q.name)
      PROVE  DepartmentFacts' /\ NamesChecked' /\ ReviewersReview' /\ TwinsOverlap'
  <2>1. req' = [s \in Requests |-> IF s = r THEN q ELSE req[s]]
    BY <1>1 DEF DepartmentInv, DepartmentFacts
  <2>2. req'[r] = q /\ \A s \in Requests \ {r} : req'[s] = req[s]
    BY <2>1
  <2>3. Carried(req[r])'
    BY <1>1, <2>2
  <2>4. req' = [s \in Requests |-> req'[s]]
    BY <2>1
  <2> QED
    BY <1>1, <2>2, <2>3, <2>4, RequestsMoved
<1>2. CASE name # Null /\ CreateRead(r, name)
  <2> DEFINE q == [at |-> "create_department", name |-> name]
  <2>1. /\ req' = [req EXCEPT ![r] = q] /\ UNCHANGED departmentVars
        /\ q.at = "create_department" /\ q.name \in Names
        /\ \A d \in Existing : Fold(departments[d].name) # Fold(q.name)
    BY <1>2 DEF CreateRead, Start, Taken
  <2> HIDE DEF q
  <2>2. Carried(q)'
    BY <2>1 DEF Carried
  <2> QED
    BY <1>1, <2>1, <2>2
<1>3. CASE UpdateRead(r, name, u)
  <2> DEFINE q == [at |-> "update_department", name |-> name, reviewer |-> u]
  <2>1. /\ req' = [req EXCEPT ![r] = q] /\ UNCHANGED departmentVars
        /\ q.at = "update_department" /\ q.name = name /\ q.reviewer = u
        /\ u # Null => MayReview(u)
    BY <1>3 DEF UpdateRead, Start
  <2>2. u # Null => "Department Reviewer" \in held[u]
    BY <2>1, ReviewerHeld DEF DepartmentInv
  <2>3. u # Null => "Department Reviewer" \in held'[u]
    BY <2>2 DEF Remembers
  <2> HIDE DEF q
  <2>4. Carried(q)'
    BY <2>1, <2>3 DEF Carried
  <2> QED
    BY <1>1, <2>1, <2>4
<1>4. CASE DepartmentRefused(r)
  <2>1. req' = [req EXCEPT ![r] = Idle] /\ UNCHANGED departmentVars
    BY <1>4 DEF DepartmentRefused, Finish
  <2>2. Idle.at = "idle"
    BY DEF Idle
  <2>3. Carried(Idle)'
    BY <2>2 DEF Carried
  <2> QED
    BY <1>1, <2>1, <2>2, <2>3
<1> QED
  BY <1>2, <1>3, <1>4

\* The steps that write a department.
LEMMA DepartmentWrites ==
  ASSUME DepartmentInv, Remembers, NEW d \in DepartmentIds,
         \/ \E r \in Requests : CreateCommit(r, d) \/ UpdateCommit(r, d)
         \/ \E active \in BOOLEAN : ToggleDepartmentStatus(d, active)
  PROVE  DepartmentFacts' /\ NamesChecked' /\ ReviewersReview' /\ TwinsOverlap'
<1> USE DEF DepartmentInv
<1>0. ASSUME NEW r \in Requests, Finish(r)
      PROVE  /\ req' = [s \in Requests |-> req'[s]]
             /\ \A s \in Requests : req'[s] \in {req[s], Idle} /\ (s # r => req'[s] = req[s])
             /\ req'[r].at # "create_department"
  <2>1. req' = [s \in Requests |-> IF s = r THEN Idle ELSE req[s]]
    BY <1>0 DEF Finish, DepartmentFacts
  <2>2. Idle.at # "create_department"
    BY DEF Idle
  <2>3. req' = [s \in Requests |-> req'[s]]
    BY <2>1
  <2> QED
    BY <2>1, <2>2, <2>3
<1>1. ASSUME NEW r \in Requests, CreateCommit(r, d)
      PROVE  DepartmentFacts' /\ NamesChecked' /\ ReviewersReview' /\ TwinsOverlap'
  <2> DEFINE row == [name |-> req[r].name, active |-> TRUE, reviewer |-> Null]
  <2>1. /\ req[r].at = "create_department" /\ Finish(r) /\ unchecked' = unchecked
        /\ departments' = [departments EXCEPT ![d] = row]
        /\ renamed' = IF UnderWay("create_department") = {r} THEN renamed ELSE renamed \cup {d}
    BY <1>1 DEF CreateCommit
  <2>2. req[r].name \in Names
    BY <2>1 DEF DepartmentFacts, Carried
  <2>3. row \in DepartmentRow /\ row.reviewer = Null /\ row.name = req[r].name
    BY <2>2 DEF DepartmentRow
  <2> HIDE DEF row
  <2>4. CASE UnderWay("create_department") = {r}
    <3>1. \A s \in Requests : req'[s].at # "create_department"
      BY <1>0, <2>1, <2>4 DEF UnderWay
    <3>2. \A e \in Existing \ renamed : Fold(departments[e].name) # Fold(row.name)
      BY <2>3, <2>4 DEF NamesChecked
    <3> QED
      BY <1>0, <2>1, <2>3, <2>4, <3>1, <3>2, DepartmentWritten
  <2>5. CASE UnderWay("create_department") # {r}
    BY <1>0, <2>1, <2>3, <2>5, DepartmentWritten
  <2> QED
    BY <2>4, <2>5
<1>2. ASSUME NEW r \in Requests, UpdateCommit(r, d)
      PROVE  DepartmentFacts' /\ NamesChecked' /\ ReviewersReview' /\ TwinsOverlap'
  <2>1. /\ req[r].at = "update_department" /\ d \in Existing /\ Finish(r)
        /\ renamed' = IF req[r].name = Null THEN renamed ELSE renamed \cup {d}
        /\ unchecked' = IF req[r].reviewer = Null THEN unchecked ELSE unchecked \ {d}
    BY <1>2 DEF UpdateCommit, Existing
  <2>2. PICK linked \in IF req[r].reviewer = Null THEN {departments[d].reviewer, Null} ELSE {req[r].reviewer} :
          departments' = [departments EXCEPT ![d].name = IF req[r].name = Null THEN @ ELSE req[r].name,
                                             ![d].reviewer = linked]
    BY <1>2 DEF UpdateCommit
  <2>3. /\ departments[d] \in DepartmentRow /\ req[r].name \in Names \cup {Null}
        /\ req[r].reviewer \in Accounts \cup {Null}
        /\ req[r].reviewer # Null => "Department Reviewer" \in held[req[r].reviewer]
    BY <2>1 DEF DepartmentFacts, Carried
  <2> DEFINE row == [departments[d] EXCEPT !.name = IF req[r].name = Null THEN @ ELSE req[r].name,
                                           !.reviewer = linked]
  <2>4. departments' = [departments EXCEPT ![d] = row]
    BY <2>1, <2>2 DEF DepartmentFacts, Existing
  <2>5. /\ row \in DepartmentRow /\ row.reviewer = linked
        /\ row.name = IF req[r].name = Null THEN departments[d].name ELSE req[r].name
    BY <2>2, <2>3 DEF DepartmentRow
  <2> HIDE DEF row
  <2>6. ASSUME d \notin unchecked', linked # Null PROVE "Department Reviewer" \in held'[linked]
    <3>1. linked \in Accounts /\ "Department Reviewer" \in held[linked]
      BY <2>1, <2>2, <2>3, <2>6 DEF ReviewersReview, DepartmentRow
    <3> QED
      BY <3>1 DEF Remembers
  <2> QED
    BY <1>0, <2>1, <2>3, <2>4, <2>5, <2>6, DepartmentWritten
<1>3. ASSUME NEW active \in BOOLEAN, ToggleDepartmentStatus(d, active)
      PROVE  DepartmentFacts' /\ NamesChecked' /\ ReviewersReview' /\ TwinsOverlap'
  <2> DEFINE row == [departments[d] EXCEPT !.active = active]
  <2>1. /\ d \in Existing /\ UNCHANGED <<req, unchecked, renamed>>
        /\ departments' = [departments EXCEPT ![d].active = active]
    BY <1>3 DEF ToggleDepartmentStatus, Existing, inboxVars
  <2>2. departments[d] \in DepartmentRow
    BY <2>1 DEF DepartmentFacts
  <2>3. departments' = [departments EXCEPT ![d] = row]
    BY <2>1 DEF DepartmentFacts, Existing
  <2>4. row \in DepartmentRow /\ row.name = departments[d].name /\ row.reviewer = departments[d].reviewer
    BY <2>2 DEF DepartmentRow
  <2> HIDE DEF row
  <2>5. ASSUME d \notin unchecked', row.reviewer # Null PROVE "Department Reviewer" \in held'[row.reviewer]
    BY <2>1, <2>2, <2>4, <2>5 DEF ReviewersReview, DepartmentRow, Remembers
  <2>6. req' = [s \in Requests |-> req'[s]] /\ \A s \in Requests : req'[s] \in {req[s], Idle}
    BY <2>1 DEF DepartmentFacts
  <2> QED
    BY <2>1, <2>3, <2>4, <2>5, <2>6, DepartmentWritten
<1> QED
  BY <1>1, <1>2, <1>3

\* User management.
LEMMA DepartmentLinks ==
  ASSUME DepartmentInv, Remembers, NEW u \in Accounts,
         NEW d \in DepartmentIds \cup {Null}, NEW r \in RoleNames,
         CreateUser(u, r, d) \/ InviteUser(u, r, d) \/ UpdateUser(u, r, d)
  PROVE  DepartmentFacts' /\ NamesChecked' /\ ReviewersReview' /\ TwinsOverlap'
<1> USE DEF DepartmentInv
<1>1. ASSUME NEW rows, rows = [e \in DepartmentIds |-> rows[e]],
             \A e \in DepartmentIds : departments[e] = Null => rows[e] = Null,
             \A e \in Existing :
               /\ rows[e] \in DepartmentRow /\ rows[e].name = departments[e].name
               /\ rows[e].reviewer \in {departments[e].reviewer, Null},
             UNCHANGED <<req, renamed>>, Link(rows, u, d)
      PROVE  DepartmentFacts' /\ NamesChecked' /\ ReviewersReview' /\ TwinsOverlap'
  <2>1. CASE d \in Existing
    <3> DEFINE row == [rows[d] EXCEPT !.reviewer = u]
    <3>1. row \in DepartmentRow /\ row.name = departments[d].name
      BY <1>1, <2>1 DEF DepartmentRow
    <3>2. departments' = [e \in DepartmentIds |-> IF e = d THEN row ELSE rows[e]]
          /\ unchecked' = unchecked \cup {d}
      BY <1>1, <2>1 DEF Link
    <3> HIDE DEF row
    <3>3. departments' = [e \in DepartmentIds |-> departments'[e]] /\ Existing' \subseteq Existing
      BY <1>1, <2>1, <3>2 DEF Existing, Exists
    <3>4. ASSUME NEW e \in Existing
          PROVE  /\ departments'[e] \in DepartmentRow /\ departments'[e].name = departments[e].name
                 /\ departments'[e].reviewer \in {departments[e].reviewer, Null} \/ e \in unchecked'
      BY <1>1, <3>1, <3>2, <3>4 DEF Existing
    <3> QED
      BY <1>1, <3>2, <3>3, <3>4, LinksMoved
  <2>2. CASE d \notin Existing
    <3>1. departments' = rows /\ unchecked' = unchecked \cup ({d} \cap Existing)
      BY <1>1, <2>2 DEF Link
    <3>2. Existing' \subseteq Existing
      BY <1>1, <3>1 DEF Existing, Exists
    <3> QED
      BY <1>1, <3>1, <3>2, LinksMoved
  <2> QED
    BY <2>1, <2>2
<1>2. CASE CreateUser(u, r, d) \/ InviteUser(u, r, d)
  <2>1. Link(departments, u, d) /\ UNCHANGED <<req, renamed>>
    BY <1>2 DEF CreateUser, InviteUser
  <2> QED
    BY <1>1, <2>1 DEF DepartmentFacts
<1>3. CASE UpdateUser(u, r, d)
  <2>0. CASE UNCHANGED <<departments, unchecked>>
    BY <1>3, <2>0, LinksMoved DEF UpdateUser, DepartmentFacts, Existing, Exists
  <2>1. CASE Link(Unlinked(u), u, d)
    <3>1. UNCHANGED <<req, renamed>>
      BY <1>3 DEF UpdateUser
    <3>2. Unlinked(u) = [e \in DepartmentIds |-> Unlinked(u)[e]]
      BY DEF Unlinked
    <3>3. \A e \in DepartmentIds : departments[e] = Null => Unlinked(u)[e] = Null
      BY DEF Unlinked, Exists
    <3>4. ASSUME NEW e \in Existing
          PROVE  /\ Unlinked(u)[e] \in DepartmentRow
                 /\ Unlinked(u)[e].name = departments[e].name
                 /\ Unlinked(u)[e].reviewer \in {departments[e].reviewer, Null}
      BY <3>4 DEF Unlinked, DepartmentFacts, DepartmentRow, Existing
    <3> HIDE DEF Unlinked
    <3> QED
      BY <1>1, <2>1, <3>1, <3>2, <3>3, <3>4
  <2> QED
    BY <1>3, <2>0, <2>1 DEF UpdateUser
<1> QED
  BY <1>2, <1>3

\* What other areas have under way is neither a create nor an update of a department.
LEMMA DepartmentsElsewhere ==
  ASSUME DepartmentInv, [Next]_vars, ~DepartmentStep
  PROVE  DepartmentFacts' /\ NamesChecked' /\ ReviewersReview' /\ TwinsOverlap'
<1>1. Remembers /\ UNCHANGED departmentVars
  BY PeopledStep DEF DepartmentInv, Next, vars, PolicyStep, AuditStep, IncidentStep, VendorStep,
     TenantStep, RoleStep
<1>2. UNCHANGED req \/ Moved({"generate_report"}) \/ Moved({"analyze_contract"})
  BY RequestAreas DEF DepartmentInv, DepartmentFacts
<1>3. req' = [r \in Requests |-> req'[r]]
  BY <1>2 DEF DepartmentInv, DepartmentFacts, Moved
<1>4. ASSUME NEW r \in Requests
      PROVE  req'[r] = req[r] \/ req'[r].at \in {"idle", "generate_report", "analyze_contract"}
  BY <1>2 DEF Moved
<1>5. ASSUME NEW r \in Requests, req'[r].at \in {"idle", "generate_report", "analyze_contract"}
      PROVE  Carried(req[r])'
  BY <1>5 DEF Carried
<1> QED
  BY <1>1, <1>3, <1>4, <1>5, RequestsMoved

LEMMA DepartmentInvariant == Spec => []DepartmentInv
<1>1. Init => DepartmentInv
  <2> SUFFICES ASSUME Init PROVE DepartmentInv
    OBVIOUS
  <2>1. Existing = {} /\ departments = [d \in DepartmentIds |-> Null]
    BY DEF Init, DepartmentInit, Existing, Exists
  <2>2. Idle.at = "idle" /\ req = [r \in Requests |-> Idle]
    BY DEF Idle, Init, InboxInit
  <2>3. \A r \in Requests : Carried(req[r])
    BY <2>2 DEF Carried
  <2> QED
    BY <2>1, <2>2, <2>3, PeopledInit DEF DepartmentInv, DepartmentFacts, NamesChecked,
       ReviewersReview, TwinsOverlap
<1>2. DepartmentInv /\ [Next]_vars => DepartmentInv'
  <2> SUFFICES ASSUME DepartmentInv, [Next]_vars PROVE DepartmentInv'
    OBVIOUS
  <2>1. Peopled' /\ Remembers
    BY PeopledStep DEF DepartmentInv
  <2>2. CASE DepartmentStep
    <3>1. CASE \E r \in Requests :
                 \/ \E name \in Names : CreateRead(r, name)
                 \/ \E name \in Names \cup {Null}, u \in Accounts \cup {Null} :
                      UpdateRead(r, name, u)
      BY <2>1, <3>1, DepartmentChecks, DepartmentAssumption DEF DepartmentInv
    <3>2. CASE \E r \in Requests : DepartmentRefused(r)
      BY <2>1, <3>2, DepartmentChecks DEF DepartmentInv
    <3>3. CASE \/ \E r \in Requests, d \in DepartmentIds : CreateCommit(r, d) \/ UpdateCommit(r, d)
               \/ \E d \in DepartmentIds, active \in BOOLEAN :
                    ToggleDepartmentStatus(d, active)
      BY <2>1, <3>3, DepartmentWrites DEF DepartmentInv
    <3>4. CASE \E u \in Accounts, d \in DepartmentIds \cup {Null}, r \in RoleNames :
                 CreateUser(u, r, d) \/ InviteUser(u, r, d) \/ UpdateUser(u, r, d)
      BY <2>1, <3>4, DepartmentLinks DEF DepartmentInv
    <3> QED
      BY <2>2, <3>1, <3>2, <3>3, <3>4 DEF DepartmentStep, DepartmentNext
  <2>3. CASE ~DepartmentStep
    BY <2>1, <2>3, DepartmentsElsewhere DEF DepartmentInv
  <2> QED
    BY <2>2, <2>3
<1> QED
  BY <1>1, <1>2, PTL DEF Spec

\* For every interleaving of checks, writes and role changes, whoever reviews a
\* department has been a Department Reviewer, or was linked by user management
\* (update_department, users.py).
THEOREM ReviewersSafe == Spec => []ReviewersReview
<1>1. DepartmentInv => ReviewersReview
  BY DEF DepartmentInv
<1> QED
  BY <1>1, DepartmentInvariant, PTL

\* For every interleaving, departments share a name only after a rename, or by
\* creations that overlapped (create_department).
THEOREM TwinsSafe == Spec => []TwinsOverlap
<1>1. DepartmentInv => TwinsOverlap
  BY DEF DepartmentInv
<1> QED
  BY <1>1, DepartmentInvariant, PTL

(***************************************************************************)
(* Audit reports                                                           *)
(***************************************************************************)
\* What a committed report rests on: the observations that were closed are closed still,
\* and its count, once there is one, has counted them.
Kept(row) ==
  /\ row = [closed |-> row.closed, counted |-> row.counted]
  /\ \A o \in DOMAIN row.closed : o \in Closed /\ observations[o] = row.closed[o]
  /\ row.counted # Null => row.counted >= Cardinality(DOMAIN row.closed)

ReportFacts ==
  /\ req = [r \in Requests |-> req[r]]
  /\ reports = [x \in ReportIds |-> reports[x]]
  /\ observations = [o \in ObservationIds |-> observations[o]]
  /\ IsFiniteSet(Observed)
  /\ \A x \in ReportIds : reports[x] # Null => Kept(reports[x])
  /\ \A r \in Requests : req[r].at = "generate_report" =>
       req[r].report \in ReportIds /\ Kept(reports[req[r].report])

\* Observations that are edited, added or deleted, if no closed one is.
LEMMA ClosedStays ==
  ASSUME ReportFacts, NEW o \in ObservationIds, NEW row, o \notin Closed,
         observations' = [observations EXCEPT ![o] = row], UNCHANGED <<req, reports>>
  PROVE  ReportFacts'
<1>1. observations' = [p \in ObservationIds |-> IF p = o THEN row ELSE observations[p]]
  BY DEF ReportFacts
<1>2. Observed' \subseteq Observed \cup {o}
  BY <1>1 DEF Observed
<1>3. IsFiniteSet(Observed')
  BY <1>2, FS_AddElement, FS_Subset DEF ReportFacts
<1>4. \A p \in Closed : p \in Closed' /\ observations'[p] = observations[p]
  BY <1>1 DEF Closed, Observed
<1>5. ASSUME NEW r, Kept(r) PROVE Kept(r)'
  BY <1>4, <1>5 DEF Kept
<1> QED
  BY <1>1, <1>3, <1>5 DEF ReportFacts

LEMMA ReportFactsStep ==
  ASSUME ReportFacts, AuditStep
  PROVE  ReportFacts'
<1>1. CASE \E a \in Accounts, o \in ObservationIds :
             \/ CreateObservation(a, o) \/ DeleteObservation(a, o)
             \/ \E status \in ObservationStatuses : UpdateObservation(a, o, status)
  <2>1. PICK a \in Accounts, o \in ObservationIds :
             \/ CreateObservation(a, o) \/ DeleteObservation(a, o)
             \/ \E status \in ObservationStatuses : UpdateObservation(a, o, status)
    BY <1>1
  <2>2. UNCHANGED <<req, reports>>
    BY <2>1 DEF CreateObservation, DeleteObservation, UpdateObservation, inboxVars
  <2>3. CASE CreateObservation(a, o)
    <3>1. o \notin Closed /\ observations' = [observations EXCEPT ![o] = [author |-> a, status |-> "open"]]
      BY <2>3 DEF CreateObservation, Closed
    <3> QED
      BY <2>2, <3>1, ClosedStays
  <2>4. CASE DeleteObservation(a, o)
    <3>1. o \notin Closed /\ observations' = [observations EXCEPT ![o] = Null]
      BY <2>4 DEF DeleteObservation, Deletable, Closed
    <3> QED
      BY <2>2, <3>1, ClosedStays
  <2>5. ASSUME NEW status \in ObservationStatuses, UpdateObservation(a, o, status)
        PROVE  ReportFacts'
    <3>1. o \notin Closed
          /\ observations' = [observations EXCEPT ![o] = [observations[o] EXCEPT !.status = status]]
      BY <2>5 DEF UpdateObservation, Editable
    <3> QED
      BY <2>2, <3>1, ClosedStays
  <2> QED
    BY <2>1, <2>3, <2>4, <2>5
<1>2. ASSUME NEW r \in Requests, NEW a \in Accounts, NEW x \in ReportIds, CreateAuditReport(r, a, x)
      PROVE  ReportFacts'
  <2> DEFINE row == [closed |-> [o \in Closed |-> observations[o]], counted |-> Null]
             q == [at |-> "generate_report", report |-> x]
  <2>1. /\ reports' = [reports EXCEPT ![x] = row] /\ observations' = observations
        /\ req' = [req EXCEPT ![r] = q] /\ req[r] = Idle
    BY <1>2 DEF CreateAuditReport, Start
  <2>2. Kept(row) /\ q.report = x
    BY DEF Kept
  <2> HIDE DEF row, q
  <2>3. reports' = [y \in ReportIds |-> IF y = x THEN row ELSE reports[y]]
        /\ req' = [s \in Requests |-> IF s = r THEN q ELSE req[s]]
    BY <2>1 DEF ReportFacts
  <2>4. ASSUME NEW k, Kept(k) PROVE Kept(k)'
    BY <2>1, <2>4 DEF Kept, Closed, Observed
  <2>5. \A y \in ReportIds : Kept(reports[y]) => Kept(reports'[y])
    BY <2>2, <2>3
  <2>6. \A y \in ReportIds : reports'[y] # Null => Kept(reports'[y])
    BY <2>2, <2>3 DEF ReportFacts
  <2>7. \A s \in Requests : req'[s].at = "generate_report" =>
          req'[s].report \in ReportIds /\ Kept(reports'[req'[s].report])
    BY <2>2, <2>3, <2>5 DEF ReportFacts
  <2> QED
    BY <2>1, <2>3, <2>4, <2>6, <2>7 DEF ReportFacts, Observed
<1>3. ASSUME NEW r \in Requests, SummarizeReport(r)
      PROVE  ReportFacts'
  <2> DEFINE x == req[r].report
             row == [reports[x] EXCEPT !.counted = Cardinality(Observed)]
  <2>1. /\ req[r].at = "generate_report" /\ observations' = observations
        /\ reports' = [reports EXCEPT ![x].counted = Cardinality(Observed)]
        /\ req' = [req EXCEPT ![r] = Idle]
    BY <1>3 DEF SummarizeReport, Finish
  <2>2. x \in ReportIds /\ Kept(reports[x])
    BY <2>1 DEF ReportFacts
  <2>3. Cardinality(Observed) >= Cardinality(DOMAIN reports[x].closed)
    <3>1. DOMAIN reports[x].closed \subseteq Observed
      BY <2>2 DEF Kept, Closed
    <3> QED
      BY <3>1, FS_Subset, FS_CardinalityType DEF ReportFacts
  <2>4. Kept(row)
    <3>1. row = [closed |-> reports[x].closed, counted |-> Cardinality(Observed)]
      BY <2>2 DEF Kept
    <3> QED
      BY <2>2, <2>3, <3>1 DEF Kept
  <2>5. reports' = [y \in ReportIds |-> IF y = x THEN row ELSE reports[y]]
        /\ req' = [s \in Requests |-> IF s = r THEN Idle ELSE req[s]]
    BY <2>1, <2>2 DEF ReportFacts
  <2>6. Idle.at = "idle"
    BY DEF Idle
  <2> HIDE DEF row, x
  <2>7. ASSUME NEW k, Kept(k) PROVE Kept(k)'
    BY <2>1, <2>7 DEF Kept, Closed, Observed
  <2>8. \A y \in ReportIds : Kept(reports[y]) => Kept(reports'[y])
    BY <2>4, <2>5
  <2>9. \A y \in ReportIds : reports'[y] # Null => Kept(reports'[y])
    BY <2>4, <2>5 DEF ReportFacts
  <2>10. \A s \in Requests : req'[s].at = "generate_report" =>
           req'[s].report \in ReportIds /\ Kept(reports'[req'[s].report])
    BY <2>5, <2>6, <2>8 DEF ReportFacts
  <2> QED
    BY <2>1, <2>5, <2>7, <2>9, <2>10 DEF ReportFacts, Observed
<1> QED
  BY <1>1, <1>2, <1>3 DEF AuditStep, AuditNext

\* What other areas have under way is not the generation of a report.
LEMMA ReportFactsElsewhere ==
  ASSUME ReportFacts, [Next]_vars, ~AuditStep
  PROVE  ReportFacts'
<1>1. UNCHANGED <<observations, reports>>
  BY DEF Next, vars, auditVars, PolicyStep, DepartmentStep, IncidentStep, VendorStep, TenantStep, RoleStep
<1>2. UNCHANGED req \/ Moved({"create_department", "update_department"}) \/ Moved({"analyze_contract"})
  BY RequestAreas DEF ReportFacts
<1>3. /\ req' = [r \in Requests |-> req'[r]]
      /\ \A r \in Requests : req'[r].at = "generate_report" => req'[r] = req[r]
  BY <1>2 DEF ReportFacts, Moved
<1>4. ASSUME NEW k, Kept(k) PROVE Kept(k)'
  BY <1>1, <1>4 DEF Kept, Closed, Observed
<1>5. Observed' = Observed
  BY <1>1 DEF Observed
<1> QED
  BY <1>1, <1>3, <1>4, <1>5 DEF ReportFacts

LEMMA ReportInvariant == Spec => []ReportFacts
<1>1. Init => ReportFacts
  <2> SUFFICES ASSUME Init PROVE ReportFacts
    OBVIOUS
  <2>1. /\ observations = [o \in ObservationIds |-> Null] /\ reports = [x \in ReportIds |-> Null]
        /\ req = [r \in Requests |-> Idle] /\ Observed = {}
    BY DEF Init, AuditInit, InboxInit, Observed
  <2>2. Idle.at = "idle"
    BY DEF Idle
  <2> QED
    BY <2>1, <2>2, FS_EmptySet DEF ReportFacts
<1>2. ReportFacts /\ [Next]_vars => ReportFacts'
  BY ReportFactsStep, ReportFactsElsewhere
<1> QED
  BY <1>1, <1>2, PTL DEF Spec

\* For every number of observations and reports, what was closed when a report was
\* generated is counted in it and shown by it, unchanged, ever after
\* (update_observation, delete_observation, generate_report, get_report).
THEOREM ReportsSafe == Spec => []ReportsKeepClosed
<1>1. ReportFacts => ReportsKeepClosed
  BY DEF ReportFacts, Kept, Closed, ReportsKeepClosed, Shown
<1> QED
  BY <1>1, ReportInvariant, PTL

(***************************************************************************)
(* Contract analyses                                                       *)
(***************************************************************************)
AnalysisFacts ==
  /\ req = [r \in Requests |-> req[r]]
  /\ risks = [x \in RiskIds |-> risks[x]]
  /\ asked \in [VendorIds -> Nat] /\ unanswered \in [VendorIds -> Nat]
  /\ \A r \in UnderWay("analyze_contract") : req[r].vendor \in VendorIds
  /\ AnalysesAccounted

\* What is counted is finite.
LEMMA CountsFinite ==
  ASSUME NEW v
  PROVE  IsFiniteSet(Analyses(v)) /\ IsFiniteSet(Waiting(v))
<1>1. Analyses(v) \subseteq RiskIds /\ Waiting(v) \subseteq Requests
  BY DEF Analyses, Assessed, Waiting, UnderWay
<1> QED
  BY <1>1, FiniteAssumption, FS_Subset

\* A request that has an answer, or has given up, stops waiting.
LEMMA WaitingEnds ==
  ASSUME AnalysisFacts, NEW r \in Requests, NEW v, req[r].vendor = v, req[r].at = "analyze_contract", Finish(r)
  PROVE  /\ req' = [s \in Requests |-> req'[s]]
         /\ v \in VendorIds
         /\ \A s \in UnderWay("analyze_contract")' : s \in UnderWay("analyze_contract") /\ req'[s] = req[s]
         /\ Cardinality(Waiting(v)') = Cardinality(Waiting(v)) - 1
         /\ \A w \in VendorIds \ {v} : Waiting(w)' = Waiting(w)
<1>1. req' = [s \in Requests |-> IF s = r THEN Idle ELSE req[s]]
  BY DEF AnalysisFacts, Finish
<1>2. Idle.at # "analyze_contract"
  BY DEF Idle
<1>3. \A s \in Requests :
        req'[s].at = "analyze_contract" <=> s # r /\ req[s].at = "analyze_contract"
  BY <1>1, <1>2
<1>4. \A s \in Requests \ {r} : req'[s] = req[s]
  BY <1>1
<1>5. Waiting(v)' = Waiting(v) \ {r} /\ r \in Waiting(v)
  BY <1>3, <1>4 DEF Waiting, UnderWay
<1>6. \A w \in VendorIds \ {v} : Waiting(w)' = Waiting(w)
  BY <1>3, <1>4 DEF Waiting, UnderWay
<1>7. Cardinality(Waiting(v)') = Cardinality(Waiting(v)) - 1
  BY <1>5, CountsFinite, FS_RemoveElement
<1> QED
  BY <1>1, <1>3, <1>4, <1>6, <1>7 DEF AnalysisFacts, UnderWay

LEMMA AnalysisFactsStep ==
  ASSUME AnalysisFacts, VendorStep
  PROVE  AnalysisFacts'
<1> USE DEF AnalysisFacts
<1>0. ASSUME NEW v PROVE Cardinality(Analyses(v)) \in Nat /\ Cardinality(Waiting(v)) \in Nat
  BY CountsFinite, FS_CardinalityType
<1>1. ASSUME NEW x \in RiskIds, x \notin Assessed, NEW v \in VendorIds, NEW source \in {"manual", "analysis"},
             risks' = [risks EXCEPT ![x] = [vendor |-> v, source |-> source]]
      PROVE  /\ risks' = [y \in RiskIds |-> risks'[y]]
             /\ \A w \in VendorIds :
                  Analyses(w)' = IF w = v /\ source = "analysis" THEN Analyses(w) \cup {x} ELSE Analyses(w)
  <2> DEFINE row == [vendor |-> v, source |-> source]
  <2>1. risks' = [y \in RiskIds |-> IF y = x THEN row ELSE risks[y]]
    BY <1>1
  <2>2. row # Null /\ risks[x] = Null
    BY <1>1, VendorAssumption DEF Assessed
  <2>3. \A w \in VendorIds : row = [vendor |-> w, source |-> "analysis"] <=> w = v /\ source = "analysis"
    OBVIOUS
  <2> HIDE DEF row
  <2>4. Assessed' = Assessed \cup {x} /\ \A y \in Assessed : risks'[y] = risks[y]
    BY <1>1, <2>1, <2>2 DEF Assessed
  <2>5. risks'[x] = row
    BY <2>1
  <2> QED
    BY <1>1, <2>1, <2>3, <2>4, <2>5 DEF Analyses
<1>2. ASSUME NEW a, NEW v, CreateVendor(a, v)
      PROVE  AnalysisFacts'
  BY <1>2 DEF CreateVendor, inboxVars, AnalysesAccounted, Analyses, Assessed, Waiting, UnderWay
<1>3. ASSUME NEW a, NEW v \in VendorIds, NEW x \in RiskIds, CreateRiskAssessment(a, v, x)
      PROVE  AnalysisFacts'
  <2>1. /\ UNCHANGED <<req, asked, unanswered>> /\ x \notin Assessed
        /\ risks' = [risks EXCEPT ![x] = [vendor |-> v, source |-> "manual"]]
    BY <1>3 DEF CreateRiskAssessment
  <2>2. risks' = [y \in RiskIds |-> risks'[y]] /\ \A w \in VendorIds : Analyses(w)' = Analyses(w)
    BY <1>1, <2>1
  <2>3. \A w \in VendorIds : Waiting(w)' = Waiting(w)
    BY <2>1 DEF Waiting, UnderWay
  <2> QED
    BY <2>1, <2>2, <2>3 DEF AnalysesAccounted, UnderWay
<1>4. ASSUME NEW r \in Requests, NEW a, NEW v \in VendorIds, AnalyzeContract(r, a, v)
      PROVE  AnalysisFacts'
  <2> DEFINE q == [at |-> "analyze_contract", vendor |-> v]
  <2>1. /\ UNCHANGED <<risks, unanswered>> /\ asked' = [asked EXCEPT ![v] = @ + 1]
        /\ req[r] = Idle /\ req' = [req EXCEPT ![r] = q]
    BY <1>4 DEF AnalyzeContract, Start
  <2>2. q.at = "analyze_contract" /\ q.vendor = v /\ req[r].at # "analyze_contract"
    BY <2>1 DEF Idle
  <2> HIDE DEF q
  <2>3. req' = [s \in Requests |-> IF s = r THEN q ELSE req[s]]
    BY <2>1
  <2>4. /\ Waiting(v)' = Waiting(v) \cup {r} /\ r \notin Waiting(v)
        /\ \A w \in VendorIds \ {v} : Waiting(w)' = Waiting(w)
    BY <2>2, <2>3 DEF Waiting, UnderWay
  <2>5. \A w \in VendorIds : Analyses(w)' = Analyses(w)
    BY <2>1 DEF Analyses, Assessed
  <2>6. Cardinality(Waiting(v)') = Cardinality(Waiting(v)) + 1
    BY <2>4, CountsFinite, FS_AddElement
  <2>7. ASSUME NEW w \in VendorIds
        PROVE  asked'[w] = Cardinality(Analyses(w)') + Cardinality(Waiting(w)') + unanswered'[w]
    <3>1. CASE w = v
      BY <1>0, <2>1, <2>5, <2>6, <3>1 DEF AnalysesAccounted
    <3>2. CASE w # v
      BY <2>1, <2>4, <2>5, <3>2 DEF AnalysesAccounted
    <3> QED
      BY <3>1, <3>2
  <2>8. AnalysesAccounted'
    BY <2>7 DEF AnalysesAccounted
  <2>9. \A s \in UnderWay("analyze_contract")' : req'[s].vendor \in VendorIds
    BY <2>2, <2>3 DEF UnderWay
  <2> QED
    BY <2>1, <2>3, <2>8, <2>9
<1>5. ASSUME NEW r \in Requests, NEW x \in RiskIds, AnalysisAnswered(r, x)
      PROVE  AnalysisFacts'
  <2>1. PICK v : v = req[r].vendor
    OBVIOUS
  <2>2. /\ req[r].at = "analyze_contract" /\ x \notin Assessed /\ Finish(r)
        /\ risks' = [risks EXCEPT ![x] = [vendor |-> v, source |-> "analysis"]]
        /\ UNCHANGED <<asked, unanswered>>
    BY <1>5, <2>1 DEF AnalysisAnswered
  <2>3. v \in VendorIds
    BY <2>1, <2>2 DEF UnderWay
  <2>4. /\ risks' = [y \in RiskIds |-> risks'[y]] /\ Analyses(v)' = Analyses(v) \cup {x}
        /\ \A w \in VendorIds \ {v} : Analyses(w)' = Analyses(w)
    BY <1>1, <2>2, <2>3
  <2>5. x \notin Analyses(v)
    BY <2>2 DEF Analyses
  <2>6. Cardinality(Analyses(v)') = Cardinality(Analyses(v)) + 1
    BY <2>4, <2>5, CountsFinite, FS_AddElement
  <2>7. ASSUME NEW w \in VendorIds
        PROVE  asked'[w] = Cardinality(Analyses(w)') + Cardinality(Waiting(w)') + unanswered'[w]
    <3>1. CASE w = v
      BY <1>0, <2>1, <2>2, <2>6, <3>1, WaitingEnds DEF AnalysesAccounted
    <3>2. CASE w # v
      BY <2>1, <2>2, <2>4, <3>2, WaitingEnds DEF AnalysesAccounted
    <3> QED
      BY <3>1, <3>2
  <2>8. AnalysesAccounted'
    BY <2>7 DEF AnalysesAccounted
  <2> QED
    BY <2>1, <2>2, <2>4, <2>8, WaitingEnds DEF UnderWay
<1>6. ASSUME NEW r \in Requests, AnalysisFailed(r)
      PROVE  AnalysisFacts'
  <2>1. PICK v : v = req[r].vendor
    OBVIOUS
  <2>2. /\ req[r].at = "analyze_contract" /\ Finish(r) /\ UNCHANGED <<asked, risks>>
        /\ unanswered' = [unanswered EXCEPT ![v] = @ + 1]
    BY <1>6, <2>1 DEF AnalysisFailed, NothingSaved
  <2>3. v \in VendorIds
    BY <2>1, <2>2 DEF UnderWay
  <2>4. \A w \in VendorIds : Analyses(w)' = Analyses(w)
    BY <2>2 DEF Analyses, Assessed
  <2>5. ASSUME NEW w \in VendorIds
        PROVE  asked'[w] = Cardinality(Analyses(w)') + Cardinality(Waiting(w)') + unanswered'[w]
    <3>1. CASE w = v
      BY <1>0, <2>1, <2>2, <2>4, <3>1, WaitingEnds DEF AnalysesAccounted
    <3>2. CASE w # v
      BY <2>1, <2>2, <2>4, <3>2, WaitingEnds DEF AnalysesAccounted
    <3> QED
      BY <3>1, <3>2
  <2>6. AnalysesAccounted'
    BY <2>5 DEF AnalysesAccounted
  <2> QED
    BY <2>1, <2>2, <2>3, <2>6, WaitingEnds DEF UnderWay
<1> QED
  BY <1>2, <1>3, <1>4, <1>5, <1>6 DEF VendorStep, VendorNext

LEMMA AnalysisInvariant == Spec => []AnalysisFacts
<1>1. Init => AnalysisFacts
  <2> SUFFICES ASSUME Init PROVE AnalysisFacts
    OBVIOUS
  <2>1. /\ risks = [x \in RiskIds |-> Null] /\ req = [r \in Requests |-> Idle]
        /\ asked = [v \in VendorIds |-> 0] /\ unanswered = asked
    BY DEF Init, VendorInit, InboxInit
  <2>2. UnderWay("analyze_contract") = {} /\ Assessed = {}
    BY <2>1 DEF UnderWay, Assessed, Idle
  <2>3. \A v \in VendorIds : Analyses(v) = {} /\ Waiting(v) = {}
    BY <2>2 DEF Analyses, Waiting
  <2> QED
    BY <2>1, <2>2, <2>3, FS_EmptySet DEF AnalysisFacts, AnalysesAccounted
<1>2. AnalysisFacts /\ [Next]_vars => AnalysisFacts'
  <2> SUFFICES ASSUME AnalysisFacts, [Next]_vars, ~VendorStep PROVE AnalysisFacts'
    BY AnalysisFactsStep
  <2>1. UNCHANGED vendorVars
    BY DEF Next, vars, PolicyStep, DepartmentStep, AuditStep, IncidentStep, TenantStep, RoleStep
  <2>2. UNCHANGED req \/ Moved({"create_department", "update_department"}) \/ Moved({"generate_report"})
    BY RequestAreas DEF AnalysisFacts
  <2>3. /\ req' = [r \in Requests |-> req'[r]]
        /\ \A r \in Requests : "analyze_contract" \in {req[r].at, req'[r].at} => req'[r] = req[r]
    BY <2>2 DEF AnalysisFacts, Moved
  <2>4. UnderWay("analyze_contract")' = UnderWay("analyze_contract")
    BY <2>3 DEF UnderWay
  <2>5. \A v \in VendorIds : Waiting(v)' = Waiting(v) /\ Analyses(v)' = Analyses(v)
    BY <2>1, <2>3 DEF Waiting, UnderWay, Analyses, Assessed, vendorVars
  <2> QED
    BY <2>1, <2>3, <2>4, <2>5 DEF AnalysisFacts, AnalysesAccounted, vendorVars, UnderWay
<1> QED
  BY <1>1, <1>2, PTL DEF Spec

\* For every number of requests and vendors, an analysis asked for is waiting, was given
\* up, or has exactly one assessment (analyze_contract, forward_to_ai_service).
THEOREM AnalysesSafe == Spec => []AnalysesAccounted
<1>1. AnalysisFacts => AnalysesAccounted
  BY DEF AnalysisFacts
<1> QED
  BY <1>1, AnalysisInvariant, PTL

(***************************************************************************)
(* Deletion and seeding.  The tables are known, so what a foreign key allows   *)
(* at a statement is a question about the orders in which the code names     *)
(* them; what the rows refer to is not, and these proofs hold for any         *)
(* references.                                                              *)
(***************************************************************************)
LEMMA AreaTables ==
  /\ DOMAIN AccountParents = {"users", "password_reset_tokens", "user_sessions",
                              "role_assumption_sessions", "departments"}
  /\ DOMAIN ComplianceParents = {"control_assignments", "assessments", "assessment_responses",
                                 "compliance_results", "compliance_gaps"}
  /\ DOMAIN WorkParents = {"mitigation_tasks", "evidence_documents"}
  /\ DOMAIN RegisterParents = {"incidents", "incident_timeline", "vendors",
                               "vendor_risk_assessments", "generated_policies"}
  /\ DOMAIN TrailParents = {"audit_observations", "audit_reports", "compliance_calendar",
                            "notifications", "audit_logs", "ai_conversations"}
  BY DEF AccountParents, ComplianceParents, WorkParents, RegisterParents, TrailParents

LEMMA ReferringTables ==
  /\ DOMAIN Parents = Referring
  /\ Referring = {"users", "password_reset_tokens", "user_sessions", "role_assumption_sessions",
                  "departments", "control_assignments", "assessments", "assessment_responses",
                  "compliance_results", "compliance_gaps", "mitigation_tasks", "evidence_documents",
                  "incidents", "incident_timeline", "vendors", "vendor_risk_assessments",
                  "generated_policies", "audit_observations", "audit_reports",
                  "compliance_calendar", "notifications", "audit_logs", "ai_conversations"}
  BY AreaTables DEF Parents, Referring

LEMMA ParentsOf ==
  ASSUME NEW t \in Referring
  PROVE  Parents[t] =
    CASE t = "users" -> {"institutions"}
      [] t \in {"password_reset_tokens", "user_sessions"} -> {"users"}
      [] t = "assessment_responses" -> {"assessments", "users"}
      [] t = "incident_timeline" -> {"incidents", "users"}
      [] t \in {"compliance_results", "compliance_gaps"} -> {"institutions", "assessments"}
      [] t = "control_assignments" -> {"institutions", "users", "departments"}
      [] t = "vendor_risk_assessments" -> {"vendors", "institutions", "users"}
      [] t = "mitigation_tasks" ->
           {"institutions", "compliance_gaps", "control_assignments", "users", "departments"}
      [] t = "evidence_documents" -> {"institutions", "control_assignments", "departments", "users"}
      [] t = "audit_observations" -> {"institutions", "assessments", "evidence_documents", "users"}
      [] t = "audit_reports" -> {"institutions", "assessments", "users"}
      [] OTHER -> {"institutions", "users"}
<1>1. CASE t \in DOMAIN AccountParents
  BY <1>1, AreaTables DEF Parents, AccountParents, Referring
<1>2. CASE t \in DOMAIN ComplianceParents
  BY <1>2, AreaTables DEF Parents, ComplianceParents, Referring
<1>3. CASE t \in DOMAIN WorkParents
  BY <1>3, AreaTables DEF Parents, WorkParents, Referring
<1>4. CASE t \in DOMAIN RegisterParents
  BY <1>4, AreaTables DEF Parents, RegisterParents, Referring
<1>5. CASE t \in DOMAIN TrailParents
  BY <1>5, AreaTables DEF Parents, TrailParents, Referring
<1> QED
  BY <1>1, <1>2, <1>3, <1>4, <1>5 DEF Referring

\* What refers to a table without ON DELETE CASCADE.
LEMMA RestrictingChildren ==
  ASSUME NEW c \in Referring, NEW t \in Parents[c], <<c, t>> \notin Cascades
  PROVE  /\ t = "institutions" => c \notin {"password_reset_tokens", "user_sessions", "departments", "users",
                                           "control_assignments", "assessment_responses", "incident_timeline"}
         /\ t = "users" => c \notin {"users", "password_reset_tokens", "user_sessions", "compliance_results",
                                     "compliance_gaps"}
         /\ t = "departments" => c \in {"control_assignments", "mitigation_tasks", "evidence_documents"}
         /\ t = "assessments" => c \in {"compliance_results", "compliance_gaps", "audit_observations",
                                        "audit_reports"}
         /\ t = "compliance_gaps" => c = "mitigation_tasks"
         /\ t = "control_assignments" => c \in {"mitigation_tasks", "evidence_documents"}
         /\ t = "vendors" => c = "vendor_risk_assessments"
         /\ t = "evidence_documents" => c = "audit_observations"
         /\ t # "incidents"
         /\ t \in {"institutions", "users", "departments", "assessments", "compliance_gaps",
                   "control_assignments", "vendors", "evidence_documents"}
  BY ParentsOf, ReferringTables DEF Cascades

(***************************************************************************)
(* The statement of the transaction that empties a table for good: its own,   *)
(* or that of the table it is deleted with.                                 *)
(***************************************************************************)
DeletedAt == [t \in Tables |->
  CASE t = "role_assumption_sessions" -> 1
    [] t = "mitigation_tasks" -> 2
    [] t = "evidence_documents" -> 3
    [] t = "audit_observations" -> 4
    [] t = "audit_reports" -> 5
    [] t = "compliance_gaps" -> 6
    [] t \in {"incidents", "incident_timeline"} -> 7
    [] t = "vendor_risk_assessments" -> 8
    [] t = "vendors" -> 9
    [] t = "generated_policies" -> 10
    [] t = "compliance_calendar" -> 11
    [] t = "compliance_results" -> 12
    [] t \in {"assessments", "assessment_responses"} -> 13
    [] t = "control_assignments" -> 14
    [] t = "notifications" -> 15
    [] t = "ai_conversations" -> 16
    [] t = "audit_logs" -> 17
    [] t = "departments" -> 18
    [] t \in {"users", "user_sessions", "password_reset_tokens"} -> 19
    [] OTHER -> 20]

ClearedAt == [t \in Tables |->
  CASE t = "ai_conversations" -> 1
    [] t = "audit_logs" -> 2
    [] t = "notifications" -> 3
    [] t = "compliance_calendar" -> 4
    [] t = "audit_reports" -> 5
    [] t = "audit_observations" -> 6
    [] t = "generated_policies" -> 7
    [] t = "vendor_risk_assessments" -> 8
    [] t = "vendors" -> 9
    [] t = "incident_timeline" -> 10
    [] t = "incidents" -> 11
    [] t = "evidence_documents" -> 12
    [] t = "mitigation_tasks" -> 13
    [] t = "compliance_gaps" -> 14
    [] t = "compliance_results" -> 15
    [] t = "assessment_responses" -> 16
    [] t = "assessments" -> 17
    [] t = "control_assignments" -> 18
    [] t = "role_assumption_sessions" -> 19
    [] t = "user_sessions" -> 20
    [] t = "password_reset_tokens" -> 21
    [] t = "departments" -> 22
    [] t = "users" -> 23
    [] OTHER -> 24]

LEMMA DeletionAt ==
  /\ Len(DeletionOrder) = 20
  /\ \A k \in 1 .. 20 : DeletionOrder[k] \in Tables /\ DeletedAt[DeletionOrder[k]] = k
  /\ \A t \in Tables : DeletedAt[t] \in 1 .. 20
  /\ \A t \in Tables :
       \/ DeletionOrder[DeletedAt[t]] = t
       \/ /\ t \in Referring /\ DeletionOrder[DeletedAt[t]] \in Parents[t]
          /\ <<t, DeletionOrder[DeletedAt[t]]>> \in Cascades
<1>1. Len(DeletionOrder) = 20
  BY DEF DeletionOrder, WorkTables
<1>2. /\ DeletionOrder[1] = "role_assumption_sessions" /\ DeletionOrder[2] = "mitigation_tasks"
      /\ DeletionOrder[3] = "evidence_documents" /\ DeletionOrder[4] = "audit_observations"
      /\ DeletionOrder[5] = "audit_reports" /\ DeletionOrder[6] = "compliance_gaps"
      /\ DeletionOrder[7] = "incidents" /\ DeletionOrder[8] = "vendor_risk_assessments"
      /\ DeletionOrder[9] = "vendors" /\ DeletionOrder[10] = "generated_policies"
      /\ DeletionOrder[11] = "compliance_calendar" /\ DeletionOrder[12] = "compliance_results"
      /\ DeletionOrder[13] = "assessments" /\ DeletionOrder[14] = "control_assignments"
      /\ DeletionOrder[15] = "notifications" /\ DeletionOrder[16] = "ai_conversations"
      /\ DeletionOrder[17] = "audit_logs" /\ DeletionOrder[18] = "departments"
      /\ DeletionOrder[19] = "users" /\ DeletionOrder[20] = "institutions"
  BY DEF DeletionOrder, WorkTables
<1>3. Tables = Referring \cup {"institutions"}
  BY ReferringTables DEF Tables
<1>4. \A t \in Tables : DeletedAt[t] \in 1 .. 20
  BY DEF DeletedAt
<1>5. ASSUME NEW k \in 1 .. 20
      PROVE  DeletionOrder[k] \in Tables /\ DeletedAt[DeletionOrder[k]] = k
  <2>1. k \in {1, 2, 3, 4, 5, 6, 7, 8, 9, 10, 11, 12, 13, 14, 15, 16, 17, 18, 19, 20}
    OBVIOUS
  <2> QED
    BY <1>2, <1>3, <2>1, ReferringTables DEF DeletedAt
<1>6. ASSUME NEW t \in Tables,
             t \notin {"incident_timeline", "assessment_responses", "user_sessions", "password_reset_tokens"}
      PROVE  DeletionOrder[DeletedAt[t]] = t
  BY <1>2, <1>3, <1>6, ReferringTables DEF DeletedAt
<1>7. ASSUME NEW t \in {"incident_timeline", "assessment_responses", "user_sessions", "password_reset_tokens"}
      PROVE  /\ t \in Referring /\ DeletionOrder[DeletedAt[t]] \in Parents[t]
             /\ <<t, DeletionOrder[DeletedAt[t]]>> \in Cascades
  <2>1. t \in Referring /\ t \in Tables
    BY <1>3, ReferringTables
  <2>2. CASE t = "incident_timeline"
    BY <1>2, <2>1, <2>2, ParentsOf DEF DeletedAt, Cascades
  <2>3. CASE t = "assessment_responses"
    BY <1>2, <2>1, <2>3, ParentsOf DEF DeletedAt, Cascades
  <2>4. CASE t \in {"user_sessions", "password_reset_tokens"}
    BY <1>2, <2>1, <2>4, ParentsOf DEF DeletedAt, Cascades
  <2> QED
    BY <2>2, <2>3, <2>4
<1> QED
  BY <1>1, <1>4, <1>5, <1>6, <1>7

LEMMA DeletionAllows ==
  ASSUME NEW c \in Referring, NEW t \in Parents[c], <<c, t>> \notin Cascades,
         <<c, t>> # <<"audit_observations", "evidence_documents">>
  PROVE  c \in Tables /\ t \in Tables /\ DeletedAt[c] < DeletedAt[t]
<1>1. Tables = Referring \cup {"institutions"}
  BY ReferringTables DEF Tables
<1>2. c \in Tables /\ t \in Tables
  BY <1>1, RestrictingChildren, ReferringTables
<1> QED
  BY <1>1, <1>2, RestrictingChildren, ReferringTables DEF DeletedAt

LEMMA CleanupAt ==
  /\ Len(CleanupOrder) = 24
  /\ \A k \in 1 .. 24 : CleanupOrder[k] \in Tables /\ ClearedAt[CleanupOrder[k]] = k
  /\ \A t \in Tables : ClearedAt[t] \in 1 .. 24 /\ CleanupOrder[ClearedAt[t]] = t
<1>1. Len(CleanupOrder) = 24
  BY DEF CleanupOrder, TrailTables, RegisterTables, AccountTables
<1>2. /\ CleanupOrder[1] = "ai_conversations" /\ CleanupOrder[2] = "audit_logs"
      /\ CleanupOrder[3] = "notifications" /\ CleanupOrder[4] = "compliance_calendar"
      /\ CleanupOrder[5] = "audit_reports" /\ CleanupOrder[6] = "audit_observations"
      /\ CleanupOrder[7] = "generated_policies" /\ CleanupOrder[8] = "vendor_risk_assessments"
      /\ CleanupOrder[9] = "vendors" /\ CleanupOrder[10] = "incident_timeline"
      /\ CleanupOrder[11] = "incidents" /\ CleanupOrder[12] = "evidence_documents"
      /\ CleanupOrder[13] = "mitigation_tasks" /\ CleanupOrder[14] = "compliance_gaps"
      /\ CleanupOrder[15] = "compliance_results" /\ CleanupOrder[16] = "assessment_responses"
      /\ CleanupOrder[17] = "assessments" /\ CleanupOrder[18] = "control_assignments"
      /\ CleanupOrder[19] = "role_assumption_sessions" /\ CleanupOrder[20] = "user_sessions"
      /\ CleanupOrder[21] = "password_reset_tokens" /\ CleanupOrder[22] = "departments"
      /\ CleanupOrder[23] = "users" /\ CleanupOrder[24] = "institutions"
  BY DEF CleanupOrder, TrailTables, RegisterTables, AccountTables
<1>3. Tables = Referring \cup {"institutions"}
  BY ReferringTables DEF Tables
<1>4. \A t \in Tables : ClearedAt[t] \in 1 .. 24
  BY DEF ClearedAt
<1>5. ASSUME NEW k \in 1 .. 24
      PROVE  CleanupOrder[k] \in Tables /\ ClearedAt[CleanupOrder[k]] = k
  <2>1. k \in {1, 2, 3, 4, 5, 6, 7, 8, 9, 10, 11, 12, 13, 14, 15, 16, 17, 18, 19, 20, 21, 22, 23, 24}
    OBVIOUS
  <2> QED
    BY <1>2, <1>3, <2>1, ReferringTables DEF ClearedAt
<1>6. ASSUME NEW t \in Tables
      PROVE  CleanupOrder[ClearedAt[t]] = t
  BY <1>2, <1>3, ReferringTables DEF ClearedAt
<1> QED
  BY <1>1, <1>4, <1>5, <1>6

LEMMA CleanupAllows ==
  ASSUME NEW c \in Referring, NEW t \in Parents[c]
  PROVE  c \in Tables /\ t \in Tables /\ ClearedAt[c] < ClearedAt[t]
<1>1. Tables = Referring \cup {"institutions"}
  BY ReferringTables DEF Tables
<1>2. CASE <<c, t>> \in Cascades
  <2>1. c \in Tables /\ t \in Tables
    BY <1>1, <1>2, ReferringTables DEF Cascades
  <2> QED
    BY <1>2, <2>1 DEF ClearedAt, Cascades
<1>3. CASE <<c, t>> \notin Cascades
  <2>1. c \in Tables /\ t \in Tables
    BY <1>1, <1>3, RestrictingChildren, ReferringTables
  <2> QED
    BY <1>1, <1>3, <2>1, RestrictingChildren, ReferringTables DEF ClearedAt
<1> QED
  BY <1>2, <1>3

\* What the seed has inserted when it comes to a table.
SeededAt == [t \in Tables |->
  CASE t = "institutions" -> 1
    [] t = "users" -> 2
    [] t = "departments" -> 3
    [] t = "control_assignments" -> 4
    [] t = "assessments" -> 5
    [] t = "assessment_responses" -> 6
    [] t = "compliance_results" -> 7
    [] t = "compliance_gaps" -> 8
    [] t = "mitigation_tasks" -> 9
    [] t = "evidence_documents" -> 10
    [] t = "incidents" -> 11
    [] t = "incident_timeline" -> 12
    [] t = "vendors" -> 13
    [] t = "vendor_risk_assessments" -> 14
    [] t = "generated_policies" -> 15
    [] t = "audit_observations" -> 16
    [] t = "audit_reports" -> 17
    [] t = "compliance_calendar" -> 18
    [] t = "notifications" -> 19
    [] t = "audit_logs" -> 20
    [] t = "ai_conversations" -> 21
    [] OTHER -> 22]

LEMMA SeedAt ==
  /\ Len(SeedOrder) = 21 /\ DOMAIN SeedOrder = 1 .. 21
  /\ \A k \in 1 .. 21 : SeedOrder[k] \in Tables /\ SeededAt[SeedOrder[k]] = k
  /\ \A t \in Tables : SeededAt[t] \in 1 .. 21 => SeedOrder[SeededAt[t]] = t
<1>1. Len(SeedOrder) = 21 /\ DOMAIN SeedOrder = 1 .. 21
  BY DEF SeedOrder, SeedAccounts, SeedAssessments, SeedResults, SeedWork, SeedRegisters,
         SeedPolicies, SeedAudits, SeedTrail
<1>2. /\ SeedOrder[1] = "institutions" /\ SeedOrder[2] = "users"
      /\ SeedOrder[3] = "departments" /\ SeedOrder[4] = "control_assignments"
      /\ SeedOrder[5] = "assessments" /\ SeedOrder[6] = "assessment_responses"
      /\ SeedOrder[7] = "compliance_results" /\ SeedOrder[8] = "compliance_gaps"
      /\ SeedOrder[9] = "mitigation_tasks" /\ SeedOrder[10] = "evidence_documents"
      /\ SeedOrder[11] = "incidents" /\ SeedOrder[12] = "incident_timeline"
      /\ SeedOrder[13] = "vendors" /\ SeedOrder[14] = "vendor_risk_assessments"
      /\ SeedOrder[15] = "generated_policies" /\ SeedOrder[16] = "audit_observations"
      /\ SeedOrder[17] = "audit_reports" /\ SeedOrder[18] = "compliance_calendar"
      /\ SeedOrder[19] = "notifications" /\ SeedOrder[20] = "audit_logs"
      /\ SeedOrder[21] = "ai_conversations"
  BY DEF SeedOrder, SeedAccounts, SeedAssessments, SeedResults, SeedWork, SeedRegisters,
         SeedPolicies, SeedAudits, SeedTrail
<1>3. Tables = Referring \cup {"institutions"}
  BY ReferringTables DEF Tables
<1>4. ASSUME NEW k \in 1 .. 21
      PROVE  SeedOrder[k] \in Tables /\ SeededAt[SeedOrder[k]] = k
  <2>1. k \in {1, 2, 3, 4, 5, 6, 7, 8, 9, 10, 11, 12, 13, 14, 15, 16, 17, 18, 19, 20, 21}
    OBVIOUS
  <2> QED
    BY <1>2, <1>3, <2>1, ReferringTables DEF SeededAt
<1>5. ASSUME NEW t \in Tables, SeededAt[t] \in 1 .. 21
      PROVE  SeedOrder[SeededAt[t]] = t
  BY <1>2, <1>3, <1>5, ReferringTables DEF SeededAt
<1> QED
  BY <1>1, <1>4, <1>5

\* What a table refers to is filled before it.
LEMMA SeedAllows ==
  ASSUME NEW c \in Referring, SeededAt[c] \in 1 .. 21, NEW t \in Parents[c]
  PROVE  c \in Tables /\ t \in Tables /\ SeededAt[t] \in 1 .. 21 /\ SeededAt[t] < SeededAt[c]
<1>1. Tables = Referring \cup {"institutions"}
  BY ReferringTables DEF Tables
<1>2. c \notin {"role_assumption_sessions", "user_sessions", "password_reset_tokens"}
  BY <1>1 DEF SeededAt
<1>3. CASE c \in {"users", "departments", "control_assignments", "assessments",
                  "assessment_responses", "compliance_results", "compliance_gaps"}
  BY <1>1, <1>3, ParentsOf, ReferringTables DEF SeededAt
<1>4. CASE c \in {"mitigation_tasks", "evidence_documents", "incidents", "incident_timeline",
                  "vendors", "vendor_risk_assessments", "generated_policies"}
  BY <1>1, <1>4, ParentsOf, ReferringTables DEF SeededAt
<1>5. CASE c \in {"audit_observations", "audit_reports", "compliance_calendar", "notifications",
                  "audit_logs", "ai_conversations"}
  BY <1>1, <1>5, ParentsOf, ReferringTables DEF SeededAt
<1> QED
  BY <1>2, <1>3, <1>4, <1>5, ReferringTables

(***************************************************************************)
(* How far the transaction under way has come: unless somebody writes        *)
(* meanwhile a table whose statement is behind it is empty, and when all are, *)
(* the seed fills them in its order.                                        *)
(***************************************************************************)
Database == [rows : SUBSET Tables, refs : SUBSET AllLinks, foreign : SUBSET CrossLinks]

Within(d, e) == d.rows \subseteq e.rows /\ d.refs \subseteq e.refs /\ d.foreign \subseteq e.foreign

JobFacts ==
  /\ job = "none" => work = db
  /\ job # "none" => outcome = <<job, "under way">>
  /\ job = "delete" =>
       /\ step \in 1 .. 21
       /\ step = 21 => "institutions" \notin work.rows
       /\ Within(work, db)
       /\ ~meanwhile => \A t \in work.rows : step <= DeletedAt[t]
  /\ job = "seed" =>
       /\ step \in 1 .. 46
       /\ step <= 24 => /\ \A t \in work.rows : step <= ClearedAt[t]
                        /\ \A fk \in work.foreign : step <= ClearedAt[fk[1]]
       /\ step > 24 => work.rows = {t \in Tables : SeededAt[t] < step - 24} /\ work.foreign = {}

TenantInv ==
  /\ TenantTypeOK /\ db \in Database /\ work \in Database
  /\ JobFacts /\ DeletionAllOrNothing /\ SeedAllOrNothing

LEMMA CascadesJoin ==
  /\ \A fk \in Cascades : /\ fk = <<fk[1], fk[2]>> /\ fk[1] \in Referring
                          /\ fk[2] \in Tables /\ fk[2] \in Parents[fk[1]]
  /\ \A c \in Referring : Parents[c] \subseteq Tables
  /\ \A fk \in CrossLinks : /\ fk = <<fk[1], fk[2]>> /\ fk[1] \in Referring /\ fk[2] \in Tables
                            /\ fk[2] \in Parents[fk[1]] /\ fk[2] # "institutions"
  /\ Tables = Referring \cup {"institutions"}
<1>1. Tables = Referring \cup {"institutions"}
  BY ReferringTables DEF Tables
<1>2. ASSUME NEW fk \in Cascades
      PROVE  /\ fk = <<fk[1], fk[2]>> /\ fk[1] \in Referring
             /\ fk[2] \in Tables /\ fk[2] \in Parents[fk[1]]
  <2>1. fk = <<fk[1], fk[2]>> /\ fk[1] \in Referring /\ fk[2] \in Tables
    BY <1>1, <1>2, ReferringTables DEF Cascades
  <2> QED
    BY <1>2, <2>1, ParentsOf DEF Cascades
<1>3. ASSUME NEW fk \in CrossLinks
      PROVE  /\ fk = <<fk[1], fk[2]>> /\ fk[1] \in Referring /\ fk[2] \in Tables
             /\ fk[2] \in Parents[fk[1]] /\ fk[2] # "institutions"
  <2>1. fk = <<fk[1], fk[2]>> /\ fk[1] \in Referring /\ fk[2] \in Tables /\ fk[2] # "institutions"
    BY <1>1, <1>3, ReferringTables DEF CrossLinks
  <2> QED
    BY <1>3, <2>1, ParentsOf DEF CrossLinks
<1>4. ASSUME NEW c \in Referring PROVE Parents[c] \subseteq Tables
  BY <1>1, ParentsOf, ReferringTables
<1> QED
  BY <1>1, <1>2, <1>3, <1>4

LEMMA LinksJoinTables ==
  ASSUME NEW fk \in AllLinks
  PROVE  /\ fk = <<fk[1], fk[2]>> /\ fk[1] \in Referring /\ fk[2] \in Tables
         /\ fk[2] \in Parents[fk[1]] /\ fk[2] # "institutions"
<1>1. PICK c \in Referring : \E p \in Parents[c] \ {"institutions"} : fk = <<c, p>>
  BY ReferringTables DEF AllLinks
<1> QED
  BY <1>1, CascadesJoin

\* A statement that the foreign keys allow leaves no row that refers to one deleted.
LEMMA DeletedSound ==
  ASSUME NEW d \in Database, Sound(d), NEW t \in Tables, ~Restricted(d, t)
  PROVE  /\ Deleted(d, t) \in Database /\ Sound(Deleted(d, t))
         /\ Deleted(d, t).rows = d.rows \ Falling(d, t)
         /\ Deleted(d, t).refs \subseteq d.refs /\ Deleted(d, t).foreign \subseteq d.foreign
         /\ job = "seed" => Deleted(d, t).foreign = {fk \in d.foreign : fk[1] # t}
<1> DEFINE falling == Falling(d, t)
           left == d.rows \ falling
           refs == {fk \in d.refs : fk[1] \in left}
           foreign == IF job = "seed" THEN {fk \in d.foreign : fk[1] # t} ELSE d.foreign
<1>1. /\ d.rows \subseteq Tables /\ d.refs \subseteq AllLinks /\ d.foreign \subseteq CrossLinks
  BY DEF Database
<1>2. Deleted(d, t) = [rows |-> left, refs |-> refs, foreign |-> foreign]
  BY DEF Deleted
<1>3. /\ left \subseteq Tables /\ refs \subseteq AllLinks /\ foreign \subseteq CrossLinks
      /\ refs \subseteq d.refs /\ foreign \subseteq d.foreign
  BY <1>1
<1>4. /\ \A c \in left \cap Referring, p \in falling : ~Refers(d, c, p)
      /\ \A fk \in d.foreign : fk[2] \notin falling
  BY ReferringTables DEF Restricted
<1>5. \A c \in left \cap Referring : Owners(c) \subseteq left
  BY <1>4, ReferringTables DEF Sound, Refers
<1>6. refs \subseteq left \X left
  <2> SUFFICES ASSUME NEW fk \in refs PROVE fk \in left \X left
    OBVIOUS
  <2>1. fk = <<fk[1], fk[2]>> /\ fk[1] \in left /\ fk[1] \in Referring /\ fk \in d.refs
    BY <1>3, LinksJoinTables
  <2>2. fk[2] \in d.rows
    BY <2>1 DEF Sound
  <2>3. fk[2] \notin falling
    BY <1>4, <2>1 DEF Refers
  <2> QED
    BY <2>1, <2>2, <2>3
<1>7. \A fk \in foreign : fk[2] \in left
  BY <1>3, <1>4 DEF Sound
<1> HIDE DEF left, refs, foreign
<1>8. Sound([rows |-> left, refs |-> refs, foreign |-> foreign])
  BY <1>3, <1>5, <1>6, <1>7, ReferringTables DEF Sound
<1> QED
  BY <1>2, <1>3, <1>8 DEF left, foreign, Database

\* What a statement of the transaction leaves, when the tables before it are empty.
LEMMA DeletedLater ==
  ASSUME NEW d \in Database, NEW at \in [Tables -> Nat], NEW t \in Tables,
         \A c \in d.rows : at[t] <= at[c],
         \A c \in Tables : at[c] = at[t] => c = t \/ <<c, t>> \in Cascades
  PROVE  \A c \in d.rows \ Falling(d, t) : at[t] + 1 <= at[c]
<1> SUFFICES ASSUME NEW c \in d.rows \ Falling(d, t) PROVE at[t] + 1 <= at[c]
  OBVIOUS
<1>1. c \in Tables /\ c # t /\ <<c, t>> \notin Cascades
  BY CascadesJoin, ReferringTables DEF Falling, Children, Database
<1>2. at[c] # at[t] /\ at[c] \in Nat /\ at[t] \in Nat /\ at[t] <= at[c]
  BY <1>1
<1> QED
  BY <1>2

\* No table refers to one that is deleted with another, other than the institution's.
LEMMA Childless ==
  ASSUME NEW c \in Referring, NEW p \in Parents[c], NEW t \in Tables \ {"institutions"}
  PROVE  <<p, t>> \notin Cascades
  BY ParentsOf, ReferringTables DEF Cascades

\* The statement that a reference stops: the reference goes to its table, or the table
\* is the institution.
LEMMA StoppedBy ==
  ASSUME NEW d \in Database, NEW t \in Tables \ {"institutions"},
         NEW c \in (d.rows \cap Referring) \ Falling(d, t), NEW p \in Falling(d, t), Refers(d, c, p)
  PROVE  p = t /\ t \in Parents[c] /\ <<c, t>> \notin Cascades /\ <<c, t>> \in d.refs
<1>1. p \in Parents[c]
  <2>1. CASE p \in Owners(c)
    BY <2>1 DEF Owners
  <2>2. CASE <<c, p>> \in d.refs
    <3>1. <<c, p>> \in AllLinks
      BY <2>2 DEF Database
    <3> QED
      BY <3>1, LinksJoinTables
  <2> QED
    BY <2>1, <2>2 DEF Refers
<1>2. \A q \in Tables \ {"institutions"} : <<p, q>> \notin Cascades
  BY <1>1, Childless
<1>3. Children(d, {t}) \subseteq Tables \ {"institutions"}
  BY CascadesJoin, ReferringTables DEF Children, Database, Cascades
<1>4. p = t
  BY <1>2, <1>3 DEF Falling, Children
<1>5. <<c, t>> \notin Cascades
  BY ReferringTables DEF Falling, Children
<1> QED
  BY <1>1, <1>4, <1>5 DEF Refers, Owners

\* The foreign keys refuse the deletion where evidence is cited and where another
\* institution refers, and nowhere else unless somebody has written meanwhile.
LEMMA DeletionRefused ==
  ASSUME work \in Database, Sound(work), step \in 1 .. 20, \A t \in work.rows : step <= DeletedAt[t],
         Restricted(work, DeletionOrder[step]), work.foreign = {}
  PROVE  <<"audit_observations", "evidence_documents">> \in work.refs
<1> DEFINE t == DeletionOrder[step]
<1>0. t \in Tables /\ DeletedAt[t] = step
  BY DeletionAt
<1>1. PICK c \in (work.rows \cap Referring) \ Falling(work, t), p \in Falling(work, t) : Refers(work, c, p)
  BY ReferringTables DEF Restricted
<1>2. step <= DeletedAt[c] /\ DeletedAt[c] \in 1 .. 20 /\ c \in Tables
  BY DeletionAt DEF Database
<1> HIDE DEF t
<1>3. t # "institutions"
  <2>1. DeletedAt[c] < 20
    BY <1>1, ReferringTables, CascadesJoin DEF DeletedAt
  <2>2. t = "institutions" => step = 20
    BY <1>0 DEF DeletedAt
  <2> QED
    BY <1>2, <2>1, <2>2
<1>4. t \in Parents[c] /\ <<c, t>> \notin Cascades /\ <<c, t>> \in work.refs
  BY <1>0, <1>1, <1>3, StoppedBy
<1>5. <<c, t>> = <<"audit_observations", "evidence_documents">>
  BY <1>0, <1>1, <1>2, <1>4, DeletionAllows
<1> QED
  BY <1>4, <1>5

LEMMA CleanupNotRefused ==
  ASSUME work \in Database, Sound(work), step \in 1 .. 24, \A t \in work.rows : step <= ClearedAt[t],
         \A fk \in work.foreign : step <= ClearedAt[fk[1]]
  PROVE  ~Restricted(work, CleanupOrder[step])
<1> DEFINE t == CleanupOrder[step]
<1>0. t \in Tables /\ ClearedAt[t] = step
  BY CleanupAt
<1>1. \A c \in Tables : ClearedAt[c] \in 1 .. 24
  BY CleanupAt
<1> HIDE DEF t
\* What would fall with it has been cleared.
<1>2. Falling(work, t) = {t}
  <2>1. ASSUME NEW c \in Children(work, {t}) PROVE FALSE
    <3>1. c \in work.rows /\ c \in Referring /\ <<c, t>> \in Cascades
      BY ReferringTables DEF Children
    <3>2. t \in Parents[c]
      BY <3>1, CascadesJoin
    <3>3. c \in Tables /\ ClearedAt[c] < ClearedAt[t]
      BY <3>1, <3>2, CleanupAllows
    <3> QED
      BY <1>0, <1>1, <3>1, <3>3
  <2> QED
    BY <2>1 DEF Falling, Children
<1>3. ASSUME NEW c \in work.rows \cap Referring, Refers(work, c, t) PROVE FALSE
  <2>1. t \in Parents[c]
    <3>1. CASE <<c, t>> \in work.refs
      <4>1. <<c, t>> \in AllLinks
        BY <3>1 DEF Database
      <4> QED
        BY <4>1, LinksJoinTables
    <3> QED
      BY <1>3, <3>1 DEF Refers, Owners
  <2>2. c \in Tables /\ ClearedAt[c] < ClearedAt[t]
    BY <2>1, CleanupAllows
  <2> QED
    BY <1>0, <1>1, <2>2
<1>4. ASSUME NEW fk \in work.foreign, fk[2] = t PROVE FALSE
  <2>1. fk[1] \in Referring /\ t \in Parents[fk[1]]
    BY <1>4, CascadesJoin DEF Database
  <2>2. fk[1] \in Tables /\ ClearedAt[fk[1]] < ClearedAt[t]
    BY <2>1, CleanupAllows
  <2> QED
    BY <1>0, <1>1, <2>2
<1>5. ~Restricted(work, t)
  BY <1>2, <1>3, <1>4, ReferringTables DEF Restricted
<1> QED
  BY <1>5 DEF t

\* An exception and a refusal.
LEMMA TenantRolledBack ==
  ASSUME TenantInv, NEW how, Rollback(how),
         job \in {"delete", "seed"}, how \in {"failed", "refused"},
         how = "refused" => /\ job = "delete"
                            /\ \/ <<"audit_observations", "evidence_documents">> \in db.refs
                               \/ db.foreign # {}
                               \/ meanwhile
  PROVE  TenantInv'
<1> USE DEF TenantInv
<1>1. /\ work' = db /\ job' = "none" /\ step' = 1 /\ outcome' = <<job, how>>
      /\ db' = db /\ meanwhile' = meanwhile
  BY DEF Rollback
<1>2. TenantTypeOK' /\ JobFacts' /\ db' \in Database /\ work' \in Database
  BY <1>1 DEF TenantTypeOK, JobFacts, Sound
<1>3. DeletionAllOrNothing' /\ SeedAllOrNothing'
  BY <1>1 DEF DeletionAllOrNothing, SeedAllOrNothing
<1> QED
  BY <1>2, <1>3

LEMMA NothingWithout ==
  ASSUME NEW d \in Database, Sound(d), "institutions" \notin d.rows
  PROVE  d.rows = {} /\ d.refs = {} /\ d.foreign = {}
<1>1. \A c \in Referring : "institutions" \in Parents[c] => c \notin d.rows
  BY ReferringTables DEF Sound, Owners
<1>2. "users" \notin d.rows /\ "assessments" \notin d.rows /\ "incidents" \notin d.rows
  BY <1>1, ParentsOf, ReferringTables
<1>3. \A fk \in Cascades : fk[2] \notin d.rows => fk[1] \notin d.rows
  <2> SUFFICES ASSUME NEW fk \in Cascades, fk[1] \in d.rows PROVE fk[2] \in d.rows
    OBVIOUS
  <2>1. fk[2] \in Owners(fk[1]) /\ fk[1] \in Referring
    BY CascadesJoin DEF Owners
  <2> QED
    BY <2>1, ReferringTables DEF Sound
<1>4. \A c \in {"password_reset_tokens", "user_sessions", "assessment_responses", "incident_timeline"} :
        c \notin d.rows
  BY <1>2, <1>3 DEF Cascades
<1>5. \A c \in Referring \ {"password_reset_tokens", "user_sessions", "assessment_responses",
                            "incident_timeline"} : "institutions" \in Parents[c]
  BY ParentsOf, ReferringTables
<1>6. d.rows = {}
  BY <1>1, <1>4, <1>5, CascadesJoin DEF Database
<1> QED
  BY <1>6 DEF Sound

LEMMA DeletionStep ==
  ASSUME TenantInv, DeleteInstitution
  PROVE  TenantInv'
<1> USE DEF TenantInv
<1>1. CASE Begin("delete")
  <2>1. /\ job' = "delete" /\ step' = 1 /\ outcome' = <<"delete", "under way">>
        /\ db' = db /\ work' = work /\ meanwhile' = FALSE /\ work = db
    BY <1>1 DEF Begin, JobFacts
  <2>2. \A t \in work.rows : DeletedAt[t] \in Nat /\ 1 <= DeletedAt[t]
    BY DeletionAt DEF Database
  <2>3. step' \in 1 .. 21 /\ step' \in Nat /\ step' # 21
    <3>1. step' = 1
      BY <2>1
    <3> QED
      BY <3>1
  <2>4. \A t \in work'.rows : step' <= DeletedAt[t]
    BY <2>1, <2>2
  <2>5. TenantTypeOK' /\ db' \in Database /\ work' \in Database
    BY <2>1, <2>3 DEF TenantTypeOK, Sound
  <2>6. JobFacts'
    BY <2>1, <2>3, <2>4 DEF JobFacts, Within
  <2> QED
    BY <2>1, <2>5, <2>6 DEF DeletionAllOrNothing, SeedAllOrNothing
<1>2. CASE job = "delete" /\ step <= Len(DeletionOrder) /\ DeleteFrom(DeletionOrder[step])
  <2> DEFINE t == DeletionOrder[step]
  <2>1. /\ step \in 1 .. 20
        /\ Within(work, db)
        /\ ~meanwhile => \A c \in work.rows : step <= DeletedAt[c]
    <3>1. Len(DeletionOrder) = 20
      BY DeletionAt
    <3>2. step \in 1 .. 21 /\ step <= 20
      BY <1>2, <3>1 DEF JobFacts
    <3>3. Within(work, db) /\ (~meanwhile => \A c \in work.rows : step <= DeletedAt[c])
      BY <1>2 DEF JobFacts
    <3> QED
      BY <3>2, <3>3
  <2>2. CASE Restricted(work, t)
    <3>1. \/ <<"audit_observations", "evidence_documents">> \in db.refs
          \/ db.foreign # {}
          \/ meanwhile
      BY <2>1, <2>2, DeletionRefused DEF TenantTypeOK, Within
    <3> QED
      BY <1>2, <2>2, <3>1, TenantRolledBack DEF DeleteFrom
  <2>3. CASE ~Restricted(work, t)
    <3>1. /\ work' = Deleted(work, t) /\ step' = step + 1
          /\ UNCHANGED <<db, job, outcome, meanwhile>>
      BY <1>2, <2>3 DEF DeleteFrom
    <3>2. t \in Tables /\ DeletedAt[t] = step /\ DeletedAt \in [Tables -> Nat]
      BY <2>1, DeletionAt DEF DeletedAt
    <3>3. \A c \in Tables : DeletedAt[c] = DeletedAt[t] => c = t \/ <<c, t>> \in Cascades
      BY <3>2, DeletionAt
    <3>4. /\ work' \in Database /\ Sound(work') /\ work'.rows = work.rows \ Falling(work, t)
          /\ work'.refs \subseteq work.refs /\ work'.foreign \subseteq work.foreign
      BY <2>3, <3>1, <3>2, DeletedSound DEF TenantTypeOK
    <3>5. ~meanwhile => \A c \in work'.rows : step + 1 <= DeletedAt[c]
      <4> HIDE DEF t
      <4> QED
        BY <2>1, <3>2, <3>3, <3>4, DeletedLater
    <3>6. step + 1 \in 1 .. 21 /\ job = "delete"
      BY <1>2, <2>1
    <3>7. step + 1 = 21 => "institutions" \notin work'.rows
      <4>1. step = 20 => t = "institutions"
        BY DeletionAt, CascadesJoin DEF DeletionOrder, WorkTables
      <4>2. t \notin work'.rows
        BY <3>4 DEF Falling
      <4> QED
        BY <2>1, <4>1, <4>2
    <3> HIDE DEF t
    <3>8. TenantTypeOK'
      <4>1. Sound(db)' /\ Sound(work)'
        BY <3>1, <3>4 DEF TenantTypeOK, Sound
      <4> QED
        BY <3>1, <3>6, <4>1 DEF TenantTypeOK
    <3>9. JobFacts'
      BY <1>2, <2>1, <3>1, <3>4, <3>5, <3>6, <3>7 DEF JobFacts, Within
    <3> QED
      BY <3>1, <3>4, <3>6, <3>8, <3>9 DEF DeletionAllOrNothing, SeedAllOrNothing
  <2> QED
    BY <2>2, <2>3
<1>3. CASE job = "delete" /\ step > Len(DeletionOrder) /\ Commit(work)
  <2>1. work.rows = {} /\ work.refs = {} /\ work.foreign = {}
    <3>1. Len(DeletionOrder) = 20
      BY DeletionAt
    <3>0. step \in 1 .. 21
      BY <1>3 DEF JobFacts
    <3>2. step = 21
      BY <1>3, <3>0, <3>1
    <3>3. "institutions" \notin work.rows
      BY <1>3, <3>2 DEF JobFacts
    <3> QED
      BY <3>3, NothingWithout DEF TenantTypeOK
  <2>2. /\ db' = work /\ work' = work /\ job' = "none" /\ step' = 1
        /\ outcome' = <<"delete", "done">> /\ meanwhile' = meanwhile
    BY <1>3 DEF Commit
  <2>3. TenantTypeOK' /\ db' \in Database /\ work' \in Database
    BY <2>2 DEF TenantTypeOK, Sound
  <2> QED
    BY <2>1, <2>2, <2>3 DEF JobFacts, DeletionAllOrNothing, SeedAllOrNothing
<1> QED
  BY <1>1, <1>2, <1>3 DEF DeleteInstitution

\* What another request writes refers to rows that are still there.
LEMMA WrittenMeanwhile ==
  ASSUME TenantInv, NEW added, WriteMeanwhile(added),
         added[db] \in Database, Sound(added[db]), added[work] \in Database, Sound(added[work]),
         Within(added[work], added[db]),
         "institutions" \notin work.rows => "institutions" \notin added[work].rows
  PROVE  TenantInv'
<1> USE DEF TenantInv
<1>1. /\ job = "delete" /\ db' = added[db] /\ work' = added[work] /\ meanwhile' = TRUE
      /\ UNCHANGED <<job, step, outcome>>
  BY DEF WriteMeanwhile
<1>2. TenantTypeOK' /\ db' \in Database /\ work' \in Database
  BY <1>1 DEF TenantTypeOK, Sound
<1>3. JobFacts'
  BY <1>1 DEF JobFacts
<1>4. outcome = <<"delete", "under way">>
  BY <1>1 DEF JobFacts
<1> QED
  BY <1>1, <1>2, <1>3, <1>4 DEF DeletionAllOrNothing, SeedAllOrNothing

LEMMA OthersStep ==
  ASSUME TenantInv, OthersWrite
  PROVE  TenantInv'
<1> USE DEF TenantInv
<1>0. job = "delete" /\ Within(work, db)
  BY DEF OthersWrite, InsertMeanwhile, InsertElsewhere, WriteMeanwhile, JobFacts
<1>1. ASSUME NEW c \in Written, NEW parents \in SUBSET Parents[c], InsertMeanwhile(c, parents)
      PROVE  TenantInv'
  <2> DEFINE new == {c} \X (parents \ {"institutions"})
             added == [d \in {db, work} |-> [d EXCEPT !.rows = @ \cup {c}, !.refs = @ \cup new]]
  <2>1. c \in Referring /\ c \in Tables /\ parents \subseteq Parents[c]
    BY <1>1, WrittenAssumption, CascadesJoin
  <2>2. new \subseteq AllLinks
    BY <2>1, ReferringTables DEF AllLinks
  <2>3. Owners(c) \cup parents \subseteq work.rows /\ WriteMeanwhile(added)
    BY <1>1 DEF InsertMeanwhile
  <2> HIDE DEF new
  <2>4. \A d \in {db, work} :
          added[d] = [rows |-> d.rows \cup {c}, refs |-> d.refs \cup new, foreign |-> d.foreign]
    BY DEF Database
  <2> HIDE DEF added
  <2>5. \A d \in {db, work} : added[d] \in Database
    BY <2>1, <2>2, <2>4 DEF Database
  <2>6. Owners(c) \cup parents \subseteq db.rows
    BY <1>0, <2>3 DEF Within
  <2>7. ASSUME NEW d \in {db, work} PROVE Sound(added[d])
    <3>1. Sound(d) /\ d \in Database /\ Owners(c) \cup parents \subseteq d.rows
      BY <2>3, <2>6 DEF TenantTypeOK
    <3>2. new \subseteq (d.rows \cup {c}) \X (d.rows \cup {c})
      BY <3>1 DEF new
    <3> QED
      BY <2>1, <2>2, <2>4, <3>1, <3>2, ReferringTables DEF Sound
  <2>8. "institutions" \notin work.rows => "institutions" \notin added[work].rows
    BY <2>1, <2>4, ReferringTables
  <2> QED
    BY <1>0, <2>3, <2>4, <2>5, <2>7, <2>8, WrittenMeanwhile DEF Within
<1>2. ASSUME NEW fk \in CrossLinks, InsertElsewhere(fk)
      PROVE  TenantInv'
  <2> DEFINE added == [d \in {db, work} |-> [d EXCEPT !.foreign = @ \cup {fk}]]
  <2>1. fk[2] \in work.rows /\ WriteMeanwhile(added)
    BY <1>2 DEF InsertElsewhere
  <2>2. \A d \in {db, work} :
          added[d] = [rows |-> d.rows, refs |-> d.refs, foreign |-> d.foreign \cup {fk}]
    BY DEF Database
  <2> HIDE DEF added
  <2>3. \A d \in {db, work} : added[d] \in Database
    BY <2>2 DEF Database
  <2>4. fk[2] \in db.rows
    BY <1>0, <2>1 DEF Within
  <2>5. \A d \in {db, work} : Sound(added[d])
    BY <2>1, <2>2, <2>4 DEF Sound, TenantTypeOK
  <2> QED
    BY <1>0, <2>1, <2>2, <2>3, <2>5, WrittenMeanwhile DEF Within
<1> QED
  BY <1>1, <1>2 DEF OthersWrite

LEMMA SeedStep ==
  ASSUME TenantInv, Begin("seed") \/ Cleanup \/ SeedInsert \/ SeedDone
  PROVE  TenantInv'
<1> USE DEF TenantInv
<1>0. \A t \in Tables : SeededAt[t] \in 1 .. 22
  BY DEF SeededAt
<1>1. CASE Begin("seed")
  <2>1. /\ job' = "seed" /\ step' = 1 /\ outcome' = <<"seed", "under way">>
        /\ db' = db /\ work' = work /\ meanwhile' = FALSE
    BY <1>1 DEF Begin
  <2>2. \A t \in work.rows : ClearedAt[t] \in Nat /\ 1 <= ClearedAt[t]
    BY CleanupAt DEF Database
  <2>3. \A fk \in work.foreign : ClearedAt[fk[1]] \in Nat /\ 1 <= ClearedAt[fk[1]]
    <3>1. \A fk \in work.foreign : fk[1] \in Tables
      BY CascadesJoin DEF Database
    <3> QED
      BY <3>1, CleanupAt
  <2>4. step' \in 1 .. 46 /\ step' \in Nat /\ ~ (step' > 24)
    <3>1. step' = 1
      BY <2>1
    <3> QED
      BY <3>1
  <2>5. /\ \A t \in work'.rows : step' <= ClearedAt[t]
        /\ \A fk \in work'.foreign : step' <= ClearedAt[fk[1]]
    BY <2>1, <2>2, <2>3
  <2>6. TenantTypeOK' /\ db' \in Database /\ work' \in Database
    BY <2>1, <2>4 DEF TenantTypeOK, Sound
  <2>7. JobFacts'
    BY <2>1, <2>4, <2>5 DEF JobFacts
  <2> QED
    BY <2>1, <2>6, <2>7 DEF DeletionAllOrNothing, SeedAllOrNothing
<1>2. CASE Cleanup
  <2> DEFINE t == CleanupOrder[step]
  <2>1. /\ job = "seed" /\ step \in 1 .. 24 /\ \A c \in work.rows : step <= ClearedAt[c]
        /\ \A fk \in work.foreign : step <= ClearedAt[fk[1]]
    <3>1. Len(CleanupOrder) = 24
      BY CleanupAt
    <3>2. job = "seed" /\ step \in 1 .. 46 /\ step <= 24
      BY <1>2, <3>1 DEF Cleanup, JobFacts
    <3>3. /\ \A c \in work.rows : step <= ClearedAt[c]
          /\ \A fk \in work.foreign : step <= ClearedAt[fk[1]]
      BY <3>2 DEF JobFacts
    <3> QED
      BY <3>2, <3>3
  <2>2. ~Restricted(work, t)
    BY <2>1, CleanupNotRefused DEF TenantTypeOK
  <2>3. /\ work' = Deleted(work, t) /\ step' = step + 1
        /\ UNCHANGED <<db, job, outcome, meanwhile>>
    BY <1>2, <2>2 DEF Cleanup, DeleteFrom
  <2>4. t \in Tables /\ ClearedAt[t] = step /\ ClearedAt \in [Tables -> Nat]
    BY <2>1, CleanupAt DEF ClearedAt
  <2>5. \A c \in Tables : ClearedAt[c] = ClearedAt[t] => c = t
    BY <2>4, CleanupAt
  <2> HIDE DEF t
  <2>6. /\ work' \in Database /\ Sound(work') /\ work'.rows = work.rows \ Falling(work, t)
        /\ work'.foreign = {fk \in work.foreign : fk[1] # t}
    BY <2>1, <2>2, <2>3, <2>4, DeletedSound DEF TenantTypeOK
  <2>7. \A c \in work'.rows : c \in Tables /\ step + 1 <= ClearedAt[c]
    BY <2>1, <2>4, <2>5, <2>6, DeletedLater DEF Database
  <2>8. \A fk \in work'.foreign : fk[1] \in Tables /\ step + 1 <= ClearedAt[fk[1]]
    <3> SUFFICES ASSUME NEW fk \in work'.foreign
                 PROVE  fk[1] \in Tables /\ step + 1 <= ClearedAt[fk[1]]
      OBVIOUS
    <3>1. fk[1] \in Tables /\ fk[1] # t /\ step <= ClearedAt[fk[1]]
      BY <2>1, <2>6, CascadesJoin DEF Database
    <3>2. ClearedAt[fk[1]] \in Nat /\ ClearedAt[fk[1]] # step
      BY <2>4, <2>5, <3>1
    <3> QED
      BY <2>1, <3>1, <3>2
  \* After the last of these statements nothing is left.
  <2>9. step + 1 > 24 => /\ work'.rows = {} /\ work'.foreign = {}
                         /\ {c \in Tables : SeededAt[c] < (step + 1) - 24} = {}
    BY <1>0, <2>1, <2>7, <2>8, CleanupAt
  <2>10. step + 1 \in 1 .. 46
    BY <2>1
  <2>11. TenantTypeOK'
    <3>1. Sound(db)' /\ Sound(work)'
      BY <2>3, <2>6 DEF TenantTypeOK, Sound
    <3> QED
      BY <2>3, <2>10, <3>1 DEF TenantTypeOK
  <2>12. JobFacts'
    BY <2>1, <2>3, <2>7, <2>8, <2>9, <2>10 DEF JobFacts
  <2> QED
    BY <2>1, <2>3, <2>6, <2>11, <2>12 DEF DeletionAllOrNothing, SeedAllOrNothing
<1>3. CASE SeedInsert
  <2> DEFINE k == step - 24
             t == SeedOrder[k]
  <2>1. /\ job = "seed" /\ step \in 25 .. 45 /\ k \in 1 .. 21
        /\ work.rows = {c \in Tables : SeededAt[c] < k} /\ work.foreign = {}
    <3>1. Len(CleanupOrder) = 24 /\ Len(SeedOrder) = 21
      BY CleanupAt, SeedAt
    <3>2. job = "seed" /\ step > 24 /\ step <= 24 + 21
      BY <1>3, <3>1 DEF SeedInsert
    <3>3. /\ step \in 1 .. 46
          /\ work.rows = {c \in Tables : SeededAt[c] < step - 24} /\ work.foreign = {}
      BY <3>2 DEF JobFacts
    <3> QED
      BY <3>2, <3>3
  <2>2. t \in Tables /\ SeededAt[t] = k
    BY <2>1, SeedAt
  <2>3. t \in Referring => Parents[t] \subseteq work.rows
    <3> HIDE DEF t
    <3> QED
      BY <2>1, <2>2, SeedAllows
  <2>4. /\ work' = [work EXCEPT !.rows = @ \cup {t}] /\ step' = step + 1
        /\ UNCHANGED <<db, job, outcome, meanwhile>>
    BY <1>3, <2>3, CleanupAt, ReferringTables DEF SeedInsert
  <2>5. \A c \in Tables : SeededAt[c] = k => c = t
    BY <2>1, SeedAt
  <2> HIDE DEF t
  <2>6. work' = [rows |-> work.rows \cup {t}, refs |-> work.refs, foreign |-> work.foreign]
    BY <2>4 DEF Database
  <2>7. work'.rows = {c \in Tables : SeededAt[c] < k + 1} /\ work'.foreign = {}
    BY <1>0, <2>1, <2>2, <2>5, <2>6
  <2>8. work' \in Database /\ Sound(work')
    <3>1. work' \in Database
      BY <2>2, <2>6 DEF Database
    <3>2. t \in Referring => Owners(t) \subseteq work.rows
      BY <2>3 DEF Owners
    <3> QED
      BY <2>2, <2>6, <3>1, <3>2, ReferringTables DEF TenantTypeOK, Sound
  <2>9. TenantTypeOK'
    <3>1. Sound(db)' /\ Sound(work)'
      BY <2>4, <2>8 DEF TenantTypeOK, Sound
    <3> QED
      BY <2>1, <2>4, <3>1 DEF TenantTypeOK
  <2>10. JobFacts'
    <3>1. step' \in 1 .. 46 /\ step' > 24 /\ step' - 24 = k + 1
      BY <2>1, <2>4
    <3>2. job' = "seed" /\ outcome' = <<job', "under way">>
      BY <2>1, <2>4 DEF JobFacts
    <3>3. work'.rows = {c \in Tables : SeededAt[c] < step' - 24}
      BY <2>7, <3>1
    <3>4. job' # "none" /\ job' # "delete"
      BY <3>2
    <3>5. ~ (step' <= 24)
      BY <3>1
    <3> QED
      BY <2>7, <3>1, <3>2, <3>3, <3>4, <3>5, Zenon DEF JobFacts
  <2> QED
    BY <2>1, <2>4, <2>8, <2>9, <2>10 DEF DeletionAllOrNothing, SeedAllOrNothing
<1>4. CASE SeedDone
  <2> DEFINE refs == AllLinks \cap (work.rows \X work.rows)
  <2>1. job = "seed" /\ step = 46 /\ work.rows = {c \in Tables : SeededAt[c] < 22} /\ work.foreign = {}
    <3>1. Len(CleanupOrder) = 24 /\ Len(SeedOrder) = 21
      BY CleanupAt, SeedAt
    <3>2. job = "seed" /\ step > 24 + 21
      BY <1>4, <3>1 DEF SeedDone
    <3>3. step \in 1 .. 46
      BY <3>2 DEF JobFacts
    <3>4. step = 46 /\ step > 24
      BY <3>2, <3>3
    <3>5. work.rows = {c \in Tables : SeededAt[c] < step - 24} /\ work.foreign = {}
      BY <3>2, <3>4 DEF JobFacts
    <3> QED
      BY <3>2, <3>4, <3>5
  <2>2. /\ db' = [work EXCEPT !.refs = refs] /\ work' = db' /\ job' = "none" /\ step' = 1
        /\ outcome' = <<"seed", "done">> /\ meanwhile' = meanwhile
    BY <1>4, <2>1 DEF SeedDone, Commit
  <2>3. db' = [rows |-> work.rows, refs |-> refs, foreign |-> work.foreign]
    BY <2>2 DEF Database
  <2>4. work.rows = {SeedOrder[k] : k \in DOMAIN SeedOrder}
    BY <1>0, <2>1, SeedAt
  <2>5. refs \subseteq AllLinks /\ refs \subseteq work.rows \X work.rows
    OBVIOUS
  <2> HIDE DEF refs
  <2>6. db' \in Database /\ Sound(db')
    BY <2>3, <2>5 DEF Database, TenantTypeOK, Sound
  <2>7. TenantTypeOK'
    <3>1. Sound(db)' /\ Sound(work)'
      BY <2>2, <2>6 DEF Sound
    <3> QED
      BY <2>2, <3>1 DEF TenantTypeOK
  <2>8. db'.rows = work.rows
    BY <2>3
  <2> QED
    BY <2>2, <2>4, <2>6, <2>7, <2>8 DEF JobFacts, DeletionAllOrNothing, SeedAllOrNothing
<1> QED
  BY <1>1, <1>2, <1>3, <1>4

LEMMA TenantInvStep ==
  ASSUME TenantInv, [TenantNext]_tenantVars
  PROVE  TenantInv'
<1>1. CASE JobFails
  BY <1>1, TenantRolledBack DEF JobFails, TenantInv, TenantTypeOK
<1>2. CASE UNCHANGED tenantVars
  BY <1>2 DEF tenantVars, TenantInv, TenantTypeOK, Sound, JobFacts, DeletionAllOrNothing, SeedAllOrNothing
<1> QED
  BY <1>1, <1>2, DeletionStep, OthersStep, SeedStep DEF TenantNext

\* A database with any references, and the rows that they need.
LEMMA AnyReferences ==
  ASSUME NEW refs \in SUBSET AllLinks, NEW foreign \in SUBSET CrossLinks, HoldsOnly(refs, foreign)
  PROVE  TenantInv
<1> DEFINE own == UNION {{fk[1], fk[2]} : fk \in refs}
           others == {fk[2] : fk \in foreign}
           ends == own \cup others
           rows == ends \cup {fk[2] : fk \in {fk \in Cascades : fk[1] \in ends}} \cup {"institutions"}
<1>1. /\ db = [rows |-> rows, refs |-> refs, foreign |-> foreign] /\ work = db
      /\ job = "none" /\ step = 1 /\ outcome = <<"none", "done">> /\ meanwhile = FALSE
  <2>1. rows = Closure(ends)
    BY DEF Closure
  <2>2. db = [rows |-> Closure(ends), refs |-> refs, foreign |-> foreign]
    BY DEF HoldsOnly
  <2>3. /\ work = db /\ job = "none" /\ step = 1 /\ outcome = <<"none", "done">>
        /\ meanwhile = FALSE
    BY DEF HoldsOnly
  <2> HIDE DEF rows, ends
  <2> QED
    BY <2>1, <2>2, <2>3
<1>2. \A fk \in refs : /\ fk[1] \in own /\ fk[2] \in own /\ fk = <<fk[1], fk[2]>>
                       /\ fk[1] \in Tables /\ fk[2] \in Tables
  <2> SUFFICES ASSUME NEW fk \in refs
               PROVE  /\ fk[1] \in own /\ fk[2] \in own /\ fk = <<fk[1], fk[2]>>
                      /\ fk[1] \in Tables /\ fk[2] \in Tables
    OBVIOUS
  <2>1. {fk[1], fk[2]} \subseteq own
    OBVIOUS
  <2> QED
    BY <2>1, LinksJoinTables, CascadesJoin
<1>3. \A fk \in foreign : fk[2] \in others /\ fk[2] \in Tables
  <2>1. \A fk \in foreign : fk[2] \in others
    BY Zenon
  <2> QED
    BY <2>1, CascadesJoin
<1>4. own \subseteq Tables
  <2> SUFFICES ASSUME NEW e \in own PROVE e \in Tables
    OBVIOUS
  <2>1. PICK fk \in refs : e = fk[1] \/ e = fk[2]
    OBVIOUS
  <2> QED
    BY <1>2, <2>1
<1>5. others \subseteq Tables
  <2>1. \A fk \in foreign : fk[2] \in Tables
    BY <1>3
  <2> SUFFICES ASSUME NEW e \in others PROVE e \in Tables
    OBVIOUS
  <2>2. PICK fk \in foreign : e = fk[2]
    BY Zenon
  <2> QED
    BY <2>1, <2>2
<1> HIDE DEF own, others
<1>6. ASSUME NEW c \in rows, c \in Referring, NEW p \in Owners(c) PROVE p \in rows
  <2>1. p = "institutions" \/ <<c, p>> \in Cascades
    BY DEF Owners
  <2>2. CASE c \in ends
    BY <2>1, <2>2
  <2>3. CASE c \notin ends
    \* What is there for another's sake belongs to the institution alone.
    <3>1. c \in {"institutions", "users", "assessments", "incidents"}
      BY <2>3 DEF Cascades
    <3>2. p = "institutions"
      BY <2>1, <3>1 DEF Cascades
    <3> QED
      BY <3>2
  <2> QED
    BY <2>2, <2>3
<1>7. rows \subseteq Tables
  BY <1>4, <1>5, CascadesJoin
<1>8. refs \subseteq rows \X rows
  <2> SUFFICES ASSUME NEW fk \in refs PROVE fk \in rows \X rows
    OBVIOUS
  <2>1. fk[1] \in rows /\ fk[2] \in rows /\ fk = <<fk[1], fk[2]>>
    BY <1>2
  <2> HIDE DEF rows
  <2> QED
    BY <2>1
<1>9. \A fk \in foreign : fk[2] \in rows
  BY <1>3
<1> HIDE DEF ends, rows
<1>10. db \in Database
  BY <1>1, <1>7 DEF Database
<1>11. Sound(db)
  BY <1>1, <1>6, <1>7, <1>8, <1>9, ReferringTables DEF Sound
<1> QED
  BY <1>1, <1>10, <1>11 DEF TenantInv, TenantTypeOK, JobFacts, DeletionAllOrNothing, SeedAllOrNothing

\* From a database with any references between its tables and from other institutions,
\* and not only with the few an instance starts with, and with any number of writes
\* between the statements, a deletion that succeeds leaves nothing, one is refused for
\* the known reasons only, and a seed never (delete_institution, seed.py).
THEOREM TenantsSafe ==
  (\E refs \in SUBSET AllLinks, foreign \in SUBSET CrossLinks : HoldsOnly(refs, foreign))
      /\ [][TenantNext]_tenantVars
    => [](DeletionAllOrNothing /\ SeedAllOrNothing)
<1>1. (\E refs \in SUBSET AllLinks, foreign \in SUBSET CrossLinks : HoldsOnly(refs, foreign)) => TenantInv
  BY AnyReferences
<1>2. TenantInv /\ [TenantNext]_tenantVars => TenantInv'
  BY TenantInvStep
<1>3. TenantInv => DeletionAllOrNothing /\ SeedAllOrNothing
  BY DEF TenantInv
<1> QED
  BY <1>1, <1>2, <1>3, PTL

LEMMA TenantInvariant == Spec => []TenantInv
<1>1. Init => TenantInv
  BY AnyReferences DEF Init, TenantInit
<1>2. [Next]_vars => [TenantNext]_tenantVars
  BY DEF Next, vars, TenantStep, PolicyStep, DepartmentStep, AuditStep, IncidentStep, VendorStep, RoleStep
<1>3. TenantInv /\ [TenantNext]_tenantVars => TenantInv'
  BY TenantInvStep
<1> QED
  BY <1>1, <1>2, <1>3, PTL DEF Spec

\* Of the whole of governance: a deletion that succeeds has left nothing, whatever was
\* written between its statements (delete_institution).
THEOREM DeletionSafe == Spec => []DeletionAllOrNothing
<1>1. TenantInv => DeletionAllOrNothing
  BY DEF TenantInv
<1> QED
  BY <1>1, TenantInvariant, PTL

\* And of the seed: nothing interferes with the order in which it clears and fills the
\* tables (seed.py).
THEOREM SeedSafe == Spec => []SeedAllOrNothing
<1>1. TenantInv => SeedAllOrNothing
  BY DEF TenantInv
<1> QED
  BY <1>1, TenantInvariant, PTL

(***************************************************************************)
(* Types.  What is left of the type invariant after the invariants of the     *)
(* areas: who is told, what a request is doing, and the rows of audits,       *)
(* incidents and vendors.                                                    *)
(***************************************************************************)
ToldTyped == \A row \in told : row[1] \in Accounts

\* Those whom the handlers tell are accounts, or a recipient that the payload leaves out.
LEMMA ToldAccounts ==
  ASSUME ToldTyped, NEW recipients, recipients \subseteq Accounts \cup {Null}, NEW subject
  PROVE  \A row \in Told(recipients, subject) : row[1] \in Accounts
  BY DEF ToldTyped, Told

LEMMA ToldTypedStep ==
  ASSUME PolicyInv, ToldTyped, [Next]_vars
  PROVE  ToldTyped'
<1>0. \A r : Holders(r) \subseteq Accounts
  BY DEF Holders
<1>1. CASE PolicyStep
  <2> PICK a \in Accounts, p \in PolicyIds :
        \/ \E status \in Statuses : CreatePolicy(a, p, status)
        \/ \E status \in Statuses \cup {Null}, edits \in BOOLEAN, to \in Accounts \cup {Null} :
             UpdatePolicy(a, p, status, edits, to)
        \/ SavePolicyContent(a, p) \/ ApprovePolicy(a, p) \/ RejectPolicy(a, p)
    BY <1>1 DEF PolicyStep, PolicyNext
  <2>1. ASSUME NEW status PROVE \A row \in Announce(status, p) : row[1] \in Accounts
    BY <1>0 DEF Announce
  <2>2. ASSUME NEW status, CreatePolicy(a, p, status) PROVE ToldTyped'
    BY <2>1, <2>2 DEF CreatePolicy, ToldTyped
  <2>3. ASSUME NEW status, NEW edits, NEW to \in Accounts \cup {Null}, UpdatePolicy(a, p, status, edits, to)
        PROVE  ToldTyped'
    <3>1. told' = Told({to}, Awaiting(p)) \cup Announce(status, p)
      BY <2>3 DEF UpdatePolicy
    <3>2. \A row \in Told({to}, Awaiting(p)) : row[1] \in Accounts
      BY ToldAccounts
    <3> QED
      BY <2>1, <3>1, <3>2 DEF ToldTyped
  <2>4. CASE SavePolicyContent(a, p)
    BY <2>4 DEF SavePolicyContent, inboxVars, ToldTyped
  <2>5. ASSUME NEW decision, PolicyExists(p), HearDecision(p, decision) PROVE ToldTyped'
    <3>1. policies[p].creator \in Accounts
      BY <2>5 DEF PolicyInv, PolicyFacts, PolicyRow
    <3> QED
      BY <2>5, <3>1, ToldAccounts DEF HearDecision, Tell, ToldTyped
  <2> QED
    BY <2>2, <2>3, <2>4, <2>5 DEF ApprovePolicy, RejectPolicy
<1>2. CASE IncidentStep
  <2>1. ASSUME NEW a, NEW i, NEW detected, NEW zone, NEW assignee \in Accounts \cup {Null},
               CreateIncident(a, i, detected, zone, assignee)
        PROVE  ToldTyped'
    <3> DEFINE recipients == {assignee} \cup Holders("IT Security Officer") \cup Holders("Compliance Officer")
    <3>1. told' = Told(recipients, <<i, "logged">>)
      BY <2>1 DEF CreateIncident, Tell
    <3>2. recipients \subseteq Accounts \cup {Null}
      BY <1>0
    <3> HIDE DEF recipients
    <3> QED
      BY <3>1, <3>2, ToldAccounts DEF ToldTyped
  <2>2. ASSUME NEW a, NEW i, NEW status, NEW reported, UpdateIncident(a, i, status, reported) \/ Tick
        PROVE  ToldTyped'
    BY <2>2 DEF UpdateIncident, Tick, inboxVars, ToldTyped
  <2> QED
    BY <1>2, <2>1, <2>2 DEF IncidentStep, IncidentNext
<1>3. CASE VendorStep
  <2>1. ASSUME NEW a, NEW v, NEW x, CreateRiskAssessment(a, v, x) PROVE ToldTyped'
    BY <1>0, <2>1, ToldAccounts DEF CreateRiskAssessment, TellReviewers, Tell, ToldTyped
  <2>2. CASE UNCHANGED told
    BY <2>2 DEF ToldTyped
  <2> QED
    BY <1>3, <2>1, <2>2 DEF VendorStep, VendorNext, CreateVendor, AnalyzeContract, AnalysisAnswered,
       AnalysisFailed, inboxVars
<1>4. CASE DepartmentStep
  <2>1. UNCHANGED told
    BY <1>4 DEF DepartmentStep, DepartmentNext, CreateRead, CreateCommit, UpdateRead, UpdateCommit,
       DepartmentRefused, ToggleDepartmentStatus, CreateUser, InviteUser, UpdateUser, inboxVars
  <2> QED
    BY <2>1 DEF ToldTyped
<1>5. CASE AuditStep
  <2>1. UNCHANGED told
    BY <1>5 DEF AuditStep, AuditNext, CreateObservation, UpdateObservation, DeleteObservation,
       CreateAuditReport, SummarizeReport, inboxVars
  <2> QED
    BY <2>1 DEF ToldTyped
<1>6. CASE TenantStep \/ RoleStep \/ UNCHANGED vars
  BY <1>6 DEF TenantStep, RoleStep, ChangeUserRole, vars, inboxVars, ToldTyped
<1> QED
  BY <1>1, <1>2, <1>3, <1>4, <1>5, <1>6 DEF Next

Doings == {"idle", "create_department", "update_department", "generate_report", "analyze_contract"}

ReqTyped == req = [r \in Requests |-> req[r]] /\ \A r \in Requests : req[r].at \in Doings

LEMMA ReqTypedStep ==
  ASSUME ReqTyped, [Next]_vars
  PROVE  ReqTyped'
<1>1. \/ UNCHANGED req \/ Moved({"create_department", "update_department"})
      \/ Moved({"generate_report"}) \/ Moved({"analyze_contract"})
  BY RequestAreas DEF ReqTyped
<1> QED
  BY <1>1 DEF ReqTyped, Moved, Doings

(***************************************************************************)
(* Audits                                                                  *)
(***************************************************************************)
LEMMA AuditTyped ==
  ASSUME ReportFacts, ReportFacts', AuditTypeOK, [Next]_vars
  PROVE  AuditTypeOK'
<1>0. observations = [o \in ObservationIds |-> observations[o]]
  BY DEF ReportFacts
<1>1. ASSUME NEW o \in ObservationIds, NEW row, observations' = [observations EXCEPT ![o] = row],
             row # Null => row \in [author : Accounts, status : ObservationStatuses],
             gone' \subseteq IF row = Null THEN gone \cup {o} ELSE gone,
             row # Null => o \notin gone, UNCHANGED reports
      PROVE  AuditTypeOK'
  <2>1. observations' = [p \in ObservationIds |-> IF p = o THEN row ELSE observations[p]]
    BY <1>0, <1>1
  <2>2. \A p \in Observed' : p \in ObservationIds /\ ((p = o /\ row # Null) \/ (p # o /\ p \in Observed))
    BY <2>1 DEF Observed
  <2>3. \A p \in Observed' : observations'[p] = IF p = o THEN row ELSE observations[p]
    BY <2>1, <2>2
  <2>4. \A p \in Observed' : observations'[p] \in [author : Accounts, status : ObservationStatuses]
    BY <1>1, <2>2, <2>3 DEF AuditTypeOK
  <2>5. gone' \subseteq ObservationIds \ Observed'
    BY <1>1, <2>2 DEF AuditTypeOK
  <2> QED
    BY <1>1, <2>4, <2>5 DEF AuditTypeOK
<1>2. ASSUME NEW x \in ReportIds, NEW row, reports' = [reports EXCEPT ![x] = row],
             row.counted \in Nat \cup {Null}, UNCHANGED <<observations, gone>>
      PROVE  AuditTypeOK'
  <2>1. reports' = [y \in ReportIds |-> IF y = x THEN row ELSE reports[y]]
    BY <1>2 DEF ReportFacts
  <2>2. \A y \in ReportIds : reports'[y] # Null => reports'[y].counted \in Nat \cup {Null}
    BY <1>2, <2>1 DEF AuditTypeOK
  <2> QED
    BY <1>2, <2>2 DEF AuditTypeOK, Observed
<1>3. ASSUME NEW a \in Accounts, NEW o \in ObservationIds, CreateObservation(a, o) PROVE AuditTypeOK'
  <2> DEFINE row == [author |-> a, status |-> "open"]
  <2>1. /\ observations' = [observations EXCEPT ![o] = row] /\ o \notin gone /\ gone' = gone
        /\ reports' = reports
    BY <1>3 DEF CreateObservation
  <2>2. row \in [author : Accounts, status : ObservationStatuses]
    BY DEF ObservationStatuses
  <2> HIDE DEF row
  <2> QED
    BY <1>1, <2>1, <2>2
<1>4. ASSUME NEW a \in Accounts, NEW o \in ObservationIds, DeleteObservation(a, o) PROVE AuditTypeOK'
  BY <1>1, <1>4 DEF DeleteObservation
<1>5. ASSUME NEW a \in Accounts, NEW o \in ObservationIds, NEW status \in ObservationStatuses,
             UpdateObservation(a, o, status)
      PROVE  AuditTypeOK'
  <2> DEFINE row == [observations[o] EXCEPT !.status = status]
  <2>1. /\ o \in Observed /\ gone' = gone /\ reports' = reports
        /\ observations' = [observations EXCEPT ![o] = row]
    BY <1>5 DEF UpdateObservation, Editable
  <2>2. row \in [author : Accounts, status : ObservationStatuses] /\ o \notin gone
    BY <1>5, <2>1 DEF AuditTypeOK
  <2> HIDE DEF row
  <2> QED
    BY <1>1, <2>1, <2>2
<1>6. ASSUME NEW r \in Requests, NEW a \in Accounts, NEW x \in ReportIds, CreateAuditReport(r, a, x)
      PROVE  AuditTypeOK'
  <2> DEFINE row == [closed |-> [o \in Closed |-> observations[o]], counted |-> Null]
  <2>1. reports' = [reports EXCEPT ![x] = row] /\ UNCHANGED <<observations, gone>>
    BY <1>6 DEF CreateAuditReport
  <2>2. row.counted = Null
    OBVIOUS
  <2> HIDE DEF row
  <2> QED
    BY <1>2, <2>1, <2>2
<1>7. ASSUME NEW r \in Requests, SummarizeReport(r)
      PROVE  AuditTypeOK'
  <2> DEFINE x == req[r].report
             row == [reports[x] EXCEPT !.counted = Cardinality(Observed)]
  <2>1. /\ reports' = [reports EXCEPT ![x] = row] /\ UNCHANGED <<observations, gone>>
        /\ x \in ReportIds /\ Kept(reports[x])
    BY <1>7 DEF SummarizeReport, ReportFacts
  <2>2. row.counted = Cardinality(Observed)
    BY <2>1 DEF Kept
  <2>3. Cardinality(Observed) \in Nat
    BY FS_CardinalityType DEF ReportFacts
  <2> HIDE DEF row, x
  <2> QED
    BY <1>2, <2>1, <2>2, <2>3
<1>8. CASE ~AuditStep
  BY <1>8 DEF AuditTypeOK, Observed, Next, vars, auditVars, PolicyStep, DepartmentStep, IncidentStep, VendorStep,
     TenantStep, RoleStep
<1> QED
  BY <1>3, <1>4, <1>5, <1>6, <1>7, <1>8 DEF AuditStep, AuditNext

(***************************************************************************)
(* Incidents: no detection that is recorded is still to come.                 *)
(***************************************************************************)
TimesPassed ==
  /\ now \in Times
  /\ \A i \in Logged : incidents[i].detected <= now

LEMMA TimesPassedStep ==
  ASSUME IncidentInv, TimesPassed, [Next]_vars
  PROVE  TimesPassed'
<1>0. /\ now \in Nat /\ Times \subseteq Nat /\ incidents = [i \in IncidentIds |-> incidents[i]]
      /\ \A i \in Logged : incidents[i] \in IncidentRow
  BY IncidentAssumption DEF IncidentInv, IncidentFacts
<1>1. ASSUME NEW i \in IncidentIds, NEW row \in IncidentRow, incidents' = [incidents EXCEPT ![i] = row],
             row.detected <= now, now' = now
      PROVE  TimesPassed'
  <2>1. incidents' = [j \in IncidentIds |-> IF j = i THEN row ELSE incidents[j]]
    BY <1>0, <1>1
  <2>2. \A j \in Logged' : j = i \/ j \in Logged
    BY <2>1 DEF Logged
  <2>3. \A j \in Logged' : incidents'[j] = IF j = i THEN row ELSE incidents[j]
    BY <2>1 DEF Logged
  <2> QED
    BY <1>1, <2>2, <2>3 DEF TimesPassed
<1>2. ASSUME NEW a \in Accounts, NEW i \in IncidentIds, NEW assignee \in Accounts \cup {Null},
             NEW detected, NEW zone,
             \/ detected \in {t \in Times : t <= now} /\ zone \in Zones
             \/ detected = Null /\ zone = 0,
             CreateIncident(a, i, detected, zone, assignee)
      PROVE  TimesPassed'
  <2> DEFINE seen == IF detected = Null THEN now ELSE detected
             stored == IF detected = Null THEN now ELSE detected + zone
             row == [status |-> "open", detectedAt |-> stored, deadline |-> stored + 6,
                     reported |-> FALSE, assignee |-> assignee, nth |-> Cardinality(Logged),
                     detected |-> seen, zone |-> zone]
  <2>1. incidents' = [incidents EXCEPT ![i] = row] /\ now' = now
    BY <1>2 DEF CreateIncident, ParseDatetime, Entered, CertInDeadline
  <2>2. seen \in Nat /\ stored \in Int /\ seen <= now /\ zone \in Zones \cup {0}
    BY <1>0, <1>2, IncidentAssumption
  <2>3. row \in IncidentRow /\ row.detected = seen
    <3>1. Cardinality(Logged) \in Nat
      BY LoggedFinite, FS_CardinalityType
    <3> HIDE DEF seen, stored
    <3> QED
      BY <2>2, <3>1, IncidentAssumption DEF IncidentRow, IncidentStatuses
  <2> HIDE DEF row, seen, stored
  <2> QED
    BY <1>1, <2>1, <2>2, <2>3
<1>3. ASSUME NEW a \in Accounts, NEW i \in IncidentIds, NEW status \in IncidentStatuses \cup {Null},
             NEW reported \in {TRUE, FALSE} \cup {Null}, UpdateIncident(a, i, status, reported)
      PROVE  TimesPassed'
  <2> DEFINE row == [incidents[i] EXCEPT !.status = IF status = Null THEN @ ELSE status,
                                         !.reported = IF reported = Null THEN @ ELSE reported]
  <2>1. i \in Logged /\ incidents[i] \in IncidentRow
    BY <1>0, <1>3 DEF UpdateIncident
  <2>2. incidents' = [incidents EXCEPT ![i] = row] /\ now' = now
    BY <1>3, <2>1 DEF UpdateIncident, IncidentRow
  <2>3. row \in IncidentRow /\ row.detected = incidents[i].detected
    BY <1>0, <1>3, <2>1 DEF IncidentRow
  <2>4. incidents[i].detected <= now
    BY <2>1 DEF TimesPassed
  <2> HIDE DEF row
  <2> QED
    BY <1>1, <2>2, <2>3, <2>4
<1>4. CASE Tick
  <2>1. now' \in Times /\ now' > now /\ incidents' = incidents
    BY <1>4 DEF Tick
  <2>2. Logged' = Logged
    BY <2>1 DEF Logged
  <2>3. ASSUME NEW i \in Logged
        PROVE  incidents[i].detected <= now'
    BY <1>0, <2>1, <2>3 DEF TimesPassed, IncidentRow
  <2> QED
    BY <1>0, <2>1, <2>2, <2>3 DEF TimesPassed
<1>5. CASE ~IncidentStep
  BY <1>5 DEF TimesPassed, Logged, Next, vars, incidentVars, PolicyStep, DepartmentStep, AuditStep, VendorStep,
     TenantStep, RoleStep
<1> QED
  BY <1>2, <1>3, <1>4, <1>5 DEF IncidentStep, IncidentNext

(***************************************************************************)
(* Vendors: none is deleted, so what has been read of one still holds.        *)
(***************************************************************************)
VendorsKnown ==
  /\ vendors \subseteq VendorIds
  /\ \A x \in Assessed : risks[x] \in [vendor : vendors, source : {"manual", "analysis"}]
  /\ \A r \in UnderWay("analyze_contract") : req[r].vendor \in vendors

LEMMA VendorsKnownStep ==
  ASSUME AnalysisFacts, VendorsKnown, [Next]_vars
  PROVE  VendorsKnown'
<1>0. req = [r \in Requests |-> req[r]] /\ risks = [x \in RiskIds |-> risks[x]]
  BY DEF AnalysisFacts
<1>1. ASSUME NEW x \in RiskIds, NEW v \in vendors, NEW source \in {"manual", "analysis"},
             risks' = [risks EXCEPT ![x] = [vendor |-> v, source |-> source]],
             vendors' = vendors, UnderWay("analyze_contract")' \subseteq UnderWay("analyze_contract"),
             \A r \in UnderWay("analyze_contract")' : req'[r] = req[r]
      PROVE  VendorsKnown'
  <2> DEFINE row == [vendor |-> v, source |-> source]
  <2>1. row \in [vendor : vendors, source : {"manual", "analysis"}]
    OBVIOUS
  <2>2. risks' = [y \in RiskIds |-> IF y = x THEN row ELSE risks[y]]
    BY <1>0, <1>1
  <2> HIDE DEF row
  <2>3. \A y \in Assessed' : (y = x /\ risks'[y] = row) \/ (y \in Assessed /\ risks'[y] = risks[y])
    BY <2>2 DEF Assessed
  <2> QED
    BY <1>1, <2>1, <2>3 DEF VendorsKnown
<1>2. ASSUME NEW a, NEW v \in VendorIds, CreateVendor(a, v) PROVE VendorsKnown'
  <2>1. vendors' = vendors \cup {v} /\ risks' = risks /\ req' = req
    BY <1>2 DEF CreateVendor, inboxVars
  <2>2. Assessed' = Assessed /\ UnderWay("analyze_contract")' = UnderWay("analyze_contract")
    BY <2>1 DEF Assessed, UnderWay
  <2>3. [vendor : vendors, source : {"manual", "analysis"}] \subseteq [vendor : vendors', source : {"manual", "analysis"}]
    BY <2>1
  <2> QED
    BY <2>1, <2>2, <2>3 DEF VendorsKnown
<1>3. ASSUME NEW a, NEW v \in VendorIds, NEW x \in RiskIds, CreateRiskAssessment(a, v, x)
      PROVE  VendorsKnown'
  <2>1. /\ v \in vendors /\ risks' = [risks EXCEPT ![x] = [vendor |-> v, source |-> "manual"]]
        /\ vendors' = vendors /\ req' = req
    BY <1>3 DEF CreateRiskAssessment
  <2>2. UnderWay("analyze_contract")' = UnderWay("analyze_contract")
    BY <2>1 DEF UnderWay
  <2> QED
    BY <1>1, <2>1, <2>2
<1>4. ASSUME NEW r \in Requests, NEW a, NEW v \in VendorIds, AnalyzeContract(r, a, v)
      PROVE  VendorsKnown'
  <2> DEFINE q == [at |-> "analyze_contract", vendor |-> v]
  <2>1. v \in vendors /\ vendors' = vendors /\ risks' = risks /\ req' = [req EXCEPT ![r] = q]
    BY <1>4 DEF AnalyzeContract, Start
  <2>2. q.vendor = v
    OBVIOUS
  <2> HIDE DEF q
  <2>3. req' = [s \in Requests |-> IF s = r THEN q ELSE req[s]]
    BY <1>0, <2>1
  <2>4. \A s \in UnderWay("analyze_contract")' : req'[s].vendor \in vendors
    BY <2>1, <2>2, <2>3 DEF UnderWay, VendorsKnown
  <2> QED
    BY <2>1, <2>4 DEF VendorsKnown, Assessed
<1>5. ASSUME NEW r \in Requests, NEW x \in RiskIds, AnalysisAnswered(r, x)
      PROVE  VendorsKnown'
  <2>1. PICK v : v = req[r].vendor
    OBVIOUS
  <2>2. /\ req[r].at = "analyze_contract" /\ Finish(r) /\ vendors' = vendors
        /\ risks' = [risks EXCEPT ![x] = [vendor |-> v, source |-> "analysis"]]
    BY <1>5, <2>1 DEF AnalysisAnswered
  <2>3. v \in vendors
    BY <2>1, <2>2 DEF VendorsKnown, UnderWay
  <2>4. \A s \in UnderWay("analyze_contract")' : s \in UnderWay("analyze_contract") /\ req'[s] = req[s]
    BY <2>1, <2>2, WaitingEnds
  <2> QED
    BY <1>1, <2>2, <2>3, <2>4
<1>6. ASSUME NEW r \in Requests, AnalysisFailed(r)
      PROVE  VendorsKnown'
  <2>1. req[r].at = "analyze_contract" /\ Finish(r) /\ vendors' = vendors /\ risks' = risks
    BY <1>6 DEF AnalysisFailed, NothingSaved
  <2>2. \A s \in UnderWay("analyze_contract")' : s \in UnderWay("analyze_contract") /\ req'[s] = req[s]
    BY <2>1, WaitingEnds
  <2> QED
    BY <2>1, <2>2 DEF VendorsKnown, Assessed
<1>7. CASE ~VendorStep
  <2>1. vendors' = vendors /\ risks' = risks
    BY <1>7 DEF Next, vars, vendorVars, PolicyStep, DepartmentStep, AuditStep, IncidentStep, TenantStep, RoleStep
  <2>2. UNCHANGED req \/ Moved({"create_department", "update_department"}) \/ Moved({"generate_report"})
    BY <1>0, <1>7, RequestAreas
  <2>3. \A r \in Requests : "analyze_contract" \in {req[r].at, req'[r].at} => req'[r] = req[r]
    BY <2>2 DEF Moved
  <2>4. \A r \in UnderWay("analyze_contract")' : r \in UnderWay("analyze_contract") /\ req'[r] = req[r]
    BY <2>3 DEF UnderWay
  <2> QED
    BY <2>1, <2>4 DEF VendorsKnown, Assessed
<1> QED
  BY <1>2, <1>3, <1>4, <1>5, <1>6, <1>7 DEF VendorStep, VendorNext

(***************************************************************************)
(* All areas together                                                       *)
(***************************************************************************)
AreasInv ==
  /\ PolicyInv /\ IncidentInv /\ DepartmentInv /\ ReportFacts /\ AnalysisFacts /\ TenantInv

Typed == ToldTyped /\ ReqTyped /\ AuditTypeOK /\ TimesPassed /\ VendorsKnown

LEMMA TypedInit == Init => Typed
<1> SUFFICES ASSUME Init PROVE Typed
  OBVIOUS
<1>1. /\ told = {} /\ req = [r \in Requests |-> Idle] /\ observations = [o \in ObservationIds |-> Null]
      /\ gone = {} /\ reports = [x \in ReportIds |-> Null] /\ incidents = [i \in IncidentIds |-> Null]
      /\ now = 0 /\ vendors = {} /\ risks = [x \in RiskIds |-> Null]
  BY DEF Init, InboxInit, AuditInit, IncidentInit, VendorInit
<1>2. Observed = {} /\ Logged = {} /\ Assessed = {} /\ UnderWay("analyze_contract") = {} /\ Idle.at = "idle"
  BY <1>1 DEF Observed, Logged, Assessed, UnderWay, Idle
<1> QED
  BY <1>1, <1>2, IncidentAssumption
     DEF Typed, ToldTyped, ReqTyped, Doings, AuditTypeOK, TimesPassed, VendorsKnown

LEMMA TypeFromParts ==
  ASSUME AreasInv, Typed
  PROVE  GovernanceTypeOK
<1>1. InboxTypeOK
  BY DEF InboxTypeOK, AreasInv, PolicyInv, Peopled, Typed, ToldTyped, ReqTyped, Doings
<1>2. PolicyTypeOK
  BY DEF PolicyTypeOK, AreasInv, PolicyInv, PolicyFacts, PolicyRow
<1>3. DepartmentTypeOK
  BY DEF DepartmentTypeOK, AreasInv, DepartmentInv, DepartmentFacts, DepartmentRow
<1>4. IncidentTypeOK
  <2> SUFFICES ASSUME NEW i \in Logged
               PROVE  /\ incidents[i].status \in IncidentStatuses
                      /\ incidents[i].detectedAt \in Int /\ incidents[i].deadline \in Int
                      /\ incidents[i].reported \in BOOLEAN
                      /\ incidents[i].assignee \in Accounts \cup {Null}
                      /\ incidents[i].nth \in Nat
                      /\ incidents[i].detected \in 0 .. now
                      /\ incidents[i].zone \in Zones \cup {0}
    BY DEF IncidentTypeOK, Typed, TimesPassed
  <2>1. incidents[i] \in IncidentRow /\ now \in Nat
    BY DEF AreasInv, IncidentInv, IncidentFacts
  <2>2. incidents[i].detected <= now
    BY DEF Typed, TimesPassed
  <2> QED
    BY <2>1, <2>2 DEF IncidentRow
<1>5. VendorTypeOK
  BY DEF VendorTypeOK, AreasInv, AnalysisFacts, Typed, VendorsKnown
<1> QED
  BY <1>1, <1>2, <1>3, <1>4, <1>5 DEF GovernanceTypeOK, AreasInv, TenantInv, Typed

\* The rows of every area are of their types, for any number of them: the accounts
\* that rows and notifications name exist, deleted observations stay deleted, no
\* recorded time is still to come, and what an analysis read of its vendor holds
\* when it writes.
THEOREM GovernanceTypes == Spec => []GovernanceTypeOK
<1>1. Init => Typed
  BY TypedInit
<1>2. AreasInv /\ AreasInv' /\ Typed /\ [Next]_vars => Typed'
  BY ToldTypedStep, ReqTypedStep, AuditTyped, TimesPassedStep, VendorsKnownStep DEF AreasInv, Typed
<1>3. AreasInv /\ Typed => GovernanceTypeOK
  BY TypeFromParts
<1>4. Spec => []AreasInv
  <2>1. PolicyInv /\ IncidentInv /\ DepartmentInv /\ ReportFacts /\ AnalysisFacts /\ TenantInv => AreasInv
    BY DEF AreasInv
  <2> QED
    BY <2>1, PolicyInvariant, IncidentInvariant, DepartmentInvariant, ReportInvariant, AnalysisInvariant,
       TenantInvariant, PTL
<1> QED
  BY <1>1, <1>2, <1>3, <1>4, PTL DEF Spec
=============================================================================
