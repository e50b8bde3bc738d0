------------------------------ MODULE Policies ------------------------------
(***************************************************************************)
(* Policies (backend/app/routers/policies.py).                              *)
(*                                                                         *)
(* Every handler writes with one statement and commits, so each is a step.   *)
(* The text of a policy is abstracted to who wrote it last; the row remembers *)
(* in `born` the decision it was created with, if any.  Names and version     *)
(* numbers, which nothing decides by, are left out.                          *)
(***************************************************************************)
EXTENDS Inbox

CONSTANTS PolicyIds

ASSUME PolicyAssumption == Null \notin PolicyIds

VARIABLES policies   \* generated_policies: Null before the row is inserted

Decisions == {"approved", "rejected"}
\* A superseded policy is treated like a draft, and stands among the drafts here.
Statuses == {"draft", "pending_approval"} \cup Decisions

PolicyExists(p) == policies[p] # Null

Awaiting(p) == <<p, "pending">>

\* Variant: a submission is not announced.
AnnounceNothing(status, p) == {}

\* Whoever approves policies is told that one is pending.
Announce(status, p) ==
  IF status = "pending_approval" THEN Holders("Policy Approver") \X {Awaiting(p)} ELSE {}

\* Variant: the creator is told of approvals only.
HearApproval(p, decision) == Tell(IF decision = "approved" THEN {policies[p].creator} ELSE {}, <<p, decision>>)

HearDecision(p, decision) == Tell({policies[p].creator}, <<p, decision>>)

\* Any status is accepted from the client, also approved, with no approver.
CreatePolicy(a, p, status) ==
  /\ May(a, "draft_policies")
  /\ ~PolicyExists(p)
  /\ policies' = [policies EXCEPT ![p] =
       [status |-> status, born |-> IF status \in Decisions THEN status ELSE Null,
        creator |-> a, editor |-> a, approver |-> Null]]
  /\ told' = told \cup Announce(status, p)
  /\ UNCHANGED <<accountVars, req>>

\* The decisions are refused as new statuses, but a policy that has been decided can
\* be moved on like any other, and keeps its approver.
UpdatePolicy(a, p, status, edits, to) ==
  /\ May(a, "draft_policies")
  /\ PolicyExists(p)
  /\ status \notin Decisions
  /\ status # Null \/ edits \/ to # Null
  /\ policies' = [policies EXCEPT ![p].status = IF status = Null THEN @ ELSE status,
                                  ![p].editor = IF edits THEN a ELSE @]
  /\ told' = Told({to}, Awaiting(p)) \cup Announce(status, p)
  /\ UNCHANGED <<accountVars, req>>

\* In any status: the text of an approved policy can be replaced too.
SavePolicyContent(a, p) ==
  /\ May(a, "draft_policies")
  /\ PolicyExists(p)
  /\ policies' = [policies EXCEPT ![p].editor = a]
  /\ UNCHANGED inboxVars

ApprovePolicy(a, p) ==
  /\ May(a, "approve_policies")
  /\ PolicyExists(p)
  /\ policies' = [policies EXCEPT ![p].status = "approved", ![p].approver = a]
  /\ HearDecision(p, "approved")
  /\ UNCHANGED <<accountVars, req>>

\* An earlier approver stays recorded.
RejectPolicy(a, p) ==
  /\ May(a, "approve_policies")
  /\ PolicyExists(p)
  /\ policies' = [policies EXCEPT ![p].status = "rejected"]
  /\ HearDecision(p, "rejected")
  /\ UNCHANGED <<accountVars, req>>

PolicyNext ==
  \E a \in Accounts, p \in PolicyIds :
    \/ \E status \in Statuses : CreatePolicy(a, p, status)
    \/ \E status \in Statuses \cup {Null}, edits \in BOOLEAN, to \in Accounts \cup {Null} :
         UpdatePolicy(a, p, status, edits, to)
    \/ SavePolicyContent(a, p)
    \/ ApprovePolicy(a, p)
    \/ RejectPolicy(a, p)

PolicyInit == policies = [p \in PolicyIds |-> Null]

PolicyTypeOK ==
  \A p \in PolicyIds : PolicyExists(p) =>
    /\ policies[p].status \in Statuses /\ policies[p].born \in Decisions \cup {Null}
    /\ {policies[p].creator, policies[p].editor} \subseteq Accounts
    /\ policies[p].approver \in Accounts \cup {Null}

(***************************************************************************)
(* Properties                                                              *)
(***************************************************************************)
\* Two roles are needed to write and to approve one policy: whoever approved a
\* policy that he created, or whose text he wrote last, has been an administrator of
\* either kind, who has or may assume both, or has been moved from one role to the
\* other (approve_policy, save_policy_content, change_user_role, the seed's matrix).
FourEyes ==
  \A p \in PolicyIds : PolicyExists(p) =>
    \A a \in {policies[p].creator, policies[p].editor} :
      a = policies[p].approver =>
        \/ held[a] \cap {"Super Admin", "Institution Admin"} # {}
        \/ {"Compliance Officer", "Policy Approver"} \subseteq held[a]

\* Whoever created a policy has been told of the decision it shows, through any
\* sequence of decisions and resubmissions, unless it was created as decided
\* (approve_policy, reject_policy, update_policy).
DecisionsHeard ==
  \A p \in PolicyIds : PolicyExists(p) /\ policies[p].status \in Decisions =>
    \/ <<policies[p].creator, <<p, policies[p].status>>>> \in told
    \/ policies[p].born = policies[p].status

\* A pending policy is known to every approver who was one all the time
\* (create_policy, update_policy).
PendingKnown ==
  \A p \in PolicyIds, a \in Holders("Policy Approver") :
    PolicyExists(p) /\ policies[p].status = "pending_approval" /\ Steady(a) =>
      <<a, Awaiting(p)>> \in told
=============================================================================
