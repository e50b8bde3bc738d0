---------------------------- MODULE MCGovernance ----------------------------
(* Instances of Governance: two accounts, and two rows of most kinds.          *)
EXTENDS Governance, TLC

MCAssignable ==
  [policies    |-> {"Compliance Officer", "Policy Approver", "Super Admin"},
   departments |-> {"Institution Admin", "Department Reviewer", Null},
   audits      |-> {"Auditor", "Compliance Officer"},
   incidents   |-> {"IT Security Officer", "Compliance Officer"},
   vendors     |-> {"Vendor Reviewer", "Compliance Officer"},
   tenants     |-> {"Super Admin"}]

\* The names of the instances are the same up to case.
MCFold(name) == "lab"

MCZones == {-2, 2}

\* The areas share the ids of rows, of which only one area uses any.
Interchangeable ==
  Permutations(Accounts) \cup Permutations(Requests) \cup Permutations(DepartmentIds)
=============================================================================
