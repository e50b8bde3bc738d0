------------------------------- MODULE Inbox -------------------------------
(***************************************************************************)
(* The accounts of one institution, what their roles permit (seed.py,       *)
(* core/permissions.py), and the notifications that the governance handlers  *)
(* insert (backend/app/repositories/notification.py).                       *)
(*                                                                         *)
(* An instance serves one area at a time: the areas share accounts and       *)
(* notifications, and no row of one is read by a handler of another.        *)
(***************************************************************************)
EXTENDS Naturals, FiniteSets

CONSTANTS Accounts, Null, Requests,
          Assignable   \* for each area an instance serves: the roles it gives,
                       \* and Null where accounts are created in it

RoleNames == {"Super Admin", "Institution Admin", "Compliance Officer", "IT Security Officer",
              "Auditor", "Department Reviewer", "Vendor Reviewer", "Policy Approver",
              "Read-Only Assessor"}

ASSUME AssignableAssumption == \A area \in DOMAIN Assignable : Assignable[area] \subseteq RoleNames \cup {Null}
ASSUME NobodyAssumption == Null \notin Accounts /\ Null \notin RoleNames

VARIABLES served,   \* the area this behaviour serves
          role,     \* users.role_id, Null before the account is created
          held,     \* the roles an account has had, in which sessions may still act
          told,     \* notifications: the accounts told of a subject
          req       \* what a request under way has read

inboxVars == <<served, role, held, told, req>>
accountVars == <<served, role, held>>

Idle == [at |-> "idle"]
Start(r, read) == req[r] = Idle /\ req' = [req EXCEPT ![r] = read]
Finish(r) == req' = [req EXCEPT ![r] = Idle]
UnderWay(step) == {r \in Requests : req[r].at = step}

\* The permissions that decide in the governance handlers.
Permissions ==
  {"manage_users", "manage_departments", "draft_policies", "approve_policies",
   "add_audit_observations", "generate_audit_reports", "manage_incidents", "manage_vendors"}

Grants == [r \in RoleNames |->
  CASE r = "Super Admin"         -> Permissions
    [] r = "Institution Admin"   -> {"manage_users", "manage_departments", "generate_audit_reports"}
    [] r = "Compliance Officer"  -> {"draft_policies", "add_audit_observations", "generate_audit_reports"}
    [] r = "IT Security Officer" -> {"manage_incidents"}
    [] r = "Auditor"             -> {"add_audit_observations", "generate_audit_reports"}
    [] r = "Vendor Reviewer"     -> {"manage_vendors"}
    [] r = "Policy Approver"     -> {"approve_policies"}
    [] OTHER                     -> {}]

\* The roles that an account whose primary role is r may assume in a session.
Assumable == [r \in RoleNames |->
  CASE r = "Super Admin"       -> RoleNames
    [] r = "Institution Admin" -> RoleNames \ {"Super Admin"}
    [] OTHER                   -> {}]

\* What is permitted is decided by the active role of the session, which is the primary
\* role at the login or one assumed then, and which a change of the account's role and
\* the rotations of the session leave as it is.  An account has as many sessions as it
\* has opened, so any role it could ever act in it may act in now.
ActingRoles(a) == held[a] \cup UNION {Assumable[r] : r \in held[a]}

\* Variant: the permission is not checked.
MayAnything(a, permission) == role[a] # Null

May(a, permission) == permission \in UNION {Grants[r] : r \in ActingRoles(a)}

\* create_for_role tells those whose primary role it is, active or not, and nobody
\* who is only acting in it.
Holders(r) == {a \in Accounts : role[a] = r}

\* Variant: a recipient that the payload leaves out is told as well.
ToldAll(recipients, subject) == told \cup (recipients \X {subject})

Told(recipients, subject) == told \cup ((recipients \ {Null}) \X {subject})

Tell(recipients, subject) == told' = Told(recipients, subject)

ChangeUserRole(a, r) ==
  /\ role[a] # Null /\ r \in Assignable[served] \ {Null}
  /\ role' = [role EXCEPT ![a] = r]
  /\ held' = [held EXCEPT ![a] = @ \cup {r}]
  /\ UNCHANGED <<served, told, req>>

\* Where no account is created, one that has had a single role was a holder whenever
\* that role was told.
Steady(a) == held[a] = {role[a]}

InboxTypeOK ==
  /\ served \in DOMAIN Assignable
  /\ role \in [Accounts -> RoleNames \cup {Null}]
  /\ held \in [Accounts -> SUBSET RoleNames]
  /\ \A row \in told : row[1] \in Accounts
  /\ \A r \in Requests : req[r].at \in {"idle", "create_department", "update_department",
                                       "generate_report", "analyze_contract"}

InboxInit ==
  /\ role \in [Accounts -> Assignable[served]]
  /\ \E a \in Accounts : role[a] # Null
  /\ held = [a \in Accounts |-> {role[a]} \ {Null}]
  /\ told = {}
  /\ req = [r \in Requests |-> Idle]
=============================================================================
