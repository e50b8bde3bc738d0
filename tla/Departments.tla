---------------------------- MODULE Departments ----------------------------
(***************************************************************************)
(* Departments and their reviewers (backend/app/routers/departments.py), and *)
(* the parts of user management that change them (routers/users.py).        *)
(*                                                                         *)
(* create_department looks for the name, and update_department for the role   *)
(* of the reviewer, before they write; other requests commit in between.    *)
(* Who asks is not recorded: it is enough that there is somebody who may.    *)
(***************************************************************************)
EXTENDS Inbox

CONSTANTS DepartmentIds, Names,
          Fold(_)       \* lower(department_name)

ASSUME DepartmentAssumption == Null \notin DepartmentIds \cup Names

VARIABLES departments,  \* Null before the row is inserted
          unchecked,    \* history: departments linked to a reviewer by user management
          renamed       \* history: departments that have been renamed, or created
                        \* while another create was between check and insert

departmentVars == <<departments, unchecked, renamed>>

SomeoneMay(permission) == {a \in Accounts : May(a, permission)} # {}

Exists(d) == departments[d] # Null
Existing == {d \in DepartmentIds : Exists(d)}

\* UNIQUE (institution_id, department_name), which compares case.
NameFree(d, name) == \A e \in Existing \ {d} : departments[e].name # name

\* Variant: the check compares names as the constraint does.
TakenAsWritten(name) == \E d \in Existing : departments[d].name = name

Taken(name) == \E d \in Existing : Fold(departments[d].name) = Fold(name)

CreateRead(r, name) ==
  /\ SomeoneMay("manage_departments")
  /\ ~Taken(name)
  /\ Start(r, [at |-> "create_department", name |-> name])
  /\ UNCHANGED <<accountVars, told, departmentVars>>

CreateCommit(r, d) ==
  /\ req[r].at = "create_department"
  /\ ~Exists(d) /\ NameFree(d, req[r].name)
  /\ departments' = [departments EXCEPT ![d] =
       [name |-> req[r].name, active |-> TRUE, reviewer |-> Null]]
  /\ renamed' = IF UnderWay("create_department") = {r} THEN renamed ELSE renamed \cup {d}
  /\ Finish(r)
  /\ UNCHANGED <<accountVars, told, unchecked>>

\* Variant: any account may be made a reviewer.
AnyReviewer(u) == role[u] # Null

\* Only the role is asked for, although the message speaks of an active user.
MayReview(u) == role[u] = "Department Reviewer"

\* A null name stands for a field the payload leaves out, a null reviewer for one that
\* is left out or sent as null; the name is compared with no other than by the
\* constraint.
UpdateRead(r, name, reviewer) ==
  /\ SomeoneMay("manage_departments")
  /\ reviewer # Null => MayReview(reviewer)
  /\ Start(r, [at |-> "update_department", name |-> name, reviewer |-> reviewer])
  /\ UNCHANGED <<accountVars, told, departmentVars>>

UpdateCommit(r, d) ==
  /\ req[r].at = "update_department"
  /\ Exists(d)
  /\ LET name == req[r].name
         reviewer == req[r].reviewer
     IN /\ name # Null => NameFree(d, name)
        /\ \E linked \in IF reviewer = Null THEN {departments[d].reviewer, Null} ELSE {reviewer} :
             departments' = [departments EXCEPT ![d].name = IF name = Null THEN @ ELSE name,
                                                ![d].reviewer = linked]
        /\ renamed' = IF name = Null THEN renamed ELSE renamed \cup {d}
        /\ unchecked' = IF reviewer = Null THEN unchecked ELSE unchecked \ {d}
  /\ Finish(r)
  /\ UNCHANGED <<accountVars, told>>

\* The constraint, or a name that is taken by now, fails the request.
DepartmentRefused(r) ==
  /\ req[r].at \in {"create_department", "update_department"}
  /\ Finish(r)
  /\ UNCHANGED <<accountVars, told, departmentVars>>

ToggleDepartmentStatus(d, active) ==
  /\ SomeoneMay("manage_departments")
  /\ Exists(d)
  /\ departments' = [departments EXCEPT ![d].active = active]
  /\ UNCHANGED <<inboxVars, unchecked, renamed>>

(***************************************************************************)
(* users.py                                                                *)
(***************************************************************************)
Unlinked(u) ==
  [d \in DepartmentIds |-> IF Exists(d) /\ departments[d].reviewer = u
                           THEN [departments[d] EXCEPT !.reviewer = Null] ELSE departments[d]]

\* An id that no department has links nothing.
Link(rows, u, d) ==
  /\ departments' = IF d \in Existing THEN [rows EXCEPT ![d].reviewer = u] ELSE rows
  /\ unchecked' = unchecked \cup ({d} \cap Existing)

GiveRole(u, r) ==
  /\ role' = [role EXCEPT ![u] = r]
  /\ held' = [held EXCEPT ![u] = @ \cup {r}]

\* A department given with a new account is linked to it whatever its role.
CreateUser(u, r, d) ==
  /\ SomeoneMay("manage_users")
  /\ role[u] = Null /\ r \in Assignable[served] \ {Null}
  /\ GiveRole(u, r)
  /\ Link(departments, u, d)
  /\ UNCHANGED <<served, told, req, renamed>>

\* invite_user differs in the mail and the role's lookup by name.
InviteUser(u, r, d) == CreateUser(u, r, d)

\* Role and department may each be left out of the payload: the role is then the one the
\* account has, and no link changes.  An empty department, Null here, only unlinks.
UpdateUser(u, r, d) ==
  /\ SomeoneMay("manage_users")
  /\ role[u] # Null /\ r \in Assignable[served] \ {Null}
  /\ GiveRole(u, r)
  /\ \/ UNCHANGED <<departments, unchecked>>
     \/ Link(Unlinked(u), u, d)
  /\ UNCHANGED <<served, told, req, renamed>>

DepartmentNext ==
  \/ \E r \in Requests :
       \/ \E name \in Names : CreateRead(r, name)
       \/ \E name \in Names \cup {Null}, u \in Accounts \cup {Null} :
            UpdateRead(r, name, u)
       \/ \E d \in DepartmentIds : CreateCommit(r, d) \/ UpdateCommit(r, d)
       \/ DepartmentRefused(r)
  \/ \E u \in Accounts, d \in DepartmentIds \cup {Null}, r \in RoleNames :
       CreateUser(u, r, d) \/ InviteUser(u, r, d) \/ UpdateUser(u, r, d)
  \/ \E d \in DepartmentIds, active \in BOOLEAN : ToggleDepartmentStatus(d, active)

DepartmentInit ==
  /\ departments = [d \in DepartmentIds |-> Null]
  /\ unchecked = {} /\ renamed = {}

DepartmentTypeOK ==
  \A d \in Existing :
    /\ departments[d].name \in Names
    /\ departments[d].active \in BOOLEAN
    /\ departments[d].reviewer \in Accounts \cup {Null}

(***************************************************************************)
(* Properties                                                              *)
(***************************************************************************)
\* Whoever reviews a department has been a Department Reviewer, also when roles
\* change between the check and the write, unless user management made the link
\* (update_department, create_user, update_user, change_user_role).
ReviewersReview ==
  \A d \in Existing \ unchecked :
    departments[d].reviewer # Null => "Department Reviewer" \in held[departments[d].reviewer]

\* Two departments have one name, up to case, only if one was renamed or they were
\* created by requests that overlapped (create_department, update_department).
TwinsOverlap ==
  \A d, e \in Existing \ renamed :
    d # e => Fold(departments[d].name) # Fold(departments[e].name)
=============================================================================
