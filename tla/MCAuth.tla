------------------------------- MODULE MCAuth -------------------------------
(***************************************************************************)
(* Instances of Auth for TLC: which endpoints are called in a run, and the   *)
(* seeded accounts.                                                         *)
(***************************************************************************)
EXTENDS Auth, TLC

CONSTANTS admin, member, DeptReviewer, PolicyApprover

\* The role permissions of the seed give manage_users to these two.
MCManagers == {SuperAdmin, InstitutionAdmin}

MCSeedRole == [u \in Users |-> IF u = admin THEN InstitutionAdmin ELSE DeptReviewer]

\* The other account registers itself.
MCUnregistered == [u \in Users |-> IF u = admin THEN InstitutionAdmin ELSE NoRole]

RoleStimuli == {"register", "login", "refresh", "authenticate", "logout", "assume_role",
                "exit_role_assumption", "change_user_role"}

ThrottleStimuli == {"login", "authenticate", "unlock_user", "admin_reset_password",
                    "toggle_user_status",
                    "block_expiry", "rollback"}

PasswordStimuli == {"login", "refresh", "authenticate", "change_password",
                    "forgot_password", "reset_password", "session_expiry",
                    "token_expiry", "rollback"}

AssumptionStimuli == {"login", "authenticate", "assume_role"}

\* The rows of allowed_role_transitions that the seed inserts, for these roles.
AllowedRoleTransitions == {<<InstitutionAdmin, DeptReviewer>>}

\* The table allowed_role_transitions "defines which roles can assume which other
\* roles" (schema.sql:166): a session acts in its owner's primary role or in one
\* the table lets that role assume (assume_role).
AssumptionAllowed ==
  \A s \in SessionIds : IsRow(s) =>
    \/ sessions[s].role = users[sessions[s].user].role
    \/ <<users[sessions[s].user].role, sessions[s].role>> \in AllowedRoleTransitions

\* The reset tokens are not interchangeable: they are in the order of their rows.
Interchangeable == Permutations(SessionIds) \cup Permutations(Requests)
=============================================================================
