----------------------------- MODULE AuthTables -----------------------------
(***************************************************************************)
(* The rows the authentication service keeps in PostgreSQL, and what its    *)
(* repositories do to them: users (with the throttling columns),            *)
(* user_sessions and password_reset_tokens.  Each operator here is one SQL  *)
(* statement of backend/app/repositories/users.py or sessions.py, as a      *)
(* function from the old row to the new one; Auth.tla puts the statements   *)
(* together into transactions.                                              *)
(*                                                                         *)
(* Instants are abstracted to the side of "now" they lie on: a blocked_until *)
(* or an expires_at column is in the future or in the past, and a clock     *)
(* action of Auth moves it from the first to the second.                    *)
(***************************************************************************)
EXTENDS Naturals, FiniteSets

CONSTANTS
  Users,             \* accounts, by e-mail address
  Roles,             \* rows of the roles table
  SuperAdmin,        \* the role named "Super Admin"
  InstitutionAdmin,  \* the role named "Institution Admin"
  Passwords,
  SessionIds,        \* the session ids PostgreSQL draws in an instance
  TokenIds,          \* the reset tokens drawn in an instance
  MaxAttempts        \* _MAX_ATTEMPTS of auth_service.py

ASSUME RolesAssumption == {SuperAdmin, InstitutionAdmin} \subseteq Roles

ASSUME MaxAttemptsAssumption == MaxAttempts \in Nat \ {0}

VARIABLES
  users,     \* the users table: Account or NoAccount for each e-mail address
  sessions,  \* the user_sessions table, by session id
  tokens     \* the password_reset_tokens table, by token

tables == <<users, sessions, tokens>>

(***************************************************************************)
(* Rows.                                                                   *)
(***************************************************************************)
NoAccount == [exists |-> FALSE]

Account == [exists : {TRUE}, pw : Passwords, role : Roles, active : BOOLEAN,
            failed : Nat, block : {"none", "future", "past"}]

Unused == [status |-> "unused"]

Gone == [status |-> "gone"]

\* era and root are history: the number of password resets the owner had
\* completed when the login that began the session committed, and the session
\* that this login (the first of a chain of refreshes) created.
SessionRow == [status : {"live", "expired"}, user : Users, role : Roles,
               era : Nat, root : SessionIds]

TokenRow == [status : {"pending", "expired", "used"}, user : Users]

TablesTypeOK ==
  /\ users \in [Users -> Account \cup {NoAccount}]
  /\ sessions \in [SessionIds -> SessionRow \cup {Unused, Gone}]
  /\ tokens \in [TokenIds -> TokenRow \cup {Unused}]

(***************************************************************************)
(* users.py                                                                *)
(***************************************************************************)
NewAccount(role, p) ==
  [exists |-> TRUE, pw |-> p, role |-> role, active |-> TRUE,
   failed |-> 0, block |-> "none"]

IsActive(u) == users[u].exists /\ users[u].active

IncrementFailedAttempts(row) == [row EXCEPT !.failed = @ + 1]

BlockUser(row) == [row EXCEPT !.block = "future"]

\* Variant: the block is lifted, the counter stands.
ResetBlockOnly(row) == [row EXCEPT !.block = "none"]

ResetFailedAttempts(row) == [row EXCEPT !.failed = 0, !.block = "none"]

UpdatePassword(row, p) == [row EXCEPT !.pw = p, !.failed = 0, !.block = "none"]

\* Variant: a token is looked up by its text alone.
KnownToken(t) == tokens[t] # Unused

\* The WHERE of consume_reset_token: unused and not expired.
Consumable(t) == tokens[t].status = "pending"

\* Variant: nothing is invalidated.
NoTokens(u) == {}

\* The WHERE of invalidate_all_user_tokens: unused, expired or not.
UnusedTokensOf(u) ==
  {t \in TokenIds : tokens[t].status \in {"pending", "expired"} /\ tokens[t].user = u}

UsedTokensOf(u) ==
  {t \in TokenIds : tokens[t].status = "used" /\ tokens[t].user = u}

MarkUsed(table, ts) ==
  [t \in TokenIds |-> IF t \in ts THEN [table[t] EXCEPT !.status = "used"] ELSE table[t]]

(***************************************************************************)
(* sessions.py                                                             *)
(***************************************************************************)
NewSession(u, role, era, root) ==
  [status |-> "live", user |-> u, role |-> role, era |-> era, root |-> root]

FindActive(s) == sessions[s].status = "live"

IsRow(s) == sessions[s].status \in {"live", "expired"}

Delete(table, ss) ==
  [s \in SessionIds |-> IF s \in ss /\ table[s] # Unused THEN Gone ELSE table[s]]

\* Variant: sessions are not revoked.
NoSessions(u) == {}

SessionsOf(u) == {s \in SessionIds : IsRow(s) /\ sessions[s].user = u}

\* UPDATE ... WHERE session_id: a row that is gone stays gone.
UpdateRole(table, s, role) ==
  IF table[s].status \in {"live", "expired"}
  THEN [table EXCEPT ![s].role = role]
  ELSE table
=============================================================================
