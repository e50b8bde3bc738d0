----------------------------- MODULE AuthProofs -----------------------------
(***************************************************************************)
(* Proofs about Auth, for every set of accounts, roles, passwords, requests  *)
(* and ids, and for every set of endpoints called.                          *)
(***************************************************************************)
EXTENDS Auth, FiniteSetTheorems, WellFoundedInduction, TLAPS

(***************************************************************************)
(* What a request or a row refers to exists.  TypeOK is not inductive        *)
(* without it: a failed login increments the counter of the account it has  *)
(* read, which must be an account.                                          *)
(***************************************************************************)
OwnersExist ==
  /\ \A s \in SessionIds : IsRow(s) => users[sessions[s].user].exists
  /\ \A t \in TokenIds : tokens[t] # Unused => users[tokens[t].user].exists
  /\ \A r \in Requests : req[r].at \notin {"idle", "register"} => users[req[r].user].exists

DrawnTokens ==
  /\ \A r \in Requests : req[r].at \in {"consumed", "reset"} =>
       tokens[req[r].tok] # Unused /\ tokens[req[r].tok].user = req[r].user
  /\ \A r \in Requests : req[r].at = "forgot" =>
       \A t \in req[r].todo \cup req[r].victims : tokens[t] # Unused

DrawnSessions ==
  \A r \in Requests : req[r].at \in {"authed", "refresh"} =>
    /\ sessions[req[r].sid] # Unused
    /\ IsRow(req[r].sid) => sessions[req[r].sid].user = req[r].user

Typed == TypeOK /\ OwnersExist /\ DrawnTokens /\ DrawnSessions

(***************************************************************************)
(* The kinds of requests and of rows.                                       *)
(***************************************************************************)
LEMMA RequestKinds ==
  ASSUME TypeOK, NEW r \in Requests
  PROVE  /\ req[r].at = "register" => req[r] \in Register
         /\ req[r].at = "login" => req[r] \in Login
         /\ req[r].at = "refresh" => req[r] \in Refresh
         /\ req[r].at = "authed" => req[r] \in Authed
         /\ req[r].at = "change" => req[r] \in Change
         /\ req[r].at = "forgot" => req[r] \in Forgot
         /\ req[r].at = "consumed" => req[r] \in Consumed
         /\ req[r].at = "reset" => req[r] \in Reset
         /\ req[r].at = "idle" => req[r] = Idle
         /\ req[r].at \in {"idle", "register", "login", "refresh", "authed",
                           "change", "forgot", "consumed", "reset"}
  BY DEF TypeOK, Request, Idle, Register, Login, Refresh, Authed, Change, Forgot, Consumed, Reset

LEMMA RowKinds ==
  ASSUME TablesTypeOK
  PROVE  /\ \A u \in Users : users[u].exists => users[u] \in Account
         /\ \A s \in SessionIds : IsRow(s) => sessions[s] \in SessionRow
         /\ \A s \in SessionIds : IsRow(s) <=> sessions[s] \notin {Unused, Gone}
         /\ \A t \in TokenIds : tokens[t] # Unused => tokens[t] \in TokenRow
         /\ \A t \in TokenIds : tokens[t] = Unused <=> tokens[t].status = "unused"
<1>1. \A u \in Users : users[u].exists => users[u] \in Account
  BY DEF TablesTypeOK, NoAccount
<1>2. ASSUME NEW s \in SessionIds
      PROVE  /\ IsRow(s) => sessions[s] \in SessionRow
             /\ IsRow(s) <=> sessions[s] \notin {Unused, Gone}
  <2>1. sessions[s] \in SessionRow \/ sessions[s] = Unused \/ sessions[s] = Gone
    BY DEF TablesTypeOK
  <2>2. CASE sessions[s] \in SessionRow
    BY <2>2 DEF SessionRow, IsRow, Unused, Gone
  <2>3. CASE sessions[s] \in {Unused, Gone}
    BY <2>3 DEF IsRow, Unused, Gone
  <2> QED BY <2>1, <2>2, <2>3
<1>3. ASSUME NEW t \in TokenIds
      PROVE  /\ tokens[t] # Unused => tokens[t] \in TokenRow
             /\ tokens[t] = Unused <=> tokens[t].status = "unused"
  BY DEF TablesTypeOK, TokenRow, Unused
<1> QED BY <1>1, <1>2, <1>3

LEMMA AccountOperations ==
  ASSUME NEW row \in Account, NEW p \in Passwords
  PROVE  /\ AfterFailure(row) \in Account
         /\ ResetFailedAttempts(row) \in Account
         /\ UpdatePassword(row, p) \in Account
<1>1. IncrementFailedAttempts(row) \in Account
  <2>1. row.failed \in Nat /\ row.failed + 1 \in Nat
    BY DEF Account
  <2>2. ASSUME NEW n \in Nat PROVE [row EXCEPT !.failed = n] \in Account
    BY DEF Account
  <2> QED BY <2>1, <2>2 DEF IncrementFailedAttempts
<1>2. BlockUser(IncrementFailedAttempts(row)) \in Account
  BY <1>1 DEF Account, BlockUser
<1>3. AfterFailure(row) \in Account
  BY <1>1, <1>2 DEF AfterFailure
<1>4. ResetFailedAttempts(row) \in Account /\ UpdatePassword(row, p) \in Account
  BY DEF Account, ResetFailedAttempts, UpdatePassword
<1> QED BY <1>3, <1>4

LEMMA TableOperations ==
  ASSUME TablesTypeOK
  PROVE  /\ \A ss : Delete(sessions, ss) \in [SessionIds -> SessionRow \cup {Unused, Gone}]
         /\ \A s \in SessionIds, role \in Roles :
              UpdateRole(sessions, s, role) \in [SessionIds -> SessionRow \cup {Unused, Gone}]
         /\ \A ts : (\A t \in ts : tokens[t] # Unused)
              => MarkUsed(tokens, ts) \in [TokenIds -> TokenRow \cup {Unused}]
<1>1. \A ss : Delete(sessions, ss) \in [SessionIds -> SessionRow \cup {Unused, Gone}]
  BY DEF TablesTypeOK, Delete
<1>2. ASSUME NEW s \in SessionIds, NEW role \in Roles
      PROVE  UpdateRole(sessions, s, role) \in [SessionIds -> SessionRow \cup {Unused, Gone}]
  BY DEF TablesTypeOK, UpdateRole, SessionRow, Unused, Gone
<1>3. ASSUME NEW ts, \A t \in ts : tokens[t] # Unused
      PROVE  MarkUsed(tokens, ts) \in [TokenIds -> TokenRow \cup {Unused}]
  <2>1. \A t \in ts : t \in TokenIds => [tokens[t] EXCEPT !.status = "used"] \in TokenRow
    BY <1>3, RowKinds DEF TokenRow
  <2> QED BY <2>1 DEF TablesTypeOK, MarkUsed
<1> QED BY <1>1, <1>2, <1>3

(***************************************************************************)
(* Types.                                                                  *)
(***************************************************************************)
LEMMA InitTyped == Init => Typed
<1> SUFFICES ASSUME Init PROVE Typed
  OBVIOUS
<1>1. \A u \in Users : SeedAccount(u) \in Account \cup {NoAccount}
  BY SeedAssumption DEF SeedAccount, NewAccount, Account
<1>2. TypeOK
  BY <1>1 DEF Init, TypeOK, TablesTypeOK, Request, Idle
<1>3. OwnersExist /\ DrawnTokens /\ DrawnSessions
  BY DEF Init, OwnersExist, DrawnTokens, DrawnSessions, IsRow, Unused, Idle
<1> QED BY <1>2, <1>3 DEF Typed

\* An arrival writes nothing but req and, for two of them, races.
LEMMA ArriveTypes ==
  ASSUME Typed, NEW r \in Requests, Arrive(r)
  PROVE  TypeOK'
<1> USE DEF Typed
<1>1. ASSUME NEW u \in Users, NEW role \in Roles, NEW p \in Passwords,
             RegisterRead(r, u, role, p)
      PROVE  TypeOK'
  BY <1>1 DEF RegisterRead, Start, TypeOK, TablesTypeOK, tables, history, Request, Register
<1>2. ASSUME NEW u \in Users, NEW p \in Passwords, LoginRead(r, u, p)
      PROVE  TypeOK'
  <2>1. users[u].role \in Roles
    BY <1>2, RowKinds DEF LoginRead, MayAttempt, IsActive, TypeOK, Account
  <2>2. [at |-> "login", user |-> u, role |-> users[u].role, ok |-> p = users[u].pw] \in Login
    BY <2>1 DEF Login
  <2> QED BY <1>2, <2>2 DEF LoginRead, Start, TypeOK, TablesTypeOK, tables, history, Request
<1>3. ASSUME NEW s \in SessionIds, RefreshRead(r, s)
      PROVE  TypeOK'
  <2>1. sessions[s] \in SessionRow
    BY <1>3, RowKinds DEF RefreshRead, FindActive, IsRow, TypeOK
  <2>2. [at |-> "refresh", user |-> sessions[s].user, sid |-> s, role |-> sessions[s].role,
         era |-> sessions[s].era, root |-> sessions[s].root] \in Refresh
    BY <2>1 DEF Refresh, SessionRow
  <2>3. races' \in [chains : SUBSET SessionIds, accounts : SUBSET Users]
    BY <1>3, <2>1 DEF RefreshRead, SessionRow, TypeOK
  <2>4. req' \in [Requests -> Request]
    BY <1>3, <2>2 DEF RefreshRead, Start, TypeOK, Request
  <2> QED BY <1>3, <2>3, <2>4 DEF RefreshRead, TypeOK, TablesTypeOK, tables
<1>4. ASSUME NEW s \in SessionIds, Authenticate(r, s)
      PROVE  TypeOK'
  <2>1. sessions[s] \in SessionRow /\ users[sessions[s].user].role \in Roles
    BY <1>4, RowKinds DEF Authenticate, FindActive, IsRow, IsActive, TypeOK, SessionRow, Account
  <2>2. [at |-> "authed", user |-> sessions[s].user, sid |-> s,
         role |-> users[sessions[s].user].role, active |-> sessions[s].role] \in Authed
    BY <2>1 DEF Authed, SessionRow
  <2> QED BY <1>4, <2>2 DEF Authenticate, Start, TypeOK, TablesTypeOK, tables, history, Request
<1>5. ASSUME NEW u \in Users, ForgotRead(r, u)
      PROVE  TypeOK'
  <2>1. [at |-> "forgot", user |-> u, todo |-> UnusedTokensOf(u), victims |-> {}] \in Forgot
    BY DEF Forgot, UnusedTokensOf
  <2>2. races' \in [chains : SUBSET SessionIds, accounts : SUBSET Users]
    BY <1>5 DEF ForgotRead, TypeOK
  <2> QED BY <1>5, <2>1, <2>2 DEF ForgotRead, Start, TypeOK, TablesTypeOK, tables, Request
<1>6. ASSUME NEW t \in TokenIds, NEW p \in Passwords, ResetConsume(r, t, p)
      PROVE  TypeOK'
  <2>1. tokens[t] \in TokenRow
    BY <1>6, RowKinds DEF ResetConsume, Consumable, TypeOK
  <2>2. [at |-> "consumed", user |-> tokens[t].user, tok |-> t, pw |-> p] \in Consumed
    BY <2>1 DEF Consumed, TokenRow
  <2> QED BY <1>6, <2>2 DEF ResetConsume, Start, TypeOK, TablesTypeOK, tables, history, Request
<1>7. CASE Refuse(r)
  BY <1>7 DEF Refuse, vars, tables, history, TypeOK, TablesTypeOK
<1> QED BY Arrive(r), <1>1, <1>2, <1>3, <1>4, <1>5, <1>6, <1>7 DEF Arrive

\* The commit steps: what they insert, update and delete are rows.
LEMMA ProceedTypes ==
  ASSUME Typed, NEW r \in Requests, Proceed(r)
  PROVE  TypeOK'
<1> USE DEF Typed
<1>1. Idle \in Request /\ (Finish(r) => req' \in [Requests -> Request])
  BY DEF Finish, TypeOK, Request
<1>2. CASE RegisterCommit(r)
  <2>1. req[r] \in Register
    BY <1>2, RequestKinds DEF RegisterCommit
  <2>2. NewAccount(req[r].role, req[r].pw) \in Account
    BY <2>1 DEF Register, NewAccount, Account
  <2>3. PICK s \in SessionIds :
          sessions' = [sessions EXCEPT ![s] =
                         NewSession(req[r].user, req[r].role, resets[req[r].user], s)]
    BY <1>2 DEF RegisterCommit
  <2>4. NewSession(req[r].user, req[r].role, resets[req[r].user], s) \in SessionRow
    BY <2>1 DEF Register, NewSession, SessionRow, TypeOK
  <2>5. sessions' \in [SessionIds -> SessionRow \cup {Unused, Gone}]
    BY <2>3, <2>4 DEF TypeOK, TablesTypeOK
  <2>6. users' \in [Users -> Account \cup {NoAccount}]
    BY <1>2, <2>2 DEF RegisterCommit, TypeOK, TablesTypeOK
  <2>7. held' \in [Users -> SUBSET Roles]
    BY <1>2, <2>1 DEF RegisterCommit, TypeOK, Register
  <2> QED BY <1>1, <1>2, <2>5, <2>6, <2>7 DEF RegisterCommit, TypeOK, TablesTypeOK
<1>3. CASE RegisterConflict(r)
  BY <1>1, <1>3 DEF RegisterConflict, TypeOK, TablesTypeOK, tables, history
<1>4. CASE LoginFail(r)
  <2>1. req[r].user \in Users /\ users[req[r].user] \in Account
    BY <1>4, RequestKinds, RowKinds DEF LoginFail, Login, OwnersExist, TypeOK
  <2>2. users' \in [Users -> Account \cup {NoAccount}]
    BY <1>4, <2>1, SeedAssumption, AccountOperations DEF LoginFail, TypeOK, TablesTypeOK
  <2> QED BY <1>1, <1>4, <2>2 DEF LoginFail, TypeOK, TablesTypeOK, history
<1>5. CASE LoginSucceed(r)
  <2>1. req[r] \in Login /\ users[req[r].user] \in Account
    BY <1>5, RequestKinds, RowKinds DEF LoginSucceed, Login, OwnersExist, TypeOK
  <2>2. PICK s \in SessionIds :
          sessions' = [sessions EXCEPT ![s] =
                         NewSession(req[r].user, req[r].role, resets[req[r].user], s)]
    BY <1>5 DEF LoginSucceed
  <2>3. NewSession(req[r].user, req[r].role, resets[req[r].user], s) \in SessionRow
    BY <2>1 DEF Login, NewSession, SessionRow, TypeOK
  <2>4. sessions' \in [SessionIds -> SessionRow \cup {Unused, Gone}]
    BY <2>2, <2>3 DEF TypeOK, TablesTypeOK
  <2>5. users' \in [Users -> Account \cup {NoAccount}]
    BY <1>5, <2>1, SeedAssumption, AccountOperations DEF LoginSucceed, TypeOK, TablesTypeOK
  <2>6. windows' \in [Users -> Nat]
    BY <1>5 DEF LoginSucceed, TypeOK
  <2> QED BY <1>1, <1>5, <2>4, <2>5, <2>6 DEF LoginSucceed, TypeOK, TablesTypeOK
<1>6. CASE RefreshCommit(r)
  <2>1. req[r] \in Refresh
    BY <1>6, RequestKinds DEF RefreshCommit
  <2>2. NewSession(req[r].user, req[r].role, req[r].era, req[r].root) \in SessionRow
    BY <2>1 DEF Refresh, NewSession, SessionRow
  <2>3. sessions' \in [SessionIds -> SessionRow \cup {Unused, Gone}]
    BY <1>6, <2>2, TableOperations DEF RefreshCommit, Rotated, TypeOK
  <2> QED BY <1>1, <1>6, <2>3 DEF RefreshCommit, TypeOK, TablesTypeOK, history
<1>7. CASE Reject(r)
  BY <1>1, <1>7 DEF Reject, TypeOK, TablesTypeOK, tables, history
<1>8. CASE Logout(r)
  <2>1. sessions' \in [SessionIds -> SessionRow \cup {Unused, Gone}]
    BY <1>8, TableOperations DEF Logout, TypeOK
  <2> QED BY <1>1, <1>8, <2>1 DEF Logout, TypeOK, TablesTypeOK, history
<1>9. ASSUME NEW p \in Passwords, NEW q \in Passwords, ChangePasswordRead(r, p, q)
      PROVE  TypeOK'
  <2>1. [at |-> "change", user |-> req[r].user, pw |-> q] \in Change
    BY <1>9, RequestKinds DEF ChangePasswordRead, Authed, Change
  <2> QED BY <1>9, <2>1 DEF ChangePasswordRead, TypeOK, TablesTypeOK, tables, history, Request
<1>10. CASE ChangePasswordCommit(r)
  <2>1. req[r] \in Change /\ users[req[r].user] \in Account
    BY <1>10, RequestKinds, RowKinds DEF ChangePasswordCommit, Change, OwnersExist, TypeOK
  <2>2. [users[req[r].user] EXCEPT !.pw = req[r].pw] \in Account
    BY <2>1 DEF Change, Account
  <2>3. users' \in [Users -> Account \cup {NoAccount}]
    BY <1>10, <2>2 DEF ChangePasswordCommit, TypeOK, TablesTypeOK
  <2> QED BY <1>1, <1>10, <2>3 DEF ChangePasswordCommit, TypeOK, TablesTypeOK, history
<1>11. ASSUME NEW role \in Roles, AssumeRole(r, role)
       PROVE  TypeOK'
  <2>1. sessions' \in [SessionIds -> SessionRow \cup {Unused, Gone}]
    BY <1>11, TableOperations, RequestKinds DEF AssumeRole, TypeOK, Authed
  <2> QED BY <1>1, <1>11, <2>1 DEF AssumeRole, TypeOK, TablesTypeOK, history
<1>12. CASE ExitRoleAssumption(r)
  <2>1. sessions' \in [SessionIds -> SessionRow \cup {Unused, Gone}]
    BY <1>12, TableOperations, RequestKinds
       DEF ExitRoleAssumption, RestoredRole, TypeOK, TablesTypeOK, Authed
  <2> QED BY <1>1, <1>12, <2>1 DEF ExitRoleAssumption, TypeOK, TablesTypeOK, history
<1>13. ASSUME NEW u \in Users, NEW role \in Roles, ChangeUserRole(r, u, role)
       PROVE  TypeOK'
  <2>1. [users[u] EXCEPT !.role = role] \in Account
    BY <1>13, RowKinds DEF ChangeUserRole, TypeOK, Account
  <2>2. users' \in [Users -> Account \cup {NoAccount}]
    BY <1>13, <2>1 DEF ChangeUserRole, TypeOK, TablesTypeOK
  <2>3. held' \in [Users -> SUBSET Roles]
    BY <1>13 DEF ChangeUserRole, TypeOK
  <2> QED BY <1>1, <1>13, <2>2, <2>3 DEF ChangeUserRole, TypeOK, TablesTypeOK
<1>14. ASSUME NEW u \in Users, UnlockUser(r, u)
       PROVE  TypeOK'
  <2>1. users' \in [Users -> Account \cup {NoAccount}]
    BY <1>14, RowKinds, SeedAssumption, AccountOperations
       DEF UnlockUser, TypeOK, TablesTypeOK
  <2> QED BY <1>1, <1>14, <2>1 DEF UnlockUser, TypeOK, TablesTypeOK
<1>15. ASSUME NEW u \in Users, NEW p \in Passwords, AdminResetPassword(r, u, p)
       PROVE  TypeOK'
  <2>1. users' \in [Users -> Account \cup {NoAccount}]
    BY <1>15, RowKinds, AccountOperations DEF AdminResetPassword, TypeOK, TablesTypeOK
  <2> QED BY <1>1, <1>15, <2>1 DEF AdminResetPassword, TypeOK, TablesTypeOK
<1>16. ASSUME NEW u \in Users, NEW active \in BOOLEAN, ToggleUserStatus(r, u, active)
       PROVE  TypeOK'
  <2>1. [users[u] EXCEPT !.active = active] \in Account
    BY <1>16, RowKinds DEF ToggleUserStatus, TypeOK, Account
  <2>2. users' \in [Users -> Account \cup {NoAccount}]
    BY <1>16, <2>1 DEF ToggleUserStatus, TypeOK, TablesTypeOK
  <2> QED BY <1>1, <1>16, <2>2 DEF ToggleUserStatus, TypeOK, TablesTypeOK, history
<1>17. CASE ForgotCommit(r)
  <2>1. req[r] \in Forgot
    BY <1>17, RequestKinds DEF ForgotCommit
  <2>2. MarkUsed(tokens, req[r].victims) \in [TokenIds -> TokenRow \cup {Unused}]
    BY <1>17, TableOperations DEF ForgotCommit, DrawnTokens, TypeOK
  <2>3. [status |-> "pending", user |-> req[r].user] \in TokenRow
    BY <2>1 DEF Forgot, TokenRow
  <2>4. tokens' \in [TokenIds -> TokenRow \cup {Unused}]
    BY <1>17, <2>2, <2>3 DEF ForgotCommit
  <2> QED BY <1>1, <1>17, <2>4 DEF ForgotCommit, TypeOK, TablesTypeOK, history
<1>18. CASE ResetCommit(r)
  <2>1. req[r] \in Reset /\ users[req[r].user] \in Account
    BY <1>18, RequestKinds, RowKinds DEF ResetCommit, Reset, OwnersExist, TypeOK
  <2>2. users' \in [Users -> Account \cup {NoAccount}]
    BY <1>18, <2>1, AccountOperations DEF ResetCommit, Reset, TypeOK, TablesTypeOK
  <2>3. tokens' \in [TokenIds -> TokenRow \cup {Unused}]
    BY <1>18, TableOperations DEF ResetCommit, DrawnTokens, TypeOK
  <2>4. sessions' \in [SessionIds -> SessionRow \cup {Unused, Gone}]
    BY <1>18, TableOperations DEF ResetCommit, TypeOK
  <2>5. resets' \in [Users -> Nat] /\ windows' \in [Users -> Nat]
    BY <1>18, <2>1 DEF ResetCommit, TypeOK, Reset
  <2> QED BY <1>1, <1>18, <2>2, <2>3, <2>4, <2>5 DEF ResetCommit, TypeOK, TablesTypeOK
<1>19. CASE ForgotLock(r)
  <2>1. \A t \in TokenIds :
          [at |-> "forgot", user |-> req[r].user, todo |-> req[r].todo \ {t},
           victims |-> req[r].victims \cup {t}] \in Forgot
    BY <1>19, RequestKinds DEF ForgotLock, Forgot
  <2>2. NextToken(req[r].todo) \subseteq TokenIds
    BY <1>19, RequestKinds DEF ForgotLock, Forgot, NextToken
  <2>3. req' \in [Requests -> Request]
    BY <1>19, <2>1, <2>2 DEF ForgotLock, TypeOK, Request
  <2> QED BY <1>19, <2>3 DEF ForgotLock, TypeOK, TablesTypeOK, tables, history
<1>20. CASE ResetBegin(r)
  <2>1. [at |-> "reset", user |-> req[r].user, tok |-> req[r].tok, pw |-> req[r].pw,
         victims |-> SessionsOf(req[r].user)] \in Reset
    BY <1>20, RequestKinds DEF ResetBegin, Consumed, Reset, SessionsOf
  <2>2. \A q \in At({"refresh"}) : req[q].root \in SessionIds
    BY RequestKinds DEF At, Refresh
  <2>3. races' \in [chains : SUBSET SessionIds, accounts : SUBSET Users]
    BY <1>20, <2>2 DEF ResetBegin, TypeOK
  <2> QED BY <1>20, <2>1, <2>3 DEF ResetBegin, TypeOK, TablesTypeOK, tables, Request
<1> QED BY Proceed(r), <1>2, <1>3, <1>4, <1>5, <1>6, <1>7, <1>8, <1>9, <1>10, <1>11, <1>12,
           <1>13, <1>14, <1>15, <1>16, <1>17, <1>18, <1>19, <1>20 DEF Proceed

LEMMA ClockTypes ==
  ASSUME Typed, Clock
  PROVE  TypeOK'
<1> USE DEF Typed
<1>1. ASSUME NEW u \in Users, BlockExpires(u)
      PROVE  TypeOK'
  <2>1. [users[u] EXCEPT !.block = "past"] \in Account
    BY <1>1, RowKinds DEF BlockExpires, TypeOK, Account
  <2>2. users' \in [Users -> Account \cup {NoAccount}] /\ windows' \in [Users -> Nat]
    BY <1>1, <2>1 DEF BlockExpires, TypeOK, TablesTypeOK
  <2> QED BY <1>1, <2>2 DEF BlockExpires, TypeOK, TablesTypeOK
<1>2. ASSUME NEW s \in SessionIds, SessionExpires(s)
      PROVE  TypeOK'
  <2>1. [sessions[s] EXCEPT !.status = "expired"] \in SessionRow
    BY <1>2, RowKinds DEF SessionExpires, TypeOK, IsRow, SessionRow
  <2> QED BY <1>2, <2>1 DEF SessionExpires, TypeOK, TablesTypeOK, history
<1>3. ASSUME NEW t \in TokenIds, TokenExpires(t)
      PROVE  TypeOK'
  <2>1. [tokens[t] EXCEPT !.status = "expired"] \in TokenRow
    BY <1>3, RowKinds DEF TokenExpires, TypeOK, TokenRow
  <2> QED BY <1>3, <2>1 DEF TokenExpires, TypeOK, TablesTypeOK, history
<1> QED BY Clock, <1>1, <1>2, <1>3 DEF Clock

LEMMA StepTypes ==
  ASSUME Typed, [Next]_vars
  PROVE  TypeOK'
<1>1. ASSUME NEW r \in Requests, Rollback(r)
      PROVE  TypeOK'
  BY <1>1 DEF Rollback, Finish, Typed, TypeOK, TablesTypeOK, tables, history, Request
<1>2. CASE UNCHANGED vars
  BY <1>2 DEF vars, tables, history, Typed, TypeOK, TablesTypeOK
<1> QED BY <1>1, <1>2, ArriveTypes, ProceedTypes, ClockTypes DEF Next

(***************************************************************************)
(* Which steps write which table.                                           *)
(***************************************************************************)
LEMMA UsersSteps ==
  ASSUME [Next]_vars
  PROVE  \/ users' = users
         \/ \E r \in Requests :
              \/ RegisterCommit(r)
              \/ LoginFail(r)
              \/ LoginSucceed(r)
              \/ ChangePasswordCommit(r)
              \/ \E u \in Users, role \in Roles : ChangeUserRole(r, u, role)
              \/ \E u \in Users : UnlockUser(r, u)
              \/ \E u \in Users, p \in Passwords : AdminResetPassword(r, u, p)
              \/ \E u \in Users, active \in BOOLEAN : ToggleUserStatus(r, u, active)
              \/ ResetCommit(r)
         \/ \E u \in Users : BlockExpires(u)
<1>1. ASSUME NEW r \in Requests, Arrive(r)
      PROVE  users' = users
  BY <1>1 DEF Arrive, RegisterRead, LoginRead, RefreshRead, Authenticate, ForgotRead,
              ResetConsume, Refuse, vars, tables
<1>2. ASSUME NEW r \in Requests,
             \/ RegisterConflict(r) \/ RefreshCommit(r) \/ Reject(r) \/ Logout(r)
             \/ \E p, q \in Passwords : ChangePasswordRead(r, p, q)
             \/ \E role \in Roles : AssumeRole(r, role)
             \/ ExitRoleAssumption(r)
             \/ ForgotLock(r) \/ ForgotCommit(r) \/ ResetBegin(r) \/ Rollback(r)
      PROVE  users' = users
  BY <1>2 DEF RegisterConflict, RefreshCommit, Reject, Logout, ChangePasswordRead, AssumeRole,
              ExitRoleAssumption, ForgotLock, ForgotCommit, ResetBegin, Rollback, tables
<1>3. ASSUME \/ \E s \in SessionIds : SessionExpires(s)
             \/ \E t \in TokenIds : TokenExpires(t)
             \/ UNCHANGED vars
      PROVE  users' = users
  BY <1>3 DEF SessionExpires, TokenExpires, vars, tables
<1> QED BY <1>1, <1>2, <1>3 DEF Next, Proceed, Clock

LEMMA SessionsSteps ==
  ASSUME [Next]_vars
  PROVE  \/ sessions' = sessions
         \/ \E r \in Requests :
              \/ RegisterCommit(r)
              \/ LoginSucceed(r)
              \/ RefreshCommit(r)
              \/ Logout(r)
              \/ \E role \in Roles : AssumeRole(r, role)
              \/ ExitRoleAssumption(r)
              \/ ResetCommit(r)
         \/ \E s \in SessionIds : SessionExpires(s)
<1>1. ASSUME NEW r \in Requests, Arrive(r)
      PROVE  sessions' = sessions
  BY <1>1 DEF Arrive, RegisterRead, LoginRead, RefreshRead, Authenticate, ForgotRead,
              ResetConsume, Refuse, vars, tables
<1>2. ASSUME NEW r \in Requests,
             \/ RegisterConflict(r) \/ LoginFail(r) \/ Reject(r)
             \/ \E p, q \in Passwords : ChangePasswordRead(r, p, q)
             \/ ChangePasswordCommit(r)
             \/ \E u \in Users, role \in Roles : ChangeUserRole(r, u, role)
             \/ \E u \in Users : UnlockUser(r, u)
             \/ \E u \in Users, p \in Passwords : AdminResetPassword(r, u, p)
             \/ \E u \in Users, active \in BOOLEAN : ToggleUserStatus(r, u, active)
             \/ ForgotLock(r) \/ ForgotCommit(r) \/ ResetBegin(r) \/ Rollback(r)
      PROVE  sessions' = sessions
  BY <1>2 DEF RegisterConflict, LoginFail, Reject, ChangePasswordRead, ChangePasswordCommit,
              ChangeUserRole, UnlockUser, AdminResetPassword, ToggleUserStatus, ForgotLock,
              ForgotCommit, ResetBegin, Rollback, tables
<1>3. ASSUME \/ \E u \in Users : BlockExpires(u)
             \/ \E t \in TokenIds : TokenExpires(t)
             \/ UNCHANGED vars
      PROVE  sessions' = sessions
  BY <1>3 DEF BlockExpires, TokenExpires, vars, tables
<1> QED BY <1>1, <1>2, <1>3 DEF Next, Proceed, Clock

LEMMA TokensSteps ==
  ASSUME [Next]_vars
  PROVE  \/ tokens' = tokens
         \/ \E r \in Requests : ForgotCommit(r) \/ ResetCommit(r)
         \/ \E t \in TokenIds : TokenExpires(t)
<1>1. ASSUME NEW r \in Requests, Arrive(r)
      PROVE  tokens' = tokens
  BY <1>1 DEF Arrive, RegisterRead, LoginRead, RefreshRead, Authenticate, ForgotRead,
              ResetConsume, Refuse, vars, tables
<1>2. ASSUME NEW r \in Requests, Proceed(r), ~ForgotCommit(r), ~ResetCommit(r)
      PROVE  tokens' = tokens
  BY <1>2 DEF Proceed, RegisterCommit, RegisterConflict, LoginFail, LoginSucceed,
              RefreshCommit, Reject, Logout, ChangePasswordRead, ChangePasswordCommit,
              AssumeRole, ExitRoleAssumption, ChangeUserRole, UnlockUser, AdminResetPassword,
              ToggleUserStatus, ForgotLock, ResetBegin, tables
<1>3. ASSUME \/ \E r \in Requests : Rollback(r)
             \/ \E u \in Users : BlockExpires(u)
             \/ \E s \in SessionIds : SessionExpires(s)
             \/ UNCHANGED vars
      PROVE  tokens' = tokens
  BY <1>3 DEF Rollback, BlockExpires, SessionExpires, vars, tables
<1> QED BY <1>1, <1>2, <1>3 DEF Next, Clock

LEMMA StepResets ==
  ASSUME [Next]_vars
  PROVE  resets' = resets \/ \E r \in Requests : ResetCommit(r)
<1>1. ASSUME NEW r \in Requests, Proceed(r), ~ResetCommit(r)
      PROVE  resets' = resets
  BY <1>1 DEF Proceed, RegisterCommit, RegisterConflict, LoginFail, LoginSucceed, RefreshCommit,
              Reject, Logout, ChangePasswordRead, ChangePasswordCommit, AssumeRole,
              ExitRoleAssumption, ChangeUserRole, UnlockUser, AdminResetPassword,
              ToggleUserStatus, ForgotLock, ForgotCommit, ResetBegin, history
<1>2. ASSUME NEW r \in Requests, Arrive(r)
      PROVE  resets' = resets
  BY <1>2 DEF Arrive, RegisterRead, LoginRead, RefreshRead, Authenticate, ForgotRead,
              ResetConsume, Refuse, vars, history
<1>3. ASSUME (\E r \in Requests : Rollback(r)) \/ Clock \/ UNCHANGED vars
      PROVE  resets' = resets
  BY <1>3 DEF Rollback, Clock, BlockExpires, SessionExpires, TokenExpires, vars, history
<1> QED BY <1>1, <1>2, <1>3 DEF Next

LEMMA WindowsSteps ==
  ASSUME [Next]_vars
  PROVE  \/ windows' = windows
         \/ \E r \in Requests :
              \/ LoginSucceed(r)
              \/ \E u \in Users : UnlockUser(r, u)
              \/ \E u \in Users, p \in Passwords : AdminResetPassword(r, u, p)
              \/ ResetCommit(r)
         \/ \E u \in Users : BlockExpires(u)
<1>1. ASSUME NEW r \in Requests, Arrive(r)
      PROVE  windows' = windows
  BY <1>1 DEF Arrive, RegisterRead, LoginRead, RefreshRead, Authenticate, ForgotRead,
              ResetConsume, Refuse, vars, history
<1>2. ASSUME NEW r \in Requests,
             \/ RegisterCommit(r) \/ RegisterConflict(r) \/ LoginFail(r) \/ RefreshCommit(r)
             \/ Reject(r) \/ Logout(r)
             \/ \E p, q \in Passwords : ChangePasswordRead(r, p, q)
             \/ ChangePasswordCommit(r)
             \/ \E role \in Roles : AssumeRole(r, role)
             \/ ExitRoleAssumption(r)
             \/ \E u \in Users, role \in Roles : ChangeUserRole(r, u, role)
             \/ \E u \in Users, active \in BOOLEAN : ToggleUserStatus(r, u, active)
             \/ ForgotLock(r) \/ ForgotCommit(r) \/ ResetBegin(r) \/ Rollback(r)
      PROVE  windows' = windows
  BY <1>2 DEF RegisterCommit, RegisterConflict, LoginFail, RefreshCommit, Reject, Logout,
              ChangePasswordRead, ChangePasswordCommit, AssumeRole, ExitRoleAssumption,
              ChangeUserRole, ToggleUserStatus, ForgotLock, ForgotCommit, ResetBegin, Rollback,
              history
<1>3. ASSUME \/ \E s \in SessionIds : SessionExpires(s)
             \/ \E t \in TokenIds : TokenExpires(t)
             \/ UNCHANGED vars
      PROVE  windows' = windows
  BY <1>3 DEF SessionExpires, TokenExpires, vars, history
<1> QED BY <1>1, <1>2, <1>3 DEF Next, Proceed, Clock

LEMMA RequestSteps ==
  ASSUME TypeOK, [Next]_vars, NEW r \in Requests
  PROVE  \/ req'[r] = req[r]
         \/ req'[r] = Idle
         \/ Arrive(r)
         \/ \E p, q \in Passwords : ChangePasswordRead(r, p, q)
         \/ ForgotLock(r)
         \/ ResetBegin(r)
<1>1. ASSUME NEW q \in Requests, Arrive(q), q # r
      PROVE  req'[r] = req[r]
  BY <1>1 DEF Arrive, RegisterRead, LoginRead, RefreshRead, Authenticate, ForgotRead,
              ResetConsume, Refuse, Start, vars, TypeOK
<1>2. ASSUME NEW q \in Requests, Finish(q)
      PROVE  req'[r] = req[r] \/ req'[r] = Idle
  BY <1>2 DEF Finish, TypeOK
<1>3. ASSUME NEW q \in Requests, Proceed(q)
      PROVE  \/ Finish(q) \/ \E x, y \in Passwords : ChangePasswordRead(q, x, y)
             \/ ForgotLock(q) \/ ResetBegin(q)
  BY <1>3 DEF Proceed, RegisterCommit, RegisterConflict, LoginFail, LoginSucceed,
              RefreshCommit, Reject, Logout, ChangePasswordCommit, AssumeRole,
              ExitRoleAssumption, ChangeUserRole, UnlockUser, AdminResetPassword,
              ToggleUserStatus, ForgotCommit, ResetCommit
<1>4. ASSUME NEW q \in Requests, q # r,
             \/ \E x, y \in Passwords : ChangePasswordRead(q, x, y)
             \/ ForgotLock(q) \/ ResetBegin(q)
      PROVE  req'[r] = req[r]
  BY <1>4 DEF ChangePasswordRead, ForgotLock, ResetBegin, TypeOK
<1>5. ASSUME NEW q \in Requests, Rollback(q)
      PROVE  Finish(q)
  BY <1>5 DEF Rollback
<1>6. ASSUME Clock \/ UNCHANGED vars
      PROVE  req' = req
  BY <1>6 DEF Clock, BlockExpires, SessionExpires, TokenExpires, vars
<1> QED BY <1>1, <1>2, <1>3, <1>4, <1>5, <1>6 DEF Next

(***************************************************************************)
(* Rows are never replaced: an account stays, an id is drawn once, and the   *)
(* owner, era and root of a session and the owner of a token never change.  *)
(***************************************************************************)
AccountsStay == \A u \in Users : users[u].exists => users'[u].exists

SessionsStay ==
  \A s \in SessionIds : sessions[s] # Unused =>
    /\ sessions'[s] # Unused
    /\ IsRow(s)' => /\ IsRow(s)
                    /\ sessions'[s].user = sessions[s].user
                    /\ sessions'[s].era = sessions[s].era
                    /\ sessions'[s].root = sessions[s].root

TokensStay ==
  \A t \in TokenIds : tokens[t] # Unused =>
    tokens'[t] # Unused /\ tokens'[t].user = tokens[t].user

LEMMA StepAccountsStay ==
  ASSUME Typed, [Next]_vars
  PROVE  AccountsStay
<1> SUFFICES ASSUME NEW u \in Users, users[u].exists
             PROVE  users'[u].exists
  BY DEF AccountsStay
<1> USE DEF Typed, TypeOK, TablesTypeOK
<1>1. users[u] \in Account /\ users[u].exists = TRUE
  BY RowKinds DEF Account
<1>2. ASSUME NEW row \in Account, row.exists = TRUE, NEW p
      PROVE  /\ AfterFailure(row).exists = TRUE
             /\ ResetFailedAttempts(row).exists = TRUE
             /\ UpdatePassword(row, p).exists = TRUE
  BY <1>2 DEF Account, AfterFailure, IncrementFailedAttempts, BlockUser, ResetFailedAttempts,
              UpdatePassword
<1>3. ASSUME NEW r \in Requests, RegisterCommit(r)
      PROVE  users'[u].exists
  BY <1>3 DEF RegisterCommit, NewAccount
<1>4. ASSUME NEW r \in Requests, LoginFail(r) \/ LoginSucceed(r)
      PROVE  users'[u].exists
  BY <1>1, <1>2, <1>4 DEF LoginFail, LoginSucceed
<1>5. ASSUME NEW r \in Requests,
             \/ ChangePasswordCommit(r)
             \/ \E v \in Users, role \in Roles : ChangeUserRole(r, v, role)
             \/ \E v \in Users, active \in BOOLEAN : ToggleUserStatus(r, v, active)
      PROVE  users'[u].exists
  BY <1>1, <1>5 DEF ChangePasswordCommit, ChangeUserRole, ToggleUserStatus, Account
<1>6. ASSUME NEW r \in Requests,
             \/ \E v \in Users : UnlockUser(r, v)
             \/ \E v \in Users, p \in Passwords : AdminResetPassword(r, v, p)
             \/ ResetCommit(r)
      PROVE  users'[u].exists
  <2>1. ASSUME NEW v \in Users, UnlockUser(r, v)
        PROVE  users'[u].exists
    BY <1>1, <1>2, <2>1 DEF UnlockUser
  <2>2. ASSUME NEW v \in Users, NEW p \in Passwords, AdminResetPassword(r, v, p)
        PROVE  users'[u].exists
    BY <1>1, <1>2, <2>2 DEF AdminResetPassword
  <2>3. CASE ResetCommit(r)
    BY <1>1, <1>2, <2>3 DEF ResetCommit
  <2> QED BY <1>6, <2>1, <2>2, <2>3
<1>7. ASSUME NEW v \in Users, BlockExpires(v)
      PROVE  users'[u].exists
  BY <1>1, <1>7 DEF BlockExpires, Account
<1> QED BY <1>3, <1>4, <1>5, <1>6, <1>7, UsersSteps

LEMMA StepSessionsStay ==
  ASSUME Typed, [Next]_vars
  PROVE  SessionsStay
<1> SUFFICES ASSUME NEW s \in SessionIds, sessions[s] # Unused
             PROVE  /\ sessions'[s] # Unused
                    /\ IsRow(s)' => /\ IsRow(s)
                                    /\ sessions'[s].user = sessions[s].user
                                    /\ sessions'[s].era = sessions[s].era
                                    /\ sessions'[s].root = sessions[s].root
  BY DEF SessionsStay
<1> DEFINE Kept(row) == /\ row # Unused
                        /\ row.status \in {"live", "expired"}
                             => /\ IsRow(s)
                                /\ row.user = sessions[s].user
                                /\ row.era = sessions[s].era
                                /\ row.root = sessions[s].root
<1> SUFFICES Kept(sessions'[s])
  BY DEF IsRow
<1>0. Kept(sessions[s])
  BY DEF IsRow
<1>1. TablesTypeOK
  BY DEF Typed, TypeOK
<1>2. \A ss : Kept(Delete(sessions, ss)[s])
  BY <1>0 DEF Delete, Gone, Unused
<1>3. ASSUME NEW x \in SessionIds, NEW role \in Roles
      PROVE  Kept(UpdateRole(sessions, x, role)[s])
  BY <1>0, <1>1 DEF UpdateRole, TablesTypeOK, SessionRow, Unused, Gone, IsRow
<1>4. ASSUME NEW r \in Requests, RegisterCommit(r) \/ LoginSucceed(r)
      PROVE  sessions'[s] = sessions[s]
  BY <1>1, <1>4 DEF RegisterCommit, LoginSucceed, TablesTypeOK
<1>5. ASSUME NEW r \in Requests, RefreshCommit(r)
      PROVE  Kept(sessions'[s])
  <2>1. sessions'[s] = Delete(sessions, {req[r].sid})[s]
    BY <1>5 DEF RefreshCommit, Rotated, Delete
  <2> QED BY <2>1, <1>2
<1>6. ASSUME NEW r \in Requests, Logout(r) \/ ResetCommit(r)
      PROVE  Kept(sessions'[s])
  BY <1>2, <1>6 DEF Logout, ResetCommit
<1>7. ASSUME NEW r \in Requests, (\E role \in Roles : AssumeRole(r, role)) \/ ExitRoleAssumption(r)
      PROVE  Kept(sessions'[s])
  BY <1>0, <1>3, <1>7, RequestKinds
     DEF AssumeRole, ExitRoleAssumption, RestoredRole, Authed, Typed
<1>8. ASSUME NEW x \in SessionIds, SessionExpires(x)
      PROVE  Kept(sessions'[s])
  BY <1>0, <1>1, <1>8 DEF SessionExpires, TablesTypeOK, SessionRow, Unused, Gone, IsRow
<1> HIDE DEF Kept
<1> QED BY <1>0, <1>4, <1>5, <1>6, <1>7, <1>8, SessionsSteps

LEMMA StepTokensStay ==
  ASSUME Typed, [Next]_vars
  PROVE  TokensStay
<1> SUFFICES ASSUME NEW t \in TokenIds, tokens[t] # Unused
             PROVE  tokens'[t] # Unused /\ tokens'[t].user = tokens[t].user
  BY DEF TokensStay
<1>1. TablesTypeOK
  BY DEF Typed, TypeOK
<1>2. tokens[t] \in TokenRow
  BY <1>1, RowKinds
<1>3. \A ts : /\ MarkUsed(tokens, ts)[t] # Unused
              /\ MarkUsed(tokens, ts)[t].user = tokens[t].user
  BY <1>2 DEF MarkUsed, TokenRow, Unused
<1>4. ASSUME NEW r \in Requests, ForgotCommit(r)
      PROVE  tokens'[t] # Unused /\ tokens'[t].user = tokens[t].user
  <2>1. tokens'[t] = MarkUsed(tokens, req[r].victims)[t]
    BY <1>4 DEF ForgotCommit, MarkUsed
  <2> QED BY <2>1, <1>3
<1>5. ASSUME NEW r \in Requests, ResetCommit(r)
      PROVE  tokens'[t] # Unused /\ tokens'[t].user = tokens[t].user
  BY <1>3, <1>5 DEF ResetCommit
<1>6. ASSUME NEW x \in TokenIds, TokenExpires(x)
      PROVE  tokens'[t] # Unused /\ tokens'[t].user = tokens[t].user
  BY <1>1, <1>2, <1>6 DEF TokenExpires, TablesTypeOK, TokenRow, Unused
<1> QED BY <1>4, <1>5, <1>6, TokensSteps

LEMMA StepOwnersExist ==
  ASSUME Typed, [Next]_vars
  PROVE  OwnersExist'
<1>1. AccountsStay /\ SessionsStay /\ TokensStay /\ TypeOK'
  BY StepAccountsStay, StepSessionsStay, StepTokensStay, StepTypes
<1> USE DEF Typed
<1>2. ASSUME NEW s \in SessionIds, IsRow(s)'
      PROVE  users'[sessions'[s].user].exists
  <2>1. CASE sessions[s] # Unused
    <3>1. IsRow(s) /\ sessions'[s].user = sessions[s].user
      BY <1>1, <1>2, <2>1 DEF SessionsStay
    <3>2. sessions[s].user \in Users /\ users[sessions[s].user].exists
      BY <3>1, RowKinds DEF OwnersExist, TypeOK, SessionRow
    <3> QED BY <1>1, <3>1, <3>2 DEF AccountsStay
  <2>2. CASE sessions[s] = Unused
    <3>1. sessions'[s] # Unused /\ sessions'[s] # sessions[s]
      BY <1>2, <2>2 DEF IsRow, Unused
    <3>2. ASSUME NEW r \in Requests, RegisterCommit(r)
          PROVE  users'[sessions'[s].user].exists
      <4>1. sessions'[s].user = req[r].user /\ req[r].user \in Users
        BY <3>1, <3>2, RequestKinds DEF RegisterCommit, NewSession, Register, TypeOK, TablesTypeOK
      <4> QED BY <3>2, <4>1 DEF RegisterCommit, NewAccount, TypeOK, TablesTypeOK
    <3>3. ASSUME NEW r \in Requests, LoginSucceed(r)
          PROVE  users'[sessions'[s].user].exists
      <4>1. sessions'[s].user = req[r].user /\ req[r].user \in Users /\ users[req[r].user].exists
        BY <3>1, <3>3, RequestKinds
           DEF LoginSucceed, NewSession, Login, TypeOK, TablesTypeOK, OwnersExist
      <4> QED BY <1>1, <4>1 DEF AccountsStay
    <3>4. ASSUME NEW r \in Requests, RefreshCommit(r)
          PROVE  users'[sessions'[s].user].exists
      <4>1. sessions'[s].user = req[r].user
        BY <2>2, <3>1, <3>4 DEF RefreshCommit, Rotated, Delete, NewSession
      <4>2. req[r].user \in Users /\ users[req[r].user].exists
        BY <3>4, RequestKinds DEF RefreshCommit, Refresh, OwnersExist
      <4> QED BY <1>1, <4>1, <4>2 DEF AccountsStay
    <3>5. ASSUME NEW r \in Requests,
                 \/ Logout(r) \/ ResetCommit(r) \/ ExitRoleAssumption(r)
                 \/ \E role \in Roles : AssumeRole(r, role)
          PROVE  FALSE
      <4>1. \A ss : Delete(sessions, ss)[s] = sessions[s]
        BY <2>2 DEF Delete
      <4>2. \A x, role : UpdateRole(sessions, x, role)[s] = sessions[s]
        BY <2>2 DEF UpdateRole, TypeOK, TablesTypeOK, Unused
      <4> QED BY <3>1, <3>5, <4>1, <4>2
              DEF Logout, ResetCommit, ExitRoleAssumption, AssumeRole
    <3>6. ASSUME NEW x \in SessionIds, SessionExpires(x)
          PROVE  FALSE
      BY <2>2, <3>1, <3>6 DEF SessionExpires, TypeOK, TablesTypeOK, Unused
    <3> QED BY <3>1, <3>2, <3>3, <3>4, <3>5, <3>6, SessionsSteps
  <2> QED BY <2>1, <2>2
<1>3. ASSUME NEW t \in TokenIds, tokens'[t] # Unused
      PROVE  users'[tokens'[t].user].exists
  <2>1. CASE tokens[t] # Unused
    <3>1. tokens'[t].user = tokens[t].user /\ users[tokens[t].user].exists
      BY <1>1, <2>1 DEF TokensStay, OwnersExist
    <3>2. tokens[t].user \in Users
      BY <2>1, RowKinds DEF TypeOK, TokenRow
    <3> QED BY <1>1, <3>1, <3>2 DEF AccountsStay
  <2>2. CASE tokens[t] = Unused
    <3>1. ASSUME NEW r \in Requests, ForgotCommit(r)
          PROVE  users'[tokens'[t].user].exists
      <4>1. ~(t \in req[r].victims)
        BY <2>2, <3>1 DEF DrawnTokens, ForgotCommit
      <4>2. tokens'[t].user = req[r].user
        BY <1>3, <2>2, <3>1, <4>1 DEF ForgotCommit, MarkUsed
      <4>3. req[r].user \in Users /\ users[req[r].user].exists
        BY <3>1, RequestKinds DEF ForgotCommit, Forgot, OwnersExist
      <4> QED BY <1>1, <4>2, <4>3 DEF AccountsStay
    <3>2. ASSUME NEW r \in Requests, ResetCommit(r)
          PROVE  FALSE
      BY <1>3, <2>2, <3>2 DEF ResetCommit, MarkUsed, DrawnTokens
    <3>3. ASSUME NEW x \in TokenIds, TokenExpires(x)
          PROVE  FALSE
      BY <1>3, <2>2, <3>3 DEF TokenExpires, TypeOK, TablesTypeOK, Unused
    <3> QED BY <1>3, <2>2, <3>1, <3>2, <3>3, TokensSteps
  <2> QED BY <2>1, <2>2
<1>4. ASSUME NEW r \in Requests, req'[r].at \notin {"idle", "register"}
      PROVE  users'[req'[r].user].exists
  <2>1. ASSUME req[r].at \notin {"idle", "register"}, req'[r].user = req[r].user
        PROVE  users'[req'[r].user].exists
    <3>1. req[r].user \in Users
      BY <2>1, RequestKinds DEF Login, Refresh, Authed, Change, Forgot, Consumed, Reset
    <3> QED BY <1>1, <2>1, <3>1 DEF AccountsStay, OwnersExist
  <2>2. CASE req'[r] = Idle
    BY <1>4, <2>2 DEF Idle
  <2>3. ASSUME NEW p \in Passwords, NEW q \in Passwords, ChangePasswordRead(r, p, q)
        PROVE  req[r].at = "authed" /\ req'[r].user = req[r].user
    BY <2>3 DEF ChangePasswordRead, TypeOK
  <2>4. CASE Arrive(r)
    <3>1. req[r] = Idle \/ req' = req
      BY <2>4 DEF Arrive, RegisterRead, LoginRead, RefreshRead, Authenticate, ForgotRead,
                  ResetConsume, Refuse, Start, vars
    <3>2. ASSUME NEW u \in Users, NEW role \in Roles, NEW p \in Passwords,
                 RegisterRead(r, u, role, p)
          PROVE  req'[r].at = "register"
      BY <3>2 DEF RegisterRead, Start, TypeOK
    <3>3. ASSUME NEW u \in Users, (\E p \in Passwords : LoginRead(r, u, p)) \/ ForgotRead(r, u)
          PROVE  req'[r].user = u /\ users[u].exists
      BY <3>3 DEF LoginRead, ForgotRead, Start, MayAttempt, IsActive, TypeOK
    <3>4. ASSUME NEW s \in SessionIds, RefreshRead(r, s) \/ Authenticate(r, s)
          PROVE  req'[r].user \in Users /\ users[req'[r].user].exists
      <4>1. req'[r].user = sessions[s].user /\ IsRow(s) /\ users[sessions[s].user].exists
        BY <3>4 DEF RefreshRead, Authenticate, Start, FindActive, IsRow, IsActive, TypeOK
      <4> QED BY <4>1, RowKinds DEF TypeOK, SessionRow
    <3>5. ASSUME NEW t \in TokenIds, NEW p \in Passwords, ResetConsume(r, t, p)
          PROVE  req'[r].user \in Users /\ users[req'[r].user].exists
      <4>1. tokens[t] \in TokenRow /\ tokens[t] # Unused
        BY <3>5, RowKinds DEF ResetConsume, Consumable, TypeOK
      <4> QED BY <3>5, <4>1 DEF ResetConsume, Start, TokenRow, TypeOK, OwnersExist
    <3>6. CASE Refuse(r)
      BY <1>4, <3>6 DEF Refuse, vars, Idle
    <3> QED BY <1>1, <1>4, <2>4, <3>2, <3>3, <3>4, <3>5, <3>6 DEF Arrive, AccountsStay
  <2>5. ASSUME ForgotLock(r) \/ ResetBegin(r)
        PROVE  req[r].at \in {"forgot", "consumed"} /\ req'[r].user = req[r].user
    BY <2>5 DEF ForgotLock, ResetBegin, TypeOK
  <2> QED BY <1>4, <2>1, <2>2, <2>3, <2>4, <2>5, RequestSteps
<1> QED BY <1>2, <1>3, <1>4 DEF OwnersExist

LEMMA StepDrawn ==
  ASSUME Typed, [Next]_vars
  PROVE  DrawnTokens' /\ DrawnSessions'
<1>1. SessionsStay /\ TokensStay
  BY StepSessionsStay, StepTokensStay
<1> USE DEF Typed
<1> SUFFICES ASSUME NEW r \in Requests
             PROVE  /\ req'[r].at \in {"consumed", "reset"} =>
                         /\ tokens'[req'[r].tok] # Unused
                         /\ tokens'[req'[r].tok].user = req'[r].user
                    /\ req'[r].at = "forgot" =>
                         \A t \in req'[r].todo \cup req'[r].victims : tokens'[t] # Unused
                    /\ req'[r].at \in {"authed", "refresh"} =>
                         /\ sessions'[req'[r].sid] # Unused
                         /\ IsRow(req[r].sid)' => sessions'[req'[r].sid].user = req'[r].user
  BY DEF DrawnTokens, DrawnSessions, IsRow
<1>2. CASE req'[r] = req[r]
  <2>1. req[r].at \in {"consumed", "reset"} => req[r].tok \in TokenIds
    BY RequestKinds DEF Consumed, Reset
  <2>2. req[r].at = "forgot" => req[r].todo \cup req[r].victims \subseteq TokenIds
    BY RequestKinds DEF Forgot
  <2>3. req[r].at \in {"authed", "refresh"} => req[r].sid \in SessionIds
    BY RequestKinds DEF Authed, Refresh
  <2> QED BY <1>1, <1>2, <2>1, <2>2, <2>3
          DEF TokensStay, SessionsStay, DrawnTokens, DrawnSessions, IsRow
<1>3. CASE req'[r] = Idle
  BY <1>3 DEF Idle
<1>4. ASSUME NEW p \in Passwords, NEW q \in Passwords, ChangePasswordRead(r, p, q)
      PROVE  req'[r].at = "change"
  BY <1>4 DEF ChangePasswordRead, TypeOK
<1>5. ASSUME NEW u \in Users, NEW role \in Roles, NEW p \in Passwords,
             RegisterRead(r, u, role, p) \/ LoginRead(r, u, p)
      PROVE  req'[r].at \in {"register", "login"}
  BY <1>5 DEF RegisterRead, LoginRead, Start, TypeOK
<1>6. ASSUME NEW s \in SessionIds, RefreshRead(r, s) \/ Authenticate(r, s)
      PROVE  /\ req'[r].at \in {"authed", "refresh"}
             /\ sessions' = sessions
             /\ req'[r].sid = s /\ sessions[s] # Unused
             /\ req'[r].user = sessions[s].user
  BY <1>6 DEF RefreshRead, Authenticate, Start, FindActive, Unused, tables, TypeOK
<1>7. ASSUME NEW u \in Users, ForgotRead(r, u)
      PROVE  /\ req'[r].at = "forgot"
             /\ tokens' = tokens
             /\ \A t \in req'[r].todo \cup req'[r].victims : tokens[t] # Unused
  BY <1>7 DEF ForgotRead, Start, UnusedTokensOf, Unused, tables, TypeOK
<1>8. ASSUME NEW t \in TokenIds, NEW p \in Passwords, ResetConsume(r, t, p)
      PROVE  /\ req'[r].at = "consumed"
             /\ tokens' = tokens
             /\ req'[r].tok = t /\ tokens[t] # Unused
             /\ req'[r].user = tokens[t].user
  BY <1>8 DEF ResetConsume, Start, Consumable, Unused, tables, TypeOK
<1>9. CASE Refuse(r)
  BY <1>2, <1>9 DEF Refuse, vars
<1>10. CASE Arrive(r)
  <2>1. CASE \E u \in Users, role \in Roles, p \in Passwords : RegisterRead(r, u, role, p)
    BY <1>5, <2>1
  <2>2. CASE \E u \in Users, p \in Passwords : LoginRead(r, u, p)
    BY <2>2 DEF LoginRead, Start, TypeOK
  <2>3. CASE \E s \in SessionIds : RefreshRead(r, s) \/ Authenticate(r, s)
    BY <1>6, <2>3
  <2>4. CASE \E u \in Users : ForgotRead(r, u)
    BY <1>7, <2>4
  <2>5. CASE \E t \in TokenIds, p \in Passwords : ResetConsume(r, t, p)
    BY <1>8, <2>5
  <2> QED BY <1>9, <1>10, <2>1, <2>2, <2>3, <2>4, <2>5 DEF Arrive
<1>11. CASE ForgotLock(r)
  <2>1. PICK t \in NextToken(req[r].todo) :
          req' = [req EXCEPT ![r] = [at |-> "forgot", user |-> req[r].user,
                                     todo |-> req[r].todo \ {t},
                                     victims |-> req[r].victims \cup {t}]]
    BY <1>11 DEF ForgotLock
  <2>2. /\ req'[r].at = "forgot"
        /\ req'[r].todo \cup req'[r].victims = req[r].todo \cup req[r].victims
    BY <2>1 DEF NextToken, TypeOK
  <2> QED BY <1>11, <2>2 DEF ForgotLock, DrawnTokens, tables
<1>12. CASE ResetBegin(r)
  <2>1. /\ req'[r].at = "reset" /\ req'[r].tok = req[r].tok /\ req'[r].user = req[r].user
        /\ req[r].at = "consumed" /\ tokens' = tokens
    BY <1>12 DEF ResetBegin, TypeOK, tables
  <2> QED BY <2>1 DEF DrawnTokens
<1> QED BY <1>2, <1>3, <1>4, <1>10, <1>11, <1>12, RequestSteps

LEMMA StepTyped == Typed /\ [Next]_vars => Typed'
  BY StepTypes, StepOwnersExist, StepDrawn DEF Typed

\* Types, and what every row and every request refers to: no handler writes a
\* row whose owner is missing, whatever commits between its reads and its writes.
THEOREM TypesHold == Spec => []Typed
  BY InitTyped, StepTyped, PTL DEF Spec

\* Every reachable state has its types.
THEOREM TypeCorrect == Spec => []TypeOK
<1>1. Typed => TypeOK
  BY DEF Typed
<1> QED BY <1>1, TypesHold, PTL

(***************************************************************************)
(* Throttling.  A row is consistent when its two columns agree; every        *)
(* statement on an account keeps it so.                                     *)
(***************************************************************************)
Consistent(row) == row.block # "none" <=> row.failed >= MaxAttempts

LEMMA ThrottleOperations ==
  ASSUME NEW row \in Account, NEW p \in Passwords, Consistent(row)
  PROVE  /\ Consistent(AfterFailure(row))
         /\ Consistent(ResetFailedAttempts(row))
         /\ Consistent(UpdatePassword(row, p))
<1>1. row.failed \in Nat /\ MaxAttempts \in Nat /\ MaxAttempts > 0
  BY MaxAttemptsAssumption DEF Account
<1>2. /\ IncrementFailedAttempts(row).failed = row.failed + 1
      /\ IncrementFailedAttempts(row).block = row.block
      /\ BlockUser(IncrementFailedAttempts(row)).failed = row.failed + 1
      /\ BlockUser(IncrementFailedAttempts(row)).block = "future"
  BY DEF Account, IncrementFailedAttempts, BlockUser
<1>3. Consistent(AfterFailure(row))
  BY <1>1, <1>2 DEF Consistent, AfterFailure
<1>4. ResetFailedAttempts(row).failed = 0 /\ ResetFailedAttempts(row).block = "none"
  BY DEF Account, ResetFailedAttempts
<1>5. UpdatePassword(row, p).failed = 0 /\ UpdatePassword(row, p).block = "none"
  BY DEF Account, UpdatePassword
<1> QED BY <1>1, <1>3, <1>4, <1>5 DEF Consistent

LEMMA StepBlockIffThreshold ==
  ASSUME Typed, BlockIffThreshold, [Next]_vars
  PROVE  BlockIffThreshold'
<1> SUFFICES ASSUME NEW u \in Users, users'[u].exists
             PROVE  Consistent(users'[u])
  BY DEF BlockIffThreshold, Consistent
<1> USE DEF Typed, TypeOK, TablesTypeOK
<1>1. users[u].exists => users[u] \in Account /\ Consistent(users[u])
  BY RowKinds DEF BlockIffThreshold, Consistent
<1>2. CASE users'[u] = users[u]
  BY <1>1, <1>2
<1>3. ASSUME NEW r \in Requests, RegisterCommit(r), users'[u] # users[u]
      PROVE  Consistent(users'[u])
  BY <1>3, MaxAttemptsAssumption DEF RegisterCommit, NewAccount, Consistent
<1>4. ASSUME NEW r \in Requests, LoginFail(r) \/ LoginSucceed(r), users'[u] # users[u]
      PROVE  Consistent(users'[u])
  <2>1. req[r].user = u /\ users[u].exists
    BY <1>4 DEF LoginFail, LoginSucceed, OwnersExist
  <2>2. users'[u] = AfterFailure(users[u]) \/ users'[u] = ResetFailedAttempts(users[u])
    BY <1>4, <2>1 DEF LoginFail, LoginSucceed
  <2> QED BY <1>1, <2>1, <2>2, ThrottleOperations, SeedAssumption
<1>5. ASSUME NEW r \in Requests,
             \/ ChangePasswordCommit(r)
             \/ \E v \in Users, role \in Roles : ChangeUserRole(r, v, role)
             \/ \E v \in Users, active \in BOOLEAN : ToggleUserStatus(r, v, active),
             users'[u] # users[u]
      PROVE  Consistent(users'[u])
  <2>1. users[u].exists
    BY <1>5 DEF ChangePasswordCommit, ChangeUserRole, ToggleUserStatus, OwnersExist
  <2>2. users'[u].failed = users[u].failed /\ users'[u].block = users[u].block
    BY <1>1, <1>5, <2>1 DEF ChangePasswordCommit, ChangeUserRole, ToggleUserStatus, Account
  <2> QED BY <1>1, <2>1, <2>2 DEF Consistent
<1>6. ASSUME NEW r \in Requests, NEW v \in Users, UnlockUser(r, v), users'[u] # users[u]
      PROVE  Consistent(users'[u])
  <2>1. users[u].exists /\ users'[u] = ResetFailedAttempts(users[u])
    BY <1>6 DEF UnlockUser
  <2> QED BY <1>1, <2>1, ThrottleOperations, SeedAssumption
<1>7. ASSUME NEW r \in Requests, NEW v \in Users, NEW p \in Passwords,
             AdminResetPassword(r, v, p), users'[u] # users[u]
      PROVE  Consistent(users'[u])
  <2>1. users[u].exists /\ users'[u] = UpdatePassword(users[u], p)
    BY <1>7 DEF AdminResetPassword
  <2> QED BY <1>1, <2>1, ThrottleOperations
<1>8. ASSUME NEW r \in Requests, ResetCommit(r), users'[u] # users[u]
      PROVE  Consistent(users'[u])
  <2>1. req[r].user = u /\ users[u].exists /\ users'[u] = UpdatePassword(users[u], req[r].pw)
    BY <1>8 DEF ResetCommit, OwnersExist
  <2>2. req[r].pw \in Passwords
    BY <1>8, RequestKinds DEF ResetCommit, Reset
  <2> QED BY <1>1, <2>1, <2>2, ThrottleOperations
<1>9. ASSUME NEW v \in Users, BlockExpires(v), users'[u] # users[u]
      PROVE  Consistent(users'[u])
  <2>1. users[u].exists /\ users[u].block = "future"
    BY <1>9 DEF BlockExpires
  <2>2. users'[u].failed = users[u].failed /\ users'[u].block = "past"
    BY <1>1, <1>9, <2>1 DEF BlockExpires, Account
  <2> QED BY <1>1, <2>1, <2>2 DEF Consistent
<1> QED BY <1>2, <1>3, <1>4, <1>5, <1>6, <1>7, <1>8, <1>9, UsersSteps

\* An account has a blocked_until exactly when its counter has reached the
\* threshold, in every interleaving of logins, resets and unlocks.
THEOREM BlockIffThresholdHolds == Spec => []BlockIffThreshold
<1>1. Init => BlockIffThreshold
  BY MaxAttemptsAssumption
     DEF Init, BlockIffThreshold, SeedAccount, NewAccount, NoAccount
<1>2. Typed /\ BlockIffThreshold /\ [Next]_vars => BlockIffThreshold'
  BY StepBlockIffThreshold
<1> QED BY <1>1, <1>2, TypesHold, PTL DEF Spec

\* Only a failed login raises the counter, and from the threshold on it blocks
\* the account in the same transaction.
THEOREM FailureBlocksHolds == Spec => FailureBlocks
<1> DEFINE Blocked(u) == users[u].exists /\ users'[u].failed > users[u].failed
                           /\ users'[u].failed >= MaxAttempts
                         => users'[u].block = "future"
<1>1. ASSUME Typed, [Next]_vars, NEW u \in Users
      PROVE  Blocked(u)
  <2> SUFFICES ASSUME users[u].exists, users'[u].failed > users[u].failed,
                      users'[u].failed >= MaxAttempts
               PROVE  users'[u].block = "future"
    OBVIOUS
  <2> USE DEF Typed, TypeOK, TablesTypeOK
  <2>1. users[u] \in Account /\ users[u].failed \in Nat /\ MaxAttempts \in Nat
    BY <1>1, RowKinds, MaxAttemptsAssumption DEF Account
  <2>2. users'[u] # users[u] /\ users'[u].failed # users[u].failed /\ users'[u].failed # 0
    BY <2>1
  <2>3. ASSUME NEW r \in Requests, LoginFail(r)
        PROVE  users'[u].block = "future"
    <3>1. users'[u] = AfterFailure(users[u])
      BY <1>1, <2>2, <2>3 DEF LoginFail
    <3>2. AfterFailure(users[u]) = BlockUser(IncrementFailedAttempts(users[u]))
      <4> DEFINE raised == IncrementFailedAttempts(users[u])
      <4>1. CASE raised.failed >= MaxAttempts
        BY <4>1 DEF AfterFailure
      <4>2. CASE ~(raised.failed >= MaxAttempts)
        <5>1. users'[u] = raised
          BY <3>1, <4>2 DEF AfterFailure
        <5> QED BY <4>2, <5>1
      <4> QED BY <4>1, <4>2
    <3>3. BlockUser(IncrementFailedAttempts(users[u])).block = "future"
      BY <2>1 DEF Account, IncrementFailedAttempts, BlockUser
    <3> QED BY <3>1, <3>2, <3>3
  <2>4. ASSUME NEW r \in Requests, RegisterCommit(r)
        PROVE  FALSE
    BY <1>1, <2>2, <2>4 DEF RegisterCommit
  <2>5. ASSUME NEW r \in Requests,
               \/ LoginSucceed(r) \/ ResetCommit(r)
               \/ \E v \in Users : UnlockUser(r, v)
               \/ \E v \in Users, p \in Passwords : AdminResetPassword(r, v, p)
        PROVE  FALSE
    <3>1. /\ ResetFailedAttempts(users[u]).failed = 0
          /\ \A p : UpdatePassword(users[u], p).failed = 0
      BY <2>1 DEF Account, ResetFailedAttempts, UpdatePassword
    <3>2. CASE LoginSucceed(r) \/ \E v \in Users : UnlockUser(r, v)
      BY <1>1, <2>2, <3>1, <3>2 DEF LoginSucceed, UnlockUser
    <3>3. CASE ResetCommit(r)
      BY <1>1, <2>2, <3>1, <3>3 DEF ResetCommit
    <3>4. CASE \E v \in Users, p \in Passwords : AdminResetPassword(r, v, p)
      BY <1>1, <2>2, <3>1, <3>4 DEF AdminResetPassword
    <3> QED BY <2>5, <3>2, <3>3, <3>4
  <2>6. ASSUME NEW r \in Requests,
               \/ ChangePasswordCommit(r)
               \/ \E v \in Users, role \in Roles : ChangeUserRole(r, v, role)
               \/ \E v \in Users, active \in BOOLEAN : ToggleUserStatus(r, v, active)
        PROVE  FALSE
    BY <1>1, <2>1, <2>2, <2>6 DEF ChangePasswordCommit, ChangeUserRole, ToggleUserStatus, Account
  <2>7. ASSUME NEW v \in Users, BlockExpires(v)
        PROVE  FALSE
    BY <1>1, <2>1, <2>2, <2>7 DEF BlockExpires, Account
  <2> QED BY <1>1, <2>2, <2>3, <2>4, <2>5, <2>6, <2>7, UsersSteps
<1>2. Typed /\ [Next]_vars => [\A u \in Users : Blocked(u)]_vars
  BY <1>1
<1> QED BY <1>2, TypesHold, PTL DEF Spec, FailureBlocks

(***************************************************************************)
(* Roles.  A request carries the roles it has read across the commits of     *)
(* others, so they must stay justified until it writes them: roles an       *)
(* account has had are remembered.                                          *)
(***************************************************************************)
RolesHeld ==
  /\ SessionRoleJustified
  /\ \A u \in Users : users[u].exists => users[u].role \in held[u]
  /\ \A r \in Requests :
       /\ req[r].at \in {"login", "authed"} => req[r].role \in held[req[r].user]
       /\ req[r].at = "refresh" => Justified(req[r].user, req[r].role)

LEMMA StepHeldGrows ==
  ASSUME Typed, [Next]_vars
  PROVE  \A u \in Users : held[u] \subseteq held'[u]
<1>1. ASSUME NEW r \in Requests, RegisterCommit(r) \/ \E v \in Users, role \in Roles : ChangeUserRole(r, v, role)
      PROVE  \A u \in Users : held[u] \subseteq held'[u]
  BY <1>1 DEF RegisterCommit, ChangeUserRole, Typed, TypeOK
<1>2. ASSUME NEW r \in Requests, Proceed(r), ~RegisterCommit(r),
             ~\E v \in Users, role \in Roles : ChangeUserRole(r, v, role)
      PROVE  held' = held
  BY <1>2 DEF Proceed, RegisterConflict, LoginFail, LoginSucceed, RefreshCommit, Reject, Logout,
              ChangePasswordRead, ChangePasswordCommit, AssumeRole, ExitRoleAssumption,
              UnlockUser, AdminResetPassword, ToggleUserStatus, ForgotLock, ForgotCommit,
              ResetBegin, ResetCommit, history
<1>3. ASSUME NEW r \in Requests, Arrive(r)
      PROVE  held' = held
  BY <1>3 DEF Arrive, RegisterRead, LoginRead, RefreshRead, Authenticate, ForgotRead,
              ResetConsume, Refuse, vars, history
<1>4. ASSUME \/ \E r \in Requests : Rollback(r)
             \/ Clock
             \/ UNCHANGED vars
      PROVE  held' = held
  BY <1>4 DEF Rollback, Clock, BlockExpires, SessionExpires, TokenExpires, vars, history
<1> QED BY <1>1, <1>2, <1>3, <1>4 DEF Next

LEMMA StepPrimaryRoles ==
  ASSUME Typed, RolesHeld, [Next]_vars
  PROVE  \A u \in Users : users'[u].exists => users'[u].role \in held'[u]
<1> SUFFICES ASSUME NEW u \in Users, users'[u].exists
             PROVE  users'[u].role \in held'[u]
  OBVIOUS
<1> USE DEF Typed, TypeOK, TablesTypeOK
<1>1. held[u] \subseteq held'[u]
  BY StepHeldGrows
<1>2. users[u].exists => users[u] \in Account /\ users[u].role \in held'[u]
  BY <1>1, RowKinds DEF RolesHeld
<1>3. ASSUME NEW row \in Account, NEW p
      PROVE  /\ AfterFailure(row).role = row.role
             /\ ResetFailedAttempts(row).role = row.role
             /\ UpdatePassword(row, p).role = row.role
  BY DEF Account, AfterFailure, IncrementFailedAttempts, BlockUser, ResetFailedAttempts,
         UpdatePassword
<1>4. CASE users'[u] = users[u]
  BY <1>2, <1>4
<1>5. ASSUME NEW r \in Requests, RegisterCommit(r), users'[u] # users[u]
      PROVE  users'[u].role \in held'[u]
  <2>1. req[r].user = u /\ users'[u] = NewAccount(req[r].role, req[r].pw)
    BY <1>5 DEF RegisterCommit
  <2>2. req[r].role \in held'[u]
    BY <1>5, <2>1 DEF RegisterCommit
  <2> QED BY <2>1, <2>2 DEF NewAccount
<1>6. ASSUME NEW r \in Requests, LoginFail(r) \/ LoginSucceed(r), users'[u] # users[u]
      PROVE  users'[u].role \in held'[u]
  <2>1. /\ users[u].exists
        /\ users'[u] = AfterFailure(users[u]) \/ users'[u] = ResetFailedAttempts(users[u])
    BY <1>6 DEF LoginFail, LoginSucceed, OwnersExist
  <2> QED BY <1>2, <1>3, <2>1
<1>7. ASSUME NEW r \in Requests,
             \/ ChangePasswordCommit(r)
             \/ \E v \in Users, active \in BOOLEAN : ToggleUserStatus(r, v, active),
             users'[u] # users[u]
      PROVE  users'[u].role \in held'[u]
  <2>1. users[u].exists
    BY <1>7 DEF ChangePasswordCommit, ToggleUserStatus, OwnersExist
  <2>2. users'[u].role = users[u].role
    BY <1>2, <1>7, <2>1 DEF ChangePasswordCommit, ToggleUserStatus, Account
  <2> QED BY <1>2, <2>1, <2>2
<1>8. ASSUME NEW r \in Requests, NEW v \in Users, NEW role \in Roles, ChangeUserRole(r, v, role),
             users'[u] # users[u]
      PROVE  users'[u].role \in held'[u]
  <2>1. v = u /\ users[u].exists
    BY <1>8 DEF ChangeUserRole
  <2>2. users'[u].role = role
    BY <1>2, <1>8, <2>1 DEF ChangeUserRole, Account
  <2>3. role \in held'[u]
    BY <1>8, <2>1 DEF ChangeUserRole
  <2> QED BY <2>2, <2>3
<1>9. ASSUME NEW r \in Requests, NEW v \in Users, UnlockUser(r, v), users'[u] # users[u]
      PROVE  users'[u].role \in held'[u]
  <2>1. users[u].exists /\ users'[u] = ResetFailedAttempts(users[u])
    BY <1>9 DEF UnlockUser
  <2> QED BY <1>2, <1>3, <2>1
<1>10. ASSUME NEW r \in Requests, NEW v \in Users, NEW p \in Passwords,
              AdminResetPassword(r, v, p), users'[u] # users[u]
       PROVE  users'[u].role \in held'[u]
  <2>1. users[u].exists /\ users'[u] = UpdatePassword(users[u], p)
    BY <1>10 DEF AdminResetPassword
  <2> QED BY <1>2, <1>3, <2>1
<1>11. ASSUME NEW r \in Requests, ResetCommit(r), users'[u] # users[u]
       PROVE  users'[u].role \in held'[u]
  <2>1. users[u].exists /\ users'[u] = UpdatePassword(users[u], req[r].pw)
    BY <1>11 DEF ResetCommit, OwnersExist
  <2> QED BY <1>2, <1>3, <2>1
<1>12. ASSUME NEW v \in Users, BlockExpires(v), users'[u] # users[u]
       PROVE  users'[u].role \in held'[u]
  <2>1. users[u].exists
    BY <1>12 DEF BlockExpires
  <2>2. users'[u].role = users[u].role
    BY <1>2, <1>12, <2>1 DEF BlockExpires, Account
  <2> QED BY <1>2, <2>1, <2>2
<1> QED BY <1>4, <1>5, <1>6, <1>7, <1>8, <1>9, <1>10, <1>11, <1>12, UsersSteps

LEMMA StepRequestRoles ==
  ASSUME Typed, RolesHeld, [Next]_vars, NEW r \in Requests
  PROVE  /\ req'[r].at \in {"login", "authed"} => req'[r].role \in held'[req'[r].user]
         /\ req'[r].at = "refresh" =>
              \/ req'[r].role \in held'[req'[r].user]
              \/ held'[req'[r].user] \cap AssumingRoles # {} /\ req'[r].role # SuperAdmin
<1> USE DEF Typed
<1>1. \A u \in Users : held[u] \subseteq held'[u]
  BY StepHeldGrows
<1>2. CASE req'[r] = req[r]
  <2>1. req[r].at \in {"login", "authed", "refresh"} => req[r].user \in Users
    BY RequestKinds DEF Login, Authed, Refresh
  <2> QED BY <1>1, <1>2, <2>1 DEF RolesHeld, Justified
<1>3. CASE req'[r] = Idle
  BY <1>3 DEF Idle
<1>4. ASSUME NEW p \in Passwords, NEW q \in Passwords, ChangePasswordRead(r, p, q)
      PROVE  req'[r].at = "change"
  BY <1>4 DEF ChangePasswordRead, TypeOK
<1>5. ASSUME NEW u \in Users, NEW role \in Roles, NEW p \in Passwords, RegisterRead(r, u, role, p)
      PROVE  req'[r].at = "register"
  BY <1>5 DEF RegisterRead, Start, TypeOK
<1>6. ASSUME NEW u \in Users, NEW p \in Passwords, LoginRead(r, u, p)
      PROVE  req'[r].at = "login" /\ req'[r].role \in held'[req'[r].user]
  <2>1. req'[r].at = "login" /\ req'[r].user = u /\ req'[r].role = users[u].role /\ users[u].exists
    BY <1>6 DEF LoginRead, Start, MayAttempt, IsActive, TypeOK
  <2> QED BY <1>1, <2>1 DEF RolesHeld
<1>7. ASSUME NEW s \in SessionIds, RefreshRead(r, s)
      PROVE  /\ req'[r].at = "refresh"
             /\ \/ req'[r].role \in held'[req'[r].user]
                \/ held'[req'[r].user] \cap AssumingRoles # {} /\ req'[r].role # SuperAdmin
  <2>1. /\ req'[r].at = "refresh"
        /\ req'[r].user = sessions[s].user /\ req'[r].role = sessions[s].role /\ IsRow(s)
    BY <1>7 DEF RefreshRead, Start, FindActive, IsRow, TypeOK
  <2>2. sessions[s].user \in Users
    BY <2>1, RowKinds DEF TypeOK, SessionRow
  <2> QED BY <1>1, <2>1, <2>2 DEF RolesHeld, SessionRoleJustified, Justified
<1>8. ASSUME NEW s \in SessionIds, Authenticate(r, s)
      PROVE  req'[r].at = "authed" /\ req'[r].role \in held'[req'[r].user]
  <2>1. /\ req'[r].at = "authed" /\ IsRow(s)
        /\ req'[r].user = sessions[s].user /\ req'[r].role = users[sessions[s].user].role
        /\ users[sessions[s].user].exists
    BY <1>8 DEF Authenticate, Start, FindActive, IsActive, IsRow, TypeOK
  <2>2. sessions[s].user \in Users
    BY <2>1, RowKinds DEF TypeOK, SessionRow
  <2> QED BY <1>1, <2>1, <2>2 DEF RolesHeld
<1>9. ASSUME NEW u \in Users, ForgotRead(r, u)
      PROVE  req'[r].at = "forgot"
  BY <1>9 DEF ForgotRead, Start, TypeOK
<1>10. ASSUME NEW t \in TokenIds, NEW p \in Passwords, ResetConsume(r, t, p)
       PROVE  req'[r].at = "consumed"
  BY <1>10 DEF ResetConsume, Start, TypeOK
<1>11. CASE Refuse(r)
  BY <1>2, <1>11 DEF Refuse, vars
<1>12. CASE Arrive(r)
  <2>1. CASE \E u \in Users, p \in Passwords : LoginRead(r, u, p)
    BY <1>6, <2>1
  <2>2. CASE \E s \in SessionIds : RefreshRead(r, s)
    BY <1>7, <2>2
  <2>3. CASE \E s \in SessionIds : Authenticate(r, s)
    BY <1>8, <2>3
  <2> QED BY <1>5, <1>9, <1>10, <1>11, <1>12, <2>1, <2>2, <2>3 DEF Arrive
<1>13. ASSUME ForgotLock(r) \/ ResetBegin(r)
       PROVE  req'[r].at \in {"forgot", "reset"}
  BY <1>13 DEF ForgotLock, ResetBegin, TypeOK
<1> QED BY <1>2, <1>3, <1>4, <1>12, <1>13, RequestSteps

LEMMA StepSessionRoles ==
  ASSUME Typed, RolesHeld, [Next]_vars
  PROVE  SessionRoleJustified'
<1> USE DEF Typed
<1>1. \A u \in Users : held[u] \subseteq held'[u]
  BY StepHeldGrows
<1> DEFINE Fine(row) == row.status \in {"live", "expired"} =>
             \/ row.role \in held'[row.user]
             \/ held'[row.user] \cap AssumingRoles # {} /\ row.role # SuperAdmin
<1> SUFFICES ASSUME NEW s \in SessionIds
             PROVE  Fine(sessions'[s])
  BY DEF SessionRoleJustified, Justified, IsRow
<1>2. Fine(sessions[s])
  <2>1. IsRow(s) => sessions[s].user \in Users
    BY RowKinds DEF TypeOK, SessionRow
  <2> QED BY <1>1, <2>1 DEF RolesHeld, SessionRoleJustified, Justified, IsRow
<1>3. \A ss : Fine(Delete(sessions, ss)[s])
  BY <1>2 DEF Delete, Gone
<1>4. ASSUME NEW u \in Users, NEW role \in held'[u], NEW era, NEW root
      PROVE  Fine(NewSession(u, role, era, root))
  BY DEF NewSession
<1>5. ASSUME NEW r \in Requests, RegisterCommit(r), sessions'[s] # sessions[s]
      PROVE  Fine(sessions'[s])
  <2>1. /\ sessions'[s] = NewSession(req[r].user, req[r].role, resets[req[r].user], s)
        /\ req[r].user \in Users /\ req[r].role \in held'[req[r].user]
    BY <1>5, RequestKinds DEF RegisterCommit, Register, TypeOK, TablesTypeOK
  <2> HIDE DEF Fine
  <2> QED BY <1>4, <2>1
<1>6. ASSUME NEW r \in Requests, LoginSucceed(r), sessions'[s] # sessions[s]
      PROVE  Fine(sessions'[s])
  <2>1. /\ sessions'[s] = NewSession(req[r].user, req[r].role, resets[req[r].user], s)
        /\ req[r].user \in Users /\ req[r].role \in held'[req[r].user]
    BY <1>1, <1>6, RequestKinds DEF LoginSucceed, Login, RolesHeld, TypeOK, TablesTypeOK
  <2> HIDE DEF Fine
  <2> QED BY <1>4, <2>1
<1>7. ASSUME NEW r \in Requests, RefreshCommit(r)
      PROVE  Fine(sessions'[s])
  <2>1. PICK new \in SessionIds :
          sessions' = Rotated(req[r].sid, new,
                        NewSession(req[r].user, req[r].role, req[r].era, req[r].root))
    BY <1>7 DEF RefreshCommit
  <2>2. CASE s # new
    <3>1. sessions'[s] = Delete(sessions, {req[r].sid})[s]
      BY <2>1, <2>2 DEF Rotated, Delete
    <3> HIDE DEF Fine
    <3> QED BY <1>3, <3>1
  <2>3. CASE s = new
    <3>1. sessions'[s] = NewSession(req[r].user, req[r].role, req[r].era, req[r].root)
      BY <2>1, <2>3 DEF Rotated, Delete
    <3>2. Justified(req[r].user, req[r].role) /\ req[r].user \in Users
      BY <1>7, RequestKinds DEF RefreshCommit, RolesHeld, Refresh
    <3> QED BY <1>1, <3>1, <3>2 DEF NewSession, Justified
  <2> QED BY <2>2, <2>3
<1>8. ASSUME NEW r \in Requests, Logout(r) \/ ResetCommit(r)
      PROVE  Fine(sessions'[s])
  BY <1>3, <1>8 DEF Logout, ResetCommit
<1>9. ASSUME NEW r \in Requests, req[r].at = "authed", sessions'[s] # sessions[s],
             NEW role \in Roles, sessions' = UpdateRole(sessions, req[r].sid, role),
             \/ role = req[r].role
             \/ MayAssume(req[r].role, role)
      PROVE  Fine(sessions'[s])
  <2>1. req[r].sid = s /\ IsRow(s) /\ sessions'[s] = [sessions[s] EXCEPT !.role = role]
    BY <1>9, RequestKinds DEF UpdateRole, IsRow, Authed, TypeOK, TablesTypeOK
  <2>2. sessions[s] \in SessionRow /\ sessions[s].user = req[r].user
    BY <1>9, <2>1, RowKinds DEF DrawnSessions, TypeOK
  <2>3. sessions'[s].user = req[r].user /\ sessions'[s].role = role
    BY <2>1, <2>2 DEF SessionRow
  <2>4. req[r].role \in held'[req[r].user]
    BY <1>1, <1>9, RequestKinds DEF RolesHeld, Authed
  <2> QED BY <1>9, <2>3, <2>4 DEF MayAssume, AssumingRoles
<1>10. ASSUME NEW r \in Requests, NEW role \in Roles, AssumeRole(r, role), sessions'[s] # sessions[s]
       PROVE  Fine(sessions'[s])
  BY <1>9, <1>10 DEF AssumeRole
<1>11. ASSUME NEW r \in Requests, ExitRoleAssumption(r), sessions'[s] # sessions[s]
       PROVE  Fine(sessions'[s])
  BY <1>9, <1>11, RequestKinds DEF ExitRoleAssumption, RestoredRole, Authed
<1>12. ASSUME NEW x \in SessionIds, SessionExpires(x)
       PROVE  Fine(sessions'[s])
  <2>1. CASE s # x
    BY <1>2, <1>12, <2>1 DEF SessionExpires, TypeOK, TablesTypeOK
  <2>2. CASE s = x
    <3>1. sessions[s] \in SessionRow /\ IsRow(s)
      BY <1>12, <2>2, RowKinds DEF SessionExpires, IsRow, TypeOK
    <3>2. sessions'[s].role = sessions[s].role /\ sessions'[s].user = sessions[s].user
      BY <1>12, <2>2, <3>1 DEF SessionExpires, SessionRow, TypeOK, TablesTypeOK
    <3> QED BY <1>2, <3>1, <3>2 DEF IsRow
  <2> QED BY <2>1, <2>2
<1> HIDE DEF Fine
<1> QED BY <1>2, <1>5, <1>6, <1>7, <1>8, <1>10, <1>11, <1>12, SessionsSteps

\* No order of logins, rotations, role assumptions and role changes leaves a
\* session acting in a role that its owner was never given and could never
\* assume.
THEOREM SessionRoleJustifiedHolds == Spec => []SessionRoleJustified
<1>1. Init => RolesHeld
  BY SeedAssumption
     DEF Init, RolesHeld, SessionRoleJustified, IsRow, Unused, Idle, SeedAccount, NewAccount,
         NoAccount
<1>2. Typed /\ RolesHeld /\ [Next]_vars => RolesHeld'
  BY StepPrimaryRoles, StepRequestRoles, StepSessionRoles DEF RolesHeld, Justified
<1>3. RolesHeld => SessionRoleJustified
  BY DEF RolesHeld
<1> QED BY <1>1, <1>2, <1>3, TypesHold, PTL DEF Spec

(***************************************************************************)
(* Reset tokens.  A reset under way holds a token of its account that is not *)
(* used yet and that no other reset holds, so that its commit adds one to   *)
(* the used tokens when it adds one to the resets.                          *)
(***************************************************************************)
TokensHeld ==
  /\ \A r \in Requests : req[r].at \in {"consumed", "reset"} =>
       tokens[req[r].tok].status # "used"
  /\ \A r, q \in Requests :
       (req[r].at \in {"consumed", "reset"} /\ HoldsToken(q, req[r].tok)) => r = q

\* A request that holds a token in the next state held it, or locks it now.
LEMMA HeldTokens ==
  ASSUME Typed, [Next]_vars, NEW r \in Requests, NEW t \in TokenIds, HoldsToken(r, t)'
  PROVE  \/ /\ HoldsToken(r, t)
            /\ req[r].at \in {"consumed", "reset"} <=> req'[r].at \in {"consumed", "reset"}
         \/ /\ TokenFree(t) /\ tokens' = tokens
            /\ req'[r].at = "forgot" \/ tokens[t].status = "pending"
            /\ \A q \in Requests : q # r => req'[q] = req[q]
<1> USE DEF Typed
<1>1. CASE req'[r] = req[r]
  BY <1>1 DEF HoldsToken
<1>2. CASE req'[r] = Idle
  BY <1>2 DEF HoldsToken, Idle
<1>3. ASSUME NEW p \in Passwords, NEW q \in Passwords, ChangePasswordRead(r, p, q)
      PROVE  FALSE
  BY <1>3 DEF ChangePasswordRead, HoldsToken, TypeOK
<1>4. ASSUME NEW x \in TokenIds, NEW p \in Passwords, ResetConsume(r, x, p)
      PROVE  /\ TokenFree(t) /\ tokens' = tokens /\ tokens[t].status = "pending"
             /\ \A q \in Requests : q # r => req'[q] = req[q]
  <2>1. /\ req' = [req EXCEPT ![r] = [at |-> "consumed", user |-> tokens[x].user, tok |-> x, pw |-> p]]
        /\ TokenFree(x) /\ tokens' = tokens /\ tokens[x].status = "pending"
    BY <1>4 DEF ResetConsume, Start, Consumable, tables
  <2>2. x = t
    BY <2>1 DEF HoldsToken, TypeOK
  <2> QED BY <2>1, <2>2 DEF TypeOK
<1>5. ASSUME NEW u \in Users, ForgotRead(r, u)
      PROVE  FALSE
  BY <1>5 DEF ForgotRead, Start, HoldsToken, TypeOK
<1>6. CASE Arrive(r)
  <2>1. CASE \E x \in TokenIds, p \in Passwords : ResetConsume(r, x, p)
    BY <1>4, <2>1
  <2>2. CASE ~\E x \in TokenIds, p \in Passwords : ResetConsume(r, x, p)
    <3>1. \/ req' = req
          \/ req'[r].at \in {"register", "login", "refresh", "authed"}
      BY <1>5, <1>6, <2>2 DEF Arrive, RegisterRead, LoginRead, RefreshRead, Authenticate,
                              Refuse, Start, vars, TypeOK
    <3> QED BY <1>1, <3>1 DEF HoldsToken
  <2> QED BY <2>1, <2>2
<1>7. CASE ForgotLock(r)
  <2>1. PICK x \in NextToken(req[r].todo) :
          /\ TokenFree(x)
          /\ req' = [req EXCEPT ![r] = [at |-> "forgot", user |-> req[r].user,
                                        todo |-> req[r].todo \ {x},
                                        victims |-> req[r].victims \cup {x}]]
    BY <1>7 DEF ForgotLock
  <2>2. /\ req[r].at = "forgot" /\ req'[r].at = "forgot"
        /\ req'[r].victims = req[r].victims \cup {x} /\ tokens' = tokens
        /\ \A q \in Requests : q # r => req'[q] = req[q]
    BY <1>7, <2>1 DEF ForgotLock, TypeOK, tables
  <2>3. t \in req[r].victims \/ t = x
    BY <2>2 DEF HoldsToken
  <2> QED BY <2>1, <2>2, <2>3 DEF HoldsToken
<1>8. CASE ResetBegin(r)
  <2>1. /\ req[r].at = "consumed" /\ req'[r].at = "reset" /\ req'[r].tok = req[r].tok
    BY <1>8 DEF ResetBegin, TypeOK
  <2> QED BY <2>1 DEF HoldsToken
<1> QED BY <1>1, <1>2, <1>3, <1>6, <1>7, <1>8, RequestSteps

LEMMA StepTokensHeld ==
  ASSUME Typed, TokensHeld, [Next]_vars
  PROVE  TokensHeld'
<1> USE DEF Typed
<1>1. TypeOK'
  BY StepTypes
<1>2. ASSUME NEW r \in Requests, req'[r].at \in {"consumed", "reset"}
      PROVE  req'[r].tok \in TokenIds
  <2>1. req'[r].at = "consumed" => req'[r] \in Consumed
    BY <1>1, <1>2 DEF TypeOK, Request, Idle, Register, Login, Refresh, Authed, Change, Forgot,
                      Consumed, Reset
  <2>2. req'[r].at = "reset" => req'[r] \in Reset
    BY <1>1, <1>2 DEF TypeOK, Request, Idle, Register, Login, Refresh, Authed, Change, Forgot,
                      Consumed, Reset
  <2> QED BY <1>2, <2>1, <2>2 DEF Consumed, Reset
\* A token that a reset holds is written by nobody else.
<1>3. ASSUME NEW r \in Requests, req'[r].at \in {"consumed", "reset"},
             NEW t \in TokenIds, t = req'[r].tok
      PROVE  tokens'[t].status # "used"
  <2>1. HoldsToken(r, t)'
    BY <1>3 DEF HoldsToken
  <2>2. CASE /\ TokenFree(t) /\ tokens' = tokens
             /\ req'[r].at = "forgot" \/ tokens[t].status = "pending"
    BY <1>3, <2>2
  <2>3. CASE /\ HoldsToken(r, t)
             /\ req[r].at \in {"consumed", "reset"} <=> req'[r].at \in {"consumed", "reset"}
    <3>1. req[r].at \in {"consumed", "reset"} /\ req[r].tok = t /\ tokens[t].status # "used"
      BY <1>3, <2>3 DEF HoldsToken, TokensHeld
    <3>2. ASSUME NEW q \in Requests, ForgotCommit(q)
          PROVE  tokens'[t].status # "used"
      <4>1. req[q].at = "forgot" /\ ~HoldsToken(q, t)
        BY <3>1, <3>2 DEF ForgotCommit, TokensHeld
      <4>2. t \notin req[q].victims /\ tokens[t] # Unused
        BY <3>1, <4>1 DEF HoldsToken, DrawnTokens
      <4>3. tokens'[t] = tokens[t]
        BY <2>1, <3>2, <4>2 DEF ForgotCommit, MarkUsed
      <4> QED BY <3>1, <4>3
    <3>3. ASSUME NEW q \in Requests, ResetCommit(q)
          PROVE  tokens'[t].status # "used"
      <4>1. q # r
        BY <1>3, <3>3 DEF ResetCommit, Finish, Idle, TypeOK
      <4>2. req[q].tok # t
        BY <3>1, <3>3, <4>1 DEF ResetCommit, TokensHeld, HoldsToken
      <4> QED BY <2>1, <3>1, <3>3, <4>2 DEF ResetCommit, MarkUsed
    <3>4. ASSUME NEW x \in TokenIds, TokenExpires(x)
          PROVE  tokens'[t].status # "used"
      <4>1. CASE t # x
        BY <2>1, <3>1, <3>4, <4>1 DEF TokenExpires, TypeOK, TablesTypeOK
      <4>2. CASE t = x
        <5>1. tokens[x] \in TokenRow
          BY <3>4, RowKinds DEF TokenExpires, TypeOK
        <5> QED BY <3>4, <4>2, <5>1 DEF TokenExpires, TypeOK, TablesTypeOK, TokenRow
      <4> QED BY <4>1, <4>2
    <3> QED BY <3>1, <3>2, <3>3, <3>4, TokensSteps
  <2> QED BY <2>1, <2>2, <2>3, HeldTokens
\* Nobody else locks it.
<1>4. ASSUME NEW r \in Requests, NEW q \in Requests, req'[r].at \in {"consumed", "reset"},
             NEW t \in TokenIds, t = req'[r].tok, HoldsToken(q, t)', r # q
      PROVE  FALSE
  <2>1. HoldsToken(r, t)'
    BY <1>4 DEF HoldsToken
  <2>2. CASE HoldsToken(r, t) /\ HoldsToken(q, t) /\ req[r].at \in {"consumed", "reset"}
    <3>1. req[r].tok = t
      BY <2>2 DEF HoldsToken
    <3> QED BY <1>4, <2>2, <3>1 DEF TokensHeld
  <2>3. ASSUME NEW x \in Requests, NEW y \in Requests, x # y, TokenFree(t),
               \A z \in Requests : z # x => req'[z] = req[z], HoldsToken(y, t)'
        PROVE  FALSE
    <3>1. req'[y] = req[y]
      BY <2>3
    <3>2. HoldsToken(y, t)
      BY <2>3, <3>1 DEF HoldsToken
    <3> QED BY <2>3, <3>2 DEF TokenFree
  <2>4. \/ HoldsToken(r, t) /\ req[r].at \in {"consumed", "reset"}
        \/ TokenFree(t) /\ \A z \in Requests : z # r => req'[z] = req[z]
    BY <1>4, <2>1, HeldTokens
  <2>5. \/ HoldsToken(q, t)
        \/ TokenFree(t) /\ \A z \in Requests : z # q => req'[z] = req[z]
    BY <1>4, HeldTokens
  <2> QED BY <1>4, <2>1, <2>2, <2>3, <2>4, <2>5
<1>5. ASSUME NEW r \in Requests, NEW q \in Requests, req'[r].at \in {"consumed", "reset"},
             \/ req'[q].at \in {"consumed", "reset"} /\ req'[q].tok = req'[r].tok
             \/ req'[q].at = "forgot" /\ req'[r].tok \in req'[q].victims
      PROVE  r = q
  <2>1. PICK t \in TokenIds : t = req'[r].tok
    BY <1>2, <1>5
  <2>2. HoldsToken(q, t)'
    BY <1>5, <2>1 DEF HoldsToken
  <2> QED BY <1>4, <1>5, <2>1, <2>2
<1> QED BY <1>2, <1>3, <1>5 DEF TokensHeld, HoldsToken

LEMMA StepResetsSpendTokens ==
  ASSUME Typed, TokensHeld, ResetsSpendTokens, [Next]_vars
  PROVE  ResetsSpendTokens'
<1> USE DEF Typed
<1> SUFFICES ASSUME NEW u \in Users
             PROVE  resets'[u] <= Cardinality(UsedTokensOf(u)')
  BY DEF ResetsSpendTokens
<1>1. /\ IsFiniteSet(UsedTokensOf(u)) /\ IsFiniteSet(UsedTokensOf(u)')
      /\ Cardinality(UsedTokensOf(u)) \in Nat /\ Cardinality(UsedTokensOf(u)') \in Nat
  <2>1. UsedTokensOf(u) \subseteq TokenIds /\ UsedTokensOf(u)' \subseteq TokenIds
    BY DEF UsedTokensOf
  <2>2. IsFiniteSet(UsedTokensOf(u)) /\ IsFiniteSet(UsedTokensOf(u)')
    BY <2>1, FS_Subset, RequestsAssumption
  <2> QED BY <2>2, FS_CardinalityType
<1>2. resets[u] \in Nat /\ resets[u] <= Cardinality(UsedTokensOf(u))
  BY DEF ResetsSpendTokens, TypeOK
\* A used token stays used.
<1>3. ASSUME NEW t \in UsedTokensOf(u)
      PROVE  t \in UsedTokensOf(u)'
  <2>1. t \in TokenIds /\ tokens[t].status = "used" /\ tokens[t].user = u /\ tokens[t] # Unused
    BY DEF UsedTokensOf, Unused
  <2>2. tokens'[t].user = u
    BY <2>1, StepTokensStay DEF TokensStay
  <2>3. \A ts : MarkUsed(tokens, ts)[t].status = "used"
    BY <2>1, RowKinds DEF MarkUsed, TypeOK, TokenRow
  <2>4. ASSUME NEW r \in Requests, ForgotCommit(r)
        PROVE  tokens'[t].status = "used"
    <3>1. tokens'[t] = MarkUsed(tokens, req[r].victims)[t]
      BY <2>1, <2>4 DEF ForgotCommit, MarkUsed
    <3> QED BY <2>3, <3>1
  <2>5. ASSUME NEW r \in Requests, ResetCommit(r)
        PROVE  tokens'[t].status = "used"
    BY <2>3, <2>5 DEF ResetCommit
  <2>6. ASSUME NEW x \in TokenIds, TokenExpires(x)
        PROVE  tokens'[t].status = "used"
    BY <2>1, <2>6 DEF TokenExpires, TypeOK, TablesTypeOK
  <2>7. tokens'[t].status = "used"
    BY <2>1, <2>4, <2>5, <2>6, TokensSteps
  <2> QED BY <2>1, <2>2, <2>7 DEF UsedTokensOf
<1>4. UsedTokensOf(u) \subseteq UsedTokensOf(u)'
  BY <1>3
<1>5. CASE resets'[u] = resets[u]
  <2>1. Cardinality(UsedTokensOf(u)) <= Cardinality(UsedTokensOf(u)')
    BY <1>1, <1>4, FS_Subset
  <2> QED BY <1>1, <1>2, <1>5, <2>1
<1>6. ASSUME NEW r \in Requests, ResetCommit(r), req[r].user = u
      PROVE  resets'[u] <= Cardinality(UsedTokensOf(u)')
  <2> DEFINE t == req[r].tok
  <2>1. t \in TokenIds /\ tokens[t].status # "used" /\ tokens[t].user = u /\ tokens[t] # Unused
    BY <1>6, RequestKinds DEF ResetCommit, Reset, TokensHeld, DrawnTokens
  <2>2. tokens'[t].status = "used" /\ tokens'[t].user = u
    BY <1>6, <2>1, RowKinds DEF ResetCommit, MarkUsed, TypeOK, TokenRow
  <2>3. t \in UsedTokensOf(u)' /\ t \notin UsedTokensOf(u)
    BY <2>1, <2>2 DEF UsedTokensOf
  <2>4. UsedTokensOf(u) \cup {t} \subseteq UsedTokensOf(u)'
    BY <1>4, <2>3
  <2>5. Cardinality(UsedTokensOf(u) \cup {t}) = Cardinality(UsedTokensOf(u)) + 1
    BY <1>1, <2>3, FS_AddElement
  <2>6. Cardinality(UsedTokensOf(u) \cup {t}) <= Cardinality(UsedTokensOf(u)')
    BY <1>1, <2>4, FS_Subset
  <2>7. resets'[u] = resets[u] + 1
    BY <1>6 DEF ResetCommit, TypeOK
  <2> QED BY <1>1, <1>2, <2>5, <2>6, <2>7
<1>7. ASSUME NEW r \in Requests, ResetCommit(r), req[r].user # u
      PROVE  resets'[u] = resets[u]
  BY <1>7 DEF ResetCommit, TypeOK
<1> QED BY <1>5, <1>6, <1>7, StepResets

\* A reset token sets a password at most once, whichever requests present it
\* at the same time and whatever else invalidates it.
THEOREM ResetsSpendTokensHolds == Spec => []ResetsSpendTokens
<1>1. Init => TokensHeld /\ ResetsSpendTokens
  <2> SUFFICES ASSUME Init, NEW u \in Users
               PROVE  TokensHeld /\ resets[u] <= Cardinality(UsedTokensOf(u))
    BY DEF ResetsSpendTokens, Init, TokensHeld, HoldsToken, Idle
  <2>1. UsedTokensOf(u) = {}
    BY DEF Init, UsedTokensOf, Unused
  <2>2. TokensHeld /\ resets[u] = 0
    BY DEF Init, TokensHeld, Idle
  <2> QED BY <2>1, <2>2, FS_EmptySet
<1>2. Typed /\ TokensHeld /\ ResetsSpendTokens /\ [Next]_vars
        => TokensHeld' /\ ResetsSpendTokens'
  BY StepTokensHeld, StepResetsSpendTokens
<1> QED BY <1>1, <1>2, TypesHold, PTL DEF Spec

(***************************************************************************)
(* Overlaps.  The logins and accounts whose requests have overlapped are      *)
(* remembered, and what a step adds to the rows and to the requests is new.  *)
(***************************************************************************)
LEMMA StepRacesGrow ==
  ASSUME Typed, [Next]_vars
  PROVE  races.chains \subseteq races'.chains /\ races.accounts \subseteq races'.accounts
<1> USE DEF Typed, TypeOK
<1>1. ASSUME NEW r \in Requests, Arrive(r)
      PROVE  races.chains \subseteq races'.chains /\ races.accounts \subseteq races'.accounts
  <2>1. CASE \E s \in SessionIds : RefreshRead(r, s)
    BY <2>1 DEF RefreshRead
  <2>2. CASE \E u \in Users : ForgotRead(r, u)
    BY <2>2 DEF ForgotRead
  <2>3. CASE \E t \in TokenIds, p \in Passwords : ResetConsume(r, t, p)
    BY <2>3 DEF ResetConsume, history
  <2> QED BY <1>1, <2>1, <2>2, <2>3
          DEF Arrive, RegisterRead, LoginRead, Authenticate, Refuse, vars, history
<1>4. ASSUME NEW r \in Requests, ResetBegin(r)
      PROVE  races.chains \subseteq races'.chains /\ races.accounts \subseteq races'.accounts
  BY <1>4 DEF ResetBegin
<1>2. ASSUME NEW r \in Requests, Proceed(r), ~ResetBegin(r)
      PROVE  races' = races
  BY <1>2 DEF Proceed, RegisterCommit, RegisterConflict, LoginFail, LoginSucceed, RefreshCommit,
              Reject, Logout, ChangePasswordRead, ChangePasswordCommit, AssumeRole,
              ExitRoleAssumption, ChangeUserRole, UnlockUser, AdminResetPassword,
              ToggleUserStatus, ForgotLock, ForgotCommit, ResetCommit, history
<1>3. ASSUME (\E r \in Requests : Rollback(r)) \/ Clock \/ UNCHANGED vars
      PROVE  races' = races
  BY <1>3 DEF Rollback, Clock, BlockExpires, SessionExpires, TokenExpires, vars, history
<1> QED BY <1>1, <1>2, <1>3, <1>4 DEF Next

\* A request under way has read what it holds in this step, or is as it was.
LEMMA RequestStarted ==
  ASSUME Typed, [Next]_vars, NEW r \in Requests
  PROVE  /\ req'[r].at = "login" =>
              req'[r] = req[r] \/ \E u \in Users, p \in Passwords : LoginRead(r, u, p)
         /\ req'[r].at = "refresh" =>
              req'[r] = req[r] \/ \E s \in SessionIds : RefreshRead(r, s)
         /\ req'[r].at = "forgot" =>
              req'[r] = req[r] \/ ForgotLock(r) \/ \E u \in Users : ForgotRead(r, u)
         /\ req'[r].at = "reset" => req'[r] = req[r] \/ ResetBegin(r)
<1> USE DEF Typed, TypeOK
<1>1. ASSUME NEW p \in Passwords, NEW q \in Passwords, ChangePasswordRead(r, p, q)
      PROVE  req'[r].at = "change"
  BY <1>1 DEF ChangePasswordRead
<1>2. ASSUME NEW u \in Users, NEW role \in Roles, NEW p \in Passwords, RegisterRead(r, u, role, p)
      PROVE  req'[r].at = "register"
  BY <1>2 DEF RegisterRead, Start
<1>3. ASSUME NEW u \in Users, NEW p \in Passwords, LoginRead(r, u, p)
      PROVE  req'[r].at = "login"
  BY <1>3 DEF LoginRead, Start
<1>4. ASSUME NEW s \in SessionIds
      PROVE  /\ RefreshRead(r, s) => req'[r].at = "refresh"
             /\ Authenticate(r, s) => req'[r].at = "authed"
  BY DEF RefreshRead, Authenticate, Start
<1>5. ASSUME NEW u \in Users, ForgotRead(r, u)
      PROVE  req'[r].at = "forgot"
  BY <1>5 DEF ForgotRead, Start
<1>6. ASSUME NEW t \in TokenIds, NEW p \in Passwords, ResetConsume(r, t, p)
      PROVE  req'[r].at = "consumed"
  BY <1>6 DEF ResetConsume, Start
<1>7. CASE Refuse(r)
  BY <1>7 DEF Refuse, vars
<1> HIDE DEF Typed, TypeOK
<1>8. CASE Arrive(r) /\ ~Refuse(r)
  <2>1. CASE \E u \in Users, role \in Roles, p \in Passwords : RegisterRead(r, u, role, p)
    BY <1>2, <2>1
  <2>2. CASE \E u \in Users, p \in Passwords : LoginRead(r, u, p)
    BY <1>3, <2>2
  <2>3. CASE \E s \in SessionIds : RefreshRead(r, s) \/ Authenticate(r, s)
    BY <1>4, <2>3
  <2>4. CASE \E u \in Users : ForgotRead(r, u)
    BY <1>5, <2>4
  <2>5. CASE \E t \in TokenIds, p \in Passwords : ResetConsume(r, t, p)
    BY <1>6, <2>5
  <2> QED BY <1>8, <2>1, <2>2, <2>3, <2>4, <2>5 DEF Arrive
<1>9. CASE Arrive(r)
  BY <1>7, <1>8, <1>9
<1>10. CASE req'[r] = Idle
  BY <1>10 DEF Idle
<1>11. /\ ForgotLock(r) => req'[r].at = "forgot"
       /\ ResetBegin(r) => req'[r].at = "reset"
  BY DEF ForgotLock, ResetBegin, Typed, TypeOK
<1> QED BY <1>1, <1>9, <1>10, <1>11, RequestSteps DEF Typed

\* Every row of the next state was a row of the same login before, or is inserted
\* by a login or a registration, whose root is the row itself, or by a refresh.
LEMMA SessionWritten ==
  ASSUME Typed, [Next]_vars, NEW s \in SessionIds, IsRow(s)'
  PROVE  \/ /\ IsRow(s)
            /\ sessions'[s].user = sessions[s].user
            /\ sessions'[s].era = sessions[s].era
            /\ sessions'[s].root = sessions[s].root
         \/ /\ sessions[s] = Unused
            /\ \E r \in Requests :
                 /\ RegisterCommit(r) \/ LoginSucceed(r)
                 /\ sessions'[s].user = req[r].user
                 /\ sessions'[s].era = resets[req[r].user]
                 /\ sessions'[s].root = s
                 /\ \A x \in SessionIds \ {s} : sessions'[x] = sessions[x]
         \/ /\ sessions[s] = Unused
            /\ \E r \in Requests :
                 /\ RefreshCommit(r)
                 /\ sessions'[s].user = req[r].user
                 /\ sessions'[s].era = req[r].era
                 /\ sessions'[s].root = req[r].root
                 /\ \A x \in SessionIds \ {s} :
                      sessions'[x] = IF x = req[r].sid /\ sessions[x] # Unused
                                     THEN Gone ELSE sessions[x]
<1> USE DEF Typed, TypeOK, TablesTypeOK
<1>1. CASE sessions[s] # Unused
  BY <1>1, StepSessionsStay DEF SessionsStay
<1>2. CASE sessions[s] = Unused
  <2>1. sessions'[s] # sessions[s]
    BY <1>2 DEF IsRow, Unused
  <2>2. ASSUME NEW r \in Requests, RegisterCommit(r) \/ LoginSucceed(r)
        PROVE  /\ sessions'[s].user = req[r].user
               /\ sessions'[s].era = resets[req[r].user]
               /\ sessions'[s].root = s
               /\ \A x \in SessionIds \ {s} : sessions'[x] = sessions[x]
    <3>1. PICK new \in SessionIds :
            sessions' = [sessions EXCEPT ![new] =
                           NewSession(req[r].user, req[r].role, resets[req[r].user], new)]
      BY <2>2 DEF RegisterCommit, LoginSucceed
    <3>2. new = s
      BY <2>1, <3>1
    <3> QED BY <3>1, <3>2 DEF NewSession
  <2>3. ASSUME NEW r \in Requests, RefreshCommit(r)
        PROVE  /\ sessions'[s].user = req[r].user
               /\ sessions'[s].era = req[r].era
               /\ sessions'[s].root = req[r].root
               /\ \A x \in SessionIds \ {s} :
                    sessions'[x] = IF x = req[r].sid /\ sessions[x] # Unused
                                   THEN Gone ELSE sessions[x]
    <3>1. PICK new \in SessionIds :
            sessions' = Rotated(req[r].sid, new,
                          NewSession(req[r].user, req[r].role, req[r].era, req[r].root))
      BY <2>3 DEF RefreshCommit
    <3>2. new = s
      BY <1>2, <2>1, <3>1 DEF Rotated, Delete
    <3> QED BY <3>1, <3>2 DEF Rotated, Delete, NewSession
  <2>4. ASSUME NEW r \in Requests,
               \/ Logout(r) \/ ResetCommit(r) \/ ExitRoleAssumption(r)
               \/ \E role \in Roles : AssumeRole(r, role)
        PROVE  FALSE
    <3>1. \A ss : Delete(sessions, ss)[s] = sessions[s]
      BY <1>2 DEF Delete
    <3>2. \A x, role : UpdateRole(sessions, x, role)[s] = sessions[s]
      BY <1>2 DEF UpdateRole, Unused
    <3> QED BY <2>1, <2>4, <3>1, <3>2
            DEF Logout, ResetCommit, ExitRoleAssumption, AssumeRole
  <2>5. ASSUME NEW x \in SessionIds, SessionExpires(x)
        PROVE  FALSE
    BY <1>2, <2>1, <2>5 DEF SessionExpires, Unused
  <2> QED BY <1>2, <2>1, <2>2, <2>3, <2>4, <2>5, SessionsSteps
<1> QED BY <1>1, <1>2

\* What a refresh reads, and what its reading leaves alone.
LEMMA RefreshReads ==
  ASSUME Typed, NEW r \in Requests, NEW s \in SessionIds, RefreshRead(r, s)
  PROVE  /\ IsRow(s) /\ sessions' = sessions /\ resets' = resets
         /\ req'[r].sid = s
         /\ req'[r].user = sessions[s].user
         /\ req'[r].era = sessions[s].era
         /\ req'[r].root = sessions[s].root
         /\ \A q \in Requests : q # r => req'[q] = req[q]
         /\ \A q \in Requests : req[q].at = "refresh" /\ req[q].sid = s
              => sessions[s].root \in races'.chains
         /\ ~RowFree(sessions[s].user) => sessions[s].root \in races'.chains
<1> USE DEF Typed, TypeOK
<1>1. /\ IsRow(s) /\ sessions' = sessions /\ resets' = resets
      /\ req' = [req EXCEPT ![r] =
                   [at |-> "refresh", user |-> sessions[s].user, sid |-> s,
                    role |-> sessions[s].role, era |-> sessions[s].era,
                    root |-> sessions[s].root]]
  BY DEF RefreshRead, Start, FindActive, IsRow, tables
<1>2. /\ \A q \in Requests : req[q].at = "refresh" /\ req[q].sid = s
           => sessions[s].root \in races'.chains
      /\ ~RowFree(sessions[s].user) => sessions[s].root \in races'.chains
  BY DEF RefreshRead, At
<1> QED BY <1>1, <1>2

(***************************************************************************)
(* Rotation.  A login that no overlap concerns has one session, or a refresh  *)
(* under way that will replace it: nobody else refreshes it, and the session *)
(* that is presented is the only row left of the login.                     *)
(***************************************************************************)
RootsDrawn ==
  /\ \A s \in SessionIds : IsRow(s) => sessions[sessions[s].root] # Unused
  /\ \A r \in Requests : req[r].at = "refresh" => sessions[req[r].root] # Unused

RefreshedAlone ==
  \A r \in Requests : req[r].at = "refresh" /\ req[r].root \notin races.chains =>
    /\ \A s \in SessionIds : IsRow(s) /\ sessions[s].root = req[r].root => s = req[r].sid
    /\ \A q \in Requests : req[q].at = "refresh" /\ req[q].root = req[r].root => q = r

LEMMA StepRootsDrawn ==
  ASSUME Typed, RootsDrawn, [Next]_vars
  PROVE  RootsDrawn'
<1>1. SessionsStay
  BY StepSessionsStay
<1>2. ASSUME NEW s \in SessionIds, IsRow(s)
      PROVE  sessions[s].root \in SessionIds
  BY <1>2, RowKinds DEF Typed, TypeOK, SessionRow
<1>3. ASSUME NEW r \in Requests, req[r].at = "refresh"
      PROVE  req[r].root \in SessionIds
  BY <1>3, RequestKinds DEF Typed, Refresh
<1>4. ASSUME NEW s \in SessionIds, IsRow(s)'
      PROVE  sessions'[sessions'[s].root] # Unused
  <2>1. CASE IsRow(s) /\ sessions'[s].root = sessions[s].root
    BY <1>1, <1>2, <2>1 DEF RootsDrawn, SessionsStay
  <2>2. CASE sessions'[s].root = s
    BY <1>4, <2>2 DEF IsRow, Unused
  <2>3. ASSUME NEW r \in Requests, RefreshCommit(r), sessions'[s].root = req[r].root
        PROVE  sessions'[sessions'[s].root] # Unused
    BY <1>1, <1>3, <2>3 DEF RefreshCommit, RootsDrawn, SessionsStay
  <2> QED BY <1>4, <2>1, <2>2, <2>3, SessionWritten
<1>5. ASSUME NEW r \in Requests, req'[r].at = "refresh"
      PROVE  sessions'[req'[r].root] # Unused
  <2>1. CASE req'[r] = req[r]
    BY <1>1, <1>3, <1>5, <2>1 DEF RootsDrawn, SessionsStay
  <2>2. ASSUME NEW s \in SessionIds, RefreshRead(r, s)
        PROVE  sessions'[req'[r].root] # Unused
    BY <2>2, RefreshReads DEF RootsDrawn
  <2> QED BY <1>5, <2>1, <2>2, RequestStarted
<1> QED BY <1>4, <1>5 DEF RootsDrawn, IsRow

LEMMA StepRotationUnique ==
  ASSUME Typed, RootsDrawn, RefreshedAlone, RotationUnique, [Next]_vars
  PROVE  RotationUnique'
<1> SUFFICES ASSUME NEW s1 \in SessionIds, NEW s2 \in SessionIds, IsRow(s1)', IsRow(s2)',
                    sessions'[s1].root = sessions'[s2].root, s1 # s2,
                    sessions'[s1].root \notin races'.chains
             PROVE  FALSE
  BY DEF RotationUnique, IsRow
<1>1. sessions'[s1].root \notin races.chains
  BY StepRacesGrow
\* A row that is inserted is the only row of its login.
<1>2. ASSUME NEW x \in SessionIds, NEW y \in SessionIds, x # y, IsRow(x)', IsRow(y)',
             sessions'[x].root = sessions'[y].root, sessions'[x].root \notin races.chains,
             sessions[x] = Unused
      PROVE  FALSE
  <2>1. ASSUME NEW r \in Requests, sessions'[x].root = x,
               \A z \in SessionIds \ {x} : sessions'[z] = sessions[z]
        PROVE  FALSE
    <3>1. IsRow(y) /\ sessions[y].root = x
      BY <1>2, <2>1 DEF IsRow
    <3> QED BY <1>2, <3>1 DEF RootsDrawn
  <2>2. ASSUME NEW r \in Requests, RefreshCommit(r), sessions'[x].root = req[r].root,
               \A z \in SessionIds \ {x} :
                 sessions'[z] = IF z = req[r].sid /\ sessions[z] # Unused THEN Gone ELSE sessions[z]
        PROVE  FALSE
    <3>1. sessions'[y] # Gone /\ sessions'[y] # Unused
      BY <1>2 DEF IsRow, Gone, Unused
    <3>2. y # req[r].sid /\ sessions'[y] = sessions[y]
      BY <1>2, <2>2, <3>1
    <3>3. IsRow(y) /\ sessions[y].root = req[r].root
      BY <1>2, <2>2, <3>2 DEF IsRow
    <3> QED BY <1>2, <2>2, <3>2, <3>3 DEF RefreshCommit, RefreshedAlone
  <2>3. ~IsRow(x)
    BY <1>2 DEF IsRow, Unused
  <2> QED BY <1>2, <2>1, <2>2, <2>3, SessionWritten
<1>3. CASE sessions[s1] = Unused \/ sessions[s2] = Unused
  BY <1>1, <1>2, <1>3
<1>4. CASE sessions[s1] # Unused /\ sessions[s2] # Unused
  <2>1. /\ IsRow(s1) /\ sessions'[s1].root = sessions[s1].root
        /\ IsRow(s2) /\ sessions'[s2].root = sessions[s2].root
    BY <1>4, StepSessionsStay DEF SessionsStay
  <2> QED BY <1>1, <2>1 DEF RotationUnique
<1> QED BY <1>3, <1>4

LEMMA StepRefreshedAlone ==
  ASSUME Typed, RootsDrawn, RefreshedAlone, RotationUnique, [Next]_vars
  PROVE  RefreshedAlone'
<1> SUFFICES ASSUME NEW r \in Requests, req'[r].at = "refresh",
                    req'[r].root \notin races'.chains
             PROVE  /\ \A s \in SessionIds : IsRow(s)' /\ sessions'[s].root = req'[r].root
                          => s = req'[r].sid
                    /\ \A q \in Requests : req'[q].at = "refresh" /\ req'[q].root = req'[r].root
                          => q = r
  BY DEF RefreshedAlone, IsRow
<1>1. req'[r].root \notin races.chains
  BY StepRacesGrow
<1>2. ASSUME NEW s \in SessionIds, IsRow(s)', sessions'[s].root = req'[r].root
      PROVE  s = req'[r].sid
  <2>1. CASE req'[r] = req[r]
    <3>1. CASE IsRow(s) /\ sessions'[s].root = sessions[s].root
      BY <1>1, <1>2, <2>1, <3>1 DEF RefreshedAlone
    <3>2. CASE sessions[s] = Unused /\ sessions'[s].root = s
      BY <1>2, <2>1, <3>2 DEF RootsDrawn
    <3>3. ASSUME NEW q \in Requests, RefreshCommit(q), sessions'[s].root = req[q].root
          PROVE  FALSE
      <4>1. q # r
        BY <2>1, <3>3 DEF RefreshCommit, Finish, Idle, Typed, TypeOK
      <4> QED BY <1>1, <1>2, <2>1, <3>3, <4>1 DEF RefreshCommit, RefreshedAlone
    <3> QED BY <1>2, <3>1, <3>2, <3>3, SessionWritten
  <2>2. ASSUME NEW x \in SessionIds, RefreshRead(r, x)
        PROVE  s = req'[r].sid
    BY <1>1, <1>2, <2>2, RefreshReads DEF RotationUnique, IsRow
  <2> QED BY <2>1, <2>2, RequestStarted
\* A refresh that begins finds no other one of its login.
<1>3. ASSUME NEW p \in Requests, NEW q \in Requests, p # q, NEW x \in SessionIds,
             RefreshRead(p, x), req'[q].at = "refresh", req'[q].root = req'[p].root,
             req'[p].root \notin races'.chains
      PROVE  FALSE
  <2>1. req[q].at = "refresh" /\ req[q].root = sessions[x].root /\ IsRow(x)
    BY <1>3, RefreshReads
  <2>2. req[q].root \notin races.chains
    BY <1>3, <2>1, RefreshReads, StepRacesGrow
  <2>3. req[q].sid = x
    BY <2>1, <2>2 DEF RefreshedAlone
  <2> QED BY <1>3, <2>1, <2>3, RefreshReads
<1>4. ASSUME NEW q \in Requests, req'[q].at = "refresh", req'[q].root = req'[r].root
      PROVE  q = r
  <2>1. CASE req'[r] = req[r] /\ req'[q] = req[q]
    BY <1>1, <1>4, <2>1 DEF RefreshedAlone
  <2> QED BY <1>3, <1>4, <2>1, RequestStarted
<1> QED BY <1>2, <1>4

\* Only overlapping refreshes of one session, or one that overlaps a reset of the
\* account, give a login two sessions.
THEOREM RotationUniqueHolds == Spec => []RotationUnique
<1>1. Init => RootsDrawn /\ RefreshedAlone /\ RotationUnique
  BY DEF Init, RootsDrawn, RefreshedAlone, RotationUnique, IsRow, Unused, Idle
<1>2. Typed /\ RootsDrawn /\ RefreshedAlone /\ RotationUnique /\ [Next]_vars
        => RootsDrawn' /\ RefreshedAlone' /\ RotationUnique'
  BY StepRootsDrawn, StepRefreshedAlone, StepRotationUnique
<1> QED BY <1>1, <1>2, TypesHold, PTL DEF Spec

(***************************************************************************)
(* Revocation.  While a reset is under way, every row of its account is among *)
(* those it will remove, or of a login a refresh of which overlaps the reset: *)
(* the reset's row locks keep logins out, and the refreshes are remembered.  *)
(***************************************************************************)
RefreshesCurrent ==
  \A q \in Requests : req[q].at = "refresh" =>
    req[q].era = resets[req[q].user] \/ req[q].root \in races.chains

ResetsCover ==
  \A r \in Requests : req[r].at = "reset" =>
    /\ \A q \in Requests : req[q].at = "refresh" /\ req[q].user = req[r].user
         => req[q].root \in races.chains
    /\ \A s \in SessionIds : IsRow(s) /\ sessions[s].user = req[r].user
         => s \in req[r].victims \/ sessions[s].root \in races.chains
    /\ \A q \in Requests : req[q].at = "reset" /\ req[q].user = req[r].user => q = r

LEMMA ResetReads ==
  ASSUME Typed, NEW r \in Requests, ResetBegin(r)
  PROVE  /\ sessions' = sessions /\ tokens' = tokens
         /\ req'[r].user = req[r].user
         /\ req'[r].victims = SessionsOf(req[r].user)
         /\ \A q \in Requests : q # r => req'[q] = req[q]
         /\ \A q \in Requests : ~(req[q].at = "reset" /\ req[q].user = req[r].user)
         /\ \A q \in Requests : req[q].at = "refresh" /\ req[q].user = req[r].user
              => req[q].root \in races'.chains
<1> USE DEF Typed, TypeOK
<1>1. /\ sessions' = sessions /\ tokens' = tokens
      /\ req' = [req EXCEPT ![r] =
                   [at |-> "reset", user |-> req[r].user, tok |-> req[r].tok, pw |-> req[r].pw,
                    victims |-> SessionsOf(req[r].user)]]
  BY DEF ResetBegin, tables
<1>2. \A q \in Requests : ~(req[q].at = "reset" /\ req[q].user = req[r].user)
  BY DEF ResetBegin, RowFree, HoldsUser
<1>3. \A q \in Requests : req[q].at = "refresh" /\ req[q].user = req[r].user
        => req[q].root \in races'.chains
  BY DEF ResetBegin, At
<1> QED BY <1>1, <1>2, <1>3

LEMMA StepResetRevokes ==
  ASSUME Typed, RefreshesCurrent, ResetsCover, ResetRevokesSessions, [Next]_vars
  PROVE  ResetRevokesSessions'
<1> SUFFICES ASSUME NEW s \in SessionIds, IsRow(s)', sessions'[s].root \notin races'.chains
             PROVE  sessions'[s].era = resets'[sessions'[s].user]
  BY DEF ResetRevokesSessions, IsRow
<1>1. sessions'[s].root \notin races.chains
  BY StepRacesGrow
<1>2. CASE resets' = resets
  <2>1. ASSUME NEW q \in Requests, RefreshCommit(q), sessions'[s].root = req[q].root,
               sessions'[s].user = req[q].user, sessions'[s].era = req[q].era
        PROVE  sessions'[s].era = resets'[sessions'[s].user]
    BY <1>1, <1>2, <2>1 DEF RefreshCommit, RefreshesCurrent
  <2> QED BY <1>1, <1>2, <2>1, SessionWritten DEF ResetRevokesSessions
<1>3. ASSUME NEW r \in Requests, ResetCommit(r)
      PROVE  sessions'[s].era = resets'[sessions'[s].user]
  <2>1. sessions'[s] = sessions[s] /\ IsRow(s) /\ s \notin req[r].victims
    <3>1. sessions'[s] # Gone /\ sessions'[s] # Unused
      BY DEF IsRow, Gone, Unused
    <3>2. sessions'[s] = sessions[s] /\ s \notin req[r].victims
      BY <1>3, <3>1 DEF ResetCommit, Delete
    <3> QED BY <3>2 DEF IsRow
  <2>2. sessions[s].user # req[r].user
    BY <1>1, <1>3, <2>1 DEF ResetCommit, ResetsCover
  <2>3. resets'[sessions[s].user] = resets[sessions[s].user]
    BY <1>3, <2>2 DEF ResetCommit, Typed, TypeOK
  <2> QED BY <1>1, <2>1, <2>3 DEF ResetRevokesSessions
<1> QED BY <1>2, <1>3, StepResets

LEMMA StepRefreshesCurrent ==
  ASSUME Typed, RefreshesCurrent, ResetsCover, ResetRevokesSessions, [Next]_vars
  PROVE  RefreshesCurrent'
<1> SUFFICES ASSUME NEW q \in Requests, req'[q].at = "refresh", req'[q].root \notin races'.chains
             PROVE  req'[q].era = resets'[req'[q].user]
  BY DEF RefreshesCurrent
<1>1. req'[q].root \notin races.chains
  BY StepRacesGrow
<1>2. ASSUME NEW s \in SessionIds, RefreshRead(q, s)
      PROVE  req'[q].era = resets'[req'[q].user]
  BY <1>1, <1>2, RefreshReads DEF ResetRevokesSessions
<1>3. CASE req'[q] = req[q] /\ resets' = resets
  BY <1>1, <1>3 DEF RefreshesCurrent
<1>4. ASSUME req'[q] = req[q], NEW r \in Requests, ResetCommit(r)
      PROVE  req'[q].era = resets'[req'[q].user]
  <2>1. req[q].user # req[r].user
    BY <1>1, <1>4 DEF ResetCommit, ResetsCover
  <2>2. resets'[req[q].user] = resets[req[q].user]
    BY <1>4, <2>1 DEF ResetCommit, Typed, TypeOK
  <2> QED BY <1>1, <1>4, <2>2 DEF RefreshesCurrent
<1> QED BY <1>2, <1>3, <1>4, StepResets, RequestStarted

LEMMA StepResetsCover ==
  ASSUME Typed, ResetsCover, [Next]_vars
  PROVE  ResetsCover'
<1>1. races.chains \subseteq races'.chains
  BY StepRacesGrow
<1>2. ASSUME NEW r \in Requests, req'[r].at = "reset",
             NEW q \in Requests, req'[q].at = "refresh", req'[q].user = req'[r].user
      PROVE  req'[q].root \in races'.chains
  <2>1. CASE req'[r] = req[r] /\ req'[q] = req[q]
    BY <1>1, <1>2, <2>1 DEF ResetsCover
  <2>2. ASSUME NEW s \in SessionIds, RefreshRead(q, s)
        PROVE  req'[q].root \in races'.chains
    <3>1. req[r].at = "reset" /\ req[r].user = sessions[s].user
      BY <1>2, <2>2, RefreshReads
    <3> QED BY <2>2, <3>1, RefreshReads DEF RowFree, HoldsUser
  <2>3. ASSUME ResetBegin(r)
        PROVE  req'[q].root \in races'.chains
    BY <1>2, <2>3, ResetReads
  <2> QED BY <1>2, <2>1, <2>2, <2>3, RequestStarted
<1>3. ASSUME NEW r \in Requests, req'[r].at = "reset",
             NEW s \in SessionIds, IsRow(s)', sessions'[s].user = req'[r].user
      PROVE  s \in req'[r].victims \/ sessions'[s].root \in races'.chains
  <2>1. ASSUME ResetBegin(r)
        PROVE  s \in req'[r].victims
    BY <1>3, <2>1, ResetReads DEF SessionsOf, IsRow
  <2>2. CASE req'[r] = req[r]
    <3>1. CASE IsRow(s) /\ sessions'[s].user = sessions[s].user /\ sessions'[s].root = sessions[s].root
      BY <1>1, <1>3, <2>2, <3>1 DEF ResetsCover
    <3>2. ASSUME NEW q \in Requests, RegisterCommit(q) \/ LoginSucceed(q),
                 sessions'[s].user = req[q].user
          PROVE  FALSE
      <4>1. req[r].at = "reset" /\ req[r].user = req[q].user
        BY <1>3, <2>2, <3>2
      <4>2. users[req[q].user].exists
        BY <4>1 DEF Typed, OwnersExist
      <4> QED BY <3>2, <4>1, <4>2 DEF RegisterCommit, LoginSucceed, RowFree, HoldsUser
    <3>3. ASSUME NEW q \in Requests, RefreshCommit(q),
                 sessions'[s].user = req[q].user, sessions'[s].root = req[q].root
          PROVE  sessions'[s].root \in races'.chains
      BY <1>1, <1>3, <2>2, <3>3 DEF RefreshCommit, ResetsCover
    <3> QED BY <1>3, <3>1, <3>2, <3>3, SessionWritten
  <2> QED BY <1>3, <2>1, <2>2, RequestStarted
<1>4. ASSUME NEW r \in Requests, NEW q \in Requests, req'[r].at = "reset", req'[q].at = "reset",
             req'[q].user = req'[r].user
      PROVE  q = r
  <2>1. CASE req'[r] = req[r] /\ req'[q] = req[q]
    BY <1>4, <2>1 DEF ResetsCover
  <2>2. ASSUME NEW x \in Requests, NEW y \in Requests, x # y, req'[y].at = "reset",
               req'[y].user = req'[x].user,
               ResetBegin(x)
        PROVE  FALSE
    BY <2>2, ResetReads
  <2> QED BY <1>4, <2>1, <2>2, RequestStarted
<1> QED BY <1>2, <1>3, <1>4 DEF ResetsCover, IsRow

\* A completed reset leaves no session of before it, nor a rotation of one, unless a
\* refresh of it overlapped the reset.
THEOREM ResetRevokesSessionsHolds == Spec => []ResetRevokesSessions
<1>1. Init => RefreshesCurrent /\ ResetsCover /\ ResetRevokesSessions
  BY DEF Init, RefreshesCurrent, ResetsCover, ResetRevokesSessions, IsRow, Unused, Idle
<1>2. Typed /\ RefreshesCurrent /\ ResetsCover /\ ResetRevokesSessions /\ [Next]_vars
        => RefreshesCurrent' /\ ResetsCover' /\ ResetRevokesSessions'
  BY StepResetRevokes, StepRefreshesCurrent, StepResetsCover
<1> QED BY <1>1, <1>2, TypesHold, PTL DEF Spec

(***************************************************************************)
(* Pending tokens.  A forgot_password that overlaps no other one of its       *)
(* account has seen every token of it that can be used.                     *)
(***************************************************************************)
ForgottenAlone ==
  \A r \in Requests : req[r].at = "forgot" /\ req[r].user \notin races.accounts =>
    /\ \A t \in TokenIds : Consumable(t) /\ tokens[t].user = req[r].user
         => t \in req[r].todo \cup req[r].victims
    /\ \A q \in Requests : req[q].at = "forgot" /\ req[q].user = req[r].user => q = r

LEMMA ForgotReads ==
  ASSUME Typed, NEW r \in Requests, NEW u \in Users, ForgotRead(r, u)
  PROVE  /\ tokens' = tokens
         /\ req'[r].user = u /\ req'[r].todo = UnusedTokensOf(u)
         /\ \A q \in Requests : q # r => req'[q] = req[q]
         /\ \A q \in Requests : req[q].at = "forgot" /\ req[q].user = u
              => u \in races'.accounts
<1> USE DEF Typed, TypeOK
<1>1. /\ tokens' = tokens
      /\ req' = [req EXCEPT ![r] = [at |-> "forgot", user |-> u, todo |-> UnusedTokensOf(u),
                                    victims |-> {}]]
  BY DEF ForgotRead, Start, tables
<1>2. \A q \in Requests : req[q].at = "forgot" /\ req[q].user = u => u \in races'.accounts
  BY DEF ForgotRead, At
<1> QED BY <1>1, <1>2

LEMMA ForgotLocks ==
  ASSUME Typed, NEW r \in Requests, ForgotLock(r)
  PROVE  /\ tokens' = tokens
         /\ req[r].at = "forgot" /\ req'[r].at = "forgot" /\ req'[r].user = req[r].user
         /\ req'[r].todo \cup req'[r].victims = req[r].todo \cup req[r].victims
         /\ \A q \in Requests : q # r => req'[q] = req[q]
         /\ \E t \in NextToken(req[r].todo) :
              req'[r].todo = req[r].todo \ {t} /\ req'[r].victims = req[r].victims \cup {t}
<1> USE DEF Typed, TypeOK
<1>1. PICK t \in NextToken(req[r].todo) :
        req' = [req EXCEPT ![r] = [at |-> "forgot", user |-> req[r].user,
                                   todo |-> req[r].todo \ {t},
                                   victims |-> req[r].victims \cup {t}]]
  BY DEF ForgotLock
<1>2. req[r].at = "forgot" /\ tokens' = tokens /\ t \in req[r].todo
  BY DEF ForgotLock, NextToken, tables
<1> QED BY <1>1, <1>2

\* A token that can be used was already there, or is the one that a forgot_password
\* inserts, with those it had seen now used.
LEMMA TokenWritten ==
  ASSUME Typed, [Next]_vars, NEW t \in TokenIds, Consumable(t)'
  PROVE  \/ Consumable(t) /\ tokens'[t].user = tokens[t].user
         \/ /\ tokens[t] = Unused
            /\ \E r \in Requests :
                 /\ ForgotCommit(r)
                 /\ tokens'[t].user = req[r].user
                 /\ \A x \in TokenIds \ {t} :
                      Consumable(x)' => x \notin req[r].victims /\ tokens'[x] = tokens[x]
<1> USE DEF Typed, TypeOK, TablesTypeOK
<1>1. ASSUME NEW ts, NEW x \in TokenIds, MarkUsed(tokens, ts)[x].status = "pending",
             \A y \in ts : tokens[y] # Unused
      PROVE  x \notin ts /\ MarkUsed(tokens, ts)[x] = tokens[x]
  <2>1. CASE x \in ts
    <3>1. tokens[x] \in TokenRow
      BY <1>1, <2>1, RowKinds
    <3>2. MarkUsed(tokens, ts)[x].status = "used"
      BY <2>1, <3>1 DEF MarkUsed, TokenRow
    <3> QED BY <1>1, <3>2
  <2> QED BY <1>1, <2>1 DEF MarkUsed
<1>2. CASE tokens' = tokens
  BY <1>2 DEF Consumable
<1>3. ASSUME NEW r \in Requests, ForgotCommit(r)
      PROVE  \/ Consumable(t) /\ tokens'[t].user = tokens[t].user
             \/ /\ tokens[t] = Unused
                /\ tokens'[t].user = req[r].user
                /\ \A x \in TokenIds \ {t} :
                     Consumable(x)' => x \notin req[r].victims /\ tokens'[x] = tokens[x]
  <2>1. PICK new \in TokenIds :
          /\ tokens[new] = Unused
          /\ tokens' = [MarkUsed(tokens, req[r].victims) EXCEPT ![new] =
                          [status |-> "pending", user |-> req[r].user]]
    BY <1>3 DEF ForgotCommit
  <2>2. \A y \in req[r].victims : tokens[y] # Unused
    BY <1>3 DEF ForgotCommit, DrawnTokens
  <2>3. ASSUME NEW x \in TokenIds, x # new, Consumable(x)'
        PROVE  x \notin req[r].victims /\ tokens'[x] = tokens[x]
    <3>1. tokens'[x] = MarkUsed(tokens, req[r].victims)[x]
      BY <2>1, <2>3 DEF MarkUsed
    <3> QED BY <1>1, <2>2, <2>3, <3>1 DEF Consumable
  <2>4. CASE t = new
    BY <2>1, <2>3, <2>4 DEF MarkUsed
  <2>5. CASE t # new
    BY <2>3, <2>5 DEF Consumable
  <2> QED BY <2>4, <2>5
<1>4. ASSUME NEW r \in Requests, ResetCommit(r)
      PROVE  Consumable(t) /\ tokens'[t].user = tokens[t].user
  <2>1. \A y \in {req[r].tok} : tokens[y] # Unused
    BY <1>4 DEF ResetCommit, DrawnTokens
  <2> QED BY <1>1, <1>4, <2>1 DEF ResetCommit, Consumable
<1>5. ASSUME NEW x \in TokenIds, TokenExpires(x)
      PROVE  Consumable(t) /\ tokens'[t].user = tokens[t].user
  <2>1. CASE t = x
    <3>1. tokens[x] \in TokenRow
      BY <1>5, RowKinds DEF TokenExpires
    <3> QED BY <1>5, <2>1, <3>1 DEF TokenExpires, TokenRow, Consumable
  <2>2. CASE t # x
    BY <1>5, <2>2 DEF TokenExpires, Consumable
  <2> QED BY <2>1, <2>2
<1> QED BY <1>2, <1>3, <1>4, <1>5, TokensSteps

LEMMA StepOnePendingToken ==
  ASSUME Typed, ForgottenAlone, OnePendingToken, [Next]_vars
  PROVE  OnePendingToken'
<1> SUFFICES ASSUME NEW t1 \in TokenIds, NEW t2 \in TokenIds, Consumable(t1)', Consumable(t2)',
                    tokens'[t1].user = tokens'[t2].user, t1 # t2,
                    tokens'[t1].user \notin races'.accounts
             PROVE  FALSE
  BY DEF OnePendingToken, Consumable
<1>1. tokens'[t1].user \notin races.accounts
  BY StepRacesGrow
<1>2. ASSUME NEW x \in TokenIds, NEW y \in TokenIds, x # y, Consumable(y)',
             tokens'[x].user = tokens'[y].user, tokens'[x].user \notin races.accounts,
             NEW r \in Requests, ForgotCommit(r), tokens'[x].user = req[r].user,
             \A z \in TokenIds \ {x} :
               Consumable(z)' => z \notin req[r].victims /\ tokens'[z] = tokens[z]
      PROVE  FALSE
  <2>1. y \notin req[r].todo \cup req[r].victims /\ tokens'[y] = tokens[y] /\ Consumable(y)
    BY <1>2 DEF Consumable, ForgotCommit
  <2> QED BY <1>2, <2>1 DEF ForgotCommit, ForgottenAlone
<1>3. CASE Consumable(t1) /\ Consumable(t2) /\ tokens'[t1].user = tokens[t1].user
           /\ tokens'[t2].user = tokens[t2].user
  BY <1>1, <1>3 DEF OnePendingToken
<1> QED BY <1>1, <1>2, <1>3, TokenWritten

LEMMA StepForgottenAlone ==
  ASSUME Typed, ForgottenAlone, [Next]_vars
  PROVE  ForgottenAlone'
<1> SUFFICES ASSUME NEW r \in Requests, req'[r].at = "forgot", req'[r].user \notin races'.accounts
             PROVE  /\ \A t \in TokenIds : Consumable(t)' /\ tokens'[t].user = req'[r].user
                          => t \in req'[r].todo \cup req'[r].victims
                    /\ \A q \in Requests : req'[q].at = "forgot" /\ req'[q].user = req'[r].user
                          => q = r
  BY DEF ForgottenAlone, Consumable
<1>1. req'[r].user \notin races.accounts
  BY StepRacesGrow
<1>2. ASSUME NEW t \in TokenIds, Consumable(t)', tokens'[t].user = req'[r].user
      PROVE  t \in req'[r].todo \cup req'[r].victims
  <2>1. ASSUME NEW u \in Users, ForgotRead(r, u)
        PROVE  t \in req'[r].todo \cup req'[r].victims
    BY <1>2, <2>1, ForgotReads DEF UnusedTokensOf, Consumable
  <2>2. CASE req'[r] = req[r]
    <3>1. CASE Consumable(t) /\ tokens'[t].user = tokens[t].user
      BY <1>1, <1>2, <2>2, <3>1 DEF ForgottenAlone
    <3>2. ASSUME NEW q \in Requests, ForgotCommit(q), tokens'[t].user = req[q].user
          PROVE  FALSE
      <4>1. q # r
        BY <2>2, <3>2 DEF ForgotCommit, Finish, Idle, Typed, TypeOK
      <4> QED BY <1>1, <1>2, <2>2, <3>2, <4>1 DEF ForgotCommit, ForgottenAlone
    <3> QED BY <1>2, <3>1, <3>2, TokenWritten
  <2>3. CASE ForgotLock(r)
    <3>1. Consumable(t) /\ tokens[t].user = req[r].user /\ req[r].at = "forgot"
      BY <1>2, <2>3, ForgotLocks DEF Consumable
    <3> QED BY <1>1, <2>3, <3>1, ForgotLocks DEF ForgottenAlone
  <2> QED BY <2>1, <2>2, <2>3, RequestStarted
<1>3. ASSUME NEW x \in Requests, NEW y \in Requests, x # y, NEW u \in Users, ForgotRead(x, u),
             req'[y].at = "forgot", req'[y].user = req'[x].user
      PROVE  req'[x].user \in races'.accounts
  BY <1>3, ForgotReads
<1>4. ASSUME NEW q \in Requests, req'[q].at = "forgot", req'[q].user = req'[r].user
      PROVE  q = r
  <2>1. req'[r] = req[r] \/ ForgotLock(r) \/ \E u \in Users : ForgotRead(r, u)
    BY RequestStarted
  <2>2. req'[q] = req[q] \/ ForgotLock(q) \/ \E u \in Users : ForgotRead(q, u)
    BY <1>4, RequestStarted
  <2>3. CASE ~(\E u \in Users : ForgotRead(r, u)) /\ ~(\E u \in Users : ForgotRead(q, u))
    <3>1. /\ req[r].at = "forgot" /\ req[r].user = req'[r].user
          /\ req[q].at = "forgot" /\ req[q].user = req'[q].user
      BY <1>4, <2>1, <2>2, <2>3, ForgotLocks
    <3> QED BY <1>1, <1>4, <3>1 DEF ForgottenAlone
  <2> QED BY <1>3, <1>4, <2>3
<1> QED BY <1>2, <1>4

\* At most one reset token of an account can be used, unless two forgot_password
\* requests for it overlapped.
THEOREM OnePendingTokenHolds == Spec => []OnePendingToken
<1>1. Init => ForgottenAlone /\ OnePendingToken
  BY DEF Init, ForgottenAlone, OnePendingToken, Consumable, Unused, Idle
<1>2. Typed /\ ForgottenAlone /\ OnePendingToken /\ [Next]_vars
        => ForgottenAlone' /\ OnePendingToken'
  BY StepForgottenAlone, StepOnePendingToken
<1> QED BY <1>1, <1>2, TypesHold, PTL DEF Spec

(***************************************************************************)
(* Row locks.  A reset that holds its account's row waits for nothing, and   *)
(* one that waits for it holds only its token; requests that all wait for    *)
(* tokens are forgot_password requests, and each holds tokens below the one  *)
(* it waits for.                                                            *)
(***************************************************************************)
ScanOrder ==
  \A r \in Requests : req[r].at = "forgot" =>
    \A v \in req[r].victims, t \in req[r].todo : v < t

LEMMA StepScanOrder ==
  ASSUME Typed, ScanOrder, [Next]_vars
  PROVE  ScanOrder'
<1> SUFFICES ASSUME NEW r \in Requests, req'[r].at = "forgot",
                    NEW v \in req'[r].victims, NEW t \in req'[r].todo
             PROVE  v < t
  BY DEF ScanOrder
<1>1. CASE req'[r] = req[r]
  BY <1>1 DEF ScanOrder
<1>2. ASSUME NEW u \in Users, ForgotRead(r, u)
      PROVE  FALSE
  <2>1. req'[r].victims = {}
    BY <1>2 DEF ForgotRead, Start, Typed, TypeOK
  <2> QED BY <2>1
<1>3. CASE ForgotLock(r)
  <2>1. PICK x \in NextToken(req[r].todo) :
          /\ req'[r].todo = req[r].todo \ {x} /\ req'[r].victims = req[r].victims \cup {x}
          /\ req[r].at = "forgot"
    BY <1>3, ForgotLocks
  <2>2. x \in Nat /\ t \in Nat
    BY <2>1, RequestKinds, TokenIdsAssumption DEF NextToken, Forgot, Typed
  <2>3. x <= t /\ x # t
    BY <2>1 DEF NextToken
  <2>4. CASE v = x
    BY <2>2, <2>3, <2>4
  <2>5. CASE v \in req[r].victims
    BY <2>1, <2>5 DEF ScanOrder
  <2> QED BY <2>1, <2>4, <2>5
<1> QED BY <1>1, <1>2, <1>3, RequestStarted

\* Among finitely many tokens, one has none above it.
LEMMA LastToken ==
  ASSUME NEW W \in SUBSET TokenIds, W # {}
  PROVE  \E m \in W : \A t \in W : ~(t > m)
<1> DEFINE Above(m) == {t \in W : t > m}
           T == {Above(m) : m \in W}
<1>1. T \subseteq FiniteSubsetsOf(TokenIds) /\ T # {}
  <2>1. \A m \in W : Above(m) \in SUBSET TokenIds /\ IsFiniteSet(Above(m))
    BY RequestsAssumption, FS_Subset
  <2> QED BY <2>1 DEF FiniteSubsetsOf
<1>2. PICK x \in T : \A y \in T : <<y, x>> \notin StrictSubsetOrdering(TokenIds)
  <2> HIDE DEF T
  <2> QED BY <1>1, FS_StrictSubsetOrderingWellFounded, WFMin
<1>3. PICK m \in W : x = Above(m)
  BY <1>2
<1>4. ASSUME NEW t \in W, t > m
      PROVE  FALSE
  <2>1. t \in Nat /\ m \in Nat /\ W \subseteq Nat
    BY TokenIdsAssumption
  <2>2. /\ \A y \in W : y > t => y > m
        /\ ~(t > t)
    BY <1>4, <2>1
  <2>3. <<Above(t), Above(m)>> \in StrictSubsetOrdering(TokenIds)
    <3>1. Above(t) \in SUBSET TokenIds /\ Above(m) \in SUBSET TokenIds
      OBVIOUS
    <3>2. Above(t) \subseteq Above(m)
      BY <2>2
    <3>3. t \in Above(m) /\ t \notin Above(t)
      BY <1>4, <2>2
    <3> HIDE DEF Above
    <3> QED BY <3>1, <3>2, <3>3 DEF StrictSubsetOrdering
  <2> QED BY <1>2, <1>3, <2>3
<1> QED BY <1>4

\* Among any requests there is one that waits for the lock of none of them: no
\* handlers are ever deadlocked on their row locks.
THEOREM NoWaitCycleHolds == Spec => []NoWaitCycle
<1>1. Init => ScanOrder
  BY DEF Init, ScanOrder, Idle
<1>2. Typed /\ ScanOrder => NoWaitCycle
  <2> SUFFICES ASSUME Typed, ScanOrder, NEW S \in SUBSET Requests, S # {},
                      \A r \in S : \E q \in S : WaitsFor(r, q)
               PROVE  FALSE
    BY DEF NoWaitCycle
  <2>1. \A r \in S : req[r].at # "reset"
    BY DEF WaitsFor
  <2>2. \A q \in S : \A u : ~HoldsUser(q, u)
    BY <2>1 DEF HoldsUser
  <2>3. \A r \in S : req[r].at = "forgot"
    BY <2>2 DEF WaitsFor
  <2>4. ASSUME NEW r \in S
        PROVE  req[r].todo \subseteq TokenIds /\ req[r].victims \subseteq TokenIds
    BY <2>3, RequestKinds DEF Typed, Forgot
  <2>5. ASSUME NEW r \in S
        PROVE  \E t \in NextToken(req[r].todo), q \in S : t \in req[q].victims
    BY <2>3 DEF WaitsFor, HoldsToken
  <2> DEFINE W == {t \in TokenIds : \E r \in S : t \in NextToken(req[r].todo)}
  <2>6. W \in SUBSET TokenIds /\ W # {}
    BY <2>4, <2>5 DEF NextToken
  <2>7. PICK m \in W : \A t \in W : ~(t > m)
    <3> HIDE DEF W
    <3> QED BY <2>6, LastToken
  <2>8. PICK r \in S : m \in NextToken(req[r].todo)
    OBVIOUS
  <2>9. PICK t \in NextToken(req[r].todo), q \in S : t \in req[q].victims
    BY <2>5
  <2>10. t = m
    <3>1. t <= m /\ m <= t /\ t \in Nat /\ m \in Nat
      BY <2>4, <2>8, <2>9, TokenIdsAssumption DEF NextToken
    <3> QED BY <3>1
  <2>11. PICK x \in NextToken(req[q].todo) : TRUE
    BY <2>5
  <2>12. m < x
    BY <2>3, <2>9, <2>10, <2>11 DEF ScanOrder, NextToken
  <2>13. x \in W /\ x \in Nat /\ m \in Nat
    BY <2>4, <2>11, TokenIdsAssumption DEF NextToken
  <2> QED BY <2>7, <2>12, <2>13
<1>3. Typed /\ ScanOrder /\ [Next]_vars => ScanOrder'
  BY StepScanOrder
<1> QED BY <1>1, <1>2, <1>3, TypesHold, PTL DEF Spec

(***************************************************************************)
(* Attempts per window.  While an account is blocked no login of it is       *)
(* admitted, so what can still be counted are the failures under way when    *)
(* the block was set; once it has run out, each window admits as many as    *)
(* there are requests before the next failure blocks the account again.     *)
(***************************************************************************)
LoginsOf(u) == {r \in At({"login"}) : req[r].user = u}

Overrun(n) == (MaxAttempts - 1) + Cardinality(Requests) * n

WindowsCounted ==
  \A u \in Users : users[u].exists =>
    /\ users[u].block = "future" =>
         users[u].failed + Cardinality(LoginsOf(u)) <= Overrun(windows[u] + 1)
    /\ users[u].block = "past" => users[u].failed <= Overrun(windows[u])

LEMMA OverrunGrows ==
  ASSUME NEW n \in Nat
  PROVE  /\ Overrun(n) \in Nat
         /\ MaxAttempts - 1 <= Overrun(n)
         /\ Overrun(n + 1) = Overrun(n) + Cardinality(Requests)
<1> DEFINE c == Cardinality(Requests)
<1>1. c \in Nat
  BY RequestsAssumption, FS_CardinalityType
<1>2. MaxAttempts \in Nat /\ MaxAttempts > 0
  BY MaxAttemptsAssumption
<1> HIDE DEF c
<1>3. c * n \in Nat /\ c * (n + 1) = c * n + c
  BY <1>1
<1>4. /\ (MaxAttempts - 1) + c * n \in Nat
      /\ MaxAttempts - 1 <= (MaxAttempts - 1) + c * n
      /\ (MaxAttempts - 1) + c * (n + 1) = ((MaxAttempts - 1) + c * n) + c
  BY <1>1, <1>2, <1>3
<1> QED BY <1>4 DEF Overrun, c

LEMMA LoginsFinite ==
  ASSUME NEW u \in Users
  PROVE  /\ IsFiniteSet(LoginsOf(u)) /\ IsFiniteSet(LoginsOf(u)')
         /\ Cardinality(LoginsOf(u)) \in Nat /\ Cardinality(LoginsOf(u)') \in Nat
         /\ Cardinality(LoginsOf(u)) <= Cardinality(Requests)
         /\ Cardinality(Requests) \in Nat
<1>1. LoginsOf(u) \subseteq Requests /\ LoginsOf(u)' \subseteq Requests
  BY DEF LoginsOf, At
<1> QED BY <1>1, RequestsAssumption, FS_Subset, FS_CardinalityType

\* What a step does to the throttle of an account.
LEMMA ThrottleSteps ==
  ASSUME Typed, [Next]_vars, NEW u \in Users, users[u].exists
  PROVE  \/ /\ users'[u].failed = users[u].failed
            /\ users'[u].block = users[u].block
            /\ windows'[u] = windows[u]
         \/ users'[u].block = "none"
         \/ \E r \in Requests :
              /\ LoginFail(r) /\ req[r].user = u
              /\ users'[u].failed = users[u].failed + 1
              /\ users'[u].block = IF users[u].failed + 1 >= MaxAttempts
                                   THEN "future" ELSE users[u].block
              /\ windows'[u] = windows[u]
         \/ /\ users[u].block = "future" /\ users'[u].block = "past"
            /\ users'[u].failed = users[u].failed
            /\ windows'[u] = windows[u] + 1
<1> USE DEF Typed, TypeOK, TablesTypeOK
<1> DEFINE Same == /\ users'[u].failed = users[u].failed
                   /\ users'[u].block = users[u].block
                   /\ windows'[u] = windows[u]
<1>0. users[u] \in Account
  BY RowKinds
<1>1. ASSUME windows' = windows, users'[u] = users[u]
      PROVE  Same
  BY <1>1
<1>2. ASSUME NEW r \in Requests, RegisterCommit(r)
      PROVE  Same
  <2>1. users'[u] = users[u]
    BY <1>2 DEF RegisterCommit
  <2> QED BY <1>1, <1>2, <2>1 DEF RegisterCommit
<1>3. ASSUME NEW r \in Requests, LoginFail(r), req[r].user = u
      PROVE  /\ users'[u].failed = users[u].failed + 1
             /\ users'[u].block = IF users[u].failed + 1 >= MaxAttempts
                                  THEN "future" ELSE users[u].block
             /\ windows'[u] = windows[u]
  <2>1. users'[u] = AfterFailure(users[u])
    BY <1>3 DEF LoginFail
  <2>2. /\ IncrementFailedAttempts(users[u]).failed = users[u].failed + 1
        /\ IncrementFailedAttempts(users[u]).block = users[u].block
        /\ BlockUser(IncrementFailedAttempts(users[u])).failed = users[u].failed + 1
        /\ BlockUser(IncrementFailedAttempts(users[u])).block = "future"
    BY <1>0 DEF Account, IncrementFailedAttempts, BlockUser
  <2>3. windows' = windows
    BY <1>3 DEF LoginFail, history
  <2> QED BY <2>1, <2>2, <2>3 DEF AfterFailure
<1>4. ASSUME NEW r \in Requests, LoginFail(r), req[r].user # u
      PROVE  Same
  BY <1>4 DEF LoginFail, history
<1>5. ASSUME NEW r \in Requests, LoginSucceed(r)
      PROVE  Same \/ users'[u].block = "none"
  <2>1. CASE req[r].user = u
    BY <1>0, <1>5, <2>1 DEF LoginSucceed, ResetFailedAttempts, Account
  <2>2. CASE req[r].user # u
    BY <1>5, <2>2 DEF LoginSucceed
  <2> QED BY <2>1, <2>2
<1>6. ASSUME NEW r \in Requests,
             \/ ChangePasswordCommit(r)
             \/ \E v \in Users, role \in Roles : ChangeUserRole(r, v, role)
             \/ \E v \in Users, active \in BOOLEAN : ToggleUserStatus(r, v, active)
      PROVE  Same
  <2>1. windows' = windows
    BY <1>6 DEF ChangePasswordCommit, ChangeUserRole, ToggleUserStatus, history
  <2>2. users'[u].failed = users[u].failed /\ users'[u].block = users[u].block
    BY <1>0, <1>6 DEF ChangePasswordCommit, ChangeUserRole, ToggleUserStatus, Account
  <2> QED BY <2>1, <2>2
<1>7. ASSUME NEW r \in Requests, NEW v \in Users, UnlockUser(r, v)
      PROVE  Same \/ users'[u].block = "none"
  <2>1. CASE v = u
    BY <1>0, <1>7, <2>1 DEF UnlockUser, ResetFailedAttempts, Account
  <2>2. CASE v # u
    BY <1>7, <2>2 DEF UnlockUser
  <2> QED BY <2>1, <2>2
<1>8. ASSUME NEW r \in Requests, NEW v \in Users, NEW p \in Passwords, AdminResetPassword(r, v, p)
      PROVE  Same \/ users'[u].block = "none"
  <2>1. CASE v = u
    BY <1>0, <1>8, <2>1 DEF AdminResetPassword, UpdatePassword, Account
  <2>2. CASE v # u
    BY <1>8, <2>2 DEF AdminResetPassword
  <2> QED BY <2>1, <2>2
<1>9. ASSUME NEW r \in Requests, ResetCommit(r)
      PROVE  Same \/ users'[u].block = "none"
  <2>1. CASE req[r].user = u
    BY <1>0, <1>9, <2>1 DEF ResetCommit, UpdatePassword, Account
  <2>2. CASE req[r].user # u
    BY <1>9, <2>2 DEF ResetCommit
  <2> QED BY <2>1, <2>2
<1>10. ASSUME NEW v \in Users, BlockExpires(v)
       PROVE  \/ Same
              \/ /\ users[u].block = "future" /\ users'[u].block = "past"
                 /\ users'[u].failed = users[u].failed
                 /\ windows'[u] = windows[u] + 1
  <2>1. CASE v = u
    BY <1>0, <1>10, <2>1 DEF BlockExpires, Account
  <2>2. CASE v # u
    BY <1>10, <2>2 DEF BlockExpires
  <2> QED BY <2>1, <2>2
<1>11. ASSUME users' = users
       PROVE  Same \/ users'[u].block = "none"
  <2>1. CASE windows' = windows
    BY <1>1, <1>11, <2>1
  <2>2. CASE \E v \in Users : BlockExpires(v)
    BY <1>0, <1>10, <1>11, <2>2
  <2> QED BY <1>5, <1>7, <1>8, <1>9, <2>1, <2>2, WindowsSteps
<1> HIDE DEF Same, Typed, TypeOK, TablesTypeOK
<1> QED BY <1>2, <1>3, <1>4, <1>5, <1>6, <1>7, <1>8, <1>9, <1>10, <1>11, UsersSteps DEF Same

LEMMA StepWindowsCounted ==
  ASSUME Typed, BlockIffThreshold, WindowsCounted, [Next]_vars
  PROVE  WindowsCounted'
<1> USE DEF Typed, TypeOK, TablesTypeOK
<1> SUFFICES ASSUME NEW u \in Users, users'[u].exists
             PROVE  /\ users'[u].block = "future" =>
                         users'[u].failed + Cardinality(LoginsOf(u)')
                           <= Overrun(windows'[u] + 1)
                    /\ users'[u].block = "past" => users'[u].failed <= Overrun(windows'[u])
  BY DEF WindowsCounted, Overrun
<1>1. ASSUME ~users[u].exists
      PROVE  users'[u].block = "none"
  <2>1. ASSUME NEW r \in Requests, RegisterCommit(r)
        PROVE  users'[u].block = "none"
    <3>1. users'[u] = NewAccount(req[r].role, req[r].pw)
      BY <1>1, <2>1 DEF RegisterCommit
    <3> QED BY <3>1 DEF NewAccount
  <2>2. ASSUME NEW r \in Requests,
               \/ LoginFail(r) \/ LoginSucceed(r)
               \/ ChangePasswordCommit(r) \/ ResetCommit(r)
        PROVE  users'[u] = users[u]
    <3>1. users[req[r].user].exists
      BY <2>2 DEF LoginFail, LoginSucceed, ChangePasswordCommit, ResetCommit, OwnersExist
    <3> QED BY <1>1, <2>2, <3>1 DEF LoginFail, LoginSucceed, ChangePasswordCommit, ResetCommit
  <2>3. ASSUME NEW r \in Requests, NEW v \in Users,
               \/ \E role \in Roles : ChangeUserRole(r, v, role)
               \/ UnlockUser(r, v)
               \/ \E p \in Passwords : AdminResetPassword(r, v, p)
               \/ \E active \in BOOLEAN : ToggleUserStatus(r, v, active)
        PROVE  users'[u] = users[u]
    BY <1>1, <2>3 DEF ChangeUserRole, UnlockUser, AdminResetPassword, ToggleUserStatus
  <2>4. ASSUME NEW v \in Users, BlockExpires(v)
        PROVE  users'[u] = users[u]
    BY <1>1, <2>4 DEF BlockExpires
  <2> QED BY <1>1, <2>1, <2>2, <2>3, <2>4, UsersSteps
<1>2. CASE users[u].exists
  <2> DEFINE c == Cardinality(LoginsOf(u))
             d == Cardinality(LoginsOf(u)')
             w == windows[u]
  <2>0. users[u] \in Account
    BY <1>2, RowKinds
  <2>1. /\ users[u].failed \in Nat /\ users[u].block \in {"none", "past", "future"}
        /\ w \in Nat /\ w + 1 \in Nat
        /\ MaxAttempts \in Nat
    BY <2>0, MaxAttemptsAssumption DEF Account
  <2>2. /\ Overrun(w) \in Nat /\ MaxAttempts - 1 <= Overrun(w)
        /\ Overrun(w + 1) = Overrun(w) + Cardinality(Requests)
    BY <2>1, OverrunGrows
  <2>3. c \in Nat /\ d \in Nat /\ Cardinality(Requests) \in Nat /\ c <= Cardinality(Requests)
    BY LoginsFinite
  \* The failures counted and those under way, in every state of the throttle.
  <2>4. /\ users[u].block \in {"none", "past"} => users[u].failed <= Overrun(w)
        /\ users[u].failed + c <= Overrun(w + 1)
    <3>1. users[u].block = "none" => users[u].failed <= MaxAttempts - 1
      BY <1>2, <2>1 DEF BlockIffThreshold
    <3>2. users[u].block = "past" => users[u].failed <= Overrun(w)
      BY <1>2 DEF WindowsCounted
    <3>3. users[u].block = "future" => users[u].failed + c <= Overrun(w + 1)
      BY <1>2 DEF WindowsCounted
    <3> HIDE DEF c, d, w, Typed, TypeOK, TablesTypeOK
    <3>4. users[u].block \in {"none", "past"} => users[u].failed <= Overrun(w)
      BY <2>1, <2>2, <3>1, <3>2
    <3> QED BY <2>1, <2>2, <2>3, <3>3, <3>4
  \* No login of a blocked account is admitted.
  <2>5. users[u].block = "future" => LoginsOf(u)' \subseteq LoginsOf(u)
    <3> SUFFICES ASSUME users[u].block = "future", NEW r \in Requests,
                        req'[r].at = "login", req'[r].user = u
                 PROVE  r \in LoginsOf(u)
      BY DEF LoginsOf, At
    <3>1. ASSUME NEW v \in Users, NEW p \in Passwords, LoginRead(r, v, p)
          PROVE  FALSE
      <4>1. req'[r].user = v
        BY <3>1 DEF LoginRead, Start
      <4> QED BY <3>1, <4>1 DEF LoginRead, MayAttempt
    <3>2. req'[r] = req[r]
      BY <3>1, RequestStarted
    <3> QED BY <3>2 DEF LoginsOf, At
  <2>6. CASE /\ users'[u].failed = users[u].failed
             /\ users'[u].block = users[u].block
             /\ windows'[u] = windows[u]
    <3>1. users[u].block = "future" => d <= c
      BY <2>5, LoginsFinite, FS_Subset
    <3> HIDE DEF c, d, w, Typed, TypeOK, TablesTypeOK
    <3> QED BY <2>1, <2>2, <2>3, <2>4, <2>6, <3>1 DEF d, w
  <2>7. ASSUME NEW r \in Requests, LoginFail(r), req[r].user = u,
               users'[u].failed = users[u].failed + 1,
               users'[u].block = IF users[u].failed + 1 >= MaxAttempts
                                 THEN "future" ELSE users[u].block,
               windows'[u] = windows[u]
        PROVE  /\ users'[u].block = "future" =>
                    users'[u].failed + Cardinality(LoginsOf(u)') <= Overrun(windows'[u] + 1)
               /\ users'[u].block = "past" => users'[u].failed <= Overrun(windows'[u])
    <3>1. r \in LoginsOf(u)
      BY <2>7 DEF LoginFail, LoginsOf, At
    <3>2. LoginsOf(u)' \subseteq LoginsOf(u) \ {r}
      BY <2>7 DEF LoginFail, Finish, LoginsOf, At, Idle
    <3>3. IsFiniteSet(LoginsOf(u) \ {r}) /\ Cardinality(LoginsOf(u) \ {r}) = c - 1
      BY <3>1, LoginsFinite, FS_RemoveElement
    <3>4. d <= c - 1
      BY <3>2, <3>3, FS_Subset
    \* The block of an account below the threshold has not run out: there is none.
    <3>5. users'[u].block # "past"
      BY <1>2, <2>1, <2>7 DEF BlockIffThreshold
    <3> HIDE DEF c, d, w, Typed, TypeOK, TablesTypeOK
    <3>6. users'[u].failed + d <= Overrun(w + 1)
      BY <2>1, <2>2, <2>3, <2>4, <2>7, <3>4
    <3> QED BY <2>7, <3>5, <3>6 DEF d, w
  <2>8. CASE /\ users[u].block = "future" /\ users'[u].block = "past"
             /\ users'[u].failed = users[u].failed
             /\ windows'[u] = windows[u] + 1
    <3> HIDE DEF c, d, Typed, TypeOK, TablesTypeOK
    <3> QED BY <2>1, <2>2, <2>3, <2>4, <2>8
  <2>9. CASE users'[u].block = "none"
    BY <2>9
  <2> HIDE DEF Typed, TypeOK, TablesTypeOK
  <2> QED BY <1>2, <2>6, <2>7, <2>8, <2>9, ThrottleSteps
<1> QED BY <1>1, <1>2

\* Concurrent logins overrun the threshold by at most the requests served at
\* once, each time a block runs out.
THEOREM AttemptsPerWindowHolds == Spec => []AttemptsPerWindow
<1>1. Init => WindowsCounted
  <2> SUFFICES ASSUME Init, NEW u \in Users, users[u].exists
               PROVE  users[u].block = "none"
    BY DEF WindowsCounted
  <2> QED BY DEF Init, SeedAccount, NewAccount, NoAccount
<1>2. Typed /\ BlockIffThreshold /\ WindowsCounted /\ [Next]_vars => WindowsCounted'
  BY StepWindowsCounted
<1>3. Typed /\ BlockIffThreshold /\ WindowsCounted => AttemptsPerWindow
  <2> SUFFICES ASSUME Typed, BlockIffThreshold, WindowsCounted, NEW u \in Users, users[u].exists
               PROVE  users[u].failed <= Overrun(windows[u] + 1)
    BY DEF AttemptsPerWindow, Overrun
  <2> DEFINE w == windows[u]
  <2>1. /\ users[u].failed \in Nat /\ users[u].block \in {"none", "past", "future"}
        /\ w \in Nat /\ MaxAttempts \in Nat
    BY RowKinds, MaxAttemptsAssumption DEF Typed, TypeOK, Account
  <2>2. /\ Overrun(w) \in Nat /\ MaxAttempts - 1 <= Overrun(w)
        /\ Overrun(w + 1) = Overrun(w) + Cardinality(Requests)
    BY <2>1, OverrunGrows
  <2>3. Cardinality(LoginsOf(u)) \in Nat /\ Cardinality(Requests) \in Nat
    BY LoginsFinite
  <2>4. /\ users[u].block = "none" => users[u].failed <= MaxAttempts - 1
        /\ users[u].block = "past" => users[u].failed <= Overrun(w)
        /\ users[u].block = "future" =>
             users[u].failed + Cardinality(LoginsOf(u)) <= Overrun(w + 1)
    BY <2>1 DEF BlockIffThreshold, WindowsCounted
  <2> HIDE DEF w
  <2> QED BY <2>1, <2>2, <2>3, <2>4 DEF w
<1> QED BY <1>1, <1>2, <1>3, TypesHold, BlockIffThresholdHolds, PTL DEF Spec
=============================================================================
