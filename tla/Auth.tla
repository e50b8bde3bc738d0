-------------------------------- MODULE Auth --------------------------------
(***************************************************************************)
(* The authentication endpoints: backend/app/services/auth_service.py, the  *)
(* user dependency backend/app/core/deps.py and the account management of   *)
(* backend/app/routers/users.py, running concurrently on one database.      *)
(*                                                                         *)
(* Every request is one PostgreSQL transaction at READ COMMITTED.  It reads *)
(* committed rows without locking them, decides, then writes and commits.   *)
(* Other requests commit between the reads and the writes, so a handler is  *)
(* a read step, which stores in req[r] what it read, and a commit step,     *)
(* which writes using what was read then.  A row lock lasts from the first  *)
(* write to the commit.  Two handlers take more than one that others wait   *)
(* for and are split between them: reset_password locks the row of its      *)
(* token, then that of its account, then reads the sessions its DELETE will *)
(* remove; forgot_password locks the account's unused tokens one by one.    *)
(* The other handlers' writes take one lock, and wait for RowFree.          *)
(*                                                                         *)
(* The audit_logs rows the handlers insert are append-only, read by none of *)
(* these handlers and committed with them; they are left out here.          *)
(***************************************************************************)
EXTENDS AuthTables

CONSTANTS
  Requests,     \* requests being served at the same time
  ManagerRoles, \* roles that hold the manage_users permission
  SeedRole,     \* role of each account of the seed, NoRole when there is none
  NoRole,
  SeedPassword, \* the password of the seeded accounts
  Stimuli,      \* endpoints called and clocks that pass in an instance
  FailedBound   \* bound of the failed-attempt counter in an instance

ASSUME ManagerRolesAssumption == ManagerRoles \subseteq Roles

ASSUME SeedAssumption ==
  /\ NoRole \notin Roles
  /\ SeedRole \in [Users -> Roles \cup {NoRole}]
  /\ SeedPassword \in Passwords

ASSUME RequestsAssumption == IsFiniteSet(Requests) /\ IsFiniteSet(TokenIds)

\* A reset token is its row's place in the table: an unused row is never
\* rewritten, so a scan meets the unused rows in the order of their places.
ASSUME TokenIdsAssumption == TokenIds \subseteq Nat

VARIABLES
  req,      \* what each request being served has read so far
  held,     \* history: the primary roles an account has had
  resets,   \* history: the resets with a token each account has completed
  windows,  \* history: blocks that ran out since the counter was last reset
  races     \* history: which requests have overlapped, see below

\* races.chains holds the logins (by their session, the root of its rotations)
\* of whose sessions a refresh overlapped another refresh of the same session or
\* a reset of the account; races.accounts, the accounts two forgot_password
\* requests of which overlapped.
history == <<held, resets, windows, races>>

vars == <<tables, req, history>>

(***************************************************************************)
(* Requests.  "at" names the handler whose writes come next.                *)
(***************************************************************************)
Idle == [at |-> "idle"]

Register == [at : {"register"}, user : Users, role : Roles, pw : Passwords]

Login == [at : {"login"}, user : Users, role : Roles, ok : BOOLEAN]

Refresh == [at : {"refresh"}, user : Users, sid : SessionIds, role : Roles,
            era : Nat, root : SessionIds]

\* The UserContext that get_current_user hands to the handler: the primary
\* role, and the active role of the session.
Authed == [at : {"authed"}, user : Users, sid : SessionIds,
           role : Roles, active : Roles]

Change == [at : {"change"}, user : Users, pw : Passwords]

\* The tokens its UPDATE has still to lock, and those it has locked.
Forgot == [at : {"forgot"}, user : Users, todo : SUBSET TokenIds,
           victims : SUBSET TokenIds]

Consumed == [at : {"consumed"}, user : Users, tok : TokenIds, pw : Passwords]

Reset == [at : {"reset"}, user : Users, tok : TokenIds, pw : Passwords,
          victims : SUBSET SessionIds]

Request == {Idle} \cup Register \cup Login \cup Refresh \cup Authed
             \cup Change \cup Forgot \cup Consumed \cup Reset

Start(r, q) == req[r] = Idle /\ req' = [req EXCEPT ![r] = q]

Finish(r) == req' = [req EXCEPT ![r] = Idle]

(***************************************************************************)
(* Row locks: an UPDATE of a row waits until no other transaction holds it.  *)
(***************************************************************************)
HoldsUser(q, u) == req[q].at = "reset" /\ req[q].user = u

RowFree(u) == ~\E q \in Requests : HoldsUser(q, u)

HoldsToken(q, t) ==
  \/ req[q].at \in {"consumed", "reset"} /\ req[q].tok = t
  \/ req[q].at = "forgot" /\ t \in req[q].victims

TokenFree(t) == ~\E q \in Requests : HoldsToken(q, t)

\* Variant: the rows are locked in no particular order.
AnyToken(todo) == todo

\* The row that the scan of invalidate_all_user_tokens meets next.
NextToken(todo) == {t \in todo : \A x \in todo : t <= x}

(***************************************************************************)
(* Bounds of an instance: a request that will insert a session starts only   *)
(* while an id is left for it, and a login only while the counter can hold  *)
(* the failures already under way.  (A forgot_password that finds no token  *)
(* id left can still be rolled back.)                                       *)
(***************************************************************************)
At(steps) == {r \in Requests : req[r].at \in steps}

SessionIdLeft ==
  Cardinality({s \in SessionIds : sessions[s] = Unused})
    > Cardinality(At({"register", "login", "refresh"}))

AttemptsLeft(u) ==
  users[u].failed + Cardinality({r \in At({"login"}) : req[r].user = u}) < FailedBound

(***************************************************************************)
(* register: the address is looked up, then the account, whose role the      *)
(* payload names, is inserted with a first session.  A second insert of the *)
(* address fails on users.email UNIQUE and the transaction is rolled back.  *)
(***************************************************************************)
RegisterRead(r, u, role, p) ==
  /\ "register" \in Stimuli
  /\ ~users[u].exists
  /\ SessionIdLeft
  /\ Start(r, [at |-> "register", user |-> u, role |-> role, pw |-> p])
  /\ UNCHANGED <<tables, history>>

RegisterCommit(r) ==
  /\ req[r].at = "register"
  /\ ~users[req[r].user].exists
  /\ users' = [users EXCEPT ![req[r].user] = NewAccount(req[r].role, req[r].pw)]
  /\ \E s \in SessionIds :
       /\ sessions[s] = Unused
       /\ sessions' = [sessions EXCEPT ![s] =
                         NewSession(req[r].user, req[r].role, resets[req[r].user], s)]
  /\ held' = [held EXCEPT ![req[r].user] = @ \cup {req[r].role}]
  /\ Finish(r)
  /\ UNCHANGED <<tokens, resets, windows, races>>

RegisterConflict(r) ==
  /\ req[r].at = "register"
  /\ users[req[r].user].exists
  /\ Finish(r)
  /\ UNCHANGED <<tables, history>>

(***************************************************************************)
(* login: one SELECT reads the account; the block and the password are       *)
(* checked against that row.                                                *)
(***************************************************************************)
\* Variant: the block is not looked at.
ActiveIsEnough(u) == IsActive(u)

MayAttempt(u) == IsActive(u) /\ users[u].block # "future"

LoginRead(r, u, p) ==
  /\ "login" \in Stimuli
  /\ MayAttempt(u)
  /\ SessionIdLeft /\ AttemptsLeft(u)
  /\ Start(r, [at |-> "login", user |-> u, role |-> users[u].role,
               ok |-> p = users[u].pw])
  /\ UNCHANGED <<tables, history>>

\* Variant: only the failure that reaches the threshold blocks the account.
AfterLastFailure(row) ==
  IF IncrementFailedAttempts(row).failed = MaxAttempts
  THEN BlockUser(IncrementFailedAttempts(row))
  ELSE IncrementFailedAttempts(row)

AfterFailure(row) ==
  IF IncrementFailedAttempts(row).failed >= MaxAttempts
  THEN BlockUser(IncrementFailedAttempts(row))
  ELSE IncrementFailedAttempts(row)

LoginFail(r) ==
  /\ req[r].at = "login" /\ ~req[r].ok
  /\ RowFree(req[r].user)
  /\ users' = [users EXCEPT ![req[r].user] = AfterFailure(@)]
  /\ Finish(r)
  /\ UNCHANGED <<sessions, tokens, history>>

LoginSucceed(r) ==
  /\ req[r].at = "login" /\ req[r].ok
  /\ RowFree(req[r].user)
  /\ users' = [users EXCEPT ![req[r].user] = ResetFailedAttempts(@)]
  /\ windows' = [windows EXCEPT ![req[r].user] = 0]
  /\ \E s \in SessionIds :
       /\ sessions[s] = Unused
       /\ sessions' = [sessions EXCEPT ![s] =
                         NewSession(req[r].user, req[r].role, resets[req[r].user], s)]
  /\ Finish(r)
  /\ UNCHANGED <<tokens, held, resets, races>>

(***************************************************************************)
(* refresh: the session and its owner are read; the rotation deletes the     *)
(* session, whether or not the row is still there, and inserts its          *)
(* successor with the active role that was read.                            *)
(***************************************************************************)
RefreshRead(r, s) ==
  /\ "refresh" \in Stimuli
  /\ FindActive(s)
  /\ IsActive(sessions[s].user)
  /\ SessionIdLeft
  /\ Start(r, [at |-> "refresh", user |-> sessions[s].user, sid |-> s,
               role |-> sessions[s].role, era |-> sessions[s].era,
               root |-> sessions[s].root])
  /\ races' = IF \/ \E q \in At({"refresh"}) : req[q].sid = s
                 \/ ~RowFree(sessions[s].user)
              THEN [races EXCEPT !.chains = @ \cup {sessions[s].root}]
              ELSE races
  /\ UNCHANGED <<tables, held, resets, windows>>

\* Variant: the successor is inserted, the session is not deleted.
WithoutRotation(s, new, row) == [sessions EXCEPT ![new] = row]

Rotated(s, new, row) == [Delete(sessions, {s}) EXCEPT ![new] = row]

RefreshCommit(r) ==
  /\ req[r].at = "refresh"
  /\ \E new \in SessionIds :
       /\ sessions[new] = Unused
       /\ sessions' = Rotated(req[r].sid, new,
                              NewSession(req[r].user, req[r].role,
                                         req[r].era, req[r].root))
  /\ Finish(r)
  /\ UNCHANGED <<users, tokens, history>>

(***************************************************************************)
(* get_current_user: the dependency every other endpoint starts with.       *)
(***************************************************************************)
Authenticate(r, s) ==
  /\ "authenticate" \in Stimuli
  /\ FindActive(s)
  /\ IsActive(sessions[s].user)
  /\ Start(r, [at |-> "authed", user |-> sessions[s].user, sid |-> s,
               role |-> users[sessions[s].user].role, active |-> sessions[s].role])
  /\ UNCHANGED <<tables, history>>

\* The handler raises before it has written anything.
Reject(r) ==
  /\ req[r].at = "authed"
  /\ Finish(r)
  /\ UNCHANGED <<tables, history>>

Logout(r) ==
  /\ "logout" \in Stimuli
  /\ req[r].at = "authed"
  /\ sessions' = Delete(sessions, {req[r].sid})
  /\ Finish(r)
  /\ UNCHANGED <<users, tokens, history>>

(***************************************************************************)
(* change_password: the current password is verified against a fresh read    *)
(* of the row; only password_hash is written.                               *)
(***************************************************************************)
ChangePasswordRead(r, current, new) ==
  /\ "change_password" \in Stimuli
  /\ req[r].at = "authed"
  /\ IsActive(req[r].user)
  /\ current = users[req[r].user].pw
  /\ req' = [req EXCEPT ![r] = [at |-> "change", user |-> req[r].user, pw |-> new]]
  /\ UNCHANGED <<tables, history>>

ChangePasswordCommit(r) ==
  /\ req[r].at = "change"
  /\ RowFree(req[r].user)
  /\ users' = [users EXCEPT ![req[r].user].pw = req[r].pw]
  /\ Finish(r)
  /\ UNCHANGED <<sessions, tokens, history>>

(***************************************************************************)
(* assume_role and exit_role_assumption write the active role of the          *)
(* session the request came with, judging by the primary role read with it. *)
(***************************************************************************)
AssumingRoles == {SuperAdmin, InstitutionAdmin}

\* Variant: the Super Admin role is not set apart.
AdministratorsMayAssume(primary, target) == primary \in AssumingRoles

MayAssume(primary, target) ==
  /\ primary \in AssumingRoles
  /\ target = SuperAdmin => primary = SuperAdmin

AssumeRole(r, target) ==
  /\ "assume_role" \in Stimuli
  /\ req[r].at = "authed"
  /\ MayAssume(req[r].role, target)
  /\ sessions' = UpdateRole(sessions, req[r].sid, target)
  /\ Finish(r)
  /\ UNCHANGED <<users, tokens, history>>

\* Variant: the assumed role is cleared instead of replaced.
ClearedRole(r) == NoRole

RestoredRole(r) == req[r].role

ExitRoleAssumption(r) ==
  /\ "exit_role_assumption" \in Stimuli
  /\ req[r].at = "authed"
  /\ sessions' = IF req[r].role # req[r].active
                 THEN UpdateRole(sessions, req[r].sid, RestoredRole(r))
                 ELSE sessions
  /\ Finish(r)
  /\ UNCHANGED <<users, tokens, history>>

(***************************************************************************)
(* Account management, for a caller whose active role holds manage_users:    *)
(* each is one UPDATE of the row of the account u.                          *)
(***************************************************************************)
Manages(r) == req[r].at = "authed" /\ req[r].active \in ManagerRoles

ChangeUserRole(r, u, role) ==
  /\ "change_user_role" \in Stimuli
  /\ Manages(r) /\ users[u].exists /\ RowFree(u)
  /\ users' = [users EXCEPT ![u].role = role]
  /\ held' = [held EXCEPT ![u] = @ \cup {role}]
  /\ Finish(r)
  /\ UNCHANGED <<sessions, tokens, resets, windows, races>>

UnlockUser(r, u) ==
  /\ "unlock_user" \in Stimuli
  /\ Manages(r) /\ users[u].exists /\ RowFree(u)
  /\ users' = [users EXCEPT ![u] = ResetFailedAttempts(@)]
  /\ windows' = [windows EXCEPT ![u] = 0]
  /\ Finish(r)
  /\ UNCHANGED <<sessions, tokens, held, resets, races>>

AdminResetPassword(r, u, p) ==
  /\ "admin_reset_password" \in Stimuli
  /\ Manages(r) /\ users[u].exists /\ RowFree(u)
  /\ users' = [users EXCEPT ![u] = UpdatePassword(@, p)]
  /\ windows' = [windows EXCEPT ![u] = 0]
  /\ Finish(r)
  /\ UNCHANGED <<sessions, tokens, held, resets, races>>

ToggleUserStatus(r, u, active) ==
  /\ "toggle_user_status" \in Stimuli
  /\ Manages(r) /\ users[u].exists /\ RowFree(u)
  /\ users' = [users EXCEPT ![u].active = active]
  /\ Finish(r)
  /\ UNCHANGED <<sessions, tokens, history>>

(***************************************************************************)
(* forgot_password: invalidate_all_user_tokens is an UPDATE, whose snapshot   *)
(* of the account's unused tokens is taken when it starts; it locks each of *)
(* them, waiting for a reset that has consumed it or for another            *)
(* forgot_password that has locked it; then the new token is inserted.      *)
(***************************************************************************)
ForgotRead(r, u) ==
  /\ "forgot_password" \in Stimuli
  /\ users[u].exists
  /\ Start(r, [at |-> "forgot", user |-> u, todo |-> UnusedTokensOf(u), victims |-> {}])
  /\ races' = IF \E q \in At({"forgot"}) : req[q].user = u
              THEN [races EXCEPT !.accounts = @ \cup {u}]
              ELSE races
  /\ UNCHANGED <<tables, held, resets, windows>>

ForgotLock(r) ==
  /\ req[r].at = "forgot"
  /\ \E t \in NextToken(req[r].todo) :
       /\ TokenFree(t)
       /\ req' = [req EXCEPT ![r] = [at |-> "forgot", user |-> req[r].user,
                                     todo |-> req[r].todo \ {t},
                                     victims |-> req[r].victims \cup {t}]]
  /\ UNCHANGED <<tables, history>>

ForgotCommit(r) ==
  /\ req[r].at = "forgot" /\ req[r].todo = {}
  /\ \E t \in TokenIds :
       /\ tokens[t] = Unused
       /\ tokens' = [MarkUsed(tokens, req[r].victims) EXCEPT ![t] =
                       [status |-> "pending", user |-> req[r].user]]
  /\ Finish(r)
  /\ UNCHANGED <<users, sessions, history>>

(***************************************************************************)
(* reset_password: the token is consumed by one UPDATE, the row of the       *)
(* account is locked by the next, and the DELETE of its sessions removes    *)
(* those in its snapshot.                                                   *)
(***************************************************************************)
ResetConsume(r, t, p) ==
  /\ "reset_password" \in Stimuli
  /\ Consumable(t)
  /\ TokenFree(t)
  /\ Start(r, [at |-> "consumed", user |-> tokens[t].user, tok |-> t, pw |-> p])
  /\ UNCHANGED <<tables, history>>

ResetBegin(r) ==
  /\ req[r].at = "consumed"
  /\ RowFree(req[r].user)
  /\ req' = [req EXCEPT ![r] = [at |-> "reset", user |-> req[r].user, tok |-> req[r].tok,
                                pw |-> req[r].pw, victims |-> SessionsOf(req[r].user)]]
  /\ races' = [races EXCEPT !.chains = @ \cup
                 {req[q].root : q \in {x \in At({"refresh"}) : req[x].user = req[r].user}}]
  /\ UNCHANGED <<tables, held, resets, windows>>

ResetCommit(r) ==
  /\ req[r].at = "reset"
  /\ users' = [users EXCEPT ![req[r].user] = UpdatePassword(@, req[r].pw)]
  /\ tokens' = MarkUsed(tokens, {req[r].tok})
  /\ sessions' = Delete(sessions, req[r].victims)
  /\ resets' = [resets EXCEPT ![req[r].user] = @ + 1]
  /\ windows' = [windows EXCEPT ![req[r].user] = 0]
  /\ Finish(r)
  /\ UNCHANGED <<held, races>>

(***************************************************************************)
(* A request that fails before its commit (an exception, a lost connection,  *)
(* a restart of the server) is rolled back: nothing it wrote remains.       *)
(***************************************************************************)
Rollback(r) ==
  /\ "rollback" \in Stimuli
  /\ req[r] # Idle
  /\ Finish(r)
  /\ UNCHANGED <<tables, history>>

\* A request refused by what it reads first: 401, 403 or 423, and no row changed.
Refuse(r) == req[r] = Idle /\ UNCHANGED vars

(***************************************************************************)
(* Clocks.                                                                 *)
(***************************************************************************)
BlockExpires(u) ==
  /\ "block_expiry" \in Stimuli
  /\ users[u].exists /\ users[u].block = "future"
  /\ users' = [users EXCEPT ![u].block = "past"]
  /\ windows' = [windows EXCEPT ![u] = @ + 1]
  /\ UNCHANGED <<sessions, tokens, req, held, resets, races>>

SessionExpires(s) ==
  /\ "session_expiry" \in Stimuli
  /\ sessions[s].status = "live"
  /\ sessions' = [sessions EXCEPT ![s].status = "expired"]
  /\ UNCHANGED <<users, tokens, req, history>>

TokenExpires(t) ==
  /\ "token_expiry" \in Stimuli
  /\ tokens[t].status = "pending"
  /\ tokens' = [tokens EXCEPT ![t].status = "expired"]
  /\ UNCHANGED <<users, sessions, req, history>>

(***************************************************************************)
(* Specification.                                                          *)
(***************************************************************************)
SeedAccount(u) ==
  IF SeedRole[u] = NoRole THEN NoAccount ELSE NewAccount(SeedRole[u], SeedPassword)

Init ==
  /\ users = [u \in Users |-> SeedAccount(u)]
  /\ sessions = [s \in SessionIds |-> Unused]
  /\ tokens = [t \in TokenIds |-> Unused]
  /\ req = [r \in Requests |-> Idle]
  /\ held = [u \in Users |-> {SeedRole[u]} \cap Roles]
  /\ resets = [u \in Users |-> 0]
  /\ windows = [u \in Users |-> 0]
  /\ races = [chains |-> {}, accounts |-> {}]

\* A request arrives.
Arrive(r) ==
  \/ \E u \in Users, role \in Roles, p \in Passwords : RegisterRead(r, u, role, p)
  \/ \E u \in Users, p \in Passwords : LoginRead(r, u, p)
  \/ \E s \in SessionIds : RefreshRead(r, s)
  \/ \E s \in SessionIds : Authenticate(r, s)
  \/ \E u \in Users : ForgotRead(r, u)
  \/ \E t \in TokenIds, p \in Passwords : ResetConsume(r, t, p)
  \/ Refuse(r)

\* The handler of a request takes its next step.
Proceed(r) ==
  \/ RegisterCommit(r)
  \/ RegisterConflict(r)
  \/ LoginFail(r)
  \/ LoginSucceed(r)
  \/ RefreshCommit(r)
  \/ Reject(r)
  \/ Logout(r)
  \/ \E p, q \in Passwords : ChangePasswordRead(r, p, q)
  \/ ChangePasswordCommit(r)
  \/ \E role \in Roles : AssumeRole(r, role)
  \/ ExitRoleAssumption(r)
  \/ \E u \in Users, role \in Roles : ChangeUserRole(r, u, role)
  \/ \E u \in Users : UnlockUser(r, u)
  \/ \E u \in Users, p \in Passwords : AdminResetPassword(r, u, p)
  \/ \E u \in Users, active \in BOOLEAN : ToggleUserStatus(r, u, active)
  \/ ForgotLock(r)
  \/ ForgotCommit(r)
  \/ ResetBegin(r)
  \/ ResetCommit(r)

Clock ==
  \/ \E u \in Users : BlockExpires(u)
  \/ \E s \in SessionIds : SessionExpires(s)
  \/ \E t \in TokenIds : TokenExpires(t)

Next ==
  \/ \E r \in Requests : Arrive(r) \/ Proceed(r) \/ Rollback(r)
  \/ Clock

Spec == Init /\ [][Next]_vars

(***************************************************************************)
(* Properties.                                                             *)
(***************************************************************************)
TypeOK ==
  /\ TablesTypeOK
  /\ req \in [Requests -> Request]
  /\ held \in [Users -> SUBSET Roles]
  /\ resets \in [Users -> Nat]
  /\ windows \in [Users -> Nat]
  /\ races \in [chains : SUBSET SessionIds, accounts : SUBSET Users]

\* The roles a session of u may act in: one that u has had, or, if u has been
\* an administrator, any role but Super Admin.
Justified(u, role) ==
  \/ role \in held[u]
  \/ held[u] \cap AssumingRoles # {} /\ role # SuperAdmin

\* Whatever the order in which logins, rotations, role assumptions and role
\* changes commit, no session acts in a role that its owner was never given
\* and could never assume; Super Admin in particular is never reached by
\* assumption from below (assume_role, refresh, get_current_user).
SessionRoleJustified ==
  \A s \in SessionIds : IsRow(s) => Justified(sessions[s].user, sessions[s].role)

\* A reset token sets a password at most once, although two requests may
\* present it at once and forgot_password may invalidate it meanwhile: the
\* resets an account has completed never outnumber its used tokens
\* (consume_reset_token, reset_password).
ResetsSpendTokens ==
  \A u \in Users : resets[u] <= Cardinality(UsedTokensOf(u))

\* Every way of clearing the throttle clears both of its columns, and every
\* way of reaching the threshold sets the block: an account has a
\* blocked_until exactly when its counter has reached _MAX_ATTEMPTS.
BlockIffThreshold ==
  \A u \in Users : users[u].exists =>
    (users[u].block # "none" <=> users[u].failed >= MaxAttempts)

\* How far concurrent logins, which all read the row before any of them has
\* counted its failure, can overrun the threshold: by the requests served at
\* once, each time a block runs out (login, lines 148-198).
AttemptsPerWindow ==
  \A u \in Users : users[u].exists =>
    users[u].failed <= (MaxAttempts - 1) + Cardinality(Requests) * (windows[u] + 1)

\* From the threshold on, each further failure blocks the account again, also
\* after a block has run out with the counter still standing.
FailureBlocks ==
  [][\A u \in Users :
       users[u].exists /\ users'[u].failed > users[u].failed
         /\ users'[u].failed >= MaxAttempts
       => users'[u].block = "future"]_vars

\* Rotation invalidates the refresh token it is given: the sessions that
\* descend from one login are never two (refresh; routers/auth.py:140).
OneSessionPerLogin ==
  \A s1, s2 \in SessionIds :
    (IsRow(s1) /\ IsRow(s2) /\ sessions[s1].root = sessions[s2].root) => s1 = s2

\* The one way a login comes to have two sessions is two overlapping refreshes
\* of one session (or of a session its owner is resetting the password of):
\* logouts, role assumptions, expiries and the refreshes of other sessions,
\* in any order, never bring it about (refresh, _create_session).
RotationUnique ==
  \A s1, s2 \in SessionIds :
    (IsRow(s1) /\ IsRow(s2) /\ sessions[s1].root = sessions[s2].root)
      => s1 = s2 \/ sessions[s1].root \in races.chains

\* Once a reset has completed, neither a session that was there before it nor a
\* rotation of one is left, unless a refresh of it overlapped the reset
\* (reset_password; routers/auth.py:255 promises it without the exception).
ResetRevokesSessions ==
  \A s \in SessionIds : IsRow(s) =>
    \/ sessions[s].era = resets[sessions[s].user]
    \/ sessions[s].root \in races.chains

\* The same without the exception.
AllSessionsRevoked ==
  \A s \in SessionIds : IsRow(s) => sessions[s].era = resets[sessions[s].user]

\* An account has at most one reset token that can be used, unless two
\* forgot_password requests for it overlapped (invalidate_all_user_tokens).
OnePendingToken ==
  \A t1, t2 \in TokenIds :
    (Consumable(t1) /\ Consumable(t2) /\ tokens[t1].user = tokens[t2].user)
      => t1 = t2 \/ tokens[t1].user \in races.accounts

\* r cannot take its next step before q commits or is rolled back.
WaitsFor(r, q) ==
  \/ req[r].at \in {"login", "change", "consumed"} /\ HoldsUser(q, req[r].user)
  \/ req[r].at = "forgot" /\ \E t \in NextToken(req[r].todo) : HoldsToken(q, t)

\* No requests wait for each other's row locks in a circle, although a
\* forgot_password holds the tokens it has met while it waits for the next and
\* a reset holds its token while it waits for its account: among any requests
\* there is one that waits for none of them (invalidate_all_user_tokens,
\* consume_reset_token, update_password).
NoWaitCycle ==
  \A S \in (SUBSET Requests) \ {{}} : \E r \in S : \A q \in S : ~WaitsFor(r, q)
=============================================================================
