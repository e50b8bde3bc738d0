---------------------------- MODULE ClientSession ----------------------------
(***************************************************************************)
(* The session of the web client: the interceptors of                        *)
(* frontend/src/lib/api.ts, the hydration of AppRouter.tsx, the cookie and    *)
(* the local storage that all tabs of a browser share, and the rotation of    *)
(* the session by POST /auth/refresh.                                        *)
(*                                                                         *)
(* The session row, its refresh token and its access token are named by one   *)
(* number, the rotation that made them.  A response takes time: what the      *)
(* server has decided and what the tab has received are separate steps.      *)
(***************************************************************************)
EXTENDS Naturals, FiniteSets

CONSTANTS Tabs, Calls,
          TabOf,            \* the tab that makes a call
          MaxRotations,
          NoToken

ASSUME ClientAssumption ==
  /\ TabOf \in [Calls -> Tabs] /\ MaxRotations \in Nat
  /\ NoToken \notin Nat

VARIABLES sessions,     \* the session rows of the login
          expired,      \* the sessions whose access token has run out
          newest,       \* the rotations so far
          cookie,       \* the refresh cookie of the browser
          stored,       \* auth_user in localStorage: "never" was there, is "there", or "cleared"
          page,         \* "closed", "loading", "app" or "login"
          token,        \* useAuthStore.token
          refresh,      \* isRefreshing: the call of /auth/refresh that is under way
          calls,        \* the calls of the tabs
          mishap,       \* history: a session has ended, or a refreshed one was not heard of
          overlap,      \* history: a tab asked for a refresh while another one's was under way
          early         \* history: the tabs that were loaded before anything was stored

serverVars == <<sessions, expired, newest>>
causes == <<mishap, overlap, early>>
clientVars == <<sessions, expired, newest, cookie, stored, page, token, refresh, calls,
                mishap, overlap, early>>

Idle == [at |-> "idle"]
NewCall == [at |-> "new", retry |-> FALSE, bearer |-> NoToken]
CallsOf(t) == {c \in Calls : TabOf[c] = t}
Waiting(c) == calls[c].at \in {"sent", "refused", "queued", "refreshing"}
\* A call that has come back to the page, with an answer or an error.
Back == [at |-> "back", retry |-> FALSE, bearer |-> NoToken]
Abandoned(t) == [c \in Calls |-> IF TabOf[c] = t /\ Waiting(c) THEN Back ELSE calls[c]]

\* The request interceptor: the token of the store goes with every call.
Sent(c, g) == [calls[c] EXCEPT !.at = "sent", !.bearer = g]

Send(c) ==
  /\ calls[c].at = "new" /\ page[TabOf[c]] = "app"
  /\ calls' = [calls EXCEPT ![c] = Sent(c, token[TabOf[c]])]
  /\ UNCHANGED <<serverVars, cookie, stored, page, token, refresh, causes>>

\* A refresh goes out with the cookie as it is now.
AskRefresh(t) ==
  /\ refresh' = [refresh EXCEPT ![t] = [at |-> "asked", cookie |-> cookie]]
  /\ overlap' = (overlap \/ \E u \in Tabs \ {t} : refresh[u] # Idle)

(***************************************************************************)
(* The server                                                              *)
(***************************************************************************)
\* get_current_user: the token has not run out, and its session row is there.
Serve(c) ==
  /\ calls[c].at = "sent"
  /\ calls' = [calls EXCEPT ![c] =
       IF @.bearer \in sessions \ expired THEN Back
       ELSE [@ EXCEPT !.at = "refused", !.bearer = NoToken]]
  /\ UNCHANGED <<serverVars, cookie, stored, page, token, refresh, causes>>

\* refresh reads the session, and replaces it in a second step.
ServeRefresh(t) ==
  /\ refresh[t].at = "asked"
  /\ refresh' = [refresh EXCEPT ![t].at =
       IF refresh[t].cookie \in sessions THEN "found" ELSE "rejected"]
  /\ UNCHANGED <<serverVars, cookie, stored, page, token, calls, causes>>

Rotate(t) ==
  /\ refresh[t].at = "found"
  /\ newest' = newest + 1
  /\ sessions' = (sessions \ {refresh[t].cookie}) \cup {newest'}
  /\ refresh' = [refresh EXCEPT ![t].at = "granted", ![t].cookie = newest']
  /\ expired' = expired \ {refresh[t].cookie}
  /\ UNCHANGED <<cookie, stored, page, token, calls, causes>>

AccessExpires(g) ==
  /\ g \in sessions \ expired /\ newest < MaxRotations
  /\ expired' = expired \cup {g}
  /\ UNCHANGED <<sessions, newest, cookie, stored, page, token, refresh, calls, causes>>

\* Revocation by an administrator, a password reset, the end of its time, or a logout,
\* which clears the storage.
SessionEnds(g) ==
  /\ g \in sessions
  /\ sessions' = sessions \ {g} /\ expired' = expired \ {g}
  /\ stored' \in {stored, "cleared"} /\ mishap' = TRUE
  /\ UNCHANGED <<newest, cookie, page, token, refresh, calls, overlap, early>>

(***************************************************************************)
(* The response interceptor                                                *)
(***************************************************************************)
\* Variant: every call that is refused refreshes.
RefreshesAtOnce(t) == TRUE

StartsRefresh(t) == refresh[t] = Idle

\* A call is retried once; the rest wait for the refresh that is under way.
Refused(c) ==
  LET t == TabOf[c] IN
  /\ calls[c].at = "refused"
  /\ IF calls[c].retry
     THEN calls' = [calls EXCEPT ![c] = Back] /\ UNCHANGED <<refresh, overlap>>
     ELSE IF StartsRefresh(t)
     THEN /\ calls' = [calls EXCEPT ![c].at = "refreshing", ![c].retry = TRUE]
          /\ AskRefresh(t)
     ELSE /\ calls' = [calls EXCEPT ![c].at = "queued", ![c].retry = TRUE]
          /\ UNCHANGED <<refresh, overlap>>
  /\ UNCHANGED <<serverVars, cookie, stored, page, token, mishap, early>>

\* Variant: only the call that asked for the refresh is sent again.
ResumedFirst(t) == {c \in CallsOf(t) : calls[c].at = "refreshing"}

Resumed(t) == {c \in CallsOf(t) : calls[c].at \in {"refreshing", "queued"}}

\* The answer sets the cookie and the storage of the browser and the token of the tab.
Refreshed(t) ==
  /\ refresh[t].at = "granted"
  /\ cookie' = refresh[t].cookie /\ stored' = "there"
  /\ token' = [token EXCEPT ![t] = refresh[t].cookie]
  /\ page' = [page EXCEPT ![t] = "app"]
  /\ calls' = [c \in Calls |-> IF c \in Resumed(t) THEN Sent(c, refresh[t].cookie) ELSE calls[c]]
  /\ refresh' = [refresh EXCEPT ![t] = Idle]
  /\ UNCHANGED <<serverVars, causes>>

\* The storage of all tabs is cleared.  The interceptor rejects its queue and loads the
\* login page, which ends every call of the tab; hydrate goes on to the login page.
ToLogin(t) ==
  /\ stored' = "cleared"
  /\ token' = [token EXCEPT ![t] = NoToken]
  /\ page' = [page EXCEPT ![t] = IF @ = "app" THEN "loading" ELSE "login"]
  /\ calls' = Abandoned(t)
  /\ refresh' = [refresh EXCEPT ![t] = Idle]
  /\ UNCHANGED <<serverVars, cookie, overlap, early>>

RefreshRejected(t) == refresh[t].at = "rejected" /\ ToLogin(t) /\ UNCHANGED mishap

\* The connection fails before or after the session is replaced.
RefreshLost(t) == refresh[t].at \in {"asked", "granted"} /\ ToLogin(t) /\ mishap' = TRUE

\* The page is opened, or loaded again: the tab forgets its token.
Reload(t) ==
  /\ page[t] # "loading"
  /\ page' = [page EXCEPT ![t] = "loading"]
  /\ token' = [token EXCEPT ![t] = NoToken]
  /\ calls' = Abandoned(t)
  /\ refresh' = [refresh EXCEPT ![t] = Idle]
  /\ mishap' = (mishap \/ refresh[t] # Idle)
  /\ UNCHANGED <<serverVars, cookie, stored, overlap, early>>

\* The page that has been loaded refreshes if a user is stored (and if the bound on the
\* rotations allows it; otherwise the page stays as it is).
Hydrate(t) ==
  /\ page[t] = "loading" /\ refresh[t] = Idle
  /\ IF stored = "there"
     THEN newest < MaxRotations /\ AskRefresh(t) /\ UNCHANGED <<page, early>>
     ELSE /\ page' = [page EXCEPT ![t] = "login"]
          /\ early' = IF stored = "never" THEN early \cup {t} ELSE early
          /\ UNCHANGED <<refresh, overlap>>
  /\ UNCHANGED <<serverVars, cookie, stored, token, calls, mishap>>

\* The profile page stores the user whom it has saved; the login page does not.
SaveProfile(t) ==
  /\ page[t] = "app" /\ token[t] \in sessions \ expired
  /\ stored' = "there"
  /\ UNCHANGED <<serverVars, cookie, page, token, refresh, calls, causes>>

\* What the browser and the server do without the user.
TabRuns(t) ==
  \/ Hydrate(t) \/ ServeRefresh(t) \/ Rotate(t)
  \/ Refreshed(t) \/ RefreshRejected(t) \/ RefreshLost(t)

CallRuns(c) == Serve(c) \/ Refused(c)

\* The user has logged in in one tab; a user may be stored from an earlier login.
ClientInit ==
  /\ sessions = {0} /\ expired = {} /\ newest = 0 /\ cookie = 0
  /\ stored \in {"never", "there"}
  /\ \E first \in Tabs :
       /\ page = [t \in Tabs |-> IF t = first THEN "app" ELSE "closed"]
       /\ token = [t \in Tabs |-> IF t = first THEN 0 ELSE NoToken]
  /\ refresh = [t \in Tabs |-> Idle]
  /\ calls = [c \in Calls |-> NewCall]
  /\ mishap = FALSE /\ overlap = FALSE /\ early = {}

ClientNext ==
  \/ \E c \in Calls : Send(c) \/ CallRuns(c)
  \/ \E t \in Tabs : TabRuns(t) \/ Reload(t) \/ SaveProfile(t)
  \/ \E g \in sessions : AccessExpires(g) \/ SessionEnds(g)

ClientSpec == ClientInit /\ [][ClientNext]_clientVars

ClientTypeOK ==
  /\ sessions \subseteq 0..newest /\ expired \subseteq 0..newest
  /\ newest \in Nat /\ cookie \in 0..newest
  /\ stored \in {"never", "there", "cleared"}
  /\ page \in [Tabs -> {"closed", "loading", "app", "login"}]
  /\ token \in [Tabs -> {NoToken} \cup 0..newest]
  /\ refresh \in [Tabs -> {Idle} \cup [at : {"asked", "found", "granted", "rejected"}, cookie : 0..newest]]
  /\ calls \in [Calls -> [at : {"new", "sent", "refused", "queued", "refreshing", "back"},
                          retry : BOOLEAN, bearer : {NoToken} \cup 0..newest]]
  /\ mishap \in BOOLEAN /\ overlap \in BOOLEAN /\ early \subseteq Tabs

(***************************************************************************)
(* Properties                                                              *)
(***************************************************************************)
\* A tab comes to the login page only if the session has ended, the answer of a refresh
\* was lost, the refreshes of two tabs overlapped, or the tab itself was loaded before
\* anything was stored: calls of one tab that are refused together, or after one another,
\* never spend one refresh token twice, and what one tab clears in the storage of all
\* logs no other one out without such a cause (api.ts interceptor, hydrate).
LogoutsJustified ==
  \A t \in Tabs : page[t] = "login" => mishap \/ overlap \/ t \in early

\* Every call comes back to the page, with an answer or an error, whatever becomes of
\* the refresh it waits for (refreshQueue).
CallsResume == \A c \in Calls : []<>~Waiting(c)
=============================================================================
