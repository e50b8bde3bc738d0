---------------------------- MODULE ClientProofs ----------------------------
(***************************************************************************)
(* Proofs about ClientSession, for every number of tabs, calls and           *)
(* rotations: its types, and that no tab logs out without a cause.           *)
(***************************************************************************)
EXTENDS ClientSession, TLAPS

(***************************************************************************)
(* As long as nothing has happened to the session and no refreshes overlap,   *)
(* one refresh at most is under way, the refresh token of the one session is  *)
(* with it or in the cookie, and nothing has been cleared.                    *)
(***************************************************************************)
Quiet == ~mishap /\ ~overlap

OneRefresh ==
  /\ \A t, u \in Tabs : refresh[t] # Idle /\ refresh[u] # Idle => t = u
  /\ \A t \in Tabs : refresh[t] # Idle => refresh[t].at # "rejected" /\ refresh[t].cookie = newest

TokenKept ==
  /\ sessions = {newest}
  /\ (\A t \in Tabs : refresh[t].at # "granted") => cookie = newest

NoneCleared ==
  /\ stored # "cleared"
  /\ \A t \in Tabs : page[t] = "login" => t \in early

InOrder == OneRefresh /\ TokenKept /\ NoneCleared

ClientInv == ClientTypeOK /\ (Quiet => InOrder)

Stamps == 0..newest
RefreshRecord == [at : {"asked", "found", "granted", "rejected"}, cookie : Stamps]
CallRecord == [at : {"new", "sent", "refused", "queued", "refreshing", "back"},
               retry : BOOLEAN, bearer : {NoToken} \cup Stamps]

(***************************************************************************)
(* Types                                                                   *)
(***************************************************************************)
\* A refresh is idle, or under way with a refresh token.
LEMMA RefreshKinds ==
  ASSUME ClientTypeOK, NEW t \in Tabs
  PROVE  /\ refresh[t] = Idle <=> refresh[t].at = "idle"
         /\ refresh[t].at # "idle" => refresh[t] \in RefreshRecord
  BY DEF ClientTypeOK, Idle, RefreshRecord, Stamps

\* What a tab abandons, and what it sends again, are calls.
LEMMA AbandonedTyped ==
  ASSUME ClientTypeOK, NEW t \in Tabs
  PROVE  Abandoned(t) \in [Calls -> CallRecord]
  BY DEF ClientTypeOK, Abandoned, Back, CallRecord, Stamps

LEMMA SentTyped ==
  ASSUME ClientTypeOK, NEW c \in Calls, NEW g \in {NoToken} \cup Stamps
  PROVE  Sent(c, g) \in CallRecord
  BY DEF ClientTypeOK, Sent, CallRecord, Stamps

\* A refresh that is asked for.
LEMMA AskTyped ==
  ASSUME ClientTypeOK, NEW t \in Tabs, AskRefresh(t)
  PROVE  refresh' \in [Tabs -> {Idle} \cup RefreshRecord] /\ overlap' \in BOOLEAN
  BY DEF ClientTypeOK, AskRefresh, RefreshRecord, Stamps

\* The steps of a call.
LEMMA CallTyped ==
  ASSUME ClientTypeOK, NEW c \in Calls, Send(c) \/ CallRuns(c)
  PROVE  ClientTypeOK'
<1>0. TabOf[c] \in Tabs
  BY ClientAssumption
<1>1. CASE Send(c)
  <2>1. calls' \in [Calls -> CallRecord]
    BY <1>0, <1>1, SentTyped DEF Send, ClientTypeOK, CallRecord, Stamps
  <2> QED
    BY <1>1, <2>1 DEF Send, serverVars, causes, ClientTypeOK, CallRecord, Stamps
<1>2. CASE Serve(c)
  BY <1>2 DEF Serve, Back, serverVars, causes, ClientTypeOK
<1>3. CASE Refused(c)
  <2>1. refresh' \in [Tabs -> {Idle} \cup RefreshRecord]
    BY <1>0, <1>3, AskTyped DEF Refused, ClientTypeOK, RefreshRecord, Stamps
  <2>2. calls' \in [Calls -> CallRecord]
    <3>1. Back \in CallRecord /\ calls[c] \in CallRecord /\ calls \in [Calls -> CallRecord]
      BY DEF Back, ClientTypeOK, CallRecord, Stamps
    <3>2. /\ [calls[c] EXCEPT !.at = "refreshing", !.retry = TRUE] \in CallRecord
          /\ [calls[c] EXCEPT !.at = "queued", !.retry = TRUE] \in CallRecord
      BY <3>1 DEF CallRecord
    <3>3. \/ calls' = [calls EXCEPT ![c] = Back]
          \/ calls' = [calls EXCEPT ![c] = [calls[c] EXCEPT !.at = "refreshing", !.retry = TRUE]]
          \/ calls' = [calls EXCEPT ![c] = [calls[c] EXCEPT !.at = "queued", !.retry = TRUE]]
      BY <1>3, <3>1 DEF Refused
    <3> QED
      BY <3>1, <3>2, <3>3
  <2> QED
    BY <1>0, <1>3, <2>1, <2>2, AskTyped DEF Refused, serverVars, ClientTypeOK, RefreshRecord, CallRecord, Stamps
<1> QED
  BY <1>1, <1>2, <1>3 DEF CallRuns

\* The end of a tab's life in the page.
LEMMA ToLoginTyped ==
  ASSUME ClientTypeOK, NEW t \in Tabs, ToLogin(t), mishap' \in BOOLEAN
  PROVE  ClientTypeOK'
  BY AbandonedTyped DEF ToLogin, serverVars, ClientTypeOK, CallRecord, Stamps

\* The steps of a tab.
LEMMA TabTyped ==
  ASSUME ClientTypeOK, NEW t \in Tabs, TabRuns(t) \/ Reload(t) \/ SaveProfile(t)
  PROVE  ClientTypeOK'
<1>1. CASE ServeRefresh(t)
  <2>1. refresh[t] \in RefreshRecord
    BY <1>1, RefreshKinds DEF ServeRefresh
  <2> DEFINE next == IF refresh[t].cookie \in sessions THEN "found" ELSE "rejected"
  <2>2. [refresh[t] EXCEPT !.at = next] \in RefreshRecord
    BY <2>1 DEF RefreshRecord
  <2>3. refresh' = [refresh EXCEPT ![t] = [refresh[t] EXCEPT !.at = next]]
    BY <1>1 DEF ServeRefresh, ClientTypeOK
  <2>4. refresh' \in [Tabs -> {Idle} \cup RefreshRecord]
    BY <2>2, <2>3 DEF ClientTypeOK, RefreshRecord, Stamps
  <2> QED
    BY <1>1, <2>4 DEF ServeRefresh, serverVars, causes, ClientTypeOK, RefreshRecord, Stamps
<1>2. CASE Rotate(t)
  <2>1. newest' = newest + 1 /\ newest \in Nat /\ newest' \in Nat /\ Stamps \subseteq Stamps' /\ newest' \in Stamps'
    BY <1>2 DEF Rotate, ClientTypeOK, Stamps
  <2>2. refresh[t] \in RefreshRecord
    BY <1>2, RefreshKinds DEF Rotate
  <2>3. refresh' \in [Tabs -> {Idle} \cup RefreshRecord']
    BY <1>2, <2>1, <2>2 DEF Rotate, ClientTypeOK, RefreshRecord, Stamps
  <2>4. sessions' \subseteq Stamps' /\ expired' \subseteq Stamps' /\ cookie' \in Stamps'
    BY <1>2, <2>1 DEF Rotate, ClientTypeOK, Stamps
  <2>5. calls' \in [Calls -> CallRecord'] /\ token' \in [Tabs -> {NoToken} \cup Stamps']
    BY <1>2, <2>1 DEF Rotate, ClientTypeOK, CallRecord, Stamps
  <2> QED
    BY <1>2, <2>1, <2>3, <2>4, <2>5 DEF Rotate, causes, ClientTypeOK, RefreshRecord, CallRecord, Stamps, Idle
<1>3. CASE Refreshed(t)
  <2>1. refresh[t] \in RefreshRecord /\ refresh[t].cookie \in Stamps
    BY <1>3, RefreshKinds DEF Refreshed, RefreshRecord
  <2>2. calls' \in [Calls -> CallRecord]
    BY <1>3, <2>1, SentTyped DEF Refreshed, ClientTypeOK, CallRecord, Stamps
  <2> QED
    BY <1>3, <2>1, <2>2 DEF Refreshed, serverVars, causes, ClientTypeOK, CallRecord, Stamps
<1>4. CASE RefreshRejected(t)
  BY <1>4, ToLoginTyped DEF RefreshRejected, ClientTypeOK
<1>5. CASE RefreshLost(t)
  BY <1>5, ToLoginTyped DEF RefreshLost
<1>6. CASE Reload(t)
  BY <1>6, AbandonedTyped DEF Reload, serverVars, ClientTypeOK, CallRecord, Stamps
<1>7. CASE Hydrate(t)
  BY <1>7, AskTyped DEF Hydrate, serverVars, ClientTypeOK, RefreshRecord, CallRecord, Stamps
<1>8. CASE SaveProfile(t)
  BY <1>8 DEF SaveProfile, serverVars, causes, ClientTypeOK
<1> QED
  BY <1>1, <1>2, <1>3, <1>4, <1>5, <1>6, <1>7, <1>8 DEF TabRuns

LEMMA ClientTypedStep ==
  ASSUME ClientTypeOK, [ClientNext]_clientVars
  PROVE  ClientTypeOK'
<1>1. CASE UNCHANGED clientVars
  BY <1>1 DEF clientVars, ClientTypeOK, Idle
<1>2. ASSUME NEW g \in sessions, AccessExpires(g) \/ SessionEnds(g) PROVE ClientTypeOK'
  BY <1>2 DEF AccessExpires, SessionEnds, causes, ClientTypeOK
<1> QED
  BY <1>1, <1>2, CallTyped, TabTyped DEF ClientNext

LEMMA ClientTypedInit == ClientInit => ClientTypeOK
<1> SUFFICES ASSUME ClientInit PROVE ClientTypeOK
  OBVIOUS
<1>1. newest = 0 /\ Stamps = {0}
  BY DEF ClientInit, Stamps
<1>2. NewCall \in CallRecord
  BY DEF NewCall, CallRecord
<1>3. calls \in [Calls -> CallRecord] /\ refresh \in [Tabs -> {Idle} \cup RefreshRecord]
  BY <1>2 DEF ClientInit
<1>4. newest \in Nat /\ cookie \in Stamps /\ sessions \subseteq Stamps /\ expired \subseteq Stamps
  BY <1>1 DEF ClientInit
<1>5. stored \in {"never", "there", "cleared"} /\ page \in [Tabs -> {"closed", "loading", "app", "login"}] /\ token \in [Tabs -> {NoToken} \cup Stamps]
  BY <1>1 DEF ClientInit
<1>6. mishap \in BOOLEAN /\ overlap \in BOOLEAN /\ early \subseteq Tabs
  BY DEF ClientInit
<1> QED
  BY <1>3, <1>4, <1>5, <1>6 DEF ClientTypeOK, CallRecord, RefreshRecord, Stamps

\* The state of a tab, the cookie and the session rows are what the interceptor and
\* AuthService.refresh can make of them, for every number of tabs, calls and rotations.
THEOREM ClientTyped == ClientSpec => []ClientTypeOK
  BY ClientTypedInit, ClientTypedStep, PTL DEF ClientSpec

(***************************************************************************)
(* Logouts                                                                 *)
(***************************************************************************)
\* What holds for good once it has happened.
LEMMA QuietBefore ==
  ASSUME ClientTypeOK, [ClientNext]_clientVars, Quiet'
  PROVE  Quiet
<1>0. ASSUME NEW t \in Tabs, AskRefresh(t), overlap PROVE overlap'
  BY <1>0, Zenon DEF AskRefresh
<1>1. ASSUME NEW c \in Calls, Send(c) \/ CallRuns(c) PROVE Quiet
  <2>1. TabOf[c] \in Tabs
    BY ClientAssumption
  <2>2. mishap' = mishap /\ (overlap' = overlap \/ AskRefresh(TabOf[c]))
    BY <1>1 DEF Send, CallRuns, Serve, Refused, causes
  <2> QED
    BY <1>0, <2>1, <2>2 DEF Quiet
<1>2. ASSUME NEW t \in Tabs, TabRuns(t) \/ Reload(t) \/ SaveProfile(t) PROVE Quiet
  <2>1. overlap' = overlap \/ AskRefresh(t)
    BY <1>2 DEF TabRuns, Hydrate, ServeRefresh, Rotate, Refreshed, RefreshRejected, RefreshLost, ToLogin, Reload,
       SaveProfile, causes
  <2>2. mishap' = mishap \/ mishap' = TRUE \/ mishap' = (mishap \/ refresh[t] # Idle)
    BY <1>2 DEF TabRuns, Hydrate, ServeRefresh, Rotate, Refreshed, RefreshRejected, RefreshLost, ToLogin, Reload,
       SaveProfile, causes
  <2>3. mishap => mishap'
    BY <2>2, Zenon
  <2> QED
    BY <1>0, <2>1, <2>3 DEF Quiet
<1>3. ASSUME NEW g \in sessions, AccessExpires(g) \/ SessionEnds(g) PROVE Quiet
  BY <1>3 DEF Quiet, AccessExpires, SessionEnds, causes
<1> QED
  BY <1>1, <1>2, <1>3 DEF ClientNext, Quiet, clientVars

\* A refresh that overlaps with no other one, and is the tab's only one, asks with the
\* refresh token of the session.
LEMMA AskKeepsOrder ==
  ASSUME ClientTypeOK, InOrder, NEW t \in Tabs, refresh[t] = Idle, AskRefresh(t), ~overlap',
         UNCHANGED <<sessions, newest, cookie>>
  PROVE  OneRefresh' /\ TokenKept'
<1>1. \A u \in Tabs : refresh[u] = Idle
  BY DEF AskRefresh
<1>2. cookie = newest
  BY <1>1 DEF InOrder, TokenKept, Idle
<1>3. /\ refresh'[t] = [at |-> "asked", cookie |-> newest]
      /\ \A u \in Tabs \ {t} : refresh'[u] = Idle
  BY <1>1, <1>2 DEF AskRefresh, ClientTypeOK
<1> QED
  BY <1>2, <1>3 DEF OneRefresh, TokenKept, InOrder, Idle

\* A tab that ends its refresh, or had none, leaves the others theirs.
LEMMA RestKeepsOrder ==
  ASSUME ClientTypeOK, InOrder, NEW t \in Tabs, refresh' = [refresh EXCEPT ![t] = Idle],
         UNCHANGED <<sessions, newest>>,
         IF refresh[t].at = "granted" THEN cookie' = newest ELSE cookie' = cookie
  PROVE  OneRefresh' /\ TokenKept'
<1>1. refresh'[t] = Idle /\ \A u \in Tabs \ {t} : refresh'[u] = refresh[u]
  BY DEF ClientTypeOK
<1>2. OneRefresh'
  BY <1>1 DEF InOrder, OneRefresh
<1>3. ASSUME refresh[t].at # "granted", \A u \in Tabs : refresh'[u].at # "granted"
      PROVE  cookie' = newest
  BY <1>1, <1>3 DEF InOrder, TokenKept
<1>4. TokenKept'
  BY <1>3 DEF InOrder, TokenKept
<1> QED
  BY <1>2, <1>4

\* The steps of a call: it asks for a refresh only if the tab has none under way.
LEMMA CallsKeepOrder ==
  ASSUME ClientTypeOK, InOrder, Quiet', NEW c \in Calls, Send(c) \/ CallRuns(c)
  PROVE  InOrder'
<1>1. UNCHANGED <<sessions, newest, cookie, stored, page, early>>
  BY DEF Send, CallRuns, Serve, Refused, serverVars, causes
<1>2. TabOf[c] \in Tabs
  BY ClientAssumption
<1>3. \/ refresh' = refresh
      \/ refresh[TabOf[c]] = Idle /\ AskRefresh(TabOf[c])
  BY DEF Send, CallRuns, Serve, Refused, StartsRefresh
<1>4. OneRefresh' /\ TokenKept'
  <2>1. CASE refresh' = refresh
    BY <1>1, <2>1 DEF InOrder, OneRefresh, TokenKept
  <2>2. CASE refresh[TabOf[c]] = Idle /\ AskRefresh(TabOf[c])
    BY <1>1, <1>2, <2>2, AskKeepsOrder DEF Quiet
  <2> QED
    BY <1>3, <2>1, <2>2
<1> QED
  BY <1>1, <1>4 DEF InOrder, NoneCleared

\* The steps of a tab.
LEMMA TabsKeepOrder ==
  ASSUME ClientTypeOK, InOrder, Quiet', NEW t \in Tabs, TabRuns(t) \/ Reload(t) \/ SaveProfile(t)
  PROVE  InOrder'
<1>0. refresh \in [Tabs -> {Idle} \cup RefreshRecord] /\ page \in [Tabs -> {"closed", "loading", "app", "login"}]
  BY DEF ClientTypeOK, RefreshRecord, Stamps
<1>1. CASE Hydrate(t)
  <2>1. UNCHANGED <<sessions, newest, cookie, stored>>
    BY <1>1 DEF Hydrate, serverVars
  <2>2. OneRefresh' /\ TokenKept'
    <3>1. CASE AskRefresh(t)
      BY <1>1, <2>1, <3>1, AskKeepsOrder DEF Hydrate, Quiet
    <3>2. CASE refresh' = refresh
      BY <2>1, <3>2 DEF InOrder, OneRefresh, TokenKept
    <3> QED
      BY <1>1, <3>1, <3>2 DEF Hydrate
  <2>3. NoneCleared'
    BY <1>0, <1>1, <2>1 DEF Hydrate, InOrder, NoneCleared, ClientTypeOK
  <2> QED
    BY <2>2, <2>3 DEF InOrder
<1>2. CASE ServeRefresh(t)
  <2>1. refresh[t] # Idle /\ refresh[t] \in RefreshRecord /\ refresh[t].cookie = newest
    BY <1>2, RefreshKinds DEF ServeRefresh, InOrder, OneRefresh, Idle
  <2>2. refresh' = [refresh EXCEPT ![t] = [refresh[t] EXCEPT !.at = "found"]]
    BY <1>0, <1>2, <2>1 DEF ServeRefresh, InOrder, TokenKept
  <2>3. /\ refresh'[t].at = "found" /\ refresh'[t].cookie = newest /\ refresh[t].at = "asked"
        /\ \A u \in Tabs \ {t} : refresh'[u] = refresh[u]
    BY <1>0, <1>2, <2>1, <2>2 DEF RefreshRecord, ServeRefresh
  <2>4. UNCHANGED <<sessions, newest, cookie, stored, page, early>>
    BY <1>2 DEF ServeRefresh, serverVars, causes
  <2> QED
    BY <2>1, <2>3, <2>4 DEF InOrder, OneRefresh, TokenKept, NoneCleared
<1>3. CASE Rotate(t)
  <2>1. refresh[t] # Idle /\ refresh[t] \in RefreshRecord /\ refresh[t].cookie = newest
    BY <1>3, RefreshKinds DEF Rotate, InOrder, OneRefresh, Idle
  <2>2. /\ refresh'[t].at = "granted" /\ refresh'[t].cookie = newest'
        /\ \A u \in Tabs \ {t} : refresh'[u] = refresh[u]
    BY <1>0, <1>3, <2>1 DEF RefreshRecord, Rotate
  <2>3. sessions' = {newest'} /\ UNCHANGED <<stored, page, early>>
    BY <1>3, <2>1 DEF Rotate, InOrder, TokenKept, causes
  <2> QED
    BY <2>1, <2>2, <2>3 DEF InOrder, OneRefresh, TokenKept, NoneCleared
<1>4. CASE Refreshed(t)
  <2>1. refresh[t] # Idle /\ refresh[t].cookie = newest
    BY <1>4 DEF Refreshed, InOrder, OneRefresh, Idle
  <2>2. /\ refresh' = [refresh EXCEPT ![t] = Idle] /\ cookie' = newest
        /\ UNCHANGED <<sessions, newest, early>>
        /\ stored' = "there" /\ page' = [page EXCEPT ![t] = "app"]
    BY <1>4, <2>1 DEF Refreshed, serverVars, causes
  <2>3. OneRefresh' /\ TokenKept'
    BY <1>4, <2>2, RestKeepsOrder DEF Refreshed
  <2> QED
    BY <1>0, <2>2, <2>3 DEF InOrder, NoneCleared
<1>5. ~RefreshRejected(t)
  BY DEF RefreshRejected, InOrder, OneRefresh, Idle
<1>6. ~RefreshLost(t)
  BY DEF RefreshLost, Quiet
<1>7. CASE Reload(t)
  <2>1. refresh[t] = Idle
    BY <1>7 DEF Reload, Quiet
  <2>2. /\ refresh' = [refresh EXCEPT ![t] = Idle] /\ UNCHANGED <<sessions, newest, cookie, stored, early>>
        /\ page' = [page EXCEPT ![t] = "loading"]
    BY <1>7 DEF Reload, serverVars
  <2>3. OneRefresh' /\ TokenKept'
    <3>1. refresh[t].at # "granted"
      BY <2>1 DEF Idle
    <3> QED
      BY <2>2, <3>1, RestKeepsOrder
  <2> QED
    BY <1>0, <2>2, <2>3 DEF InOrder, NoneCleared
<1>8. CASE SaveProfile(t)
  BY <1>8 DEF SaveProfile, serverVars, causes, InOrder, OneRefresh, TokenKept, NoneCleared
<1> QED
  BY <1>1, <1>2, <1>3, <1>4, <1>5, <1>6, <1>7, <1>8 DEF TabRuns

LEMMA ClientInvStep ==
  ASSUME ClientInv, [ClientNext]_clientVars
  PROVE  ClientInv'
<1>0. ClientTypeOK /\ ClientTypeOK'
  BY ClientTypedStep DEF ClientInv
<1>1. ASSUME Quiet' PROVE InOrder'
  <2>1. InOrder
    BY <1>0, <1>1, QuietBefore DEF ClientInv
  <2>2. CASE UNCHANGED clientVars
    BY <2>1, <2>2 DEF clientVars, InOrder, OneRefresh, TokenKept, NoneCleared
  <2>3. ASSUME NEW g \in sessions, AccessExpires(g) \/ SessionEnds(g) PROVE InOrder'
    BY <1>1, <2>1, <2>3 DEF AccessExpires, SessionEnds, Quiet, causes, InOrder, OneRefresh, TokenKept, NoneCleared
  <2> QED
    BY <1>0, <1>1, <2>1, <2>2, <2>3, CallsKeepOrder, TabsKeepOrder DEF ClientNext
<1> QED
  BY <1>0, <1>1 DEF ClientInv

\* For every number of tabs, calls and rotations, a tab comes to the login page only if
\* the session ended, the answer of a refresh was lost, the refreshes of two tabs
\* overlapped, or it was loaded before a user was stored (api.ts, hydrate).
THEOREM LogoutsSafe == ClientSpec => []LogoutsJustified
<1>1. ClientInit => ClientInv
  <2>1. ClientInit => InOrder
    BY DEF ClientInit, InOrder, OneRefresh, TokenKept, NoneCleared, Idle
  <2> QED
    BY <2>1, ClientTypedInit DEF ClientInv
<1>2. ClientInv /\ [ClientNext]_clientVars => ClientInv'
  BY ClientInvStep
<1>3. ClientInv => LogoutsJustified
  BY DEF ClientInv, Quiet, InOrder, NoneCleared, LogoutsJustified
<1> QED
  BY <1>1, <1>2, <1>3, PTL DEF ClientSpec
=============================================================================
