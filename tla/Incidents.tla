----------------------------- MODULE Incidents -----------------------------
(***************************************************************************)
(* Incidents and the deadline of their report to CERT-In                    *)
(* (backend/app/routers/incidents.py), logged with the form of              *)
(* frontend/src/pages/security/NewIncident.tsx.                             *)
(*                                                                         *)
(* Times are hours of UTC; a user's clock is some hours ahead of it, or behind. *)
(***************************************************************************)
EXTENDS Inbox, Integers, FiniteSets

CONSTANTS IncidentIds,
          Zones,        \* offsets of the users' clocks from UTC
          Times,        \* the hours at which something happens
          PageLimit     \* rows of one answer of list_incidents

ASSUME IncidentAssumption ==
  /\ Null \notin IncidentIds /\ IsFiniteSet(IncidentIds)
  /\ Zones \subseteq Int
  /\ Times \subseteq Nat \ {Null} /\ 0 \in Times /\ PageLimit \in Nat

VARIABLES incidents,    \* Null before the row is inserted
          now

incidentVars == <<incidents, now>>

IncidentStatuses == {"open", "resolved"}

Logged == {i \in IncidentIds : incidents[i] # Null}

\* The form sends the wall clock the user reads, without an offset.
Entered(detected, zone) == detected + zone

\* What is sent without an offset counts as UTC; an offset is dropped, not applied.
ParseDatetime(entered) == entered

\* Variant: an hour too late.
DeadlineAfter(detected) == detected + 7

CertInDeadline(detected) == detected + 6

\* A null detection time stands for a payload without one.  Beside the columns the row
\* remembers when the incident really was detected and on which clock that was read;
\* nth stands for created_at.  cert_in_reported_at, which no handler reads, is left out.
CreateIncident(a, i, detected, zone, assignee) ==
  /\ May(a, "manage_incidents")
  /\ i \notin Logged
  /\ LET detectedAt == IF detected = Null THEN now ELSE ParseDatetime(Entered(detected, zone))
     IN incidents' = [incidents EXCEPT ![i] =
          [status |-> "open", detectedAt |-> detectedAt, deadline |-> CertInDeadline(detectedAt),
           reported |-> FALSE, assignee |-> assignee, nth |-> Cardinality(Logged),
           detected |-> IF detected = Null THEN now ELSE detected,
           zone |-> zone]]
  /\ Tell({assignee} \cup Holders("IT Security Officer") \cup Holders("Compliance Officer"),
          <<i, "logged">>)
  /\ UNCHANGED <<accountVars, req, now>>

\* A null stands for a field the payload leaves out.
UpdateIncident(a, i, status, reported) ==
  /\ May(a, "manage_incidents")
  /\ i \in Logged
  /\ status # Null \/ reported # Null
  /\ incidents' = [incidents EXCEPT ![i].status = IF status = Null THEN @ ELSE status,
                                    ![i].reported = IF reported = Null THEN @ ELSE reported]
  /\ UNCHANGED <<inboxVars, now>>

\* list_incidents with cert_in = overdue: the newest by detected_at, then by created_at.
Newer(j, i) ==
  \/ incidents[j].detectedAt > incidents[i].detectedAt
  \/ incidents[j].detectedAt = incidents[i].detectedAt /\ incidents[j].nth > incidents[i].nth

Overdue ==
  LET selected == {i \in Logged : incidents[i].deadline < now /\ ~incidents[i].reported}
  IN  {i \in selected : Cardinality({j \in selected : Newer(j, i)}) < PageLimit}

Tick == (\E t \in Times : t > now /\ now' = t) /\ UNCHANGED <<inboxVars, incidents>>

IncidentNext ==
  \/ \E a \in Accounts, i \in IncidentIds :
       \/ \E detected \in {t \in Times : t <= now}, zone \in Zones,
             assignee \in Accounts \cup {Null} :
            CreateIncident(a, i, detected, zone, assignee)
       \/ \E assignee \in Accounts \cup {Null} : CreateIncident(a, i, Null, 0, assignee)
       \/ \E status \in IncidentStatuses \cup {Null}, reported \in {TRUE, FALSE} \cup {Null} :
            UpdateIncident(a, i, status, reported)
  \/ Tick

IncidentInit == incidents = [i \in IncidentIds |-> Null] /\ now = 0

IncidentTypeOK ==
  /\ now \in Times
  /\ \A i \in Logged : /\ incidents[i].status \in IncidentStatuses
                       /\ incidents[i].detectedAt \in Int /\ incidents[i].deadline \in Int
                       /\ incidents[i].reported \in BOOLEAN
                       /\ incidents[i].assignee \in Accounts \cup {Null}
                       /\ incidents[i].nth \in Nat
                       /\ incidents[i].detected \in 0 .. now
                       /\ incidents[i].zone \in Zones \cup {0}

(***************************************************************************)
(* Properties                                                              *)
(***************************************************************************)
\* Every incident is known to its assignee, and to those who have been security or
\* compliance officers all the time (create_incident).
IncidentKnown ==
  \A i \in Logged, a \in Accounts :
    \/ a = incidents[i].assignee
    \/ role[a] \in {"IT Security Officer", "Compliance Officer"} /\ Steady(a)
    => <<a, <<i, "logged">>>> \in told

\* Unreported more than six hours and the slack after the detection.
Late(i, slack) == ~incidents[i].reported /\ now > incidents[i].detected + 6 + slack

Ahead(i)  == IF incidents[i].zone > 0 THEN incidents[i].zone ELSE 0
Behind(i) == IF incidents[i].zone < 0 THEN -incidents[i].zone ELSE 0

\* The unreported incidents whose deadlines are no earlier fill a page.
Crowded(i) ==
  Cardinality({j \in Logged \ {i} : /\ ~incidents[j].reported
                                    /\ incidents[j].deadline >= incidents[i].deadline})
    >= PageLimit

\* The list of overdue incidents is early by at most what the clock of the one who
\* logged the incident is behind UTC and late by at most what it is ahead, and exact
\* without a detection time; what is later still is left out only when as many as the
\* list holds have deadlines no earlier: the limit hides the oldest first
\* (create_incident, update_incident, list_incidents).
OverdueWithinZone ==
  /\ \A i \in Overdue : Late(i, -Behind(i))
  /\ \A i \in Logged : Late(i, Ahead(i)) => i \in Overdue \/ Crowded(i)
=============================================================================
