------------------------------- MODULE Audits -------------------------------
(***************************************************************************)
(* Audit observations and the reports on an assessment                      *)
(* (backend/app/routers/audit.py).  A report is a row without contents: its   *)
(* observations are read when it is generated, after the row is committed,    *)
(* and again whenever it is opened.                                         *)
(***************************************************************************)
EXTENDS Inbox

CONSTANTS ObservationIds, ReportIds

ASSUME AuditAssumption == Null \notin ObservationIds \cup ReportIds

VARIABLES observations,  \* of one assessment, Null before the row is inserted
          gone,          \* ids of deleted observations
          reports        \* Null, or what was closed when the row was committed and
                         \* what the answer of generate_report counted

auditVars == <<observations, gone, reports>>

\* Statuses are free text; any other than these two closes the observation.
ObservationStatuses == {"open", "acknowledged", "resolved"}

Observed == {o \in ObservationIds : observations[o] # Null}
Closed == {o \in Observed : observations[o].status \notin {"open", "acknowledged"}}

ActsAsAuditor(a) == "Auditor" \in ActingRoles(a)

CreateObservation(a, o) ==
  /\ ActsAsAuditor(a)
  /\ o \notin Observed \cup gone
  /\ observations' = [observations EXCEPT ![o] = [author |-> a, status |-> "open"]]
  /\ UNCHANGED <<inboxVars, gone, reports>>

\* Variant: the statement asks for the author only.
OwnEditable(a, o) == o \in Observed /\ observations[o].author = a

Editable(a, o) == o \in Observed \ Closed /\ observations[o].author = a

UpdateObservation(a, o, status) ==
  /\ ActsAsAuditor(a)
  /\ Editable(a, o)
  /\ observations' = [observations EXCEPT ![o].status = status]
  /\ UNCHANGED <<inboxVars, gone, reports>>

Deletable(a, o) == o \in Observed /\ observations[o] = [author |-> a, status |-> "open"]

DeleteObservation(a, o) ==
  /\ ActsAsAuditor(a)
  /\ Deletable(a, o)
  /\ observations' = [observations EXCEPT ![o] = Null]
  /\ gone' = gone \cup {o}
  /\ UNCHANGED <<inboxVars, reports>>

CreateAuditReport(r, a, x) ==
  /\ May(a, "generate_audit_reports")
  /\ reports[x] = Null
  /\ reports' = [reports EXCEPT ![x] = [closed |-> [o \in Closed |-> observations[o]], counted |-> Null]]
  /\ Start(r, [at |-> "generate_report", report |-> x])
  /\ UNCHANGED <<accountVars, told, observations, gone>>

\* The answer counts what there is by now.
SummarizeReport(r) ==
  /\ req[r].at = "generate_report"
  /\ reports' = [reports EXCEPT ![req[r].report].counted = Cardinality(Observed)]
  /\ Finish(r)
  /\ UNCHANGED <<accountVars, told, observations, gone>>

\* get_report: what a report shows whenever it is opened.
Shown == [o \in Observed |-> observations[o]]

AuditNext ==
  \E a \in Accounts :
    \/ \E o \in ObservationIds : CreateObservation(a, o) \/ DeleteObservation(a, o)
    \/ \E o \in ObservationIds, status \in ObservationStatuses : UpdateObservation(a, o, status)
    \/ \E r \in Requests : \/ \E x \in ReportIds : CreateAuditReport(r, a, x)
                           \/ SummarizeReport(r)

AuditInit ==
  /\ observations = [o \in ObservationIds |-> Null]
  /\ gone = {}
  /\ reports = [x \in ReportIds |-> Null]

AuditTypeOK ==
  /\ \A o \in Observed : observations[o] \in [author : Accounts, status : ObservationStatuses]
  /\ gone \subseteq ObservationIds \ Observed
  /\ \A x \in ReportIds : reports[x] # Null => reports[x].counted \in Nat \cup {Null}

(***************************************************************************)
(* Property                                                                *)
(***************************************************************************)
\* Although a report stores no observation, what was closed when it was generated
\* is in its summary and is shown, unchanged, whenever the report is opened, through
\* edits, deletions and role changes of the auditors (update_observation,
\* delete_observation, generate_report, get_report).
ReportsKeepClosed ==
  \A x \in ReportIds : reports[x] # Null =>
    /\ \A o \in DOMAIN reports[x].closed : o \in DOMAIN Shown /\ Shown[o] = reports[x].closed[o]
    /\ reports[x].counted # Null => reports[x].counted >= Cardinality(DOMAIN reports[x].closed)
=============================================================================
