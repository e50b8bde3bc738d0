------------------------------ MODULE Tenants ------------------------------
(***************************************************************************)
(* Deleting an institution (backend/app/routers/institutions.py) and seeding  *)
(* the database (seed.py): each empties table after table in one transaction, *)
(* in an order that the foreign keys of schema.sql must allow.              *)
(*                                                                         *)
(* A database is seen through one institution: rows is the set of tables that  *)
(* hold rows of it, refs the pairs of tables of which a row of the one refers  *)
(* to a row of the other, and foreign the pairs where the row that refers      *)
(* belongs to another institution.                                          *)
(***************************************************************************)
EXTENDS Naturals, Sequences

CONSTANTS Written,    \* tables that other requests write during a deletion
          MaxWrites   \* bound of their writes

VARIABLES db,         \* as committed
          work,       \* as the transaction sees it
          job,        \* the transaction under way: none, delete or seed
          step,       \* its next statement
          outcome,    \* how the last one ended
          meanwhile,  \* another request has written since it began
          writes

tenantVars == <<db, work, job, step, outcome, meanwhile, writes>>

\* What the rows of a table refer to, by the columns that the code fills;
\* audit_logs.assumed_role_session_id it leaves null.
AccountParents ==
  [users                    |-> {"institutions"},
   password_reset_tokens    |-> {"users"},
   user_sessions            |-> {"users"},
   role_assumption_sessions |-> {"institutions", "users"},
   departments              |-> {"institutions", "users"}]

ComplianceParents ==
  [control_assignments  |-> {"institutions", "users", "departments"},
   assessments          |-> {"institutions", "users"},
   assessment_responses |-> {"assessments", "users"},
   compliance_results   |-> {"institutions", "assessments"},
   compliance_gaps      |-> {"institutions", "assessments"}]

WorkParents ==
  [mitigation_tasks   |-> {"institutions", "compliance_gaps", "control_assignments", "users", "departments"},
   evidence_documents |-> {"institutions", "control_assignments", "departments", "users"}]

RegisterParents ==
  [incidents               |-> {"institutions", "users"},
   incident_timeline       |-> {"incidents", "users"},
   vendors                 |-> {"institutions", "users"},
   vendor_risk_assessments |-> {"vendors", "institutions", "users"},
   generated_policies      |-> {"institutions", "users"}]

TrailParents ==
  [audit_observations  |-> {"institutions", "assessments", "evidence_documents", "users"},
   audit_reports       |-> {"institutions", "assessments", "users"},
   compliance_calendar |-> {"institutions", "users"},
   notifications       |-> {"institutions", "users"},
   audit_logs          |-> {"institutions", "users"},
   ai_conversations    |-> {"institutions", "users"}]

Referring == DOMAIN AccountParents \cup DOMAIN ComplianceParents \cup DOMAIN WorkParents
               \cup DOMAIN RegisterParents \cup DOMAIN TrailParents

Parents ==
  [t \in Referring |->
     CASE t \in DOMAIN AccountParents -> AccountParents[t]
       [] t \in DOMAIN ComplianceParents -> ComplianceParents[t]
       [] t \in DOMAIN WorkParents -> WorkParents[t]
       [] t \in DOMAIN RegisterParents -> RegisterParents[t]
       [] t \in DOMAIN TrailParents -> TrailParents[t]]

ASSUME WrittenAssumption == Written \subseteq Referring /\ MaxWrites \in Nat

Tables == DOMAIN Parents \cup {"institutions"}

AllLinks == UNION {{<<c, p>> : p \in Parents[c] \ {"institutions"}} : c \in DOMAIN Parents}

\* Columns that take an id from the payload, or the Super Admin's own, without asking
\* for its institution.
CrossLinks ==
  {<<"incidents", "users">>, <<"notifications", "users">>, <<"audit_logs", "users">>,
   <<"control_assignments", "users">>, <<"control_assignments", "departments">>,
   <<"mitigation_tasks", "users">>, <<"mitigation_tasks", "departments">>,
   <<"mitigation_tasks", "compliance_gaps">>, <<"mitigation_tasks", "control_assignments">>,
   <<"evidence_documents", "departments">>}

\* ON DELETE CASCADE; every other reference stops the deletion of what it refers to.
Cascades == {<<"users", "institutions">>, <<"departments", "institutions">>,
             <<"control_assignments", "institutions">>, <<"password_reset_tokens", "users">>,
             <<"user_sessions", "users">>, <<"assessment_responses", "assessments">>,
             <<"incident_timeline", "incidents">>}

\* The parents without which there is no row.
Owners(child) == {p \in Parents[child] : p = "institutions" \/ <<child, p>> \in Cascades}

Refers(d, child, parent) == parent \in Owners(child) \/ <<child, parent>> \in d.refs

Children(d, tables) == {c \in d.rows \cap DOMAIN Parents : \E t \in tables : <<c, t>> \in Cascades}

\* What one `delete from` takes along: no chain of cascades is longer.
Falling(d, t) ==
  LET children == Children(d, {t}) IN {t} \cup children \cup Children(d, children)

\* The foreign keys are looked at when the statement ends.
Restricted(d, t) ==
  LET falling == Falling(d, t)
  IN  \/ \E c \in (d.rows \cap DOMAIN Parents) \ falling, p \in falling : Refers(d, c, p)
      \/ \E fk \in d.foreign : fk[2] \in falling

\* The deletion of an institution leaves the rows of others, the seed's clearing does not.
Deleted(d, t) ==
  LET left == d.rows \ Falling(d, t)
  IN  [rows |-> left, refs |-> {fk \in d.refs : fk[1] \in left},
       foreign |-> IF job = "seed" THEN {fk \in d.foreign : fk[1] # t} ELSE d.foreign]

WorkTables ==
  <<"role_assumption_sessions", "mitigation_tasks", "evidence_documents", "audit_observations",
    "audit_reports", "compliance_gaps", "incidents", "vendor_risk_assessments", "vendors",
    "generated_policies", "compliance_calendar", "compliance_results", "assessments",
    "control_assignments", "notifications", "ai_conversations", "audit_logs">>

\* Variant: the accounts go first.
DeletionFromAccounts == <<"departments", "users">> \o WorkTables \o <<"institutions">>

DeletionOrder == WorkTables \o <<"departments", "users">> \o <<"institutions">>

TrailTables == <<"ai_conversations", "audit_logs", "notifications", "compliance_calendar",
                 "audit_reports", "audit_observations", "generated_policies">>

RegisterTables == <<"vendor_risk_assessments", "vendors", "incident_timeline", "incidents",
  "evidence_documents", "mitigation_tasks", "compliance_gaps", "compliance_results",
  "assessment_responses", "assessments", "control_assignments">>

AccountTables == <<"role_assumption_sessions", "user_sessions", "password_reset_tokens",
                   "departments", "users", "institutions">>

\* Variant: what observations and reports refer to goes before them.
CleanupRegistersFirst == RegisterTables \o TrailTables \o AccountTables

\* roles and permissions, cleared last, are left out.
CleanupOrder == TrailTables \o RegisterTables \o AccountTables

\* The tables the seed fills, one function for each; roles, permissions and role
\* transitions are left out.
SeedAccounts == <<"institutions", "users", "departments">>
SeedAssessments == <<"control_assignments", "assessments", "assessment_responses">>
SeedResults == <<"compliance_results", "compliance_gaps">>
SeedWork == <<"mitigation_tasks", "evidence_documents">>
SeedRegisters == <<"incidents", "incident_timeline", "vendors", "vendor_risk_assessments">>
SeedPolicies == <<"generated_policies">>
SeedAudits == <<"audit_observations", "audit_reports">>
SeedTrail == <<"compliance_calendar", "notifications", "audit_logs", "ai_conversations">>

SeedOrder == SeedAccounts \o SeedAssessments \o SeedResults \o SeedWork
               \o SeedRegisters \o SeedPolicies \o SeedAudits \o SeedTrail

Begin(kind) ==
  /\ job = "none"
  /\ job' = kind /\ step' = 1 /\ outcome' = <<kind, "under way">> /\ meanwhile' = FALSE
  /\ UNCHANGED <<db, work, writes>>

Rollback(how) ==
  /\ work' = db /\ job' = "none" /\ step' = 1 /\ outcome' = <<job, how>>
  /\ UNCHANGED <<db, meanwhile, writes>>

Commit(d) ==
  /\ db' = d /\ work' = d /\ job' = "none" /\ step' = 1 /\ outcome' = <<job, "done">>
  /\ UNCHANGED <<meanwhile, writes>>

\* One `delete from` of the transaction.
DeleteFrom(t) ==
  IF Restricted(work, t)
  THEN Rollback("refused")
  ELSE /\ work' = Deleted(work, t)
       /\ step' = step + 1
       /\ UNCHANGED <<db, job, outcome, meanwhile, writes>>

DeleteInstitution ==
  \/ Begin("delete") /\ "institutions" \in db.rows
  \/ job = "delete" /\ step <= Len(DeletionOrder) /\ DeleteFrom(DeletionOrder[step])
  \/ job = "delete" /\ step > Len(DeletionOrder) /\ Commit(work)

\* A request commits a row between two statements: the deletion sees it in the next one.
\* A row that would refer to one already deleted waits for the end of the deletion.
WriteMeanwhile(added) ==
  /\ job = "delete" /\ writes < MaxWrites
  /\ db' = added[db] /\ work' = added[work]
  /\ meanwhile' = TRUE /\ writes' = writes + 1
  /\ UNCHANGED <<job, step, outcome>>

InsertMeanwhile(c, parents) ==
  /\ Owners(c) \cup parents \subseteq work.rows
  /\ WriteMeanwhile([d \in {db, work} |->
       [d EXCEPT !.rows = @ \cup {c}, !.refs = @ \cup ({c} \X (parents \ {"institutions"}))]])

\* The same by a request of another institution.
InsertElsewhere(fk) ==
  /\ fk[2] \in work.rows
  /\ WriteMeanwhile([d \in {db, work} |-> [d EXCEPT !.foreign = @ \cup {fk}]])

OthersWrite ==
  \/ \E c \in Written : \E parents \in SUBSET Parents[c] : InsertMeanwhile(c, parents)
  \/ \E fk \in CrossLinks : fk[1] \in Written /\ InsertElsewhere(fk)

Cleanup == job = "seed" /\ step <= Len(CleanupOrder) /\ DeleteFrom(CleanupOrder[step])

\* What the seed inserts may refer to any table that it has filled before.
SeedInsert ==
  /\ job = "seed" /\ step > Len(CleanupOrder)
  /\ step <= Len(CleanupOrder) + Len(SeedOrder)
  /\ LET t == SeedOrder[step - Len(CleanupOrder)]
     IN IF t \in DOMAIN Parents /\ ~ (Parents[t] \subseteq work.rows)
        THEN Rollback("refused")
        ELSE /\ work' = [work EXCEPT !.rows = @ \cup {t}] /\ step' = step + 1
             /\ UNCHANGED <<db, job, outcome, meanwhile, writes>>

SeedDone ==
  /\ job = "seed" /\ step > Len(CleanupOrder) + Len(SeedOrder)
  /\ Commit([work EXCEPT !.refs = AllLinks \cap (work.rows \X work.rows)])

\* Any exception rolls the transaction back.
JobFails == job # "none" /\ Rollback("failed")

TenantNext ==
  \/ DeleteInstitution
  \/ OthersWrite
  \/ Begin("seed")
  \/ Cleanup
  \/ SeedInsert
  \/ SeedDone
  \/ JobFails

Closure(tables) == tables \cup {fk[2] : fk \in {fk \in Cascades : fk[1] \in tables}} \cup {"institutions"}

\* A database with these references, and the rows that they need.
HoldsOnly(refs, foreign) ==
  /\ db = [rows    |-> Closure((UNION {{fk[1], fk[2]} : fk \in refs}) \cup {fk[2] : fk \in foreign}),
           refs    |-> refs,
           foreign |-> foreign]
  /\ work = db /\ job = "none" /\ step = 1 /\ outcome = <<"none", "done">>
  /\ meanwhile = FALSE /\ writes = 0

\* Bound: at the start up to one reference other than to the institution, and one from
\* elsewhere; the seed makes all.
TenantInit ==
  \E refs \in {{}} \cup {{fk} : fk \in AllLinks}, foreign \in {{}} \cup {{fk} : fk \in CrossLinks} :
    HoldsOnly(refs, foreign)

\* No row refers to one that is not there.
Sound(d) ==
  /\ d.rows \subseteq Tables
  /\ \A c \in d.rows \cap DOMAIN Parents : Owners(c) \subseteq d.rows
  /\ d.refs \subseteq AllLinks \cap (d.rows \X d.rows)
  /\ d.foreign \subseteq {fk \in CrossLinks : fk[2] \in d.rows}

TenantTypeOK ==
  /\ Sound(db) /\ Sound(work)
  /\ job \in {"none", "delete", "seed"} /\ step \in Nat /\ meanwhile \in BOOLEAN

(***************************************************************************)
(* Properties                                                              *)
(***************************************************************************)
\* An institution that could be deleted has left no row behind and nothing elsewhere
\* that refers to it, whatever other requests have committed between the statements,
\* also in the tables that delete_institution does not name; and the foreign keys refuse
\* a deletion only where an observation cites evidence, which is deleted before it, where
\* a row of another institution refers to one of this, or where somebody has written
\* meanwhile (delete_institution, schema.sql).
DeletionAllOrNothing ==
  /\ outcome = <<"delete", "done">> => db.rows = {} /\ db.foreign = {}
  /\ outcome = <<"delete", "refused">> =>
       \/ <<"audit_observations", "evidence_documents">> \in db.refs
       \/ db.foreign # {}
       \/ meanwhile

\* Whatever is in the database, the seed's order of clearing and inserting is never
\* refused by a foreign key, and either all of its tables are filled or nothing has
\* changed (seed.py).
SeedAllOrNothing ==
  /\ outcome # <<"seed", "refused">>
  /\ outcome = <<"seed", "done">> => db.rows = {SeedOrder[k] : k \in DOMAIN SeedOrder}
  /\ job = "none" => work = db
=============================================================================
