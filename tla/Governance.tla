----------------------------- MODULE Governance -----------------------------
(***************************************************************************)
(* The governance areas over the accounts and notifications of Inbox:        *)
(* policies, departments, audits, incidents, vendors, and the tenant's       *)
(* deletion and seeding.                                                    *)
(*                                                                         *)
(* No handler of one area reads a row of another, so a behaviour serves one   *)
(* area, and the others keep their initial rows; roles change meanwhile.     *)
(***************************************************************************)
EXTENDS Policies, Departments, Audits, Incidents, Vendors, Tenants

vars == <<inboxVars, policies, departmentVars, auditVars, incidentVars, vendorVars, tenantVars>>

Init ==
  /\ served \in DOMAIN Assignable
  /\ InboxInit /\ PolicyInit /\ DepartmentInit /\ AuditInit /\ IncidentInit /\ VendorInit
  /\ IF served = "tenants" THEN TenantInit ELSE HoldsOnly({}, {})

PolicyStep ==
  /\ served = "policies" /\ PolicyNext
  /\ UNCHANGED <<departmentVars, auditVars, incidentVars, vendorVars, tenantVars>>

DepartmentStep ==
  /\ served = "departments" /\ DepartmentNext
  /\ UNCHANGED <<policies, auditVars, incidentVars, vendorVars, tenantVars>>

AuditStep ==
  /\ served = "audits" /\ AuditNext
  /\ UNCHANGED <<policies, departmentVars, incidentVars, vendorVars, tenantVars>>

IncidentStep ==
  /\ served = "incidents" /\ IncidentNext
  /\ UNCHANGED <<policies, departmentVars, auditVars, vendorVars, tenantVars>>

VendorStep ==
  /\ served = "vendors" /\ VendorNext
  /\ UNCHANGED <<policies, departmentVars, auditVars, incidentVars, tenantVars>>

TenantStep ==
  /\ served = "tenants" /\ TenantNext
  /\ UNCHANGED <<inboxVars, policies, departmentVars, auditVars, incidentVars, vendorVars>>

RoleStep ==
  /\ \E a \in Accounts, r \in RoleNames : ChangeUserRole(a, r)
  /\ UNCHANGED <<policies, departmentVars, auditVars, incidentVars, vendorVars, tenantVars>>

Next ==
  \/ PolicyStep
  \/ DepartmentStep
  \/ AuditStep
  \/ IncidentStep
  \/ VendorStep
  \/ TenantStep
  \/ RoleStep

Spec == Init /\ [][Next]_vars

GovernanceTypeOK ==
  /\ InboxTypeOK /\ PolicyTypeOK /\ DepartmentTypeOK
  /\ AuditTypeOK /\ IncidentTypeOK /\ VendorTypeOK /\ TenantTypeOK

(***************************************************************************)
(* Property                                                                *)
(***************************************************************************)
\* Nothing waits unknown to those who have to act on it: pending policies, logged
\* incidents, and risk assessments made by hand, whatever roles change meanwhile
\* (create_policy, update_policy, create_incident, upsert_vendor_risk_assessment).
AwaitedKnown == PendingKnown /\ IncidentKnown /\ RiskKnown
=============================================================================
