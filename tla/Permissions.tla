----------------------------- MODULE Permissions -----------------------------
(***************************************************************************)
(* What each role may do (backend/src/rbac/role-permissions.ts and         *)
(* role-mapping.ts), and what the guarded routes of the controllers ask    *)
(* for: constant tables, no state.  Routes that ask alike have one entry.  *)
(***************************************************************************)

GroupRole == {"GROUP_CHAIR", "GROUP_TREASURER", "GROUP_SECRETARY", "GROUP_AUDITOR", "MEMBER"}
UserRole == GroupRole \cup {"PLATFORM_ADMIN"}

\* Recording money and correcting what was recorded.
MoneyPermission ==
    {"CONTRIBUTION_RECORD", "CONTRIBUTION_REVERSE", "LOAN_DISBURSEMENT_RECORD",
     "LOAN_REPAYMENT_RECORD", "LOAN_WAIVE", "LOAN_WRITEOFF", "LOAN_RESCHEDULE",
     "LEDGER_ADJUST"}

Permission ==
    MoneyPermission \cup
    {"GROUP_MANAGE_ROLES", "GROUP_MANAGE_RULES", "MEETING_RECORD", "LOAN_APPLY",
     "LOAN_APPROVE", "REPORT_EXPORT", "AUDIT_READ", "ADMIN_SUPPORT_ACCESS",
     "NOTIFICATION_RESEND"}

ROLE_PERMISSIONS ==
    [role \in UserRole |->
        CASE role = "PLATFORM_ADMIN" -> Permission
          [] role = "GROUP_CHAIR" -> Permission \ {"ADMIN_SUPPORT_ACCESS"}
          [] role = "GROUP_TREASURER" ->
                MoneyPermission \cup {"REPORT_EXPORT", "AUDIT_READ", "NOTIFICATION_RESEND"}
          [] role = "GROUP_SECRETARY" -> {"MEETING_RECORD", "REPORT_EXPORT", "AUDIT_READ"}
          [] role = "GROUP_AUDITOR" -> {"AUDIT_READ", "REPORT_EXPORT"}
          [] role = "MEMBER" -> {"CONTRIBUTION_RECORD", "LOAN_APPLY", "LOAN_REPAYMENT_RECORD"}]

RoleHasPermission(role, permission) ==
    role = "PLATFORM_ADMIN" \/ permission \in ROLE_PERMISSIONS[role]

\* The routes behind RequirePermissionGuard: the permission that the guard asks
\* for, and for whom the service asks for it again: never, for the user who acts,
\* for that user or the member that the request names, or for nobody, which fails.
Route(permission, again) == [permission |-> permission, again |-> again]

ContributionRoute ==
    [record |-> Route("CONTRIBUTION_RECORD", "user"),
     recordBulk |-> Route("CONTRIBUTION_RECORD", "user"),
     reversal |-> Route("CONTRIBUTION_REVERSE", "user"),
     read |-> Route("CONTRIBUTION_RECORD", "never"),    \* histories, summary, cash totals, detail
     getUnreconciledBankTransfers |-> Route("REPORT_EXPORT", "never")]

LoanRoute ==
    [submitApplication |-> Route("LOAN_APPLY", "member"),
     decide |-> Route("LOAN_APPROVE", "member"),        \* approveApplication, rejectApplication
     recordDisbursement |-> Route("LOAN_DISBURSEMENT_RECORD", "member"),
     recordRepayment |-> Route("LOAN_REPAYMENT_RECORD", "member"),
     recordWaiver |-> Route("LOAN_WAIVE", "member"),
     recordReschedule |-> Route("LOAN_RESCHEDULE", "member"),
     recordWriteOff |-> Route("LOAN_WRITEOFF", "member"),
     readApplications |-> Route("LOAN_APPROVE", "never"),
     readLoans |-> Route("LOAN_APPLY", "never")]

RulesRoute ==
    [manage |-> Route("GROUP_MANAGE_RULES", "never"),   \* versions written and read
     getLoanHints |-> Route("LOAN_APPLY", "never")]

\* The list passes no user on to the service.
MeetingRoute ==
    [listByGroup |-> Route("MEETING_RECORD", "nobody"), create |-> Route("MEETING_RECORD", "user")]

AuditRoute == [listLogByGroup |-> Route("AUDIT_READ", "never")]
TriggerRoute == [manual |-> Route("NOTIFICATION_RESEND", "never")]

RoutesOf(table) == {table[name] : name \in DOMAIN table}

GuardedRoute ==
    RoutesOf(ContributionRoute) \cup RoutesOf(LoanRoute) \cup RoutesOf(RulesRoute)
    \cup RoutesOf(MeetingRoute) \cup RoutesOf(AuditRoute) \cup RoutesOf(TriggerRoute)

\* A member's own role: groupRole, or the older role where that is not set.
MemberRoleToUserRole(role) == IF role = "ADMIN" THEN "GROUP_CHAIR" ELSE "MEMBER"
=============================================================================
