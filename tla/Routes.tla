------------------------------- MODULE Routes -------------------------------
(***************************************************************************)
(* The server's routes, the permission keys each of them asks for and who  *)
(* holds those keys (the controllers of backend/src, auth/guards and       *)
(* common/constants/permissions.constants.ts).                             *)
(*                                                                         *)
(* A route is named by its method and path without the parameters; the     *)
(* keys beside it are those of @Permissions: any one of them will do.      *)
(***************************************************************************)
EXTENDS Naturals, Sequences

\* Routes that ask for any one of these keys.
Asking(any, routes) == {[route |-> r, any |-> any] : r \in routes}

-----------------------------------------------------------------------------
(* The keys there are *)

PeopleKeys ==
    {"users.read", "users.read_all", "users.create", "users.approve", "users.update",
     "users.suspend", "users.transfer",
     "roles.manage", "roles.manage_own_location", "permissions.read", "permissions.assign",
     "branches.manage", "branches.read_all", "departments.manage", "branch-manager.manage",
     "employees.create", "employees.read", "employees.read_all", "employees.update",
     "employees.approve", "employees.transfer", "employees.transfer_approve",
     "employees.suspend"}

PayKeys ==
    {"attendance.create", "attendance.read", "attendance.read_all", "attendance.update",
     "attendance.approve",
     "payment-structures.create", "payment-structures.read", "payment-structures.read_all",
     "payment-structures.update", "payment-structures.delete",
     "allowances.manage", "deductions.manage",
     "payroll.create", "payroll.read", "payroll.read_all", "payroll.manage",
     "payroll.approve", "payroll.approve_initial", "payroll.approve_final", "payroll.reports"}

OtherKeys ==
    {"notifications.read", "notifications.manage", "audit.view", "audit.read_all",
     "ikimina.manage", "ikimina.read", "ikimina.read_all", "system-config.manage",
     "positions.read", "positions.manage"}

AllPermissionKeys == PeopleKeys \cup PayKeys \cup OtherKeys

\* IMPLIED_PERMISSIONS: a key and the keys that come with it.
ImpliedPermissions ==
    {<<"employees.read_all", {"employees.read"}>>,
     <<"attendance.read_all", {"attendance.read"}>>,
     <<"attendance.create", {"attendance.read"}>>,
     <<"payroll.create", {"payroll.read", "payroll.manage"}>>,
     <<"payroll.manage", {"payroll.read"}>>,
     <<"payroll.read_all", {"payroll.read"}>>,
     <<"payroll.approve", {"payroll.approve_initial", "payroll.approve_final", "payroll.read"}>>,
     <<"payroll.approve_initial", {"payroll.read"}>>,
     <<"payroll.approve_final", {"payroll.read"}>>,
     <<"payment-structures.read_all", {"payment-structures.read"}>>,
     <<"deductions.manage", {"payment-structures.read"}>>,
     <<"users.read_all", {"users.read"}>>,
     <<"users.create", {"users.read"}>>,
     <<"ikimina.manage", {"ikimina.read"}>>,
     <<"ikimina.read_all", {"ikimina.read"}>>,
     <<"audit.read_all", {"audit.view"}>>,
     <<"branches.manage", {"departments.manage", "branch-manager.manage"}>>,
     <<"positions.manage", {"positions.read"}>>}

\* Mutant: what is implied by what is implied is left out, and so is the rest.
Expand_Not(keys) == keys

\* Implications are at most two deep: payroll.create gives payroll.manage gives payroll.read.
Expand(keys) ==
    LET More(ks) == ks \cup UNION {p[2] : p \in {q \in ImpliedPermissions : q[1] \in ks}}
    IN  More(More(keys))

BranchManagerKeys ==
    {"users.read", "users.create", "users.update", "users.approve", "users.suspend",
     "users.transfer", "roles.manage_own_location", "permissions.read", "permissions.assign",
     "employees.create", "employees.read", "employees.update", "employees.approve",
     "employees.transfer", "employees.transfer_approve", "employees.suspend",
     "attendance.create", "attendance.read", "attendance.update", "attendance.approve",
     "payment-structures.create", "payment-structures.read", "payment-structures.update",
     "payment-structures.delete", "allowances.manage", "deductions.manage",
     "payroll.create", "payroll.read", "payroll.manage", "payroll.approve_initial",
     "payroll.reports", "ikimina.manage", "ikimina.read", "notifications.read",
     "notifications.manage", "audit.view", "positions.read", "positions.manage"}

StaffKeys ==
    [ACCOUNTANT |->
       {"employees.read", "attendance.read", "payment-structures.create",
        "payment-structures.read", "payment-structures.update", "allowances.manage",
        "deductions.manage", "payroll.create", "payroll.read", "payroll.manage",
        "payroll.reports", "notifications.read", "positions.read"},
     HR |->
       {"employees.create", "employees.read", "employees.update", "employees.suspend",
        "payment-structures.create", "payment-structures.read", "payment-structures.update",
        "deductions.manage", "notifications.read", "payroll.approve_final",
        "payroll.reports", "positions.read", "positions.manage"},
     ATTENDANT |->
       {"employees.read", "attendance.create", "attendance.read", "attendance.update",
        "notifications.read"},
     FINANCE |->
       {"employees.read", "attendance.read", "payment-structures.create",
        "payment-structures.read", "payment-structures.update", "deductions.manage",
        "payroll.create", "payroll.read", "payroll.manage", "payroll.reports",
        "positions.read"}]

-----------------------------------------------------------------------------
(* People *)

EmployeesRoutes ==
    Asking({"employees.create"}, {"POST:employees", "POST:employees/bulk-import"})
      \cup Asking({"employees.read"}, {"GET:employees", "GET:employees/:uuid"})

EmployeesChanges ==
    Asking({"employees.update"}, {"PATCH:employees/:uuid"})
      \cup Asking({"employees.transfer"}, {"PATCH:employees/:uuid/transfer"})
      \cup Asking({"employees.transfer_approve"},
                  {"PATCH:employees/transfer-requests/:uuid/approve",
                   "PATCH:employees/transfer-requests/:uuid/reject"})

EmployeesStatus ==
    Asking({"employees.suspend"}, {"PATCH:employees/:uuid/suspend"})
      \cup Asking({"employees.update"},
                  {"PATCH:employees/:uuid/reactivate", "PATCH:employees/:uuid/avatar"})

UsersRoutes ==
    Asking({"users.create"}, {"POST:users"})
      \cup Asking({"users.read"}, {"GET:users", "GET:users/pending"})
      \cup Asking({"users.update"}, {"PATCH:users/:uuid"})
      \cup Asking({"users.approve"}, {"PATCH:users/:uuid/approve", "PATCH:users/:uuid/reject"})
      \cup Asking({"users.suspend"},
                  {"PATCH:users/:uuid/suspend", "PATCH:users/:uuid/reactivate"})

UsersGrants ==
    Asking({"users.update"},
           {"PATCH:users/:uuid/roles", "PATCH:users/:uuid/permissions/:permission/override",
            "POST:users/bulk-profile-images", "PATCH:users/:uuid/avatar"})
      \cup Asking({"users.transfer"},
                  {"POST:users/:uuid/transfer-requests",
                   "PATCH:users/transfer-requests/:uuid/approve"})
      \cup Asking({}, {"PATCH:users/transfer-requests/:uuid/reject", "GET:users/:uuid/avatar"})

RolesRoutes ==
    Asking({"roles.manage", "roles.manage_own_location", "users.create", "users.update",
            "users.approve"}, {"GET:roles"})
      \cup Asking({"roles.manage", "roles.manage_own_location"},
                  {"POST:roles", "PATCH:roles/:id"})

PermissionsRoutes ==
    Asking({"permissions.read"}, {"GET:permissions"})
      \cup Asking({"permissions.assign"},
                  {"POST:permissions/assign-role", "DELETE:permissions/assign-role",
                   "POST:permissions/assign-user", "DELETE:permissions/assign-user"})

DepartmentsRoutes ==
    Asking({}, {"GET:organization/departments"})
      \cup Asking({"departments.manage"},
                  {"POST:organization/departments", "PATCH:organization/departments/:uuid",
                   "PATCH:organization/departments/:uuid/delete",
                   "PATCH:organization/departments/:uuid/suspend-and-archive",
                   "PATCH:organization/departments/:code/locations/:id/enable"})

OrganizationRoutes ==
    Asking({}, {"GET:organization/working-locations"})
      \cup Asking({"branches.manage"},
                  {"POST:organization/working-locations",
                   "PATCH:organization/working-locations/:uuid",
                   "PATCH:organization/working-locations/:uuid/delete"})
      \cup Asking({"branch-manager.manage"},
                  {"PATCH:organization/working-locations/:uuid/manager"})

-----------------------------------------------------------------------------
(* Pay *)

PaymentStructuresRoutes ==
    Asking({"payment-structures.create"}, {"POST:payment-structures"})
      \cup Asking({"deductions.manage"},
                  {"POST:payment-structures/deduction-types",
                   "PATCH:payment-structures/deduction-types/:uuid"})
      \cup Asking({"payment-structures.read"},
                  {"GET:payment-structures/deduction-types",
                   "GET:payment-structures/allowance-types",
                   "GET:payment-structures/calculate-paye"})
      \cup Asking({"allowances.manage"},
                  {"POST:payment-structures/allowance-types",
                   "PATCH:payment-structures/allowance-types/:uuid"})
      \cup Asking({"payment-structures.update"}, {"PATCH:payment-structures/:uuid"})

EmployeePayRoutes ==
    Asking({"payment-structures.read"},
           {"GET:payment-structures/employee/:id", "GET:payment-structures/employee/:id/active",
            "GET:payment-structures/employee-deductions/employee/:id",
            "GET:payment-structures/allowances/employee/:id"})
      \cup Asking({"deductions.manage"},
                  {"POST:payment-structures/employee-deductions",
                   "PATCH:payment-structures/employee-deductions/:uuid",
                   "PATCH:payment-structures/employee-deductions/:uuid/delete"})
      \cup Asking({"payment-structures.create"}, {"POST:payment-structures/allowances"})
      \cup Asking({"payment-structures.update"},
                  {"PATCH:payment-structures/allowances/:uuid/deactivate",
                   "PATCH:payment-structures/allowances/:uuid"})

PayrollRoutes ==
    Asking({"payroll.create"}, {"POST:payroll/batches", "POST:payroll/batches/:uuid/submit"})
      \cup Asking({"payroll.create", "payroll.approve"},
                  {"POST:payroll/batches/:uuid/attachments"})
      \cup Asking({"payroll.read"},
                  {"GET:payroll/batches", "GET:payroll/batches/:uuid"})

PayrollReviews ==
    Asking({"payroll.read"}, {"GET:payroll/batches/:uuid/export"})
      \cup Asking({"payroll.approve", "payroll.approve_initial", "payroll.approve_final"},
                  {"PATCH:payroll/batches/:uuid/approve", "PATCH:payroll/batches/:uuid/reject",
                   "PATCH:payroll/batches/items/:uuid/approve",
                   "PATCH:payroll/batches/items/:uuid/reject"})

PositionsRoutes ==
    Asking({"positions.read"},
           {"GET:positions/employment-categories", "GET:positions", "GET:positions/:uuid"})
      \cup Asking({"positions.manage"},
                  {"POST:positions", "PATCH:positions/:uuid", "PATCH:positions/:uuid/archive",
                   "PATCH:positions/:uuid/reactivate"})

PositionBenefitsRoutes ==
    Asking({"positions.manage"},
           {"POST:positions/:uuid/employment-categories",
            "PATCH:positions/:uuid/employment-categories/:variant",
            "DELETE:positions/:uuid/employment-categories/:variant",
            "POST:positions/:uuid/deduction-types", "DELETE:positions/:uuid/deduction-types/:id",
            "POST:positions/:uuid/allowance-templates",
            "PATCH:positions/:uuid/allowance-templates/:template",
            "DELETE:positions/:uuid/allowance-templates/:template"})

TimeRecordsRoutes ==
    Asking({"attendance.create"}, {"POST:time-records", "POST:time-records/bulk"})
      \cup Asking({"attendance.update"}, {"PATCH:time-records/:uuid"})
      \cup Asking({"attendance.approve"}, {"PATCH:time-records/:uuid/approve"})
      \cup Asking({"attendance.read"},
                  {"GET:time-records/pending", "GET:time-records", "GET:time-records/employee/:id"})

IkiminaRoutes ==
    Asking({"ikimina.manage"},
           {"POST:ikimina/memberships", "PATCH:ikimina/memberships/:uuid",
            "DELETE:ikimina/memberships/:uuid"})
      \cup Asking({"ikimina.read"},
                  {"GET:ikimina/memberships", "GET:ikimina/memberships/employee/:id"})

SystemConfigRoutes ==
    Asking({"system-config.manage"},
           {"GET:system-config", "GET:system-config/:key", "POST:system-config",
            "PATCH:system-config/batch", "POST:system-config/monthly-taxes",
            "PATCH:system-config/monthly-taxes/:uuid/deactivate"})
      \cup Asking({"system-config.manage", "deductions.manage", "payment-structures.read"},
                  {"GET:system-config/monthly-taxes/all"})

DashboardRoutes ==
    Asking({"employees.read"}, {"GET:dashboard/analytics/employees"})
      \cup Asking({"payroll.reports"}, {"GET:dashboard/analytics/payroll"})

AuditRoutes == Asking({"audit.view"}, {"GET:audit-logs"})

\* Routes of the account itself: a valid session is enough.
ProfileRoutes == Asking({}, {"GET:auth/me", "PATCH:auth/profile", "POST:auth/refresh"})

RouteTable ==
    EmployeesRoutes \cup EmployeesChanges \cup EmployeesStatus \cup UsersRoutes \cup UsersGrants
      \cup RolesRoutes \cup PermissionsRoutes \cup DepartmentsRoutes \cup OrganizationRoutes
      \cup PaymentStructuresRoutes \cup EmployeePayRoutes \cup PayrollRoutes
      \cup PayrollReviews \cup PositionsRoutes \cup PositionBenefitsRoutes
      \cup TimeRecordsRoutes \cup IkiminaRoutes \cup SystemConfigRoutes \cup DashboardRoutes
      \cup AuditRoutes \cup ProfileRoutes

-----------------------------------------------------------------------------
(* The guard *)

\* PermissionsGuard: no keys asked for, SUPER_ADMIN, or one of them held.
MayUse(who, any) ==
    any = {} \/ who.role = "SUPER_ADMIN" \/ any \cap Expand(who.keys) # {}

\* The keys a route asks for.
Asked == [r \in {t.route : t \in RouteTable} |-> (CHOOSE t \in RouteTable : t.route = r).any]

\* What the server makes of a request.
Verdict(who, route) ==
    IF route \notin DOMAIN Asked THEN "unknown"
    ELSE IF MayUse(who, Asked[route]) THEN "served" ELSE "refused"

=============================================================================
