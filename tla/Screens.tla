------------------------------ MODULE Screens -------------------------------
(***************************************************************************)
(* The pages of the workspace (frontend/src/app/[role]/[uuid]): who is     *)
(* offered a page or a control, which requests it sends and in what order, *)
(* and what becomes of them when a request is refused or fails.            *)
(*                                                                         *)
(* The browser decides by the keys it last received, the server by the     *)
(* keys the person holds when the request arrives.                         *)
(***************************************************************************)
EXTENDS Routes, Client, FiniteSets

-----------------------------------------------------------------------------
(* What a page sends *)

\* A request of a handler: what the page asks of the person before it sends it
\* (clauses, of each of which one key is needed; {}: it does not look), whether
\* the handler gives up when it is not served, and whether it may be skipped
\* because there is nothing to send.
Must(call) == [call |-> call, ask |-> {}, must |-> TRUE, skip |-> FALSE]
Caught(call) == [Must(call) EXCEPT !.must = FALSE]
If(keys, q) == [q EXCEPT !.ask = @ \cup {keys}]
Perhaps(q) == [q EXCEPT !.skip = TRUE]

\* A control: who sees it and the stages of its handler; the requests of a
\* stage go out together.  A handler may also return before it sends anything.
Control(ask, steps) == [ask |-> ask, steps |-> steps]

\* One of the keys is enough.
OneOf(keys) == {keys}

\* Dashboard
DashboardLoads ==
    <<{If({"employees.read"}, Caught("getEmployees"))},
      {If({"payroll.read"}, Caught("getPayrollBatches"))},
      {If({"employees.read", "payroll.read", "payroll.reports", "users.read", "attendance.read"},
          If({"users.approve", "employees.approve"}, Caught("getPendingUsers")))}>>
DashboardCharts ==
    {Control(OneOf({"employees.read"}), <<{Must("getEmployeeDashboardAnalytics")}>>),
     Control(OneOf({"payroll.reports"}), <<{Must("getPayrollDashboardAnalytics")}>>)}

\* Users
UsersLoads ==
    <<{Caught("getUsers")},
      {If({"roles.manage", "roles.manage_own_location", "users.create", "users.update",
           "users.approve"}, Caught("getRoles"))},
      {If({"permissions.read", "permissions.assign"}, Caught("getPermissions"))},
      {If({"users.create", "users.approve", "users.update"},
          If({"branches.read_all"}, Caught("getWorkingLocations"))),
       If({"users.create", "users.approve", "users.update"}, Caught("getDepartments"))}>>
UsersCreation == {Control(OneOf({"users.create"}), <<{Must("createUser")}>> \o UsersLoads)}
UsersGrantControls ==
    {Control(OneOf({"roles.manage", "roles.manage_own_location", "users.update"}),
             <<{Must("assignUserRoles")}>> \o UsersLoads),
     Control(OneOf({"permissions.assign"}), <<{Must("updateUserPermissionOverride")}>>)}
UsersStatusControls ==
    {Control({}, <<{Must("suspendUser")}>> \o UsersLoads),
     Control({}, <<{Must("reactivateUser")}>> \o UsersLoads),
     Control({}, <<{Must("uploadUserAvatar")}>>),
     Control(OneOf({"users.update"}), <<{Must("updateUser")}>> \o UsersLoads)}
UsersReviews ==
    {Control(OneOf({"users.approve"}), <<{Must("approveUser")}>> \o UsersLoads),
     Control(OneOf({"users.approve"}), <<{Must("rejectUser")}>> \o UsersLoads),
     Control(OneOf({"users.update"}), <<{Must("bulkUploadProfileImages")}>> \o UsersLoads)}

\* Employees
EmployeesLoads ==
    <<{Caught("getEmployees"), Caught("getWorkingLocations"), Caught("getDepartments"),
       Caught("getPositions"), Caught("getEmploymentCategories"), Caught("getAllowanceTypes"),
       Must("getMonthlyTaxes")},
      {If({"payment-structures.read", "deductions.manage"}, Caught("getDeductionTypes"))}>>
EmployeesReload == <<{Caught("getEmployees")}>>
EmployeesImport ==
    {Control(OneOf({"employees.create"}), <<{Must("bulkImportEmployees")}>> \o EmployeesReload)}
EmployeesTransfer ==
    {Control(OneOf({"employees.transfer"}),
             <<{Caught("getDepartments")}, {Must("transferEmployee")}>> \o EmployeesReload)}
EmployeesEditing ==
    {Control(OneOf({"employees.update"}),
             <<{Must("getActivePaymentStructureByEmployee"), Must("getAllowances"),
                If({"deductions.manage"}, Caught("getEmployeeDeductions"))},
               {Must("getDepartments")}>>)}
EmployeesDetails ==
    {Control({}, <<{Caught("getActivePaymentStructureByEmployee"), Caught("getAllowances"),
                    Caught("getEmployeeDeductions"), Caught("getTimeRecordsByEmployee")}>>),
     Control(OneOf({"deductions.manage"}),
             <<{Must("updateEmployeeDeduction")}, {Caught("getEmployeeDeductions")}>>)}
\* The checks of handleUpdate may end it; then the record, one request for each
\* deduction that changes, and the lists.
EmployeesUpdate ==
    {Control(OneOf({"employees.update"}),
             <<{Must("updateEmployee")},
               {If({"deductions.manage"}, Perhaps(Must("updateEmployeeDeduction")))},
               {If({"deductions.manage"}, Perhaps(Must("createEmployeeDeduction")))},
               {If({"deductions.manage"}, Perhaps(Caught("getEmployeeDeductions")))}>>
               \o EmployeesReload)}
EmployeesCreation ==
    {Control(OneOf({"employees.create"}), <<{Must("createEmployee")}>> \o EmployeesReload)}
EmployeesStatusControls ==
    {Control(OneOf({"employees.suspend"}), <<{Must("suspendEmployee")}>> \o EmployeesReload)}
EmployeesReactivation ==
    {Control(OneOf({"employees.update"}), <<{Must("reactivateEmployee")}>> \o EmployeesReload),
     Control(OneOf({"employees.update"}), <<{Must("uploadEmployeeAvatar")}>>)}
EmployeesAllowances ==
    {Control(OneOf({"employees.update"}), <<{Must(c)}, {Must("getAllowances")}>>)
       : c \in {"createAllowance", "updateAllowance", "deactivateAllowance"}}

\* Positions
PositionsLoads ==
    <<{Must("getPositions"), Must("getEmploymentCategories"), Caught("getDeductionTypes"),
       Caught("getAllowanceTypes"), Caught("getMonthlyTaxes")}>>
PositionsForms ==
    {Control(OneOf({"positions.manage"}), <<{Must(c)}>> \o PositionsLoads)
       : c \in {"createPosition", "updatePosition", "archivePosition", "reactivatePosition"}}
PositionsBenefits ==
    {Control(OneOf({"positions.manage"}), <<{Must(c)}>> \o PositionsLoads)
       : c \in {"attachPositionDeductionType", "detachPositionDeductionType",
                "addPositionAllowanceTemplate", "removePositionAllowanceTemplate"}}
PositionsVariants ==
    {Control(OneOf({"positions.manage"}), <<{Must(c)}>> \o PositionsLoads)
       : c \in {"attachPositionEmploymentCategory", "updatePositionEmploymentCategory",
                "detachPositionEmploymentCategory"}}

\* Branches
LocationsLoads == <<{Caught("getWorkingLocations"), Caught("getDepartments")}>>
LocationsRoster == {Control({}, <<{Must("getUsers"), Must("getEmployees")}>>)}
LocationsToggles ==
    {Control(OneOf({"departments.manage"}),
             <<{Must(c)}, {Caught("getDepartments")}, {Caught("getWorkingLocations")}>>)
       : c \in {"deleteDepartment", "enableDepartmentAtLocation"}}
LocationsForms ==
    {Control(OneOf({"branches.manage"}), <<{Must(c)}, {Caught("getWorkingLocations")}>>)
       : c \in {"createWorkingLocation", "updateWorkingLocation"}}

\* Departments
DepartmentsLoads ==
    <<{Caught("getDepartments"), If({"branches.read_all"}, Caught("getWorkingLocations"))}>>
DepartmentsRoster == {Control({}, <<{Must("getUsers"), Must("getEmployees")}>>)}
DepartmentsToggles ==
    {Control(OneOf({"branches.read_all"}), <<{Must(c)}, {Caught("getDepartments")}>>)
       : c \in {"enableDepartmentAtLocation", "deleteDepartment", "suspendAndArchiveDepartment"}}
DepartmentsForms ==
    {Control(OneOf({"departments.manage"}), <<{Must(c)}, {Caught("getDepartments")}>>)
       : c \in {"createDepartment", "updateDepartment", "deleteDepartment"}}

\* Attendance
AttendanceLoads ==
    <<{Caught("getTimeRecords"), Caught("getEmployees"), Caught("getPositions"),
       If({"branches.read_all"}, Caught("getWorkingLocations"))}>>
AttendanceImport ==
    {Control(OneOf({"attendance.create"}),
             <<{Must("getTimeRecords")}, {Perhaps(Must("bulkCreateTimeRecords"))}>>
               \o AttendanceLoads)}
AttendanceHistory == {Control({}, <<{Must("getTimeRecords")}>>)}
AttendanceExport == {Control({}, <<{Must("getTimeRecords")}>>)}

\* Payroll: the list and the review panel, a new batch, one batch
PayrollLoads == <<{Caught("getPayrollBatches"), Caught("getPositions")}>>
PayrollListControls ==
    {Control(OneOf({"payroll.approve"}), <<{Must(c)}, {Caught("getPayrollBatches")}>>)
       : c \in {"approvePayrollBatch", "rejectPayrollBatch"}}
      \cup {Control({}, <<{Must("downloadPayrollBatchExport")}>>)}
PayrollPanel ==
    {Control({}, <<{Must("getPayrollBatches")}>>), Control({}, <<{Must("getPayrollBatch")}>>)}
      \cup {Control(OneOf({"BRANCH_MANAGER"}), <<{Must(c)}, {Caught("getPayrollBatches")}>>)
              : c \in {"approvePayrollBatch", "rejectPayrollBatch"}}
      \cup {Control(OneOf({"BRANCH_MANAGER"}),
                    <<{Must("rejectPayrollItem")}, {Caught("getPayrollBatch")}>>)}
NewBatchLoads == <<{Caught("getEmployees"), Caught("getWorkingLocations")},
                   {Perhaps(Caught("getDepartments"))}>>
NewBatchControls ==
    {Control(OneOf({"payroll.create"}),
             <<{Must("createPayrollBatch")}, {Perhaps(Must("uploadPayrollBatchAttachments"))}>>)}
BatchLoads == <<{Must("getPayrollBatch")}>>
BatchApprovers ==
    {"payroll.approve", "payroll.approve_initial", "payroll.approve_final", "BRANCH_MANAGER"}
BatchControls ==
    {Control({}, <<{Must("submitPayrollBatch")}, {Must("getPayrollBatch")}>>),
     Control({}, <<{Must("downloadPayrollBatchExport")}>>)}
      \cup {Control(OneOf(BatchApprovers), <<{Must(c)}, {Must("getPayrollBatch")}>>)
              : c \in {"approvePayrollBatch", "rejectPayrollBatch", "rejectPayrollItem"}}

\* Ikimina
IkiminaLoads == <<{Must("getIkiminaMemberships"), Caught("getEmployees")}>>
IkiminaControls ==
    {Control(OneOf({"ikimina.manage"}), <<{Must(c)}>> \o IkiminaLoads)
       : c \in {"createIkiminaMembership", "updateIkiminaMembership", "removeIkiminaMembership"}}

\* Tax setup and allowance setup
PaymentsLoads == <<{Caught("getMonthlyTaxes")}>>
PaymentsControls ==
    {Control({}, <<{Must(c)}>> \o PaymentsLoads) : c \in {"updateMonthlyTax", "deactivateMonthlyTax"}}
AllowancesLoads == <<{Caught("getAllowanceTypes")}>>
AllowancesControls ==
    {Control({}, <<{Must(c)}>> \o AllowancesLoads)
       : c \in {"createAllowanceType", "updateAllowanceType"}}

\* Audit logs: loaded once, then every 15 seconds
AuditLoads == <<{Caught("getAuditLogs")}>>
AuditRefresh == {Control({}, <<{Caught("getAuditLogs")}>>)}

\* Settings
RoleManagers == {"roles.manage", "roles.manage_own_location"}
SettingsLoads ==
    <<{If(RoleManagers, Must("getRoles"))},
      {If({"system-config.manage"}, Must("getSystemConfigs"))}>>
SettingsOvertime ==
    {Control(OneOf({"system-config.manage"}), <<{Must("updateSystemConfig")}>>)}
SettingsRoles ==
    {Control(OneOf(RoleManagers),
             <<{Must(c)}, {Must("getRoles")}, {Must("refreshToken")}, {Must("getMyProfile")}>>)
       : c \in {"createRole", "updateRole"}}

\* Profile
ProfileControls ==
    {Control({}, <<{Must("updateProfile")}, {Must("refreshToken")}, {Must("getMyProfile")}>>),
     Control({}, <<{Must("updateProfile")}>>)}

LoadsOf ==
    [dashboard |-> DashboardLoads, users |-> UsersLoads, employees |-> EmployeesLoads,
     positions |-> PositionsLoads, locations |-> LocationsLoads,
     departments |-> DepartmentsLoads, attendance |-> AttendanceLoads,
     payroll |-> PayrollLoads, newBatch |-> NewBatchLoads, batch |-> BatchLoads,
     ikimina |-> IkiminaLoads, payments |-> PaymentsLoads, allowances |-> AllowancesLoads,
     audit |-> AuditLoads, settings |-> SettingsLoads, profile |-> <<>>, unauthorized |-> <<>>]

Pages == DOMAIN LoadsOf

ControlsOf ==
    [dashboard |-> DashboardCharts,
     users |-> UsersCreation \cup UsersGrantControls \cup UsersStatusControls \cup UsersReviews,
     employees |-> EmployeesImport \cup EmployeesTransfer \cup EmployeesEditing
                     \cup EmployeesDetails \cup EmployeesUpdate \cup EmployeesCreation
                     \cup EmployeesStatusControls \cup EmployeesReactivation
                     \cup EmployeesAllowances,
     positions |-> PositionsForms \cup PositionsBenefits \cup PositionsVariants,
     locations |-> LocationsRoster \cup LocationsToggles \cup LocationsForms,
     departments |-> DepartmentsRoster \cup DepartmentsToggles \cup DepartmentsForms,
     attendance |-> AttendanceImport \cup AttendanceHistory \cup AttendanceExport,
     payroll |-> PayrollListControls \cup PayrollPanel, newBatch |-> NewBatchControls,
     batch |-> BatchControls, ikimina |-> IkiminaControls, payments |-> PaymentsControls,
     allowances |-> AllowancesControls, audit |-> AuditRefresh,
     settings |-> SettingsOvertime \cup SettingsRoles, profile |-> ProfileControls,
     unauthorized |-> {}]

-----------------------------------------------------------------------------
(* Who is offered a page *)

\* The workspace counts as management with one of these keys (layout.tsx).
Management == {"employees.read", "payroll.read", "users.read", "attendance.read"}

\* The entries of the sidebar, and the links of the pages to a batch.
MenuGate ==
    [dashboard |-> {}, users |-> OneOf({"users.read"}), employees |-> OneOf({"employees.read"}),
     positions |-> OneOf({"positions.read"}),
     locations |-> {{"branches.read_all"}, Management},
     departments |-> {{"departments.manage"}, Management},
     attendance |-> OneOf({"attendance.read"}), payroll |-> OneOf({"payroll.read"}),
     newBatch |-> OneOf({"payroll.create"}), batch |-> OneOf({"payroll.read"}),
     ikimina |-> {{"ikimina.read"}, Management},
     payments |-> {{"system-config.manage"}, Management},
     allowances |-> {{"allowances.manage"}, Management},
     audit |-> OneOf({"audit.view"}),
     settings |-> {RoleManagers \cup {"system-config.manage"}, Management},
     profile |-> {}, unauthorized |-> {}]

\* What a page itself insists on while it is open; the other pages do not look.
PageGate ==
    [p \in Pages |->
       CASE p = "users" -> OneOf({"users.read"})
         [] p = "positions" -> OneOf({"positions.read", "positions.manage"})
         [] p = "locations" -> OneOf({"branches.read_all"})
         [] p = "departments" -> OneOf({"departments.manage"})
         [] p = "newBatch" -> OneOf({"payroll.create"})
         [] p = "ikimina" -> OneOf({"ikimina.read"})
         [] p = "payments" -> OneOf({"system-config.manage"})
         [] p = "allowances" -> OneOf({"allowances.manage"})
         [] p = "audit" -> OneOf({"audit.view"})
         [] p = "settings" -> OneOf(RoleManagers \cup {"system-config.manage"})
         [] OTHER -> {}]

\* Where a page sends someone it turns away.
TurnedAwayTo(p) == IF p \in {"payments", "allowances"} THEN "dashboard" ELSE "unauthorized"

\* Pages that load again when the permissions they look at change.
Reloading ==
    {"dashboard", "users", "positions", "locations", "departments", "ikimina", "payments",
     "allowances", "audit", "settings"}

=============================================================================
