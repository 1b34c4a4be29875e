------------------------------- MODULE Client -------------------------------
(***************************************************************************)
(* The requests the browser can send (frontend/src/api): the function a    *)
(* page calls and the route it names.                                      *)
(***************************************************************************)

Calls(pairs) == {[call |-> p[1], route |-> p[2]] : p \in pairs}

EmployeesApi == Calls({
    <<"createEmployee", "POST:employees">>,
    <<"getEmployees", "GET:employees">>,
    <<"getEmployee", "GET:employees/:uuid">>,
    <<"transferEmployee", "PATCH:employees/:uuid/transfer">>,
    <<"approveEmployeeTransfer", "PATCH:employees/transfer-requests/:uuid/approve">>,
    <<"rejectEmployeeTransfer", "PATCH:employees/transfer-requests/:uuid/reject">>,
    <<"suspendEmployee", "PATCH:employees/:uuid/suspend">>,
    <<"updateEmployee", "PATCH:employees/:uuid">>,
    <<"uploadEmployeeAvatar", "PATCH:employees/:uuid/avatar">>,
    <<"reactivateEmployee", "PATCH:employees/:uuid/reactivate">>,
    <<"bulkImportEmployees", "POST:employees/bulk-import">>})

UsersApi == Calls({
    <<"createUser", "POST:users">>,
    <<"getUsers", "GET:users">>,
    <<"getPendingUsers", "GET:users/pending">>,
    <<"approveUser", "PATCH:users/:uuid/approve">>,
    <<"rejectUser", "PATCH:users/:uuid/reject">>,
    <<"suspendUser", "PATCH:users/:uuid/suspend">>,
    <<"reactivateUser", "PATCH:users/:uuid/reactivate">>,
    <<"updateUser", "PATCH:users/:uuid">>,
    <<"assignUserRoles", "PATCH:users/:uuid/roles">>,
    <<"updateUserPermissionOverride", "PATCH:users/:uuid/permissions/:permission/override">>,
    <<"uploadUserAvatar", "PATCH:users/:uuid/avatar">>,
    <<"bulkUploadProfileImages", "POST:users/bulk-profile-images">>,
    <<"requestUserTransfer", "POST:users/:uuid/transfer-requests">>,
    <<"approveUserTransfer", "PATCH:users/transfer-requests/:uuid/approve">>,
    <<"rejectUserTransfer", "PATCH:users/transfer-requests/:uuid/reject">>})

RolesApi == Calls({
    <<"getRoles", "GET:roles">>,
    <<"createRole", "POST:roles">>,
    <<"updateRole", "PATCH:roles/:id">>})

PermissionsApi == Calls({
    <<"createPermission", "POST:permissions">>,
    <<"getPermissions", "GET:permissions">>,
    <<"assignPermissionToRole", "POST:permissions/assign-role">>,
    <<"removePermissionFromRole", "DELETE:permissions/assign-role">>,
    <<"assignPermissionToUser", "POST:permissions/assign-user">>,
    <<"removePermissionFromUser", "DELETE:permissions/assign-user">>})

OrganizationApi == Calls({
    <<"getWorkingLocations", "GET:organization/working-locations">>,
    <<"createWorkingLocation", "POST:organization/working-locations">>,
    <<"updateWorkingLocation", "PATCH:organization/working-locations/:uuid">>,
    <<"deleteWorkingLocation", "PATCH:organization/working-locations/:uuid/delete">>,
    <<"getDepartments", "GET:organization/departments">>,
    <<"createDepartment", "POST:organization/departments">>,
    <<"updateDepartment", "PATCH:organization/departments/:uuid">>,
    <<"deleteDepartment", "PATCH:organization/departments/:uuid/delete">>,
    <<"suspendAndArchiveDepartment", "PATCH:organization/departments/:uuid/suspend-and-archive">>,
    <<"enableDepartmentAtLocation", "PATCH:organization/departments/:code/locations/:id/enable">>,
    <<"assignBranchManager", "PATCH:organization/working-locations/:uuid/manager">>,
    <<"assignDepartmentManager", "PATCH:organization/departments/:uuid/manager">>})

PaymentStructuresApi == Calls({
    <<"createPaymentStructure", "POST:payment-structures">>,
    <<"updatePaymentStructure", "PATCH:payment-structures/:uuid">>,
    <<"getPaymentStructuresByEmployee", "GET:payment-structures/employee/:id">>,
    <<"getActivePaymentStructureByEmployee", "GET:payment-structures/employee/:id/active">>,
    <<"createDeductionType", "POST:payment-structures/deduction-types">>,
    <<"getDeductionTypes", "GET:payment-structures/deduction-types">>,
    <<"updateDeductionType", "PATCH:payment-structures/deduction-types/:uuid">>,
    <<"createEmployeeDeduction", "POST:payment-structures/employee-deductions">>,
    <<"getEmployeeDeductions", "GET:payment-structures/employee-deductions/employee/:id">>,
    <<"updateEmployeeDeduction", "PATCH:payment-structures/employee-deductions/:uuid">>,
    <<"deleteEmployeeDeduction", "PATCH:payment-structures/employee-deductions/:uuid/delete">>,
    <<"createAllowance", "POST:payment-structures/allowances">>,
    <<"getAllowances", "GET:payment-structures/allowances/employee/:id">>,
    <<"deactivateAllowance", "PATCH:payment-structures/allowances/:uuid/deactivate">>,
    <<"updateAllowance", "PATCH:payment-structures/allowances/:uuid">>,
    <<"getAllowanceTypes", "GET:payment-structures/allowance-types">>,
    <<"createAllowanceType", "POST:payment-structures/allowance-types">>,
    <<"updateAllowanceType", "PATCH:payment-structures/allowance-types/:uuid">>})

PayrollApi == Calls({
    <<"createPayrollBatch", "POST:payroll/batches">>,
    <<"uploadPayrollBatchAttachments", "POST:payroll/batches/:uuid/attachments">>,
    <<"submitPayrollBatch", "POST:payroll/batches/:uuid/submit">>,
    <<"getPayrollBatches", "GET:payroll/batches">>,
    <<"getPayrollBatch", "GET:payroll/batches/:uuid">>,
    <<"downloadPayrollBatchExport", "GET:payroll/batches/:uuid/export">>,
    <<"approvePayrollBatch", "PATCH:payroll/batches/:uuid/approve">>,
    <<"rejectPayrollBatch", "PATCH:payroll/batches/:uuid/reject">>,
    <<"approvePayrollItem", "PATCH:payroll/batches/items/:uuid/approve">>,
    <<"rejectPayrollItem", "PATCH:payroll/batches/items/:uuid/reject">>})

PositionsApi == Calls({
    <<"getEmploymentCategories", "GET:positions/employment-categories">>,
    <<"getPositions", "GET:positions">>,
    <<"getPosition", "GET:positions/:uuid">>,
    <<"createPosition", "POST:positions">>,
    <<"updatePosition", "PATCH:positions/:uuid">>,
    <<"archivePosition", "PATCH:positions/:uuid/archive">>,
    <<"reactivatePosition", "PATCH:positions/:uuid/reactivate">>,
    <<"attachPositionEmploymentCategory", "POST:positions/:uuid/employment-categories">>,
    <<"updatePositionEmploymentCategory", "PATCH:positions/:uuid/employment-categories/:variant">>,
    <<"detachPositionEmploymentCategory", "DELETE:positions/:uuid/employment-categories/:variant">>,
    <<"attachPositionDeductionType", "POST:positions/:uuid/deduction-types">>,
    <<"detachPositionDeductionType", "DELETE:positions/:uuid/deduction-types/:id">>,
    <<"addPositionAllowanceTemplate", "POST:positions/:uuid/allowance-templates">>,
    <<"updatePositionAllowanceTemplate", "PATCH:positions/:uuid/allowance-templates/:template">>,
    <<"removePositionAllowanceTemplate", "DELETE:positions/:uuid/allowance-templates/:template">>})

AttendanceApi == Calls({
    <<"createTimeRecord", "POST:time-records">>,
    <<"updateTimeRecord", "PATCH:time-records/:uuid">>,
    <<"getTimeRecords", "GET:time-records">>,
    <<"getTimeRecordsByEmployee", "GET:time-records/employee/:id">>,
    <<"bulkCreateTimeRecords", "POST:time-records/bulk">>})

IkiminaApi == Calls({
    <<"getIkiminaMemberships", "GET:ikimina/memberships">>,
    <<"createIkiminaMembership", "POST:ikimina/memberships">>,
    <<"updateIkiminaMembership", "PATCH:ikimina/memberships/:uuid">>,
    <<"getIkiminaMembershipByEmployee", "GET:ikimina/memberships/employee/:id">>,
    <<"removeIkiminaMembership", "DELETE:ikimina/memberships/:uuid">>})

SystemConfigApi == Calls({
    <<"getSystemConfigs", "GET:system-config">>,
    <<"updateSystemConfig", "POST:system-config">>,
    <<"updateBatchSystemConfigs", "PATCH:system-config/batch">>,
    <<"getMonthlyTaxes", "GET:system-config/monthly-taxes/all">>,
    <<"updateMonthlyTax", "POST:system-config/monthly-taxes">>,
    <<"deactivateMonthlyTax", "PATCH:system-config/monthly-taxes/:uuid/deactivate">>})

DashboardApi == Calls({
    <<"getEmployeeDashboardAnalytics", "GET:dashboard/analytics/employees">>,
    <<"getPayrollDashboardAnalytics", "GET:dashboard/analytics/payroll">>})

AuditApi == Calls({<<"getAuditLogs", "GET:audit-logs">>})

ProfileApi == Calls({
    <<"getMyProfile", "GET:auth/me">>,
    <<"updateProfile", "PATCH:auth/profile">>,
    <<"refreshToken", "POST:auth/refresh">>})

ClientTable ==
    EmployeesApi \cup UsersApi \cup RolesApi \cup PermissionsApi \cup OrganizationApi
      \cup PaymentStructuresApi \cup PayrollApi \cup PositionsApi \cup AttendanceApi
      \cup IkiminaApi \cup SystemConfigApi \cup DashboardApi \cup AuditApi \cup ProfileApi

\* The route a function of the client calls.
RouteOf ==
    [f \in {c.call : c \in ClientTable} |-> (CHOOSE c \in ClientTable : c.call = f).route]

=============================================================================
