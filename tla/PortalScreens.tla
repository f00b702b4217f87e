---------------------------- MODULE PortalScreens ----------------------------
(***************************************************************************)
(* The portal's screens: the permissions of platform roles, the sidebar,   *)
(* the command palette and the links between pages, and for every page     *)
(* that is gated or that carries a control the permission it asks for, the *)
(* role the API asks for to read what the page is about, what the page     *)
(* shows when that read is refused, and its controls.                      *)
(***************************************************************************)
EXTENDS Naturals, PortalControls

Roles == {"support", "finance", "admin", "superuser"}

\* ROLE_RANK; "any" is asked for where every signed-in user will do.
RoleRank(r) ==
    CASE r = "any" -> 0
      [] r = "support" -> 1
      [] r = "finance" -> 2
      [] r = "admin" -> 3
      [] r = "superuser" -> 4

\* PERMISSION_MIN_ROLE; "open" stands for no permission at all.
PermissionMinRole(permission) ==
    CASE permission = "open" -> "any"
      [] permission \in {"platform.users.read", "platform.tenants.read",
                         "approvals.read", "impersonation.start"} -> "support"
      [] permission = "billing.read" -> "finance"
      [] permission \in {"platform.tenants.write", "platform.tenants.users.read",
                         "platform.tenants.users.write", "billing.write",
                         "approvals.approve", "audit.read", "operations.read",
                         "settings.read"} -> "admin"
      [] permission \in {"platform.users.write", "platform.tenants.create",
                         "platform.tenants.offboard",
                         "platform.security.jwt_keys.read"} -> "superuser"

AtLeast(r, required) == RoleRank(r) >= RoleRank(required)

\* A superuser's role has the highest rank, so is_superuser needs no case.
UserHasPermission(r, permission) == AtLeast(r, PermissionMinRole(permission))

-----------------------------------------------------------------------------
(* Screens. *)

(* guard: requirePlatformPermission; reads: the role the API asks for to read
   the main resource; refused: what the page does without it, notFound() or an
   error thrown ("missing") or the page with empty tables ("hollow"). *)
Screen(guard, reads, refused, controls) ==
    [guard |-> guard, reads |-> reads, refused |-> refused, controls |-> controls]

\* Pages of the tenant and member areas ask for a session and nothing else.
AreaScreen(controls) == Screen("open", "any", "missing", controls)

\* Stat tiles fall back to placeholders for those who may not read them.
PlatformDashboard == Screen("open", "support", "hollow", {})
TenantsPage == Screen("platform.tenants.read", "support", "hollow", {})
ArchivedTenantsPage == Screen("platform.tenants.read", "support", "hollow", {})
NewTenantPage == Screen("platform.tenants.create", "any", "missing", {"newTenant"})
TenantPage ==
    Screen("platform.tenants.read", "support", "missing",
           {"reactivateTenant", "retryProvisioning", "cancelTenant", "restoreTenant",
            "extendRetention", "verifyKyc", "unverifyKyc"})
EditTenantPage == Screen("platform.tenants.write", "support", "missing", {"editTenant"})
SuspendTenantPage == Screen("platform.tenants.write", "support", "missing", {"suspendTenant"})
AssignPlanPage == Screen("billing.write", "finance", "missing", {"assignPlan"})
ImpersonatePage == Screen("impersonation.start", "support", "missing", {"impersonate"})
TenantAuditPage == Screen("audit.read", "admin", "hollow", {})
TenantUsersPage == Screen("platform.tenants.users.read", "admin", "hollow", {})
NewTenantUserPage ==
    Screen("platform.tenants.users.write", "any", "missing", {"createTenantUser"})
TenantUserPage == Screen("platform.tenants.users.read", "admin", "missing", {"resetPassword"})
EditTenantUserPage ==
    Screen("platform.tenants.users.write", "admin", "missing", {"editTenantUser"})

UsersPage == Screen("platform.users.read", "support", "hollow", {})
NewUserPage == Screen("platform.users.write", "any", "missing", {"createUser"})
UserPage == Screen("platform.users.read", "support", "missing", {})
EditUserPage ==
    Screen("platform.users.write", "support", "missing", {"editUserName", "editUserAccess"})

PlansPage == Screen("billing.read", "finance", "hollow", {})
NewPlanPage == Screen("billing.write", "any", "missing", {"createPlan"})
PlanPage == Screen("billing.read", "finance", "missing", {})
EditPlanPage == Screen("billing.write", "finance", "missing", {"editPlan"})
SubscriptionsPage == Screen("billing.read", "finance", "hollow", {})
SubscriptionPage ==
    Screen("billing.read", "finance", "missing",
           {"cancelSubscriptionNow", "cancelSubscriptionAtPeriodEnd", "reactivateSubscription"})
InvoicesPage == Screen("billing.read", "finance", "hollow", {})
InvoicePage == Screen("billing.read", "finance", "missing", {"recordPayment", "voidInvoice"})
PaymentsPage == Screen("billing.read", "finance", "hollow", {"rejectPayment"})

ApprovalsPage == Screen("approvals.read", "support", "hollow", {})
MySubmissionsPage == Screen("approvals.read", "support", "hollow", {})
ApprovalPage ==
    Screen("approvals.read", "support", "missing",
           {"approvePlatform", "rejectPlatform", "cancelPlatform"})

AuditPage == Screen("audit.read", "admin", "hollow", {})
OperationsPage == Screen("operations.read", "admin", "hollow", {})
BackupsPage == Screen("operations.read", "superuser", "hollow", {"verifyNow"})
SettingsPage == Screen("settings.read", "any", "missing", {})
BillingConfigPage == Screen("settings.read", "any", "missing", {})
AppearancePage == Screen("settings.read", "any", "missing", {})
KycConfigPage == Screen("settings.read", "admin", "missing", {"saccoKycRequirements"})
RateLimitsPage == Screen("settings.read", "admin", "missing", {})
SecurityPage == Screen("platform.security.jwt_keys.read", "superuser", "hollow", {})
PreferencesPage == Screen("settings.read", "support", "missing", {"platformPreferences"})
TemplatesPage == Screen("settings.read", "support", "missing", {"editTemplate"})
EventsPage == Screen("settings.read", "support", "hollow", {"resendEvent"})

TenantApprovalPage == AreaScreen({"approveTenant", "rejectTenant", "cancelTenantRequest"})
NewMemberPage == AreaScreen({"createMember"})
MemberPage == AreaScreen({"activateMember", "suspendMember", "exitMember"})
KycSubmissionPage == AreaScreen({"approveKyc", "rejectKyc"})
OrganizationKycPage == AreaScreen({"organizationKyc"})
MemberKycRequirementsPage == AreaScreen({"memberKycRequirements"})
TenantPreferencesPage == AreaScreen({"tenantPreferences"})
NewSavingsProductPage == AreaScreen({"createSavingsProduct"})
NewSavingsAccountPage == AreaScreen({"openSavingsAccount"})
SavingsAccountPage == AreaScreen({"deposit", "withdraw"})
NewShareProductPage == AreaScreen({"createShareProduct"})
NewShareAccountPage == AreaScreen({"openShareAccount"})
ShareAccountPage == AreaScreen({"purchaseShares", "redeemShares"})
NewFeeTypePage == AreaScreen({"createFeeType"})
FeeTypePage == AreaScreen({"editFeeType"})
NewAssessmentPage == AreaScreen({"createAssessment"})
AssessmentPage == AreaScreen({"recordCollection"})
NewAccountPage == AreaScreen({"createAccount"})
NewJournalEntryPage == AreaScreen({"manualGl"})
NewLoanProductPage == AreaScreen({"createLoanProduct"})
LoanProductPage == AreaScreen({"editLoanProduct"})
NewApplicationPage == AreaScreen({"createApplication"})
ApplicationPage ==
    AreaScreen({"approveApplication", "rejectApplication", "withdrawApplication", "disburse",
                "nominateGuarantors", "acceptGuarantor", "declineGuarantor"})
LoanPage == AreaScreen({"repay", "writeOff", "writeOffLarge", "restructure", "recover"})
NewPayrollBatchPage == AreaScreen({"createPayrollBatch"})
PayrollBatchPage == AreaScreen({"rejectPayrollBatch"})
MemberLoansPage == AreaScreen({"memberApply"})
MemberProfilePage == AreaScreen({"memberKyc"})
MemberPreferencesPage == AreaScreen({"memberPreferences"})

PlatformScreens ==
    [dashboard |-> PlatformDashboard, tenants |-> TenantsPage,
     archivedTenants |-> ArchivedTenantsPage, newTenant |-> NewTenantPage,
     tenant |-> TenantPage, editTenant |-> EditTenantPage,
     suspendTenant |-> SuspendTenantPage, assignPlan |-> AssignPlanPage,
     impersonate |-> ImpersonatePage, tenantAudit |-> TenantAuditPage,
     tenantUsers |-> TenantUsersPage, newTenantUser |-> NewTenantUserPage,
     tenantUser |-> TenantUserPage, editTenantUser |-> EditTenantUserPage,
     users |-> UsersPage, newUser |-> NewUserPage, user |-> UserPage,
     editUser |-> EditUserPage, plans |-> PlansPage, newPlan |-> NewPlanPage,
     plan |-> PlanPage, editPlan |-> EditPlanPage, subscriptions |-> SubscriptionsPage,
     subscription |-> SubscriptionPage, invoices |-> InvoicesPage,
     invoice |-> InvoicePage, payments |-> PaymentsPage, approvals |-> ApprovalsPage,
     mySubmissions |-> MySubmissionsPage, approval |-> ApprovalPage,
     audit |-> AuditPage, operations |-> OperationsPage, backups |-> BackupsPage,
     settings |-> SettingsPage, billingConfig |-> BillingConfigPage,
     appearance |-> AppearancePage, kycConfig |-> KycConfigPage,
     rateLimits |-> RateLimitsPage, security |-> SecurityPage,
     preferences |-> PreferencesPage, templates |-> TemplatesPage,
     events |-> EventsPage]

AreaScreens ==
    [tenantApproval |-> TenantApprovalPage, newMember |-> NewMemberPage,
     member |-> MemberPage, kycSubmission |-> KycSubmissionPage,
     organizationKyc |-> OrganizationKycPage,
     memberKycRequirements |-> MemberKycRequirementsPage,
     tenantPreferences |-> TenantPreferencesPage,
     newSavingsProduct |-> NewSavingsProductPage,
     newSavingsAccount |-> NewSavingsAccountPage,
     savingsAccount |-> SavingsAccountPage, newShareProduct |-> NewShareProductPage,
     newShareAccount |-> NewShareAccountPage, shareAccount |-> ShareAccountPage,
     newFeeType |-> NewFeeTypePage, feeType |-> FeeTypePage,
     newAssessment |-> NewAssessmentPage, assessment |-> AssessmentPage,
     newAccount |-> NewAccountPage, newJournalEntry |-> NewJournalEntryPage,
     newLoanProduct |-> NewLoanProductPage, loanProduct |-> LoanProductPage,
     newApplication |-> NewApplicationPage, application |-> ApplicationPage,
     loan |-> LoanPage, newPayrollBatch |-> NewPayrollBatchPage,
     payrollBatch |-> PayrollBatchPage, memberLoans |-> MemberLoansPage,
     memberProfile |-> MemberProfilePage, memberPreferences |-> MemberPreferencesPage]

Controls ==
    [newTenant |-> NewTenantWizard, editTenant |-> EditTenantForm,
     cancelTenant |-> CancelTenantDialog, restoreTenant |-> RestoreButton,
     extendRetention |-> ExtendRetentionDialog, reactivateTenant |-> TenantActions,
     retryProvisioning |-> RetryProvisioningButton, suspendTenant |-> SuspendTenantForm,
     verifyKyc |-> VerifyTenantKyc, unverifyKyc |-> UnverifyTenantKyc,
     impersonate |-> ImpersonateTenantPanel, createTenantUser |-> CreateTenantUserForm,
     editTenantUser |-> EditTenantUserForm, resetPassword |-> ResetPasswordButton,
     assignPlan |-> AssignPlanForm, createUser |-> CreateUserForm,
     editUserName |-> EditUserName, editUserAccess |-> EditUserAccess,
     createPlan |-> PlanForm, editPlan |-> EditPlanForm,
     cancelSubscriptionNow |-> CancelSubscriptionNow,
     cancelSubscriptionAtPeriodEnd |-> CancelSubscriptionAtPeriodEnd,
     reactivateSubscription |-> ReactivateSubscription, recordPayment |-> RecordPayment,
     voidInvoice |-> VoidInvoice, rejectPayment |-> RejectPayment,
     approvePlatform |-> ApprovePlatformRequest, rejectPlatform |-> RejectPlatformRequest,
     cancelPlatform |-> CancelPlatformRequest, editTemplate |-> EditTemplateDialog,
     resendEvent |-> ResendEvent, verifyNow |-> VerifyNowButton,
     saccoKycRequirements |-> SaccoKycRequirementsForm,
     platformPreferences |-> NotificationPreferencesForm,
     tenantPreferences |-> NotificationPreferencesForm,
     memberPreferences |-> NotificationPreferencesForm,
     approveTenant |-> ApproveTenantRequest, rejectTenant |-> RejectTenantRequest,
     cancelTenantRequest |-> CancelTenantRequest, createMember |-> CreateMemberForm,
     activateMember |-> ChangeMemberStatusButton("active"),
     suspendMember |-> ChangeMemberStatusButton("suspended"),
     exitMember |-> ChangeMemberStatusButton("exited"),
     approveKyc |-> ApproveKycSubmission, rejectKyc |-> RejectKycSubmission,
     organizationKyc |-> OrganizationKycScreen,
     memberKycRequirements |-> MemberKycRequirementsForm,
     createSavingsProduct |-> SavingsProductForm,
     openSavingsAccount |-> OpenSavingsAccountForm, deposit |-> SavingsDepositForm,
     withdraw |-> SavingsWithdrawForm, createShareProduct |-> ShareProductForm,
     openShareAccount |-> OpenShareAccountForm, purchaseShares |-> SharesPurchaseForm,
     redeemShares |-> SharesRedeemForm, createFeeType |-> CreateFeeTypeForm,
     editFeeType |-> EditFeeTypeForm, createAssessment |-> CreateAssessmentForm,
     recordCollection |-> RecordCollectionButton, createAccount |-> CreateAccountForm,
     manualGl |-> ManualGLForm, createLoanProduct |-> LoanProductForm,
     editLoanProduct |-> EditLoanProductForm, createApplication |-> CreateApplicationForm,
     approveApplication |-> ApproveApplication, rejectApplication |-> RejectApplication,
     withdrawApplication |-> WithdrawApplication, disburse |-> DisburseButton,
     nominateGuarantors |-> NominateGuarantors, acceptGuarantor |-> AcceptGuarantor,
     declineGuarantor |-> DeclineGuarantor, repay |-> RecordRepaymentButton,
     writeOff |-> WriteOffForm, writeOffLarge |-> WriteOffLargeForm,
     restructure |-> RestructureForm, recover |-> RecoverForm,
     createPayrollBatch |-> CreatePayrollBatchForm,
     rejectPayrollBatch |-> RejectPayrollBatchButton, memberApply |-> MemberApplySection,
     memberKyc |-> MemberKycSection]

-----------------------------------------------------------------------------
(* Links to platform pages: where the link is, the page it opens, and the
   permission under which it is shown. *)

Link(from, to, perm) == [from |-> from, to |-> to, perm |-> perm]

BillingPages == {"plans", "subscriptions", "invoices", "payments"}

\* Mutant: the billing entries are shown to everybody who may see tenants.
BillingNavLoose == {Link("sidebar", to, "platform.tenants.read") : to \in BillingPages}

BillingNav == {Link("sidebar", to, "billing.read") : to \in BillingPages}

\* PLATFORM_NAV: the entries that have an href; PermissionGuard hides the others.
PlatformNav ==
    {Link("sidebar", "dashboard", "open"),
     Link("sidebar", "tenants", "platform.tenants.read"),
     Link("sidebar", "users", "platform.users.read"),
     Link("sidebar", "approvals", "approvals.read"),
     Link("sidebar", "backups", "operations.read"),
     Link("sidebar", "audit", "audit.read")}
    \cup BillingNav
    \cup {Link("sidebar", to, "settings.read") :
            to \in {"rateLimits", "security", "preferences", "templates", "events",
                    "kycConfig", "billingConfig", "appearance"}}

\* navActions: the palette offers the entries of the sidebar and drops their
\* permissions.
NavActions == {[l EXCEPT !.from = "palette", !.perm = "open"] : l \in PlatformNav}

\* Links that a page shows to everybody who may see the page.
From(here, tos) == {Link(here, to, PlatformScreens[here].guard) : to \in tos}

TenantsPageLinks ==
    From("tenants", {"archivedTenants"})
    \cup {Link("tenants", "newTenant", "platform.tenants.create")}
TenantsTable == From("tenants", {"tenant"})
ArchivedTenantsTable == From("archivedTenants", {"tenant"})
TenantDetailLinks ==
    {Link("tenant", "tenantAudit", "audit.read"),
     Link("tenant", "tenantUsers", "platform.tenants.users.read")}
TenantActionLinks ==
    {Link("tenant", "editTenant", "platform.tenants.write"),
     Link("tenant", "suspendTenant", "platform.tenants.write"),
     Link("tenant", "assignPlan", "billing.write"),
     Link("tenant", "impersonate", "impersonation.start")}
TenantUsersPageLinks == {Link("tenantUsers", "newTenantUser", "platform.tenants.users.write")}
TenantUsersTable == From("tenantUsers", {"tenantUser"})
TenantUserPageLinks == {Link("tenantUser", "editTenantUser", "platform.tenants.users.write")}

UsersPageLinks == {Link("users", "newUser", "platform.users.write")}
UsersTable == From("users", {"user"})
UserDetailLinks == {Link("user", "editUser", "platform.users.write")}

PlansPageLinks == {Link("plans", "newPlan", "billing.write")}
PlansTable == From("plans", {"plan"})
PlanPageLinks == {Link("plan", "editPlan", "billing.write")}
SubscriptionsTable == From("subscriptions", {"subscription"})
InvoicesTable == From("invoices", {"invoice"})
PendingPaymentsLinks == From("payments", {"invoice"})
BillingTabs == UNION {From(tab, BillingPages \ {tab}) : tab \in BillingPages}

ApprovalsPageLinks == From("approvals", {"mySubmissions"})
ApprovalsTable == From("approvals", {"approval"}) \cup From("mySubmissions", {"approval"})
OperationsLinks == From("operations", {"approvals", "invoices"})
SettingsLinks ==
    From("settings", {"billingConfig", "preferences", "rateLimits"})
    \cup {Link("settings", "security", "platform.security.jwt_keys.read")}
BillingConfigLinks == From("billingConfig", {"plans"})

\* Tiles, the attention list and the quick links of the dashboard, which is open
\* to every role.
DashboardLinks ==
    From("dashboard", {"subscriptions", "tenants", "invoices", "approvals", "operations",
                       "users"})

\* Its lists of recent rows hold what the reads of the user's role returned.
RecentLists ==
    {Link("dashboard", "tenant", "platform.tenants.read"),
     Link("dashboard", "invoice", "billing.read")}

PlatformLinks ==
    PlatformNav \cup NavActions \cup DashboardLinks \cup RecentLists
    \cup TenantsPageLinks \cup TenantsTable \cup ArchivedTenantsTable
    \cup TenantDetailLinks \cup TenantActionLinks \cup TenantUsersPageLinks
    \cup TenantUsersTable \cup TenantUserPageLinks
    \cup UsersPageLinks \cup UsersTable \cup UserDetailLinks
    \cup PlansPageLinks \cup PlansTable \cup PlanPageLinks \cup SubscriptionsTable
    \cup InvoicesTable \cup PendingPaymentsLinks \cup BillingTabs
    \cup ApprovalsPageLinks \cup ApprovalsTable \cup OperationsLinks \cup SettingsLinks
    \cup BillingConfigLinks

=============================================================================
