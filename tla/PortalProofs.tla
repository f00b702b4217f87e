---------------------------- MODULE PortalProofs ----------------------------
(***************************************************************************)
(* Proofs about Portal, for every link and every control of the screens    *)
(* and any number of calls, visits and interferences: what the user meant  *)
(* once is done once, what a toast says is so, a refusal has a cause, a    *)
(* page shows what is the case, no link that is shown is dead, and every   *)
(* variable keeps its type.                                                *)
(*                                                                         *)
(* The argument has two halves.  The first is about the portal as it is    *)
(* written: every control calls an operation that agrees with where the    *)
(* control is offered, what its toast says and when its key is made        *)
(* (Sound), and every link but the loose ones asks for what its page needs *)
(* (Leads).  Each control and each link is a case.  The second half is     *)
(* about what happens: a behaviour keeps its control and its link, so it   *)
(* has those facts throughout (Static), together with the shape of the     *)
(* state, the order of the calls and what the browser was answered (Base). *)
(* On Base rest the invariants of the properties, one section each.        *)
(***************************************************************************)
EXTENDS Portal, FiniteSetTheorems, TLAPS

-----------------------------------------------------------------------------
(* Controls: what the forms and buttons of the portal have in common. *)

\* The operation leads to states of the life of its object, and acts at once,
\* or files a request, or overwrites and files (PATCH /platform/users/{id}).
Acts(c) ==
    LET op == c.calls IN
    /\ c.on \in DOMAIN Lives
    /\ op.to \subseteq Lives[c.on].states
    /\ op.accepts = {"absent"} => "absent" \in Lives[c.on].states
    /\ op.applies \/ op.files
    /\ op.applies /\ op.files => op.once = "set"
    /\ op.once \in {"key", "lookup", "execution", "entry", "set", "guard"}
    /\ op.once \in {"execution", "entry"} => ~op.applies

\* A control that leaves the page as it is does not change what the page shows.
Ends(c) ==
    /\ c.done \in {"refresh", "leave", "patch", "keep"}
    /\ c.done = "keep" => ~c.calls.applies \/ c.calls.to = Kept

\* A key is made with the component wherever the API looks at keys, executors do
\* not look it up in vain, and an operation protected by the state of its object
\* alone leaves the states in which it acts.
Protected(c) ==
    LET op == c.calls IN
    /\ op.once # "entry"
    /\ op.once \in {"key", "lookup", "execution"} => c.key = "mount"
    /\ op.once = "guard" \/ (op.once = "lookup" /\ op.applies) =>
         \/ c.offered = {}
         \/ op.to # Kept /\ op.to \cap (IF op.applies THEN op.accepts ELSE op.runs) = {}

\* The toast speaks of a request where one is filed, of an effect where there
\* is one.
Honest(c) ==
    \/ c.says = "requested" /\ c.calls.files
    \/ c.says = "done" /\ c.calls.applies /\ ~c.calls.files

\* Whoever is shown the control has the role for its operation, and the states
\* it is shown in are those the operation accepts, a new row apart.
Narrow(c) ==
    /\ \A r \in Roles : UserHasPermission(r, c.perm) => AtLeast(r, c.calls.role)
    /\ c.offered \subseteq c.calls.accepts \/ c.calls.accepts = {"absent"}

\* A control keeps to all of that, the named exceptions apart.
Sound(n, c) ==
    /\ Acts(c)
    /\ Ends(c)
    /\ n \notin Unprotected => Protected(c)
    /\ n \notin Overstated => Honest(c)
    /\ n \notin TooWide => Narrow(c)

\* What PATCH /platform/users/{id} comes to.
LEMMA UsersUpdateIs ==
    /\ UsersUpdate.role = "superuser" /\ UsersUpdate.accepts = {"present"}
    /\ UsersUpdate.applies = TRUE /\ UsersUpdate.files = TRUE
    /\ UsersUpdate.runs = {"present"} /\ UsersUpdate.to = Kept
    /\ UsersUpdate.once = "set"
BY DEF UsersUpdate, Overwrite, Direct

\* Controls on the platform's tenants.
LEMMA TenantControlsSound ==
    \A n \in {"newTenant", "editTenant", "cancelTenant", "restoreTenant",
        "extendRetention", "reactivateTenant", "retryProvisioning", "suspendTenant",
        "verifyKyc", "unverifyKyc", "impersonate", "createTenantUser",
        "editTenantUser", "resetPassword", "assignPlan"} :
        Sound(n, Controls[n])
<1> USE DEF Sound, Acts, Ends, Protected, Honest, Narrow, Control, FormDialog, Confirm,
            RequestDialog, PageForm, CreateForm, EditForm, Keyed, Outliving, Direct,
            Filed, CreateUnique, CreateAnother, Overwrite, Kept, Lives, Life,
            UserHasPermission, AtLeast, PermissionMinRole, RoleRank, Roles,
            Unprotected, TooWide, Overstated
<1>1. Sound("newTenant", NewTenantWizard)
  BY DEF NewTenantWizard, TenantsCreate, RowLife
<1>2. Sound("editTenant", EditTenantForm)
  BY DEF EditTenantForm, TenantsPatch, RowLife
<1>3. Sound("cancelTenant", CancelTenantDialog)
  BY DEF CancelTenantDialog, TenantsCancel, OffboardingLife
<1>4. Sound("restoreTenant", RestoreButton)
  BY DEF RestoreButton, TenantsRestore, OffboardingLife
<1>5. Sound("extendRetention", ExtendRetentionDialog)
  BY DEF ExtendRetentionDialog, OffboardingLife, TenantsExtendRetention
<1>6. Sound("reactivateTenant", TenantActions)
  BY DEF TenantActions, TenantsReactivate, TenantLife
<1>7. Sound("retryProvisioning", RetryProvisioningButton)
  BY DEF RetryProvisioningButton, TenantsRetryProvisioning, TenantLife
<1>8. Sound("suspendTenant", SuspendTenantForm)
  BY DEF SuspendTenantForm, TenantLife, TenantsSuspend
<1>9. Sound("verifyKyc", VerifyTenantKyc)
  BY DEF VerifyTenantKyc, KycControl, KycVerifyTenant, OrganizationKycLife
<1>10. Sound("unverifyKyc", UnverifyTenantKyc)
  BY DEF UnverifyTenantKyc, KycControl, KycUnverifyTenant, OrganizationKycLife
<1>11. Sound("impersonate", ImpersonateTenantPanel)
  BY DEF ImpersonateTenantPanel, ImpersonationLife, ImpersonationsRequest
<1>12. Sound("createTenantUser", CreateTenantUserForm)
  BY DEF CreateTenantUserForm, TenantUsersCreate, RowLife
<1>13. Sound("editTenantUser", EditTenantUserForm)
  BY DEF EditTenantUserForm, TenantUsersEdit, RowLife
<1>14. Sound("resetPassword", ResetPasswordButton)
  BY DEF ResetPasswordButton, TenantUsersResetPassword, RowLife
<1>15. Sound("assignPlan", AssignPlanForm)
  BY DEF AssignPlanForm, SubscriptionLife, SubscriptionsCreate
<1> HIDE DEF Sound, Acts, Ends, Protected, Honest, Narrow, Control, FormDialog,
         Confirm, RequestDialog, PageForm, CreateForm, EditForm, Keyed, Outliving
<1> QED
  BY <1>1, <1>2, <1>3, <1>4, <1>5, <1>6, <1>7, <1>8, <1>9, <1>10, <1>11, <1>12,
     <1>13, <1>14, <1>15
     DEF Controls

\* Controls on the platform's users, billing, approvals and settings.
LEMMA PlatformControlsSound ==
    \A n \in {"createUser", "editUserName", "editUserAccess", "createPlan",
        "editPlan", "cancelSubscriptionNow", "cancelSubscriptionAtPeriodEnd",
        "reactivateSubscription", "recordPayment", "voidInvoice", "rejectPayment",
        "approvePlatform", "rejectPlatform", "cancelPlatform", "editTemplate",
        "resendEvent", "verifyNow", "saccoKycRequirements", "platformPreferences"} :
        Sound(n, Controls[n])
<1> USE DEF Sound, Acts, Ends, Protected, Honest, Narrow, Control, FormDialog, Confirm,
            RequestDialog, PageForm, CreateForm, EditForm, Keyed, Outliving, Direct,
            Filed, CreateUnique, CreateAnother, Overwrite, Kept, Lives, Life,
            UserHasPermission, AtLeast, PermissionMinRole, RoleRank, Roles,
            Unprotected, TooWide, Overstated
<1>1. Sound("createUser", CreateUserForm)
  BY DEF CreateUserForm, UsersCreate, RowLife
<1>2. Sound("editUserName", EditUserName)
  BY UsersUpdateIs DEF EditUserName, RowLife
<1>3. Sound("editUserAccess", EditUserAccess)
  BY UsersUpdateIs DEF EditUserAccess, EditUserName, RowLife
<1>4. Sound("createPlan", PlanForm)
  BY DEF PlanForm, PlansCreate, RowLife
<1>5. Sound("editPlan", EditPlanForm)
  BY DEF EditPlanForm, PlansUpdate, RowLife
<1>6. Sound("cancelSubscriptionNow", CancelSubscriptionNow)
  BY DEF CancelSubscriptionNow, Cancellable, SubscriptionsCancelNow,
         SubscriptionLife
<1>7. Sound("cancelSubscriptionAtPeriodEnd", CancelSubscriptionAtPeriodEnd)
  BY DEF CancelSubscriptionAtPeriodEnd, Cancellable, SubscriptionsCancelAtPeriodEnd,
         SubscriptionLife
<1>8. Sound("reactivateSubscription", ReactivateSubscription)
  BY DEF ReactivateSubscription, SubscriptionsReactivate, SubscriptionLife
<1>9. Sound("recordPayment", RecordPayment)
  BY DEF RecordPayment, InvoicesRecordPayment, InvoiceLife
<1>10. Sound("voidInvoice", VoidInvoice)
  BY DEF VoidInvoice, InvoicesVoid, InvoiceLife
<1>11. Sound("rejectPayment", RejectPayment)
  BY DEF RejectPayment, PaymentsReject, PaymentLife
<1>12. Sound("approvePlatform", ApprovePlatformRequest)
  BY DEF ApprovePlatformRequest, Decidable, PlatformApprovalsApprove, RequestLife, Voted
<1>13. Sound("rejectPlatform", RejectPlatformRequest)
  BY DEF RejectPlatformRequest, Decidable, PlatformApprovalsReject, RequestLife
<1>14. Sound("cancelPlatform", CancelPlatformRequest)
  BY DEF CancelPlatformRequest, Withdrawable, PlatformApprovalsCancel, RequestLife
<1>15. Sound("editTemplate", EditTemplateDialog)
  BY DEF EditTemplateDialog, TemplatesPatch, RowLife
<1>16. Sound("resendEvent", ResendEvent)
  BY DEF ResendEvent, EventsResend, DeliveryLife
<1>17. Sound("verifyNow", VerifyNowButton)
  BY DEF VerifyNowButton, DrillLife, OpsVerify
<1>18. Sound("saccoKycRequirements", SaccoKycRequirementsForm)
  BY DEF SaccoKycRequirementsForm, KycRequirementsPut, RowLife
<1>19. Sound("platformPreferences", NotificationPreferencesForm)
  BY DEF NotificationPreferencesForm, PreferencesPut, RowLife
<1> HIDE DEF Sound, Acts, Ends, Protected, Honest, Narrow, Control, FormDialog,
         Confirm, RequestDialog, PageForm, CreateForm, EditForm, Keyed, Outliving
<1> QED
  BY <1>1, <1>2, <1>3, <1>4, <1>5, <1>6, <1>7, <1>8, <1>9, <1>10, <1>11, <1>12,
     <1>13, <1>14, <1>15, <1>16, <1>17, <1>18, <1>19
     DEF Controls

\* Controls of the tenant's approvals, members, savings, shares, fees and ledger.
LEMMA OfficeControlsSound ==
    \A n \in {"tenantPreferences", "memberPreferences", "approveTenant",
        "rejectTenant", "cancelTenantRequest", "createMember", "activateMember",
        "suspendMember", "exitMember", "approveKyc", "rejectKyc", "organizationKyc",
        "memberKycRequirements", "createSavingsProduct", "openSavingsAccount",
        "deposit", "withdraw", "createShareProduct", "openShareAccount",
        "purchaseShares", "redeemShares", "createFeeType", "editFeeType",
        "createAssessment", "recordCollection", "createAccount", "manualGl"} :
        Sound(n, Controls[n])
<1> USE DEF Sound, Acts, Ends, Protected, Honest, Narrow, Control, FormDialog, Confirm,
            RequestDialog, PageForm, CreateForm, EditForm, Keyed, Outliving, Direct,
            Filed, CreateUnique, CreateAnother, Overwrite, Kept, Lives, Life,
            UserHasPermission, AtLeast, PermissionMinRole, RoleRank, Roles,
            Unprotected, TooWide, Overstated
<1>1. Sound("tenantPreferences", NotificationPreferencesForm)
  BY DEF NotificationPreferencesForm, PreferencesPut, RowLife
<1>2. Sound("memberPreferences", NotificationPreferencesForm)
  BY DEF NotificationPreferencesForm, PreferencesPut, RowLife
<1>3. Sound("approveTenant", ApproveTenantRequest)
  BY DEF ApproveTenantRequest, Decidable, TenantApprovalsApprove, RequestLife, Voted
<1>4. Sound("rejectTenant", RejectTenantRequest)
  BY DEF RejectTenantRequest, Decidable, TenantApprovalsReject, RequestLife
<1>5. Sound("cancelTenantRequest", CancelTenantRequest)
  BY DEF CancelTenantRequest, Withdrawable, TenantApprovalsCancel, RequestLife
<1>6. Sound("createMember", CreateMemberForm)
  BY DEF CreateMemberForm, MembersRegister, RowLife
<1>7. Sound("activateMember", ChangeMemberStatusButton("active"))
  BY DEF ChangeMemberStatusButton, MemberLife, MembersChangeStatus
<1>8. Sound("suspendMember", ChangeMemberStatusButton("suspended"))
  BY DEF ChangeMemberStatusButton, MemberLife, MembersChangeStatus
<1>9. Sound("exitMember", ChangeMemberStatusButton("exited"))
  BY DEF ChangeMemberStatusButton, MemberLife, MembersChangeStatus
<1>10. Sound("approveKyc", ApproveKycSubmission)
  BY DEF ApproveKycSubmission, KycSubmissionsApprove, SubmissionLife
<1>11. Sound("rejectKyc", RejectKycSubmission)
  BY DEF RejectKycSubmission, KycSubmissionsReject, SubmissionLife
<1>12. Sound("organizationKyc", OrganizationKycScreen)
  BY DEF OrganizationKycScreen, OrganizationKycLife, OrganizationKycPut
<1>13. Sound("memberKycRequirements", MemberKycRequirementsForm)
  BY DEF MemberKycRequirementsForm, MemberKycRequirementsPut, RowLife
<1>14. Sound("createSavingsProduct", SavingsProductForm)
  BY DEF SavingsProductForm, SavingsProductsCreate, RowLife
<1>15. Sound("openSavingsAccount", OpenSavingsAccountForm)
  BY DEF OpenSavingsAccountForm, SavingsAccountsOpen, RowLife
<1>16. Sound("deposit", SavingsDepositForm)
  BY DEF SavingsDepositForm, SavingsDeposit, AccountLife
<1>17. Sound("withdraw", SavingsWithdrawForm)
  BY DEF SavingsWithdrawForm, SavingsWithdraw, AccountLife
<1>18. Sound("createShareProduct", ShareProductForm)
  BY DEF ShareProductForm, ShareProductsCreate, RowLife
<1>19. Sound("openShareAccount", OpenShareAccountForm)
  BY DEF OpenShareAccountForm, ShareAccountsOpen, RowLife
<1>20. Sound("purchaseShares", SharesPurchaseForm)
  BY DEF SharesPurchaseForm, SharesPurchase, OfferLife
<1>21. Sound("redeemShares", SharesRedeemForm)
  BY DEF SharesRedeemForm, SharesRedeem, AccountLife
<1>22. Sound("createFeeType", CreateFeeTypeForm)
  BY DEF CreateFeeTypeForm, FeeTypesCreate, RowLife
<1>23. Sound("editFeeType", EditFeeTypeForm)
  BY DEF EditFeeTypeForm, FeeTypesUpdate, RowLife
<1>24. Sound("createAssessment", CreateAssessmentForm)
  BY DEF CreateAssessmentForm, AssessmentsCreate, RowLife
<1>25. Sound("recordCollection", RecordCollectionButton)
  BY DEF RecordCollectionButton, AssessmentsCollect, AssessmentLife
<1>26. Sound("createAccount", CreateAccountForm)
  BY DEF CreateAccountForm, AccountsCreate, RowLife
<1>27. Sound("manualGl", ManualGLForm)
  BY DEF ManualGLForm, JournalSubmit, RowLife
<1> HIDE DEF Sound, Acts, Ends, Protected, Honest, Narrow, Control, FormDialog,
         Confirm, RequestDialog, PageForm, CreateForm, EditForm, Keyed, Outliving
<1> QED
  BY <1>1, <1>2, <1>3, <1>4, <1>5, <1>6, <1>7, <1>8, <1>9, <1>10, <1>11, <1>12,
     <1>13, <1>14, <1>15, <1>16, <1>17, <1>18, <1>19, <1>20, <1>21, <1>22, <1>23,
     <1>24, <1>25, <1>26, <1>27
     DEF Controls

\* Controls of credit and of the member's own screens.
LEMMA CreditControlsSound ==
    \A n \in {"createLoanProduct", "editLoanProduct", "createApplication",
        "approveApplication", "rejectApplication", "withdrawApplication",
        "disburse", "nominateGuarantors", "acceptGuarantor", "declineGuarantor",
        "repay", "writeOff", "writeOffLarge", "restructure", "recover",
        "createPayrollBatch", "rejectPayrollBatch", "memberApply", "memberKyc"} :
        Sound(n, Controls[n])
<1> USE DEF Sound, Acts, Ends, Protected, Honest, Narrow, Control, FormDialog, Confirm,
            RequestDialog, PageForm, CreateForm, EditForm, Keyed, Outliving, Direct,
            Filed, CreateUnique, CreateAnother, Overwrite, Kept, Lives, Life,
            UserHasPermission, AtLeast, PermissionMinRole, RoleRank, Roles,
            Unprotected, TooWide, Overstated
<1>1. Sound("createLoanProduct", LoanProductForm)
  BY DEF LoanProductForm, LoanProductsCreate, RowLife
<1>2. Sound("editLoanProduct", EditLoanProductForm)
  BY DEF EditLoanProductForm, LoanProductsUpdate, RowLife
<1>3. Sound("createApplication", CreateApplicationForm)
  BY DEF CreateApplicationForm, ApplicationsSubmit, RowLife
<1>4. Sound("approveApplication", ApproveApplication)
  BY DEF ApproveApplication, ApplicationDecidable, ApplicationLife,
         ApplicationsApprove
<1>5. Sound("rejectApplication", RejectApplication)
  BY DEF RejectApplication, ApplicationDecidable, ApplicationLife,
         ApplicationsReject
<1>6. Sound("withdrawApplication", WithdrawApplication)
  BY DEF WithdrawApplication, ApplicationDecidable, ApplicationLife,
         ApplicationsWithdraw
<1>7. Sound("disburse", DisburseButton)
  BY DEF DisburseButton, ApplicationsDisburse, ApplicationLife
<1>8. Sound("nominateGuarantors", NominateGuarantors)
  BY DEF NominateGuarantors, GuarantorsNominate, GuarantorLife
<1>9. Sound("acceptGuarantor", AcceptGuarantor)
  BY DEF AcceptGuarantor, ConsentShown, GuarantorLife, GuarantorsAccept
<1>10. Sound("declineGuarantor", DeclineGuarantor)
  BY DEF DeclineGuarantor, ConsentShown, GuarantorLife, GuarantorsDecline
<1>11. Sound("repay", RecordRepaymentButton)
  BY DEF RecordRepaymentButton, LoanLife, LoansRepay
<1>12. Sound("writeOff", WriteOffForm)
  BY DEF WriteOffForm, WorkoutOffered, LoanLife, LoansWriteOff
<1>13. Sound("writeOffLarge", WriteOffLargeForm)
  BY DEF WriteOffLargeForm, WorkoutOffered, LoanLife, LoansWriteOffLarge
<1>14. Sound("restructure", RestructureForm)
  BY DEF RestructureForm, WorkoutOffered, LoanLife, LoansRestructure
<1>15. Sound("recover", RecoverForm)
  BY DEF RecoverForm, LoansRecover, LoanLife
<1>16. Sound("createPayrollBatch", CreatePayrollBatchForm)
  BY DEF CreatePayrollBatchForm, PayrollSubmit, RowLife
<1>17. Sound("rejectPayrollBatch", RejectPayrollBatchButton)
  BY DEF RejectPayrollBatchButton, PayrollReject, BatchLife
<1>18. Sound("memberApply", MemberApplySection)
  BY DEF MemberApplySection, RowLife, MemberApply
<1>19. Sound("memberKyc", MemberKycSection)
  BY DEF MemberKycSection, SubmissionLife, MemberKycSubmit
<1> HIDE DEF Sound, Acts, Ends, Protected, Honest, Narrow, Control, FormDialog,
         Confirm, RequestDialog, PageForm, CreateForm, EditForm, Keyed, Outliving
<1> QED
  BY <1>1, <1>2, <1>3, <1>4, <1>5, <1>6, <1>7, <1>8, <1>9, <1>10, <1>11, <1>12,
     <1>13, <1>14, <1>15, <1>16, <1>17, <1>18, <1>19
     DEF Controls

-----------------------------------------------------------------------------
(* Screens and links: who gets where. *)

\* A screen that is refused a read shows no page, and its controls are sound.
LEMMA PlatformScreensSound ==
    \A name \in DOMAIN PlatformScreens :
        /\ PlatformScreens[name].refused \in {"missing", "hollow"}
        /\ \A c \in PlatformScreens[name].controls : Sound(c, Controls[c])
<1> DEFINE Fine(s) == /\ s.refused \in {"missing", "hollow"}
                      /\ \A c \in s.controls : Sound(c, Controls[c])
<1>1. /\ Fine(PlatformDashboard) /\ Fine(TenantsPage) /\ Fine(ArchivedTenantsPage)
      /\ Fine(NewTenantPage) /\ Fine(TenantPage) /\ Fine(EditTenantPage)
      /\ Fine(SuspendTenantPage) /\ Fine(AssignPlanPage) /\ Fine(ImpersonatePage)
      /\ Fine(TenantAuditPage) /\ Fine(TenantUsersPage) /\ Fine(NewTenantUserPage)
      /\ Fine(TenantUserPage) /\ Fine(EditTenantUserPage)
  BY TenantControlsSound, PlatformControlsSound
     DEF Screen, PlatformDashboard, TenantsPage, ArchivedTenantsPage, NewTenantPage,
         TenantPage, EditTenantPage, SuspendTenantPage, AssignPlanPage,
         ImpersonatePage, TenantAuditPage, TenantUsersPage, NewTenantUserPage,
         TenantUserPage, EditTenantUserPage
<1>2. /\ Fine(UsersPage) /\ Fine(NewUserPage) /\ Fine(UserPage)
      /\ Fine(EditUserPage) /\ Fine(PlansPage) /\ Fine(NewPlanPage)
      /\ Fine(PlanPage) /\ Fine(EditPlanPage) /\ Fine(SubscriptionsPage)
      /\ Fine(SubscriptionPage) /\ Fine(InvoicesPage) /\ Fine(InvoicePage)
      /\ Fine(PaymentsPage) /\ Fine(ApprovalsPage)
  BY TenantControlsSound, PlatformControlsSound
     DEF Screen, UsersPage, NewUserPage, UserPage, EditUserPage, PlansPage,
         NewPlanPage, PlanPage, EditPlanPage, SubscriptionsPage, SubscriptionPage,
         InvoicesPage, InvoicePage, PaymentsPage, ApprovalsPage
<1>3. /\ Fine(MySubmissionsPage) /\ Fine(ApprovalPage) /\ Fine(AuditPage)
      /\ Fine(OperationsPage) /\ Fine(BackupsPage) /\ Fine(SettingsPage)
      /\ Fine(BillingConfigPage) /\ Fine(AppearancePage) /\ Fine(KycConfigPage)
      /\ Fine(RateLimitsPage) /\ Fine(SecurityPage) /\ Fine(PreferencesPage)
      /\ Fine(TemplatesPage) /\ Fine(EventsPage)
  BY TenantControlsSound, PlatformControlsSound
     DEF Screen, MySubmissionsPage, ApprovalPage, AuditPage, OperationsPage,
         BackupsPage, SettingsPage, BillingConfigPage, AppearancePage,
         KycConfigPage, RateLimitsPage, SecurityPage, PreferencesPage,
         TemplatesPage, EventsPage
<1> HIDE DEF Fine
<1>4. \A name \in DOMAIN PlatformScreens : Fine(PlatformScreens[name])
  BY <1>1, <1>2, <1>3 DEF PlatformScreens
<1> QED
  BY <1>4 DEF Fine

\* The same of the other areas, whose pages ask for a session only.
LEMMA AreaScreensSound ==
    \A name \in DOMAIN AreaScreens :
        /\ AreaScreens[name].refused = "missing"
        /\ AreaScreens[name].guard = "open"
        /\ AreaScreens[name].reads = "any"
        /\ \A c \in AreaScreens[name].controls : Sound(c, Controls[c])
BY OfficeControlsSound, CreditControlsSound
   DEF AreaScreens, AreaScreen, Screen, TenantApprovalPage, NewMemberPage,
       MemberPage, KycSubmissionPage, OrganizationKycPage,
       MemberKycRequirementsPage, TenantPreferencesPage, NewSavingsProductPage,
       NewSavingsAccountPage, SavingsAccountPage, NewShareProductPage,
       NewShareAccountPage, ShareAccountPage, NewFeeTypePage, FeeTypePage,
       NewAssessmentPage, AssessmentPage, NewAccountPage, NewJournalEntryPage,
       NewLoanProductPage, LoanProductPage, NewApplicationPage, ApplicationPage,
       LoanPage, NewPayrollBatchPage, PayrollBatchPage, MemberLoansPage,
       MemberProfilePage, MemberPreferencesPage

\* The pages by the role they need.
OpenPages == {"dashboard", "tenants", "archivedTenants", "tenant", "impersonate",
    "users", "user", "approvals", "mySubmissions", "approval"}
FinancePages == {"plans", "plan", "subscriptions", "subscription", "invoices",
    "invoice", "payments"}
AdminPages == {"editTenant", "suspendTenant", "assignPlan", "tenantAudit",
    "tenantUsers", "newTenantUser", "tenantUser", "editTenantUser", "newPlan",
    "editPlan", "audit", "operations", "settings", "billingConfig", "appearance",
    "kycConfig", "rateLimits", "preferences", "templates", "events"}
SuperuserPages == {"newTenant", "newUser", "editUser", "backups", "security"}

\* The page opens for this role, with what it is about.
Admits(name, r) ==
    /\ UserHasPermission(r, PlatformScreens[name].guard)
    /\ AtLeast(r, PlatformScreens[name].reads)

\* Every page opens for the roles of its group.
LEMMA WhoIsAdmitted ==
    /\ \A name \in OpenPages : \A r \in Roles : Admits(name, r)
    /\ \A name \in FinancePages : \A r \in Roles \ {"support"} : Admits(name, r)
    /\ \A name \in AdminPages : \A r \in {"admin", "superuser"} : Admits(name, r)
    /\ \A name \in SuperuserPages : \A r \in {"superuser"} : Admits(name, r)
<1> DEFINE Opens(s, r) == UserHasPermission(r, s.guard) /\ AtLeast(r, s.reads)
<1>1. \A r \in Roles :
         /\ Opens(PlatformDashboard, r) /\ Opens(TenantsPage, r)
         /\ Opens(ArchivedTenantsPage, r) /\ Opens(TenantPage, r)
         /\ Opens(ImpersonatePage, r) /\ Opens(UsersPage, r) /\ Opens(UserPage, r)
         /\ Opens(ApprovalsPage, r) /\ Opens(MySubmissionsPage, r)
         /\ Opens(ApprovalPage, r)
  BY DEF UserHasPermission, AtLeast, PermissionMinRole, RoleRank, Roles, Screen,
         PlatformDashboard, TenantsPage, ArchivedTenantsPage, TenantPage,
         ImpersonatePage, UsersPage, UserPage, ApprovalsPage, MySubmissionsPage,
         ApprovalPage
<1>2. \A r \in Roles \ {"support"} :
         /\ Opens(PlansPage, r) /\ Opens(PlanPage, r)
         /\ Opens(SubscriptionsPage, r) /\ Opens(SubscriptionPage, r)
         /\ Opens(InvoicesPage, r) /\ Opens(InvoicePage, r)
         /\ Opens(PaymentsPage, r)
  BY DEF UserHasPermission, AtLeast, PermissionMinRole, RoleRank, Roles, Screen,
         PlansPage, PlanPage, SubscriptionsPage, SubscriptionPage, InvoicesPage,
         InvoicePage, PaymentsPage
<1>3. \A r \in {"admin", "superuser"} :
         /\ Opens(EditTenantPage, r) /\ Opens(SuspendTenantPage, r)
         /\ Opens(AssignPlanPage, r) /\ Opens(TenantAuditPage, r)
         /\ Opens(TenantUsersPage, r) /\ Opens(NewTenantUserPage, r)
         /\ Opens(TenantUserPage, r) /\ Opens(EditTenantUserPage, r)
         /\ Opens(NewPlanPage, r) /\ Opens(EditPlanPage, r) /\ Opens(AuditPage, r)
         /\ Opens(OperationsPage, r) /\ Opens(SettingsPage, r)
         /\ Opens(BillingConfigPage, r) /\ Opens(AppearancePage, r)
         /\ Opens(KycConfigPage, r) /\ Opens(RateLimitsPage, r)
         /\ Opens(PreferencesPage, r) /\ Opens(TemplatesPage, r)
         /\ Opens(EventsPage, r)
  BY DEF UserHasPermission, AtLeast, PermissionMinRole, RoleRank, Roles, Screen,
         EditTenantPage, SuspendTenantPage, AssignPlanPage, TenantAuditPage,
         TenantUsersPage, NewTenantUserPage, TenantUserPage, EditTenantUserPage,
         NewPlanPage, EditPlanPage, AuditPage, OperationsPage, SettingsPage,
         BillingConfigPage, AppearancePage, KycConfigPage, RateLimitsPage,
         PreferencesPage, TemplatesPage, EventsPage
<1>4. \A r \in {"superuser"} :
         /\ Opens(NewTenantPage, r) /\ Opens(NewUserPage, r)
         /\ Opens(EditUserPage, r) /\ Opens(BackupsPage, r)
         /\ Opens(SecurityPage, r)
  BY DEF UserHasPermission, AtLeast, PermissionMinRole, RoleRank, Roles, Screen,
         NewTenantPage, NewUserPage, EditUserPage, BackupsPage, SecurityPage
<1> HIDE DEF Opens
<1>5. \A name \in OpenPages : \A r \in Roles : Opens(PlatformScreens[name], r)
  BY <1>1 DEF PlatformScreens, OpenPages
<1>6. \A name \in FinancePages : \A r \in Roles \ {"support"} :
        Opens(PlatformScreens[name], r)
  BY <1>2 DEF PlatformScreens, FinancePages
<1>7. \A name \in AdminPages : \A r \in {"admin", "superuser"} :
        Opens(PlatformScreens[name], r)
  BY <1>3 DEF PlatformScreens, AdminPages
<1>8. \A name \in SuperuserPages : \A r \in {"superuser"} : Opens(PlatformScreens[name], r)
  BY <1>4 DEF PlatformScreens, SuperuserPages
<1> QED
  BY <1>5, <1>6, <1>7, <1>8 DEF Admits, Opens

\* Who has a permission.
LEMMA WhoHas ==
    /\ \A r \in Roles : UserHasPermission(r, "billing.read") => r # "support"
    /\ \A p \in {"platform.tenants.write", "platform.tenants.users.read",
                 "platform.tenants.users.write", "billing.write", "audit.read",
                 "operations.read", "settings.read"} :
         \A r \in Roles : UserHasPermission(r, p) => r \in {"admin", "superuser"}
    /\ \A p \in {"platform.users.write", "platform.tenants.create",
                 "platform.security.jwt_keys.read"} :
         \A r \in Roles : UserHasPermission(r, p) => r = "superuser"
BY DEF UserHasPermission, AtLeast, PermissionMinRole, RoleRank, Roles

\* The pages with links of their own, by their guards.
LEMMA GuardOf ==
    /\ \A name \in BillingPages : PlatformScreens[name].guard = "billing.read"
    /\ \A name \in {"settings", "billingConfig"} :
         PlatformScreens[name].guard = "settings.read"
    /\ PlatformScreens["tenantUsers"].guard = "platform.tenants.users.read"
    /\ PlatformScreens["operations"].guard = "operations.read"
<1>1. /\ PlansPage.guard = "billing.read" /\ SubscriptionsPage.guard = "billing.read"
      /\ InvoicesPage.guard = "billing.read" /\ PaymentsPage.guard = "billing.read"
      /\ SettingsPage.guard = "settings.read" /\ BillingConfigPage.guard = "settings.read"
      /\ TenantUsersPage.guard = "platform.tenants.users.read"
      /\ OperationsPage.guard = "operations.read"
  BY DEF Screen, PlansPage, SubscriptionsPage, InvoicesPage, PaymentsPage, SettingsPage,
         BillingConfigPage, TenantUsersPage, OperationsPage
<1> QED
  BY <1>1 DEF PlatformScreens, BillingPages

\* Every role that is shown the link is admitted to its page.
Leads(l) == \A r \in Roles : UserHasPermission(r, l.perm) => Admits(l.to, r)

\* The sidebar, two of its entries apart.
LEMMA SidebarLeads ==
    \A l \in PlatformNav : l \notin LooseLinks => Leads(l)
<1> USE DEF Link, Leads
<1>1. \A l \in BillingNav : Leads(l)
  BY WhoIsAdmitted, WhoHas DEF BillingNav, BillingPages, FinancePages
<1>2. \A to \in {"rateLimits", "preferences", "templates", "events", "kycConfig",
                 "billingConfig", "appearance"} :
        Leads(Link("sidebar", to, "settings.read"))
  BY WhoIsAdmitted, WhoHas DEF AdminPages
<1>3. /\ Leads(Link("sidebar", "dashboard", "open"))
      /\ Leads(Link("sidebar", "tenants", "platform.tenants.read"))
      /\ Leads(Link("sidebar", "users", "platform.users.read"))
      /\ Leads(Link("sidebar", "approvals", "approvals.read"))
      /\ Leads(Link("sidebar", "audit", "audit.read"))
  BY WhoIsAdmitted, WhoHas DEF OpenPages, AdminPages
<1> HIDE DEF Link, Leads
<1> QED
  BY <1>1, <1>2, <1>3 DEF PlatformNav, LooseLinks

\* The links between the pages of tenants.
LEMMA TenantLinksLead ==
    \A l \in RecentLists \cup TenantsPageLinks \cup TenantsTable \cup ArchivedTenantsTable
             \cup TenantDetailLinks \cup TenantActionLinks \cup TenantUsersPageLinks
             \cup TenantUsersTable \cup TenantUserPageLinks : Leads(l)
BY WhoIsAdmitted, WhoHas, GuardOf
   DEF Leads, Link, From, RecentLists, TenantsPageLinks, TenantsTable, ArchivedTenantsTable,
       TenantDetailLinks, TenantActionLinks, TenantUsersPageLinks, TenantUsersTable,
       TenantUserPageLinks, OpenPages, FinancePages, AdminPages, SuperuserPages

\* The links between the other pages.
LEMMA OtherLinksLead ==
    \A l \in UsersPageLinks \cup UsersTable \cup UserDetailLinks \cup PlansPageLinks
             \cup PlansTable \cup PlanPageLinks \cup SubscriptionsTable \cup InvoicesTable
             \cup PendingPaymentsLinks \cup BillingTabs \cup ApprovalsPageLinks
             \cup ApprovalsTable \cup OperationsLinks \cup SettingsLinks
             \cup BillingConfigLinks : Leads(l)
<1>1. \A l \in UsersPageLinks \cup UsersTable \cup UserDetailLinks \cup ApprovalsPageLinks
             \cup ApprovalsTable \cup OperationsLinks \cup SettingsLinks
             \cup BillingConfigLinks : Leads(l)
  BY WhoIsAdmitted, WhoHas, GuardOf
     DEF Leads, Link, From, UsersPageLinks, UsersTable, UserDetailLinks, ApprovalsPageLinks,
         ApprovalsTable, OperationsLinks,
         SettingsLinks, BillingConfigLinks, OpenPages, FinancePages, AdminPages, SuperuserPages
<1>2. \A l \in PlansPageLinks \cup PlansTable \cup PlanPageLinks \cup SubscriptionsTable
             \cup InvoicesTable \cup PendingPaymentsLinks \cup BillingTabs : Leads(l)
  BY WhoIsAdmitted, WhoHas, GuardOf
     DEF Leads, Link, From, PlansPageLinks, PlansTable, PlanPageLinks, SubscriptionsTable,
         InvoicesTable, PendingPaymentsLinks,
         BillingTabs, BillingPages, FinancePages, AdminPages
<1> QED
  BY <1>1, <1>2

\* A link that is not one of the loose ones opens its page.
LEMMA LinksLead ==
    ASSUME NEW l \in PlatformLinks, l \notin LooseLinks
    PROVE  Leads(l)
BY SidebarLeads, TenantLinksLead, OtherLinksLead DEF PlatformLinks, LooseLinks

\* Where links are, and the permissions they ask for.
Permissions == {"open", "platform.users.read", "platform.tenants.read", "approvals.read",
    "impersonation.start", "billing.read", "platform.tenants.write",
    "platform.tenants.users.read", "platform.tenants.users.write", "billing.write",
    "audit.read", "operations.read", "settings.read", "platform.users.write",
    "platform.tenants.create", "platform.security.jwt_keys.read"}

\* A link of the platform leads to one of its screens.
LinkShaped(l) ==
    /\ l.from # "area"
    /\ l.to \in DOMAIN PlatformScreens
    /\ l.perm \in Permissions

\* The links of the platform are of that shape, and those of the palette say
\* so.
LEMMA LinkShape ==
    /\ \A l \in PlatformLinks : LinkShaped(l)
    /\ \A l \in NavActions : l.from = "palette"
<1>1. OpenPages \cup FinancePages \cup AdminPages \cup SuperuserPages
        \subseteq DOMAIN PlatformScreens
  BY DEF OpenPages, FinancePages, AdminPages, SuperuserPages, PlatformScreens
<1>2. \A name \in {"dashboard", "tenants", "archivedTenants", "users", "approvals",
                   "mySubmissions"} :
         PlatformScreens[name].guard \in Permissions
  <2>1. /\ PlatformDashboard.guard \in Permissions /\ TenantsPage.guard \in Permissions
        /\ ArchivedTenantsPage.guard \in Permissions /\ UsersPage.guard \in Permissions
        /\ ApprovalsPage.guard \in Permissions /\ MySubmissionsPage.guard \in Permissions
    BY DEF Screen, PlatformDashboard, TenantsPage, ArchivedTenantsPage, UsersPage,
           ApprovalsPage, MySubmissionsPage, Permissions
  <2> QED
    BY <2>1 DEF PlatformScreens
<1>3. \A l \in PlatformNav : LinkShaped(l)
  BY <1>1 DEF PlatformNav, BillingNav, BillingPages, Link, LinkShaped, Permissions,
              OpenPages, FinancePages, AdminPages, SuperuserPages
<1>4. \A l \in NavActions : LinkShaped(l) /\ l.from = "palette"
  <2> SUFFICES ASSUME NEW n \in PlatformNav,
                      NEW l, l = [n EXCEPT !.from = "palette", !.perm = "open"]
               PROVE  LinkShaped(l) /\ l.from = "palette"
    BY DEF NavActions
  <2>1. n \in {[from |-> "sidebar", to |-> n.to, perm |-> n.perm]}
    BY DEF PlatformNav, BillingNav, Link
  <2> QED
    BY <1>3, <2>1 DEF LinkShaped, Permissions
<1>5. \A l \in DashboardLinks \cup RecentLists \cup TenantsPageLinks \cup TenantsTable
             \cup ArchivedTenantsTable \cup TenantDetailLinks \cup TenantActionLinks
             \cup TenantUsersPageLinks \cup TenantUsersTable \cup TenantUserPageLinks : LinkShaped(l)
  BY <1>1, <1>2, GuardOf
     DEF LinkShaped, Permissions, Link, From, DashboardLinks, RecentLists,
         TenantsPageLinks, TenantsTable, ArchivedTenantsTable, TenantDetailLinks,
         TenantActionLinks, TenantUsersPageLinks, TenantUsersTable, TenantUserPageLinks,
         OpenPages, FinancePages, AdminPages, SuperuserPages
<1>6. \A l \in UsersPageLinks \cup UsersTable \cup UserDetailLinks \cup ApprovalsPageLinks
             \cup ApprovalsTable \cup OperationsLinks \cup SettingsLinks
             \cup BillingConfigLinks : LinkShaped(l)
  BY <1>1, <1>2, GuardOf
     DEF LinkShaped, Permissions, Link, From, UsersPageLinks, UsersTable,
         UserDetailLinks, ApprovalsPageLinks, ApprovalsTable, OperationsLinks,
         SettingsLinks, BillingConfigLinks, OpenPages, FinancePages, AdminPages, SuperuserPages
<1>7. \A l \in PlansPageLinks \cup PlansTable \cup PlanPageLinks \cup SubscriptionsTable
             \cup InvoicesTable \cup PendingPaymentsLinks \cup BillingTabs : LinkShaped(l)
  BY <1>1, <1>2, GuardOf
     DEF LinkShaped, Permissions, Link, From, PlansPageLinks, PlansTable,
         PlanPageLinks, SubscriptionsTable, InvoicesTable, PendingPaymentsLinks,
         BillingTabs, BillingPages, FinancePages, AdminPages
<1> QED
  BY <1>3, <1>4, <1>5, <1>6, <1>7 DEF PlatformLinks

\* Some link that is not the palette's leads to every platform screen with controls.
LEMMA SomeWay ==
    ASSUME NEW name \in DOMAIN PlatformScreens, PlatformScreens[name].controls # {}
    PROVE  \E l \in PlatformLinks \ NavActions : l.to = name
<1>1. /\ PlatformDashboard.controls = {} /\ TenantsPage.controls = {}
      /\ ArchivedTenantsPage.controls = {} /\ TenantAuditPage.controls = {}
      /\ TenantUsersPage.controls = {} /\ UsersPage.controls = {}
      /\ UserPage.controls = {} /\ PlansPage.controls = {}
      /\ PlanPage.controls = {} /\ SubscriptionsPage.controls = {}
      /\ InvoicesPage.controls = {} /\ ApprovalsPage.controls = {}
      /\ MySubmissionsPage.controls = {} /\ AuditPage.controls = {}
      /\ OperationsPage.controls = {} /\ SettingsPage.controls = {}
      /\ BillingConfigPage.controls = {} /\ AppearancePage.controls = {}
      /\ RateLimitsPage.controls = {} /\ SecurityPage.controls = {}
  BY DEF Screen, PlatformDashboard, TenantsPage, ArchivedTenantsPage,
         TenantAuditPage, TenantUsersPage, UsersPage, UserPage, PlansPage, PlanPage,
         SubscriptionsPage, InvoicesPage, ApprovalsPage, MySubmissionsPage,
         AuditPage, OperationsPage, SettingsPage, BillingConfigPage, AppearancePage,
         RateLimitsPage, SecurityPage
<1>2. name \in {"newTenant", "tenant", "editTenant", "suspendTenant", "assignPlan",
               "impersonate", "newTenantUser", "tenantUser", "editTenantUser", "newUser",
               "editUser", "newPlan", "editPlan", "subscription", "invoice",
               "payments", "approval", "backups", "kycConfig", "preferences",
               "templates", "events"}
  BY <1>1 DEF PlatformScreens
<1>3. \A n \in {"payments", "backups", "kycConfig", "preferences", "templates", "events"} :
         \E l \in PlatformNav : l.to = n /\ l.from # "palette"
  <2>1. Link("sidebar", "payments", "billing.read") \in PlatformNav
    BY DEF PlatformNav, BillingNav, BillingPages
  <2>2. /\ Link("sidebar", "backups", "operations.read") \in PlatformNav
        /\ \A to \in {"kycConfig", "preferences", "templates", "events"} :
             Link("sidebar", to, "settings.read") \in PlatformNav
    BY DEF PlatformNav
  <2> QED
    BY <2>1, <2>2 DEF Link
<1>4. /\ \A n \in {"editTenant", "suspendTenant", "assignPlan", "impersonate"} :
           \E l \in TenantActionLinks : l.to = n /\ l.from # "palette"
      /\ \A n \in {"tenant", "invoice"} :
           \E l \in RecentLists : l.to = n /\ l.from # "palette"
  BY DEF TenantActionLinks, RecentLists, Link
<1>5. \A here, to : Link(here, to, PlatformScreens[here].guard) \in From(here, {to})
  BY DEF From
<1>6. /\ \E l \in TenantsPageLinks : l.to = "newTenant" /\ l.from # "palette"
      /\ \E l \in TenantUsersPageLinks : l.to = "newTenantUser" /\ l.from # "palette"
      /\ \E l \in TenantUsersTable : l.to = "tenantUser" /\ l.from # "palette"
      /\ \E l \in TenantUserPageLinks : l.to = "editTenantUser" /\ l.from # "palette"
  <2>1. Link("tenants", "newTenant", "platform.tenants.create") \in TenantsPageLinks
    BY DEF TenantsPageLinks
  <2>2. Link("tenantUsers", "tenantUser", PlatformScreens["tenantUsers"].guard)
          \in TenantUsersTable
    BY <1>5 DEF TenantUsersTable
  <2> QED
    BY <2>1, <2>2 DEF TenantUsersPageLinks, TenantUserPageLinks, Link
<1>7. /\ \E l \in UsersPageLinks : l.to = "newUser" /\ l.from # "palette"
      /\ \E l \in UserDetailLinks : l.to = "editUser" /\ l.from # "palette"
      /\ \E l \in PlansPageLinks : l.to = "newPlan" /\ l.from # "palette"
      /\ \E l \in PlanPageLinks : l.to = "editPlan" /\ l.from # "palette"
      /\ \E l \in SubscriptionsTable : l.to = "subscription" /\ l.from # "palette"
      /\ \E l \in ApprovalsTable : l.to = "approval" /\ l.from # "palette"
  <2>1. /\ Link("subscriptions", "subscription", PlatformScreens["subscriptions"].guard)
             \in SubscriptionsTable
        /\ Link("approvals", "approval", PlatformScreens["approvals"].guard)
             \in ApprovalsTable
    BY <1>5 DEF SubscriptionsTable, ApprovalsTable
  <2> QED
    BY <2>1 DEF UsersPageLinks, UserDetailLinks, PlansPageLinks, PlanPageLinks, Link
<1>8. PICK l : /\ l.to = name /\ l.from # "palette"
                 /\ l \in PlatformNav \cup TenantActionLinks \cup RecentLists
                         \cup TenantsPageLinks \cup TenantUsersPageLinks
                         \cup TenantUsersTable \cup TenantUserPageLinks
                         \cup UsersPageLinks \cup UserDetailLinks \cup PlansPageLinks
                         \cup PlanPageLinks \cup SubscriptionsTable \cup ApprovalsTable
  BY <1>2, <1>3, <1>4, <1>6, <1>7
<1> QED
  BY <1>8, LinkShape DEF PlatformLinks

\* The way taken to a screen with controls is one of its links.
LEMMA WayIsLink ==
    ASSUME NEW name \in DOMAIN PlatformScreens, PlatformScreens[name].controls # {}
    PROVE  WayTo(name) \in PlatformLinks /\ WayTo(name).to = name
<1> DEFINE ways == {l \in PlatformLinks \ NavActions : l.to = name}
           Rank(l) == RoleRank(PermissionMinRole(l.perm))
<1>1. \A p \in Permissions : RoleRank(PermissionMinRole(p)) \in 0..4
  BY DEF Permissions, PermissionMinRole, RoleRank
<1>2. \A l \in ways : Rank(l) \in 0..4
  BY <1>1, LinkShape DEF LinkShaped
<1>3. ways # {}
  BY SomeWay
<1> HIDE DEF ways, Rank
<1>4. \E l \in ways : \A o \in ways : Rank(l) >= Rank(o)
  <2>1. ASSUME NEW n \in 0..4, \E l \in ways : Rank(l) = n, \A l \in ways : Rank(l) <= n
        PROVE  \E l \in ways : \A o \in ways : Rank(l) >= Rank(o)
    BY <2>1, <1>2
  <2> QED
    BY <2>1, <1>2, <1>3
<1> QED
  BY <1>4 DEF WayTo, AtLeast, ways, Rank

-----------------------------------------------------------------------------
(* A behaviour: one link, one control. *)

\* What the control in use and the way to it are; it never changes.
Static ==
    /\ Sound(control, Ctl)
    /\ screen.refused \in {"missing", "hollow"}
    /\ link \notin LooseLinks =>
         \A r \in Roles : UserHasPermission(r, link.perm) =>
             UserHasPermission(r, screen.guard) /\ AtLeast(r, screen.reads)

\* A screen looked at only has no control that could go wrong.
LEMMA NoControlSound == Sound("none", NoControl)
BY DEF NoControl, PreferencesPut, Overwrite, Direct, Control, Sound, Acts, Ends, Protected,
       Honest, Narrow, Kept, Lives, AccountLife, Life, UserHasPermission, AtLeast,
       PermissionMinRole, RoleRank, Roles

\* Whatever link and control a behaviour takes, they are sound.
LEMMA StaticInit == Init => Static
<1> SUFFICES ASSUME Init
             PROVE  Static
  OBVIOUS
<1>1. ASSUME NEW l \in PlatformLinks, link = l
      PROVE  /\ screen = PlatformScreens[l.to] /\ l.to \in DOMAIN PlatformScreens
             /\ screen.refused \in {"missing", "hollow"}
             /\ link \notin LooseLinks =>
                  \A r \in Roles : UserHasPermission(r, link.perm) =>
                      UserHasPermission(r, screen.guard) /\ AtLeast(r, screen.reads)
  <2>1. l.from # "area" /\ l.to \in DOMAIN PlatformScreens
    BY LinkShape DEF LinkShaped
  <2>2. screen = PlatformScreens[l.to]
    BY <1>1, <2>1 DEF screen
  <2>3. screen.refused \in {"missing", "hollow"}
    BY <2>1, <2>2, PlatformScreensSound
  <2> QED
    BY <1>1, <2>1, <2>2, <2>3, LinksLead DEF Leads, Admits
<1>2. CASE \E l \in PlatformLinks : link = l /\ control = "none"
  BY <1>1, <1>2, NoControlSound DEF Static, Ctl
<1>3. ASSUME NEW name \in DOMAIN PlatformScreens, NEW c \in PlatformScreens[name].controls,
             link = WayTo(name), control = c
      PROVE  Static
  <2>1. WayTo(name) \in PlatformLinks
    BY WayIsLink
  <2>2. Sound(c, Controls[c])
    BY PlatformScreensSound
  <2> QED
    BY <1>1, <1>3, <2>1, <2>2, NoControlSound DEF Static, Ctl
<1>4. ASSUME NEW name \in DOMAIN AreaScreens, NEW c \in AreaScreens[name].controls,
             link = AreaLink(name), control = c
      PROVE  Static
  <2>1. screen = AreaScreens[name]
    BY <1>4 DEF AreaLink, Link, screen
  <2>2. Sound(c, Controls[c])
    BY AreaScreensSound
  <2>3. /\ screen.refused \in {"missing", "hollow"}
        /\ screen.guard = "open" /\ screen.reads = "any"
    BY <2>1, AreaScreensSound
  <2>4. \A r \in Roles : UserHasPermission(r, "open") /\ AtLeast(r, "any")
    BY DEF UserHasPermission, AtLeast, PermissionMinRole, RoleRank, Roles
  <2> QED
    BY <1>4, <2>2, <2>3, <2>4, NoControlSound DEF Static, Ctl
<1> QED
  BY <1>2, <1>3, <1>4 DEF Init

\* No step changes the link or the control.
LEMMA StaticStep ==
    ASSUME Static, [Next]_vars
    PROVE  Static' /\ UNCHANGED what /\ Ctl' = Ctl /\ screen' = screen
<1>1. UNCHANGED what
  BY DEF Next, vars, what, Visit, Leave, Open, Ask, Dismiss, Submit, Rerender, Return, Lose,
         Serve, Execute, Reject, Move, ChangeRole
<1>2. Ctl' = Ctl /\ screen' = screen
  BY <1>1 DEF what, Ctl, screen
<1> QED
  BY <1>1, <1>2 DEF Static, what

-----------------------------------------------------------------------------
(* Calls and requests. *)

\* The states of the object the control is on.
States == Lives[Ctl.on].states

\* Keys are of a visit or of a call.
KeySet == {"mount", "call"} \X Nat

\* What a call is made of, on an object with states S.
CallSet(S) ==
    [intent : Intents, mount : Nat, key : KeySet, as : Roles, showing : S,
     srv : {"sent", "ok", "refused", "stale"}, early : BOOLEAN, answer : S,
     cli : {"waiting", "done", "failed"}]

\* What a request is made of.
ReqSet ==
    [intent : Intents, key : KeySet,
     state : {"pending", "executed", "execution_failed", "rejected"}, early : BOOLEAN]

\* What a call is from the start.
SameCall(c, d) ==
    /\ d.intent = c.intent /\ d.mount = c.mount /\ d.key = c.key
    /\ d.as = c.as /\ d.showing = c.showing

\* One element of a sequence is replaced.
LEMMA EditSeq ==
    ASSUME NEW R, NEW s \in Seq(R), NEW i \in DOMAIN s, NEW r \in R,
           NEW t, t = [s EXCEPT ![i] = r]
    PROVE  /\ t \in Seq(R) /\ Len(t) = Len(s) /\ DOMAIN t = DOMAIN s
           /\ \A j \in DOMAIN s : t[j] = IF j = i THEN r ELSE s[j]
OBVIOUS

\* Every element of a sequence is replaced.
LEMMA MapSeq ==
    ASSUME NEW R, NEW s \in Seq(R), NEW t, t = [j \in DOMAIN s |-> t[j]],
           \A j \in DOMAIN s : t[j] \in R
    PROVE  t \in Seq(R) /\ Len(t) = Len(s) /\ DOMAIN t = DOMAIN s
<1>1. Len(s) \in Nat /\ DOMAIN s = 1..Len(s)
  OBVIOUS
<1>2. t \in [1..Len(s) -> R]
  BY <1>1
<1>3. t \in Seq(R)
  BY <1>1, <1>2
<1> QED
  BY <1>1, <1>2, <1>3

\* Call i is marked in the browser.
LEMMA MarkCli ==
    ASSUME NEW S, calls \in Seq(CallSet(S)), NEW i \in DOMAIN calls,
           NEW v \in {"done", "failed"}, calls' = [calls EXCEPT ![i].cli = v]
    PROVE  /\ calls' \in Seq(CallSet(S))
           /\ Len(calls') = Len(calls) /\ DOMAIN calls' = DOMAIN calls
           /\ \A j \in DOMAIN calls :
                /\ SameCall(calls[j], calls'[j])
                /\ calls'[j].srv = calls[j].srv /\ calls'[j].answer = calls[j].answer
                /\ calls'[j].cli = IF j = i THEN v ELSE calls[j].cli
<1> DEFINE r == [calls[i] EXCEPT !.cli = v]
<1>1. calls[i] \in CallSet(S)
  OBVIOUS
<1>2. /\ r \in CallSet(S) /\ SameCall(calls[i], r) /\ r.cli = v
      /\ r.srv = calls[i].srv /\ r.answer = calls[i].answer
  BY <1>1 DEF CallSet, SameCall
<1>3. calls' = [calls EXCEPT ![i] = r]
  OBVIOUS
<1> HIDE DEF r
<1> QED
  BY <1>2, <1>3, EditSeq DEF SameCall

\* Call i is refused.
LEMMA MarkRefused ==
    ASSUME NEW S, calls \in Seq(CallSet(S)), NEW i \in DOMAIN calls,
           NEW v \in {"refused", "stale"}, calls' = [calls EXCEPT ![i].srv = v]
    PROVE  /\ calls' \in Seq(CallSet(S))
           /\ Len(calls') = Len(calls) /\ DOMAIN calls' = DOMAIN calls
           /\ \A j \in DOMAIN calls :
                /\ SameCall(calls[j], calls'[j])
                /\ calls'[j].srv = IF j = i THEN v ELSE calls[j].srv
                /\ calls'[j].answer = calls[j].answer /\ calls'[j].cli = calls[j].cli
<1> DEFINE r == [calls[i] EXCEPT !.srv = v]
<1>1. calls[i] \in CallSet(S)
  OBVIOUS
<1>2. /\ r \in CallSet(S) /\ SameCall(calls[i], r) /\ r.srv = v
      /\ r.cli = calls[i].cli /\ r.answer = calls[i].answer
  BY <1>1 DEF CallSet, SameCall
<1>3. calls' = [calls EXCEPT ![i] = r]
  OBVIOUS
<1> HIDE DEF r
<1> QED
  BY <1>2, <1>3, EditSeq DEF SameCall

\* Request q is marked.
LEMMA MarkReq ==
    ASSUME reqs \in Seq(ReqSet), NEW q \in DOMAIN reqs,
           NEW v \in {"executed", "execution_failed", "rejected"},
           reqs' = [reqs EXCEPT ![q].state = v]
    PROVE  /\ reqs' \in Seq(ReqSet)
           /\ Len(reqs') = Len(reqs) /\ DOMAIN reqs' = DOMAIN reqs
           /\ \A p \in DOMAIN reqs :
                /\ reqs'[p].intent = reqs[p].intent /\ reqs'[p].key = reqs[p].key
                /\ reqs'[p].state = IF p = q THEN v ELSE reqs[p].state
<1> DEFINE r == [reqs[q] EXCEPT !.state = v]
<1>1. reqs[q] \in ReqSet
  OBVIOUS
<1>2. r \in ReqSet /\ r.intent = reqs[q].intent /\ r.key = reqs[q].key /\ r.state = v
  BY <1>1 DEF ReqSet
<1>3. reqs' = [reqs EXCEPT ![q] = r]
  OBVIOUS
<1> HIDE DEF r
<1> QED
  BY <1>2, <1>3, EditSeq

\* Request q is executed, or fails, and those with its key may have looked it up.
LEMMA MarkExecuted ==
    ASSUME reqs \in Seq(ReqSet), NEW q \in DOMAIN reqs, Execute(q)
    PROVE  /\ reqs' \in Seq(ReqSet)
           /\ Len(reqs') = Len(reqs) /\ DOMAIN reqs' = DOMAIN reqs
           /\ \A p \in DOMAIN reqs :
                /\ reqs'[p].intent = reqs[p].intent /\ reqs'[p].key = reqs[p].key
                /\ p # q => reqs'[p].state = reqs[p].state
           /\ reqs'[q].state = IF obj \in Op.runs THEN "executed" ELSE "execution_failed"
<1> DEFINE v == IF obj \in Op.runs THEN "executed" ELSE "execution_failed"
<1>1. \A p \in DOMAIN reqs : reqs[p] \in ReqSet
  OBVIOUS
<1>2. v \in {"executed", "execution_failed"}
  OBVIOUS
<1>3. reqs' = [p \in DOMAIN reqs |-> reqs'[p]]
  BY DEF Execute
<1>4. ASSUME NEW p \in DOMAIN reqs
      PROVE  /\ reqs'[p] \in ReqSet
             /\ reqs'[p].intent = reqs[p].intent /\ reqs'[p].key = reqs[p].key
             /\ p # q => reqs'[p].state = reqs[p].state
             /\ p = q => reqs'[p].state = v
  <2> DEFINE c == reqs[p]
             d == reqs'[p]
             e == [c EXCEPT !.early = TRUE]
             f == [c EXCEPT !.state = v]
  <2>1. (p = q /\ d = f) \/ (p # q /\ (d = e \/ d = c))
    BY DEF Execute
  <2>2. c \in ReqSet
    BY <1>1
  <2> HIDE DEF c, d, v
  <2>3. /\ e \in ReqSet /\ e.intent = c.intent /\ e.key = c.key /\ e.state = c.state
        /\ f \in ReqSet /\ f.intent = c.intent /\ f.key = c.key /\ f.state = v
    BY <1>2, <2>2 DEF ReqSet
  <2> HIDE DEF e, f
  <2>4. /\ d \in ReqSet /\ d.intent = c.intent /\ d.key = c.key
        /\ p # q => d.state = c.state
        /\ p = q => d.state = v
    BY <2>1, <2>2, <2>3
  <2> QED
    BY <2>4 DEF c, d
<1> HIDE DEF v
<1>5. reqs' \in Seq(ReqSet) /\ Len(reqs') = Len(reqs) /\ DOMAIN reqs' = DOMAIN reqs
  BY <1>3, <1>4, MapSeq
<1> QED
  BY <1>4, <1>5 DEF v

-----------------------------------------------------------------------------
(* Shapes. *)

\* The shape of the state, with what TypeOK leaves open: calls and requests are
\* sequences of their records, and no intent has a higher number than its
\* calls.
Shape ==
    /\ role \in Roles /\ shell \in Roles /\ page \in Roles
    /\ obj \in States /\ seen \in States
    /\ at \in {"away", "page", "denied", "missing", "hollow"}
    /\ dialog \in {"closed", "form", "confirm"}
    /\ dialog # "closed" => at = "page"
    /\ mount \in 0..MaxMounts
    /\ calls \in Seq(CallSet(States)) /\ Len(calls) <= MaxCalls
    /\ \A i \in DOMAIN calls : calls[i].intent <= i
    /\ reqs \in Seq(ReqSet)
    /\ effects \in [Intents -> Nat]
    /\ recorded \subseteq KeySet
    /\ moves \in Nat

\* What a call and a request hold.
LEMMA Holds ==
    ASSUME Shape
    PROVE  /\ Len(calls) \in Nat /\ DOMAIN calls = 1..Len(calls)
           /\ \A i \in DOMAIN calls :
                /\ calls[i].intent \in Intents /\ calls[i].mount \in Nat
                /\ calls[i].key \in KeySet /\ calls[i].answer \in States
                /\ calls[i].srv \in {"sent", "ok", "refused", "stale"}
                /\ calls[i].cli \in {"waiting", "done", "failed"}
           /\ Len(reqs) \in Nat /\ DOMAIN reqs = 1..Len(reqs)
           /\ \A q \in DOMAIN reqs :
                /\ reqs[q].intent \in Intents /\ reqs[q].key \in KeySet
                /\ reqs[q].state \in
                     {"pending", "executed", "execution_failed", "rejected"}
<1>1. calls \in Seq(CallSet(States)) /\ reqs \in Seq(ReqSet)
  BY DEF Shape
<1>2. \A i \in DOMAIN calls : calls[i] \in CallSet(States)
  BY <1>1
<1>3. \A q \in DOMAIN reqs : reqs[q] \in ReqSet
  BY <1>1
<1>4. Len(calls) \in Nat /\ DOMAIN calls = 1..Len(calls)
  BY <1>1
<1>5. Len(reqs) \in Nat /\ DOMAIN reqs = 1..Len(reqs)
  BY <1>1
<1> QED
  BY <1>2, <1>3, <1>4, <1>5 DEF CallSet, ReqSet

\* The calls are those there were, in their browser's order; call i may have
\* been answered or served.
SameCalls ==
    /\ calls' \in Seq(CallSet(States))
    /\ Len(calls') = Len(calls) /\ DOMAIN calls' = DOMAIN calls
    /\ \A j \in DOMAIN calls : SameCall(calls[j], calls'[j])

\* What serving call i may come to.
Refused(i) ==
    /\ calls'[i].srv \in {"refused", "stale"}
    /\ calls'[i].srv = "refused" =>
         /\ Offered(calls[i].as, calls[i].showing)
         /\ \/ ~AtLeast(role, Op.role) /\ calls[i].as = role
            \/ obj \notin Op.accepts /\ calls[i].showing = obj /\ ~Creates
    /\ UNCHANGED <<obj, reqs, effects, recorded>>

\* The key of call i is known: nothing happens again.
Replayed(i) ==
    /\ Known(i)
    /\ calls'[i].srv = "ok" /\ calls'[i].answer = obj
    /\ UNCHANGED <<obj, reqs, effects, recorded>>

\* Call i is carried out.
Accepted(i) ==
    /\ Op.once = "key" => calls[i].key \notin recorded
    /\ obj \in Op.accepts
    /\ obj' \in States /\ obj' \in IF Op.applies THEN Becomes ELSE {obj}
    /\ calls'[i].srv = "ok" /\ calls'[i].answer = obj'
    /\ reqs' = IF Op.files THEN Append(reqs, [intent |-> calls[i].intent,
                                              key |-> calls[i].key, state |-> "pending",
                                              early |-> FALSE])
               ELSE reqs
    /\ effects' = IF Op.applies THEN Effect(calls[i].intent) ELSE effects
    /\ recorded' = IF Op.once \in {"key", "lookup"} THEN recorded \cup {calls[i].key} ELSE recorded

\* Others move an object within its life.
LEMMA LivesClosed ==
    \A kind \in DOMAIN Lives : \A m \in Lives[kind].moves : m[2] \in Lives[kind].states
BY DEF Lives, Life, RowLife, TenantLife, OffboardingLife, OrganizationKycLife,
       SubscriptionLife, InvoiceLife, PaymentLife, RequestLife, DeliveryLife, DrillLife,
       ImpersonationLife, MemberLife, SubmissionLife, ApplicationLife, GuarantorLife,
       LoanLife, AssessmentLife, BatchLife, AccountLife, OfferLife

\* An operation leaves the object in a state of its life.
LEMMA BecomesState ==
    ASSUME Static, Shape
    PROVE  Becomes \subseteq States
BY DEF Static, Sound, Acts, Shape, Becomes, States, Op

\* Two lists of calls that differ in what the API remembers of them only.
Alike(c, d) ==
    /\ Len(d) = Len(c) /\ DOMAIN d = DOMAIN c
    /\ \A j \in DOMAIN c :
         /\ SameCall(c[j], d[j])
         /\ d[j].srv = c[j].srv /\ d[j].answer = c[j].answer /\ d[j].cli = c[j].cli

\* The calls overtaken are the calls.
LEMMA OvertakenIs ==
    ASSUME calls \in Seq(CallSet(States)), NEW key
    PROVE  Overtaken(key) \in Seq(CallSet(States)) /\ Alike(calls, Overtaken(key))
<1> DEFINE t == Overtaken(key)
<1>1. \A j \in DOMAIN calls : calls[j] \in CallSet(States)
  OBVIOUS
<1>2. t = [j \in DOMAIN calls |-> t[j]]
  BY DEF Overtaken
<1>3. ASSUME NEW j \in DOMAIN calls
      PROVE  /\ t[j] \in CallSet(States) /\ SameCall(calls[j], t[j])
             /\ t[j].srv = calls[j].srv /\ t[j].answer = calls[j].answer
             /\ t[j].cli = calls[j].cli
  <2> DEFINE c == calls[j]
             e == [c EXCEPT !.early = TRUE]
  <2>1. t[j] = e \/ t[j] = c
    BY DEF Overtaken
  <2>2. c \in CallSet(States)
    BY <1>1
  <2> HIDE DEF c, t
  <2>3. /\ e \in CallSet(States) /\ SameCall(c, e)
        /\ e.srv = c.srv /\ e.answer = c.answer /\ e.cli = c.cli
    BY <2>2 DEF CallSet, SameCall
  <2> HIDE DEF e
  <2>4. /\ t[j] \in CallSet(States) /\ SameCall(c, t[j])
        /\ t[j].srv = c.srv /\ t[j].answer = c.answer /\ t[j].cli = c.cli
    BY <2>1, <2>2, <2>3 DEF SameCall
  <2> QED
    BY <2>4 DEF c
<1> HIDE DEF t
<1>4. t \in Seq(CallSet(States)) /\ Len(t) = Len(calls) /\ DOMAIN t = DOMAIN calls
  BY <1>2, <1>3, MapSeq
<1> QED
  BY <1>3, <1>4 DEF Alike, t

\* The API touches one call, which was not served, and refuses, replays or
\* accepts it.
LEMMA ServeIs ==
    ASSUME Static, Shape, NEW i \in DOMAIN calls, Serve(i)
    PROVE  /\ SameCalls
           /\ calls[i].srv = "sent"
           /\ \A j \in DOMAIN calls :
                /\ calls'[j].cli = calls[j].cli
                /\ j # i => calls'[j].srv = calls[j].srv /\ calls'[j].answer = calls[j].answer
           /\ Refused(i) \/ Replayed(i) \/ Accepted(i)
           /\ UNCHANGED <<what, role, shell, page, seen, at, dialog, mount, moves, moved,
                          refreshing>>
<1>0. calls \in Seq(CallSet(States)) /\ obj \in States
  BY DEF Shape
<1>1. ASSUME NEW stale \in BOOLEAN, Refuse(i, stale)
      PROVE  /\ SameCalls
             /\ \A j \in DOMAIN calls :
                  /\ calls'[j].cli = calls[j].cli
                  /\ j # i => calls'[j].srv = calls[j].srv /\ calls'[j].answer = calls[j].answer
             /\ calls'[i].srv \in {"refused", "stale"}
             /\ calls'[i].srv = "refused" =>
                  ~stale /\ Offered(calls[i].as, calls[i].showing)
             /\ UNCHANGED <<obj, reqs, effects, recorded>>
  <2> DEFINE v == IF stale \/ ~Offered(calls[i].as, calls[i].showing) THEN "stale"
                  ELSE "refused"
  <2>1. v \in {"refused", "stale"} /\ calls' = [calls EXCEPT ![i].srv = v]
    BY <1>1 DEF Refuse
  <2>2. v = "refused" => ~stale /\ Offered(calls[i].as, calls[i].showing)
    OBVIOUS
  <2> HIDE DEF v
  <2> QED
    BY <1>0, <1>1, <2>1, <2>2, MarkRefused DEF Refuse, SameCalls
<1>2. ASSUME NEW a \in States, NEW b \in Seq(CallSet(States)), Alike(calls, b),
             calls' = [b EXCEPT ![i].srv = "ok", ![i].answer = a]
      PROVE  /\ SameCalls
             /\ \A j \in DOMAIN calls :
                  /\ calls'[j].cli = calls[j].cli
                  /\ j # i => calls'[j].srv = calls[j].srv /\ calls'[j].answer = calls[j].answer
             /\ calls'[i].srv = "ok" /\ calls'[i].answer = a
  <2> DEFINE p == [b[i] EXCEPT !.srv = "ok"]
             r == [p EXCEPT !.answer = a]
             t == [b EXCEPT ![i] = p]
  <2>0. i \in DOMAIN b
    BY <1>2 DEF Alike
  <2>1. b[i] \in CallSet(States)
    BY <1>2, <2>0
  <2>2. /\ p \in CallSet(States) /\ SameCall(b[i], p) /\ p.cli = b[i].cli
        /\ p.srv = "ok" /\ p.answer = b[i].answer
    BY <2>1 DEF CallSet, SameCall
  <2>3. /\ r \in CallSet(States) /\ SameCall(b[i], r) /\ r.cli = b[i].cli
        /\ r.srv = "ok" /\ r.answer = a
    <3> HIDE DEF p
    <3> QED
      BY <2>2 DEF CallSet, SameCall
  <2>4. t \in Seq(CallSet(States)) /\ t[i] = p /\ i \in DOMAIN t
    <3> HIDE DEF p
    <3> QED
      BY <1>2, <2>0, <2>2, EditSeq
  <2>5. calls' = [t EXCEPT ![i] = r]
    BY <1>2, <2>4
  <2>6. \A j \in DOMAIN b : t[j] = IF j = i THEN p ELSE b[j]
    <3> HIDE DEF p
    <3> QED
      BY <1>2, <2>0, <2>2, EditSeq
  <2>7. Len(t) = Len(b) /\ DOMAIN t = DOMAIN b
    <3> HIDE DEF p
    <3> QED
      BY <1>2, <2>0, <2>2, EditSeq
  <2> HIDE DEF r, p, t
  <2>8. \A u : u = [t EXCEPT ![i] = r] =>
          /\ u \in Seq(CallSet(States)) /\ Len(u) = Len(t) /\ DOMAIN u = DOMAIN t
          /\ \A j \in DOMAIN t : u[j] = IF j = i THEN r ELSE t[j]
    BY <2>3, <2>4, EditSeq
  <2>9. /\ calls' \in Seq(CallSet(States)) /\ Len(calls') = Len(b) /\ DOMAIN calls' = DOMAIN b
        /\ \A j \in DOMAIN b : calls'[j] = IF j = i THEN r ELSE b[j]
    BY <2>5, <2>6, <2>7, <2>8
  <2>10. SameCalls
    BY <1>2, <2>3, <2>9 DEF SameCall, SameCalls, Alike
  <2> QED
    BY <1>2, <2>0, <2>3, <2>9, <2>10 DEF Alike
<1>3. CASE ~AtLeast(role, Op.role)
  <2>1. Refuse(i, calls[i].as # role)
    BY <1>3 DEF Serve
  <2> QED
    BY <1>1, <1>3, <2>1 DEF Serve, Refused
<1>4. CASE AtLeast(role, Op.role) /\ Known(i) /\ Replay(i)
  <2>1. Alike(calls, calls)
    BY DEF Alike, SameCall
  <2> QED
    BY <1>0, <1>2, <1>4, <2>1 DEF Serve, Replay, Replayed
<1>5. CASE Refuse(i, TRUE)
  BY <1>1, <1>5 DEF Serve, Refused
<1>6. CASE /\ Act(i) /\ obj \notin Op.accepts
  <2>1. Refuse(i, calls[i].showing # obj \/ Creates)
    BY <1>6 DEF Act
  <2>2. (calls[i].showing # obj \/ Creates) \in BOOLEAN
    OBVIOUS
  <2> QED
    BY <1>1, <1>6, <2>1, <2>2 DEF Serve, Refused
<1>7. CASE /\ Act(i) /\ obj \in Op.accepts
           /\ Op.once = "key" => calls[i].key \notin recorded
  <2>1. PICK to \in (IF Op.applies THEN Becomes ELSE {obj}) : Accept(i, to)
    BY <1>7 DEF Act
  <2>2. to \in States
    BY <1>0, BecomesState
  <2>3. /\ Overtaken(calls[i].key) \in Seq(CallSet(States))
        /\ Alike(calls, Overtaken(calls[i].key))
    BY <1>0, OvertakenIs
  <2>4. calls' = [Overtaken(calls[i].key) EXCEPT ![i].srv = "ok", ![i].answer = to]
    BY <2>1 DEF Accept
  <2>5. /\ SameCalls
        /\ \A j \in DOMAIN calls :
             /\ calls'[j].cli = calls[j].cli
             /\ j # i => calls'[j].srv = calls[j].srv /\ calls'[j].answer = calls[j].answer
        /\ calls'[i].srv = "ok" /\ calls'[i].answer = to
    BY <1>2, <2>2, <2>3, <2>4
  <2>6. Accepted(i)
    BY <1>7, <2>1, <2>2, <2>5 DEF Accept, Accepted
  <2> QED
    BY <2>5, <2>6 DEF Serve
<1> QED
  BY <1>3, <1>4, <1>5, <1>6, <1>7 DEF Serve, Known

\* What an answer, or its loss, does to the calls.
Answered(i, v) ==
    /\ SameCalls
    /\ calls[i].cli = "waiting"
    /\ \A j \in DOMAIN calls :
         /\ calls'[j].srv = calls[j].srv /\ calls'[j].answer = calls[j].answer
         /\ calls'[j].cli = IF j = i THEN v ELSE calls[j].cli

\* An answer makes a waiting call done, if it was a success, or failed.
LEMMA ReturnIs ==
    ASSUME Shape, NEW i \in DOMAIN calls, Return(i) \/ Lose(i)
    PROVE  /\ \/ Answered(i, "done") /\ calls[i].srv = "ok" /\ Succeed(i)
              \/ Answered(i, "failed") /\ Failed(i)
           /\ UNCHANGED <<what, role, shell, page, obj, mount, reqs, effects, recorded,
                          moves, moved>>
<1>0. calls \in Seq(CallSet(States))
  BY DEF Shape
<1>1. ASSUME Succeed(i), calls[i].cli = "waiting"
      PROVE  Answered(i, "done")
  BY <1>0, <1>1, MarkCli DEF Succeed, Answered, SameCalls
<1>2. ASSUME Failed(i), calls[i].cli = "waiting"
      PROVE  Answered(i, "failed")
  BY <1>0, <1>2, MarkCli DEF Failed, Answered, SameCalls
<1> QED
  BY <1>1, <1>2 DEF Return, Lose

\* A submission adds one call at the end.
LEMMA SubmitIs ==
    ASSUME Shape, Submit
    PROVE  /\ Len(calls') = Len(calls) + 1 /\ Len(calls) \in Nat
           /\ DOMAIN calls' = 1..(Len(calls) + 1) /\ DOMAIN calls = 1..Len(calls)
           /\ \A j \in DOMAIN calls : calls'[j] = calls[j]
           /\ calls'[Len(calls) + 1] =
                [intent |-> Intent, mount |-> mount, key |-> Key, as |-> page,
                 showing |-> seen, srv |-> "sent", early |-> FALSE, answer |-> seen,
                 cli |-> "waiting"]
           /\ Len(calls) < MaxCalls /\ at = "page" /\ ~Busy
           /\ UNCHANGED <<what, role, shell, page, obj, seen, at, dialog, mount, reqs,
                          effects, recorded, moves, moved, refreshing>>
BY DEF Shape, Submit

\* The calls in the order they were made: a later one is not of an earlier
\* visit or intent, one intent is of one visit, and the key is as the control
\* makes it.
Order ==
    /\ \A i \in DOMAIN calls : calls[i].mount <= mount
    /\ \A i, j \in DOMAIN calls : i <= j =>
         calls[i].intent <= calls[j].intent /\ calls[i].mount <= calls[j].mount
    /\ \A i, j \in DOMAIN calls :
         calls[i].intent = calls[j].intent => calls[i].mount = calls[j].mount
    /\ \A i \in DOMAIN calls :
         calls[i].key = IF Ctl.key = "mount" THEN <<"mount", calls[i].mount>>
                        ELSE <<"call", i>>

\* The browser believes in success only after one; one call of a visit is out
\* at a time; and a visit that success ends is a visit for one intent.
Answers ==
    /\ \A i \in DOMAIN calls : calls[i].cli = "done" => calls[i].srv = "ok"
    /\ \A i, j \in DOMAIN calls :
         calls[i].cli = "waiting" /\ calls[j].cli = "waiting"
           /\ calls[i].mount = mount /\ calls[j].mount = mount => i = j
    /\ refreshing => at = "page" /\ Ctl.done = "refresh"
    /\ Ctl.done = "leave" =>
         /\ \A i \in DOMAIN calls :
              calls[i].cli = "done" /\ calls[i].mount = mount => at # "page"
         /\ \A i, j \in DOMAIN calls :
              calls[i].mount = calls[j].mount => calls[i].intent = calls[j].intent

\* What the invariants of the properties rest on.
Base == Static /\ Shape /\ Order /\ Answers

\* At first nothing has been called.
LEMMA BaseInit == Init => Base
<1> SUFFICES ASSUME Init
             PROVE  Base
  OBVIOUS
<1>1. Static
  BY StaticInit
<1>2. Subjects \subseteq States
  BY <1>1 DEF Static, Sound, Acts, Subjects, Creates, States, Op
<1>3. role \in Roles
  BY DEF Init, Roles
<1>4. calls \in Seq(CallSet(States)) /\ Len(calls) = 0 /\ DOMAIN calls = {}
      /\ reqs \in Seq(ReqSet)
  BY DEF Init
<1>5. Shape
  BY <1>2, <1>3, <1>4, PortalAssumption DEF Init, Shape
<1>6. Order /\ Answers
  BY <1>4 DEF Init, Order, Answers
<1> QED
  BY <1>1, <1>5, <1>6 DEF Base

\* What a step leaves of the pages: whatever is rendered is a page or the lack of one.
LEMMA RenderedIs ==
    ASSUME Static
    PROVE  Rendered \in {"away", "page", "denied", "missing", "hollow"}
BY DEF Static, Rendered

\* Every step keeps the shape.
LEMMA ShapeStep ==
    ASSUME Static, Shape, [Next]_vars
    PROVE  Shape'
<1>0. Ctl' = Ctl /\ States' = States
  BY StaticStep DEF States
<1>1. CASE UNCHANGED vars
  BY <1>0, <1>1 DEF vars, Shape
<1>2. CASE Visit
  BY <1>0, <1>2, RenderedIs, PortalAssumption DEF Visit, Shape
<1>3. CASE Leave
  BY <1>0, <1>3 DEF Leave, Shape
<1>4. CASE Open \/ Ask \/ Dismiss
  BY <1>0, <1>4 DEF Open, Ask, Dismiss, Shown, Shape
<1>5. CASE Rerender
  BY <1>0, <1>5, RenderedIs DEF Rerender, Shape
<1>6. CASE Move \/ ChangeRole
  <2>1. obj' \in States /\ role' \in Roles /\ moves' \in Nat
    <3>1. CASE Move
      <4>1. Ctl.on \in DOMAIN Lives
        BY DEF Static, Sound, Acts
      <4> QED
        BY <3>1, <4>1, LivesClosed DEF Move, Shape, States
    <3>2. CASE ChangeRole
      BY <3>2 DEF ChangeRole, Shape
    <3> QED
      BY <1>6, <3>1, <3>2
  <2> QED
    BY <1>0, <1>6, <2>1 DEF Move, ChangeRole, Shape
<1>7. CASE Submit
  <2>1. /\ Len(calls') = Len(calls) + 1 /\ Len(calls) \in Nat
        /\ DOMAIN calls' = 1..(Len(calls) + 1) /\ DOMAIN calls = 1..Len(calls)
        /\ \A j \in DOMAIN calls : calls'[j] = calls[j]
        /\ calls'[Len(calls) + 1] =
             [intent |-> Intent, mount |-> mount, key |-> Key, as |-> page,
              showing |-> seen, srv |-> "sent", early |-> FALSE, answer |-> seen,
                 cli |-> "waiting"]
        /\ Len(calls) < MaxCalls
    BY <1>7, SubmitIs
  <2>2. Intent \in Intents /\ Intent <= Len(calls) + 1
    <3>1. CASE Len(calls) = 0
      BY <2>1, <3>1, PortalAssumption DEF Intent, Intents
    <3>2. CASE Len(calls) > 0
      <4>1. calls[Len(calls)].intent \in Intents /\ calls[Len(calls)].intent <= Len(calls)
        BY <2>1, <3>2, Holds DEF Shape
      <4> QED
        BY <2>1, <3>2, <4>1, PortalAssumption DEF Intent, Intents
    <3> QED
      BY <2>1, <3>1, <3>2
  <2>3. Key \in KeySet
    <3>1. mount \in Nat
      BY PortalAssumption DEF Shape
    <3> QED
      BY <2>1, <3>1 DEF Key, KeySet
  <2>4. [intent |-> Intent, mount |-> mount, key |-> Key, as |-> page,
         showing |-> seen, srv |-> "sent", early |-> FALSE, answer |-> seen,
                 cli |-> "waiting"]
          \in CallSet(States)
    BY <2>2, <2>3, PortalAssumption DEF Shape, CallSet
  <2>5. calls' \in Seq(CallSet(States))
    BY <1>7, <2>4 DEF Submit, Shape
  <2>6. \A i \in DOMAIN calls' : calls'[i].intent <= i
    BY <2>1, <2>2 DEF Shape
  <2> QED
    BY <1>0, <1>7, <2>1, <2>5, <2>6, PortalAssumption DEF Submit, Shape
<1>8. ASSUME NEW i \in DOMAIN calls, Return(i) \/ Lose(i)
      PROVE  Shape'
  <2>1. /\ SameCalls
        /\ UNCHANGED <<role, shell, page, obj, mount, reqs, effects, recorded, moves>>
    BY <1>8, ReturnIs DEF Answered
  <2>2. calls[i].answer \in States
    BY Holds
  <2>3. /\ seen' \in States
        /\ at' \in {"away", "page", "denied", "missing", "hollow"}
        /\ dialog' \in {"closed", "form", "confirm"}
        /\ dialog' # "closed" => at' = "page"
    BY <1>8, <2>2, ReturnIs DEF Succeed, Failed, Shape
  <2> QED
    BY <1>0, <2>1, <2>3 DEF Shape, SameCalls, SameCall
<1>9. ASSUME NEW i \in DOMAIN calls, Serve(i)
      PROVE  Shape'
  <2>1. /\ SameCalls
        /\ UNCHANGED <<role, shell, page, seen, at, dialog, mount, moves>>
        /\ Refused(i) \/ Replayed(i) \/ Accepted(i)
    BY <1>9, ServeIs
  <2>2. calls[i].intent \in Intents /\ calls[i].key \in KeySet
    BY Holds
  <2>3. /\ obj' \in States /\ reqs' \in Seq(ReqSet) /\ effects' \in [Intents -> Nat]
        /\ recorded' \subseteq KeySet
    <3>1. CASE Refused(i) \/ Replayed(i)
      BY <3>1 DEF Refused, Replayed, Shape
    <3>2. CASE Accepted(i)
      <4>1. [intent |-> calls[i].intent, key |-> calls[i].key, state |-> "pending",
             early |-> FALSE] \in ReqSet
        BY <2>2 DEF ReqSet
      <4>2. reqs' \in Seq(ReqSet)
        BY <3>2, <4>1 DEF Accepted, Shape
      <4>3. effects' \in [Intents -> Nat]
        BY <3>2, <2>2 DEF Accepted, Effect, Shape
      <4> QED
        BY <3>2, <2>2, <4>2, <4>3 DEF Accepted, Shape
    <3> QED
      BY <2>1, <3>1, <3>2
  <2> QED
    BY <1>0, <2>1, <2>3 DEF Shape, SameCalls, SameCall
<1>10. ASSUME NEW q \in DOMAIN reqs, Execute(q) \/ Reject(q)
       PROVE  Shape'
  <2>1. reqs' \in Seq(ReqSet)
    <3>1. reqs \in Seq(ReqSet)
      BY DEF Shape
    <3>2. CASE Reject(q)
      BY <3>1, <3>2, MarkReq DEF Reject
    <3>3. CASE Execute(q)
      BY <3>1, <3>3, MarkExecuted
    <3> QED
      BY <1>10, <3>2, <3>3
  <2>2. reqs[q].intent \in Intents /\ reqs[q].key \in KeySet
    BY Holds
  <2>3. obj' \in States /\ effects' \in [Intents -> Nat] /\ recorded' \subseteq KeySet
    <3>1. CASE UNCHANGED <<obj, effects, recorded>>
      BY <3>1 DEF Shape
    <3>2. CASE /\ obj' \in Becomes /\ UNCHANGED recorded
               /\ effects' = Effect(reqs[q].intent)
      BY <2>2, <3>2, BecomesState DEF Effect, Shape
    <3> QED
      BY <1>10, <3>1, <3>2 DEF Execute, Reject
  <2> QED
    BY <1>0, <1>10, <2>1, <2>3 DEF Execute, Reject, Shape
<1> QED
  BY <1>1, <1>2, <1>3, <1>4, <1>5, <1>6, <1>7, <1>8, <1>9, <1>10 DEF Next

\* The intent of a new call is the last one's, or a new one.
LEMMA IntentIs ==
    ASSUME Shape, Order
    PROVE  /\ Intent \in Nat
           /\ \A i \in DOMAIN calls : calls[i].intent <= Intent
           /\ \A i \in DOMAIN calls : calls[i].intent = Intent =>
                /\ calls[i].mount = mount
                /\ calls[Len(calls)].mount = mount /\ calls[Len(calls)].cli = "failed"
<1> DEFINE n == Len(calls)
<1>1. CASE n = 0
  BY <1>1, Holds DEF Intent
<1>2. CASE n > 0
  <2>1. n \in DOMAIN calls
    BY <1>2, Holds
  <2>2. calls[n].intent \in Nat
    BY <2>1, Holds, PortalAssumption DEF Intents
  <2>3. \A i \in DOMAIN calls :
          /\ calls[i].intent <= calls[n].intent /\ calls[i].intent \in Nat
          /\ calls[i].intent = calls[n].intent => calls[i].mount = calls[n].mount
    BY <2>1, Holds, PortalAssumption DEF Order, Intents
  <2> QED
    BY <1>2, <2>1, <2>2, <2>3 DEF Intent
<1> QED
  BY <1>1, <1>2, Holds

\* Only a submission adds to the order, and its intent and visit are the
\* latest.
LEMMA OrderStep ==
    ASSUME Static, Shape, Order, [Next]_vars
    PROVE  Order'
<1>0. Ctl' = Ctl
  BY StaticStep
<1>1. ASSUME UNCHANGED <<calls, mount>>
      PROVE  Order'
  BY <1>0, <1>1 DEF Order
<1>2. CASE Visit
  <2>1. UNCHANGED calls /\ mount' = mount + 1 /\ mount \in Nat
    BY <1>2, PortalAssumption DEF Visit, Shape
  <2>2. \A i \in DOMAIN calls : calls[i].mount <= mount'
    BY <2>1, Holds DEF Order
  <2> QED
    BY <1>0, <2>1, <2>2 DEF Order
<1>3. ASSUME SameCalls, UNCHANGED mount
      PROVE  Order'
  BY <1>0, <1>3 DEF SameCalls, SameCall, Order
<1>4. CASE Submit
  <2> DEFINE n == Len(calls) + 1
  <2>1. /\ Len(calls) \in Nat /\ UNCHANGED mount
        /\ DOMAIN calls' = 1..n /\ DOMAIN calls = 1..Len(calls)
        /\ \A j \in DOMAIN calls : calls'[j] = calls[j]
        /\ calls'[n].intent = Intent /\ calls'[n].mount = mount /\ calls'[n].key = Key
    BY <1>4, SubmitIs
  <2>2. \A i \in DOMAIN calls : calls[i].mount <= mount /\ calls[i].mount \in Nat
    BY Holds DEF Order
  <2>3. mount \in Nat /\ mount <= mount
    BY PortalAssumption DEF Shape
  <2>4. DOMAIN calls' = DOMAIN calls \cup {n} /\ n \notin DOMAIN calls
        /\ \A i \in DOMAIN calls : i <= n /\ ~(n <= i)
    BY <2>1
  <2>5. \A i \in DOMAIN calls' : calls'[i].mount <= mount'
    BY <2>1, <2>2, <2>3, <2>4
  <2>6. \A i, j \in DOMAIN calls' : i <= j =>
          calls'[i].intent <= calls'[j].intent /\ calls'[i].mount <= calls'[j].mount
    BY <2>1, <2>2, <2>3, <2>4, IntentIs DEF Order
  <2>7. \A i, j \in DOMAIN calls' :
          calls'[i].intent = calls'[j].intent => calls'[i].mount = calls'[j].mount
    BY <2>1, <2>4, IntentIs DEF Order
  <2>8. \A i \in DOMAIN calls' :
          calls'[i].key = IF Ctl.key = "mount" THEN <<"mount", calls'[i].mount>>
                          ELSE <<"call", i>>
    BY <2>1, <2>4 DEF Order, Key
  <2> QED
    BY <1>0, <2>5, <2>6, <2>7, <2>8 DEF Order
<1>5. ASSUME NEW i \in DOMAIN calls, Return(i) \/ Lose(i) \/ Serve(i)
      PROVE  SameCalls /\ UNCHANGED mount
  BY <1>5, ReturnIs, ServeIs DEF Answered
<1> QED
  BY <1>1, <1>2, <1>3, <1>4, <1>5
     DEF Next, vars, Leave, Open, Ask, Dismiss, Rerender, Execute, Reject, Move, ChangeRole

\* A component with a call out submits no other, and a success that leaves the
\* page ends the visit.
LEMMA AnswersStep ==
    ASSUME Static, Shape, Order, Answers, [Next]_vars
    PROVE  Answers'
<1>0. Ctl' = Ctl
  BY StaticStep
<1>1. ASSUME UNCHANGED <<calls, mount, at, refreshing>>
      PROVE  Answers'
  BY <1>0, <1>1 DEF Answers
<1>2. CASE Visit
  <2>1. UNCHANGED <<calls, refreshing>> /\ ~refreshing /\ mount' = mount + 1
    BY <1>2 DEF Visit, Answers
  <2>2. \A i \in DOMAIN calls : calls[i].mount # mount'
    BY <2>1, Holds, PortalAssumption DEF Order, Shape
  <2> QED
    BY <1>0, <2>1, <2>2 DEF Answers
<1>3. CASE Leave
  BY <1>0, <1>3 DEF Leave, Answers
<1>4. CASE Rerender
  <2>1. UNCHANGED <<calls, mount>> /\ ~refreshing' /\ Ctl.done = "refresh"
    BY <1>4 DEF Rerender, Answers
  <2> QED
    BY <1>0, <2>1 DEF Answers
<1>5. CASE Submit
  <2> DEFINE n == Len(calls) + 1
  <2>1. /\ Len(calls) \in Nat /\ UNCHANGED <<mount, at, refreshing>> /\ at = "page" /\ ~Busy
        /\ DOMAIN calls' = 1..n /\ DOMAIN calls = 1..Len(calls)
        /\ \A j \in DOMAIN calls : calls'[j] = calls[j]
        /\ calls'[n].intent = Intent /\ calls'[n].mount = mount
        /\ calls'[n].cli = "waiting" /\ calls'[n].srv = "sent"
    BY <1>5, SubmitIs
  <2>2. DOMAIN calls' = DOMAIN calls \cup {n} /\ n \notin DOMAIN calls
    BY <2>1
  <2>3. \A i \in DOMAIN calls : calls[i].mount = mount => calls[i].cli # "waiting"
    BY <2>1 DEF Busy
  <2>4. ASSUME Ctl.done = "leave", NEW i \in DOMAIN calls, calls[i].mount = mount
        PROVE  calls[i].intent = Intent
    <3> DEFINE m == Len(calls)
    <3>1. m \in DOMAIN calls /\ i <= m
      BY <2>1
    <3>2. calls[m].mount = mount
      BY <2>4, <3>1, Holds, PortalAssumption DEF Order, Shape
    <3>3. calls[m].cli = "failed"
      BY <2>1, <2>3, <2>4, <3>1, <3>2, Holds DEF Answers
    <3>4. Intent = calls[m].intent
      BY <2>1, <3>1, <3>2, <3>3 DEF Intent
    <3> QED
      BY <2>4, <3>1, <3>2, <3>4 DEF Answers
  <2> QED
    BY <1>0, <2>1, <2>2, <2>3, <2>4 DEF Answers
<1>6. ASSUME NEW i \in DOMAIN calls, Return(i) \/ Lose(i)
      PROVE  Answers'
  <2>1. CASE Answered(i, "done") /\ calls[i].srv = "ok" /\ Succeed(i) /\ UNCHANGED mount
    <3>1. /\ refreshing' => at' = "page" /\ Ctl.done = "refresh"
          /\ Ctl.done = "leave" => at' # "page"
      BY <2>1 DEF Succeed, Answers
    <3> QED
      BY <1>0, <2>1, <3>1 DEF Answered, SameCalls, SameCall, Answers
  <2>2. CASE Answered(i, "failed") /\ Failed(i) /\ UNCHANGED mount
    BY <1>0, <2>2 DEF Answered, SameCalls, SameCall, Answers, Failed
  <2> QED
    BY <1>6, <2>1, <2>2, ReturnIs
<1>7. ASSUME NEW i \in DOMAIN calls, Serve(i)
      PROVE  Answers'
  <2>1. /\ SameCalls /\ calls[i].srv = "sent"
        /\ UNCHANGED <<mount, at, refreshing>>
        /\ \A j \in DOMAIN calls :
             /\ calls'[j].cli = calls[j].cli
             /\ j # i => calls'[j].srv = calls[j].srv
    BY <1>7, ServeIs
  <2> QED
    BY <1>0, <2>1 DEF SameCalls, SameCall, Answers
<1> QED
  BY <1>1, <1>2, <1>3, <1>4, <1>5, <1>6, <1>7
     DEF Next, vars, Open, Ask, Dismiss, Execute, Reject, Move, ChangeRole

\* Every step keeps Base.
LEMMA BaseStep == Base /\ [Next]_vars => Base'
BY StaticStep, ShapeStep, OrderStep, AnswersStep DEF Base

(***************************************************************************)
(* The facts all the others rest on hold in every state: the control is    *)
(* sound, the state has its shape, calls are made in the order of visits   *)
(* and intents, the browser believes in success only after one, and has    *)
(* one call of a visit out at a time.                                      *)
(***************************************************************************)
THEOREM PortalBase == Spec => []Base
BY BaseInit, BaseStep, PTL DEF Spec

-----------------------------------------------------------------------------
(* Refusals. *)

\* Every step keeps RefusalHasCause: a control that is not shown too widely is
\* shown to roles and in states that the API accepts.
LEMMA RefusalStep ==
    ASSUME Base, RefusalHasCause, [Next]_vars
    PROVE  RefusalHasCause'
<1>0. UNCHANGED control
  BY StaticStep DEF Base, what
<1>1. ASSUME \A i \in DOMAIN calls' : calls'[i].srv = "refused" =>
               i \in DOMAIN calls /\ calls[i].srv = "refused"
      PROVE  RefusalHasCause'
  BY <1>0, <1>1 DEF RefusalHasCause
<1>2. CASE Submit
  BY <1>1, <1>2, SubmitIs DEF Base
<1>3. ASSUME NEW i \in DOMAIN calls, Return(i) \/ Lose(i)
      PROVE  RefusalHasCause'
  BY <1>1, <1>3, ReturnIs DEF Base, Answered, SameCalls
<1>4. ASSUME NEW i \in DOMAIN calls, Serve(i)
      PROVE  RefusalHasCause'
  <2>1. /\ DOMAIN calls' = DOMAIN calls
        /\ Refused(i) \/ Replayed(i) \/ Accepted(i)
        /\ \A j \in DOMAIN calls : j # i => calls'[j].srv = calls[j].srv
    BY <1>4, ServeIs DEF Base, SameCalls
  <2>2. CASE calls'[i].srv # "refused"
    BY <1>1, <2>1, <2>2
  <2>3. CASE calls'[i].srv = "refused"
    <3>1. /\ Offered(calls[i].as, calls[i].showing)
          /\ \/ ~AtLeast(role, Op.role) /\ calls[i].as = role
             \/ obj \notin Op.accepts /\ calls[i].showing = obj /\ ~Creates
      BY <2>1, <2>3 DEF Refused, Replayed, Accepted
    <3>2. ~Narrow(Ctl)
      BY <3>1 DEF Narrow, Offered, Op, Creates, Base, Shape
    <3>3. control \in TooWide
      BY <3>2 DEF Base, Static, Sound
    <3> QED
      BY <1>0, <3>3 DEF RefusalHasCause
  <2> QED
    BY <2>2, <2>3
<1> QED
  BY <1>1, <1>2, <1>3, <1>4
     DEF Next, vars, Visit, Leave, Open, Ask, Dismiss, Rerender, Execute, Reject, Move,
         ChangeRole

(***************************************************************************)
(* No control outside the named list is refused by the API while its page  *)
(* shows the role and the state as they are (permissions.ts against the    *)
(* role dependencies of the routers, the offered states against the        *)
(* services).                                                              *)
(***************************************************************************)
THEOREM RefusalsExplained == Spec => []RefusalHasCause
<1>1. Init => RefusalHasCause
  BY DEF Init, RefusalHasCause
<1>2. Base /\ RefusalHasCause /\ [Next]_vars => RefusalHasCause'
  BY RefusalStep
<1> QED
  BY <1>1, <1>2, PortalBase, PTL DEF Spec

-----------------------------------------------------------------------------
(* Links. *)

\* As long as nobody interferes, the layout knows the user's role, and the user
\* is where the link led.
Followed ==
    moves = 0 =>
        /\ shell = role
        /\ at # "away" => UserHasPermission(role, link.perm)
        /\ at \in {"denied", "missing", "hollow"} => link \in LooseLinks

\* A role that is shown a link, not one of the loose ones, is admitted.
LEMMA RenderedFollows ==
    ASSUME Static, role \in Roles, UserHasPermission(role, link.perm),
           Rendered \in {"denied", "missing", "hollow"}
    PROVE  link \in LooseLinks
BY DEF Static, Rendered

\* Every step keeps Followed.
LEMMA FollowedStep ==
    ASSUME Base, Followed, [Next]_vars
    PROVE  Followed'
<1>0. UNCHANGED link
  BY StaticStep DEF Base, what
<1>1. CASE Visit
  BY <1>0, <1>1, RenderedFollows DEF Visit, Followed, Base, Shape
<1>2. CASE Rerender
  BY <1>0, <1>2, RenderedFollows DEF Rerender, Followed, Base, Shape, Answers
<1>3. ASSUME NEW i \in DOMAIN calls, Return(i) \/ Lose(i)
      PROVE  Followed'
  <2>1. UNCHANGED <<role, shell, moves>> /\ at' \in {at, "away"}
    BY <1>3, ReturnIs DEF Base, Succeed, Failed
  <2> QED
    BY <1>0, <2>1 DEF Followed
<1>4. CASE Move \/ ChangeRole
  BY <1>4 DEF Move, ChangeRole, Followed, Base, Shape
<1>5. ASSUME UNCHANGED <<role, shell, moves>>, at' \in {at, "away"}
      PROVE  Followed'
  BY <1>0, <1>5 DEF Followed
<1> QED
  BY <1>1, <1>2, <1>3, <1>4, <1>5
     DEF Next, vars, Leave, Open, Ask, Dismiss, Submit, Serve, Execute, Reject

(***************************************************************************)
(* A link that is shown opens its page with its data, as long as nobody    *)
(* changed the role, the palette, the dashboard and two entries of the     *)
(* sidebar apart (navigation against requirePlatformPermission and the     *)
(* reads of the pages).                                                    *)
(***************************************************************************)
THEOREM LinksAlive == Spec => []NoDeadLinks
<1>1. Init => Followed
  BY DEF Init, Followed
<1>2. Base /\ Followed /\ [Next]_vars => Followed'
  BY FollowedStep
<1>3. Base /\ Followed => NoDeadLinks
  BY DEF Base, Shape, Followed, NoDeadLinks
<1> QED
  BY <1>1, <1>2, <1>3, PortalBase, PTL DEF Spec

-----------------------------------------------------------------------------
(* What the page shows. *)

\* The only answer that is still to come is about the object as it is.
LastAnswerIsCurrent ==
    at = "page" /\ ~moved =>
        \A i \in DOMAIN calls :
            calls[i].srv = "ok" /\ calls[i].cli = "waiting" /\ calls[i].mount = mount
              /\ (\A j \in DOMAIN calls : j # i /\ calls[j].srv = "ok" =>
                    calls[j].cli = "done" /\ calls[j].mount = mount)
              => calls[i].answer = obj

\* PageIsCurrent, with what a page that patches itself and one that does
\* nothing rely on.
Current ==
    /\ PageIsCurrent
    /\ Ctl.done = "patch" => LastAnswerIsCurrent
    /\ Ctl.done = "keep" /\ at = "page" /\ ~moved => seen = obj

\* A step that touches neither the page nor the object, and no successful call.
LEMMA CurrentKept ==
    ASSUME Current, Ctl' = Ctl, UNCHANGED <<at, seen, obj, mount, moved, refreshing>>,
           DOMAIN calls \subseteq DOMAIN calls',
           \A i \in DOMAIN calls :
             /\ calls'[i].mount = calls[i].mount /\ calls'[i].cli = calls[i].cli
             /\ calls'[i].answer = calls[i].answer
             /\ calls[i].srv = "ok" <=> calls'[i].srv = "ok",
           \A i \in DOMAIN calls' : calls'[i].srv = "ok" => i \in DOMAIN calls
    PROVE  Current'
<1>1. PageIsCurrent'
  BY DEF Current, PageIsCurrent
<1>2. Ctl.done = "patch" => LastAnswerIsCurrent'
  BY DEF Current, LastAnswerIsCurrent
<1> QED
  BY <1>1, <1>2 DEF Current

\* onSuccess refetches, leaves, patches with the current answer, or had nothing
\* to show.
LEMMA CurrentAfterSuccess ==
    ASSUME Base, Current, Ctl' = Ctl, NEW i \in DOMAIN calls,
           Answered(i, "done"), calls[i].srv = "ok", Succeed(i),
           UNCHANGED <<obj, mount, moved>>
    PROVE  Current'
<1>1. Ctl.done \in {"refresh", "leave", "patch", "keep"}
  BY DEF Base, Static, Sound, Ends
<1>2. CASE Ctl.done = "refresh"
  BY <1>2 DEF Succeed, Current, PageIsCurrent
<1>3. CASE Ctl.done = "leave"
  BY <1>3 DEF Succeed, Current, PageIsCurrent
<1>4. CASE Ctl.done = "keep"
  BY <1>4 DEF Succeed, Current, PageIsCurrent
<1>5. CASE Ctl.done = "patch"
  <2>1. /\ at' = at /\ DOMAIN calls' = DOMAIN calls /\ calls[i].cli = "waiting"
        /\ seen' = IF calls[i].mount = mount /\ at = "page" THEN calls[i].answer ELSE seen
        /\ \A j \in DOMAIN calls :
             /\ calls'[j].mount = calls[j].mount
             /\ calls'[j].srv = calls[j].srv /\ calls'[j].answer = calls[j].answer
             /\ calls'[j].cli = IF j = i THEN "done" ELSE calls[j].cli
    BY <1>5 DEF Succeed, Answered, SameCalls, SameCall
  <2>2. PageIsCurrent'
    <3> SUFFICES ASSUME at' = "page", ~moved',
                        \A j \in DOMAIN calls' : calls'[j].srv = "ok" =>
                          calls'[j].cli = "done" /\ calls'[j].mount = mount'
                 PROVE  seen' = obj'
      BY <1>5 DEF PageIsCurrent
    <3>1. calls[i].mount = mount
      BY <2>1
    <3>2. \A j \in DOMAIN calls : j # i /\ calls[j].srv = "ok" =>
            calls[j].cli = "done" /\ calls[j].mount = mount
      BY <2>1
    <3>3. calls[i].answer = obj
      BY <1>5, <2>1, <3>1, <3>2 DEF Current, LastAnswerIsCurrent
    <3> QED
      BY <2>1, <3>1, <3>3
  <2>3. LastAnswerIsCurrent'
    <3> SUFFICES ASSUME NEW k \in DOMAIN calls', calls'[k].cli = "waiting",
                        calls'[k].mount = mount',
                        \A j \in DOMAIN calls' : j # k /\ calls'[j].srv = "ok" =>
                          calls'[j].cli = "done" /\ calls'[j].mount = mount'
                 PROVE  FALSE
      BY DEF LastAnswerIsCurrent
    <3>1. k # i /\ calls[i].mount = mount
      BY <2>1
    <3> QED
      BY <2>1, <3>1 DEF Base, Answers
  <2> QED
    BY <1>5, <2>2, <2>3 DEF Current
<1> QED
  BY <1>1, <1>2, <1>3, <1>4, <1>5

\* onError changes nothing the page shows.
LEMMA CurrentAfterFailure ==
    ASSUME Current, Ctl' = Ctl, NEW i \in DOMAIN calls,
           Answered(i, "failed"), Failed(i), UNCHANGED <<obj, mount, moved>>
    PROVE  Current'
<1>1. /\ UNCHANGED <<at, seen, refreshing>> /\ DOMAIN calls' = DOMAIN calls
      /\ \A j \in DOMAIN calls :
           /\ calls'[j].mount = calls[j].mount
           /\ calls'[j].srv = calls[j].srv /\ calls'[j].answer = calls[j].answer
           /\ calls'[j].cli = IF j = i THEN "failed" ELSE calls[j].cli
  BY DEF Failed, Answered, SameCalls, SameCall
<1>2. PageIsCurrent'
  BY <1>1 DEF Current, PageIsCurrent
<1>3. Ctl.done = "patch" => LastAnswerIsCurrent'
  BY <1>1 DEF Current, LastAnswerIsCurrent
<1> QED
  BY <1>1, <1>2, <1>3 DEF Current

\* A call that is carried out is one to be answered yet.
LEMMA CurrentAfterServe ==
    ASSUME Base, Current, Ctl' = Ctl, NEW i \in DOMAIN calls, Serve(i)
    PROVE  Current'
<1>1. /\ DOMAIN calls' = DOMAIN calls /\ calls[i].srv = "sent"
      /\ \A j \in DOMAIN calls :
           /\ calls'[j].mount = calls[j].mount /\ calls'[j].cli = calls[j].cli
           /\ j # i => calls'[j].srv = calls[j].srv /\ calls'[j].answer = calls[j].answer
      /\ Refused(i) \/ Replayed(i) \/ Accepted(i)
      /\ UNCHANGED <<seen, at, mount, moved, refreshing>>
  BY ServeIs DEF Base, SameCalls, SameCall
<1>2. calls'[i].cli # "done"
  BY <1>1 DEF Base, Answers
<1>3. CASE Refused(i)
  <2>1. UNCHANGED obj /\ calls'[i].srv # "ok"
    BY <1>3 DEF Refused
  <2>2. PageIsCurrent'
    BY <1>1, <2>1 DEF Current, PageIsCurrent
  <2>3. Ctl.done = "patch" => LastAnswerIsCurrent'
    BY <1>1, <2>1 DEF Current, LastAnswerIsCurrent
  <2> QED
    BY <1>1, <2>1, <2>2, <2>3 DEF Current
<1>4. CASE Replayed(i) \/ Accepted(i)
  <2>1. calls'[i].srv = "ok" /\ calls'[i].answer = obj'
    BY <1>4 DEF Replayed, Accepted
  <2>2. PageIsCurrent'
    BY <1>1, <1>2, <2>1 DEF PageIsCurrent
  <2>3. LastAnswerIsCurrent'
    BY <1>1, <1>2, <2>1 DEF LastAnswerIsCurrent
  <2>4. Ctl.done = "keep" => obj' = obj
    BY <1>4 DEF Replayed, Accepted, Becomes, Op, Base, Static, Sound, Ends
  <2> QED
    BY <1>1, <2>2, <2>3, <2>4 DEF Current
<1> QED
  BY <1>1, <1>3, <1>4

\* Every step keeps Current.
LEMMA CurrentStep ==
    ASSUME Base, Current, [Next]_vars
    PROVE  Current'
<1>0. Ctl' = Ctl
  BY StaticStep DEF Base
<1>1. CASE Visit
  <2>1. seen' = obj' /\ UNCHANGED <<calls, obj>> /\ mount' = mount + 1
    BY <1>1 DEF Visit
  <2>2. \A i \in DOMAIN calls : calls[i].mount # mount'
    BY <2>1, Holds, PortalAssumption DEF Base, Order, Shape
  <2> QED
    BY <2>1, <2>2 DEF Current, PageIsCurrent, LastAnswerIsCurrent
<1>2. CASE Leave
  BY <1>2 DEF Leave, Current, PageIsCurrent, LastAnswerIsCurrent
<1>3. CASE Rerender
  BY <1>0, <1>3 DEF Rerender, Current, PageIsCurrent, Base, Answers
<1>4. CASE Submit
  BY <1>0, <1>4, SubmitIs, CurrentKept DEF Base
<1>5. ASSUME NEW i \in DOMAIN calls, Return(i) \/ Lose(i)
      PROVE  Current'
  BY <1>0, <1>5, ReturnIs, CurrentAfterSuccess, CurrentAfterFailure DEF Base
<1>6. ASSUME NEW i \in DOMAIN calls, Serve(i)
      PROVE  Current'
  BY <1>0, <1>6, CurrentAfterServe
<1>7. ASSUME moved'
      PROVE  Current'
  BY <1>7 DEF Current, PageIsCurrent, LastAnswerIsCurrent
<1>8. ASSUME UNCHANGED <<at, seen, obj, mount, moved, refreshing, calls>>
      PROVE  Current'
  BY <1>0, <1>8, CurrentKept
<1> QED
  BY <1>1, <1>2, <1>3, <1>4, <1>5, <1>6, <1>7, <1>8
     DEF Next, vars, Open, Ask, Dismiss, Execute, Reject, Move, ChangeRole

(***************************************************************************)
(* A page whose calls have all been answered, and that nobody interfered   *)
(* with, shows the object as it is, whatever the order of answers, losses  *)
(* and visits (router.refresh, navigation, setState in the onSuccess       *)
(* callbacks).                                                             *)
(***************************************************************************)
THEOREM PagesCurrent == Spec => []PageIsCurrent
<1>1. Init => Current
  BY DEF Init, Current, PageIsCurrent, LastAnswerIsCurrent
<1>2. Base /\ Current /\ [Next]_vars => Current'
  BY CurrentStep
<1>3. Current => PageIsCurrent
  BY DEF Current
<1> QED
  BY <1>1, <1>2, <1>3, PortalBase, PTL DEF Spec

-----------------------------------------------------------------------------
(* Keys, requests and what the user is told. *)

\* The executor of request q acts, and none has acted under its key, unless keys
\* are looked up among journal entries only.
Performed(q) ==
    /\ obj \in Op.runs /\ reqs'[q].state = "executed"
    /\ ~Finds(q) \/ Op.once = "entry"
    /\ obj' \in Becomes
    /\ effects' = Effect(reqs[q].intent)
    /\ UNCHANGED recorded

\* A request is decided once, and its executor acts or leaves everything as it
\* is.
LEMMA ExecuteIs ==
    ASSUME Shape, NEW q \in DOMAIN reqs, Execute(q) \/ Reject(q)
    PROVE  /\ reqs[q].state = "pending"
           /\ reqs' \in Seq(ReqSet)
           /\ Len(reqs') = Len(reqs) /\ DOMAIN reqs' = DOMAIN reqs
           /\ \A p \in DOMAIN reqs :
                /\ reqs'[p].intent = reqs[p].intent /\ reqs'[p].key = reqs[p].key
                /\ p # q => reqs'[p].state = reqs[p].state
           /\ UNCHANGED <<obj, effects, recorded>> \/ Performed(q)
           /\ UNCHANGED <<what, calls, mount, moves>>
<1>1. reqs \in Seq(ReqSet)
  BY DEF Shape
<1>2. CASE Reject(q)
  BY <1>1, <1>2, MarkReq DEF Reject
<1>3. CASE Execute(q)
  <2>1. UNCHANGED <<obj, effects, recorded>> \/ Performed(q)
    <3>1. CASE UNCHANGED <<obj, effects>>
      BY <1>3, <3>1 DEF Execute
    <3>2. CASE /\ obj \in Op.runs
               /\ ~Finds(q) \/ (Op.once = "entry" /\ reqs[q].early)
               /\ obj' \in Becomes /\ effects' = Effect(reqs[q].intent)
      <4>1. reqs'[q].state = "executed"
        BY <1>1, <1>3, <3>2, MarkExecuted
      <4>2. UNCHANGED recorded
        BY <1>3 DEF Execute
      <4> QED
        BY <3>2, <4>1, <4>2 DEF Performed
    <3> QED
      BY <1>3, <3>1, <3>2 DEF Execute
  <2>2. reqs[q].state = "pending" /\ UNCHANGED <<what, calls, mount, moves>>
    BY <1>3 DEF Execute
  <2> QED
    BY <1>1, <1>3, <2>1, <2>2, MarkExecuted
<1> QED
  BY <1>2, <1>3

\* The requests are those there were, or there is one more, that of call i.
LEMMA AcceptedReqs ==
    ASSUME Shape, NEW i \in DOMAIN calls, Accepted(i)
    PROVE  IF Op.files
           THEN /\ DOMAIN reqs' = DOMAIN reqs \cup {Len(reqs) + 1}
                /\ Len(reqs') = Len(reqs) + 1 /\ Len(reqs) + 1 \notin DOMAIN reqs
                /\ \A q \in DOMAIN reqs : reqs'[q] = reqs[q]
                /\ reqs'[Len(reqs) + 1].intent = calls[i].intent
                /\ reqs'[Len(reqs) + 1].key = calls[i].key
                /\ reqs'[Len(reqs) + 1].state = "pending"
           ELSE reqs' = reqs
<1>1. reqs \in Seq(ReqSet)
  BY DEF Shape
<1>2. Len(reqs) \in Nat /\ DOMAIN reqs = 1..Len(reqs)
  BY <1>1
<1>3. CASE Op.files
  <2> DEFINE r == [intent |-> calls[i].intent, key |-> calls[i].key, state |-> "pending",
                   early |-> FALSE]
  <2>1. reqs' = Append(reqs, r)
    BY <1>3 DEF Accepted
  <2>2. r.intent = calls[i].intent /\ r.key = calls[i].key /\ r.state = "pending"
    OBVIOUS
  <2> HIDE DEF r
  <2>3. /\ Len(reqs') = Len(reqs) + 1 /\ reqs'[Len(reqs) + 1] = r
        /\ DOMAIN reqs' = 1..(Len(reqs) + 1)
        /\ \A q \in DOMAIN reqs : reqs'[q] = reqs[q]
    BY <1>1, <1>2, <2>1
  <2> QED
    BY <1>2, <1>3, <2>2, <2>3
<1>4. CASE ~Op.files
  BY <1>4 DEF Accepted
<1> QED
  BY <1>3, <1>4

\* Where keys and requests come from.
Records ==
    /\ \A k \in recorded : \E j \in DOMAIN calls : calls[j].key = k /\ calls[j].srv = "ok"
    /\ ~Op.files => DOMAIN reqs = {}
    /\ \A q \in DOMAIN reqs : \E i \in DOMAIN calls :
         /\ calls[i].intent = reqs[q].intent /\ calls[i].key = reqs[q].key
         /\ calls[i].srv = "ok"

\* Every step keeps Records.
LEMMA RecordsStep ==
    ASSUME Base, Records, [Next]_vars
    PROVE  Records'
<1>0. Ctl' = Ctl /\ Op' = Op
  BY StaticStep DEF Base, Op
<1>1. ASSUME UNCHANGED <<reqs, recorded>>, DOMAIN calls \subseteq DOMAIN calls',
             \A j \in DOMAIN calls :
               /\ calls'[j].intent = calls[j].intent /\ calls'[j].key = calls[j].key
               /\ calls[j].srv = "ok" => calls'[j].srv = "ok"
      PROVE  Records'
  <2>1. \A k \in recorded :
          \E j \in DOMAIN calls' : calls'[j].key = k /\ calls'[j].srv = "ok"
    BY <1>1 DEF Records
  <2>2. \A q \in DOMAIN reqs : \E i \in DOMAIN calls' :
          /\ calls'[i].intent = reqs[q].intent /\ calls'[i].key = reqs[q].key
          /\ calls'[i].srv = "ok"
    BY <1>1 DEF Records
  <2> QED
    BY <1>0, <1>1, <2>1, <2>2 DEF Records
<1>2. CASE Submit
  BY <1>1, <1>2, SubmitIs DEF Base
<1>3. ASSUME NEW i \in DOMAIN calls, Return(i) \/ Lose(i)
      PROVE  Records'
  BY <1>1, <1>3, ReturnIs DEF Base, Answered, SameCalls, SameCall
<1>4. ASSUME NEW i \in DOMAIN calls, Serve(i)
      PROVE  Records'
  <2>1. /\ DOMAIN calls' = DOMAIN calls /\ calls[i].srv = "sent"
        /\ \A j \in DOMAIN calls :
             /\ calls'[j].intent = calls[j].intent /\ calls'[j].key = calls[j].key
             /\ j # i => calls'[j].srv = calls[j].srv
        /\ Refused(i) \/ Replayed(i) \/ Accepted(i)
    BY <1>4, ServeIs DEF Base, SameCalls, SameCall
  <2>2. CASE Refused(i) \/ Replayed(i)
    BY <1>1, <2>1, <2>2 DEF Refused, Replayed
  <2>3. CASE Accepted(i)
    <3>1. \A k \in recorded' : \E j \in DOMAIN calls' :
            calls'[j].key = k /\ calls'[j].srv = "ok"
      BY <2>1, <2>3 DEF Accepted, Records
    <3>2. ~Op.files => DOMAIN reqs' = {}
      BY <2>3 DEF Accepted, Records
    <3>3. \A q \in DOMAIN reqs' : \E j \in DOMAIN calls' :
            /\ calls'[j].intent = reqs'[q].intent /\ calls'[j].key = reqs'[q].key
            /\ calls'[j].srv = "ok"
      <4>1. calls'[i].srv = "ok"
        BY <2>3 DEF Accepted
      <4> QED
        BY <2>1, <2>3, <4>1, AcceptedReqs DEF Records, Base
    <3> QED
      BY <1>0, <3>1, <3>2, <3>3 DEF Records
  <2> QED
    BY <2>1, <2>2, <2>3
<1>5. ASSUME NEW q \in DOMAIN reqs, Execute(q) \/ Reject(q)
      PROVE  Records'
  <2>1. recorded' = recorded
    BY <1>5, ExecuteIs DEF Base, Performed
  <2>2. /\ DOMAIN reqs' = DOMAIN reqs /\ UNCHANGED calls
        /\ \A p \in DOMAIN reqs :
             reqs'[p].intent = reqs[p].intent /\ reqs'[p].key = reqs[p].key
    BY <1>5, ExecuteIs DEF Base
  <2> QED
    BY <1>0, <2>1, <2>2 DEF Records
<1>6. ASSUME UNCHANGED <<calls, reqs, recorded>>
      PROVE  Records'
  BY <1>1, <1>6
<1> QED
  BY <1>2, <1>3, <1>4, <1>5, <1>6
     DEF Next, vars, Visit, Leave, Open, Ask, Dismiss, Rerender, Move, ChangeRole

\* At first there is nothing to account for.
LEMMA RecordsInit == Init => Records
BY DEF Init, Records

\* What a successful call of a control that does not reuse its key has done.
Told ==
    ~ReusesKey =>
        \A i \in DOMAIN calls : calls[i].srv = "ok" =>
            /\ Op.files => \E q \in DOMAIN reqs : reqs[q].intent = calls[i].intent
            /\ Op.applies => effects[calls[i].intent] > 0

\* Effects add up.
LEMMA EffectGrows ==
    ASSUME Shape, NEW x \in Intents, effects' = Effect(x)
    PROVE  /\ effects'[x] > 0
           /\ \A y \in Intents : effects[y] > 0 => effects'[y] > 0
           /\ \A y \in Intents : y # x => effects'[y] = effects[y]
           /\ effects'[x] = IF Op.once = "set" THEN 1 ELSE effects[x] + 1
BY DEF Shape, Effect

\* Every step keeps Told: a replay can only be that of the same intent, because
\* a key that is not reused is of one call, or of one visit and that of one intent.
LEMMA ToldStep ==
    ASSUME Base, Records, Told, [Next]_vars
    PROVE  Told'
<1>0. Ctl' = Ctl /\ Op' = Op /\ (ReusesKey' <=> ReusesKey)
  BY StaticStep DEF Base, Op, ReusesKey
<1> SUFFICES ASSUME ~ReusesKey
             PROVE  Told'
  BY <1>0 DEF Told
<1>1. ASSUME UNCHANGED <<reqs, effects>>,
             \A j \in DOMAIN calls' : calls'[j].srv = "ok" =>
               /\ j \in DOMAIN calls /\ calls'[j].intent = calls[j].intent
               /\ calls[j].srv = "ok"
      PROVE  Told'
  BY <1>0, <1>1 DEF Told
<1>2. CASE Submit
  BY <1>1, <1>2, SubmitIs DEF Base
<1>3. ASSUME NEW i \in DOMAIN calls, Return(i) \/ Lose(i)
      PROVE  Told'
  BY <1>1, <1>3, ReturnIs DEF Base, Answered, SameCalls, SameCall
<1>4. ASSUME NEW i \in DOMAIN calls, Serve(i)
      PROVE  Told'
  <2>1. /\ DOMAIN calls' = DOMAIN calls /\ calls[i].srv = "sent"
        /\ \A j \in DOMAIN calls :
             /\ calls'[j].intent = calls[j].intent
             /\ j # i => calls'[j].srv = calls[j].srv
        /\ Refused(i) \/ Replayed(i) \/ Accepted(i)
    BY <1>4, ServeIs DEF Base, SameCalls, SameCall
  <2>2. CASE Refused(i)
    BY <1>1, <2>1, <2>2 DEF Refused
  <2>3. CASE Replayed(i)
    <3>1. PICK j \in DOMAIN calls : calls[j].key = calls[i].key /\ calls[j].srv = "ok"
      BY <2>3 DEF Replayed, Known, Executed, Records
    <3>2. Ctl.key = "mount" /\ Ctl.done = "leave"
      <4>1. ASSUME Ctl.key # "mount"
            PROVE  FALSE
        <5>1. calls[i].key = <<"call", i>> /\ calls[j].key = <<"call", j>>
          BY <4>1 DEF Base, Order
        <5>2. i = j
          BY <3>1, <5>1
        <5> QED
          BY <2>1, <3>1, <5>2
      <4> QED
        BY <4>1 DEF ReusesKey
    <3>3. calls[j].mount = calls[i].mount
      BY <3>1, <3>2 DEF Base, Order
    <3>4. calls[j].intent = calls[i].intent
      BY <3>2, <3>3 DEF Base, Answers
    <3> QED
      BY <1>0, <2>1, <2>3, <3>1, <3>4 DEF Replayed, Told
  <2>4. CASE Accepted(i)
    <3>1. calls[i].intent \in Intents /\ \A j \in DOMAIN calls : calls[j].intent \in Intents
      BY Holds DEF Base
    <3>2. ASSUME Op.files, NEW j \in DOMAIN calls, calls'[j].srv = "ok"
          PROVE  \E q \in DOMAIN reqs' : reqs'[q].intent = calls[j].intent
      BY <2>1, <2>4, <3>2, AcceptedReqs DEF Told, Base
    <3>3. ASSUME Op.applies, NEW j \in DOMAIN calls, calls'[j].srv = "ok"
          PROVE  effects'[calls[j].intent] > 0
      <4>1. effects' = Effect(calls[i].intent)
        BY <2>4, <3>3 DEF Accepted
      <4>2. j # i => effects[calls[j].intent] > 0
        BY <2>1, <3>3 DEF Told
      <4> QED
        BY <3>1, <4>1, <4>2, EffectGrows DEF Base
    <3> QED
      BY <1>0, <2>1, <3>2, <3>3 DEF Told
  <2> QED
    BY <2>1, <2>2, <2>3, <2>4
<1>5. ASSUME NEW q \in DOMAIN reqs, Execute(q) \/ Reject(q)
      PROVE  Told'
  <2>1. /\ UNCHANGED calls /\ DOMAIN reqs' = DOMAIN reqs
        /\ \A p \in DOMAIN reqs : reqs'[p].intent = reqs[p].intent
        /\ effects' = effects \/ effects' = Effect(reqs[q].intent)
    BY <1>5, ExecuteIs DEF Base, Performed
  <2>2. /\ reqs[q].intent \in Intents
        /\ \A j \in DOMAIN calls : calls[j].intent \in Intents
    BY Holds DEF Base
  <2>3. \A y \in Intents : effects[y] > 0 => effects'[y] > 0
    BY <2>1, <2>2, EffectGrows DEF Base
  <2> QED
    BY <1>0, <2>1, <2>2, <2>3 DEF Told
<1>6. ASSUME UNCHANGED <<calls, reqs, effects>>
      PROVE  Told'
  BY <1>1, <1>6
<1> QED
  BY <1>2, <1>3, <1>4, <1>5, <1>6
     DEF Next, vars, Visit, Leave, Open, Ask, Dismiss, Rerender, Move, ChangeRole

(***************************************************************************)
(* A toast that says done follows an effect of that submission and no      *)
(* request, one that speaks of a request follows one, for every control    *)
(* that does not reuse its key, the votes and the rename of a user, which  *)
(* claim more than was done, apart (the onSuccess toasts of the forms).    *)
(***************************************************************************)
THEOREM ToldTruly == Spec => []ToldIsTrue
<1>1. Init => Records /\ Told
  BY RecordsInit DEF Init, Told
<1>2. Base /\ Records /\ Told /\ [Next]_vars => Records' /\ Told'
  BY RecordsStep, ToldStep
<1>3. Base /\ Records /\ Told => ToldIsTrue
  <2> SUFFICES ASSUME Base, Records, Told, ~ReusesKey, control \notin Overstated,
                      NEW i \in DOMAIN calls, calls[i].cli = "done"
               PROVE  ToldTruth(i)
    BY DEF ToldIsTrue
  <2>1. calls[i].srv = "ok"
    BY DEF Base, Answers
  <2>2. Honest(Ctl)
    BY DEF Base, Static, Sound
  <2>3. CASE Ctl.says = "requested" /\ Op.files
    BY <2>1, <2>3 DEF Told, ToldTruth
  <2>4. CASE Ctl.says = "done" /\ Op.applies /\ ~Op.files
    <3>1. /\ effects[calls[i].intent] > 0
          /\ ~ \E q \in DOMAIN reqs : reqs[q].intent = calls[i].intent
      BY <2>1, <2>4 DEF Told, Records
    <3> QED
      BY <2>4, <3>1 DEF ToldTruth
  <2> QED
    BY <2>2, <2>3, <2>4 DEF Honest, Op
<1> QED
  BY <1>1, <1>2, <1>3, PortalBase, PTL DEF Spec

-----------------------------------------------------------------------------
(* Once. *)

\* A control that is offered in no state does nothing.
Idle ==
    Ctl.offered = {} =>
        /\ dialog = "closed" /\ DOMAIN calls = {} /\ DOMAIN reqs = {}
        /\ \A x \in Intents : effects[x] = 0

\* Nothing is submitted where nothing is offered.
LEMMA IdleStep ==
    ASSUME Base, Idle, [Next]_vars
    PROVE  Idle'
<1>0. Ctl' = Ctl
  BY StaticStep DEF Base
<1> SUFFICES ASSUME Ctl.offered = {}
             PROVE  Idle'
  BY <1>0 DEF Idle
<1>1. /\ dialog = "closed" /\ DOMAIN calls = {} /\ DOMAIN reqs = {}
      /\ \A x \in Intents : effects[x] = 0
  BY DEF Idle
<1>2. ~Submit /\ ~Open /\ ~Ask /\ ~Dismiss
  BY <1>1 DEF Submit, Open, Ask, Dismiss, Shown, Offered
<1>3. CASE Visit
  <2>1. Rendered = "page" => ~OnPage
    BY DEF Rendered, Base, Static
  <2>2. dialog' = "closed" /\ UNCHANGED <<calls, reqs, effects>>
    BY <1>3, <2>1 DEF Visit
  <2> QED
    BY <1>0, <1>1, <2>2 DEF Idle
<1>4. ASSUME UNCHANGED <<calls, reqs, effects>>, dialog' \in {dialog, "closed"}
      PROVE  Idle'
  BY <1>0, <1>1, <1>4 DEF Idle
<1> QED
  BY <1>1, <1>2, <1>3, <1>4 DEF Next, vars, Leave, Rerender, Move, ChangeRole

\* An intent that took effect has its key recorded.
ByKey ==
    \A x \in Intents : effects[x] > 0 =>
        /\ effects[x] = 1
        /\ \E i \in DOMAIN calls : calls[i].intent = x /\ calls[i].key \in recorded

\* An intent that took effect has a request that was executed.
ByRequest ==
    \A x \in Intents : effects[x] > 0 =>
        /\ effects[x] = 1
        /\ \E q \in DOMAIN reqs : reqs[q].intent = x /\ reqs[q].state = "executed"

\* The first effect left the object where the operation does not act.
ByGuard ==
    /\ \A x \in Intents : effects[x] <= 1
    /\ (\E x \in Intents : effects[x] > 0) =>
         obj \notin IF Op.applies THEN Op.accepts ELSE Op.runs

\* Nothing but the state of the object keeps calls that overlap from acting twice.
Guarded == Op.once = "guard" \/ (Op.once = "lookup" /\ Op.applies)

\* How an intent is kept from taking effect twice, by the kind of protection.
Once ==
    /\ Op.once = "set" => \A x \in Intents : effects[x] <= 1
    /\ control \notin Unprotected =>
         /\ Op.once = "key" /\ Op.applies => ByKey
         /\ Op.once \in {"key", "lookup", "execution"} /\ ~Op.applies => ByRequest
         /\ Guarded /\ moves = 0 => ByGuard

\* One intent has one key, when the key is made with the component.
LEMMA OneKey ==
    ASSUME Base, Ctl.key = "mount", NEW i \in DOMAIN calls, NEW j \in DOMAIN calls,
           calls[i].intent = calls[j].intent
    PROVE  calls[i].key = calls[j].key
BY DEF Base, Order

\* The first effect under a new key.
LEMMA ByKeyGrows ==
    ASSUME Base, ByKey, Ctl.key = "mount", Op.once # "set", NEW i \in DOMAIN calls,
           calls[i].key \notin recorded, effects' = Effect(calls[i].intent),
           recorded' = recorded \cup {calls[i].key}, DOMAIN calls' = DOMAIN calls,
           \A j \in DOMAIN calls :
             calls'[j].intent = calls[j].intent /\ calls'[j].key = calls[j].key
    PROVE  ByKey'
<1>1. calls[i].intent \in Intents /\ effects \in [Intents -> Nat]
  BY Holds DEF Base, Shape
<1>2. effects[calls[i].intent] = 0
  BY <1>1, OneKey DEF ByKey
<1>3. /\ effects'[calls[i].intent] = 1
      /\ \A y \in Intents : y # calls[i].intent => effects'[y] = effects[y]
  BY <1>1, <1>2, EffectGrows DEF Base
<1>4. ASSUME NEW y \in Intents, effects'[y] > 0
      PROVE  /\ effects'[y] = 1
             /\ \E j \in DOMAIN calls' : calls'[j].intent = y /\ calls'[j].key \in recorded'
  BY <1>3, <1>4 DEF ByKey
<1> QED
  BY <1>4 DEF ByKey

\* The first effect of an intent on an object that is where the operation acts.
LEMMA ByGuardGrows ==
    ASSUME Base, ByGuard, Op' = Op, Op.once # "set", NEW x \in Intents, effects' = Effect(x),
           obj \in (IF Op.applies THEN Op.accepts ELSE Op.runs),
           obj' \notin (IF Op.applies THEN Op.accepts ELSE Op.runs)
    PROVE  ByGuard'
<1>1. \A y \in Intents : effects[y] = 0
  BY DEF ByGuard, Base, Shape
<1>2. \A y \in Intents : effects'[y] <= 1
  BY <1>1, EffectGrows DEF Base
<1> QED
  BY <1>2 DEF ByGuard

\* A call that is carried out keeps Once, whatever the protection.
LEMMA OnceAfterAccept ==
    ASSUME Base, Idle, Records, Once, Ctl' = Ctl, UNCHANGED <<control, moves>>,
           NEW i \in DOMAIN calls, Accepted(i), DOMAIN calls' = DOMAIN calls,
           \A j \in DOMAIN calls :
             calls'[j].intent = calls[j].intent /\ calls'[j].key = calls[j].key
    PROVE  Once'
<1>0. Op' = Op /\ calls[i].intent \in Intents /\ effects \in [Intents -> Nat]
  BY Holds DEF Op, Base, Shape
<1>1. /\ Op.applies /\ Op.files => Op.once = "set"
      /\ control \notin Unprotected => Protected(Ctl)
  BY DEF Base, Static, Sound, Acts, Op
<1>2. Op.once = "set" => \A x \in Intents : effects'[x] <= 1
  BY <1>0, EffectGrows DEF Accepted, Once, Base
<1>4. ASSUME control \notin Unprotected, Op.once = "key", Op.applies
      PROVE  ByKey'
  <2>1. Ctl.key = "mount"
    BY <1>1, <1>4 DEF Protected, Op
  <2>2. /\ ByKey /\ effects' = Effect(calls[i].intent)
        /\ recorded' = recorded \cup {calls[i].key} /\ calls[i].key \notin recorded
    BY <1>4 DEF Once, Accepted
  <2> QED
    BY <1>4, <2>1, <2>2, ByKeyGrows
<1>5. ASSUME control \notin Unprotected, ~Op.applies,
             Op.once \in {"key", "lookup", "execution"}
      PROVE  ByRequest'
  <2>1. ByRequest /\ effects' = effects
    BY <1>5 DEF Once, Accepted
  <2>2. /\ DOMAIN reqs \subseteq DOMAIN reqs'
        /\ \A q \in DOMAIN reqs : reqs'[q] = reqs[q]
    BY AcceptedReqs DEF Base
  <2> QED
    BY <2>1, <2>2 DEF ByRequest
<1>6. ASSUME control \notin Unprotected, Guarded, moves = 0
      PROVE  ByGuard'
  <2>1. ByGuard
    BY <1>6 DEF Once
  <2>2. Ctl.offered # {}
    BY DEF Idle
  <2>3. Op.to # Kept /\ Op.to \cap (IF Op.applies THEN Op.accepts ELSE Op.runs) = {}
    BY <1>1, <1>6, <2>2 DEF Protected, Op, Guarded
  <2>4. CASE ~Op.applies
    BY <1>0, <2>1, <2>4 DEF Accepted, ByGuard
  <2>5. CASE Op.applies
    <3>1. /\ effects' = Effect(calls[i].intent) /\ obj \in Op.accepts
          /\ obj' \notin Op.accepts
      BY <2>3, <2>5 DEF Accepted, Becomes
    <3> QED
      BY <1>0, <1>6, <2>1, <2>5, <3>1, ByGuardGrows DEF Guarded
  <2> QED
    BY <2>4, <2>5
<1> QED
  BY <1>0, <1>2, <1>4, <1>5, <1>6 DEF Once, Guarded

\* An executor keeps Once.
LEMMA OnceAfterExecute ==
    ASSUME Base, Idle, Records, Once, Ctl' = Ctl, UNCHANGED control,
           NEW q \in DOMAIN reqs, Execute(q) \/ Reject(q)
    PROVE  Once'
<1>0. /\ Op' = Op /\ effects \in [Intents -> Nat]
      /\ reqs[q].intent \in Intents
  BY Holds DEF Op, Base, Shape
<1>1. /\ reqs[q].state = "pending" /\ DOMAIN reqs' = DOMAIN reqs
      /\ \A p \in DOMAIN reqs :
           /\ reqs'[p].intent = reqs[p].intent /\ reqs'[p].key = reqs[p].key
           /\ p # q => reqs'[p].state = reqs[p].state
      /\ UNCHANGED <<obj, effects, recorded>> \/ Performed(q)
      /\ UNCHANGED <<calls, moves>>
  BY ExecuteIs DEF Base
<1>2. /\ control \notin Unprotected => Protected(Ctl)
      /\ Op.applies => Op.once = "set"
  BY DEF Base, Static, Sound, Acts, Op, Records
<1>3. ASSUME UNCHANGED <<obj, effects, recorded>>
      PROVE  Once'
  <2>1. ByKey => ByKey'
    BY <1>1, <1>3 DEF ByKey
  <2>2. ByRequest => ByRequest'
    <3> SUFFICES ASSUME ByRequest
                 PROVE  ByRequest'
      OBVIOUS
    <3>1. \A x \in Intents : effects[x] > 0 =>
            \E p \in DOMAIN reqs : reqs'[p].intent = x /\ reqs'[p].state = "executed"
      BY <1>1 DEF ByRequest
    <3> QED
      BY <1>1, <1>3, <3>1 DEF ByRequest
  <2>3. ByGuard => ByGuard'
    BY <1>0, <1>3 DEF ByGuard
  <2> QED
    BY <1>0, <1>1, <1>3, <2>1, <2>2, <2>3 DEF Once, Guarded
<1>4. CASE Performed(q)
  <2>1. effects' = Effect(reqs[q].intent)
    BY <1>4 DEF Performed
  <2>2. Op.once = "set" => \A x \in Intents : effects'[x] <= 1
    BY <1>0, <2>1, EffectGrows DEF Once, Base
  <2>3. PICK i \in DOMAIN calls :
          calls[i].intent = reqs[q].intent /\ calls[i].key = reqs[q].key
    BY DEF Records
  <2>5. ASSUME control \notin Unprotected, ~Op.applies,
               Op.once \in {"key", "lookup", "execution"}
        PROVE  ByRequest'
    <3>1. Ctl.key = "mount" /\ ByRequest
      BY <1>2, <2>5 DEF Protected, Op, Once
    <3>2. \A p \in DOMAIN reqs : reqs[p].intent = reqs[q].intent => reqs[p].key = reqs[q].key
      BY <2>3, <3>1, OneKey DEF Records
    <3>3. effects[reqs[q].intent] = 0
      <4>1. ~Executed(reqs[q].key)
        BY <1>4, <2>5 DEF Performed, Finds
      <4>2. ~ \E p \in DOMAIN reqs : reqs[p].intent = reqs[q].intent /\ reqs[p].state = "executed"
        BY <3>2, <4>1 DEF Executed
      <4> QED
        BY <1>0, <3>1, <4>2 DEF ByRequest
    <3>4. /\ effects'[reqs[q].intent] = 1 /\ reqs'[q].state = "executed"
          /\ \A y \in Intents : y # reqs[q].intent => effects'[y] = effects[y]
      BY <1>0, <1>4, <2>1, <2>5, <3>3, EffectGrows DEF Performed, Base
    <3>5. ASSUME NEW y \in Intents, effects'[y] > 0
          PROVE  /\ effects'[y] = 1
                 /\ \E p \in DOMAIN reqs' : reqs'[p].intent = y /\ reqs'[p].state = "executed"
      <4>1. CASE y = reqs[q].intent
        BY <1>1, <3>4, <4>1
      <4>2. CASE y # reqs[q].intent
        BY <1>1, <3>1, <3>4, <3>5, <4>2 DEF ByRequest
      <4> QED
        BY <4>1, <4>2
    <3> QED
      BY <1>1, <3>1, <3>5 DEF ByRequest
  <2>6. ASSUME control \notin Unprotected, Guarded, moves = 0
        PROVE  ByGuard'
    <3>1. ByGuard /\ ~Op.applies /\ Ctl.offered # {}
      BY <1>2, <2>6 DEF Once, Idle, Guarded
    <3>2. Op.to # Kept /\ Op.to \cap Op.runs = {}
      BY <1>2, <2>6, <3>1 DEF Protected, Op, Guarded
    <3>3. obj \in Op.runs /\ obj' \notin Op.runs
      BY <1>4, <3>2 DEF Performed, Becomes
    <3> QED
      BY <1>0, <2>1, <2>6, <3>1, <3>3, ByGuardGrows DEF Guarded
  <2> QED
    BY <1>0, <1>1, <1>2, <2>2, <2>5, <2>6 DEF Once, Guarded
<1> QED
  BY <1>1, <1>3, <1>4

\* Every step keeps Once.
LEMMA OnceStep ==
    ASSUME Base, Idle, Records, Once, [Next]_vars
    PROVE  Once'
<1>0. Ctl' = Ctl /\ UNCHANGED control /\ Op' = Op
  BY StaticStep DEF Base, what, Op
<1>1. ASSUME UNCHANGED <<reqs, effects, recorded>>, DOMAIN calls \subseteq DOMAIN calls',
             (moves' = moves /\ obj' = obj) \/ moves' # 0,
             \A j \in DOMAIN calls :
               calls'[j].intent = calls[j].intent /\ calls'[j].key = calls[j].key
      PROVE  Once'
  <2>1. ByKey => ByKey'
    BY <1>1 DEF ByKey
  <2>2. ByRequest => ByRequest'
    BY <1>1 DEF ByRequest
  <2>3. ByGuard /\ obj' = obj => ByGuard'
    BY <1>0, <1>1 DEF ByGuard
  <2> QED
    BY <1>0, <1>1, <2>1, <2>2, <2>3 DEF Once, Guarded
<1>2. CASE Submit
  BY <1>1, <1>2, SubmitIs DEF Base
<1>3. ASSUME NEW i \in DOMAIN calls, Return(i) \/ Lose(i)
      PROVE  Once'
  BY <1>1, <1>3, ReturnIs DEF Base, Answered, SameCalls, SameCall
<1>4. ASSUME NEW i \in DOMAIN calls, Serve(i)
      PROVE  Once'
  <2>1. /\ DOMAIN calls' = DOMAIN calls /\ UNCHANGED moves
        /\ \A j \in DOMAIN calls :
             calls'[j].intent = calls[j].intent /\ calls'[j].key = calls[j].key
        /\ Refused(i) \/ Replayed(i) \/ Accepted(i)
    BY <1>4, ServeIs DEF Base, SameCalls, SameCall
  <2>2. CASE Refused(i) \/ Replayed(i)
    BY <1>1, <2>1, <2>2 DEF Refused, Replayed
  <2>3. CASE Accepted(i)
    BY <1>0, <2>1, <2>3, OnceAfterAccept
  <2> QED
    BY <2>1, <2>2, <2>3
<1>5. ASSUME NEW q \in DOMAIN reqs, Execute(q) \/ Reject(q)
      PROVE  Once'
  BY <1>0, <1>5, OnceAfterExecute
<1>6. CASE Move \/ ChangeRole
  <2>1. UNCHANGED <<calls, reqs, effects, recorded>> /\ moves' # 0
    BY <1>6 DEF Move, ChangeRole, Base, Shape
  <2> QED
    BY <1>1, <2>1
<1>7. ASSUME UNCHANGED <<calls, reqs, effects, recorded, moves, obj>>
      PROVE  Once'
  BY <1>1, <1>7
<1> QED
  BY <1>2, <1>3, <1>4, <1>5, <1>6, <1>7
     DEF Next, vars, Visit, Leave, Open, Ask, Dismiss, Rerender

\* At first nothing took effect.
LEMMA OnceInit == Init => Idle /\ Once
BY DEF Init, Idle, Once, ByKey, ByRequest, ByGuard

(***************************************************************************)
(* The invariant of AppliedOnce: effects are tied to recorded keys, to     *)
(* executed requests, or to the state the first of them left behind.       *)
(***************************************************************************)
THEOREM PortalOnce == Spec => [](Idle /\ Records /\ Once)
<1>1. Init => Idle /\ Records /\ Once
  BY OnceInit, RecordsInit
<1>2. Base /\ Idle /\ Records /\ Once /\ [Next]_vars => Idle' /\ Records' /\ Once'
  BY IdleStep, RecordsStep, OnceStep
<1> QED
  BY <1>1, <1>2, PortalBase, PTL DEF Spec

(***************************************************************************)
(* What the user meant once takes effect at most once, for every control   *)
(* outside the named list, however often answers are lost, the form is     *)
(* sent again and given-up calls are served late or overlap; where only    *)
(* the state protects, unless somebody moved the object back               *)
(* (Idempotency-Key in the components, the services and the executors).    *)
(***************************************************************************)
THEOREM IntentsAppliedOnce == Spec => []AppliedOnce
<1>1. Base /\ Once => AppliedOnce
  <2>1. Base => /\ Op.once \in {"key", "lookup", "execution", "entry", "set", "guard"}
                /\ control \notin Unprotected => Op.once # "entry"
                /\ Op.once = "execution" => ~Op.applies
                /\ effects \in [Intents -> Nat] /\ moves \in Nat
    BY DEF Base, Static, Sound, Acts, Protected, Shape, Op
  <2> QED
    BY <2>1 DEF Once, Guarded, AppliedOnce, ByKey, ByRequest, ByGuard
<1> QED
  BY <1>1, PortalBase, PortalOnce, PTL

-----------------------------------------------------------------------------
(* Types: no intent takes effect more often than calls were made. *)

\* The calls carried out or replayed.
Served == {i \in DOMAIN calls : calls[i].srv = "ok"}
\* The requests carried out.
ExecutedReqs == {q \in DOMAIN reqs : reqs[q].state = "executed"}

\* Effects and requests are counted by the calls and requests they come from.
Count ==
    /\ Len(reqs) <= Cardinality(Served)
    /\ Op.once # "set" => \A x \in Intents :
         effects[x] <= Cardinality(IF Op.applies THEN Served ELSE ExecutedReqs)

\* There are no more of them than calls and requests.
LEMMA Tally ==
    ASSUME Shape
    PROVE  /\ IsFiniteSet(Served) /\ Cardinality(Served) \in Nat
           /\ Cardinality(Served) <= Len(calls)
           /\ IsFiniteSet(ExecutedReqs) /\ Cardinality(ExecutedReqs) \in Nat
           /\ Cardinality(ExecutedReqs) <= Len(reqs)
<1>1. /\ Len(calls) \in Nat /\ DOMAIN calls = 1..Len(calls)
      /\ Len(reqs) \in Nat /\ DOMAIN reqs = 1..Len(reqs)
  BY Holds
<1>2. \A n \in Nat : IsFiniteSet(1..n) /\ Cardinality(1..n) = n
  BY FS_Interval
<1>3. Served \subseteq 1..Len(calls) /\ ExecutedReqs \subseteq 1..Len(reqs)
  BY <1>1 DEF Served, ExecutedReqs
<1>4. ASSUME NEW n \in Nat, NEW T, T \subseteq 1..n
      PROVE  IsFiniteSet(T) /\ Cardinality(T) \in Nat /\ Cardinality(T) <= n
  <2>1. IsFiniteSet(T) /\ Cardinality(T) <= Cardinality(1..n)
    BY <1>2, <1>4, FS_Subset
  <2>2. Cardinality(T) \in Nat
    BY <2>1, FS_CardinalityType
  <2> QED
    BY <1>2, <2>1, <2>2
<1> QED
  BY <1>1, <1>3, <1>4

\* One effect adds one.
LEMMA EffectOnce ==
    ASSUME Shape, NEW x \in Intents, effects' = Effect(x), Op.once # "set"
    PROVE  \A y \in Intents : effects'[y] <= effects[y] + 1
<1>1. effects \in [Intents -> Nat]
  BY DEF Shape
<1> QED
  BY <1>1, EffectGrows

\* Every step keeps Count.
LEMMA CountStep ==
    ASSUME Base, Records, Count, Base', [Next]_vars
    PROVE  Count'
<1>0. Op' = Op
  BY StaticStep DEF Base, Op
<1>t. /\ IsFiniteSet(Served) /\ Cardinality(Served) \in Nat
      /\ IsFiniteSet(ExecutedReqs) /\ Cardinality(ExecutedReqs) \in Nat
      /\ Len(reqs) \in Nat /\ effects \in [Intents -> Nat]
  BY Tally, Holds DEF Base, Shape
<1>1. ASSUME UNCHANGED <<reqs, effects>>,
             Served' = Served \/ Cardinality(Served') = Cardinality(Served) + 1
      PROVE  Count'
  <2>1. ExecutedReqs' = ExecutedReqs
    BY <1>1 DEF ExecutedReqs
  <2> QED
    BY <1>0, <1>t, <1>1, <2>1 DEF Count
<1>2. CASE Submit
  <2>1. Served' = Served
    BY <1>2, SubmitIs DEF Base, Served
  <2> QED
    BY <1>1, <1>2, <2>1, SubmitIs DEF Base
<1>3. ASSUME NEW i \in DOMAIN calls, Return(i) \/ Lose(i)
      PROVE  Count'
  <2>1. DOMAIN calls' = DOMAIN calls /\ \A j \in DOMAIN calls : calls'[j].srv = calls[j].srv
    BY <1>3, ReturnIs DEF Base, Answered, SameCalls
  <2>2. Served' = Served
    BY <2>1 DEF Served
  <2> QED
    BY <1>1, <1>3, <2>2, ReturnIs DEF Base
<1>4. ASSUME NEW i \in DOMAIN calls, Serve(i)
      PROVE  Count'
  <2>1. /\ DOMAIN calls' = DOMAIN calls /\ calls[i].srv = "sent"
        /\ \A j \in DOMAIN calls : j # i => calls'[j].srv = calls[j].srv
        /\ Refused(i) \/ Replayed(i) \/ Accepted(i)
    BY <1>4, ServeIs DEF Base, SameCalls
  <2>2. CASE Refused(i)
    <3>1. Served' = Served
      BY <2>1, <2>2 DEF Served, Refused
    <3> QED
      BY <1>1, <2>2, <3>1 DEF Refused
  <2>3. ASSUME calls'[i].srv = "ok"
        PROVE  Cardinality(Served') = Cardinality(Served) + 1
    <3>1. Served' = Served \cup {i} /\ i \notin Served
      BY <2>1, <2>3 DEF Served
    <3> QED
      BY <1>t, <3>1, FS_AddElement
  <2>4. CASE Replayed(i)
    BY <1>1, <2>3, <2>4 DEF Replayed
  <2>5. CASE Accepted(i)
    <3>1. Cardinality(Served') = Cardinality(Served) + 1
      BY <2>3, <2>5 DEF Accepted
    <3>2. Len(reqs') = Len(reqs) \/ Len(reqs') = Len(reqs) + 1
      BY <2>5, AcceptedReqs DEF Base
    <3>3. ExecutedReqs' = ExecutedReqs
      BY <2>5, AcceptedReqs DEF Base, ExecutedReqs
    <3>4. CASE ~Op.applies
      BY <1>0, <1>t, <2>5, <3>1, <3>2, <3>3, <3>4 DEF Accepted, Count
    <3>5. CASE Op.applies
      <4>1. Op.once # "set" => \A y \in Intents : effects'[y] <= effects[y] + 1
        <5>1. calls[i].intent \in Intents /\ effects' = Effect(calls[i].intent)
          BY <2>5, <3>5, Holds DEF Accepted, Base
        <5> QED
          BY <1>t, <5>1, EffectOnce DEF Base
      <4>2. Op.once # "set" => \A y \in Intents :
              effects'[y] \in Nat /\ effects[y] <= Cardinality(Served)
        BY <3>5 DEF Count, Base, Shape
      <4> QED
        BY <1>0, <1>t, <3>1, <3>2, <3>5, <4>1, <4>2 DEF Count
    <3> QED
      BY <3>4, <3>5
  <2> QED
    BY <2>1, <2>2, <2>4, <2>5
<1>5. ASSUME NEW q \in DOMAIN reqs, Execute(q) \/ Reject(q)
      PROVE  Count'
  <2>1. /\ reqs[q].state = "pending" /\ DOMAIN reqs' = DOMAIN reqs
        /\ Len(reqs') = Len(reqs)
        /\ \A p \in DOMAIN reqs : p # q => reqs'[p].state = reqs[p].state
        /\ UNCHANGED <<obj, effects, recorded>> \/ Performed(q)
        /\ UNCHANGED calls
    BY <1>5, ExecuteIs DEF Base
  <2>2. Served' = Served
    BY <2>1 DEF Served
  <2>3. \/ ExecutedReqs' = ExecutedReqs
        \/ ExecutedReqs' = ExecutedReqs \cup {q} /\ q \notin ExecutedReqs
    BY <2>1 DEF ExecutedReqs
  <2>4. \/ ExecutedReqs' = ExecutedReqs
        \/ Cardinality(ExecutedReqs') = Cardinality(ExecutedReqs) + 1
    BY <1>t, <2>3, FS_AddElement
  <2>5. CASE UNCHANGED effects
    BY <1>0, <1>t, <2>1, <2>2, <2>4, <2>5 DEF Count
  <2>6. CASE Performed(q)
    <3>1. Op.applies => Op.once = "set"
      BY DEF Base, Static, Sound, Acts, Op, Records
    <3>2. q \in ExecutedReqs'
      BY <2>1, <2>6 DEF ExecutedReqs, Performed
    <3>3. Cardinality(ExecutedReqs') = Cardinality(ExecutedReqs) + 1
      BY <2>1, <2>4, <3>2 DEF ExecutedReqs
    <3>4. Op.once # "set" => \A y \in Intents :
            /\ effects'[y] <= effects[y] + 1 /\ effects'[y] \in Nat
            /\ effects[y] <= Cardinality(ExecutedReqs)
      <4>1. reqs[q].intent \in Intents /\ effects' = Effect(reqs[q].intent)
        BY <2>6, Holds DEF Base, Performed
      <4>2. Op.once # "set" => \A y \in Intents : effects'[y] <= effects[y] + 1
        BY <4>1, EffectOnce DEF Base
      <4> QED
        BY <3>1, <4>2 DEF Base, Shape, Count
    <3> QED
      BY <1>0, <1>t, <2>1, <2>2, <3>1, <3>3, <3>4 DEF Count
  <2> QED
    BY <2>1, <2>5, <2>6
<1>6. ASSUME UNCHANGED <<calls, reqs, effects>>
      PROVE  Count'
  <2>1. Served' = Served
    BY <1>6 DEF Served
  <2> QED
    BY <1>1, <1>6, <2>1
<1> QED
  BY <1>2, <1>3, <1>4, <1>5, <1>6
     DEF Next, vars, Visit, Leave, Open, Ask, Dismiss, Rerender, Move, ChangeRole

(***************************************************************************)
(* Every reachable state of the portal is well typed, and a dialog is open *)
(* on its page only; that no intent takes effect more often than calls     *)
(* were made needs the counts.                                             *)
(***************************************************************************)
THEOREM PortalTypes == Spec => []TypeOK
<1>1. Init => Count
  <2> SUFFICES ASSUME Init
               PROVE  Count
    OBVIOUS
  <2>1. Shape
    BY BaseInit DEF Base
  <2>2. Len(reqs) = 0 /\ \A x \in Intents : effects[x] = 0
    BY DEF Init
  <2> QED
    BY <2>1, <2>2, Tally DEF Count
<1>2. Base /\ Base' /\ Records /\ Count /\ [Next]_vars => Count'
  BY CountStep
<1>3. ASSUME Base, Once, Count
      PROVE  TypeOK
  <2>1. /\ Len(calls) \in Nat /\ Len(calls) <= MaxCalls /\ effects \in [Intents -> Nat]
        /\ Len(reqs) \in Nat
    BY <1>3, Holds DEF Base, Shape
  <2>2. /\ Cardinality(Served) \in Nat /\ Cardinality(Served) <= Len(calls)
        /\ Cardinality(ExecutedReqs) \in Nat /\ Cardinality(ExecutedReqs) <= Len(reqs)
    BY <1>3, Tally DEF Base
  <2>3. ASSUME NEW x \in Intents
        PROVE  effects[x] <= MaxCalls
    <3>1. MaxCalls \in Nat /\ MaxCalls >= 1
      BY PortalAssumption DEF Intents
    <3>2. CASE Op.once = "set"
      BY <1>3, <2>1, <3>1, <3>2 DEF Once
    <3>3. CASE Op.once # "set"
      <4>1. effects[x] <= Cardinality(Served)
        BY <1>3, <2>1, <2>2, <3>3 DEF Count
      <4> QED
        BY <2>1, <2>2, <3>1, <4>1
    <3> QED
      BY <3>2, <3>3
  <2>4. effects \in [Intents -> 0..MaxCalls]
    BY <2>1, <2>3, PortalAssumption
  <2>5. /\ \A i \in DOMAIN calls :
             /\ calls[i].srv \in {"sent", "ok", "refused", "stale"}
             /\ calls[i].cli \in {"waiting", "done", "failed"}
        /\ \A q \in DOMAIN reqs : reqs[q].state \in
             {"pending", "executed", "execution_failed", "rejected"}
    BY <1>3, Holds DEF Base
  <2> QED
    BY <1>3, <2>4, <2>5 DEF TypeOK, Base, Shape, States
<1> QED
  BY <1>1, <1>2, <1>3, PortalBase, PortalOnce, PTL DEF Spec

=============================================================================
