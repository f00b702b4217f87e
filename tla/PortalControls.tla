--------------------------- MODULE PortalControls ---------------------------
(***************************************************************************)
(* The portal's controls: every form, dialog and button that calls an      *)
(* operation of the API, as a record of what its component decides:        *)
(*   on       the kind of object it acts on (a life of PortalApi);         *)
(*   perm     the permission its page asks for before showing it;          *)
(*   offered  the states of the object in which it is shown and enabled;   *)
(*   calls    the operation;                                               *)
(*   steps    what the user goes through: a form in a dialog, a            *)
(*            confirmation, a form and then a confirmation, a form that is *)
(*            the page itself (with or without a confirmation), a button;  *)
(*   key      when its idempotency key is made: with the component         *)
(*            ("mount"), at every call ("call"), or never ("none");        *)
(*   done     what follows success: the page is fetched again ("refresh"), *)
(*            the user is taken elsewhere ("leave"), the answer replaces   *)
(*            what is shown ("patch"), or nothing ("keep");                *)
(*   says     what the toast claims: "done", "requested" (a request was     *)
(*            filed), or "executed" (the operation voted on was executed); *)
(*   failed   whether the dialog stays or closes when the call fails;      *)
(*   outlives whether its dialog, once open, stays when a page rendered    *)
(*            again does not offer the control any longer.                 *)
(***************************************************************************)
EXTENDS PortalApi

Control(on, perm, offered, op) ==
    [on |-> on, perm |-> perm, offered |-> offered, calls |-> op, steps |-> "form",
     key |-> "none", done |-> "refresh", says |-> "done", failed |-> "stay",
     outlives |-> FALSE]

\* A form in a Dialog: its submit button is disabled while the call is out.
FormDialog(on, perm, offered, op) == Control(on, perm, offered, op)

\* A ConfirmDialog: both buttons are disabled while the call is out; Escape, the
\* overlay and the corner cross are not.
Confirm(on, perm, offered, op) ==
    [Control(on, perm, offered, op) EXCEPT !.steps = "confirm"]

\* A MakerCheckerConfirmDialog after a form: the toast speaks of a request.
RequestDialog(on, perm, offered, op) ==
    [Control(on, perm, offered, op) EXCEPT !.steps = "form_confirm", !.says = "requested"]

\* A form that is a page of its own: success takes the user elsewhere.
PageForm(on, perm, offered, op) ==
    [Control(on, perm, offered, op) EXCEPT !.steps = "page", !.done = "leave"]

CreateForm(perm, op) == PageForm("row", perm, RowLife.states, op)
EditForm(perm, op) == PageForm("row", perm, {"present"}, op)

\* const [idemKey] = useState(() => crypto.randomUUID())
Keyed(c) == [c EXCEPT !.key = "mount"]

\* The button depends on the object's state, the dialog beside it does not.
Outliving(c) == [c EXCEPT !.outlives = TRUE]

-----------------------------------------------------------------------------
(* Platform: a tenant. *)

\* After success the wizard is at its provisioning step and the form is gone.
NewTenantWizard == CreateForm("platform.tenants.create", TenantsCreate)
EditTenantForm == EditForm("platform.tenants.write", TenantsPatch)

CancelTenantDialog ==
    RequestDialog("offboarding", "platform.tenants.offboard", {"active"}, TenantsCancel)

\* Mutant: the archive's checksum is not looked at.
RestoreButtonAlways ==
    Confirm("offboarding", "platform.tenants.offboard",
            {"cancelled", "read_only", "archived", "sealed"}, TenantsRestore)

\* RESTORABLE, and no archive_checksum yet.
RestoreButton ==
    Confirm("offboarding", "platform.tenants.offboard",
            {"cancelled", "read_only", "archived"}, TenantsRestore)

ExtendRetentionDialog ==
    FormDialog("offboarding", "platform.tenants.offboard",
               OffboardingLife.states \ {"active"}, TenantsExtendRetention)

\* Mutant: the page is not fetched again after the call.
TenantActionsWithoutRefresh ==
    Outliving([Confirm("tenant", "platform.tenants.write", {"suspended"}, TenantsReactivate)
        EXCEPT !.done = "keep"])

\* Reactivate; the other entries of TenantActions are links to pages.
TenantActions ==
    Outliving(Confirm("tenant", "platform.tenants.write", {"suspended"}, TenantsReactivate))

\* A maker-checker confirmation alone, and no router.refresh.
RetryProvisioningButton ==
    [Confirm("tenant", "platform.tenants.write", {"failed"}, TenantsRetryProvisioning)
        EXCEPT !.says = "requested", !.done = "keep"]

\* The page redirects to the tenant when it is suspended already.
SuspendTenantForm ==
    [PageForm("tenant", "platform.tenants.write", TenantLife.states \ {"suspended"},
              TenantsSuspend)
        EXCEPT !.steps = "page_confirm", !.says = "requested"]

\* Both close the dialog when the call fails; the answer replaces what is shown.
KycControl(offered, op) ==
    [Confirm("organizationKyc", "platform.tenants.write", offered, op)
        EXCEPT !.done = "patch", !.failed = "close"]

VerifyTenantKyc == KycControl({"complete"}, KycVerifyTenant)
UnverifyTenantKyc == KycControl({"verified"}, KycUnverifyTenant)

\* The wording of the toast is that of a request; the form is cleared, the page stays.
ImpersonateTenantPanel ==
    [PageForm("impersonation", "impersonation.start", ImpersonationLife.states,
              ImpersonationsRequest)
        EXCEPT !.steps = "page_confirm", !.says = "requested", !.done = "keep"]

CreateTenantUserForm == CreateForm("platform.tenants.users.write", TenantUsersCreate)
EditTenantUserForm == EditForm("platform.tenants.users.write", TenantUsersEdit)

\* The button calls at once and shows the token in a OneTimeModal.
ResetPasswordButton ==
    [Control("row", "platform.tenants.users.write", {"present"}, TenantUsersResetPassword)
        EXCEPT !.steps = "button", !.done = "keep"]

AssignPlanForm ==
    PageForm("subscription", "billing.write", SubscriptionLife.states, SubscriptionsCreate)

-----------------------------------------------------------------------------
(* Platform: users, billing, approvals, notifications, operations. *)

CreateUserForm == CreateForm("platform.users.write", UsersCreate)

\* The body always holds role and is_active; the form asks for a confirmation,
\* and speaks of a request, only when one of them was changed.
EditUserName == EditForm("platform.users.write", UsersUpdate)
EditUserAccess ==
    [EditUserName EXCEPT !.steps = "page_confirm", !.says = "requested"]

PlanForm == CreateForm("billing.write", PlansCreate)
EditPlanForm == EditForm("billing.write", PlansUpdate)

Cancellable == {"active", "trialing", "past_due"}

CancelSubscriptionNow ==
    Outliving(RequestDialog("subscription", "billing.write", Cancellable,
                            SubscriptionsCancelNow))
CancelSubscriptionAtPeriodEnd ==
    Outliving(FormDialog("subscription", "billing.write", Cancellable,
                         SubscriptionsCancelAtPeriodEnd))
ReactivateSubscription ==
    Outliving(Confirm("subscription", "billing.write", {"suspended", "past_due"},
                      SubscriptionsReactivate))

RecordPayment ==
    Keyed(Outliving(RequestDialog("invoice", "billing.read", {"issued", "partial", "overdue"},
                                  InvoicesRecordPayment)))
VoidInvoice ==
    Outliving(RequestDialog("invoice", "billing.write", {"draft", "issued", "overdue"},
                            InvoicesVoid))

\* Rows are the pending payments, whoever recorded them.
RejectPayment ==
    Outliving(FormDialog("payment", "billing.write", {"own", "pending"}, PaymentsReject))

\* Shown while the request is pending, whether or not the user has voted.
Decidable == {"pending", "voted"}
\* The toast reads "The operation has been executed."
ApprovePlatformRequest ==
    [FormDialog("request", "approvals.approve", Decidable, PlatformApprovalsApprove)
        EXCEPT !.says = "executed"]
RejectPlatformRequest ==
    FormDialog("request", "approvals.approve", Decidable, PlatformApprovalsReject)
\* Shown to the maker, whether or not a checker has acted.
Withdrawable == {"own", "backed"}
CancelPlatformRequest ==
    Confirm("request", "approvals.read", Withdrawable, PlatformApprovalsCancel)

EditTemplateDialog == FormDialog("row", "settings.read", {"present"}, TemplatesPatch)
ResendEvent ==
    Outliving(Confirm("delivery", "settings.read", {"sent", "failed"}, EventsResend))
VerifyNowButton == Confirm("drill", "operations.read", DrillLife.states, OpsVerify)

SaccoKycRequirementsForm ==
    [EditForm("settings.read", KycRequirementsPut) EXCEPT !.done = "patch"]
NotificationPreferencesForm == [EditForm("open", PreferencesPut) EXCEPT !.done = "keep"]

-----------------------------------------------------------------------------
(* Tenant: approvals, members and organization. *)

ApproveTenantRequest ==
    [FormDialog("request", "open", Decidable, TenantApprovalsApprove) EXCEPT !.says = "executed"]
RejectTenantRequest == FormDialog("request", "open", Decidable, TenantApprovalsReject)
CancelTenantRequest == Confirm("request", "open", Withdrawable, TenantApprovalsCancel)

CreateMemberForm == CreateForm("open", MembersRegister)

\* Every target is offered in every status.
ChangeMemberStatusButton(to) ==
    Keyed(RequestDialog("member", "open", MemberLife.states, MembersChangeStatus(to)))

ApproveKycSubmission == Confirm("submission", "open", {"pending"}, KycSubmissionsApprove)
RejectKycSubmission == FormDialog("submission", "open", {"pending"}, KycSubmissionsReject)

OrganizationKycScreen ==
    [PageForm("organizationKyc", "open", OrganizationKycLife.states, OrganizationKycPut)
        EXCEPT !.done = "patch"]
MemberKycRequirementsForm ==
    [EditForm("open", MemberKycRequirementsPut) EXCEPT !.done = "patch"]

-----------------------------------------------------------------------------
(* Tenant: savings, shares, fees and the ledger. *)

SavingsProductForm == CreateForm("open", SavingsProductsCreate)
OpenSavingsAccountForm == CreateForm("open", SavingsAccountsOpen)
\* Whatever the balance is.
SavingsDepositForm == Keyed(FormDialog("account", "open", AccountLife.states, SavingsDeposit))
SavingsWithdrawForm ==
    Keyed(RequestDialog("account", "open", AccountLife.states, SavingsWithdraw))

ShareProductForm == CreateForm("open", ShareProductsCreate)
OpenShareAccountForm == CreateForm("open", ShareAccountsOpen)
SharesPurchaseForm == Keyed(FormDialog("offer", "open", OfferLife.states, SharesPurchase))
SharesRedeemForm == Keyed(RequestDialog("account", "open", AccountLife.states, SharesRedeem))

CreateFeeTypeForm == CreateForm("open", FeeTypesCreate)
EditFeeTypeForm == [EditForm("open", FeeTypesUpdate) EXCEPT !.done = "refresh"]
CreateAssessmentForm == CreateForm("open", AssessmentsCreate)
RecordCollectionButton ==
    Keyed(FormDialog("assessment", "open", {"assessed", "partially_paid"}, AssessmentsCollect))

CreateAccountForm == CreateForm("open", AccountsCreate)
ManualGLForm == [Keyed(CreateForm("open", JournalSubmit)) EXCEPT !.says = "requested"]

-----------------------------------------------------------------------------
(* Tenant: credit.  The member's own screens. *)

LoanProductForm == CreateForm("open", LoanProductsCreate)
EditLoanProductForm == [EditForm("open", LoanProductsUpdate) EXCEPT !.done = "refresh"]

\* Mutant: a new key at every submission.
CreateApplicationFormNewKeys ==
    [CreateForm("open", ApplicationsSubmit) EXCEPT !.key = "call"]

CreateApplicationForm == Keyed(CreateForm("open", ApplicationsSubmit))

\* The page shows ApplicationActions while status === "pending", which no
\* application's status ever is.
ApplicationDecidable == {"pending"} \cap ApplicationLife.states
ApproveApplication == Confirm("application", "open", ApplicationDecidable, ApplicationsApprove)
RejectApplication == FormDialog("application", "open", ApplicationDecidable, ApplicationsReject)
WithdrawApplication == Confirm("application", "open", ApplicationDecidable, ApplicationsWithdraw)

\* Shown by the status alone; confirmed, then on to the loan.
DisburseButton ==
    [Keyed(Confirm("application", "open", {"approved", "unpayable"}, ApplicationsDisburse))
        EXCEPT !.done = "leave"]

\* Members that are no guarantors of the application yet, whatever its status is and
\* whatever the product asks for;
\* Accept and Decline are shown on rows with status "pending", which no
\* guarantor's status ever is.
NominateGuarantors ==
    Outliving(FormDialog("guarantor", "open", {"none", "unwanted"}, GuarantorsNominate))
ConsentShown == {"pending"} \cap GuarantorLife.states
AcceptGuarantor == Outliving(Confirm("guarantor", "open", ConsentShown, GuarantorsAccept))
DeclineGuarantor == Outliving(Confirm("guarantor", "open", ConsentShown, GuarantorsDecline))

RecordRepaymentButton == Keyed(FormDialog("loan", "open", LoanLife.states, LoansRepay))

WorkoutOffered == LoanLife.states \ {"written_off"}
WriteOffForm == Keyed(Outliving(FormDialog("loan", "open", WorkoutOffered, LoansWriteOff)))
WriteOffLargeForm ==
    [Keyed(Outliving(FormDialog("loan", "open", WorkoutOffered, LoansWriteOffLarge)))
        EXCEPT !.says = "requested"]
RestructureForm ==
    [Keyed(Outliving(FormDialog("loan", "open", WorkoutOffered, LoansRestructure)))
        EXCEPT !.says = "requested"]
RecoverForm == Keyed(Outliving(FormDialog("loan", "open", {"written_off"}, LoansRecover)))

CreatePayrollBatchForm == Keyed(CreateForm("open", PayrollSubmit))
RejectPayrollBatchButton == Confirm("batch", "open", {"pending_review"}, PayrollReject)

\* No key of its own: the client's middleware puts a new one on every call.
MemberApplySection ==
    [FormDialog("row", "open", RowLife.states, MemberApply) EXCEPT !.key = "call"]
MemberKycSection ==
    FormDialog("submission", "open", SubmissionLife.states \ {"pending"}, MemberKycSubmit)

=============================================================================
