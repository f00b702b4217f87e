----------------------------- MODULE PortalApi -----------------------------
(***************************************************************************)
(* What the API promises the portal: the life of every kind of object that *)
(* a screen of the portal shows, and for every operation the portal calls  *)
(* who may call it, in which states of the object, whether it acts at once *)
(* or files a maker-checker request, in which states the executor of that  *)
(* request acts, what becomes of the object, and what keeps a repeated     *)
(* call from acting twice.                                                 *)
(*                                                                         *)
(* This is the promise the portal is written against; the modules          *)
(* MakerChecker, Savings, Loan and LoanOrigination model the services      *)
(* behind some of the operations in detail.                                *)
(***************************************************************************)

(* Lives: the states of an object, and the moves that other users, members,
   executors of earlier requests and background jobs may make. *)

Life(states, steps) == [states |-> states, moves |-> steps]

\* Rows that a form creates or overwrites and that have no state of their own.
RowLife == Life({"absent", "present"}, {<<"absent", "present">>})

TenantLife ==
    Life({"provisioning", "failed", "active", "suspended"},
         {<<"provisioning", "active">>, <<"provisioning", "failed">>,
          <<"failed", "provisioning">>, <<"active", "suspended">>,
          <<"suspended", "active">>})

\* "sealed": archived, with the checksum of the physical archive set.
OffboardingLife ==
    Life({"active", "cancelled", "read_only", "archived", "sealed", "hard_deleted"},
         {<<"active", "cancelled">>, <<"cancelled", "read_only">>,
          <<"read_only", "archived">>, <<"archived", "sealed">>,
          <<"sealed", "hard_deleted">>, <<"cancelled", "active">>,
          <<"read_only", "active">>, <<"archived", "active">>})

OrganizationKycLife ==
    Life({"incomplete", "complete", "verified"},
         {<<"incomplete", "complete">>, <<"complete", "incomplete">>,
          <<"complete", "verified">>, <<"verified", "complete">>,
          <<"verified", "incomplete">>})

\* "none": the tenant has no live subscription.
SubscriptionLife ==
    Life({"none", "trialing", "active", "past_due", "suspended", "cancelled"},
         {<<"none", "trialing">>, <<"trialing", "active">>, <<"active", "past_due">>,
          <<"past_due", "suspended">>, <<"past_due", "active">>,
          <<"suspended", "active">>, <<"active", "cancelled">>,
          <<"past_due", "cancelled">>})

\* "partial" and "paid" have something paid; void needs amount_paid = 0.
InvoiceLife ==
    Life({"draft", "issued", "overdue", "partial", "paid", "void"},
         {<<"draft", "issued">>, <<"issued", "overdue">>, <<"issued", "partial">>,
          <<"overdue", "partial">>, <<"partial", "paid">>, <<"issued", "paid">>,
          <<"issued", "void">>, <<"overdue", "void">>})

\* "own": pending, and recorded by the user at this portal.
PaymentLife ==
    Life({"own", "pending", "confirmed", "rejected"},
         {<<"own", "confirmed">>, <<"pending", "confirmed">>, <<"pending", "rejected">>})

\* "own": pending, and submitted by the user at this portal; "backed": own, with
\* the vote of a checker and short of the quorum; "voted": pending, with a vote of
\* that user and short of the quorum.
RequestLife ==
    Life({"own", "backed", "pending", "voted", "executed", "execution_failed", "rejected",
          "cancelled", "expired"},
         {<<"own", "backed">>, <<"own", "executed">>, <<"own", "rejected">>,
          <<"own", "expired">>, <<"backed", "executed">>, <<"backed", "execution_failed">>,
          <<"backed", "rejected">>, <<"pending", "executed">>, <<"pending", "rejected">>,
          <<"pending", "cancelled">>, <<"pending", "expired">>, <<"voted", "executed">>,
          <<"voted", "execution_failed">>})

DeliveryLife ==
    Life({"queued", "sent", "failed"},
         {<<"queued", "sent">>, <<"queued", "failed">>, <<"failed", "queued">>})

\* "running": the scheduled drill, or one that somebody asked for, is under way.
DrillLife == Life({"idle", "running"}, {<<"idle", "running">>, <<"running", "idle">>})

ImpersonationLife == Life({"none", "open"}, {<<"none", "open">>, <<"open", "none">>})

MemberLife ==
    Life({"pending", "active", "suspended", "exited"},
         {<<"pending", "active">>, <<"active", "suspended">>, <<"suspended", "active">>,
          <<"active", "exited">>})

\* "none": the member has no submission under review.
SubmissionLife ==
    Life({"none", "pending", "approved", "rejected"},
         {<<"none", "pending">>, <<"pending", "approved">>, <<"pending", "rejected">>,
          <<"rejected", "pending">>})

\* "unpayable": approved, to be paid to the member's savings or without an account
\* to be paid from, as every application of a member is.
ApplicationLife ==
    Life({"submitted", "under_review", "approved", "unpayable", "rejected", "withdrawn",
          "disbursed"},
         {<<"submitted", "under_review">>, <<"submitted", "approved">>,
          <<"submitted", "unpayable">>, <<"under_review", "approved">>,
          <<"under_review", "unpayable">>, <<"submitted", "rejected">>,
          <<"submitted", "withdrawn">>, <<"approved", "disbursed">>})

\* "none": the member is no guarantor of the application; "unwanted": nor may any
\* member be, as the loan product asks for no guarantors.
GuarantorLife ==
    Life({"none", "unwanted", "nominated", "accepted", "declined", "released"},
         {<<"none", "nominated">>, <<"nominated", "accepted">>,
          <<"nominated", "declined">>, <<"accepted", "released">>})

LoanLife ==
    Life({"disbursed", "in_arrears", "closed", "written_off"},
         {<<"disbursed", "in_arrears">>, <<"in_arrears", "disbursed">>,
          <<"disbursed", "closed">>, <<"in_arrears", "written_off">>,
          <<"written_off", "in_arrears">>})

AssessmentLife ==
    Life({"assessed", "partially_paid", "paid", "waived", "cancelled"},
         {<<"assessed", "partially_paid">>, <<"partially_paid", "paid">>,
          <<"assessed", "waived">>, <<"assessed", "cancelled">>})

BatchLife ==
    Life({"pending_review", "applied", "rejected"},
         {<<"pending_review", "applied">>, <<"pending_review", "rejected">>})

\* "bare": nothing can be taken out, as the balance is at the account's minimum, or
\* no shares are held.
AccountLife == Life({"open", "bare"}, {<<"open", "bare">>, <<"bare", "open">>})

\* "closed": the share product is inactive, or the account holds its maximum.
OfferLife == Life({"open", "closed"}, {<<"open", "closed">>, <<"closed", "open">>})

Lives ==
    [row |-> RowLife, tenant |-> TenantLife, offboarding |-> OffboardingLife,
     organizationKyc |-> OrganizationKycLife, subscription |-> SubscriptionLife,
     invoice |-> InvoiceLife, payment |-> PaymentLife, request |-> RequestLife,
     delivery |-> DeliveryLife, drill |-> DrillLife, impersonation |-> ImpersonationLife,
     member |-> MemberLife, submission |-> SubmissionLife,
     application |-> ApplicationLife, guarantor |-> GuarantorLife, loan |-> LoanLife,
     assessment |-> AssessmentLife, batch |-> BatchLife, account |-> AccountLife,
     offer |-> OfferLife]

-----------------------------------------------------------------------------
(* Operations. *)

Kept == {}   \* the object keeps its state

(* role: the least role that may call it ("any": every user of the area).
   accepts: the states in which the call is accepted.
   applies: the call acts itself; files: it leaves a maker-checker request.
   runs: the states in which the executor of that request acts.
   to: the states the object may be left in; Kept: the one it is in.
   once: what a repetition meets:
     "key"        the call looks its key up before anything else, and the key is a
                  unique column of the row that the call writes;
     "lookup"     the call looks its key up before anything else, and a repetition
                  that looked before the first one committed meets nothing else;
     "execution"  the executor looks the key up, and it is unique in what he writes;
     "entry"      the call and the executor look the key up among the journal entries,
                  and executors that overlap meet nothing else;
     "set"        writing the same values again changes nothing;
     "guard"      nothing but the states above. *)
Direct(least, accepts, to, once) ==
    [role |-> least, accepts |-> accepts, applies |-> TRUE, files |-> FALSE,
     runs |-> {}, to |-> to, once |-> once]

Filed(least, accepts, runs, to, once) ==
    [role |-> least, accepts |-> accepts, applies |-> FALSE, files |-> TRUE,
     runs |-> runs, to |-> to, once |-> once]

\* A create that refuses a second row with the same natural key.
CreateUnique(least) == Direct(least, {"absent"}, {"present"}, "guard")
\* A create that has no natural key: every call makes another row.
CreateAnother(least) == Direct(least, RowLife.states, {"present"}, "guard")
\* An update that writes the fields it is given.
Overwrite(least) == Direct(least, {"present"}, Kept, "set")

(* Platform: tenants. *)
TenantsCreate == CreateUnique("superuser")
TenantsPatch == Overwrite("admin")
TenantsSuspend ==
    Filed("admin", TenantLife.states \ {"suspended"}, TenantLife.states, {"suspended"}, "set")
TenantsReactivate == Direct("admin", {"suspended"}, {"active"}, "guard")
\* The executor dispatches the provisioning job whatever the tenant's state.
TenantsRetryProvisioning ==
    Filed("admin", {"failed"}, TenantLife.states, {"provisioning"}, "guard")
TenantsCancel == Filed("superuser", {"active"}, {"active"}, {"cancelled"}, "guard")
TenantsRestore ==
    Direct("superuser", {"cancelled", "read_only", "archived"}, {"active"}, "guard")
TenantsExtendRetention == Direct("superuser", OffboardingLife.states, Kept, "set")
KycVerifyTenant == Direct("admin", {"complete", "verified"}, {"verified"}, "set")
KycUnverifyTenant ==
    Direct("admin", OrganizationKycLife.states, {"incomplete", "complete"}, "set")
ImpersonationsRequest ==
    Filed("any", ImpersonationLife.states, ImpersonationLife.states, {"open"}, "guard")
TenantUsersCreate == CreateUnique("admin")
TenantUsersEdit == Overwrite("admin")
TenantUsersResetPassword == Direct("admin", {"present"}, Kept, "guard")

(* Platform: users, billing, approvals, notifications, operations. *)
UsersCreate == CreateUnique("superuser")
\* The name is written at once; role or is_active in the body files a request too.
UsersUpdate ==
    [Overwrite("superuser") EXCEPT !.files = TRUE, !.runs = {"present"}]
PlansCreate == CreateUnique("admin")
PlansUpdate == Overwrite("admin")
SubscriptionsCreate ==
    Direct("admin", {"none", "suspended", "cancelled"}, {"trialing", "active"}, "guard")
SubscriptionsCancelNow ==
    Filed("admin", SubscriptionLife.states \ {"none"}, SubscriptionLife.states \ {"none"},
          {"cancelled"}, "set")
SubscriptionsCancelAtPeriodEnd ==
    Direct("admin", SubscriptionLife.states \ {"none", "cancelled"}, Kept, "set")
SubscriptionsReactivate == Direct("admin", {"past_due", "suspended"}, {"active"}, "guard")
InvoicesVoid ==
    Filed("admin", InvoiceLife.states, {"draft", "issued", "overdue"}, {"void"}, "guard")
InvoicesRecordPayment ==
    Filed("finance", InvoiceLife.states, InvoiceLife.states \ {"paid"}, {"partial", "paid"},
          "key")
PaymentsReject == Direct("admin", {"pending"}, {"rejected"}, "guard")
\* Short of the quorum the vote is all; at the quorum the executor runs, and what it
\* raises is answered as a success too.
Voted == {"voted", "executed", "execution_failed"}
PlatformApprovalsApprove == Direct("admin", {"pending"}, Voted, "guard")
PlatformApprovalsReject == Direct("admin", {"pending"}, {"rejected"}, "guard")
PlatformApprovalsCancel == Direct("admin", {"own"}, {"cancelled"}, "guard")
TemplatesPatch == Overwrite("admin")
EventsResend == Direct("admin", {"sent", "failed"}, {"queued"}, "guard")
OpsVerify == Direct("superuser", {"idle"}, {"running"}, "guard")
KycRequirementsPut == Overwrite("admin")
PreferencesPut == Overwrite("any")

(* Tenant: approvals, members, savings, shares. *)
TenantApprovalsApprove == Direct("any", {"pending"}, Voted, "guard")
TenantApprovalsReject == Direct("any", {"pending"}, {"rejected"}, "guard")
TenantApprovalsCancel == Direct("any", {"own"}, {"cancelled"}, "guard")
\* Email and national id are unique when given; both are optional.
MembersRegister == CreateAnother("any")
\* Submitted only along a legal transition, executed whatever the status is then.
MembersChangeStatus(to) ==
    Filed("any",
          CASE to = "active" -> {"pending", "suspended"}
            [] to = "suspended" -> {"active"}
            [] to = "exited" -> {"pending", "active", "suspended"},
          MemberLife.states, {to}, "set")
KycSubmissionsApprove == Direct("any", {"pending"}, {"approved"}, "guard")
KycSubmissionsReject == Direct("any", {"pending"}, {"rejected"}, "guard")
OrganizationKycPut ==
    Direct("any", OrganizationKycLife.states, {"incomplete", "complete"}, "set")
MemberKycRequirementsPut == Overwrite("any")
SavingsProductsCreate == CreateAnother("any")
SavingsAccountsOpen == CreateUnique("any")
SavingsDeposit == Direct("any", AccountLife.states, {"open", "bare"}, "key")
\* The key is looked for among the requests, where nothing makes it unique; the
\* executor looks for it among the transactions, where it is, and at no balance.
SavingsWithdraw == Filed("any", {"open"}, AccountLife.states, {"open", "bare"}, "lookup")
ShareProductsCreate == CreateAnother("any")
ShareAccountsOpen == CreateUnique("any")
SharesPurchase == Direct("any", {"open"}, {"open", "closed"}, "key")
SharesRedeem == Filed("any", {"open"}, AccountLife.states, {"open", "bare"}, "lookup")

(* Tenant: credit, fees, ledger; the member's own operations. *)
LoanProductsCreate == CreateAnother("any")
LoanProductsUpdate == Overwrite("any")
ApplicationsSubmit == Direct("any", RowLife.states, {"present"}, "key")
ApplicationsApprove ==
    Direct("any", {"submitted", "under_review"},
           {"submitted", "under_review", "approved", "unpayable"}, "guard")
ApplicationsReject == Direct("any", {"submitted", "under_review"}, {"rejected"}, "guard")
ApplicationsWithdraw == Direct("any", {"submitted", "under_review"}, {"withdrawn"}, "guard")
\* member_savings, and an application without an account, are refused.
ApplicationsDisburse == Direct("any", {"approved"}, {"disbursed"}, "key")
\* As many members as the product requires, which must not be none.
GuarantorsNominate == Direct("any", {"none"}, {"nominated"}, "guard")
GuarantorsAccept == Direct("any", {"nominated"}, {"accepted"}, "guard")
GuarantorsDecline == Direct("any", {"nominated"}, {"declined"}, "guard")
LoansRepay == Direct("any", {"disbursed", "in_arrears"}, {"disbursed", "in_arrears", "closed"}, "key")
\* Up to the product's threshold, and above it; the executors of a write-off and
\* of a restructuring do not look at the loan's status again.  The key is that of
\* the journal entry, which is returned, and not refused, when it is found posted.
LoansWriteOff ==
    Direct("any", {"disbursed", "in_arrears"}, {"disbursed", "in_arrears", "written_off"},
           "lookup")
LoansWriteOffLarge ==
    Filed("any", {"disbursed", "in_arrears"}, LoanLife.states,
          {"disbursed", "in_arrears", "written_off"}, "entry")
LoansRecover == Direct("any", {"written_off"}, {"in_arrears"}, "lookup")
LoansRestructure ==
    Filed("any", {"disbursed", "in_arrears"}, LoanLife.states, Kept, "execution")
PayrollSubmit == Direct("any", RowLife.states, {"present"}, "key")
PayrollReject == Direct("any", {"pending_review"}, {"rejected"}, "guard")
FeeTypesCreate == CreateUnique("any")
FeeTypesUpdate == Overwrite("any")
\* A second assessment of the same type, target and period returns the first.
AssessmentsCreate == Direct("any", RowLife.states, {"present"}, "set")
AssessmentsCollect ==
    Direct("any", {"assessed", "partially_paid"}, {"partially_paid", "paid"}, "key")
AccountsCreate == CreateUnique("any")
JournalSubmit == Filed("any", RowLife.states, RowLife.states, {"present"}, "execution")
\* The key is read from the Idempotency-Key header.
MemberApply == Direct("any", RowLife.states, {"present"}, "key")
MemberKycSubmit == Direct("any", SubmissionLife.states, {"pending"}, "set")

=============================================================================
