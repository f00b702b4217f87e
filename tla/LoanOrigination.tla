-------------------------- MODULE LoanOrigination --------------------------
(***************************************************************************)
(* One loan application from submission to disbursement, with the          *)
(* guarantors nominated for it (app/modules/credit/services/application,   *)
(* guarantor, disbursement and the approval executor).                     *)
(*                                                                         *)
(* Decisions and consents read their rows without a lock and write them    *)
(* when their transaction commits, so each is two steps, and a call left   *)
(* open writes over what others have committed meanwhile.  Disbursement    *)
(* locks the application, therefore its reads and writes are one step      *)
(* after the unlocked look at its idempotency key.  What maker-checker     *)
(* does inside is MakerChecker's subject: here an approval is the call     *)
(* that reaches the quorum.                                                *)
(***************************************************************************)
EXTENDS Naturals, FiniteSets

CONSTANTS
    Guarantor,  \* the members nominated; required_guarantors is their number
    Key,        \* idempotency keys of disbursement calls
    Session     \* database sessions

VARIABLES
    app,        \* LoanApplication.status, "none" before it is submitted
    payable,    \* it has a disbursement account and is not to member_savings
    request,    \* status of its approval request
    granted,    \* history: the executor's work has been committed
    guarantor,  \* Guarantor -> LoanGuarantor.status
    consented,  \* guarantors whose consented_at is set
    pledged,    \* guarantors with loan_id set and a lien row
    loans,      \* idempotency keys of the committed loan rows
    journal,    \* keys of the committed loan-disb- entries
    call        \* Session -> the call it has open

originationVars ==
    <<app, payable, request, granted, guarantor, consented, pledged, loans, journal, call>>

\* The statuses that some line of the code assigns; draft, under_review and
\* cancelled exist in the schema only.
AppStatus ==
    {"none", "submitted", "approved", "rejected", "withdrawn", "disbursed"}

RequestStatus ==
    {"none", "pending", "executed", "rejected", "cancelled", "expired"}

ConsentStatus == {"none", "nominated", "accepted", "declined"}

\* A decision remembers the application status it read, a consent its
\* guarantor, a disbursement its key.
Decision == [op : {"approve", "reject", "withdraw"}, seen : AppStatus]
Consent == [op : {"accept", "decline"}, by : Guarantor]
Disbursement == [op : {"disburse"}, key : Key]
Idle == [op |-> "idle"]

OriginationTypeOK ==
    /\ app \in AppStatus
    /\ payable \in BOOLEAN
    /\ request \in RequestStatus
    /\ granted \in BOOLEAN
    /\ guarantor \in [Guarantor -> ConsentStatus]
    /\ consented \subseteq Guarantor
    /\ pledged \subseteq Guarantor
    /\ loans \subseteq Key
    /\ journal \subseteq Key
    /\ call \in [Session -> Decision \cup Consent \cup Disbursement \cup {Idle}]

OriginationInit ==
    /\ app = "none"
    /\ payable = FALSE
    /\ request = "none"
    /\ granted = FALSE
    /\ guarantor = [g \in Guarantor |-> "none"]
    /\ consented = {}
    /\ pledged = {}
    /\ loans = {}
    /\ journal = {}
    /\ call = [s \in Session |-> Idle]

-----------------------------------------------------------------------------
\* LoanApplicationService.submit: the row and its approval request in one
\* transaction.  A member's own application names no account.
Submit(p) ==
    /\ app = "none"
    /\ app' = "submitted"
    /\ payable' = p
    /\ request' = "pending"
    /\ UNCHANGED <<granted, guarantor, consented, pledged, loans, journal, call>>

\* GuarantorService.nominate: exactly the required number, one row per
\* application and member; the status of the application is not looked at.
Nominate ==
    /\ app # "none"
    /\ Guarantor # {}
    /\ \A g \in Guarantor : guarantor[g] = "none"
    /\ guarantor' = [g \in Guarantor |-> "nominated"]
    /\ UNCHANGED <<app, payable, request, granted, consented, pledged, loans,
                   journal, call>>

\* The request ends without the credit module: the endpoints of maker-checker
\* reject or cancel it, or the sweep expires it; the application stays as it is.
EndRequest(r) ==
    /\ request = "pending"
    /\ request' = r
    /\ UNCHANGED <<app, payable, granted, guarantor, consented, pledged, loans,
                   journal, call>>

-----------------------------------------------------------------------------
\* The reads of a call, which then has its transaction open.

Open(s, c) ==
    /\ call[s] = Idle
    /\ call' = [call EXCEPT ![s] = c]
    /\ UNCHANGED <<app, payable, request, granted, guarantor, consented,
                   pledged, loans, journal>>

\* approve_loan_application, ApprovalService.approve and the executor's guard.
OpenApprove(s) ==
    /\ request = "pending"
    /\ Open(s, [op |-> "approve", seen |-> app])

\* LoanApplicationService.reject: an undecided application, a pending request.
OpenReject(s) ==
    /\ app = "submitted"
    /\ request = "pending"
    /\ Open(s, [op |-> "reject", seen |-> app])

\* LoanApplicationService.withdraw; a disbursed application passes its check
\* and is refused for the sake of its request.
OpenWithdraw(s) ==
    /\ app \notin {"none", "approved", "rejected", "withdrawn"}
    /\ request = "pending"
    /\ Open(s, [op |-> "withdraw", seen |-> app])

\* GuarantorService.accept and decline.
OpenConsent(s, op, g) ==
    /\ guarantor[g] = "nominated"
    /\ Open(s, [op |-> op, by |-> g])

\* LoanDisbursementService.disburse, step 1: the key is not used.
OpenDisburse(s, k) ==
    /\ k \notin loans
    /\ Open(s, [op |-> "disburse", key |-> k])

-----------------------------------------------------------------------------
\* The writes of a call and its commit.

Close(s) == call' = [call EXCEPT ![s] = Idle]

\* The executor writes approved whatever the status has become, unless it had
\* read approved.
Approve(s) ==
    /\ call[s].op = "approve"
    /\ request' = "executed"
    /\ app' = IF call[s].seen = "approved" THEN app ELSE "approved"
    /\ granted' = TRUE
    /\ Close(s)
    /\ UNCHANGED <<payable, guarantor, consented, pledged, loans, journal>>

Reject(s) ==
    /\ call[s].op = "reject"
    /\ request' = "rejected"
    /\ app' = "rejected"
    /\ Close(s)
    /\ UNCHANGED <<payable, granted, guarantor, consented, pledged, loans,
                   journal>>

\* Faulty variant: the request takes over the status of the application.
Withdraw_SameWord(s) ==
    /\ call[s].op = "withdraw"
    /\ request' = "withdrawn"
    /\ app' = "withdrawn"
    /\ Close(s)
    /\ UNCHANGED <<payable, granted, guarantor, consented, pledged, loans,
                   journal>>

Withdraw(s) ==
    /\ call[s].op = "withdraw"
    /\ request' = "cancelled"
    /\ app' = "withdrawn"
    /\ Close(s)
    /\ UNCHANGED <<payable, granted, guarantor, consented, pledged, loans,
                   journal>>

Accept(s) ==
    /\ call[s].op = "accept"
    /\ guarantor' = [guarantor EXCEPT ![call[s].by] = "accepted"]
    /\ consented' = consented \cup {call[s].by}
    /\ Close(s)
    /\ UNCHANGED <<app, payable, request, granted, pledged, loans, journal>>

Decline(s) ==
    /\ call[s].op = "decline"
    /\ guarantor' = [guarantor EXCEPT ![call[s].by] = "declined"]
    /\ Close(s)
    /\ UNCHANGED <<app, payable, request, granted, consented, pledged, loans,
                   journal>>

\* Faulty variant: every nominated guarantor is taken.
Accepted_AnyNominated == {g \in Guarantor : guarantor[g] # "none"}

\* The guarantors place_liens finds.
Accepted == {g \in Guarantor : guarantor[g] = "accepted"}

\* Faulty variant: loans without uq_ln_application_id.
IsFirstLoan_NoUniqueKey == TRUE

\* uq_ln_application_id: one loan row per application.
IsFirstLoan == loans = {}

\* The status check under the lock.
MayBeDisbursed == app = "approved"

\* Steps 2 to 11: lock the application, create the loan, post the entry,
\* place the liens.
Disburse(s) ==
    /\ call[s].op = "disburse"
    /\ MayBeDisbursed
    /\ payable
    /\ IsFirstLoan
    /\ loans' = loans \cup {call[s].key}
    /\ journal' = journal \cup {call[s].key}
    /\ pledged' = pledged \cup Accepted
    /\ app' = "disbursed"
    /\ Close(s)
    /\ UNCHANGED <<payable, request, granted, guarantor, consented>>

\* A call that is refused, fails or dies: its transaction rolls back.
Abandon(s) ==
    /\ call[s] # Idle
    /\ Close(s)
    /\ UNCHANGED <<app, payable, request, granted, guarantor, consented,
                   pledged, loans, journal>>

OriginationNext ==
    \/ \E p \in BOOLEAN : Submit(p)
    \/ Nominate
    \/ \E r \in {"rejected", "cancelled", "expired"} : EndRequest(r)
    \/ \E s \in Session :
          \/ OpenApprove(s) \/ OpenReject(s) \/ OpenWithdraw(s)
          \/ \E g \in Guarantor, op \in {"accept", "decline"} : OpenConsent(s, op, g)
          \/ \E k \in Key : OpenDisburse(s, k)
          \/ Approve(s) \/ Reject(s) \/ Withdraw(s)
          \/ Accept(s) \/ Decline(s)
          \/ Disburse(s)
          \/ Abandon(s)

OriginationSpec == OriginationInit /\ [][OriginationNext]_originationVars

-----------------------------------------------------------------------------
(***************************************************************************)
(* The money leaves once: although an approval that commits late puts a    *)
(* disbursed application back to approved, there is never a second loan    *)
(* nor a second disbursement entry.                                        *)
(***************************************************************************)
DisbursedOnce == loans = journal /\ Cardinality(journal) <= 1

(***************************************************************************)
(* No money leaves without an approval whose executor has committed, and   *)
(* no guarantor carries a lien who never gave consent, whatever decisions  *)
(* and consents overlap with the disbursement.                             *)
(***************************************************************************)
LoanRestsOnConsent ==
    /\ loans # {} => granted
    /\ pledged # {} => loans # {}
    /\ pledged \subseteq consented

(***************************************************************************)
(* The design's consent gate: an application is not approved before all    *)
(* its required guarantors have accepted.  GuarantorService.all_accepted   *)
(* would tell, and nothing calls it.                                       *)
(***************************************************************************)
ConsentGate == granted => consented = Guarantor
=============================================================================
