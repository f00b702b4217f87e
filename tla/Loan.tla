-------------------------------- MODULE Loan --------------------------------
(***************************************************************************)
(* One disbursed reducing-balance loan until it is settled                 *)
(* (app/modules/credit: repayment, write_off, guarantor, beat, the         *)
(* write-off executor, and what the event consumer does to the row).       *)
(*                                                                         *)
(* A service call looks its idempotency key up without a lock; then it     *)
(* locks the loan row, so that what it reads, decides and writes from there*)
(* to its commit is one step.  The beat jobs take no lock: they read the   *)
(* loan, later its instalments, and write ABSOLUTE values of the columns   *)
(* they touch when their turn comes.  An UPDATE waits for the lock of an   *)
(* open call and then writes over what that call has committed.            *)
(*                                                                         *)
(* current_lien is kept times the number of guarantors: every guarantor    *)
(* holds an equal share, and no share is rounded.                          *)
(***************************************************************************)
EXTENDS Integers, FiniteSets, FiniteSetsExt, Functions

CONSTANTS
    Guarantor,     \* guarantors pledged at disbursement
    Instalment,    \* period numbers; period n falls due on day n
    PrincipalDue,  \* Instalment -> principal_due
    InterestDue,   \* Instalment -> interest_due
    Principal,     \* principal_amount
    Threshold,     \* write_off_threshold of the product
    Key,           \* idempotency keys the callers use
    Amount,        \* amounts they ask for
    Session,       \* database sessions
    Workers,       \* Celery worker processes: jobs that run at a time
    LastDay,       \* bound on the calendar
    MaxPenalties   \* bound on accrued_penalties

\* The interest of several instalments.
TotalInterest(S) == SumFunctionOnSet(InterestDue, S)

ASSUME ScheduleAssumption ==
    /\ Instalment \subseteq Nat \ {0} /\ IsFiniteSet(Instalment)
    /\ PrincipalDue \in [Instalment -> Nat]
    /\ InterestDue \in [Instalment -> Nat]
ASSUME PrincipalAssumption == Principal \in Nat \ {0}
ASSUME AmountAssumption == Amount \subseteq Nat \ {0} /\ Threshold \in Nat
ASSUME BoundAssumption == {Workers, LastDay, MaxPenalties} \subseteq Nat

VARIABLES
    loan,      \* the balance snapshot and status of the loan row
    inst,      \* Instalment -> what is paid of it, and its status
    lien,      \* Guarantor -> status of the guarantor and its lien row
    rows,      \* committed loan_repayments
    journal,   \* committed entries against the principal receivable
    accrued,   \* instalments with a committed loan-accrue- entry
    requests,  \* credit.write_off approval requests not yet carried out
    day,       \* today
    call,      \* Session -> the call it has open
    accrual,   \* the daily accrual job
    arrears    \* the daily arrears job

vars == <<loan, inst, lien, rows, journal, accrued, requests, day, call,
          accrual, arrears>>

Active == {"disbursed", "in_arrears"}
Settled == {"closed", "written_off"}

Snapshot ==
    [status : Active \cup Settled, outstanding : Nat, interest : Nat,
     penalties : Nat, paidP : Nat, paidI : Nat, writtenOff : Nat]

Paid == [p : Nat, i : Nat, status : {"pending", "partial", "overdue", "paid"}]

Lien == [status : {"accepted", "released"}, active : BOOLEAN, current : Nat]

Repayment == [key : Key, principal : Nat, interest : Nat]

Entry == [ns : {"rpy", "wo", "wor"}, key : Key, amount : Nat]

WriteOffRequest == [key : Key, amount : Amount]

Call == [op : {"repay", "write_off", "execute", "recover"}, key : Key,
         amount : Amount]
Idle == [op |-> "idle"]

\* The jobs hold the date they started on and what they have read.
Accruing == [pc : {"list", "post"}, today : 0 .. LastDay, seen : Nat,
             todo : SUBSET Instalment]
Marking == [pc : {"look", "write"}, today : 0 .. LastDay, status : Active,
            late : SUBSET Instalment]
Off == [pc |-> "off"]

TypeOK ==
    /\ loan \in Snapshot
    /\ inst \in [Instalment -> Paid]
    /\ lien \in [Guarantor -> Lien]
    /\ rows \subseteq Repayment
    /\ journal \subseteq Entry
    /\ accrued \subseteq Instalment
    /\ requests \subseteq WriteOffRequest
    /\ day \in 0 .. LastDay
    /\ call \in [Session -> Call \cup {Idle}]
    /\ accrual \in Accruing \cup {Off}
    /\ arrears \in Marking \cup {Off}

\* What LoanDisbursementService.disburse commits.
Init ==
    /\ loan = [status |-> "disbursed", outstanding |-> Principal,
               interest |-> 0, penalties |-> 0, paidP |-> 0, paidI |-> 0,
               writtenOff |-> 0]
    /\ inst = [n \in Instalment |-> [p |-> 0, i |-> 0, status |-> "pending"]]
    /\ lien = [g \in Guarantor |->
                  [status |-> "accepted", active |-> TRUE, current |-> Principal]]
    /\ rows = {}
    /\ journal = {}
    /\ accrued = {}
    /\ requests = {}
    /\ day = 0
    /\ call = [s \in Session |-> Idle]
    /\ accrual = Off
    /\ arrears = Off

-----------------------------------------------------------------------------
\* The first, unlocked half of a call: the lookup of its idempotency key.

\* Faulty variant: the key does not carry the name of its operation.
Posted_AnyOperation(ns, k) == \E e \in journal : e.key = k

\* An entry is found under loan-<ns>-<key>.
Posted(ns, k) == \E e \in journal : e.ns = ns /\ e.key = k

Open(s, op, k, m) ==
    /\ call[s] = Idle
    /\ call' = [call EXCEPT ![s] = [op |-> op, key |-> k, amount |-> m]]
    /\ UNCHANGED <<loan, inst, lien, rows, journal, accrued, requests, day,
                   accrual, arrears>>

OpenRepay(s, k, m) ==
    /\ ~ \E r \in rows : r.key = k
    /\ Open(s, "repay", k, m)

OpenWriteOff(s, k, m) ==
    /\ ~ Posted("wo", k)
    /\ Open(s, "write_off", k, m)

\* The approval that reaches the quorum runs execute_write_off.
OpenExecute(s, q) ==
    /\ q \in requests
    /\ ~ Posted("wo", q.key)
    /\ Open(s, "execute", q.key, q.amount)

OpenRecover(s, k, m) ==
    /\ ~ Posted("wor", k)
    /\ Open(s, "recover", k, m)

Calling(s, op) == call[s].op = op

Close(s) == call' = [call EXCEPT ![s] = Idle]

\* The call is refused, fails or dies: its transaction rolls back.
Abandon(s) ==
    /\ call[s] # Idle
    /\ Close(s)
    /\ UNCHANGED <<loan, inst, lien, rows, journal, accrued, requests, day,
                   accrual, arrears>>

\* LedgerService.post_journal_entry: an entry found under the key stays as it
\* is, and the caller is not told.
PostEntry(ns, k, m) ==
    journal' = IF Posted(ns, k) THEN journal
               ELSE journal \cup {[ns |-> ns, key |-> k, amount |-> m]}

-----------------------------------------------------------------------------
\* Guarantor liens.

\* adjust_liens, on an active lien.
Reduced(l, m) ==
    IF l.active THEN [l EXCEPT !.current = Max({0, @ - m})] ELSE l

\* release_liens.
ReleasedLien(l) ==
    [status |-> "released", active |-> FALSE,
     current |-> IF l.active THEN 0 ELSE l.current]

\* Faulty variant: the restored amount is added to the lien placed at first.
Reactivated_OnTop(l, m) ==
    IF l.status = "released"
    THEN [status |-> "accepted", active |-> TRUE, current |-> Principal + m]
    ELSE l

\* reactivate_liens.
Reactivated(l, m) ==
    IF l.status = "released"
    THEN [status |-> "accepted", active |-> TRUE,
          current |-> IF l.active THEN l.current ELSE m]
    ELSE l

-----------------------------------------------------------------------------
\* Repayment.

\* What total pours into instalment n when the open instalments are filled in
\* the order of their periods; room[n] is what n can still take.
OpenBefore(n) == {j \in Instalment : inst[j].status # "paid" /\ j < n}

Left(total, room, n) ==
    total - SumFunctionOnSet(room, OpenBefore(n))

Poured(total, room, n) == Max({0, Min({room[n], Left(total, room, n)})})

RoomP == [n \in Instalment |-> PrincipalDue[n] - inst[n].p]
RoomI == [n \in Instalment |-> InterestDue[n] - inst[n].i]

\* Faulty variant: the query asks for pending and partial instalments only.
Allocated_NotLate(n, p, i) ==
    LET x == [inst[n] EXCEPT !.p = @ + Poured(p, RoomP, n),
                             !.i = @ + Poured(i, RoomI, n)]
        full == x.p >= PrincipalDue[n] /\ x.i >= InterestDue[n]
    IN  IF \/ inst[n].status \in {"paid", "overdue"}
           \/ Left(p, RoomP, n) <= 0 /\ Left(i, RoomI, n) <= 0
        THEN inst[n]
        ELSE [x EXCEPT !.status = IF full THEN "paid"
                                  ELSE IF x.p > 0 \/ x.i > 0 THEN "partial" ELSE @]

\* _update_installments.
Allocated(n, p, i) ==
    LET x == [inst[n] EXCEPT !.p = @ + Poured(p, RoomP, n),
                             !.i = @ + Poured(i, RoomI, n)]
        full == x.p >= PrincipalDue[n] /\ x.i >= InterestDue[n]
    IN  IF \/ inst[n].status = "paid"
           \/ Left(p, RoomP, n) <= 0 /\ Left(i, RoomI, n) <= 0
        THEN inst[n]
        ELSE [x EXCEPT !.status = IF full THEN "paid"
                                  ELSE IF x.p > 0 \/ x.i > 0 THEN "partial" ELSE @]

\* uq_lr_idempotency_key.
IsNewRow(k) == ~ \E r \in rows : r.key = k

\* Faulty variant: closure looks at the principal before it is paid down.
IsClosed_EarlyLook(l) == l.interest = 0 /\ l.penalties = 0

\* Step 9, closure detection.
IsClosed(l) == l.outstanding = 0 /\ l.interest = 0 /\ l.penalties = 0

\* apply_repayment from the lock on.  Interest first, then principal, then
\* penalties.  The entry has no line for penalties and the ledger takes no
\* line of zero: when a penalty would be paid, or nothing is applied, posting
\* the entry raises.
Repay(s) ==
    LET k == call[s].key
        m == call[s].amount
        i == Min({m, loan.interest})
        p == Min({m - i, loan.outstanding})
        after == [loan EXCEPT !.interest = @ - i, !.outstanding = @ - p,
                              !.paidI = @ + i, !.paidP = @ + p]
        closed == IsClosed(after)
    IN
    /\ Calling(s, "repay")
    /\ loan.status \notin Settled
    /\ Min({m - i - p, loan.penalties}) = 0
    /\ i + p > 0
    /\ IsNewRow(k)
    /\ PostEntry("rpy", k, p)
    /\ loan' = IF closed THEN [after EXCEPT !.status = "closed"] ELSE after
    /\ lien' = [g \in Guarantor |-> IF closed THEN ReleasedLien(Reduced(lien[g], p))
                                    ELSE Reduced(lien[g], p)]
    /\ rows' = rows \cup {[key |-> k, principal |-> p, interest |-> i]}
    /\ inst' = [n \in Instalment |-> Allocated(n, p, i)]
    /\ Close(s)
    /\ UNCHANGED <<accrued, requests, day, accrual, arrears>>

-----------------------------------------------------------------------------
\* Write-off and recovery.

\* Faulty variant: the amount written off is not kept.
LessWrittenOff_NotKept(m) ==
    [loan EXCEPT !.outstanding = @ - m,
                 !.status = IF loan.outstanding = m THEN "written_off" ELSE @]

\* The snapshot after a write-off; only nothing left makes it written_off.
LessWrittenOff(m) ==
    [loan EXCEPT !.outstanding = @ - m, !.writtenOff = @ + m,
                 !.status = IF loan.outstanding = m THEN "written_off" ELSE @]

\* Faulty variant: nobody compares the amount with what is owed by then.
Covers_Unchecked(m) == TRUE

\* The check under the lock and the column's CHECK: no negative principal.
Covers(m) == m <= loan.outstanding

\* _execute_write_off.
ExecuteWriteOff(k, m) ==
    /\ Covers(m)
    /\ PostEntry("wo", k, m)
    /\ loan' = LessWrittenOff(m)
    /\ lien' = [g \in Guarantor |-> ReleasedLien(lien[g])]

\* write_off, at most the threshold.
WriteOff(s) ==
    /\ Calling(s, "write_off")
    /\ loan.status # "written_off"
    /\ call[s].amount <= Threshold
    /\ ExecuteWriteOff(call[s].key, call[s].amount)
    /\ Close(s)
    /\ UNCHANGED <<inst, rows, accrued, requests, day, accrual, arrears>>

\* write_off, above the threshold: an approval request.
AskWriteOff(s) ==
    /\ Calling(s, "write_off")
    /\ loan.status # "written_off"
    /\ Covers(call[s].amount)
    /\ call[s].amount > Threshold
    /\ requests' = requests \cup {[key |-> call[s].key, amount |-> call[s].amount]}
    /\ Close(s)
    /\ UNCHANGED <<loan, inst, lien, rows, journal, accrued, day, accrual, arrears>>

\* execute_write_off; neither status nor amount is looked at again.
Execute(s) ==
    /\ Calling(s, "execute")
    /\ ExecuteWriteOff(call[s].key, call[s].amount)
    /\ requests' = requests \ {[key |-> call[s].key, amount |-> call[s].amount]}
    /\ Close(s)
    /\ UNCHANGED <<inst, rows, accrued, day, accrual, arrears>>

\* recover.
Recover(s) ==
    LET m == call[s].amount IN
    /\ Calling(s, "recover")
    /\ loan.status = "written_off"
    /\ m <= loan.writtenOff
    /\ PostEntry("wor", call[s].key, m)
    /\ loan' = [loan EXCEPT !.outstanding = @ + m, !.writtenOff = @ - m,
                            !.status = "in_arrears"]
    /\ lien' = [g \in Guarantor |-> Reactivated(lien[g], m)]
    /\ Close(s)
    /\ UNCHANGED <<inst, rows, accrued, requests, day, accrual, arrears>>

-----------------------------------------------------------------------------
\* The jobs of beat.py.

Running == (IF accrual = Off THEN 0 ELSE 1) + (IF arrears = Off THEN 0 ELSE 1)

StartAccrual ==
    /\ accrual = Off
    /\ Running < Workers
    /\ loan.status \in Active
    /\ accrual' = [pc |-> "list", today |-> day, seen |-> loan.interest, todo |-> {}]
    /\ UNCHANGED <<loan, inst, lien, rows, journal, accrued, requests, day,
                   call, arrears>>

ListDue ==
    /\ accrual.pc = "list"
    /\ accrual' = [pc |-> "post", today |-> accrual.today, seen |-> accrual.seen,
                   todo |-> {n \in Instalment :
                                n <= accrual.today /\ inst[n].status # "paid"}]
    /\ UNCHANGED <<loan, inst, lien, rows, journal, accrued, requests, day,
                   call, arrears>>

\* Faulty variant: entries of an earlier run are not looked for.
PostAccrual_Again ==
    LET new == {n \in accrual.todo : InterestDue[n] > 0} IN
    /\ accrual.pc = "post"
    /\ accrued' = accrued \cup new
    /\ loan' = IF new = {} THEN loan
               ELSE [loan EXCEPT !.interest = accrual.seen + TotalInterest(new)]
    /\ accrual' = Off
    /\ UNCHANGED <<inst, lien, rows, journal, requests, day, call, arrears>>

\* Post what has no entry yet and write accrued_interest: the value read at
\* the start plus what is posted now.
PostAccrual ==
    LET new == {n \in accrual.todo \ accrued : InterestDue[n] > 0} IN
    /\ accrual.pc = "post"
    /\ accrued' = accrued \cup new
    /\ loan' = IF new = {} THEN loan
               ELSE [loan EXCEPT !.interest = accrual.seen + TotalInterest(new)]
    /\ accrual' = Off
    /\ UNCHANGED <<inst, lien, rows, journal, requests, day, call, arrears>>

StartArrears ==
    /\ arrears = Off
    /\ Running < Workers
    /\ loan.status \in Active
    /\ arrears' = [pc |-> "look", today |-> day, status |-> loan.status, late |-> {}]
    /\ UNCHANGED <<loan, inst, lien, rows, journal, accrued, requests, day,
                   call, accrual>>

Overdue == {n \in Instalment : n < arrears.today /\ inst[n].status # "paid"}

\* The instalments are read now, the status of the loan was read before; the
\* job goes on when it has something to change.
LookForArrears ==
    /\ arrears.pc = "look"
    /\ arrears' = IF (Overdue # {}) = (arrears.status = "disbursed")
                  THEN [arrears EXCEPT !.pc = "write",
                           !.late = {n \in Overdue : inst[n].status # "overdue"}]
                  ELSE Off
    /\ UNCHANGED <<loan, inst, lien, rows, journal, accrued, requests, day,
                   call, accrual>>

MarkedStatus(seen) == IF seen = "disbursed" THEN "in_arrears" ELSE "disbursed"

MarkArrears ==
    /\ arrears.pc = "write"
    /\ loan' = [loan EXCEPT !.status = MarkedStatus(arrears.status)]
    /\ inst' = [n \in Instalment |->
                   IF n \in arrears.late THEN [inst[n] EXCEPT !.status = "overdue"]
                                         ELSE inst[n]]
    /\ arrears' = Off
    /\ UNCHANGED <<lien, rows, journal, accrued, requests, day, call, accrual>>

\* A worker dies; its transaction rolls back.
JobDies ==
    /\ \/ accrual # Off /\ accrual' = Off /\ arrears' = arrears
       \/ arrears # Off /\ arrears' = Off /\ accrual' = accrual
    /\ UNCHANGED <<loan, inst, lien, rows, journal, accrued, requests, day, call>>

-----------------------------------------------------------------------------
\* What the consumer of fee events adds to and takes from the row, in place.
AssessPenalty(m) ==
    /\ loan.penalties + m <= MaxPenalties
    /\ loan' = [loan EXCEPT !.penalties = @ + m]
    /\ UNCHANGED <<inst, lien, rows, journal, accrued, requests, day, call,
                   accrual, arrears>>

CollectPenalty(m) ==
    /\ loan.penalties > 0
    /\ loan' = [loan EXCEPT !.penalties = Max({@ - m, 0})]
    /\ UNCHANGED <<inst, lien, rows, journal, accrued, requests, day, call,
                   accrual, arrears>>

NextDay ==
    /\ day < LastDay
    /\ day' = day + 1
    /\ UNCHANGED <<loan, inst, lien, rows, journal, accrued, requests, call,
                   accrual, arrears>>

Next ==
    \/ \E s \in Session, k \in Key, m \in Amount :
          OpenRepay(s, k, m) \/ OpenWriteOff(s, k, m) \/ OpenRecover(s, k, m)
    \/ \E s \in Session, q \in requests : OpenExecute(s, q)
    \/ \E s \in Session :
          \/ Repay(s) \/ WriteOff(s) \/ AskWriteOff(s) \/ Execute(s)
          \/ Recover(s) \/ Abandon(s)
    \/ StartAccrual \/ ListDue \/ PostAccrual
    \/ StartArrears \/ LookForArrears \/ MarkArrears
    \/ JobDies
    \/ \E m \in Amount : AssessPenalty(m) \/ CollectPenalty(m)
    \/ NextDay

Spec == Init /\ [][Next]_vars

-----------------------------------------------------------------------------
(***************************************************************************)
(* The snapshot accounts for the principal lent: what is still owed, what  *)
(* was repaid and what stands written off add up to it, whatever calls and *)
(* jobs overlap.                                                           *)
(***************************************************************************)
PrincipalAccounted ==
    loan.outstanding + loan.paidP + loan.writtenOff = Principal

(***************************************************************************)
(* A settled loan owes no principal and binds no guarantor's savings.  The *)
(* arrears job may turn a settled loan back into an active one; it must    *)
(* never do the reverse.                                                   *)
(***************************************************************************)
SettledOwesNothing ==
    loan.status \in Settled =>
        /\ loan.outstanding = 0
        /\ \A g \in Guarantor : ~ lien[g].active

(***************************************************************************)
(* Liens follow the debt: through repayments, write-offs and recoveries in *)
(* any order the shares of the guarantors that stand in add up to exactly  *)
(* what is outstanding, and a guarantor stands in exactly while the lien   *)
(* is active.                                                              *)
(***************************************************************************)
LiensFollowDebt ==
    \A g \in Guarantor :
        /\ lien[g].status = "accepted" <=> lien[g].active
        /\ lien[g].current = IF lien[g].active THEN loan.outstanding ELSE 0

Booked(ns) ==
    SumFunctionOnSet([e \in journal |-> e.amount], {e \in journal : e.ns = ns})

(***************************************************************************)
(* Every repayment counts once, though its key is looked up before the     *)
(* lock and a write-off may overlap it: one row per key, the paid totals   *)
(* of the snapshot are the sums of the rows, and the ledger has received   *)
(* just that principal.                                                    *)
(***************************************************************************)
RepaymentsAgree ==
    /\ \A q, r \in rows : q.key = r.key => q = r
    /\ loan.paidP = SumFunctionOnSet([r \in rows |-> r.principal], rows)
    /\ loan.paidI = SumFunctionOnSet([r \in rows |-> r.interest], rows)
    /\ loan.paidP = Booked("rpy")

(***************************************************************************)
(* The schedule shows what was repaid: the principal paid on the           *)
(* instalments is that of the snapshot, though the arrears job writes over *)
(* their statuses and write-offs and recoveries come between.  No          *)
(* repayment finds too little room in the open instalments.                *)
(***************************************************************************)
ScheduleAgrees ==
    loan.paidP = SumFunctionOnSet([n \in Instalment |-> inst[n].p], Instalment)

(***************************************************************************)
(* The accrual job writes what it read too early over repayments and may   *)
(* run again every day, but the loan never owes more interest than has     *)
(* been booked as accrued.                                                 *)
(***************************************************************************)
OwesOnlyAccrued == loan.interest <= TotalInterest(accrued)

(***************************************************************************)
(* What the integrity check of _reconcile_for_tenant compares: the         *)
(* principal receivable in the ledger and the outstanding principal.       *)
(***************************************************************************)
ReceivableAgrees ==
    Principal + Booked("wor") - Booked("rpy") - Booked("wo") = loan.outstanding

(***************************************************************************)
(* The member owes or has paid no interest that was never accrued: the     *)
(* design promises every write of accrued_interest a lock on the row.      *)
(***************************************************************************)
InterestWasAccrued ==
    loan.interest + loan.paidI <= TotalInterest(accrued)
=============================================================================
