----------------------------- MODULE LoanProofs -----------------------------
(***************************************************************************)
(* Proofs about Loan, for any schedule, principal, threshold, amounts, and *)
(* any number of guarantors, sessions and keys: the snapshot accounts for  *)
(* the principal, settled loans owe nothing, liens follow the debt; all    *)
(* variables keep their types; and every repayment counts once, in the     *)
(* columns, the rows and the journal.                                      *)
(*                                                                         *)
(* The first three are inductive only together.  A recovery sets every     *)
(* lien to the amount restored, which is the debt only because a written-  *)
(* off loan owed nothing and bound nobody before; and the debt stays a     *)
(* natural number only because a write-off is checked against it under the *)
(* lock.  The beat jobs, which hold stale values, are the reason why Shape *)
(* says what a job carries from one step to the next.  Repayments agree    *)
(* although keys are looked up before the lock, because the unique key of  *)
(* their rows refuses whoever looked too early.                            *)
(***************************************************************************)
EXTENDS Loan, Sums, TLAPS

\* What is known of the values the steps compute with.
Shape ==
    /\ loan \in Snapshot
    /\ lien \in [Guarantor -> Lien]
    /\ requests \subseteq WriteOffRequest
    /\ call \in [Session -> Call \cup {Idle}]
    /\ accrual # Off => accrual.seen \in Nat /\ accrual.todo \subseteq Instalment

Inv == Shape /\ PrincipalAccounted /\ SettledOwesNothing /\ LiensFollowDebt

-----------------------------------------------------------------------------
\* The smaller and the larger of two numbers (repayment.py allocates with
\* min, adjust_liens and the consumer stop at zero).
LEMMA MinOfTwo ==
    ASSUME NEW a \in Int, NEW b \in Int
    PROVE  Min({a, b}) = IF a <= b THEN a ELSE b
<1>1. \E x \in {a, b} : \A y \in {a, b} : x <= y
  OBVIOUS
<1>2. /\ Min({a, b}) \in {a, b}
      /\ \A y \in {a, b} : Min({a, b}) <= y
  BY <1>1 DEF Min
<1> QED
  BY <1>2

LEMMA MaxOfTwo ==
    ASSUME NEW a \in Int, NEW b \in Int
    PROVE  Max({a, b}) = IF a >= b THEN a ELSE b
<1>1. \E x \in {a, b} : \A y \in {a, b} : x >= y
  OBVIOUS
<1>2. /\ Max({a, b}) \in {a, b}
      /\ \A y \in {a, b} : Max({a, b}) >= y
  BY <1>1 DEF Max
<1> QED
  BY <1>2

\* The interest of any of the instalments.
LEMMA InterestIsNatural ==
    ASSUME NEW S \in SUBSET Instalment
    PROVE  TotalInterest(S) \in Nat
<1>1. IsFiniteSet(S) /\ \A n \in S : InterestDue[n] \in Nat
  BY ScheduleAssumption, FS_Subset
<1> QED
  BY <1>1, SumNat DEF TotalInterest

\* The release of a lien leaves nothing of it, provided that an inactive lien
\* holds nothing.
LEMMA ReleaseLeavesNothing ==
    ASSUME NEW l \in Lien, ~ l.active => l.current = 0
    PROVE  /\ ReleasedLien(l) \in Lien
           /\ ReleasedLien(l) = [status |-> "released", active |-> FALSE,
                                 current |-> 0]
BY DEF Lien, ReleasedLien

\* A lien that equals the debt equals it still after a repayment of principal.
LEMMA ReductionFollows ==
    ASSUME NEW l \in Lien, NEW o \in Nat, NEW p \in Nat, p <= o,
           l.status = "accepted" <=> l.active,
           l.current = IF l.active THEN o ELSE 0
    PROVE  /\ Reduced(l, p) \in Lien
           /\ Reduced(l, p).status = l.status
           /\ Reduced(l, p).active = l.active
           /\ Reduced(l, p).current = IF l.active THEN o - p ELSE 0
<1>1. CASE l.active
  <2>1. l.current = o /\ Max({0, l.current - p}) = o - p
    BY <1>1, MaxOfTwo
  <2>2. Reduced(l, p) = [l EXCEPT !.current = o - p]
    BY <1>1, <2>1 DEF Reduced
  <2> DEFINE r == [l EXCEPT !.current = o - p]
  <2>3. o - p \in Nat
    OBVIOUS
  <2>4. r \in Lien
    BY <2>3 DEF Lien
  <2>5. r.status = l.status /\ r.current = o - p
    BY DEF Lien
  <2>6. r.active = l.active
    BY DEF Lien
  <2> HIDE DEF r
  <2> QED
    BY <1>1, <2>2, <2>4, <2>5, <2>6 DEF r
<1>2. CASE ~ l.active
  BY <1>2 DEF Reduced, Lien
<1> QED
  BY <1>1, <1>2

-----------------------------------------------------------------------------
LEMMA InitInv == Init => Inv
<1> SUFFICES ASSUME Init PROVE Inv
  OBVIOUS
<1>1. Shape
  BY PrincipalAssumption
     DEF Init, Shape, Snapshot, Active, Settled, Lien, Off, Call, Idle
<1>2. PrincipalAccounted /\ SettledOwesNothing /\ LiensFollowDebt
  BY PrincipalAssumption
     DEF Init, PrincipalAccounted, SettledOwesNothing, LiensFollowDebt, Settled
<1> QED
  BY <1>1, <1>2 DEF Inv

\* Steps that leave the loan and its liens alone only have to keep what the
\* calls and jobs hold.
LEMMA FrameStep ==
    ASSUME Inv, UNCHANGED <<loan, lien>>,
           requests' \subseteq WriteOffRequest,
           call' \in [Session -> Call \cup {Idle}],
           accrual' # Off => accrual'.seen \in Nat /\ accrual'.todo \subseteq Instalment
    PROVE  Inv'
BY DEF Inv, Shape, PrincipalAccounted, SettledOwesNothing, LiensFollowDebt

\* A call is opened: no balance changes.
LEMMA OpenStep ==
    ASSUME Inv, NEW s \in Session, NEW op \in {"repay", "write_off", "execute", "recover"},
           NEW k \in Key, NEW m \in Amount, Open(s, op, k, m)
    PROVE  Inv'
<1>1. [op |-> op, key |-> k, amount |-> m] \in Call
  BY DEF Call
<1>2. call' \in [Session -> Call \cup {Idle}]
  BY <1>1 DEF Inv, Shape, Open
<1> QED
  BY <1>2, FrameStep DEF Inv, Shape, Open

\* What a call that is open holds, and what closing it leaves.
LEMMA CallHolds ==
    ASSUME Inv, NEW s \in Session,
           call[s].op \in {"repay", "write_off", "execute", "recover"}
    PROVE  /\ call[s].key \in Key
           /\ call[s].amount \in Nat /\ call[s].amount > 0
           /\ call[s].amount \in Amount
<1>1. call[s] # Idle /\ call[s] \in Call \cup {Idle}
  BY DEF Idle, Inv, Shape
<1>2. call[s] \in Call
  BY <1>1
<1>3. call[s].key \in Key /\ call[s].amount \in Amount
  BY <1>2 DEF Call
<1>4. call[s].amount \in Nat \ {0}
  BY <1>3, AmountAssumption, Zenon
<1> QED
  BY <1>3, <1>4

LEMMA CloseStep ==
    ASSUME Inv, NEW s \in Session, Close(s)
    PROVE  call' \in [Session -> Call \cup {Idle}]
BY DEF Inv, Shape, Close

-----------------------------------------------------------------------------
\* Repayment: principal moves from outstanding to paid, and the liens with it.
LEMMA RepayStep ==
    ASSUME Inv, NEW s \in Session, Repay(s)
    PROVE  Inv'
<1> DEFINE m == call[s].amount
           i == Min({m, loan.interest})
           p == Min({m - i, loan.outstanding})
           after == [loan EXCEPT !.interest = @ - i, !.outstanding = @ - p,
                                 !.paidI = @ + i, !.paidP = @ + p]
           closed == IsClosed(after)
<1>1. /\ loan \in Snapshot /\ m \in Nat /\ loan.interest \in Nat
      /\ loan.outstanding \in Nat
  BY CallHolds DEF Repay, Calling, Inv, Shape, Snapshot
<1>2. i \in Nat /\ i <= m /\ i <= loan.interest
  BY <1>1, MinOfTwo
<1>3. p \in Nat /\ p <= loan.outstanding
  BY <1>1, <1>2, MinOfTwo
<1>4. /\ loan' = IF closed THEN [after EXCEPT !.status = "closed"] ELSE after
      /\ lien' = [g \in Guarantor |->
                    IF closed THEN ReleasedLien(Reduced(lien[g], p))
                    ELSE Reduced(lien[g], p)]
      /\ UNCHANGED <<requests, accrual>> /\ Close(s)
      /\ loan.status \notin Settled
  BY DEF Repay
<1> HIDE DEF i, p, m
<1>5. /\ after \in Snapshot
      /\ after.outstanding = loan.outstanding - p
      /\ after.paidP = loan.paidP + p
      /\ after.writtenOff = loan.writtenOff
      /\ after.status = loan.status
  <2>1. /\ loan.interest - i \in Nat /\ loan.outstanding - p \in Nat
        /\ loan.paidI + i \in Nat /\ loan.paidP + p \in Nat
    BY <1>1, <1>2, <1>3 DEF Snapshot
  <2>2. after \in Snapshot
    BY <1>1, <2>1 DEF Snapshot
  <2> QED
    BY <1>1, <2>2 DEF Snapshot
<1>6. closed => after.outstanding = 0
  BY DEF IsClosed
<1>7. /\ loan' \in Snapshot
      /\ loan'.outstanding = loan.outstanding - p
      /\ loan'.paidP = loan.paidP + p
      /\ loan'.writtenOff = loan.writtenOff
      /\ loan'.status = IF closed THEN "closed" ELSE loan.status
  BY <1>4, <1>5 DEF Snapshot, Settled
<1> HIDE DEF after, closed
<1>8. ASSUME NEW g \in Guarantor
      PROVE  /\ lien'[g] \in Lien
             /\ lien'[g].status = "accepted" <=> lien'[g].active
             /\ lien'[g].current = IF lien'[g].active THEN loan'.outstanding ELSE 0
             /\ closed => ~ lien'[g].active
  <2>1. /\ lien[g] \in Lien
        /\ lien[g].status = "accepted" <=> lien[g].active
        /\ lien[g].current = IF lien[g].active THEN loan.outstanding ELSE 0
    BY DEF Inv, Shape, LiensFollowDebt
  <2> DEFINE r == Reduced(lien[g], p)
  <2>2. /\ r \in Lien
        /\ r.status = lien[g].status /\ r.active = lien[g].active
        /\ r.current = IF lien[g].active THEN loan.outstanding - p ELSE 0
    BY <1>1, <1>3, <2>1, ReductionFollows
  <2>3. lien'[g] = IF closed THEN ReleasedLien(r) ELSE r
    BY <1>4
  <2> HIDE DEF r
  <2>4. CASE closed
    <3>1. lien'[g] = [status |-> "released", active |-> FALSE, current |-> 0]
          /\ lien'[g] \in Lien
      BY <2>1, <2>2, <2>3, <2>4, ReleaseLeavesNothing
    <3> QED
      BY <3>1
  <2>5. CASE ~ closed
    BY <1>7, <2>1, <2>2, <2>3, <2>5
  <2> QED
    BY <2>4, <2>5
<1>9. lien' \in [Guarantor -> Lien]
  BY <1>4, <1>8
<1>10. Shape'
  BY <1>4, <1>7, <1>9, CloseStep DEF Inv, Shape
<1>11. PrincipalAccounted'
  BY <1>1, <1>3, <1>7 DEF Inv, PrincipalAccounted, Snapshot
<1>12. SettledOwesNothing'
  <2>1. loan'.status \in Settled => closed
    BY <1>4, <1>7
  <2>2. closed => loan'.outstanding = 0
    BY <1>5, <1>6, <1>7
  <2> QED
    BY <1>8, <2>1, <2>2 DEF SettledOwesNothing
<1>13. LiensFollowDebt'
  BY <1>8 DEF LiensFollowDebt
<1> QED
  BY <1>10, <1>11, <1>12, <1>13 DEF Inv

\* Write-off: principal moves from outstanding to written off, and every
\* guarantor is free.
LEMMA WriteOffStep ==
    ASSUME Inv, NEW s \in Session, NEW k, NEW m \in Nat, ExecuteWriteOff(k, m),
           requests' \subseteq WriteOffRequest, Close(s), UNCHANGED accrual
    PROVE  Inv'
<1>1. loan \in Snapshot /\ loan.outstanding \in Nat /\ m <= loan.outstanding
  BY DEF Inv, Shape, Snapshot, ExecuteWriteOff, Covers
<1>2. /\ loan' \in Snapshot
      /\ loan'.outstanding = loan.outstanding - m
      /\ loan'.writtenOff = loan.writtenOff + m
      /\ loan'.paidP = loan.paidP
      /\ loan'.status = IF loan.outstanding = m THEN "written_off" ELSE loan.status
  <2>1. loan.outstanding - m \in Nat /\ loan.writtenOff + m \in Nat
    BY <1>1 DEF Snapshot
  <2>2. loan' = [loan EXCEPT !.outstanding = loan.outstanding - m,
                             !.writtenOff = loan.writtenOff + m,
                             !.status = IF loan.outstanding = m
                                        THEN "written_off" ELSE loan.status]
    BY DEF ExecuteWriteOff, LessWrittenOff
  <2>3. loan' \in Snapshot
    BY <1>1, <2>1, <2>2 DEF Snapshot, Settled
  <2> QED
    BY <1>1, <2>1, <2>2, <2>3 DEF Snapshot
<1>3. ASSUME NEW g \in Guarantor
      PROVE  /\ lien'[g] \in Lien
             /\ lien'[g] = [status |-> "released", active |-> FALSE, current |-> 0]
  <2>1. lien[g] \in Lien /\ (~ lien[g].active => lien[g].current = 0)
    BY DEF Inv, Shape, LiensFollowDebt
  <2> QED
    BY <2>1, ReleaseLeavesNothing DEF ExecuteWriteOff
<1>4. Shape'
  <2>1. lien' \in [Guarantor -> Lien]
    BY <1>3 DEF ExecuteWriteOff
  <2> QED
    BY <1>2, <2>1, CloseStep DEF Inv, Shape
<1>5. PrincipalAccounted'
  BY <1>1, <1>2 DEF Inv, PrincipalAccounted, Snapshot
<1>6. SettledOwesNothing'
  BY <1>1, <1>2, <1>3 DEF Inv, SettledOwesNothing, Settled
<1>7. LiensFollowDebt'
  BY <1>3 DEF LiensFollowDebt
<1> QED
  BY <1>4, <1>5, <1>6, <1>7 DEF Inv

\* Recovery: the debt is the amount restored, and so is every lien.
LEMMA RecoverStep ==
    ASSUME Inv, NEW s \in Session, Recover(s)
    PROVE  Inv'
<1> DEFINE m == call[s].amount
<1>1. m \in Nat
  BY CallHolds DEF Recover, Calling
<1>2. /\ loan \in Snapshot /\ loan.status = "written_off"
      /\ loan.outstanding = 0 /\ m <= loan.writtenOff
      /\ \A g \in Guarantor : ~ lien[g].active
  BY DEF Recover, Inv, Shape, SettledOwesNothing, Settled
<1>3. /\ loan' \in Snapshot
      /\ loan'.outstanding = m
      /\ loan'.writtenOff = loan.writtenOff - m
      /\ loan'.paidP = loan.paidP
      /\ loan'.status = "in_arrears"
  <2>1. m \in Nat /\ loan.outstanding + m = m /\ loan.writtenOff - m \in Nat
    BY <1>1, <1>2 DEF Snapshot
  <2>2. loan' = [loan EXCEPT !.outstanding = loan.outstanding + m,
                             !.writtenOff = loan.writtenOff - m,
                             !.status = "in_arrears"]
    BY DEF Recover
  <2>3. loan' \in Snapshot
    BY <1>2, <2>1, <2>2 DEF Snapshot, Active
  <2> QED
    BY <1>2, <2>1, <2>2, <2>3 DEF Snapshot
<1>4. ASSUME NEW g \in Guarantor
      PROVE  /\ lien'[g] \in Lien
             /\ lien'[g] = [status |-> "accepted", active |-> TRUE, current |-> m]
  <2>1. lien[g] \in Lien /\ lien[g].status = "released" /\ ~ lien[g].active
    BY <1>2 DEF Inv, Shape, LiensFollowDebt, Lien
  <2> QED
    BY <1>1, <2>1 DEF Recover, Reactivated, Lien
<1>5. Shape'
  <2>1. lien' \in [Guarantor -> Lien]
    BY <1>4 DEF Recover
  <2> QED
    BY <1>3, <2>1, CloseStep DEF Inv, Shape, Recover
<1>6. PrincipalAccounted'
  BY <1>1, <1>2, <1>3 DEF Inv, PrincipalAccounted, Snapshot
<1>7. SettledOwesNothing'
  BY <1>3 DEF SettledOwesNothing, Settled
<1>8. LiensFollowDebt'
  BY <1>3, <1>4 DEF LiensFollowDebt
<1> QED
  BY <1>5, <1>6, <1>7, <1>8 DEF Inv

\* The jobs and the consumer change neither the principal nor a lien, and
\* make no loan settled.
LEMMA ColumnStep ==
    ASSUME Inv, loan' \in Snapshot,
           loan'.outstanding = loan.outstanding, loan'.paidP = loan.paidP,
           loan'.writtenOff = loan.writtenOff,
           loan'.status \in Settled => loan'.status = loan.status,
           UNCHANGED <<lien, requests, call>>,
           accrual' # Off => accrual'.seen \in Nat /\ accrual'.todo \subseteq Instalment
    PROVE  Inv'
BY DEF Inv, Shape, PrincipalAccounted, SettledOwesNothing, LiensFollowDebt

\* One step per action of the specification.
LEMMA InvStep == Inv /\ [Next]_vars => Inv'
<1> SUFFICES ASSUME Inv, [Next]_vars PROVE Inv'
  OBVIOUS
<1>1. ASSUME NEW s \in Session, NEW k \in Key, NEW m \in Amount, OpenRepay(s, k, m)
      PROVE  Inv'
  BY <1>1, OpenStep DEF OpenRepay
<1>2. ASSUME NEW s \in Session, NEW k \in Key, NEW m \in Amount,
             OpenWriteOff(s, k, m) \/ OpenRecover(s, k, m)
      PROVE  Inv'
  BY <1>2, OpenStep DEF OpenWriteOff, OpenRecover
<1>3. ASSUME NEW s \in Session, NEW q \in requests, OpenExecute(s, q)
      PROVE  Inv'
  <2>1. q.key \in Key /\ q.amount \in Amount
    BY DEF Inv, Shape, WriteOffRequest
  <2> QED
    BY <1>3, <2>1, OpenStep DEF OpenExecute
<1>4. ASSUME NEW s \in Session, Repay(s)
      PROVE  Inv'
  BY <1>4, RepayStep
<1>5. ASSUME NEW s \in Session, WriteOff(s)
      PROVE  Inv'
  <2>1. call[s].amount \in Nat
    BY <1>5, CallHolds DEF WriteOff, Calling
  <2>2. /\ ExecuteWriteOff(call[s].key, call[s].amount) /\ Close(s)
        /\ UNCHANGED <<requests, accrual>>
    BY <1>5 DEF WriteOff
  <2>3. requests' \subseteq WriteOffRequest
    BY <2>2 DEF Inv, Shape
  <2> QED
    BY <2>1, <2>2, <2>3, WriteOffStep
<1>6. ASSUME NEW s \in Session, AskWriteOff(s)
      PROVE  Inv'
  <2>1. call[s].key \in Key /\ call[s].amount \in Amount
    BY <1>6, CallHolds DEF AskWriteOff, Calling
  <2>2. requests' \subseteq WriteOffRequest
    BY <1>6, <2>1 DEF AskWriteOff, Inv, Shape, WriteOffRequest
  <2>3. UNCHANGED <<loan, lien, accrual>> /\ Close(s)
    BY <1>6 DEF AskWriteOff
  <2> QED
    BY <2>2, <2>3, FrameStep, CloseStep DEF Inv, Shape
<1>7. ASSUME NEW s \in Session, Execute(s)
      PROVE  Inv'
  <2>1. call[s].amount \in Nat
    BY <1>7, CallHolds DEF Execute, Calling
  <2>2. /\ ExecuteWriteOff(call[s].key, call[s].amount) /\ Close(s)
        /\ UNCHANGED accrual /\ requests' \subseteq requests
    BY <1>7 DEF Execute
  <2>3. requests' \subseteq WriteOffRequest
    BY <2>2 DEF Inv, Shape
  <2> QED
    BY <2>1, <2>2, <2>3, WriteOffStep
<1>8. ASSUME NEW s \in Session, Recover(s)
      PROVE  Inv'
  BY <1>8, RecoverStep
<1>9. ASSUME NEW s \in Session, Abandon(s)
      PROVE  Inv'
  <2>1. UNCHANGED <<loan, lien, requests, accrual>> /\ Close(s)
    BY <1>9 DEF Abandon
  <2> QED
    BY <2>1, FrameStep, CloseStep DEF Inv, Shape
<1>10. CASE StartAccrual
  <2>1. accrual'.seen \in Nat /\ accrual'.todo \subseteq Instalment
    BY <1>10 DEF StartAccrual, Inv, Shape, Snapshot
  <2>2. UNCHANGED <<loan, lien, requests, call>>
    BY <1>10 DEF StartAccrual
  <2> QED
    BY <2>1, <2>2, FrameStep DEF Inv, Shape
<1>11. CASE ListDue
  <2>1. accrual # Off
    BY <1>11 DEF ListDue, Off
  <2>2. accrual'.todo \subseteq Instalment
    BY <1>11 DEF ListDue
  <2>3. accrual'.seen = accrual.seen
    BY <1>11 DEF ListDue
  <2>4. UNCHANGED <<loan, lien, requests, call>>
    BY <1>11 DEF ListDue
  <2> QED
    BY <2>1, <2>2, <2>3, <2>4, FrameStep DEF Inv, Shape
<1>12. CASE PostAccrual
  <2> DEFINE new == {n \in accrual.todo \ accrued : InterestDue[n] > 0}
             v == accrual.seen + TotalInterest(new)
  <2>1. accrual # Off
    BY <1>12 DEF PostAccrual, Off
  <2>2. accrual.seen \in Nat /\ accrual.todo \subseteq Instalment
    BY <2>1 DEF Inv, Shape
  <2>3. new \in SUBSET Instalment
    BY <2>2
  <2>4. TotalInterest(new) \in Nat
    BY <2>3, InterestIsNatural
  <2>5. v \in Nat
    BY <2>2, <2>4
  <2>6. /\ loan' = IF new = {} THEN loan ELSE [loan EXCEPT !.interest = v]
        /\ accrual' = Off /\ UNCHANGED <<lien, requests, call>>
    BY <1>12 DEF PostAccrual
  <2> HIDE DEF new, v
  <2>7. /\ loan' \in Snapshot /\ loan'.outstanding = loan.outstanding
        /\ loan'.paidP = loan.paidP /\ loan'.writtenOff = loan.writtenOff
        /\ loan'.status = loan.status
    BY <2>5, <2>6 DEF Inv, Shape, Snapshot
  <2> QED
    BY <2>6, <2>7, ColumnStep
<1>13. CASE StartArrears \/ LookForArrears
  <2>1. UNCHANGED <<loan, lien, requests, call, accrual>>
    BY <1>13 DEF StartArrears, LookForArrears
  <2> QED
    BY <2>1, FrameStep DEF Inv, Shape
<1>14. CASE MarkArrears
  <2>1. /\ loan' = [loan EXCEPT !.status = MarkedStatus(arrears.status)]
        /\ UNCHANGED <<lien, requests, call, accrual>>
    BY <1>14 DEF MarkArrears
  <2>2. MarkedStatus(arrears.status) \in Active
    BY DEF MarkedStatus, Active
  <2>3. /\ loan' \in Snapshot /\ loan'.outstanding = loan.outstanding
        /\ loan'.paidP = loan.paidP /\ loan'.writtenOff = loan.writtenOff
        /\ loan'.status \in Active
    BY <2>1, <2>2 DEF Inv, Shape, Snapshot
  <2>4. loan'.status \notin Settled
    BY <2>3 DEF Active, Settled
  <2> QED
    BY <2>1, <2>3, <2>4, ColumnStep DEF Inv, Shape
<1>15. CASE JobDies
  <2>1. UNCHANGED <<loan, lien, requests, call>> /\ accrual' \in {accrual, Off}
    BY <1>15 DEF JobDies
  <2> QED
    BY <2>1, FrameStep DEF Inv, Shape
<1>16. ASSUME NEW m \in Amount, AssessPenalty(m) \/ CollectPenalty(m)
       PROVE  Inv'
  <2>1. m \in Nat /\ loan \in Snapshot /\ loan.penalties \in Nat
    BY AmountAssumption DEF Inv, Shape, Snapshot
  <2>2. Max({loan.penalties - m, 0}) \in Nat
    BY <2>1, MaxOfTwo
  <2>3. PICK v \in Nat : loan' = [loan EXCEPT !.penalties = v]
    BY <1>16, <2>1, <2>2 DEF AssessPenalty, CollectPenalty
  <2>4. UNCHANGED <<lien, requests, call, accrual>>
    BY <1>16 DEF AssessPenalty, CollectPenalty
  <2>5. /\ loan' \in Snapshot /\ loan'.outstanding = loan.outstanding
        /\ loan'.paidP = loan.paidP /\ loan'.writtenOff = loan.writtenOff
        /\ loan'.status = loan.status
    BY <2>1, <2>3 DEF Snapshot
  <2> QED
    BY <2>4, <2>5, ColumnStep DEF Inv, Shape
<1>17. CASE NextDay
  <2>1. UNCHANGED <<loan, lien, requests, call, accrual>>
    BY <1>17 DEF NextDay
  <2> QED
    BY <2>1, FrameStep DEF Inv, Shape
<1>18. CASE UNCHANGED vars
  <2>1. UNCHANGED <<loan, lien, requests, call, accrual>>
    BY <1>18 DEF vars
  <2> QED
    BY <2>1, FrameStep DEF Inv, Shape
<1> QED
  BY <1>1, <1>2, <1>3, <1>4, <1>5, <1>6, <1>7, <1>8, <1>9, <1>10, <1>11,
     <1>12, <1>13, <1>14, <1>15, <1>16, <1>17, <1>18 DEF Next

-----------------------------------------------------------------------------
(***************************************************************************)
(* The inductive invariant holds throughout the life of a loan.            *)
(***************************************************************************)
THEOREM LoanInvariance == Spec => []Inv
  BY InitInv, InvStep, PTL DEF Spec

(***************************************************************************)
(* What is owed, repaid and written off adds up to the principal lent,     *)
(* whatever repayments, write-offs, recoveries and beat jobs overlap.      *)
(***************************************************************************)
THEOREM PrincipalCorrect == Spec => []PrincipalAccounted
<1>1. Inv => PrincipalAccounted
  BY DEF Inv
<1> QED
  BY <1>1, LoanInvariance, PTL

(***************************************************************************)
(* A closed or written-off loan owes no principal and binds no guarantor.  *)
(***************************************************************************)
THEOREM SettledCorrect == Spec => []SettledOwesNothing
<1>1. Inv => SettledOwesNothing
  BY DEF Inv
<1> QED
  BY <1>1, LoanInvariance, PTL

(***************************************************************************)
(* The guarantors that stand in cover exactly the outstanding principal.   *)
(***************************************************************************)
THEOREM LiensCorrect == Spec => []LiensFollowDebt
<1>1. Inv => LiensFollowDebt
  BY DEF Inv
<1> QED
  BY <1>1, LoanInvariance, PTL
-----------------------------------------------------------------------------
(***************************************************************************)
(* Types.  Inv already bounds the balances, the liens and the calls; what  *)
(* is left are the instalments, the tables and the jobs.                   *)
(***************************************************************************)
Rest ==
    /\ inst \in [Instalment -> Paid]
    /\ rows \subseteq Repayment
    /\ journal \subseteq Entry
    /\ accrued \subseteq Instalment
    /\ day \in 0 .. LastDay
    /\ accrual \in Accruing \cup {Off}
    /\ arrears \in Marking \cup {Off}

\* What a repayment does: some interest i and some principal p are natural
\* numbers, and every balance moves by them.
LEMMA RepayMoves ==
    ASSUME Inv, NEW s \in Session, Repay(s)
    PROVE  \E i, p \in Nat :
             /\ loan'.outstanding = loan.outstanding - p
             /\ loan'.paidP = loan.paidP + p
             /\ loan'.paidI = loan.paidI + i
             /\ IsNewRow(call[s].key)
             /\ PostEntry("rpy", call[s].key, p)
             /\ rows' = rows \cup {[key |-> call[s].key, principal |-> p,
                                    interest |-> i]}
             /\ inst' = [n \in Instalment |-> Allocated(n, p, i)]
<1> DEFINE m == call[s].amount
           i == Min({m, loan.interest})
           p == Min({m - i, loan.outstanding})
           after == [loan EXCEPT !.interest = @ - i, !.outstanding = @ - p,
                                 !.paidI = @ + i, !.paidP = @ + p]
<1>1. /\ loan \in Snapshot /\ m \in Nat /\ loan.interest \in Nat
      /\ loan.outstanding \in Nat
  BY CallHolds DEF Repay, Calling, Inv, Shape, Snapshot
<1>2. i \in Nat /\ i <= m
  BY <1>1, MinOfTwo
<1>3. p \in Nat
  BY <1>1, <1>2, MinOfTwo
<1>4. /\ loan' \in {after, [after EXCEPT !.status = "closed"]}
      /\ IsNewRow(call[s].key)
      /\ PostEntry("rpy", call[s].key, p)
      /\ rows' = rows \cup {[key |-> call[s].key, principal |-> p,
                             interest |-> i]}
      /\ inst' = [n \in Instalment |-> Allocated(n, p, i)]
  BY DEF Repay
<1> HIDE DEF i, p, m
<1>5. /\ loan'.outstanding = loan.outstanding - p
      /\ loan'.paidP = loan.paidP + p
      /\ loan'.paidI = loan.paidI + i
  BY <1>1, <1>4 DEF Snapshot
<1> HIDE DEF after
<1> QED
  BY <1>2, <1>3, <1>4, <1>5

\* Pouring an amount into the open instalments never takes anything out of
\* one of them, however little the earlier ones leave.
LEMMA PouredIsNatural ==
    ASSUME NEW total \in Int, NEW room, Numeric(room, Instalment),
           NEW n \in Instalment
    PROVE  Poured(total, room, n) \in Nat
<1>1. OpenBefore(n) \subseteq Instalment
  BY DEF OpenBefore
<1>2. IsFiniteSet(OpenBefore(n)) /\ Numeric(room, OpenBefore(n))
  BY <1>1, FS_Subset, ScheduleAssumption DEF Numeric
<1>3. Left(total, room, n) \in Int
  BY <1>2, SumRemove DEF Left
<1>4. Min({room[n], Left(total, room, n)}) \in Int
  BY <1>3, MinOfTwo DEF Numeric
<1> QED
  BY <1>4, MaxOfTwo DEF Poured

LEMMA AllocatedType ==
    ASSUME Rest, NEW n \in Instalment, NEW p \in Nat, NEW i \in Nat
    PROVE  Allocated(n, p, i) \in Paid
<1>1. Numeric(RoomP, Instalment) /\ Numeric(RoomI, Instalment)
  BY ScheduleAssumption DEF Numeric, RoomP, RoomI, Rest, Paid
<1> DEFINE a == Poured(p, RoomP, n)
           b == Poured(i, RoomI, n)
           x == [inst[n] EXCEPT !.p = @ + a, !.i = @ + b]
           full == x.p >= PrincipalDue[n] /\ x.i >= InterestDue[n]
           y == [x EXCEPT !.status = IF full THEN "paid"
                                     ELSE IF x.p > 0 \/ x.i > 0 THEN "partial" ELSE @]
<1>2. a \in Nat /\ b \in Nat
  BY <1>1, PouredIsNatural
<1>3. inst[n] \in Paid
  BY DEF Rest
<1>4. Allocated(n, p, i) \in {inst[n], y}
  BY DEF Allocated
<1> HIDE DEF a, b
<1>5. x \in Paid
  <2>1. inst[n].p + a \in Nat /\ inst[n].i + b \in Nat
    BY <1>2, <1>3 DEF Paid
  <2> QED
    BY <1>3, <2>1 DEF Paid
<1> HIDE DEF x, full
<1>6. y \in Paid
  BY <1>5 DEF Paid
<1> HIDE DEF y
<1> QED
  BY <1>3, <1>4, <1>6

\* A posted entry is of its type and leaves the journal finite.
LEMMA PostEntryType ==
    ASSUME journal \subseteq Entry, NEW ns \in {"rpy", "wo", "wor"},
           NEW k \in Key, NEW m \in Nat, PostEntry(ns, k, m)
    PROVE  journal' \subseteq Entry
<1>1. [ns |-> ns, key |-> k, amount |-> m] \in Entry
  BY DEF Entry
<1> QED
  BY <1>1 DEF PostEntry

LEMMA RestStep == Inv /\ Rest /\ [Next]_vars => Rest'
<1> SUFFICES ASSUME Inv, Rest, [Next]_vars PROVE Rest'
  OBVIOUS
<1>1. ASSUME NEW s, NEW op, NEW k, NEW m, Open(s, op, k, m)
      PROVE  Rest'
  BY <1>1 DEF Open, Rest
<1>2. ASSUME NEW s \in Session, NEW k \in Key, NEW m \in Amount, OpenRepay(s, k, m)
      PROVE  Rest'
  BY <1>1, <1>2 DEF OpenRepay
<1>3. ASSUME NEW s \in Session, NEW k \in Key, NEW m \in Amount,
             OpenWriteOff(s, k, m) \/ OpenRecover(s, k, m)
      PROVE  Rest'
  BY <1>1, <1>3 DEF OpenWriteOff, OpenRecover
<1>4. ASSUME NEW s \in Session, NEW q \in requests, OpenExecute(s, q)
      PROVE  Rest'
  BY <1>1, <1>4 DEF OpenExecute
<1>5. ASSUME NEW s \in Session, Repay(s)
      PROVE  Rest'
  <2>1. PICK i \in Nat, p \in Nat :
             /\ PostEntry("rpy", call[s].key, p)
             /\ rows' = rows \cup {[key |-> call[s].key, principal |-> p,
                                    interest |-> i]}
             /\ inst' = [n \in Instalment |-> Allocated(n, p, i)]
    BY <1>5, RepayMoves
  <2>2. call[s].key \in Key
    BY <1>5, CallHolds DEF Repay, Calling
  <2>3. journal' \subseteq Entry
    BY <2>1, <2>2, PostEntryType DEF Rest
  <2>4. rows' \subseteq Repayment
    BY <2>1, <2>2 DEF Rest, Repayment
  <2>5. inst' \in [Instalment -> Paid]
    BY <2>1, AllocatedType
  <2> QED
    BY <1>5, <2>3, <2>4, <2>5 DEF Rest, Repay
<1>6. ASSUME NEW s \in Session, WriteOff(s) \/ Execute(s)
      PROVE  Rest'
  <2>1. call[s].key \in Key /\ call[s].amount \in Nat
    BY <1>6, CallHolds DEF WriteOff, Execute, Calling
  <2>2. PostEntry("wo", call[s].key, call[s].amount)
    BY <1>6 DEF WriteOff, Execute, ExecuteWriteOff
  <2>3. journal' \subseteq Entry
    BY <2>1, <2>2, PostEntryType DEF Rest
  <2> QED
    BY <1>6, <2>3 DEF Rest, WriteOff, Execute
<1>7. ASSUME NEW s \in Session, Recover(s)
      PROVE  Rest'
  <2>1. call[s].key \in Key /\ call[s].amount \in Nat
    BY <1>7, CallHolds DEF Recover, Calling
  <2>2. PostEntry("wor", call[s].key, call[s].amount)
    BY <1>7 DEF Recover
  <2>3. journal' \subseteq Entry
    BY <2>1, <2>2, PostEntryType DEF Rest
  <2> QED
    BY <1>7, <2>3 DEF Rest, Recover
<1>8. ASSUME NEW s \in Session, AskWriteOff(s) \/ Abandon(s)
      PROVE  Rest'
  BY <1>8 DEF Rest, AskWriteOff, Abandon
<1>9. CASE StartAccrual
  <2>1. accrual' = [pc |-> "list", today |-> day, seen |-> loan.interest, todo |-> {}]
        /\ loan.interest \in Nat
    BY <1>9 DEF StartAccrual, Inv, Shape, Snapshot
  <2>2. accrual' \in Accruing
    BY <2>1 DEF Accruing, Rest
  <2> QED
    BY <1>9, <2>2 DEF Rest, StartAccrual
<1>10. CASE ListDue
  <2>1. accrual \in Accruing
    BY <1>10 DEF ListDue, Rest, Off
  <2>2. accrual' \in Accruing
    BY <1>10, <2>1 DEF ListDue, Accruing
  <2> QED
    BY <1>10, <2>2 DEF Rest, ListDue
<1>11. CASE PostAccrual
  <2>1. accrual \in Accruing
    BY <1>11 DEF PostAccrual, Rest, Off
  <2>2. accrued' \subseteq Instalment
    BY <1>11, <2>1 DEF PostAccrual, Accruing, Rest
  <2> QED
    BY <1>11, <2>2 DEF Rest, PostAccrual
<1>12. CASE StartArrears
  <2>1. arrears' \in Marking
    BY <1>12 DEF StartArrears, Marking, Rest
  <2> QED
    BY <1>12, <2>1 DEF Rest, StartArrears
<1>13. CASE LookForArrears
  <2>1. arrears \in Marking
    BY <1>13 DEF LookForArrears, Rest, Off
  <2>2. {n \in Overdue : inst[n].status # "overdue"} \in SUBSET Instalment
    BY DEF Overdue
  <2>3. arrears' \in Marking \cup {Off}
    BY <1>13, <2>1, <2>2 DEF LookForArrears, Marking
  <2> QED
    BY <1>13, <2>3 DEF Rest, LookForArrears
<1>14. CASE MarkArrears
  <2>1. inst' \in [Instalment -> Paid]
    BY <1>14 DEF MarkArrears, Rest, Paid
  <2> QED
    BY <1>14, <2>1 DEF Rest, MarkArrears
<1>15. CASE JobDies
  BY <1>15 DEF Rest, JobDies
<1>16. ASSUME NEW m \in Amount, AssessPenalty(m) \/ CollectPenalty(m)
       PROVE  Rest'
  BY <1>16 DEF Rest, AssessPenalty, CollectPenalty
<1>17. CASE NextDay
  <2>1. day' \in 0 .. LastDay
    BY <1>17, BoundAssumption DEF NextDay, Rest
  <2> QED
    BY <1>17, <2>1 DEF Rest, NextDay
<1>18. CASE UNCHANGED vars
  BY <1>18 DEF Rest, vars
<1> QED
  BY <1>2, <1>3, <1>4, <1>5, <1>6, <1>7, <1>8, <1>9, <1>10, <1>11, <1>12,
     <1>13, <1>14, <1>15, <1>16, <1>17, <1>18 DEF Next

LEMMA InitRest == Init => Rest
BY BoundAssumption DEF Init, Rest, Paid

(***************************************************************************)
(* No balance, instalment, lien or job of a loan ever leaves its type: no  *)
(* amount becomes negative, whatever calls, stale jobs and fee events do.  *)
(***************************************************************************)
THEOREM LoanTypes == Spec => []TypeOK
<1>1. Inv /\ Rest => TypeOK
  BY DEF Inv, Shape, Rest, TypeOK
<1> QED
  BY <1>1, InitRest, RestStep, LoanInvariance, PTL DEF Spec
-----------------------------------------------------------------------------
(***************************************************************************)
(* The ledger.  What a call posts under lock rests on a lookup of its key  *)
(* before the lock.  For a repayment the unique key of loan_repayments     *)
(* repairs a stale lookup: every rpy- entry has its row, so that a new row *)
(* makes a new entry.  Nothing repairs one for a write-off or a recovery   *)
(* (ReceivableAgrees fails), but these never touch the repayments.         *)
(***************************************************************************)
Ledger ==
    /\ IsFiniteSet(rows) /\ IsFiniteSet(journal)
    /\ \A e \in journal : e.ns = "rpy" => \E r \in rows : r.key = e.key
    /\ RepaymentsAgree

\* What a new entry adds to the amounts booked.
LEMMA BookedMoves ==
    ASSUME Rest, IsFiniteSet(journal), NEW e \in Entry, e \notin journal,
           journal' = journal \cup {e}, NEW ns
    PROVE  /\ Booked(ns) \in Nat
           /\ Booked(ns)' = Booked(ns) + (IF e.ns = ns THEN e.amount ELSE 0)
<1> DEFINE f == [d \in journal |-> d.amount]
           g == [d \in journal \cup {e} |-> d.amount]
           S == {d \in journal : d.ns = ns}
           T == {d \in journal \cup {e} : d.ns = ns}
<1>1. IsFiniteSet(S) /\ e \notin S
  BY FS_Subset
<1>2. /\ \A d \in S : f[d] \in Nat /\ f[d] = g[d]
      /\ g[e] = e.amount /\ e.amount \in Nat
  BY DEF Rest, Entry
<1>3. Booked(ns) = SumFunctionOnSet(f, S) /\ Booked(ns)' = SumFunctionOnSet(g, T)
  BY DEF Booked
<1>4. T = IF e.ns = ns THEN S \cup {e} ELSE S
  OBVIOUS
<1> HIDE DEF f, g, S, T
<1>5. SumFunctionOnSet(f, S) \in Nat
  BY <1>1, <1>2, SumNat
<1>6. Numeric(f, S)
  BY <1>2 DEF Numeric
<1>7. SumFunctionOnSet(g, S \cup {e}) = SumFunctionOnSet(f, S) + g[e]
  BY <1>1, <1>2, <1>6, SumGrow
<1>8. SumFunctionOnSet(g, S) = SumFunctionOnSet(f, S)
  BY <1>1, <1>2, <1>6, SumSame
<1> QED
  BY <1>2, <1>3, <1>4, <1>5, <1>7, <1>8

\* What a new row adds to the sums of the rows.
LEMMA RowSumsMove ==
    ASSUME Rest, IsFiniteSet(rows), NEW r \in Repayment, r \notin rows,
           rows' = rows \cup {r}
    PROVE  /\ SumFunctionOnSet([q \in rows' |-> q.principal], rows')
                = SumFunctionOnSet([q \in rows |-> q.principal], rows) + r.principal
           /\ SumFunctionOnSet([q \in rows' |-> q.interest], rows')
                = SumFunctionOnSet([q \in rows |-> q.interest], rows) + r.interest
<1>1. ASSUME NEW f, NEW g, f = [q \in rows |-> q.principal],
             g = [q \in rows \cup {r} |-> q.principal]
      PROVE  SumFunctionOnSet(g, rows \cup {r})
               = SumFunctionOnSet(f, rows) + r.principal
  <2>1. /\ \A q \in rows : f[q] \in Int /\ f[q] = g[q]
        /\ g[r] = r.principal /\ g[r] \in Int
    BY <1>1 DEF Rest, Repayment
  <2>2. Numeric(f, rows)
    BY <2>1 DEF Numeric
  <2> QED
    BY <2>1, <2>2, SumGrow
<1>2. ASSUME NEW f, NEW g, f = [q \in rows |-> q.interest],
             g = [q \in rows \cup {r} |-> q.interest]
      PROVE  SumFunctionOnSet(g, rows \cup {r})
               = SumFunctionOnSet(f, rows) + r.interest
  <2>1. /\ \A q \in rows : f[q] \in Int /\ f[q] = g[q]
        /\ g[r] = r.interest /\ g[r] \in Int
    BY <1>2 DEF Rest, Repayment
  <2>2. Numeric(f, rows)
    BY <2>1 DEF Numeric
  <2> QED
    BY <2>1, <2>2, SumGrow
<1> QED
  BY <1>1, <1>2

\* Steps that repay nothing and post nothing.
LEMMA LedgerFrame ==
    ASSUME Ledger, UNCHANGED <<rows, journal>>,
           loan'.paidP = loan.paidP, loan'.paidI = loan.paidI
    PROVE  Ledger'
<1>1. Booked("rpy")' = Booked("rpy")
  BY DEF Booked
<1>2. RepaymentsAgree'
  BY <1>1 DEF Ledger, RepaymentsAgree
<1> QED
  BY <1>2 DEF Ledger

\* Repayment: the unique key makes row and entry new ones.
LEMMA LedgerRepay ==
    ASSUME Ledger, Inv, Rest, NEW s \in Session, Repay(s)
    PROVE  Ledger'
<1> DEFINE k == call[s].key
<1>1. PICK i \in Nat, p \in Nat :
             /\ loan'.paidP = loan.paidP + p
             /\ loan'.paidI = loan.paidI + i
             /\ IsNewRow(k)
             /\ PostEntry("rpy", k, p)
             /\ rows' = rows \cup {[key |-> k, principal |-> p, interest |-> i]}
  BY RepayMoves
<1> DEFINE r == [key |-> k, principal |-> p, interest |-> i]
           e == [ns |-> "rpy", key |-> k, amount |-> p]
<1>2. k \in Key
  BY CallHolds DEF Repay, Calling
<1>3. /\ r \in Repayment /\ r.key = k /\ r.principal = p /\ r.interest = i
      /\ e \in Entry /\ e.ns = "rpy" /\ e.key = k /\ e.amount = p
  BY <1>2 DEF Repayment, Entry
<1>4. ~ Posted("rpy", k)
  BY <1>1 DEF Ledger, Posted, IsNewRow
<1>5. journal' = journal \cup {e} /\ e \notin journal
  BY <1>1, <1>3, <1>4 DEF PostEntry, Posted
<1>6. rows' = rows \cup {r} /\ r \notin rows
  BY <1>1, <1>3 DEF IsNewRow
<1> HIDE DEF r, e
<1>7. IsFiniteSet(rows') /\ IsFiniteSet(journal')
  BY <1>5, <1>6, FS_AddElement DEF Ledger
<1>8. \A d \in journal' : d.ns = "rpy" => \E q \in rows' : q.key = d.key
  BY <1>3, <1>5, <1>6 DEF Ledger
<1>9. \A q, t \in rows' : q.key = t.key => q = t
  BY <1>1, <1>3, <1>6 DEF Ledger, RepaymentsAgree, IsNewRow
<1>10. /\ loan'.paidP = SumFunctionOnSet([q \in rows' |-> q.principal], rows')
       /\ loan'.paidI = SumFunctionOnSet([q \in rows' |-> q.interest], rows')
  BY <1>1, <1>3, <1>6, RowSumsMove DEF Ledger, RepaymentsAgree
<1>11. Booked("rpy")' = Booked("rpy") + p
  BY <1>3, <1>5, BookedMoves DEF Ledger
<1>12. loan'.paidP = Booked("rpy")'
  BY <1>1, <1>11 DEF Ledger, RepaymentsAgree
<1>13. RepaymentsAgree'
  BY <1>9, <1>10, <1>12 DEF RepaymentsAgree
<1> QED
  BY <1>7, <1>8, <1>13 DEF Ledger

\* A write-off or a recovery posts a new entry, or finds one under its key;
\* neither is a repayment.
LEMMA LedgerOther ==
    ASSUME Ledger, Rest,
           NEW ns \in {"wo", "wor"}, NEW k \in Key, NEW m \in Nat,
           PostEntry(ns, k, m), UNCHANGED rows,
           loan'.paidP = loan.paidP, loan'.paidI = loan.paidI
    PROVE  Ledger'
<1> DEFINE e == [ns |-> ns, key |-> k, amount |-> m]
<1>0. CASE Posted(ns, k)
  BY <1>0, LedgerFrame DEF PostEntry
<1>1. CASE ~ Posted(ns, k)
  <2>1. e \in Entry /\ e.ns = ns /\ e.key = k /\ ns # "rpy"
    BY DEF Entry
  <2>2. journal' = journal \cup {e} /\ e \notin journal
    BY <1>1, <2>1 DEF PostEntry, Posted
  <2> HIDE DEF e
  <2>3. IsFiniteSet(rows') /\ IsFiniteSet(journal')
    BY <2>2, FS_AddElement DEF Ledger
  <2>4. \A d \in journal' : d.ns = "rpy" => \E q \in rows' : q.key = d.key
    BY <2>1, <2>2 DEF Ledger
  <2>5. Booked("rpy")' = Booked("rpy")
    BY <2>1, <2>2, BookedMoves DEF Ledger
  <2>6. RepaymentsAgree'
    BY <2>5 DEF Ledger, RepaymentsAgree
  <2> QED
    BY <2>3, <2>4, <2>6 DEF Ledger
<1> QED
  BY <1>0, <1>1

LEMMA LedgerStep == Inv /\ Rest /\ Ledger /\ [Next]_vars => Ledger'
<1> SUFFICES ASSUME Inv, Rest, Ledger, [Next]_vars PROVE Ledger'
  OBVIOUS
<1>1. ASSUME NEW s, NEW op, NEW k, NEW m, Open(s, op, k, m)
      PROVE  Ledger'
  BY <1>1, LedgerFrame DEF Open
<1>2. ASSUME NEW s \in Session, NEW k \in Key, NEW m \in Amount,
             OpenRepay(s, k, m) \/ OpenWriteOff(s, k, m) \/ OpenRecover(s, k, m)
      PROVE  Ledger'
  BY <1>1, <1>2 DEF OpenRepay, OpenWriteOff, OpenRecover
<1>3. ASSUME NEW s \in Session, NEW q \in requests, OpenExecute(s, q)
      PROVE  Ledger'
  BY <1>1, <1>3 DEF OpenExecute
<1>4. ASSUME NEW s \in Session, Repay(s)
      PROVE  Ledger'
  BY <1>4, LedgerRepay
<1>5. ASSUME NEW s \in Session, WriteOff(s) \/ Execute(s)
      PROVE  Ledger'
  <2> DEFINE k == call[s].key
             m == call[s].amount
  <2>1. k \in Key /\ m \in Nat
    BY <1>5, CallHolds DEF WriteOff, Execute, Calling
  <2>2. PostEntry("wo", k, m) /\ loan' = LessWrittenOff(m) /\ UNCHANGED rows
    BY <1>5 DEF WriteOff, Execute, ExecuteWriteOff
  <2> HIDE DEF k, m
  <2>3. loan'.paidP = loan.paidP /\ loan'.paidI = loan.paidI
    BY <2>2 DEF LessWrittenOff, Inv, Shape, Snapshot
  <2> QED
    BY <2>1, <2>2, <2>3, LedgerOther
<1>6. ASSUME NEW s \in Session, Recover(s)
      PROVE  Ledger'
  <2> DEFINE k == call[s].key
             m == call[s].amount
  <2>1. k \in Key /\ m \in Nat
    BY <1>6, CallHolds DEF Recover, Calling
  <2>2. /\ PostEntry("wor", k, m) /\ UNCHANGED rows
        /\ loan' = [loan EXCEPT !.outstanding = @ + m, !.writtenOff = @ - m,
                                !.status = "in_arrears"]
    BY <1>6 DEF Recover
  <2> HIDE DEF k, m
  <2>3. loan'.paidP = loan.paidP /\ loan'.paidI = loan.paidI
    BY <2>2 DEF Inv, Shape, Snapshot
  <2> QED
    BY <2>1, <2>2, <2>3, LedgerOther
<1>7. ASSUME NEW s \in Session, AskWriteOff(s) \/ Abandon(s)
      PROVE  Ledger'
  BY <1>7, LedgerFrame DEF AskWriteOff, Abandon
<1>9. CASE \/ StartAccrual \/ ListDue \/ StartArrears \/ LookForArrears
           \/ JobDies \/ NextDay \/ UNCHANGED vars
  BY <1>9, LedgerFrame DEF StartAccrual, ListDue, StartArrears, LookForArrears,
                           JobDies, NextDay, vars
<1>10. CASE PostAccrual
  <2>1. /\ UNCHANGED <<rows, journal>>
        /\ \E v : loan' = loan \/ loan' = [loan EXCEPT !.interest = v]
    BY <1>10 DEF PostAccrual
  <2> QED
    BY <2>1, LedgerFrame DEF Inv, Shape, Snapshot
<1>11. CASE MarkArrears
  BY <1>11, LedgerFrame DEF MarkArrears, Inv, Shape, Snapshot
<1>12. ASSUME NEW m \in Amount, AssessPenalty(m) \/ CollectPenalty(m)
       PROVE  Ledger'
  <2>1. /\ UNCHANGED <<rows, journal>>
        /\ \E v : loan' = [loan EXCEPT !.penalties = v]
    BY <1>12 DEF AssessPenalty, CollectPenalty
  <2> QED
    BY <2>1, LedgerFrame DEF Inv, Shape, Snapshot
<1> QED
  BY <1>2, <1>3, <1>4, <1>5, <1>6, <1>7, <1>9, <1>10, <1>11, <1>12 DEF Next

LEMMA InitLedger == Init => Ledger
<1> SUFFICES ASSUME Init PROVE Ledger
  OBVIOUS
<1>1. rows = {} /\ journal = {}
  BY DEF Init
<1>3. \A ns : Booked(ns) = 0
  <2> TAKE ns
  <2>1. {e \in journal : e.ns = ns} = {}
    BY <1>1
  <2> QED
    BY <2>1, SumEmpty DEF Booked
<1>4. /\ SumFunctionOnSet([r \in rows |-> r.principal], rows) = 0
      /\ SumFunctionOnSet([r \in rows |-> r.interest], rows) = 0
  BY <1>1, SumEmpty
<1>5. loan.paidP = 0 /\ loan.paidI = 0
  BY DEF Init
<1>6. RepaymentsAgree
  BY <1>1, <1>3, <1>4, <1>5 DEF RepaymentsAgree
<1> QED
  BY <1>1, <1>6, FS_EmptySet DEF Ledger

(***************************************************************************)
(* Every repayment counts once in the rows, the snapshot and the ledger,   *)
(* for any loan, whatever repayments, write-offs, recoveries (also ones    *)
(* sent again while the first call is open) and jobs overlap               *)
(* (LoanRepaymentService.apply_repayment, post_journal_entry).             *)
(***************************************************************************)
THEOREM RepaymentsCorrect == Spec => []RepaymentsAgree
<1>1. Inv /\ Rest /\ Ledger /\ [Next]_vars => Ledger'
  BY LedgerStep
<1>2. Ledger => RepaymentsAgree
  BY DEF Ledger
<1> QED
  BY <1>1, <1>2, InitLedger, InitRest, RestStep, LoanInvariance, PTL DEF Spec
=============================================================================
