--------------------------- MODULE SavingsProofs ---------------------------
(***************************************************************************)
(* Proofs about Savings, for any number of accounts, keys, amounts and     *)
(* sessions: the unique key and the single transaction keep rows, journal  *)
(* and withdrawal requests in step, and the control account ties.          *)
(*                                                                         *)
(* None of the properties follows from itself.  What a commit inserts was  *)
(* decided when the transaction was opened, steps of other sessions ago;   *)
(* the invariant therefore also says what an open transaction holds        *)
(* (Faithful): the entry of its row, and, when it executes a withdrawal    *)
(* request, exactly the movement of that request.                          *)
(***************************************************************************)
EXTENDS Savings, SequenceTheorems, Sums, TLAPS

\* What an open transaction holds agrees with the requests q.
Faithful(t, q) ==
    /\ t.op = "submit" => t.req \in WithdrawalRequest /\ ~ t.req.executed
    /\ t.op = "post" =>
        /\ t.row.type \in OwnType => t.entry = EntryFor(t.row)
        /\ t.row.type \notin OwnType => t.entry.ns \notin OwnType
        /\ t.row.type = "withdrawal" => t.req # 0
        /\ t.req # 0 => t.req \in DOMAIN q /\ t.row = RequestedRow(q[t.req])

Shape ==
    /\ DOMAIN txn = Session
    /\ requests \in Seq(WithdrawalRequest)
    /\ \A s \in Session : Faithful(txn[s], requests)

Inv == Shape /\ OneRowPerKey /\ Reconciled /\ WithdrawalsWereApproved

\* Nothing a Faithful transaction says is lost when requests are appended or
\* marked executed.
LEMMA FaithfulKept ==
    ASSUME NEW t, NEW q \in Seq(WithdrawalRequest),
           NEW p \in Seq(WithdrawalRequest),
           Faithful(t, q),
           DOMAIN q \subseteq DOMAIN p,
           \A i \in DOMAIN q : RequestedRow(p[i]) = RequestedRow(q[i])
    PROVE  Faithful(t, p)
BY DEF Faithful

\* Marking a request executed keeps the others and what each asks for.
LEMMA MarkKeeps ==
    ASSUME NEW q \in Seq(WithdrawalRequest), NEW i \in DOMAIN q
    PROVE  /\ Marked(q, i) \in Seq(WithdrawalRequest)
           /\ DOMAIN Marked(q, i) = DOMAIN q
           /\ Marked(q, i)[i].executed
           /\ \A j \in DOMAIN q :
                /\ RequestedRow(Marked(q, i)[j]) = RequestedRow(q[j])
                /\ Marked(q, i)[j].key = q[j].key
                /\ q[j].executed => Marked(q, i)[j].executed
                /\ Marked(q, i)[j].executed => q[j].executed \/ j = i
<1> DEFINE e == [q[i] EXCEPT !.executed = TRUE]
           p == [q EXCEPT ![i] = e]
<1>1. q[i] \in WithdrawalRequest /\ i \in 1 .. Len(q)
  OBVIOUS
<1>2. /\ e \in WithdrawalRequest /\ e.executed
      /\ e.key = q[i].key /\ e.acct = q[i].acct /\ e.amount = q[i].amount
  BY <1>1 DEF WithdrawalRequest
<1>3. p = Marked(q, i)
  BY DEF Marked
<1> HIDE DEF e
<1>4. p \in Seq(WithdrawalRequest)
  BY <1>1, <1>2, ExceptSeq
<1>5. DOMAIN p = DOMAIN q /\ p[i] = e /\ \A j \in DOMAIN q \ {i} : p[j] = q[j]
  BY <1>1
<1> HIDE DEF p
<1>6. \A j \in DOMAIN q :
        /\ p[j].key = q[j].key /\ p[j].acct = q[j].acct
        /\ p[j].amount = q[j].amount
        /\ q[j].executed => p[j].executed
        /\ p[j].executed => q[j].executed \/ j = i
  BY <1>2, <1>5
<1> QED
  BY <1>2, <1>3, <1>4, <1>5, <1>6 DEF RequestedRow, RowFor

\* Opening a transaction disturbs nothing but the session that opens it.
LEMMA OpenStep ==
    ASSUME Inv, NEW s \in Session, NEW t, Open(s, t), Faithful(t, requests)
    PROVE  Inv'
<1>1. Shape'
  BY DEF Inv, Shape, Open
<1> QED
  BY <1>1 DEF Inv, Open, OneRowPerKey, Reconciled, WithdrawalsWereApproved,
              KeyUsed

\* A posting that takes its entry from its row is Faithful.
LEMMA OwnPosting ==
    ASSUME NEW k, NEW a, NEW type \in OwnType \ {"withdrawal"}, NEW m,
           NEW q
    PROVE  LET x == RowFor(k, a, type, m) IN Faithful(Post(x, EntryFor(x), 0), q)
BY DEF Faithful, Post, RowFor, OwnType

\* Each operation's first half keeps the invariant.
LEMMA BeginStep ==
    ASSUME Inv, NEW s \in Session, NEW k \in Key, NEW a \in Account,
           NEW m \in Amount,
           \/ Deposit(s, k, a, m) \/ SystemCredit(s, k, a, m)
           \/ DebitInFull(s, k, a, m) \/ DebitInPart(s, k, a, m)
           \/ \E type \in ExternalType : RecordExternal(s, k, a, type, m)
           \/ SubmitWithdrawal(s, k, a, m)
    PROVE  Inv'
<1>1. CASE Deposit(s, k, a, m)
  BY <1>1, OwnPosting, OpenStep DEF Deposit, Credit, OpenPosting, OwnType
<1>2. CASE SystemCredit(s, k, a, m)
  BY <1>2, OwnPosting, OpenStep DEF SystemCredit, Credit, OpenPosting, OwnType
<1>3. CASE DebitInFull(s, k, a, m)
  BY <1>3, OwnPosting, OpenStep DEF DebitInFull, OpenPosting, OwnType
<1>4. CASE DebitInPart(s, k, a, m)
  BY <1>4, OwnPosting, OpenStep DEF DebitInPart, OpenPosting, OwnType
<1>5. CASE \E type \in ExternalType : RecordExternal(s, k, a, type, m)
  <2>1. PICK type \in ExternalType : RecordExternal(s, k, a, type, m)
    BY <1>5
  <2>2. PICK applied \in 0 .. m :
          Open(s, Post(RowFor(k, a, type, m),
                       [EntryFor(RowFor(k, a, type, m)) EXCEPT !.amount = applied],
                       0))
    BY <2>1 DEF RecordExternal
  <2>3. Faithful(Post(RowFor(k, a, type, m),
                      [EntryFor(RowFor(k, a, type, m)) EXCEPT !.amount = applied],
                      0), requests)
    BY DEF Faithful, Post, RowFor, EntryFor, OwnType, ExternalType
  <2> QED
    BY <2>2, <2>3, OpenStep
<1>6. CASE SubmitWithdrawal(s, k, a, m)
  <2> DEFINE q == [key |-> k, acct |-> a, amount |-> m, executed |-> FALSE]
  <2>1. q \in WithdrawalRequest
    BY DEF WithdrawalRequest
  <2>2. Faithful([op |-> "submit", req |-> q], requests)
    BY <2>1 DEF Faithful
  <2> QED
    BY <1>6, <2>2, OpenStep DEF SubmitWithdrawal
<1> QED
  BY <1>1, <1>2, <1>3, <1>4, <1>5, <1>6

\* execute_withdraw reads the request it will carry out.
LEMMA ExecuteStep ==
    ASSUME Inv, NEW s \in Session, NEW i \in DOMAIN requests,
           ExecuteWithdraw(s, i)
    PROVE  Inv'
<1> DEFINE x == RequestedRow(requests[i])
<1>1. i # 0
  BY DEF Inv, Shape
<1>2. Faithful(Post(x, EntryFor(x), i), requests)
  BY <1>1 DEF Faithful, Post, RequestedRow, RowFor, OwnType
<1> QED
  BY <1>2, OpenStep DEF ExecuteWithdraw, OpenPosting

\* A replayed execution marks a request whose key is in use.
LEMMA ReplayStep ==
    ASSUME Inv, NEW i \in DOMAIN requests, ReplayWithdraw(i)
    PROVE  Inv'
<1> USE DEF Inv, Shape
<1>1. /\ requests' = Marked(requests, i)
      /\ UNCHANGED <<rows, journal, txn>> /\ KeyUsed(requests[i].key)
  BY DEF ReplayWithdraw, MarkExecuted
<1>2. /\ requests' \in Seq(WithdrawalRequest)
      /\ DOMAIN requests' = DOMAIN requests
      /\ \A j \in DOMAIN requests :
            /\ RequestedRow(requests'[j]) = RequestedRow(requests[j])
            /\ requests'[j].key = requests[j].key
            /\ requests[j].executed => requests'[j].executed
            /\ requests'[j].executed => requests[j].executed \/ j = i
  BY <1>1, MarkKeeps
<1>3. Shape'
  <2>1. \A s \in Session : Faithful(txn'[s], requests')
    <3> SUFFICES ASSUME NEW s \in Session PROVE Faithful(txn[s], requests')
      BY <1>1
    <3> QED
      BY <1>2, FaithfulKept
  <2> QED
    BY <1>1, <1>2, <2>1
<1>4. OneRowPerKey' /\ Reconciled'
  BY <1>1 DEF OneRowPerKey, Reconciled
<1>5. WithdrawalsWereApproved'
  BY <1>1, <1>2 DEF WithdrawalsWereApproved, KeyUsed
<1> QED
  BY <1>3, <1>4, <1>5

\* The commit of a posting: the unique key makes its row and entry new.
LEMMA CommitPostingStep ==
    ASSUME Inv, NEW s \in Session, CommitPosting(s)
    PROVE  Inv'
<1> USE DEF Inv, Shape
<1> DEFINE t == txn[s]
<1>1. /\ t.op = "post" /\ ~ KeyUsed(t.row.key)
      /\ rows' = rows \cup {t.row} /\ journal' = PostJournalEntry(t.entry)
      /\ txn' = [txn EXCEPT ![s] = Idle]
  BY DEF CommitPosting, RowAccepted
<1>2. Faithful(t, requests)
  OBVIOUS
<1>3. /\ requests' \in Seq(WithdrawalRequest)
      /\ DOMAIN requests' = DOMAIN requests
      /\ t.req # 0 => requests'[t.req].executed
      /\ \A j \in DOMAIN requests :
            /\ RequestedRow(requests'[j]) = RequestedRow(requests[j])
            /\ requests'[j].key = requests[j].key
            /\ requests[j].executed => requests'[j].executed
            /\ requests'[j].executed => requests[j].executed \/ j = t.req
  <2>1. CASE t.req = 0
    BY <2>1 DEF CommitPosting
  <2>2. CASE t.req # 0
    <3>1. t.req \in DOMAIN requests
      BY <1>1, <1>2, <2>2 DEF Faithful
    <3>2. requests' = Marked(requests, t.req)
      BY <2>2 DEF CommitPosting, MarkExecuted
    <3> QED
      BY <3>1, <3>2, MarkKeeps
  <2> QED
    BY <2>1, <2>2
<1>4. Shape'
  <2>1. \A o \in Session : Faithful(txn'[o], requests)
    BY <1>1 DEF Faithful, Idle
  <2>2. \A o \in Session : Faithful(txn'[o], requests')
    <3> SUFFICES ASSUME NEW o \in Session PROVE Faithful(txn'[o], requests')
      OBVIOUS
    <3> QED
      BY <1>3, <2>1, FaithfulKept
  <2> QED
    BY <1>1, <1>3, <2>2
<1>5. OneRowPerKey'
  BY <1>1 DEF OneRowPerKey, KeyUsed
<1>6. Reconciled'
  <2>1. CASE t.row.type \in OwnType
    <3>1. t.entry = EntryFor(t.row)
      BY <1>1, <1>2, <2>1 DEF Faithful
    <3>2. ~ \E f \in journal : f.ns = t.entry.ns /\ f.key = t.entry.key
      BY <1>1, <2>1, <3>1 DEF Reconciled, EntryFor, KeyUsed
    <3>3. journal' = journal \cup {EntryFor(t.row)}
      BY <1>1, <3>1, <3>2 DEF PostJournalEntry
    <3> QED
      BY <1>1, <3>3 DEF Reconciled
  <2>2. CASE t.row.type \notin OwnType
    <3>1. journal' \in {journal, journal \cup {t.entry}} /\ t.entry.ns \notin OwnType
      BY <1>1, <1>2, <2>2 DEF Faithful, PostJournalEntry
    <3> QED
      BY <1>1, <2>2, <3>1 DEF Reconciled
  <2> QED
    BY <2>1, <2>2
<1>7. WithdrawalsWereApproved'
  <2>1. \A x \in rows' : x.type = "withdrawal" =>
          \E i \in DOMAIN requests' :
            requests'[i].executed /\ x = RequestedRow(requests'[i])
    <3> SUFFICES ASSUME NEW x \in rows', x.type = "withdrawal"
                 PROVE  \E i \in DOMAIN requests' :
                          requests'[i].executed /\ x = RequestedRow(requests'[i])
      OBVIOUS
    <3>1. CASE x \in rows
      BY <1>3, <3>1 DEF WithdrawalsWereApproved
    <3>2. CASE x = t.row
      BY <1>1, <1>2, <1>3, <3>2 DEF Faithful
    <3> QED
      BY <1>1, <3>1, <3>2
  <2>2. \A i \in DOMAIN requests' :
          requests'[i].executed => \E x \in rows' : x.key = requests'[i].key
    <3> SUFFICES ASSUME NEW i \in DOMAIN requests, requests'[i].executed
                 PROVE  \E x \in rows' : x.key = requests'[i].key
      BY <1>3
    <3>1. CASE requests[i].executed
      BY <1>1, <1>3, <3>1 DEF WithdrawalsWereApproved, KeyUsed
    <3>2. CASE i = t.req
      <4>1. i # 0
        OBVIOUS
      <4>2. t.row = RequestedRow(requests[i])
        BY <1>1, <1>2, <3>2, <4>1 DEF Faithful
      <4>3. t.row.key = requests[i].key
        BY <4>2 DEF RequestedRow, RowFor
      <4> QED
        BY <1>1, <1>3, <4>3
    <3> QED
      BY <1>3, <3>1, <3>2
  <2> QED
    BY <2>1, <2>2 DEF WithdrawalsWereApproved, KeyUsed
<1> QED
  BY <1>4, <1>5, <1>6, <1>7

\* The commit of a submission appends a request that is not executed.
LEMMA CommitSubmissionStep ==
    ASSUME Inv, NEW s \in Session, CommitSubmission(s)
    PROVE  Inv'
<1> USE DEF Inv, Shape
<1> DEFINE q == txn[s].req
<1>1. /\ txn[s].op = "submit" /\ requests' = Append(requests, q)
      /\ txn' = [txn EXCEPT ![s] = Idle] /\ UNCHANGED <<rows, journal>>
  BY DEF CommitSubmission
<1>2. q \in WithdrawalRequest /\ ~ q.executed
  BY <1>1 DEF Faithful
<1>3. /\ requests' \in Seq(WithdrawalRequest)
      /\ DOMAIN requests \subseteq DOMAIN requests'
      /\ \A i \in DOMAIN requests : requests'[i] = requests[i]
      /\ \A i \in DOMAIN requests' : i \in DOMAIN requests \/ requests'[i] = q
  BY <1>1, <1>2
<1>4. Shape'
  <2>1. \A o \in Session : Faithful(txn'[o], requests)
    BY <1>1 DEF Faithful, Idle
  <2>2. \A o \in Session : Faithful(txn'[o], requests')
    <3> SUFFICES ASSUME NEW o \in Session PROVE Faithful(txn'[o], requests')
      OBVIOUS
    <3> QED
      BY <1>3, <2>1, FaithfulKept
  <2> QED
    BY <1>1, <1>3, <2>2
<1>5. OneRowPerKey' /\ Reconciled'
  BY <1>1 DEF OneRowPerKey, Reconciled
<1>6. WithdrawalsWereApproved'
  BY <1>1, <1>2, <1>3 DEF WithdrawalsWereApproved, KeyUsed
<1> QED
  BY <1>4, <1>5, <1>6

\* Rolling back only makes the session idle.
LEMMA RollbackStep ==
    ASSUME Inv, NEW s \in Session, Rollback(s)
    PROVE  Inv'
<1>1. Shape'
  BY DEF Inv, Shape, Rollback, Faithful, Idle
<1> QED
  BY <1>1 DEF Inv, Rollback, OneRowPerKey, Reconciled, WithdrawalsWereApproved,
              KeyUsed

\* An entry of another module is none of this module's.
LEMMA ElsewhereStep ==
    ASSUME Inv, NEW k \in Key, NEW type \in ExternalType, NEW m \in Amount,
           PostElsewhere(k, type, m)
    PROVE  Inv'
<1>1. Shape' /\ OneRowPerKey' /\ WithdrawalsWereApproved'
  BY DEF PostElsewhere, Inv, Shape, OneRowPerKey, WithdrawalsWereApproved, KeyUsed
<1>2. Reconciled'
  BY DEF PostElsewhere, Inv, Reconciled, OwnType, ExternalType
<1> QED
  BY <1>1, <1>2 DEF Inv

\* Every step of the specification keeps the invariant.
LEMMA InvStep == Inv /\ [Next]_vars => Inv'
<1> SUFFICES ASSUME Inv, [Next]_vars PROVE Inv'
  OBVIOUS
<1>1. CASE \E a \in Account, m \in MinBalances : OpenAccount(a, m)
  BY <1>1 DEF OpenAccount, Inv, Shape, OneRowPerKey, Reconciled,
              WithdrawalsWereApproved, KeyUsed
<1>2. CASE \E s \in Session, k \in Key, a \in Account, m \in Amount :
            \/ Deposit(s, k, a, m) \/ SystemCredit(s, k, a, m)
            \/ DebitInFull(s, k, a, m) \/ DebitInPart(s, k, a, m)
            \/ \E type \in ExternalType : RecordExternal(s, k, a, type, m)
            \/ SubmitWithdrawal(s, k, a, m)
  BY <1>2, BeginStep
<1>3. CASE \E s \in Session, i \in DOMAIN requests : ExecuteWithdraw(s, i)
  BY <1>3, ExecuteStep
<1>4. CASE \E i \in DOMAIN requests : ReplayWithdraw(i)
  BY <1>4, ReplayStep
<1>5. CASE \E s \in Session :
            CommitPosting(s) \/ CommitSubmission(s) \/ Rollback(s)
  BY <1>5, CommitPostingStep, CommitSubmissionStep, RollbackStep
<1>6. CASE UNCHANGED vars
  BY <1>6 DEF vars, Inv, Shape, OneRowPerKey, Reconciled,
              WithdrawalsWereApproved, KeyUsed
<1>7. CASE \E k \in Key, type \in ExternalType, m \in Amount :
            PostElsewhere(k, type, m)
  BY <1>7, ElsewhereStep
<1> QED
  BY <1>1, <1>2, <1>3, <1>4, <1>5, <1>6, <1>7 DEF Next

(***************************************************************************)
(* The inductive invariant holds: rows, journal, requests and what the     *)
(* open transactions are about to write agree in every reachable state.    *)
(***************************************************************************)
THEOREM SavingsInvariance == Spec => []Inv
<1>1. Init => Inv
  BY DEF Init, Inv, Shape, Faithful, Idle, OneRowPerKey, Reconciled,
         WithdrawalsWereApproved
<1> QED
  BY <1>1, InvStep, PTL DEF Spec

(***************************************************************************)
(* uq_savtx_idempotency_key: whatever sessions retry or race, a key moves  *)
(* money once.                                                             *)
(***************************************************************************)
THEOREM OneRowCorrect == Spec => []OneRowPerKey
BY SavingsInvariance, PTL DEF Inv

(***************************************************************************)
(* Sub-ledger and general ledger agree movement by movement.               *)
(***************************************************************************)
THEOREM ReconciledCorrect == Spec => []Reconciled
BY SavingsInvariance, PTL DEF Inv

(***************************************************************************)
(* Every withdrawal row is what an executed approval request asked for.    *)
(***************************************************************************)
THEOREM WithdrawalsCorrect == Spec => []WithdrawalsWereApproved
BY SavingsInvariance, PTL DEF Inv
-----------------------------------------------------------------------------
(***************************************************************************)
(* Types and totals.  Every transaction adds at most one row and one       *)
(* entry, so the tables stay finite and their totals are numbers.          *)
(***************************************************************************)
Typed == TypeOK /\ IsFiniteSet(rows) /\ IsFiniteSet(journal)

\* Totals are numbers, and a new row or entry adds its amount.
LEMMA TotalType ==
    ASSUME NEW S, IsFiniteSet(S), \A x \in S : x.amount \in Nat
    PROVE  Total(S) \in Nat
<1> DEFINE f == [x \in S |-> x.amount]
<1>1. \A x \in S : f[x] \in Nat
  OBVIOUS
<1> HIDE DEF f
<1>2. SumFunctionOnSet(f, S) \in Nat
  BY <1>1, SumNat
<1> QED
  BY <1>2 DEF Total, f

LEMMA TotalAdd ==
    ASSUME NEW S, IsFiniteSet(S), \A y \in S : y.amount \in Nat,
           NEW x, x \notin S, x.amount \in Nat
    PROVE  Total(S \cup {x}) = Total(S) + x.amount
<1> DEFINE f == [y \in S |-> y.amount]
           g == [y \in S \cup {x} |-> y.amount]
<1>1. /\ \A y \in S : f[y] = g[y] /\ f[y] \in Int
      /\ g[x] = x.amount /\ g[x] \in Int
  OBVIOUS
<1>2. Total(S) = SumFunctionOnSet(f, S)
      /\ Total(S \cup {x}) = SumFunctionOnSet(g, S \cup {x})
  BY DEF Total
<1> HIDE DEF f, g
<1>3. Numeric(f, S)
  BY <1>1 DEF Numeric
<1>4. SumFunctionOnSet(g, S \cup {x}) = SumFunctionOnSet(f, S) + g[x]
  BY <1>1, <1>3, SumGrow
<1> QED
  BY <1>1, <1>2, <1>4

\* The rows of an account and of any types, and their total.
LEMMA RowsTotal ==
    ASSUME Typed, NEW a, NEW types
    PROVE  /\ IsFiniteSet(RowsOf(a, types))
           /\ \A x \in RowsOf(a, types) : x.amount \in Nat
           /\ Total(RowsOf(a, types)) \in Nat
<1>1. RowsOf(a, types) \subseteq rows
  BY DEF RowsOf
<1>2. /\ IsFiniteSet(RowsOf(a, types))
      /\ \A x \in RowsOf(a, types) : x.amount \in Nat
  BY <1>1, FS_Subset DEF Typed, TypeOK, Row
<1> QED
  BY <1>2, TotalType

LEMMA BalanceType ==
    ASSUME Typed, NEW a
    PROVE  GetBalance(a) \in Int
<1>1. /\ Total(RowsOf(a, {"deposit", "SYSTEM_CREDIT"})) \in Nat
      /\ Total(RowsOf(a, {"withdrawal", "SYSTEM_DEBIT"})) \in Nat
  BY RowsTotal
<1> QED
  BY <1>1 DEF GetBalance

\* The smaller of two numbers.
LEMMA MinOfTwo ==
    ASSUME NEW a \in Int, NEW b \in Int
    PROVE  Min({a, b}) = IF a <= b THEN a ELSE b
<1>1. \E x \in {a, b} : \A y \in {a, b} : x <= y
  OBVIOUS
<1>2. /\ Min({a, b}) \in {a, b}
      /\ \A y \in {a, b} : Min({a, b}) <= y
  BY <1>1 DEF Min
<1> QED
  BY <1>2

\* What an operation may open: a row and an entry of its own, for a positive
\* amount.
LEMMA PostingType ==
    ASSUME NEW k \in Key, NEW a \in Account,
           NEW type \in OwnType \cup ExternalType, NEW m \in Nat \ {0},
           NEW i \in Nat
    PROVE  LET x == RowFor(k, a, type, m) IN
           /\ x \in Row
           /\ Post(x, EntryFor(x), i) \in Posting
           /\ \A n \in Nat :
                Post(x, [EntryFor(x) EXCEPT !.amount = n], i) \in Posting
<1> DEFINE x == RowFor(k, a, type, m)
<1>1. x \in Row
  BY DEF RowFor, Row
<1>2. EntryFor(x) \in Entry
  BY DEF EntryFor, Entry, RowFor
<1>3. \A n \in Nat : [EntryFor(x) EXCEPT !.amount = n] \in Entry
  BY <1>2 DEF Entry
<1> HIDE DEF x
<1>4. /\ Post(x, EntryFor(x), i) \in Posting
      /\ \A n \in Nat : Post(x, [EntryFor(x) EXCEPT !.amount = n], i) \in Posting
  BY <1>1, <1>2, <1>3 DEF Post, Posting
<1> QED
  BY <1>1, <1>4 DEF x

LEMMA TypedOpen ==
    ASSUME Typed, NEW s \in Session, NEW t \in Posting \cup Submission,
           Open(s, t)
    PROVE  Typed'
BY DEF Typed, TypeOK, Open

LEMMA TypedBegin ==
    ASSUME Typed, NEW s \in Session, NEW k \in Key, NEW a \in Account,
           NEW m \in Amount,
           \/ Deposit(s, k, a, m) \/ SystemCredit(s, k, a, m)
           \/ DebitInFull(s, k, a, m) \/ DebitInPart(s, k, a, m)
           \/ \E type \in ExternalType : RecordExternal(s, k, a, type, m)
           \/ SubmitWithdrawal(s, k, a, m)
    PROVE  Typed'
<1>1. m \in Nat \ {0}
  BY AmountsArePositive
<1>2. ASSUME NEW type \in OwnType, NEW n \in Nat \ {0},
             OpenPosting(s, RowFor(k, a, type, n), 0)
      PROVE  Typed'
  <2>1. Post(RowFor(k, a, type, n), EntryFor(RowFor(k, a, type, n)), 0) \in Posting
    BY PostingType
  <2> QED
    BY <1>2, <2>1, TypedOpen DEF OpenPosting
<1>3. CASE Deposit(s, k, a, m) \/ SystemCredit(s, k, a, m)
  BY <1>1, <1>2, <1>3 DEF Deposit, SystemCredit, Credit, OwnType
<1>4. CASE DebitInFull(s, k, a, m)
  BY <1>1, <1>2, <1>4 DEF DebitInFull, OwnType
<1>5. CASE DebitInPart(s, k, a, m)
  <2>1. GetBalance(a) \in Int /\ GetBalance(a) > 0
    BY <1>5, BalanceType DEF DebitInPart
  <2>2. Min({GetBalance(a), m}) \in Nat \ {0}
    BY <1>1, <2>1, MinOfTwo
  <2> QED
    BY <1>2, <1>5, <2>2 DEF DebitInPart, OwnType
<1>6. CASE \E type \in ExternalType : RecordExternal(s, k, a, type, m)
  <2>1. PICK type \in ExternalType : RecordExternal(s, k, a, type, m)
    BY <1>6
  <2>2. PICK applied \in 0 .. m :
          Open(s, Post(RowFor(k, a, type, m),
                       [EntryFor(RowFor(k, a, type, m)) EXCEPT !.amount = applied],
                       0))
    BY <2>1 DEF RecordExternal
  <2>3. applied \in Nat
    BY <1>1
  <2>4. Post(RowFor(k, a, type, m),
             [EntryFor(RowFor(k, a, type, m)) EXCEPT !.amount = applied], 0)
          \in Posting
    BY <1>1, <2>3, PostingType
  <2> QED
    BY <2>2, <2>4, TypedOpen
<1>7. CASE SubmitWithdrawal(s, k, a, m)
  <2> DEFINE q == [key |-> k, acct |-> a, amount |-> m, executed |-> FALSE]
  <2>1. [op |-> "submit", req |-> q] \in Submission
    BY DEF Submission, WithdrawalRequest
  <2> QED
    BY <1>7, <2>1, TypedOpen DEF SubmitWithdrawal
<1> QED
  BY <1>3, <1>4, <1>5, <1>6, <1>7

\* A commit adds one row and at most one entry.
LEMMA TypedCommit ==
    ASSUME Typed, Inv, NEW s \in Session, CommitPosting(s)
    PROVE  Typed'
<1> DEFINE t == txn[s]
<1>1. t \in Posting
  BY DEF Typed, TypeOK, CommitPosting, Submission, Idle
<1>2. t.row \in Row /\ t.entry \in Entry
  BY <1>1 DEF Posting
<1>3. /\ rows' = rows \cup {t.row}
      /\ journal' \in {journal, journal \cup {t.entry}}
      /\ txn' = [txn EXCEPT ![s] = Idle] /\ UNCHANGED minimum
  BY DEF CommitPosting, PostJournalEntry
<1>4. requests' \in Seq(WithdrawalRequest)
  BY CommitPostingStep DEF Inv, Shape
<1>5. IsFiniteSet(rows') /\ IsFiniteSet(journal')
  BY <1>3, FS_AddElement DEF Typed
<1> QED
  BY <1>2, <1>3, <1>4, <1>5 DEF Typed, TypeOK

LEMMA InitTyped == Init => Typed
<1> SUFFICES ASSUME Init PROVE Typed
  OBVIOUS
<1>1. minimum \in [{} -> MinBalances] /\ {} \in SUBSET Account
  BY DEF Init
<1>2. requests \in Seq(WithdrawalRequest)
  BY DEF Init
<1> QED
  BY <1>1, <1>2, FS_EmptySet DEF Init, Typed, TypeOK

LEMMA TypedStep == Typed /\ Inv /\ [Next]_vars => Typed'
<1> SUFFICES ASSUME Typed, Inv, [Next]_vars PROVE Typed'
  OBVIOUS
<1>1. ASSUME NEW a \in Account, NEW m \in MinBalances, OpenAccount(a, m)
      PROVE  Typed'
  <2>1. PICK S \in SUBSET Account : minimum \in [S -> MinBalances]
    BY DEF Typed, TypeOK
  <2>2. minimum' \in [S \cup {a} -> MinBalances]
    BY <1>1, <2>1 DEF OpenAccount
  <2>3. S \cup {a} \in SUBSET Account
    OBVIOUS
  <2> QED
    BY <1>1, <2>2, <2>3 DEF OpenAccount, Typed, TypeOK
<1>2. ASSUME NEW s \in Session, NEW k \in Key, NEW a \in Account, NEW m \in Amount,
             \/ Deposit(s, k, a, m) \/ SystemCredit(s, k, a, m)
             \/ DebitInFull(s, k, a, m) \/ DebitInPart(s, k, a, m)
             \/ \E type \in ExternalType : RecordExternal(s, k, a, type, m)
             \/ SubmitWithdrawal(s, k, a, m)
      PROVE  Typed'
  BY <1>2, TypedBegin
<1>3. ASSUME NEW s \in Session, NEW i \in DOMAIN requests, ExecuteWithdraw(s, i)
      PROVE  Typed'
  <2> DEFINE q == requests[i]
  <2>1. q \in WithdrawalRequest /\ i \in Nat
    BY DEF Inv, Shape
  <2>2. q.key \in Key /\ q.acct \in Account /\ q.amount \in Nat \ {0}
    BY <2>1, AmountsArePositive DEF WithdrawalRequest
  <2>3. Post(RequestedRow(q), EntryFor(RequestedRow(q)), i) \in Posting
    BY <2>1, <2>2, PostingType DEF RequestedRow, OwnType
  <2> QED
    BY <1>3, <2>3, TypedOpen DEF ExecuteWithdraw, OpenPosting
<1>4. ASSUME NEW i \in DOMAIN requests, ReplayWithdraw(i)
      PROVE  Typed'
  BY <1>4, ReplayStep DEF ReplayWithdraw, Inv, Shape, Typed, TypeOK
<1>5. ASSUME NEW s \in Session, CommitPosting(s)
      PROVE  Typed'
  BY <1>5, TypedCommit
<1>6. ASSUME NEW s \in Session, CommitSubmission(s)
      PROVE  Typed'
  BY <1>6, CommitSubmissionStep DEF CommitSubmission, Inv, Shape, Typed, TypeOK
<1>7. ASSUME NEW s \in Session, Rollback(s)
      PROVE  Typed'
  BY <1>7 DEF Rollback, Typed, TypeOK
<1>8. CASE UNCHANGED vars
  BY <1>8 DEF vars, Typed, TypeOK
<1>9. ASSUME NEW k \in Key, NEW type \in ExternalType, NEW m \in Amount,
             PostElsewhere(k, type, m)
      PROVE  Typed'
  <2> DEFINE e == [ns |-> type, key |-> k, acct |-> NONE, amount |-> m]
  <2>1. e \in Entry
    BY AmountsArePositive DEF Entry
  <2>2. journal' = journal \cup {e} /\ UNCHANGED <<minimum, rows, requests, txn>>
    BY <1>9 DEF PostElsewhere
  <2> HIDE DEF e
  <2>3. IsFiniteSet(journal')
    BY <2>2, FS_AddElement DEF Typed
  <2> QED
    BY <2>1, <2>2, <2>3 DEF Typed, TypeOK
<1> QED
  BY <1>1, <1>2, <1>3, <1>4, <1>5, <1>6, <1>7, <1>8, <1>9 DEF Next

(***************************************************************************)
(* Every account, row, entry, request and open transaction is of its type; *)
(* in particular a partial debit never takes nothing or less.              *)
(***************************************************************************)
THEOREM SavingsTypes == Spec => []TypeOK
<1>1. Spec => []Typed
  BY InitTyped, TypedStep, SavingsInvariance, PTL DEF Spec
<1> QED
  BY <1>1, PTL DEF Typed
-----------------------------------------------------------------------------
\* The entries of some of the types, and what a new one adds to their total.
EntriesOf(types) == {e \in journal : e.ns \in types}

LEMMA EntriesAdded ==
    ASSUME Typed, NEW e \in Entry, e \notin journal, journal' = journal \cup {e},
           NEW types
    PROVE  /\ Total(EntriesOf(types)) \in Nat
           /\ Total(EntriesOf(types)') = Total(EntriesOf(types))
                + (IF e.ns \in types THEN e.amount ELSE 0)
<1>1. EntriesOf(types) \subseteq journal /\ e \notin EntriesOf(types)
  BY DEF EntriesOf
<1>2. /\ IsFiniteSet(EntriesOf(types)) /\ e.amount \in Nat
      /\ \A d \in EntriesOf(types) : d.amount \in Nat
  BY <1>1, FS_Subset DEF Typed, TypeOK, Entry
<1>3. Total(EntriesOf(types)) \in Nat
  BY <1>2, TotalType
<1>4. CASE e.ns \in types
  <2>1. EntriesOf(types)' = EntriesOf(types) \cup {e}
    BY <1>4 DEF EntriesOf
  <2>2. Total(EntriesOf(types) \cup {e}) = Total(EntriesOf(types)) + e.amount
    BY <1>1, <1>2, TotalAdd
  <2> QED
    BY <1>3, <1>4, <2>1, <2>2
<1>5. CASE e.ns \notin types
  <2>1. EntriesOf(types)' = EntriesOf(types)
    BY <1>5 DEF EntriesOf
  <2> QED
    BY <1>3, <1>5, <2>1
<1> QED
  BY <1>4, <1>5

\* The same for the rows of an account.
LEMMA RowsAdded ==
    ASSUME Typed, NEW x \in Row, x \notin rows, rows' = rows \cup {x},
           NEW a, NEW types
    PROVE  /\ Total(RowsOf(a, types)) \in Nat
           /\ Total(RowsOf(a, types)') = Total(RowsOf(a, types))
                + (IF x.acct = a /\ x.type \in types THEN x.amount ELSE 0)
<1>1. x \notin RowsOf(a, types) /\ x.amount \in Nat
  BY DEF RowsOf, Row
<1>2. /\ IsFiniteSet(RowsOf(a, types))
      /\ \A y \in RowsOf(a, types) : y.amount \in Nat
      /\ Total(RowsOf(a, types)) \in Nat
  BY RowsTotal
<1>3. CASE x.acct = a /\ x.type \in types
  <2>1. RowsOf(a, types)' = RowsOf(a, types) \cup {x}
    BY <1>3 DEF RowsOf
  <2>2. Total(RowsOf(a, types) \cup {x}) = Total(RowsOf(a, types)) + x.amount
    BY <1>1, <1>2, TotalAdd
  <2> QED
    BY <1>2, <1>3, <2>1, <2>2
<1>4. CASE ~ (x.acct = a /\ x.type \in types)
  <2>1. RowsOf(a, types)' = RowsOf(a, types)
    BY <1>4 DEF RowsOf
  <2> QED
    BY <1>2, <1>4, <2>1
<1> QED
  BY <1>3, <1>4

\* What a movement adds to a liability.
Effect(type, m) ==
    IF type \in {"deposit", "SYSTEM_CREDIT"} THEN m
    ELSE IF type \in {"withdrawal", "SYSTEM_DEBIT"} THEN 0 - m
    ELSE 0

\* A new row moves the balance of its own account by its effect, ...
LEMMA BalanceMoves ==
    ASSUME Typed, NEW x \in Row, x \notin rows, rows' = rows \cup {x}, NEW a
    PROVE  GetBalance(a)' = GetBalance(a)
                + (IF x.acct = a THEN Effect(x.type, x.amount) ELSE 0)
<1> DEFINE cr == {"deposit", "SYSTEM_CREDIT"}
           dr == {"withdrawal", "SYSTEM_DEBIT"}
<1>1. /\ Total(RowsOf(a, cr)) \in Nat
      /\ Total(RowsOf(a, cr)') = Total(RowsOf(a, cr))
            + (IF x.acct = a /\ x.type \in cr THEN x.amount ELSE 0)
  BY RowsAdded
<1>2. /\ Total(RowsOf(a, dr)) \in Nat
      /\ Total(RowsOf(a, dr)') = Total(RowsOf(a, dr))
            + (IF x.acct = a /\ x.type \in dr THEN x.amount ELSE 0)
  BY RowsAdded
<1>3. /\ GetBalance(a) = Total(RowsOf(a, cr)) - Total(RowsOf(a, dr))
      /\ GetBalance(a)' = Total(RowsOf(a, cr)') - Total(RowsOf(a, dr)')
  BY DEF GetBalance, Total
<1>4. x.amount \in Nat /\ ~ (x.type \in cr /\ x.type \in dr)
  BY DEF Row
<1>5. Effect(x.type, x.amount) = IF x.type \in cr THEN x.amount
                                 ELSE IF x.type \in dr THEN 0 - x.amount ELSE 0
  BY DEF Effect
<1> HIDE DEF cr, dr
<1> QED
  BY <1>1, <1>2, <1>3, <1>4, <1>5

\* ... and a new entry moves the net of any two disjoint sets of types.
LEMMA NetMoves ==
    ASSUME Typed, NEW e \in Entry, e \notin journal, journal' = journal \cup {e},
           NEW cr, NEW dr, ~ (e.ns \in cr /\ e.ns \in dr)
    PROVE  /\ NetOf(cr, dr) \in Int
           /\ NetOf(cr, dr)' = NetOf(cr, dr)
                + (IF e.ns \in cr THEN e.amount
                   ELSE IF e.ns \in dr THEN 0 - e.amount ELSE 0)
<1>1. /\ Total(EntriesOf(cr)) \in Nat
      /\ Total(EntriesOf(cr)') = Total(EntriesOf(cr))
            + (IF e.ns \in cr THEN e.amount ELSE 0)
  BY EntriesAdded
<1>2. /\ Total(EntriesOf(dr)) \in Nat
      /\ Total(EntriesOf(dr)') = Total(EntriesOf(dr))
            + (IF e.ns \in dr THEN e.amount ELSE 0)
  BY EntriesAdded
<1>3. /\ NetOf(cr, dr) = Total(EntriesOf(cr)) - Total(EntriesOf(dr))
      /\ NetOf(cr, dr)' = Total(EntriesOf(cr)') - Total(EntriesOf(dr)')
  BY DEF NetOf, EntriesOf, Total
<1>4. e.amount \in Nat
  BY DEF Entry
<1> QED
  BY <1>1, <1>2, <1>3, <1>4

\* The liability account moves by what an entry of this module does, or by
\* what it also adds to the other modules' net.
LEMMA LiabilityMoves ==
    ASSUME Typed, NEW e \in Entry, e \notin journal, journal' = journal \cup {e}
    PROVE  /\ LiabilityBalance \in Int /\ ExternalNet \in Int
           /\ \E d \in Int :
                /\ LiabilityBalance' = (LiabilityBalance + Effect(e.ns, e.amount)) + d
                /\ ExternalNet' = ExternalNet + d
<1> DEFINE cx == {"EXTERNAL_CREDIT"}
           dx == {"EXTERNAL_DEBIT"}
<1>1. /\ e.amount \in Nat /\ e.ns \in OwnType \cup ExternalType
      /\ ~ (e.ns \in CreditType /\ e.ns \in DebitType)
      /\ ~ (e.ns \in cx /\ e.ns \in dx)
  BY DEF Entry, CreditType, DebitType
<1>2. /\ NetOf(CreditType, DebitType) \in Int
      /\ NetOf(CreditType, DebitType)' = NetOf(CreditType, DebitType)
            + (IF e.ns \in CreditType THEN e.amount
               ELSE IF e.ns \in DebitType THEN 0 - e.amount ELSE 0)
  BY <1>1, NetMoves
<1>3. /\ NetOf(cx, dx) \in Int
      /\ NetOf(cx, dx)' = NetOf(cx, dx)
            + (IF e.ns \in cx THEN e.amount
               ELSE IF e.ns \in dx THEN 0 - e.amount ELSE 0)
  BY <1>1, NetMoves
<1>4. /\ LiabilityBalance = NetOf(CreditType, DebitType)
      /\ LiabilityBalance' = NetOf(CreditType, DebitType)'
      /\ ExternalNet = NetOf(cx, dx) /\ ExternalNet' = NetOf(cx, dx)'
  BY DEF LiabilityBalance, ExternalNet, NetOf, CreditType, DebitType
<1> HIDE DEF LiabilityBalance, ExternalNet, NetOf
<1> DEFINE d == IF e.ns \in cx THEN e.amount
                ELSE IF e.ns \in dx THEN 0 - e.amount ELSE 0
<1>5. d \in Int
  BY <1>1
<1>6. LiabilityBalance' = (LiabilityBalance + Effect(e.ns, e.amount)) + d
  <2>1. CASE e.ns \in ExternalType
    BY <1>1, <1>2, <1>4, <2>1 DEF Effect, CreditType, DebitType, ExternalType
  <2>2. CASE e.ns \in OwnType
    BY <1>1, <1>2, <1>4, <2>2 DEF Effect, CreditType, DebitType, OwnType
  <2> QED
    BY <1>1, <2>1, <2>2
<1>7. ExternalNet' = ExternalNet + d
  BY <1>3, <1>4
<1> HIDE DEF d
<1> QED
  BY <1>2, <1>3, <1>4, <1>5, <1>6, <1>7

\* The sum of the members' balances moves by the effect of the new row.
LEMMA BalancesMove ==
    ASSUME Typed, NEW x \in Row, x \notin rows, rows' = rows \cup {x}
    PROVE  SumFunctionOnSet([a \in Account |-> GetBalance(a)'], Account)
             = SumFunctionOnSet([a \in Account |-> GetBalance(a)], Account)
                + Effect(x.type, x.amount)
<1> DEFINE f == [a \in Account |-> GetBalance(a)]
           g == [a \in Account |-> GetBalance(a)']
           d == Effect(x.type, x.amount)
           o == x.acct
<1>1. d \in Int /\ o \in Account
  BY DEF Effect, Row
<1>2. \A a \in Account : /\ f[a] \in Int
                         /\ g[a] = f[a] + (IF o = a THEN d ELSE 0)
  BY BalanceMoves, BalanceType
<1> HIDE DEF f, g, d, o
<1>3. Numeric(f, Account) /\ Numeric(g, Account)
  BY <1>1, <1>2 DEF Numeric
<1>4. SumFunctionOnSet(g, Account)
        = SumFunctionOnSet(f, Account) + (g[o] - f[o])
  BY <1>1, <1>2, <1>3, SumUpdate, AccountsAreFinite
<1>5. g[o] - f[o] = d
  BY <1>1, <1>2
<1> QED
  BY <1>4, <1>5 DEF f, g, d

\* The sum of the members' balances is a number.
LEMMA BalancesType ==
    ASSUME Typed
    PROVE  SumFunctionOnSet([a \in Account |-> GetBalance(a)], Account) \in Int
<1> DEFINE f == [a \in Account |-> GetBalance(a)]
<1>1. \A a \in Account : f[a] \in Int
  BY BalanceType
<1>2. Numeric(f, Account)
  BY <1>1 DEF Numeric
<1> HIDE DEF f
<1>3. SumFunctionOnSet(f, Account) \in Int
  BY <1>2, SumRemove, AccountsAreFinite
<1> QED
  BY <1>3 DEF f

\* A commit moves both sides by the same amount, or neither.
LEMMA ControlCommit ==
    ASSUME Typed, Inv, ControlAccountTies, NEW s \in Session, CommitPosting(s)
    PROVE  ControlAccountTies'
<1> DEFINE t == txn[s]
           x == t.row
           e == t.entry
<1>1. t \in Posting
  BY DEF Typed, TypeOK, CommitPosting, Submission, Idle
<1>2. x \in Row /\ e \in Entry /\ t.op = "post"
  BY <1>1 DEF Posting
<1>3. /\ ~ KeyUsed(x.key) /\ x \notin rows /\ rows' = rows \cup {x}
      /\ journal' = PostJournalEntry(e)
  BY DEF CommitPosting, RowAccepted, KeyUsed
<1>4. /\ x.type \in OwnType => e = EntryFor(x)
      /\ x.type \notin OwnType => e.ns \notin OwnType
  BY <1>2 DEF Inv, Shape, Faithful
<1> DEFINE F == SumFunctionOnSet([a \in Account |-> GetBalance(a)], Account)
           G == SumFunctionOnSet([a \in Account |-> GetBalance(a)'], Account)
<1>5. G = F + Effect(x.type, x.amount)
  BY <1>2, <1>3, BalancesMove
<1>6. LiabilityBalance = F + ExternalNet
      /\ (ControlAccountTies' <=> LiabilityBalance' = G + ExternalNet')
  BY DEF ControlAccountTies
<1>7. F \in Int
  BY BalancesType
<1>10. Effect(x.type, x.amount) \in Int
  BY <1>2 DEF Effect, Row
<1> HIDE DEF F, G
<1>8. CASE x.type \in OwnType
  <2>1. e.ns = x.type /\ e.key = x.key /\ e.amount = x.amount
    BY <1>4, <1>8 DEF EntryFor
  <2>2. ~ \E f \in journal : f.ns = e.ns /\ f.key = e.key
    BY <1>3, <1>8, <2>1 DEF Inv, Reconciled, EntryFor, KeyUsed
  <2>3. e \notin journal /\ journal' = journal \cup {e}
    BY <1>3, <2>2 DEF PostJournalEntry
  <2>4. LiabilityBalance \in Int /\ ExternalNet \in Int
    BY <1>2, <2>3, LiabilityMoves
  <2>6. PICK d \in Int :
          /\ LiabilityBalance' = (LiabilityBalance + Effect(e.ns, e.amount)) + d
          /\ ExternalNet' = ExternalNet + d
    BY <1>2, <2>3, LiabilityMoves
  <2> HIDE DEF x, e
  <2>5. LiabilityBalance' = G + ExternalNet'
    BY <1>5, <1>6, <1>7, <1>10, <2>1, <2>4, <2>6
  <2> QED
    BY <1>6, <2>5
<1>9. CASE x.type \notin OwnType
  <2>1. Effect(x.type, x.amount) = 0
    BY <1>9 DEF Effect, OwnType
  <2>2. Effect(e.ns, e.amount) = 0
    BY <1>4, <1>9 DEF Effect, OwnType
  <2>3. CASE journal' = journal
    <3>1. LiabilityBalance' = LiabilityBalance /\ ExternalNet' = ExternalNet
      BY <2>3 DEF LiabilityBalance, ExternalNet, NetOf, Total
    <3> QED
      BY <1>5, <1>6, <1>7, <2>1, <3>1
  <2>4. CASE journal' # journal
    <3>1. e \notin journal /\ journal' = journal \cup {e}
      BY <1>3, <2>4 DEF PostJournalEntry
    <3>2. LiabilityBalance \in Int /\ ExternalNet \in Int
      BY <1>2, <3>1, LiabilityMoves
    <3>3. PICK d \in Int :
            /\ LiabilityBalance' = (LiabilityBalance + Effect(e.ns, e.amount)) + d
            /\ ExternalNet' = ExternalNet + d
      BY <1>2, <3>1, LiabilityMoves
    <3> HIDE DEF x, e
    <3>5. LiabilityBalance' = G + ExternalNet'
      BY <1>5, <1>6, <1>7, <2>1, <2>2, <3>2, <3>3
    <3> QED
      BY <1>6, <3>5
  <2> QED
    BY <2>3, <2>4
<1> QED
  BY <1>8, <1>9

\* An entry of another module moves the account and the other modules' net
\* alike.
LEMMA ControlExternal ==
    ASSUME Typed, ControlAccountTies, NEW e \in Entry, e.ns \in ExternalType,
           e \notin journal, journal' = journal \cup {e}, UNCHANGED rows
    PROVE  ControlAccountTies'
<1> DEFINE F == SumFunctionOnSet([a \in Account |-> GetBalance(a)], Account)
<1>1. Effect(e.ns, e.amount) = 0
  BY DEF Effect, ExternalType
<1>2. LiabilityBalance \in Int /\ ExternalNet \in Int
  BY LiabilityMoves
<1>7. PICK d \in Int :
        /\ LiabilityBalance' = (LiabilityBalance + Effect(e.ns, e.amount)) + d
        /\ ExternalNet' = ExternalNet + d
  BY LiabilityMoves
<1>3. \A a : GetBalance(a)' = GetBalance(a)
  BY DEF GetBalance, RowsOf, Total
<1>4. LiabilityBalance = F + ExternalNet
      /\ (ControlAccountTies' <=> LiabilityBalance' = F + ExternalNet')
  BY <1>3 DEF ControlAccountTies
<1>5. F \in Int
  BY BalancesType
<1> HIDE DEF F
<1>6. LiabilityBalance' = F + ExternalNet'
  BY <1>1, <1>2, <1>4, <1>5, <1>7
<1> QED
  BY <1>4, <1>6

LEMMA ControlElsewhere ==
    ASSUME Typed, ControlAccountTies, NEW k \in Key, NEW type \in ExternalType,
           NEW m \in Amount, PostElsewhere(k, type, m)
    PROVE  ControlAccountTies'
<1> DEFINE e == [ns |-> type, key |-> k, acct |-> NONE, amount |-> m]
<1>1. e \in Entry /\ e.ns \in ExternalType
  BY AmountsArePositive DEF Entry
<1>2. e \notin journal /\ journal' = journal \cup {e} /\ UNCHANGED rows
  BY DEF PostElsewhere
<1> HIDE DEF e
<1> QED
  BY <1>1, <1>2, ControlExternal

\* Every other step leaves rows and journal alone.
LEMMA ControlFrame ==
    ASSUME ControlAccountTies, UNCHANGED <<rows, journal>>
    PROVE  ControlAccountTies'
<1>1. \A a : GetBalance(a)' = GetBalance(a)
  BY DEF GetBalance, RowsOf, Total
<1>2. LiabilityBalance' = LiabilityBalance /\ ExternalNet' = ExternalNet
  BY DEF LiabilityBalance, ExternalNet, NetOf, Total
<1> QED
  BY <1>1, <1>2 DEF ControlAccountTies

LEMMA ControlStep ==
    Typed /\ Inv /\ ControlAccountTies /\ [Next]_vars => ControlAccountTies'
<1> SUFFICES ASSUME Typed, Inv, ControlAccountTies, [Next]_vars
             PROVE  ControlAccountTies'
  OBVIOUS
<1>1. ASSUME NEW s \in Session, CommitPosting(s)
      PROVE  ControlAccountTies'
  BY <1>1, ControlCommit
<1>2. ASSUME NEW a \in Account, NEW m \in MinBalances, OpenAccount(a, m)
      PROVE  ControlAccountTies'
  BY <1>2, ControlFrame DEF OpenAccount
<1>3. ASSUME NEW s, NEW t, Open(s, t)
      PROVE  ControlAccountTies'
  BY <1>3, ControlFrame DEF Open
<1>4. ASSUME NEW s \in Session, NEW k \in Key, NEW a \in Account, NEW m \in Amount,
             \/ Deposit(s, k, a, m) \/ SystemCredit(s, k, a, m)
             \/ DebitInFull(s, k, a, m) \/ DebitInPart(s, k, a, m)
             \/ \E type \in ExternalType : RecordExternal(s, k, a, type, m)
             \/ SubmitWithdrawal(s, k, a, m)
      PROVE  ControlAccountTies'
  BY <1>3, <1>4 DEF Deposit, SystemCredit, Credit, DebitInFull, DebitInPart,
                    RecordExternal, SubmitWithdrawal, OpenPosting
<1>5. ASSUME NEW s \in Session, NEW i \in DOMAIN requests, ExecuteWithdraw(s, i)
      PROVE  ControlAccountTies'
  BY <1>3, <1>5 DEF ExecuteWithdraw, OpenPosting
<1>6. ASSUME NEW i \in DOMAIN requests, ReplayWithdraw(i)
      PROVE  ControlAccountTies'
  BY <1>6, ControlFrame DEF ReplayWithdraw
<1>7. ASSUME NEW s \in Session, CommitSubmission(s) \/ Rollback(s)
      PROVE  ControlAccountTies'
  BY <1>7, ControlFrame DEF CommitSubmission, Rollback
<1>8. CASE UNCHANGED vars
  BY <1>8, ControlFrame DEF vars
<1>9. ASSUME NEW k \in Key, NEW type \in ExternalType, NEW m \in Amount,
             PostElsewhere(k, type, m)
      PROVE  ControlAccountTies'
  BY <1>9, ControlElsewhere
<1> QED
  BY <1>1, <1>2, <1>4, <1>5, <1>6, <1>7, <1>8, <1>9 DEF Next

(***************************************************************************)
(* The liability account of the ledger, all lines counted, is the sum of   *)
(* the members' derived balances plus what other modules have posted on    *)
(* it, for any number of accounts and sessions: whichever type a commit    *)
(* posts, it moves both by the same amount.  The unique key and Reconciled *)
(* make the posted entry a new one.                                        *)
(***************************************************************************)
THEOREM ControlAccountCorrect == Spec => []ControlAccountTies
<1>1. Init => Typed /\ ControlAccountTies
  <2> SUFFICES ASSUME Init PROVE Typed /\ ControlAccountTies
    OBVIOUS
  <2>1. Typed
    BY InitTyped
  <2>2. \A a \in Account : \A types : RowsOf(a, types) = {}
    BY DEF Init, RowsOf
  <2>3. Total({}) = 0
    BY SumEmpty DEF Total
  <2>4. \A a \in Account : GetBalance(a) = 0
    BY <2>2, <2>3 DEF GetBalance
  <2>5. LiabilityBalance = 0 /\ ExternalNet = 0
    <3>1. ASSUME NEW types PROVE {d \in journal : d.ns \in types} = {}
      BY DEF Init
    <3>2. ASSUME NEW cr, NEW dr PROVE NetOf(cr, dr) = Total({}) - Total({})
      BY <3>1, Zenon DEF NetOf
    <3> QED
      BY <2>3, <3>2 DEF LiabilityBalance, ExternalNet
  <2>6. [a \in Account |-> GetBalance(a)] = [a \in Account |-> 0]
    BY <2>4
  <2>7. SumFunctionOnSet([a \in Account |-> 0], Account) = 0
    BY SumZero, AccountsAreFinite
  <2> QED
    BY <2>1, <2>5, <2>6, <2>7 DEF ControlAccountTies
<1> QED
  BY <1>1, TypedStep, ControlStep, SavingsInvariance, PTL DEF Spec
=============================================================================
