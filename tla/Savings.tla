------------------------------ MODULE Savings ------------------------------
(***************************************************************************)
(* Member savings and their general-ledger entries                         *)
(* (app/modules/savings/service.py and executors.py, with                  *)
(* LedgerService.post_journal_entry).                                      *)
(*                                                                         *)
(* A balance is never stored: it is derived from the append-only rows of   *)
(* savings_transactions.  Every operation looks its idempotency key up and *)
(* reads the balance WITHOUT a lock, and later inserts a journal entry and *)
(* a row in the same PostgreSQL transaction.  Between the reads and the    *)
(* commit other sessions commit; the only thing that stands between them   *)
(* is the unique key of each table.  The INSERTs and the commit are one    *)
(* step here: an INSERT that meets an uncommitted duplicate waits for it,  *)
(* so the transaction that inserts first is the one that ends first.       *)
(***************************************************************************)
EXTENDS Integers, Sequences, FiniteSets, FiniteSetsExt, Functions

CONSTANTS
    Account,      \* savings_accounts rows that may be opened
    Key,          \* idempotency keys the callers use
    Amount,       \* amounts asked for
    MinBalances,  \* minimum balances of the savings products
    Session,      \* database sessions
    MaxRequests,  \* bound on the withdrawal requests submitted
    MaxElsewhere  \* bound on the other modules' entries when one is posted

ASSUME AccountsAreFinite == IsFiniteSet(Account)
ASSUME AmountsArePositive == Amount \subseteq Nat \ {0}
ASSUME MinimaAreNatural == MinBalances \subseteq Nat

VARIABLES
    minimum,   \* minimum_balance of the accounts opened so far
    rows,      \* committed savings_transactions
    journal,   \* committed journal_entries with a line on the liability account
    requests,  \* savings.withdraw approval requests, in order of submission
    txn        \* Session -> the transaction it has open

vars == <<minimum, rows, journal, requests, txn>>

\* Types whose journal entry this module posts itself, under an idempotency
\* key of their own (savings-deposit-, savings-withdraw-, sys-debit-,
\* sys-credit-), and types whose entry the calling module has posted.
OwnType == {"deposit", "withdrawal", "SYSTEM_DEBIT", "SYSTEM_CREDIT"}
ExternalType == {"EXTERNAL_DEBIT", "EXTERNAL_CREDIT"}

\* What adds to an account and what takes from it.
CreditType == {"deposit", "SYSTEM_CREDIT", "EXTERNAL_CREDIT"}
DebitType == {"withdrawal", "SYSTEM_DEBIT", "EXTERNAL_DEBIT"}

Row == [key : Key, acct : Account, type : OwnType \cup ExternalType,
        amount : Nat \ {0}]

\* acct is the savings account of the movement, NONE for an entry of another
\* module that belongs to none.
NONE == "none"
Entry == [ns : OwnType \cup ExternalType, key : Key, acct : Account \cup {NONE},
          amount : Nat]

WithdrawalRequest ==
    [key : Key, acct : Account, amount : Amount, executed : BOOLEAN]

\* An open transaction will insert a row and its entry, or a request; req is
\* the index of the withdrawal request it executes, or 0.
Posting == [op : {"post"}, row : Row, entry : Entry, req : Nat]
Submission == [op : {"submit"}, req : WithdrawalRequest]
Idle == [op |-> "idle"]

TypeOK ==
    /\ minimum \in UNION {[S -> MinBalances] : S \in SUBSET Account}
    /\ rows \subseteq Row
    /\ journal \subseteq Entry
    /\ requests \in Seq(WithdrawalRequest)
    /\ txn \in [Session -> Posting \cup Submission \cup {Idle}]

Init ==
    /\ minimum = << >>
    /\ rows = {}
    /\ journal = {}
    /\ requests = << >>
    /\ txn = [s \in Session |-> Idle]

-----------------------------------------------------------------------------
\* Derived balances.

RowsOf(a, types) == {x \in rows : x.acct = a /\ x.type \in types}

Total(S) == SumFunctionOnSet([x \in S |-> x.amount], S)

\* Faulty variant: system debits are left out.
GetBalance_NoSystemDebits(a) ==
    Total(RowsOf(a, {"deposit", "SYSTEM_CREDIT"}))
        - Total(RowsOf(a, {"withdrawal"}))

\* SavingsService.get_balance.  The external types are not in its filters.
GetBalance(a) ==
    Total(RowsOf(a, {"deposit", "SYSTEM_CREDIT"}))
        - Total(RowsOf(a, {"withdrawal", "SYSTEM_DEBIT"}))

\* The closing balance of the member's savings statement
\* (reporting/services/savings_statement.py), which counts every type.
StatementBalance(a) ==
    Total(RowsOf(a, CreditType)) - Total(RowsOf(a, DebitType))

\* Credits less debits of the entries of some types.
NetOf(credits, debits) ==
    Total({e \in journal : e.ns \in credits})
        - Total({e \in journal : e.ns \in debits})

\* LedgerService.get_account_balance of the savings liability account: credits
\* less debits of all its lines, whichever module posted them.
LiabilityBalance == NetOf(CreditType, DebitType)

\* What the other modules have moved on it.
ExternalNet == NetOf({"EXTERNAL_CREDIT"}, {"EXTERNAL_DEBIT"})

-----------------------------------------------------------------------------
\* The first half of an operation: its reads.

IsOpen(a) == a \in DOMAIN minimum

\* The idempotency guard of the operations on one account ...
Seen(k, a) == \E x \in rows : x.key = k /\ x.acct = a

\* ... and that of the executor, which does not look at the account.
KeyUsed(k) == \E x \in rows : x.key = k

Open(s, t) ==
    /\ txn[s] = Idle
    /\ txn' = [txn EXCEPT ![s] = t]
    /\ UNCHANGED <<minimum, rows, journal, requests>>

RowFor(k, a, type, m) == [key |-> k, acct |-> a, type |-> type, amount |-> m]

EntryFor(x) == [ns |-> x.type, key |-> x.key, acct |-> x.acct,
                amount |-> x.amount]

\* The movement that a withdrawal request asks for.
RequestedRow(q) == RowFor(q.key, q.acct, "withdrawal", q.amount)

Post(x, e, i) == [op |-> "post", row |-> x, entry |-> e, req |-> i]

\* The transaction inserts a row x and its own entry for the same amount.
OpenPosting(s, x, i) == Open(s, Post(x, EntryFor(x), i))

\* SavingsService.open_account: one account per member and product.
OpenAccount(a, m) ==
    /\ ~ IsOpen(a)
    /\ minimum' = [b \in DOMAIN minimum \cup {a} |->
                        IF b = a THEN m ELSE minimum[b]]
    /\ UNCHANGED <<rows, journal, requests, txn>>

\* deposit and system_credit: an account, a key not used on it, any amount.
Credit(s, k, a, type, m) ==
    /\ IsOpen(a)
    /\ ~ Seen(k, a)
    /\ OpenPosting(s, RowFor(k, a, type, m), 0)

Deposit(s, k, a, m) == Credit(s, k, a, "deposit", m)

SystemCredit(s, k, a, m) == Credit(s, k, a, "SYSTEM_CREDIT", m)

\* system_debit with on_insufficient_funds = 'fail' or 'partial'; no module is
\* allowed 'allow_negative'.
DebitInFull(s, k, a, m) ==
    /\ IsOpen(a)
    /\ ~ Seen(k, a)
    /\ GetBalance(a) >= m
    /\ OpenPosting(s, RowFor(k, a, "SYSTEM_DEBIT", m), 0)

\* Faulty variant: no early return on an empty account.
DebitInPart_NoEmptyCheck(s, k, a, m) ==
    /\ IsOpen(a)
    /\ ~ Seen(k, a)
    /\ OpenPosting(s, RowFor(k, a, "SYSTEM_DEBIT",
                             Min({GetBalance(a), m})), 0)

DebitInPart(s, k, a, m) ==
    /\ IsOpen(a)
    /\ ~ Seen(k, a)
    /\ GetBalance(a) > 0
    /\ OpenPosting(s, RowFor(k, a, "SYSTEM_DEBIT",
                             Min({GetBalance(a), m})), 0)

\* record_external_credit and record_external_debit: the row of a movement
\* whose entry the caller posts in the same transaction.  The entry moves the
\* liability account by what the caller could apply (a loan repayment leaves
\* the overpayment out), or not at all where the caller paid from another
\* account: nothing ties payment_account_id to savings_account_id.
RecordExternal(s, k, a, type, m) ==
    /\ IsOpen(a)
    /\ ~ Seen(k, a)
    /\ \E applied \in 0 .. m :
        Open(s, Post(RowFor(k, a, type, m),
                     [EntryFor(RowFor(k, a, type, m)) EXCEPT !.amount = applied],
                     0))

\* Another module moves the liability account and asks for no row: a repayment
\* with that payment_account_id and without savings_account_id.
PostElsewhere(k, type, m) ==
    /\ Cardinality({f \in journal : f.ns \in ExternalType}) < MaxElsewhere
    /\ \A f \in journal : f.ns = type => f.key # k
    /\ journal' = journal
            \cup {[ns |-> type, key |-> k, acct |-> NONE, amount |-> m]}
    /\ UNCHANGED <<minimum, rows, requests, txn>>

\* submit_withdrawal: no request with this key, and the balance read now
\* covers the amount and the minimum.
SubmitWithdrawal(s, k, a, m) ==
    /\ IsOpen(a)
    /\ \A i \in DOMAIN requests : requests[i].key # k
    /\ m <= GetBalance(a)
    /\ GetBalance(a) - m >= minimum[a]
    /\ Open(s, [op |-> "submit", req |-> [key |-> k, acct |-> a, amount |-> m,
                                          executed |-> FALSE]])

\* The approval service lets one transaction at a time run the executor of a
\* request (the row lock of MakerChecker).
Executing(i) == \E s \in Session : txn[s].op = "post" /\ txn[s].req = i

\* execute_withdraw, key not used: the balance is not looked at again.
ExecuteWithdraw(s, i) ==
    /\ ~ Executing(i)
    /\ ~ KeyUsed(requests[i].key)
    /\ OpenPosting(s, RequestedRow(requests[i]), i)

Marked(q, i) == [q EXCEPT ![i].executed = TRUE]

MarkExecuted(i) == requests' = Marked(requests, i)

\* Faulty variant: the request is marked before the executor has run.
ReplayWithdraw_Unchecked(i) ==
    /\ ~ Executing(i)
    /\ ~ requests[i].executed
    /\ MarkExecuted(i)
    /\ UNCHANGED <<minimum, rows, journal, txn>>

\* execute_withdraw, key used: it returns the row it found, whatever that row
\* records, and the request becomes 'executed'.
ReplayWithdraw(i) ==
    /\ ~ Executing(i)
    /\ KeyUsed(requests[i].key)
    /\ ~ requests[i].executed
    /\ MarkExecuted(i)
    /\ UNCHANGED <<minimum, rows, journal, txn>>

-----------------------------------------------------------------------------
\* The second half: INSERT and commit, or rollback.

\* Faulty variant: no unique key on savings_transactions.
RowAccepted_NoUniqueKey(x) == TRUE

\* uq_savtx_idempotency_key.
RowAccepted(x) == ~ KeyUsed(x.key)

\* post_journal_entry: an entry under the same key is returned as it is.
PostJournalEntry(e) ==
    IF \E f \in journal : f.ns = e.ns /\ f.key = e.key
    THEN journal
    ELSE journal \cup {e}

CommitPosting(s) ==
    LET t == txn[s] IN
    /\ t.op = "post"
    /\ RowAccepted(t.row)
    /\ rows' = rows \cup {t.row}
    /\ journal' = PostJournalEntry(t.entry)
    /\ IF t.req = 0 THEN UNCHANGED requests ELSE MarkExecuted(t.req)
    /\ txn' = [txn EXCEPT ![s] = Idle]
    /\ UNCHANGED minimum

\* approval_requests has no unique key on the payload's idempotency key.
CommitSubmission(s) ==
    /\ txn[s].op = "submit"
    /\ Len(requests) < MaxRequests
    /\ requests' = Append(requests, txn[s].req)
    /\ txn' = [txn EXCEPT ![s] = Idle]
    /\ UNCHANGED <<minimum, rows, journal>>

\* Faulty variant: the ledger commits its entry on its own.
Rollback_KeepsEntry(s) ==
    /\ txn[s] # Idle
    /\ journal' = IF txn[s].op = "post" THEN PostJournalEntry(txn[s].entry)
                  ELSE journal
    /\ txn' = [txn EXCEPT ![s] = Idle]
    /\ UNCHANGED <<minimum, rows, requests>>

\* A duplicate key, a crash or a lost connection: the session rolls back; a
\* withdrawal request stays pending.
Rollback(s) ==
    /\ txn[s] # Idle
    /\ txn' = [txn EXCEPT ![s] = Idle]
    /\ UNCHANGED <<minimum, rows, journal, requests>>

Next ==
    \/ \E a \in Account, m \in MinBalances : OpenAccount(a, m)
    \/ \E s \in Session, k \in Key, a \in Account, m \in Amount :
        \/ Deposit(s, k, a, m) \/ SystemCredit(s, k, a, m)
        \/ DebitInFull(s, k, a, m) \/ DebitInPart(s, k, a, m)
        \/ \E type \in ExternalType : RecordExternal(s, k, a, type, m)
        \/ SubmitWithdrawal(s, k, a, m)
    \/ \E k \in Key, type \in ExternalType, m \in Amount :
        PostElsewhere(k, type, m)
    \/ \E s \in Session, i \in DOMAIN requests : ExecuteWithdraw(s, i)
    \/ \E i \in DOMAIN requests : ReplayWithdraw(i)
    \/ \E s \in Session : CommitPosting(s) \/ CommitSubmission(s) \/ Rollback(s)

Spec == Init /\ [][Next]_vars

-----------------------------------------------------------------------------
(***************************************************************************)
(* A retry, or two sessions that both found the key unused, never leave    *)
(* two movements under one idempotency key.                                *)
(***************************************************************************)
OneRowPerKey == \A x, y \in rows : x.key = y.key => x = y

(***************************************************************************)
(* Sub-ledger and ledger agree movement by movement: every row this module *)
(* posts has its entry, for its account and amount, and there is no such   *)
(* entry without its row.  A replayed key never adopts the entry of        *)
(* another movement.                                                       *)
(***************************************************************************)
Reconciled ==
    /\ \A x \in rows : x.type \in OwnType => EntryFor(x) \in journal
    /\ \A e \in journal : e.ns \in OwnType => \E x \in rows : EntryFor(x) = e

(***************************************************************************)
(* The control account ties: what the ledger reports for the liability     *)
(* account (get_account_balance, all lines) is the sum of what get_balance *)
(* derives for the members plus what the other modules have posted, and    *)
(* nothing else.  No movement of this module is missing on either side or  *)
(* counted twice, whatever keys are reused.                                *)
(***************************************************************************)
ControlAccountTies ==
    LiabilityBalance =
        SumFunctionOnSet([a \in Account |-> GetBalance(a)], Account) + ExternalNet

(***************************************************************************)
(* No money leaves without its request: a withdrawal row is the movement   *)
(* an executed request asked for, and an executed request has a row under  *)
(* its key (its own withdrawal, or whatever used the key before).          *)
(***************************************************************************)
WithdrawalsWereApproved ==
    /\ \A x \in rows : x.type = "withdrawal" =>
        \E i \in DOMAIN requests :
            requests[i].executed /\ x = RequestedRow(requests[i])
    /\ \A i \in DOMAIN requests :
        requests[i].executed => KeyUsed(requests[i].key)

(***************************************************************************)
(* "Idempotency guard - return early if already executed": an executor     *)
(* that returns early has been executed, so every executed request has its *)
(* own movement on record.                                                 *)
(***************************************************************************)
ExecutedIsPaid ==
    \A i \in DOMAIN requests :
        requests[i].executed => RequestedRow(requests[i]) \in rows

(***************************************************************************)
(* The savings statement: "Withdrawals/SYSTEM_DEBIT/EXTERNAL_DEBIT         *)
(* subtract" from the running balance, so the closing balance of a period  *)
(* that covers the account's life is the balance that get_balance reports  *)
(* and withdrawals are checked against.                                    *)
(***************************************************************************)
StatementAgrees == \A a \in Account : StatementBalance(a) = GetBalance(a)
=============================================================================
