# A TLA+ verification of the SACCO platform

The platform is a multi-tenant core-banking backend for savings and credit
cooperatives: FastAPI endpoints over PostgreSQL (one schema per tenant, plus a
`platform` schema), Celery beat jobs, RabbitMQ for events, Redis for caches, and a
Next.js portal (`admin/`) for operators, tenant staff and members. The backend's
correctness rests less on any one function than on what happens *between*
functions: every call is a READ COMMITTED transaction that reads without locks
and writes later, periodic jobs overlap with calls and with themselves, and
idempotency keys and unique keys are what is left when two of them meet. The
portal's correctness rests on what happens between a page and the API: a page
shows what was true when it was rendered, its calls may be lost or answered late,
and all tabs of a browser share one cookie jar. That is what this project models.

## 1. Inventory

| part | state | operations | interacts with | hard behaviour |
|---|---|---|---|---|
| **Maker-checker** `app/modules/maker_checker` | `approval_requests`, `approval_actions` | submit, approve (runs the executor inline at the quorum), reject, cancel, hourly expiry | every module registers executors; outbox | status read unlocked and written later; executor failures are committed; sweep against open calls |
| **Savings** `app/modules/savings` | accounts, append-only transactions; balance derived | open, deposit, withdraw (approval), system debit and credit, external movements | ledger (entry in the same transaction), maker-checker, fees, credit | idempotency check and insert are apart; balance checked at submission only |
| **Ledger** `app/modules/ledger` | chart of accounts, journal entries and lines | post entry (idempotent), manual entry (approval) | called by every module that moves money | an entry found under a key is returned as it is |
| **Outbox** `app/core/outbox` | `outbox_events` | insert with the business transaction, relay tick, purge | RabbitMQ, consumers poll the same table | overlapping ticks, crash between send and commit, lost confirm, backoff, dead letters |
| **Event consumers** credit, fees, members | `processed_events`, loan penalties, assessments | poll every minute | outbox | overlapping runs, deadlock, poison events, late events |
| **Fees** `app/modules/fees` | types, assessments, collections | assess, auto-collect, collect, daily schedule, retry of partial ones | savings (`system_debit`), ledger, outbox | double assessment, over-collection |
| **Credit** `app/modules/credit` | applications, guarantors and liens, loans, instalments, repayments | apply, nominate and accept, approve, disburse, repay, accrue, mark arrears, write off, restructure, payroll batches | maker-checker, savings, ledger, outbox | beat jobs against repayments, liens against withdrawals, status races |
| **Shares** `app/modules/shares` | classes, holdings, transactions | buy, redeem (approval), transfer | ledger, maker-checker | same posting pattern as savings |
| **Members, KYC** `app/modules/members` | members, KYC submissions | register, change status (approval), submit and review KYC | maker-checker, outbox | status races |
| **IAM** `app/modules/iam` | users, sessions with refresh rotation, lockout, reset tokens, signing keys | login, refresh, logout, reset, rotate keys | Redis, audit | refresh reuse, rotation against token lifetime |
| **Tenants and gates** `app/platform_/tenants`, `provisioning`, `core/db.py` | tenants, provisioning steps, offboarding stages | create, provision, retry, suspend, offboard; gate each request | Redis cache, Celery | stale cache, retry of a half-done step |
| **Billing** `app/platform_/billing` | plans, subscriptions, invoices, payments | invoice, pay, grace, suspend | tenants' gate, maker-checker, outbox | beat jobs against payments |
| **Portal: sessions** `admin/apps/portal/src/auth`, `app/api` | one refresh cookie per area, slug and marker cookies, the stores of each page | load a page, sign in and out, refresh once after a 401, enter and end an impersonation | the API's session rows and impersonations | tabs share the jar, several calls await one refresh, cookies and sessions expire apart, end against mint |
| **Portal: forms and actions** `admin/apps/portal/app/**/_components` | dialogs, pending mutations, idempotency keys | 80 controls, each one mutation | every service of the API | lost answers and resubmission, late service, stale pages, keys per mount |
| **Portal: screens and permissions** `permissions.ts`, `nav-config.tsx`, pages | role, permission table, navigation | follow a link, render, refresh | role dependencies of the API | two tables of roles that may drift apart |
| **Impersonations, notifications, search, reporting, rate limits, audit** | | | | listed in `PROJECT.json` with what is left out and why |

What makes each part correct: approvals never take effect without their quorum
or twice; sub-ledger and ledger agree after any interleaving and any crash; an
idempotency key stands for one movement; events are delivered at least once and
applied exactly once; periodic jobs neither undo decisions nor strand work; the
balances a document derives in two ways agree. For the portal: what a user means
once is done once, what a user is told is true, what is offered works, a page's
calls stay in its tenant, and an impersonation is visible while it lasts and dead
when it is over.

## 2. Plan

1. `MakerChecker` with `ApprovalContract` (the abstract specification) and
   proofs: the framework that all money-moving operations pass through. *Done.*
2. `Savings`: the posting pattern with idempotency keys, and proofs. *Done.*
3. `Outbox` and proofs. *Done.*
4. `EventConsumer` and proofs. *Done.*
5. `LoanOrigination` (application, guarantors, decision, disbursement) and
   `Loan` (repayment, accrual, arrears, write-off, recovery, liens), with proofs.
   *Done.*
6. The portal: `PortalSession`, and `PortalApi`, `PortalControls`,
   `PortalScreens` composed in `Portal`, with proofs of both. *Done.*
7. `Fees`: assessment, collection and retry; one assessment per period, never
   more collected than assessed. Fees call `Savings` (`system_debit`).
8. Restructuring and payroll batches as further actions of `Loan`; a composition
   of `Loan` and `Savings` for the liens that a withdrawal must respect.
9. Lockout, reset tokens and key rotation; `Billing` with the tenant gates.
10. Proofs: that serial approvals implement the contract; type correctness of
    `Loan`; sums (`Sums`) for the control account, the loan's repayments and the
    consumer; the invariants of `Portal` for any bounds. *Done.*

Theorems worth proving are the safety invariants that hold by an interplay of
locks, keys and guards: those of 1 to 7.

## 3. Modules

**`MakerChecker`** (service.py, the endpoints, `get_tenant_session`). The
variables `status`, `maker`, `quorum`, `kind`, `acts`, `effect`, `partial`,
`outbox` are committed rows; `txn[s]` is what session `s` has done and not yet
committed, `lock[r]` the row lock. `approve` is four steps, because other
sessions get in between: the unlocked read (`BeginApprove`), the INSERT of the
vote (`CastVote`, which waits for or is refused by the unique key), the count
(`CountVotes`), the autoflush that locks the row (`LockRequest`), the executor
(`ExecutorReturns` / `ExecutorRaises`), and `Commit`. `reject` and `cancel` are
an unlocked read and a flush. `kind` is what an executor does when it is called
twice: `own` finds its own record, `keyed` finds whatever carries its key, so that
it may return without work on its first call (as `execute_withdraw` does when
another movement has used the key), `constrained` hits a unique key, `unguarded`
acts again; `Written` is what one that returns may have written. `Expire` is
the sweep's UPDATE, which PostgreSQL re-evaluates on the committed row. `Lapse`
is the clock. `Crash` may end any open transaction.

**`ApprovalContract`** is what the design document promises: each call one
atomic step; an executor may find nothing left to do. `MakerChecker!ImplementsContract`
is the refinement.

**`Savings`** (savings/service.py, executors.py, `post_journal_entry`). `rows`,
`journal`, `requests` are committed; `txn[s]` is an operation between its reads
and its commit. The INSERTs and the commit are one step: an INSERT that meets an
uncommitted duplicate waits for it, so the order of first INSERTs is the order of
commits among transactions that compete for a key. Journal keys carry the prefix
of the operation (`savings-deposit-`, …), which is `Entry.ns`. The approval of a
withdrawal is reduced to what `MakerChecker` establishes: executors of one
request run one at a time. `RecordExternal` lets the caller's entry be smaller
than the row, as the repayment service does with an overpayment; `PostElsewhere` is
an entry of another module on the liability account without any savings row, a
repayment into that account. `LiabilityBalance` sums every line of the account, as
`get_account_balance` does, and `ControlAccountTies` sets apart what came from
outside (`ExternalNet`): the accounts explain the rest.

**`Outbox`** (publisher.py, worker.py, retention.py). `tick[w]` is a running
relay tick with the `now` it read once (`late`: rows that are in backoff as seen
from it), its locked batch and what became of each row. The broker is external:
it counts what it accepts; a publish that raises may have been accepted.

**`EventConsumer`** (credit/consumer.py; fees and members have the same loop).
A run fetches a batch without locks, handles each event in a savepoint of one
long transaction, and commits at the end. Waiting for another run's uncommitted
row and the deadlock it can lead to are explicit (`Blocks`, `Deadlocked`,
`Victim`).

**`LoanOrigination`** (services/application.py, guarantor.py, disbursement.py, the
approval executor). One application with its approval request, its guarantors and
the loan rows and entries that disbursement creates. Decisions and consents are
two steps, the unlocked reads (`OpenApprove`, `OpenReject`, `OpenWithdraw`,
`OpenConsent`) and the writes at commit, which overwrite whatever has been
committed meanwhile. `Disburse` locks the application, so after the unlocked
lookup of its key it is one step. `granted` and `consented` remember committed
approvals and consents. The votes behind an approval are `MakerChecker`'s
subject; `EndRequest` is a request that ends outside the credit module.

**`Loan`** (services/repayment.py, write_off.py, guarantor.py, beat.py, the
write-off executor). It starts where `LoanOrigination` ends. A call is the
unlocked lookup of its key (`OpenRepay`, …) and one step from the row lock to the
commit (`Repay`, `WriteOff`, `AskWriteOff`, `Execute`, `Recover`). The accrual and
the arrears job are three steps each, because they hold what they read: the
loan's interest or status, then the instalments, then absolute values written
over the row. A call may be sent again while the first is open. `accrued` is the set of instalments with an accrual entry, `journal`
the entries against the principal receivable. Liens are kept times the number of
guarantors, so that equal shares need no division; the rounding of a share to
four decimals is not modelled. `_update_installments`, a loop over the open
instalments, is written as what pours into instalment *n* after the earlier ones
are full (`Poured`). Penalties are added and taken by the event consumer; nothing
publishes the events yet, so `AssessPenalty` and `CollectPenalty` translate the
UPDATE statements alone.

**`PortalSession`** (cookies.ts, server-helpers.ts, the middleware, the layouts,
AuthProvider, the routes under `app/api`, the client's refresh.ts; on the API's
side SessionService and ImpersonationService). `jar` is the browser's cookies,
`tabs[t]` a page with the token, slug and banner its layout gave it and the calls
it has out, `sessions` and `imps` are rows of the API. A call that meets a 401 is
`Call`, `Meets401`, `RefreshRoute` (the server), `RefreshReturns` (the Set-Cookie and the
promise that all waiting calls share) and `Retry`; other tabs act in between.
Entering an impersonation is three steps (`Activate`, `MintSession`,
`MintLinks`), because `mint_tenant_token` reads the row, commits the session in
the tenant's schema, and links the shadow user in another transaction.
Closing one, by its owner or an administrator, is two: `CloseBegins` commits the
revocation in the tenant's schema, `CloseCommits` the platform row, and either may
fall between the steps of a mint. `EndImpersonation` is the banner's button and the
end route's call, `EndReturns` its answer, which clears the cookies. A page has
several calls out: the refusal (`Call`) and its arrival (`Meets401`) are apart, so
that a 401 may arrive before, during or after a refresh that another call started.
A refresh that succeeds leaves a blank cookie (`BlankCookie`): the API answers
without a refresh token and the route writes that answer. `UserActive` is the check
of the API's dependency on the user behind a token. `Tick` is the clock; the
browser drops cookies whose max-age has passed.

**`PortalApi`** is what the portal is written against: for every kind of object
on a screen its states and the moves others may make, and for every operation
the portal calls the least role, the accepted states, whether it acts or files a
request, in which states the executor acts, and what a repetition meets (`once`): a
unique key, a key that is looked up and no more, the executor's lookup, the journal
entry, values written again, or the state the first one left. The states tell apart
what a service refuses on a current page: an application that is approved and not
payable, a product without guarantors, a request that has a vote. The services are modelled in detail by the modules above where they carry the most;
here they are their guards and effects.

**`PortalControls`** has one definition per component that sends a mutation: when
it is offered, its steps, when its idempotency key is made, what follows success
and failure, what its toast says. **`PortalScreens`** has the permission table,
every page with its guard, the role its data needs, what a refused read looks
like, its controls, and the links to it (sidebar, palette, dashboard, pages).

**`Portal`** puts them together: a user follows a link, opens a control on an
object, submits (`Submit`), and the API serves (`Serve`), while the answer may be
lost (`Lose`) and the call served after it was given up, checkers execute or
reject the request, others move the object or change the user's role, and
`router.refresh()` renders the page again (`Rerender`). `intent` is what a user
meant: a resubmission after a failure is the same intent. Calls with one key may
overlap: `early` marks one that looked its key up before the other recorded it; it
is refused by the unique column or, where there is none (`write_off.py:53`), acts
again once it has the lock (`Act`). Operations that rest on the state alone check it
under the lock, or on a row that only one of them can leave, and are served one
after the other. `recover` looks its key up early too, but checks under the lock that
the loan is written off (`write_off.py:236-246`), so that its repetition is refused
unless somebody wrote the loan off again.

Definitions named `X_Y` next to `X`, introduced by "Faulty variant", and those of
the portal's modules introduced by "Mutant", are not part of the model: they are
plausible bugs, one for each property, and TLC finds each property violated when
the definition is replaced by its faulty form.

## 4. Runs

| run | bounds | shows |
|---|---|---|
| `maker_checker_race` | 1 request, 4 users, 2 sessions, quorums 0..2, all kinds, expiry | the four safety invariants beside the types, `LapsedRequestsSettle` |
| `maker_checker_serial` | 2 requests, 3 users, 1 session | refinement of `ApprovalContract` |
| `maker_checker_rejected` | 1 request, 3 users, 2 sessions | *violation*: an executed request ends as rejected |
| `savings_keys` | 2 accounts, 2 keys, 2 sessions, 2 requests, 1 entry from elsewhere | keys, reconciliation, control account, approvals |
| `outbox_relay` | 2 events, 2 ticks, batches of 2, 3 attempts, 2 crashes | delivery, duplicates, dead letters, settlement |
| `event_consumer` | 3 events, 1 loan, 2 runs, batches of 2, 1 accident | exactly once, penalties, consumption |
| `loan_origination` | 2 guarantors, 2 keys, 3 sessions | one disbursement, approval and consent behind it |
| `loan_life` | 1 guarantor, 1 instalment, principal 2, 2 keys, 2 sessions, 1 job at a time, days 0..1, no penalties | 1.8 million states: principal, liens, rows and booked repayments in step |
| `loan_schedule` | 2 instalments, 1 session, 2 jobs, days 0..2, a penalty, write-offs without approval | 1.2 million states: a late instalment and stale jobs; nothing is settled that owes, the schedule shows what was repaid, no more interest is owed than was accrued |
| `portal_session` | 2 tabs, 1 call per page at a time, 2 tenants (one address), 1 impersonation, 3 sessions, clock 0..2 | 986 000 states: tenancy of calls, marked and dead impersonations |
| `portal_work` | every link; every control of every screen in every state and role; 2 calls, 2 visits, 1 move of others | 3.0 million states: the five portal invariants |
| `portal_keys` | 2 calls, 1 visit | *violation*: the second use of a dialog is told as done and is not |

Why these bounds suffice. Every race in the code is between two transactions
over one row or one key, so two sessions (ticks, runs) and one contested object
show it; a third session repeats it. Quorums 0, 1 and 2 are the boundary, the
default and the one where votes can overlap; four users leave a quorum of two
non-makers and a rejecter. Two keys and two accounts let a key be reused on the
same and on another account. Amounts are 1, and `{1, 2}` where partial amounts
matter, because the properties compare sums and never products. Three events
against batches of two make a batch overflow. In `loan_life` a principal of 2 and
amounts 1 and 2 give partial and full repayments and write-offs on both sides of
the threshold, and calls overlap and are sent again; its instalment falls due and
accrues, and the arrears job takes a recovered loan out of arrears. One job at a time
loses nothing there, since the jobs write different columns and read none of each
other's. `loan_schedule` has two instalments, both jobs together and a day more, so
that an instalment becomes late, and a penalty, which keeps a loan from closing,
against one call at a time: allocation does not depend on keys, and calls exclude each
other by the row lock. The theorems below
remove the bounds for all of the safety properties but `ScheduleAgrees` and
`OwesOnlyAccrued`. Symmetry is used in `Savings`, on
keys, accounts and sessions, and in `Loan`, on keys and sessions, in runs without liveness
properties. In `portal_session` two tabs are enough for one to change the jar
under the other. It has one call per page; that several calls which await one refresh
are all retried or refused (`NoCallIsStranded`) is a theorem for any number of them.
The tenant session lives twice as long as the impersonation is
approved for, as the access token and as the platform session, so that each expires
before the other. The run takes `PortalServesApi = TRUE`, without which no refresh
succeeds and fewer states are reached; the safety theorems hold for both values.
In `portal_work` two
calls are a try and a retry, or two uses; a second visit brings answers of
the first; one move of others is enough for every stale page. The violation runs
have the smallest bounds that show them.

Fairness. A server runs an open transaction to its end and PostgreSQL grants a
row lock to its waiters in order: strong fairness of a session's `Step`. Beat
runs the sweep every hour, starts a relay tick every 5 s and a consumer run
every minute: `Expire`, `StartTick`, `Fetch` are fair, and a run that has started
keeps working. `PortalSession` and `Portal` assume none: a fetch has no timeout, so
an answer that never comes is a page that waits for ever, and `NoCallIsStranded` says
what can be said without it. No fairness is assumed of users, of the broker's success, or of
the absence of crashes (bounded by `MaxCrashes`, `MaxFaults` where liveness is
checked; in `MakerChecker` a session may crash for ever, and the sweep still
settles the request). `CHECK_DEADLOCK FALSE` is set throughout because the
environment may stop calling.

Findings. The two violation runs are disagreements between the code and a line of
the repository that says otherwise; `PROJECT.json` quotes both:

- a reject that overlaps an approval overwrites its outcome (`RejectedIsNotCarriedOut`);
- a dialog that is used twice on a page sends the key of its first use, so that the
  second deposit is reported and not made (`FreshKeys`).

The modules state more properties that TLC finds violated, on the bounds of the runs
above or smaller ones. No run keeps them; each is an INVARIANT away from its
counterexample.

| property | the code | what says otherwise |
|---|---|---|
| `LoanOrigination!ConsentGate` | the approval executor never looks at guarantors (`credit/executors.py:36-48`) | `2026-05-28-credit-v1b-design.md:258-259`: all required guarantors accepted before approval |
| `Savings!ExecutedIsPaid` | a withdrawal whose key any other movement has used is executed and not paid (`savings/executors.py:44-54`) | `savings/executors.py:42`: "return early if already executed" |
| `Savings!StatementAgrees` | `get_balance` leaves out external movements (`savings/service.py:149-167`) | `savings_statement.py:34-35` counts them |
| `Loan!ReceivableAgrees` | a write-off sent again while the first call is open lowers the debt twice and posts once (`write_off.py:53-67`, `175-178`) | `credit-v1a/10-write-off.md:685`: the second call is a no-op |
| `Loan!InterestWasAccrued` | the accrual job writes over a repayment of interest (`credit/beat.py:117`) | `2026-05-27-credit-v1a-design.md:58-63`: every such operation locks the loan |
| `PortalSession!CloseRevokesAll` | a mint between the two commits of a close, or a close between those of a mint, leaves a session that works (`impersonations/service.py:317-338`) | `impersonations/service.py:138-139`: "in the same cross-schema transaction" |
| `PortalSession!OneRefreshPerToken` | a 401 that arrives after a refresh has returned starts another (`refresh.ts:29`, `53`) | `refresh.ts:19-20`: "only one refresh call goes out" |
| `PortalSession!SessionStaysActive` | the first refresh blanks the refresh cookie (`tenant-refresh/route.ts:45-49`, `tenant_auth/service.py:324`), so that the second one, or a reload, ends at the login page | `server-helpers.ts:8-10`: "the same session stays active" |
| `PortalSession!RefreshCarriesCookie` (with `PortalServesApi = FALSE`) | the refresh goes to the API's origin (`refresh.ts:33`), which `docker-compose.yml:241` and `.env.staging.example:43` keep apart from the portal's | `refresh.ts:15-17`: the cookie attaches |
| `PortalSession!BannerIsTrue` | signing out and in leave the marker of an impersonation (`tenant-logout/route.ts:25`) | `cookies.ts:84`: the operator is inside an impersonated session |
| `Portal!RetryIsOneIntent` | forms without a key of their own get a new one with each try (`idempotency.ts:17-19`) | `2026-06-02-portal-v1-index.md:46`: the same key across retries |
| `Portal!ExecutionIsTold` | a vote short of the quorum is answered, and toasted, like an execution (`ApprovalActions.tsx:75`) | the toast itself |
| `Portal!RenameIsDirect` | a rename files a request nobody is told of (`EditUserForm.tsx:45-66`) | `EditUserForm.tsx:94-95`: "name-only saves directly" |
| `Portal!ApprovedIsDisbursed` | an approved application to member savings is always refused (`disbursement.py:118-122`) | `2026-05-27-credit-v1a-design.md:392`: credited to the member's account |
| `MakerChecker!QuorumDecides` | two overlapping votes leave a request of quorum two pending for good (`maker_checker/service.py:119`) | nothing promises it |

Some properties of the portal except what is known not to have them; the
exceptions are named sets, so that a new case is an error:

- `Unprotected` (`AppliedOnce`): creations without a natural key, retries of
  provisioning, impersonation requests and password resets have neither key nor
  guard, and a lost answer followed by a second try does the work twice; a write-off
  has a key that an overlapping repetition passes. Where the state is the guard, or
  the key is only looked up, others who move the object back (`moves > 0`) may let a
  late call act again.
- `TooWide` (`RefusalHasCause`): buttons that are shown to roles or in states the
  API refuses, such as approving one's own request, rejecting a payment as the
  one who recorded it, disbursing to member savings (`ApprovedIsDisbursed`),
  nominating guarantors for a product that wants none, or buying shares of an
  inactive product. A call that loses its key to an overlapping repetition of itself
  is not held against the control.
- `LooseLinks` (`NoDeadLinks`): palette and dashboard links ask for no permission,
  two sidebar entries for less than their pages need.
- `Overstated` and `ReusesKey` (`ToldIsTrue`): the votes, the rename of a user and the
  forms that keep their key, the subjects of `ExecutionIsTold`, `RenameIsDirect` and
  `FreshKeys`.
- `raced` (`EndedImpersonationIsDead`): a close that overlaps a mint; `CloseRevokesAll`
  is the same without the exception.

Met while modelling and not stated as properties: when the platform session has run
out the end route returns 401 with the cookies in place, although
`ImpersonationBannerClient.tsx:28` says they are cleared; signing out clears the
cookie and the API's session stays; `refresh.ts:65` retries with a request whose body
was already read; the credit application page looks for a status `pending` that does
not exist.

## 5. Proofs

All theorems hold for every value of the constants under the named assumptions
of the modules: quorums are naturals, `NoOne` is no user and no session; amounts
are positive; events are numbered; limits, bounds and the dues of a loan are
naturals; the accounts of a tenant and the instalments of a loan are finitely
many, which a sum over them needs. One theorem has a hypothesis of its own, the
assumption under which its run checks the property: `ContractImplemented` (calls do
not overlap and nothing expires), without which the code does not implement the
contract, as `maker_checker_rejected` shows.

*`MakerCheckerProofs`.* `QuorumBehindEffect` is not inductive: it does not say
that a transaction which is about to commit its effect has the quorum in the
votes *it* counted. The invariant adds, for each open transaction, what it has
established: past `count` its vote is not yet committed and no one else's
transaction holds the same vote; past `lock` the committed approvals and its own
reach the quorum, and remain so because votes are never deleted; in `execute`
and `commit` after an executor it holds the row lock, so at most one uncommitted
effect exists per request, and if the committed effect is already there a
guarded executor wrote nothing. `EffectAtMostOnce`, `OneVotePerChecker` and
`WorkIsAnnounced` follow, the last in both directions: work has its event, and, for
executors that do not take another's work for their own, the event has its work.
`UndecidedIsUndone` needs that whoever holds the row lock with an effect is about to
write a decided status, and that a vote short of the quorum writes none.
`ContractImplemented` is the refinement. `SerialInv` says that what a call read at
its start still holds: its request is pending, nobody has voted if it cancels, the
count it made is still the count, and an undecided request has no effect. With
it a `Commit` is the contract's step of the same name, a submission its
`SubmitRequest`, and every other step leaves the contract's variables alone.

*`SavingsProofs`.* The invariant relates each open transaction to its account
and request, and says that entries of the module's own types come with their
rows; the case that needs thought is a replayed key, where `post_journal_entry`
returns an existing entry: the row that owns it then makes the unique key refuse
the new row. `ControlAccountTies` compares two sums, over the rows and over the
entries; a commit adds the same amount to both, or to neither, and what the other
modules post is on both sides (`ExternalNet`).

*`Sums`.* The library defines a sum by recursion on an arbitrary element, and its
induction theorems take an operator as a parameter, which the provers cannot
instantiate. The lemmas are proved without them: a minimal counterexample exists
because the strict subsets of a finite set are well founded (`WFMin` takes a set).
An additive function on the subsets exists, satisfies the library's equation, and
is the only one that does; `SumRemove` and the lemmas for adding, changing and
comparing follow.

*`OutboxProofs`.* The invariant: rows held by two ticks are disjoint, ready, and
have attempts left; what a tick counts as accepted was sent. `DuplicatesHaveCause`
then follows from moving one unit between in flight, recorded and crashed.

*`CreditProofs`*, of `EventConsumer` and `LoanOrigination`. The committed rows say nothing of a run half way through
its batch. The invariant gives every run a view: each loan row it has locked is
what the processed events and those it has handled make of it (`Sound`). A commit
makes that view the committed one and does not disturb the others, because two runs
never hold the same loan or the same event (`Apart`). `EffectExactlyOnce` and
`PenaltiesNotUnderstated` are its conclusions for the committed rows.
For `LoanOrigination` (whose specification has names of its own, such as
`OriginationSpec`, because the module extends both) the invariant says what a status
stands for: approved or disbursed, that an executor has committed; accepted, that a
consent has. A late write may take the status away or bring it back, never the fact.
One loan per application follows from the unique key alone, since the status check
does not suffice.

*`LoanProofs`.* `PrincipalAccounted`, `SettledOwesNothing` and `LiensFollowDebt` are
inductive only together. A recovery sets each lien to the amount restored; that
is the whole debt only because a written-off loan owed nothing and bound nobody.
An approved write-off is executed without a look at the present debt; the debt
stays natural because of the column's CHECK. What the jobs carry from read to
write is typed in `Shape`; the jobs never touch the principal columns, and the
status they write is an active one, of which the invariants ask nothing.
`LoanTypes` also types the instalments, rows and entries, whose amounts come out of
the allocation. `RepaymentsAgree` holds for any number of overlapping sessions: a
second repayment under a key is refused by the unique key of its row, which rolls
back what it changed, and every entry of a repayment has its row, so that a new row
makes a new entry (`Ledger`). A write-off has no such row, which is why `ReceivableAgrees`
fails and is not a theorem.

*`PortalSessionProofs`.* For any tabs, tenants, impersonations and lifetimes. The
type invariant needs that every cookie, token, refresh result and mint under way
names a row of the right area (`TypeInv`); `CallsStayInTenant` follows from
`TypeInv`, and so does `NoCallIsStranded`, whose content is that only a return of the
refresh ends it and that it takes every waiting call along. `EndedImpersonationIsDead`
needs `DeadInv`: a mint under way while a close is, or at a close, is noted
(`MintsAreNoted`); a session belongs to a linked impersonation unless its
mint is under way (`SessionsAreLinked`); once a close has begun its sessions are
revoked or the race is noted (`BegunIsDead`). `LiveImpersonationIsMarked` needs
`MarkInv`: a cookie that opens an impersonated session is accompanied by the marker
of that impersonation, which expires no earlier; a refresh writes a blank cookie, so
that no late answer can bring a session back without its marker.

*`PortalProofs`.* For every link, control, role and state of the portal and any
number of calls, visits and moves of others. The first half looks at the portal as
it is written. Each of the 80 controls is a case: its operation acts, or files a
request, as its toast says (`Honest`); whoever is shown it may call it, in a state
the API accepts (`Narrow`); its key is made with the component where the API looks
at keys, or the operation leaves the states it acts in, and a key that is only looked
up does not count (`Protected`); the named
exceptions are the sets of the properties. Each link is a case too: every role that
has its permission is admitted to its page (`Leads`). The second half looks at
behaviours. `Base` says that calls are ordered by visit and intent, that one intent
is of one visit, that the browser believes in success only after one, and that a
visit which success ends is a visit for one intent; it holds because a component
with a call out submits no other. On it rest: for `ToldIsTrue`, that a recorded key
is that of a successful call (`Records`), so that a replay answers the intent that
took effect, and that an overlapping call ends at the unique column; for `AppliedOnce`, that an effect is tied to a recorded key, to an
executed request, or to the state the first one left (`Once`); for `PageIsCurrent`,
that where a page patches itself the one answer still to come is about the object as
it is (`Current`); for `NoDeadLinks`, that without interference the layout knows the
user's role (`Followed`); for `TypeOK`, that effects are counted by calls served and
requests executed (`Count`).

`OneVotePerChecker`, `DeadLettersRest` and `NoCallIsStranded` are proved and in no run.

Only model-checked: everything temporal beyond action properties
(`LapsedRequestsSettle`, `EventsSettle`, `EventsAreConsumed`), which the prover has
no fairness for, and two properties of the schedule. For `ScheduleAgrees` one would have
to show by induction over the instalments that what is poured into them adds up, and
`OwesOnlyAccrued` needs what the jobs carry from read to write tied to the entries they
have yet to make. Every other invariant of the passing runs is a
theorem.

## 6. Not modelled

Of credit: flat loans (their interest is booked at disbursement and never enters
`accrued_interest`), the effects of restructuring and of the lines of payroll
batches (the portal's calls and their executors' guards are in `PortalApi`),
statements, the arithmetic of schedules, and the savings row of a repayment from savings (that
is `Savings!RecordExternal`). Contents of notifications, logs, metrics and audit rows (written by the
transaction they describe); validation of request bodies; permissions, except
where they decide who may vote and in the portal's screens; read-only reports other
than the savings statement. Of the platform: provisioning steps, billing jobs,
scheduled fees, lockout, reset tokens, signing keys, the search index, rate limits.
Of the portal: the polling of provisioning, tenant and member pages that only list,
the bell, palette search, theme, report downloads, the zod schemas and field
validation, the forgot- and reset-password routes, the component library beyond its
dialogs. Money is a natural number: the code uses
`NUMERIC(19,4)` and `Decimal`, which do not overflow or round in the modelled
operations. Isolation is READ COMMITTED as PostgreSQL implements it, modelled
from how the code relies on it.
