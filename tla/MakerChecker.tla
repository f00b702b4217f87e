---------------------------- MODULE MakerChecker ----------------------------
(***************************************************************************)
(* The maker-checker framework (app/modules/maker_checker/service.py):     *)
(* approval requests, the checkers' votes, and the executor that runs      *)
(* inline when the quorum is met.                                          *)
(*                                                                         *)
(* Every HTTP call is one PostgreSQL transaction at READ COMMITTED, run    *)
(* by a Session.  The variables status, acts, effect, partial and outbox   *)
(* are the COMMITTED rows; what a transaction has written and not yet      *)
(* committed lives in txn[s].  A transaction reads the request WITHOUT a   *)
(* lock (_get_pending), and takes the row lock only when the ORM flushes   *)
(* its UPDATE of the status: by autoflush before the executor's first      *)
(* query, or in the flush of reject and cancel.  The status is not read    *)
(* again after that, so a later writer overwrites an earlier one.          *)
(***************************************************************************)
EXTENDS Naturals, FiniteSets

CONSTANTS
    Request,    \* approval_requests rows that may be created
    User,       \* makers and checkers
    Session,    \* concurrent database sessions (HTTP calls in flight)
    Quorums,    \* values of required_approvals (SubmitApprovalRequest does
                \* not exclude 0)
    Expirable,  \* requests submitted with a non-null expires_at
    NoOne       \* not a user, not a session

ASSUME QuorumsAreCounts == Quorums \subseteq Nat
ASSUME NoOneIsNobody == NoOne \notin User \cup Session

VARIABLES
    status,   \* Request -> Status, the committed approval_requests.status
    maker,    \* Request -> requested_by
    quorum,   \* Request -> required_approvals
    kind,     \* Request -> how the operation's executor meets a second call
    acts,     \* the committed approval_actions rows
    effect,   \* Request -> how often the executor's work has been committed
    partial,  \* requests whose failed executor left committed writes behind
    outbox,   \* the committed outbox_events of the framework
    lapsed,   \* requests whose expires_at lies in the past
    lock,     \* Request -> the session that holds the row lock
    txn       \* Session -> the transaction it has open

vars == <<status, maker, quorum, kind, acts, effect, partial, outbox, lapsed,
          lock, txn>>

Status == {"none", "pending", "rejected", "executed", "execution_failed",
           "expired", "cancelled"}

(***************************************************************************)
(* What the registered executors look for before they act.  "own": a row   *)
(* of this very request (start_impersonation by approval_request_id), so a *)
(* second call returns.  "keyed": a row under the idempotency key of the   *)
(* payload (savings.withdraw, credit.write_off), so a second call returns, *)
(* and so does a first one whose key another operation has used.           *)
(* "constrained": nothing, but a second INSERT hits a unique key, which    *)
(* kills the session (shares.redeem_shares).  "unguarded": at most the     *)
(* state of the target, which others change (credit.approve_application),  *)
(* so they may return at once and may act again (members.change_status).   *)
(***************************************************************************)
Kind == {"own", "keyed", "constrained", "unguarded"}

Action == [req : Request, actor : User, action : {"approve", "reject"}]

EventType == {"ApprovalRequested", "ApprovalGranted", "ApprovalRejected",
              "ApprovalExecuted", "ApprovalExecutionFailed"}

Event == [type : EventType, req : Request, by : User]

(***************************************************************************)
(* An open transaction: where it stands, the call it serves, the status it *)
(* will leave ("pending": it leaves the row alone), and what its executor  *)
(* has written.                                                            *)
(***************************************************************************)
Txn == [pc : {"vote", "count", "lock", "execute", "flush", "commit"},
        verb : {"approve", "reject", "cancel"},
        req : Request, user : User,
        next : Status \ {"none", "expired"},
        wrote : {"nothing", "effect", "part"}]

Idle == [pc |-> "idle"]

TypeOK ==
    /\ status \in [Request -> Status]
    /\ maker \in [Request -> User \cup {NoOne}]
    /\ quorum \in [Request -> Quorums \cup {0}]
    /\ kind \in [Request -> Kind]
    /\ acts \subseteq Action
    /\ effect \in [Request -> Nat]
    /\ partial \subseteq Request
    /\ outbox \subseteq Event
    /\ lapsed \subseteq Expirable \cap Request
    /\ lock \in [Request -> Session \cup {NoOne}]
    /\ txn \in [Session -> Txn \cup {Idle}]

Init ==
    /\ status = [r \in Request |-> "none"]
    /\ maker = [r \in Request |-> NoOne]
    /\ quorum = [r \in Request |-> 0]
    /\ kind = [r \in Request |-> "own"]
    /\ acts = {}
    /\ effect = [r \in Request |-> 0]
    /\ partial = {}
    /\ outbox = {}
    /\ lapsed = {}
    /\ lock = [r \in Request |-> NoOne]
    /\ txn = [s \in Session |-> Idle]

-----------------------------------------------------------------------------
\* The rows a query sees.

ActsOn(r) == {a \in acts : a.req = r}

Approvals(r) == {a \in ActsOn(r) : a.action = "approve"}

\* The action row that transaction t inserts.
OwnAct(t) == [req |-> t.req, actor |-> t.user, action |-> t.verb]

\* t has inserted its action row and not yet committed it.
HasVoted(t) ==
    \/ t.pc \in {"count", "lock", "execute"}
    \/ t.pc = "commit" /\ t.verb \in {"approve", "reject"}

\* uq_..._no_double_vote: a committed row for the same request and actor
\* refuses the INSERT, an uncommitted one makes it wait.
AlreadyVoted(t) == \E a \in acts : a.req = t.req /\ a.actor = t.user

VoteInFlight(s, t) ==
    \E o \in Session \ {s} :
        HasVoted(txn[o]) /\ txn[o].req = t.req /\ txn[o].user = t.user

\* Faulty variant: an UPDATE that does not wait for the row lock.
Free_NoRowLock(r) == TRUE

Free(r) == lock[r] = NoOne

Locked(r, s) == lock' = [lock EXCEPT ![r] = s]

\* The session of transaction t ends: its row lock, if it holds it, is released.
Release(s, r) == [lock EXCEPT ![r] = IF @ = s THEN NoOne ELSE @]

Emit(types, r, u) ==
    outbox' = outbox \cup {[type |-> y, req |-> r, by |-> u] : y \in types}

-----------------------------------------------------------------------------
\* ApprovalService.submit: one INSERT and its ApprovalRequested event.
Submit(r, u, q, k) ==
    /\ status[r] = "none"
    /\ status' = [status EXCEPT ![r] = "pending"]
    /\ maker' = [maker EXCEPT ![r] = u]
    /\ quorum' = [quorum EXCEPT ![r] = q]
    /\ kind' = [kind EXCEPT ![r] = k]
    /\ Emit({"ApprovalRequested"}, r, u)
    /\ UNCHANGED <<acts, effect, partial, lapsed, lock, txn>>

\* _get_pending: an unlocked read, refused unless the request is pending.
GetPending(r) == status[r] = "pending"

Open(s, t) ==
    /\ txn[s] = Idle
    /\ txn' = [txn EXCEPT ![s] = t]
    /\ UNCHANGED <<status, maker, quorum, kind, acts, effect, partial, outbox,
                   lapsed, lock>>

Fresh(verb, r, u, pc) ==
    [pc |-> pc, verb |-> verb, req |-> r, user |-> u,
     next |-> "pending", wrote |-> "nothing"]

\* The checks at the head of approve, reject and cancel.  expires_at is not
\* one of them.
BeginApprove(s, r, u) ==
    /\ GetPending(r)
    /\ u # maker[r]
    /\ Open(s, Fresh("approve", r, u, "vote"))

BeginReject(s, r, u) ==
    /\ GetPending(r)
    /\ u # maker[r]
    /\ Open(s, Fresh("reject", r, u, "flush"))

\* Faulty variant: cancel forgets to look for a checker's action.
BeginCancel_IgnoresActs(s, r, u) ==
    /\ GetPending(r)
    /\ u = maker[r]
    /\ Open(s, Fresh("cancel", r, u, "flush"))

BeginCancel(s, r, u) ==
    /\ GetPending(r)
    /\ u = maker[r]
    /\ ActsOn(r) = {}
    /\ Open(s, Fresh("cancel", r, u, "flush"))

\* The step of s moves its transaction on and leaves the database alone.
Advance(s, t) ==
    /\ txn' = [txn EXCEPT ![s] = t]
    /\ UNCHANGED <<status, maker, quorum, kind, acts, effect, partial, outbox,
                   lapsed>>

\* approve: the INSERT of the vote and its flush.
CastVote(s) ==
    LET t == txn[s] IN
    /\ t.pc = "vote"
    /\ ~ VoteInFlight(s, t)
    /\ ~ AlreadyVoted(t)
    /\ Advance(s, [t EXCEPT !.pc = "count"])
    /\ UNCHANGED lock

\* Faulty variant: the vote is counted once by the query and once by hand.
QuorumMet_CountsOwnTwice(t) ==
    Cardinality(Approvals(t.req) \cup {OwnAct(t)}) + 1 >= quorum[t.req]

\* approve: the count sees the committed approvals and its own row.
QuorumMet(t) ==
    Cardinality(Approvals(t.req) \cup {OwnAct(t)}) >= quorum[t.req]

CountVotes(s) ==
    LET t == txn[s] IN
    /\ t.pc = "count"
    /\ Advance(s, [t EXCEPT !.pc = IF QuorumMet(t) THEN "lock" ELSE "commit"])
    /\ UNCHANGED lock

\* _execute: the executor's first query autoflushes status = 'approved'.
LockRequest(s) ==
    LET t == txn[s] IN
    /\ t.pc = "lock"
    /\ Free(t.req)
    /\ Locked(t.req, s)
    /\ Advance(s, [t EXCEPT !.pc = "execute"])

\* Faulty variant: the status stays 'approved' after the executor returns.
ExecutorReturns_LeavesApproved(s) ==
    LET t == txn[s] IN
    /\ t.pc = "execute"
    /\ Advance(s, [t EXCEPT !.pc = "commit", !.next = "approved",
                            !.wrote = "effect"])
    /\ UNCHANGED lock

\* What an executor that returns may have written: nothing where its guard
\* found the work done, by an earlier call or by another operation.
Written(r) ==
    CASE kind[r] \in {"own", "keyed"} /\ effect[r] > 0 -> {"nothing"}
      [] kind[r] = "unguarded" \/ (kind[r] = "keyed" /\ effect[r] = 0) ->
            {"nothing", "effect"}
      [] OTHER -> {"effect"}

\* _execute: the executor returns, and the request is executed whatever it
\* has written; or it raises, before or after a flush of some of its
\* writes, and the except clause keeps the transaction going.
ExecutorReturns(s) ==
    LET t == txn[s] IN
    /\ t.pc = "execute"
    /\ ~ (effect[t.req] > 0 /\ kind[t.req] = "constrained")
    /\ \E w \in Written(t.req) :
        Advance(s, [t EXCEPT !.pc = "commit", !.next = "executed", !.wrote = w])
    /\ UNCHANGED lock

ExecutorRaises(s) ==
    LET t == txn[s] IN
    /\ t.pc = "execute"
    /\ ~ (effect[t.req] > 0 /\ kind[t.req] # "unguarded")
    /\ \E w \in {"nothing", "part"} :
        Advance(s, [t EXCEPT !.pc = "commit", !.next = "execution_failed",
                             !.wrote = w])
    /\ UNCHANGED lock

\* reject: one flush inserts the action and updates the status.
FlushReject(s) ==
    LET t == txn[s] IN
    /\ t.pc = "flush" /\ t.verb = "reject"
    /\ ~ VoteInFlight(s, t)
    /\ ~ AlreadyVoted(t)
    /\ Free(t.req)
    /\ Locked(t.req, s)
    /\ Advance(s, [t EXCEPT !.pc = "commit", !.next = "rejected"])

FlushCancel(s) ==
    LET t == txn[s] IN
    /\ t.pc = "flush" /\ t.verb = "cancel"
    /\ Free(t.req)
    /\ Locked(t.req, s)
    /\ Advance(s, [t EXCEPT !.pc = "commit", !.next = "cancelled"])

\* Faulty variant: the executor's event is published after the commit, and lost.
Published_AfterCommit(t) ==
    IF t.verb = "approve" THEN {"ApprovalGranted"}
    ELSE IF t.verb = "reject" THEN {"ApprovalRejected"} ELSE {}

\* The events a transaction has added to its session by the time it commits.
Published(t) ==
    CASE t.verb = "cancel" -> {}
      [] t.verb = "reject" -> {"ApprovalRejected"}
      [] t.next = "executed" -> {"ApprovalGranted", "ApprovalExecuted"}
      [] t.next = "execution_failed" ->
            {"ApprovalGranted", "ApprovalExecutionFailed"}
      [] OTHER -> {"ApprovalGranted"}

\* session.commit() of the endpoint.
Commit(s) ==
    LET t == txn[s] IN
    /\ t.pc = "commit"
    /\ status' = IF t.next = "pending" THEN status
                 ELSE [status EXCEPT ![t.req] = t.next]
    /\ acts' = IF HasVoted(t) THEN acts \cup {OwnAct(t)} ELSE acts
    /\ effect' = IF t.wrote = "effect" THEN [effect EXCEPT ![t.req] = @ + 1]
                 ELSE effect
    /\ partial' = IF t.wrote = "part" THEN partial \cup {t.req} ELSE partial
    /\ Emit(Published(t), t.req, t.user)
    /\ lock' = Release(s, t.req)
    /\ txn' = [txn EXCEPT ![s] = Idle]
    /\ UNCHANGED <<maker, quorum, kind, lapsed>>

\* A transaction that the database or the service refuses: the double vote, a
\* constrained executor's second INSERT.  get_tenant_session rolls back.
Refused(s) ==
    LET t == txn[s] IN
    \/ /\ t.pc = "vote" \/ (t.pc = "flush" /\ t.verb = "reject")
       /\ AlreadyVoted(t)
    \/ /\ t.pc = "execute"
       /\ effect[t.req] > 0 /\ kind[t.req] = "constrained"

Rollback(s) ==
    /\ txn[s] # Idle
    /\ lock' = Release(s, txn[s].req)
    /\ txn' = [txn EXCEPT ![s] = Idle]
    /\ UNCHANGED <<status, maker, quorum, kind, acts, effect, partial, outbox,
                   lapsed>>

Refuse(s) == Refused(s) /\ Rollback(s)

\* A crash, a lost connection or a database error ends any open transaction.
Crash(s) == Rollback(s)

\* Time passes expires_at.
Lapse(r) ==
    /\ r \in Expirable \ lapsed
    /\ status[r] # "none"
    /\ lapsed' = lapsed \cup {r}
    /\ UNCHANGED <<status, maker, quorum, kind, acts, effect, partial, outbox,
                   lock, txn>>

\* Faulty variant: the sweep updates by id the rows it selected earlier.
Expire_NoRecheck(r) ==
    /\ r \in lapsed
    /\ Free(r)
    /\ status[r] # "expired"
    /\ status' = [status EXCEPT ![r] = "expired"]
    /\ UNCHANGED <<maker, quorum, kind, acts, effect, partial, outbox, lapsed,
                   lock, txn>>

\* Faulty variant: the sweep passes over requests a checker has acted on.
Expire_SkipsActedOn(r) ==
    /\ r \in lapsed
    /\ GetPending(r)
    /\ ActsOn(r) = {}
    /\ Free(r)
    /\ status' = [status EXCEPT ![r] = "expired"]
    /\ UNCHANGED <<maker, quorum, kind, acts, effect, partial, outbox, lapsed,
                   lock, txn>>

\* _run_expiry: the sweep's UPDATE ... WHERE status = 'pending' waits for the
\* row lock and tests the committed row again once it has it.
Expire(r) ==
    /\ r \in lapsed
    /\ GetPending(r)
    /\ Free(r)
    /\ status' = [status EXCEPT ![r] = "expired"]
    /\ UNCHANGED <<maker, quorum, kind, acts, effect, partial, outbox, lapsed,
                   lock, txn>>

Step(s) ==
    \/ CastVote(s) \/ CountVotes(s) \/ LockRequest(s)
    \/ ExecutorReturns(s) \/ ExecutorRaises(s)
    \/ FlushReject(s) \/ FlushCancel(s)
    \/ Commit(s) \/ Refuse(s)

Next ==
    \/ \E r \in Request, u \in User, q \in Quorums, k \in Kind : Submit(r, u, q, k)
    \/ \E s \in Session, r \in Request, u \in User :
        BeginApprove(s, r, u) \/ BeginReject(s, r, u) \/ BeginCancel(s, r, u)
    \/ \E s \in Session : Step(s) \/ Crash(s)
    \/ \E r \in Request : Lapse(r) \/ Expire(r)

Spec == Init /\ [][Next]_vars

\* The server runs an open transaction to its end; PostgreSQL grants a row
\* lock in the order it was asked for; beat runs the sweep every hour.
Fairness ==
    /\ \A s \in Session : SF_vars(Step(s))
    /\ \A r \in Request : SF_vars(Expire(r))

FairSpec == Spec /\ Fairness

-----------------------------------------------------------------------------
\* What holds however the transactions interleave.

Approvers(r) == {a.actor : a \in Approvals(r)}

(***************************************************************************)
(* No work is committed without its quorum: when an executor's effect is   *)
(* in the database, so are approve rows of at least required_approvals     *)
(* checkers, at least one, none of them the maker.                         *)
(***************************************************************************)
QuorumBehindEffect ==
    \A r \in Request :
        effect[r] > 0 =>
            /\ Approvals(r) # {}
            /\ Cardinality(Approvals(r)) >= quorum[r]
            /\ maker[r] \notin Approvers(r)

(***************************************************************************)
(* Two approvers who both read the request pending both run the executor;  *)
(* the row lock orders them, so an executor with a guard or a unique key   *)
(* commits its work once.                                                  *)
(***************************************************************************)
EffectAtMostOnce ==
    \A r \in Request : kind[r] # "unguarded" => effect[r] <= 1

(***************************************************************************)
(* The unique key on (approval_request_id, actor_user_id): racing calls of *)
(* one checker never leave two rows.                                       *)
(***************************************************************************)
OneVotePerChecker ==
    \A a, b \in acts : a.req = b.req /\ a.actor = b.actor => a = b

(***************************************************************************)
(* The outbox tells the consumers of everything, whatever the status says  *)
(* by now: committed work has an ApprovalExecuted event, writes left by a  *)
(* failed executor an ApprovalExecutionFailed event.  The other way round, *)
(* ApprovalExecuted means that there is work, unless the executor may take *)
(* another operation's work for its own.                                   *)
(***************************************************************************)
Announced(type, r) == \E e \in outbox : e.type = type /\ e.req = r

WorkIsAnnounced ==
    \A r \in Request :
        /\ effect[r] > 0 => Announced("ApprovalExecuted", r)
        /\ kind[r] \in {"own", "constrained"} /\ Announced("ApprovalExecuted", r) =>
               effect[r] > 0
        /\ r \in partial => Announced("ApprovalExecutionFailed", r)

(***************************************************************************)
(* The status may be overwritten by a late writer, but never so that work  *)
(* is hidden behind an open or an expired request: neither the sweep nor a *)
(* vote short of the quorum, however it overlaps an execution, leaves a    *)
(* request undecided whose executor has committed anything.                *)
(***************************************************************************)
UndecidedIsUndone ==
    \A r \in Request :
        status[r] \in {"none", "pending", "expired"} =>
            effect[r] = 0 /\ r \notin partial

(***************************************************************************)
(* The sweep ends every request that outlives its expires_at undecided.    *)
(***************************************************************************)
LapsedRequestsSettle ==
    \A r \in Request :
        r \in lapsed /\ status[r] = "pending" ~> status[r] # "pending"

-----------------------------------------------------------------------------
\* What the design document promises.

(***************************************************************************)
(* Calls that do not overlap, on requests without expires_at, do exactly   *)
(* what the contract says: every commit is one of its atomic steps.  With  *)
(* two sessions, or with the sweep, this fails (the two properties below). *)
(***************************************************************************)
Contract == INSTANCE ApprovalContract
    WITH status <- status, maker <- maker, quorum <- quorum, acts <- acts, effect <- effect
ImplementsContract == Contract!ContractSpec

(***************************************************************************)
(* "Reject: First reject action -> status=rejected ... No further actions  *)
(* accepted": a rejected request has not been carried out.                 *)
(***************************************************************************)
RejectedIsNotCarriedOut ==
    \A r \in Request : status[r] = "rejected" => effect[r] = 0

(***************************************************************************)
(* "If approval count equals required_approvals: sets status approved,     *)
(* calls executor": with no call in flight, a pending request is short of  *)
(* its quorum.                                                             *)
(***************************************************************************)
QuorumDecides ==
    \A r \in Request :
        status[r] = "pending" /\ (\A s \in Session : txn[s] = Idle) =>
            Approvals(r) = {} \/ Cardinality(Approvals(r)) < quorum[r]
=============================================================================
