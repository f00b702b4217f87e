------------------------- MODULE MakerCheckerProofs -------------------------
(***************************************************************************)
(* The safety properties of MakerChecker for every set of requests, users  *)
(* and sessions; and, for one session and no expiry, that it implements    *)
(* ApprovalContract.                                                       *)
(***************************************************************************)
EXTENDS MakerChecker, FiniteSetTheorems, TLAPS

-----------------------------------------------------------------------------
\* The inductive invariant.

\* Transaction t has updated the request's row, and holds its lock.
Decided(t) == t.pc = "commit" /\ t.next # "pending"

Holds(t) == t.pc = "execute" \/ Decided(t)

\* Transaction t has found the quorum met.
PastQuorum(t) ==
    \/ t.pc \in {"lock", "execute"}
    \/ t.pc = "commit" /\ t.next \in {"executed", "execution_failed"}

\* What an open transaction has done at each point.
Shape(t) ==
    /\ t.pc \in {"vote", "count", "lock", "execute"} => t.verb = "approve"
    /\ t.pc # "commit" => t.next = "pending" /\ t.wrote = "nothing"
    /\ t.next \in {"executed", "execution_failed"} => t.verb = "approve"
    /\ t.wrote = "effect" => t.next = "executed"
    /\ t.wrote = "part" => t.next = "execution_failed"

\* An open transaction works on a submitted request; a voter is not its maker.
Grounded ==
    \A s \in Session : txn[s] # Idle =>
        /\ Shape(txn[s])
        /\ status[txn[s].req] # "none"
        /\ txn[s].verb # "cancel" => txn[s].user # maker[txn[s].req]

\* Nothing is recorded against a request that was not submitted.
Blank ==
    \A r \in Request :
        status[r] = "none" => ActsOn(r) = {} /\ effect[r] = 0 /\ kind[r] = "own"

LockHeld ==
    \A s \in Session :
        txn[s] # Idle /\ Holds(txn[s]) => lock[txn[s].req] = s

\* Uncommitted action rows clash neither with committed ones nor with others.
VotesApart ==
    \A s \in Session : txn[s] # Idle /\ HasVoted(txn[s]) =>
        ~ AlreadyVoted(txn[s]) /\ ~ VoteInFlight(s, txn[s])

MakerNeverVotes == \A a \in acts : a.actor # maker[a.req]

\* A count that met the quorum still does: committed votes are never removed.
QuorumKept ==
    \A s \in Session : txn[s] # Idle /\ PastQuorum(txn[s]) => QuorumMet(txn[s])

\* While s holds the row lock, nobody else commits work on the request.
FirstEffect ==
    \A s \in Session : txn[s] # Idle =>
        /\ txn[s].wrote = "effect" /\ kind[txn[s].req] # "unguarded" =>
               effect[txn[s].req] = 0
        /\ txn[s].next = "executed" =>
               \/ txn[s].wrote = "effect" \/ effect[txn[s].req] > 0
               \/ kind[txn[s].req] \in {"keyed", "unguarded"}

Inv ==
    /\ TypeOK /\ Grounded /\ Blank /\ LockHeld /\ VotesApart /\ MakerNeverVotes
    /\ IsFiniteSet(acts) /\ QuorumKept /\ FirstEffect
    /\ OneVotePerChecker /\ EffectAtMostOnce /\ QuorumBehindEffect
    /\ WorkIsAnnounced /\ UndecidedIsUndone

-----------------------------------------------------------------------------
\* Type correctness.

(***************************************************************************)
(* No step of a session changes the columns fixed by submit, or the clock. *)
(***************************************************************************)
LEMMA SessionStepFrame ==
    ASSUME NEW s \in Session, Step(s) \/ Crash(s)
    PROVE  UNCHANGED <<maker, quorum, kind, lapsed>>
BY DEF Step, Crash, CastVote, CountVotes, LockRequest, ExecutorReturns,
       ExecutorRaises, FlushReject, FlushCancel, Commit, Refuse, Rollback, Advance

(***************************************************************************)
(* An executor returns or raises in a transaction that stands at it, and   *)
(* keeps the row lock.                                                     *)
(***************************************************************************)
LEMMA Executes ==
    ASSUME NEW s \in Session, ExecutorReturns(s) \/ ExecutorRaises(s)
    PROVE  txn[s].pc = "execute" /\ txn[s] # Idle /\ lock' = lock
<1>1. txn[s].pc = "execute" /\ lock' = lock
  BY Zenon DEF ExecutorReturns, ExecutorRaises
<1> QED BY <1>1 DEF Idle

(***************************************************************************)
(* Every row and every open transaction keeps its type in every step.      *)
(***************************************************************************)
LEMMA TypeStep == TypeOK /\ [Next]_vars => TypeOK'
<1> SUFFICES ASSUME TypeOK, [Next]_vars PROVE TypeOK'
    OBVIOUS
<1> USE DEF TypeOK
<1>1. ASSUME NEW r \in Request, NEW u \in User, NEW q \in Quorums, NEW k \in Kind,
             Submit(r, u, q, k)
      PROVE  TypeOK'
  <2>1. outbox' \subseteq Event
    BY <1>1 DEF Submit, Emit, Event, EventType
  <2> QED BY <1>1, <2>1 DEF Submit, Status
<1>2. ASSUME NEW s \in Session, NEW r \in Request, NEW u \in User,
             BeginApprove(s, r, u) \/ BeginReject(s, r, u) \/ BeginCancel(s, r, u)
      PROVE  TypeOK'
  <2>1. ASSUME NEW v \in {"approve", "reject", "cancel"}, NEW p \in {"vote", "flush"}
        PROVE  Fresh(v, r, u, p) \in Txn
    BY DEF Fresh, Txn, Status
  <2> QED BY <1>2, <2>1 DEF BeginApprove, BeginReject, BeginCancel, Open
<1>3. ASSUME NEW s \in Session, Step(s) \/ Crash(s)
      PROVE  TypeOK'
  <2>1. CASE CastVote(s) \/ CountVotes(s)
    BY <2>1 DEF CastVote, CountVotes, Advance, Txn, Idle
  <2>2. CASE LockRequest(s)
    BY <2>2 DEF LockRequest, Locked, Advance, Txn, Idle
  <2>0. ASSUME txn[s] \in Txn, NEW n \in {"executed", "execution_failed", "rejected", "cancelled"},
               NEW w \in {"nothing", "effect", "part"}
        PROVE  /\ [txn[s] EXCEPT !.pc = "commit", !.next = n] \in Txn
               /\ [txn[s] EXCEPT !.pc = "commit", !.next = n, !.wrote = w] \in Txn
    BY <2>0 DEF Txn, Status
  <2>3. CASE ExecutorReturns(s) \/ ExecutorRaises(s)
    <3>1. txn[s] \in Txn
      BY <2>3, Executes
    <3>0. Written(txn[s].req) \subseteq {"nothing", "effect", "part"}
      BY DEF Written
    <3>2. txn'[s] \in Txn
      BY <2>3, <3>0, <3>1, <2>0 DEF ExecutorReturns, ExecutorRaises, Advance
    <3> QED BY <2>3, <3>2 DEF ExecutorReturns, ExecutorRaises, Advance
  <2>4. CASE FlushReject(s) \/ FlushCancel(s)
    <3>1. txn[s] \in Txn
      BY <2>4 DEF FlushReject, FlushCancel, Idle
    <3>2. txn'[s] \in Txn
      BY <2>4, <3>1, <2>0 DEF FlushReject, FlushCancel, Advance
    <3>3. lock' \in [Request -> Session \cup {NoOne}]
      BY <2>4, <3>1 DEF FlushReject, FlushCancel, Locked, Txn
    <3> QED BY <2>4, <3>2, <3>3 DEF FlushReject, FlushCancel, Advance
  <2>5. CASE Commit(s)
    <3> DEFINE t == txn[s]
    <3>1. t \in Txn
      BY <2>5 DEF Commit, Idle
    <3>2. outbox' \subseteq Event
      BY <2>5, <3>1 DEF Commit, Emit, Published, Event, EventType, Txn
    <3>3. acts' \subseteq Action
      BY <2>5, <3>1 DEF Commit, HasVoted, OwnAct, Action, Txn
    <3> QED BY <2>5, <3>1, <3>2, <3>3 DEF Commit, Release, Txn
  <2>6. CASE Refuse(s) \/ Crash(s)
    BY <2>6 DEF Refuse, Crash, Rollback, Release, Txn, Idle
  <2> QED BY <1>3, <2>1, <2>2, <2>3, <2>4, <2>5, <2>6 DEF Step
<1>4. ASSUME NEW r \in Request, Lapse(r) \/ Expire(r)
      PROVE  TypeOK'
  BY <1>4 DEF Lapse, Expire, Status
<1>5. CASE UNCHANGED vars
  BY <1>5 DEF vars
<1> QED BY <1>1, <1>2, <1>3, <1>4, <1>5 DEF Next

(***************************************************************************)
(* The variables always have their types.                                  *)
(***************************************************************************)
THEOREM TypeCorrect == Spec => []TypeOK
<1>1. Init => TypeOK
  BY DEF Init, TypeOK, Status, Kind
<1> QED BY <1>1, TypeStep, PTL DEF Spec

-----------------------------------------------------------------------------
\* How each step of a session moves its transaction.

\* The transaction of s goes to point p, with status n and writes w, and
\* neither the other transactions nor the committed rows change.
Moved(s, p, n, w) ==
    /\ txn[s] \in Txn /\ txn'[s] \in Txn /\ txn'[s] # Idle
    /\ txn'[s].pc = p /\ txn'[s].next = n /\ txn'[s].wrote = w
    /\ txn'[s].verb = txn[s].verb
    /\ txn'[s].req = txn[s].req
    /\ txn'[s].user = txn[s].user
    /\ \A o \in Session \ {s} : txn'[o] = txn[o]
    /\ UNCHANGED <<status, maker, quorum, kind, acts, effect, partial, outbox,
                   lapsed>>

\* The transaction of s ends, and the others are not touched.
Ended(s) ==
    /\ txn[s] \in Txn /\ txn[s] # Idle /\ txn'[s] = Idle
    /\ lock' = Release(s, txn[s].req)
    /\ \A o \in Session \ {s} : txn'[o] = txn[o]
    /\ UNCHANGED <<maker, quorum, kind, lapsed>>

(***************************************************************************)
(* An update of an open transaction's fields by EXCEPT sets just those.    *)
(***************************************************************************)
LEMMA AdvanceMoves ==
    ASSUME TypeOK, NEW s \in Session, txn[s] # Idle,
           NEW p \in {"vote", "count", "lock", "execute", "flush", "commit"},
           NEW n \in Status \ {"none", "expired"},
           NEW w \in {"nothing", "effect", "part"}
    PROVE  /\ Advance(s, [txn[s] EXCEPT !.pc = p]) =>
                  Moved(s, p, txn[s].next, txn[s].wrote)
           /\ Advance(s, [txn[s] EXCEPT !.pc = p, !.next = n]) =>
                  Moved(s, p, n, txn[s].wrote)
           /\ Advance(s, [txn[s] EXCEPT !.pc = p, !.next = n, !.wrote = w]) =>
                  Moved(s, p, n, w)
<1>0. txn[s] \in Txn
  BY DEF TypeOK
<1> DEFINE a == [txn[s] EXCEPT !.pc = p]
           b == [txn[s] EXCEPT !.pc = p, !.next = n]
           c == [txn[s] EXCEPT !.pc = p, !.next = n, !.wrote = w]
<1>1. /\ a \in Txn /\ a # Idle /\ a.pc = p /\ a.next = txn[s].next
      /\ a.wrote = txn[s].wrote
      /\ a.verb = txn[s].verb /\ a.req = txn[s].req /\ a.user = txn[s].user
  BY <1>0 DEF Txn, Idle
<1>2. /\ b \in Txn /\ b # Idle /\ b.pc = p /\ b.next = n
      /\ b.wrote = txn[s].wrote
      /\ b.verb = txn[s].verb /\ b.req = txn[s].req /\ b.user = txn[s].user
  BY <1>0 DEF Txn, Idle
<1>3. /\ c \in Txn /\ c # Idle /\ c.pc = p /\ c.next = n /\ c.wrote = w
      /\ c.verb = txn[s].verb /\ c.req = txn[s].req /\ c.user = txn[s].user
  BY <1>0 DEF Txn, Idle
<1> HIDE DEF a, b, c
<1>4. ASSUME NEW t \in Txn, Advance(s, t)
      PROVE  /\ txn'[s] = t
             /\ \A o \in Session \ {s} : txn'[o] = txn[o]
             /\ UNCHANGED <<status, maker, quorum, kind, acts, effect, partial,
                            outbox, lapsed>>
  BY <1>4 DEF Advance, TypeOK
<1>5. Advance(s, a) => Moved(s, p, txn[s].next, txn[s].wrote)
  BY <1>0, <1>1, <1>4 DEF Moved
<1>6. Advance(s, b) => Moved(s, p, n, txn[s].wrote)
  BY <1>0, <1>2, <1>4 DEF Moved
<1>7. Advance(s, c) => Moved(s, p, n, w)
  BY <1>0, <1>3, <1>4 DEF Moved
<1> QED BY <1>5, <1>6, <1>7 DEF a, b, c

(***************************************************************************)
(* One line per step of a session: the move it makes.                      *)
(***************************************************************************)
LEMMA StepMoves ==
    ASSUME TypeOK, NEW s \in Session
    PROVE  /\ CastVote(s) => Moved(s, "count", txn[s].next, txn[s].wrote)
           /\ CountVotes(s) => Moved(s, IF QuorumMet(txn[s]) THEN "lock" ELSE "commit",
                                     txn[s].next, txn[s].wrote)
           /\ LockRequest(s) => Moved(s, "execute", txn[s].next, txn[s].wrote)
           /\ ExecutorReturns(s) =>
                 \E w \in Written(txn[s].req) : Moved(s, "commit", "executed", w)
           /\ ExecutorRaises(s) =>
                 \E w \in {"nothing", "part"} :
                     Moved(s, "commit", "execution_failed", w)
           /\ FlushReject(s) => Moved(s, "commit", "rejected", txn[s].wrote)
           /\ FlushCancel(s) => Moved(s, "commit", "cancelled", txn[s].wrote)
           /\ Commit(s) \/ Refuse(s) \/ Crash(s) => Ended(s)
<1>1. CastVote(s) => Moved(s, "count", txn[s].next, txn[s].wrote)
  <2> SUFFICES ASSUME CastVote(s) PROVE Moved(s, "count", txn[s].next, txn[s].wrote)
      OBVIOUS
  <2> DEFINE p == "count"
  <2>1. Advance(s, [txn[s] EXCEPT !.pc = p])
    BY DEF CastVote
  <2>2. /\ txn[s] # Idle /\ "pending" \in Status \ {"none", "expired"}
        /\ p \in {"vote", "count", "lock", "execute", "flush", "commit"}
    BY DEF CastVote, Idle, Status
  <2> HIDE DEF p
  <2>3. Moved(s, p, txn[s].next, txn[s].wrote)
    BY <2>1, <2>2, AdvanceMoves
  <2> QED BY <2>3 DEF p
<1>2. CountVotes(s) => Moved(s, IF QuorumMet(txn[s]) THEN "lock" ELSE "commit",
                             txn[s].next, txn[s].wrote)
  <2> SUFFICES ASSUME CountVotes(s) PROVE Moved(s, IF QuorumMet(txn[s]) THEN "lock" ELSE "commit", txn[s].next, txn[s].wrote)
      OBVIOUS
  <2> DEFINE p == IF QuorumMet(txn[s]) THEN "lock" ELSE "commit"
  <2>1. Advance(s, [txn[s] EXCEPT !.pc = p])
    BY DEF CountVotes
  <2>2. /\ txn[s] # Idle /\ "pending" \in Status \ {"none", "expired"}
        /\ p \in {"vote", "count", "lock", "execute", "flush", "commit"}
    BY DEF CountVotes, Idle, Status
  <2> HIDE DEF p
  <2>3. Moved(s, p, txn[s].next, txn[s].wrote)
    BY <2>1, <2>2, AdvanceMoves
  <2> QED BY <2>3 DEF p
<1>3. LockRequest(s) => Moved(s, "execute", txn[s].next, txn[s].wrote)
  <2> SUFFICES ASSUME LockRequest(s) PROVE Moved(s, "execute", txn[s].next, txn[s].wrote)
      OBVIOUS
  <2> DEFINE p == "execute"
  <2>1. Advance(s, [txn[s] EXCEPT !.pc = p])
    BY DEF LockRequest
  <2>2. /\ txn[s] # Idle /\ "pending" \in Status \ {"none", "expired"}
        /\ p \in {"vote", "count", "lock", "execute", "flush", "commit"}
    BY DEF LockRequest, Idle, Status
  <2> HIDE DEF p
  <2>3. Moved(s, p, txn[s].next, txn[s].wrote)
    BY <2>1, <2>2, AdvanceMoves
  <2> QED BY <2>3 DEF p
<1>4. ExecutorReturns(s) =>
         \E w \in Written(txn[s].req) : Moved(s, "commit", "executed", w)
  <2> SUFFICES ASSUME ExecutorReturns(s)
               PROVE  \E w \in Written(txn[s].req) : Moved(s, "commit", "executed", w)
      OBVIOUS
  <2>1. PICK w \in Written(txn[s].req) :
            Advance(s, [txn[s] EXCEPT !.pc = "commit", !.next = "executed", !.wrote = w])
    BY DEF ExecutorReturns
  <2>2. w \in {"nothing", "effect", "part"}
    BY DEF Written
  <2>3. txn[s] # Idle /\ "executed" \in Status \ {"none", "expired"}
    BY DEF ExecutorReturns, Idle, Status
  <2>4. Moved(s, "commit", "executed", w)
    BY <2>1, <2>2, <2>3, AdvanceMoves
  <2> QED BY <2>4
<1>5. ExecutorRaises(s) =>
         \E w \in {"nothing", "part"} : Moved(s, "commit", "execution_failed", w)
  <2> SUFFICES ASSUME ExecutorRaises(s)
               PROVE  \E w \in {"nothing", "part"} :
                          Moved(s, "commit", "execution_failed", w)
      OBVIOUS
  <2>1. PICK w \in {"nothing", "part"} :
            Advance(s, [txn[s] EXCEPT !.pc = "commit", !.next = "execution_failed",
                                      !.wrote = w])
    BY DEF ExecutorRaises
  <2>2. txn[s] # Idle /\ "execution_failed" \in Status \ {"none", "expired"}
    BY DEF ExecutorRaises, Idle, Status
  <2> QED BY <2>1, <2>2, AdvanceMoves
<1>6. FlushReject(s) => Moved(s, "commit", "rejected", txn[s].wrote)
  <2> SUFFICES ASSUME FlushReject(s) PROVE Moved(s, "commit", "rejected", txn[s].wrote)
      OBVIOUS
  <2>1. Advance(s, [txn[s] EXCEPT !.pc = "commit", !.next = "rejected"])
    BY DEF FlushReject
  <2>2. txn[s] # Idle /\ "rejected" \in Status \ {"none", "expired"}
    BY DEF FlushReject, Idle, Status
  <2> QED BY <2>1, <2>2, AdvanceMoves
<1>7. FlushCancel(s) => Moved(s, "commit", "cancelled", txn[s].wrote)
  <2> SUFFICES ASSUME FlushCancel(s) PROVE Moved(s, "commit", "cancelled", txn[s].wrote)
      OBVIOUS
  <2>1. Advance(s, [txn[s] EXCEPT !.pc = "commit", !.next = "cancelled"])
    BY DEF FlushCancel
  <2>2. txn[s] # Idle /\ "cancelled" \in Status \ {"none", "expired"}
    BY DEF FlushCancel, Idle, Status
  <2> QED BY <2>1, <2>2, AdvanceMoves
<1>8. Commit(s) \/ Refuse(s) \/ Crash(s) => Ended(s)
  BY DEF Commit, Refuse, Crash, Rollback, Ended, TypeOK, Idle
<1> QED BY <1>1, <1>2, <1>3, <1>4, <1>5, <1>6, <1>7, <1>8

(***************************************************************************)
(* Only an open transaction takes steps.                                   *)
(***************************************************************************)
LEMMA StepIsOpen ==
    ASSUME TypeOK, NEW s \in Session, Step(s) \/ Crash(s)
    PROVE  txn[s] # Idle /\ txn[s] \in Txn /\ txn[s].req \in Request
<1>1. txn[s] # Idle
  BY Executes DEF Step, CastVote, CountVotes, LockRequest, FlushReject, FlushCancel,
                  Commit, Refuse, Crash, Rollback, Idle
<1> QED BY <1>1 DEF TypeOK, Txn

Kept ==
    /\ acts \subseteq acts'
    /\ outbox \subseteq outbox'
    /\ \A r \in Request :
        /\ effect'[r] >= effect[r]
        /\ status[r] # "none" =>
              /\ status'[r] # "none"
              /\ maker'[r] = maker[r]
              /\ quorum'[r] = quorum[r]
              /\ kind'[r] = kind[r]

(***************************************************************************)
(* What no step undoes: votes, committed work, the existence of a request  *)
(* and the columns that submit fixed.                                      *)
(***************************************************************************)
LEMMA Monotone ==
    ASSUME TypeOK, [Next]_vars
    PROVE  Kept
<1> USE DEF TypeOK, Kept
<1>1. ASSUME NEW r \in Request, NEW u \in User, NEW q \in Quorums, NEW k \in Kind,
             Submit(r, u, q, k)
      PROVE  Kept
  BY <1>1 DEF Submit, Emit
<1>2. ASSUME NEW s \in Session, NEW r \in Request, NEW u \in User,
             BeginApprove(s, r, u) \/ BeginReject(s, r, u) \/ BeginCancel(s, r, u)
      PROVE  Kept
  BY <1>2 DEF BeginApprove, BeginReject, BeginCancel, Open
<1>3. ASSUME NEW s \in Session, Step(s) \/ Crash(s)
      PROVE  Kept
  <2>1. CASE Commit(s)
    <3>1. txn[s] \in Txn
      BY <2>1 DEF Commit, Idle
    <3> QED BY <2>1, <3>1 DEF Commit, Emit, Txn
  <2>2. CASE ~ Commit(s)
    BY <1>3, <2>2, StepMoves DEF Step, Moved, Refuse, Crash, Rollback
  <2> QED BY <2>1, <2>2
<1>4. ASSUME NEW r \in Request, Lapse(r) \/ Expire(r)
      PROVE  Kept
  BY <1>4 DEF Lapse, Expire
<1>5. CASE UNCHANGED vars
  BY <1>5 DEF vars
<1> QED BY <1>1, <1>2, <1>3, <1>4, <1>5 DEF Next

-----------------------------------------------------------------------------
\* Each part of the invariant is preserved.

(***************************************************************************)
(* Open transactions stay on submitted requests, in the shape of their     *)
(* point, and the service's check keeps makers from voting.                *)
(***************************************************************************)
LEMMA GroundedStep == Inv /\ [Next]_vars => Grounded'
<1> SUFFICES ASSUME Inv, [Next]_vars PROVE Grounded'
    OBVIOUS
<1>0. TypeOK /\ TypeOK' /\ Grounded /\ Kept
  BY TypeStep, Monotone DEF Inv
<1>a. ASSUME NEW o \in Session, txn'[o] = txn[o], txn'[o] # Idle
      PROVE  /\ Shape(txn'[o])
             /\ status'[txn'[o].req] # "none"
             /\ txn'[o].verb # "cancel" => txn'[o].user # maker'[txn'[o].req]
  <2>1. txn[o].req \in Request
    BY <1>0, <1>a DEF TypeOK, Txn
  <2> QED BY <1>0, <1>a, <2>1 DEF Grounded, Kept
<1>1. ASSUME NEW s \in Session, NEW r \in Request, NEW u \in User,
             BeginApprove(s, r, u) \/ BeginReject(s, r, u) \/ BeginCancel(s, r, u)
      PROVE  Grounded'
  <2>1. \A o \in Session \ {s} : txn'[o] = txn[o]
    BY <1>0, <1>1 DEF BeginApprove, BeginReject, BeginCancel, Open, TypeOK
  <2>2. /\ Shape(txn'[s])
        /\ status'[txn'[s].req] # "none"
        /\ txn'[s].verb # "cancel" => txn'[s].user # maker'[txn'[s].req]
    BY <1>0, <1>1 DEF BeginApprove, BeginReject, BeginCancel, Open, Fresh, Shape,
                      GetPending, TypeOK
  <2> QED BY <1>a, <2>1, <2>2 DEF Grounded
<1>2. ASSUME NEW s \in Session, Step(s) \/ Crash(s)
      PROVE  Grounded'
  <2>0. txn[s] \in Txn /\ txn[s] # Idle /\ txn[s].req \in Request
    BY <1>0, <1>2, StepIsOpen
  <2>1. ASSUME NEW p, NEW n, NEW w, Moved(s, p, n, w),
               Shape(txn'[s])
        PROVE  Grounded'
    BY <1>0, <1>a, <2>0, <2>1 DEF Moved, Grounded, Kept
  <2>2. Shape(txn[s])
    BY <1>0, <2>0 DEF Grounded
  <2>3. CASE CastVote(s)
    BY <1>0, <2>1, <2>2, <2>3, StepMoves DEF CastVote, Moved, Shape
  <2>4. CASE CountVotes(s)
    BY <1>0, <2>1, <2>2, <2>4, StepMoves DEF CountVotes, Moved, Shape
  <2>5. CASE LockRequest(s)
    BY <1>0, <2>1, <2>2, <2>5, StepMoves DEF LockRequest, Moved, Shape
  <2>6. CASE ExecutorReturns(s)
    <3>1. PICK w \in Written(txn[s].req) : Moved(s, "commit", "executed", w)
      BY <1>0, <2>6, StepMoves
    <3>2. txn[s].pc = "execute" /\ w \in {"nothing", "effect"}
      BY <2>6, Executes DEF Written
    <3> QED BY <2>1, <2>2, <3>1, <3>2 DEF Moved, Shape
  <2>7. CASE ExecutorRaises(s)
    <3>1. PICK w \in {"nothing", "part"} : Moved(s, "commit", "execution_failed", w)
      BY <1>0, <2>7, StepMoves
    <3>2. Shape(txn'[s])
      BY <2>2, <2>7, <3>1 DEF ExecutorRaises, Moved, Shape
    <3> QED BY <2>1, <3>1, <3>2
  <2>8. CASE FlushReject(s) \/ FlushCancel(s)
    BY <1>0, <2>1, <2>2, <2>8, StepMoves DEF FlushReject, FlushCancel, Moved, Shape
  <2>9. CASE Commit(s) \/ Refuse(s) \/ Crash(s)
    BY <1>0, <1>a, <2>9, StepMoves DEF Ended, Grounded
  <2> QED BY <1>2, <2>3, <2>4, <2>5, <2>6, <2>7, <2>8, <2>9 DEF Step
<1>3. CASE UNCHANGED txn
  BY <1>a, <1>3 DEF Grounded
<1> QED BY <1>1, <1>2, <1>3 DEF Next, Submit, Lapse, Expire, vars

(***************************************************************************)
(* Votes and work are recorded only on submitted requests.                 *)
(***************************************************************************)
LEMMA BlankStep == Inv /\ [Next]_vars => Blank'
<1> SUFFICES ASSUME Inv, [Next]_vars, NEW x \in Request, status'[x] = "none"
             PROVE  ActsOn(x)' = {} /\ effect'[x] = 0 /\ kind'[x] = "own"
    BY DEF Blank
<1>0. TypeOK /\ Grounded /\ Blank /\ Kept
  BY Monotone DEF Inv
<1>1. status[x] = "none" /\ ActsOn(x) = {} /\ effect[x] = 0 /\ kind[x] = "own"
  BY <1>0 DEF Kept, Blank
<1>k. kind'[x] = kind[x]
  <2>1. ASSUME NEW r \in Request, NEW u \in User, NEW q \in Quorums, NEW k \in Kind,
               Submit(r, u, q, k)
        PROVE  kind'[x] = kind[x]
    BY <1>0, <2>1 DEF Submit, TypeOK
  <2>2. ASSUME NEW s \in Session, Step(s) \/ Crash(s)
        PROVE  kind' = kind
    BY <2>2, SessionStepFrame
  <2> QED BY <2>1, <2>2 DEF Next, BeginApprove, BeginReject, BeginCancel, Open, Lapse,
             Expire, vars
<1>2. ASSUME NEW s \in Session, Commit(s)
      PROVE  ActsOn(x)' = {} /\ effect'[x] = 0
  <2>1. txn[s] # Idle /\ txn[s] \in Txn /\ txn[s].req # x
    BY <1>0, <1>1, <1>2 DEF Commit, Grounded, Idle, TypeOK
  <2> QED BY <1>0, <1>1, <1>2, <2>1 DEF Commit, ActsOn, OwnAct, TypeOK, Txn
<1>3. ASSUME UNCHANGED <<acts, effect>>
      PROVE  ActsOn(x)' = {} /\ effect'[x] = 0
  BY <1>1, <1>3 DEF ActsOn
<1>4. ASSUME NEW s \in Session, Step(s) \/ Crash(s)
      PROVE  ActsOn(x)' = {} /\ effect'[x] = 0
  BY <1>0, <1>2, <1>3, <1>4, StepMoves DEF Step, Moved, Refuse, Crash, Rollback
<1>5. ActsOn(x)' = {} /\ effect'[x] = 0
  BY <1>3, <1>4 DEF Next, Submit, BeginApprove, BeginReject, BeginCancel, Open,
     Lapse, Expire, vars
<1> QED BY <1>1, <1>k, <1>5

(***************************************************************************)
(* The row lock of a request belongs to the one transaction that has       *)
(* updated the row and not yet ended.                                      *)
(***************************************************************************)
LEMMA LockHeldStep == Inv /\ [Next]_vars => LockHeld'
<1> SUFFICES ASSUME Inv, [Next]_vars, NEW o \in Session, txn'[o] # Idle, Holds(txn'[o])
             PROVE  lock'[txn'[o].req] = o
    BY DEF LockHeld
<1>0. TypeOK /\ Grounded /\ LockHeld /\ NoOne \notin Session
  BY NoOneIsNobody DEF Inv
<1>1. ASSUME NEW s \in Session, NEW r \in Request, NEW u \in User,
             BeginApprove(s, r, u) \/ BeginReject(s, r, u) \/ BeginCancel(s, r, u)
      PROVE  lock'[txn'[o].req] = o
  <2>1. lock' = lock /\ (o # s => txn'[o] = txn[o])
    BY <1>0, <1>1 DEF BeginApprove, BeginReject, BeginCancel, Open, TypeOK
  <2>2. o # s
    BY <1>0, <1>1 DEF BeginApprove, BeginReject, BeginCancel, Open, Fresh, Holds,
                      Decided, TypeOK
  <2> QED BY <1>0, <2>1, <2>2 DEF LockHeld
<1>2. ASSUME NEW s \in Session, Step(s) \/ Crash(s)
      PROVE  lock'[txn'[o].req] = o
  <2>1. CASE CastVote(s) \/ CountVotes(s)
    <3>1. lock' = lock /\ (o # s => txn'[o] = txn[o])
      BY <1>0, <2>1, StepMoves DEF Moved, CastVote, CountVotes
    <3>2. txn[s] # Idle /\ txn[s].pc \in {"vote", "count"}
      BY <2>1 DEF CastVote, CountVotes, Idle
    <3>3. o # s
      BY <1>0, <2>1, <3>2, StepMoves DEF Grounded, Shape, Moved, Holds, Decided
    <3> QED BY <1>0, <3>1, <3>3 DEF LockHeld
  <2>2. CASE LockRequest(s) \/ FlushReject(s) \/ FlushCancel(s)
    <3>1. txn[s] # Idle /\ Free(txn[s].req) /\ Locked(txn[s].req, s)
      BY <2>2 DEF LockRequest, FlushReject, FlushCancel, Idle
    <3>0. txn[s].req \in Request
      BY <1>0, <3>1 DEF TypeOK, Txn
    <3>2. txn'[s].req = txn[s].req /\ (o # s => txn'[o] = txn[o])
      BY <1>0, <2>2, StepMoves DEF Moved
    <3>3. CASE o = s
      BY <1>0, <3>0, <3>1, <3>2, <3>3 DEF Locked, TypeOK
    <3>4. CASE o # s
      <4>1. lock[txn[o].req] = o /\ txn[o].req # txn[s].req
        BY <1>0, <3>1, <3>2, <3>4 DEF LockHeld, Free
      <4> QED BY <1>0, <3>0, <3>1, <3>2, <3>4, <4>1 DEF Locked, TypeOK
    <3> QED BY <3>3, <3>4
  <2>3. CASE ExecutorReturns(s) \/ ExecutorRaises(s)
    <3>1. lock' = lock /\ (o # s => txn'[o] = txn[o]) /\ txn'[s].req = txn[s].req
      BY <1>0, <2>3, StepMoves, Executes DEF Moved
    <3>2. txn[s] # Idle /\ Holds(txn[s])
      BY <2>3, Executes DEF Holds
    <3> QED BY <1>0, <3>1, <3>2 DEF LockHeld
  <2>4. CASE Commit(s) \/ Refuse(s) \/ Crash(s)
    <3>1. Ended(s)
      BY <1>0, <2>4, StepMoves
    <3>2. o # s /\ txn'[o] = txn[o] /\ lock[txn[o].req] = o
      BY <1>0, <3>1 DEF Ended, LockHeld
    <3>3. txn[o].req \in Request /\ txn[s].req \in Request
      BY <1>0, <3>1, <3>2 DEF TypeOK, Txn, Ended
    <3> QED BY <1>0, <3>1, <3>2, <3>3 DEF Ended, Release, TypeOK
  <2> QED BY <1>2, <2>1, <2>2, <2>3, <2>4 DEF Step
<1>3. CASE UNCHANGED <<txn, lock>>
  BY <1>0, <1>3 DEF LockHeld
<1> QED BY <1>1, <1>2, <1>3 DEF Next, Submit, Lapse, Expire, vars

(***************************************************************************)
(* The unique index: no two action rows, committed or in flight, share     *)
(* request and actor.                                                      *)
(***************************************************************************)
LEMMA VotesApartStep == Inv /\ [Next]_vars => VotesApart'
<1> SUFFICES ASSUME Inv, [Next]_vars, NEW o \in Session,
                    txn'[o] # Idle, HasVoted(txn'[o])
             PROVE  ~ AlreadyVoted(txn[o])' /\ ~ VoteInFlight(o, txn[o])'
    BY DEF VotesApart
<1>0. TypeOK /\ TypeOK' /\ Grounded /\ VotesApart
  BY TypeStep DEF Inv
<1> DEFINE Clash(t, u) == t.req = u.req /\ t.user = u.user
           Voting(x) == txn[x] # Idle /\ HasVoted(txn[x])
<1>a. ASSUME NEW x \in Session, NEW y \in Session, x # y, Voting(x), Voting(y)
      PROVE  ~ Clash(txn[x], txn[y])
  BY <1>0, <1>a DEF VotesApart, VoteInFlight
<1>b. ASSUME NEW x \in Session, Voting(x)
      PROVE  \A a \in acts : ~ (a.req = txn[x].req /\ a.actor = txn[x].user)
  BY <1>0, <1>b DEF VotesApart, AlreadyVoted
<1>c. ASSUME \A a \in acts' : ~ (a.req = txn'[o].req /\ a.actor = txn'[o].user),
             \A y \in Session \ {o} : txn'[y] # Idle /\ HasVoted(txn'[y]) =>
                 ~ Clash(txn'[y], txn'[o])
      PROVE  ~ AlreadyVoted(txn[o])' /\ ~ VoteInFlight(o, txn[o])'
  <2>1. ~ HasVoted(Idle)
    BY DEF HasVoted, Idle
  <2> QED BY <1>c, <2>1 DEF AlreadyVoted, VoteInFlight
<1>d. ASSUME acts' = acts,
             \A y \in Session : txn'[y] # Idle /\ HasVoted(txn'[y]) =>
                 Voting(y) /\ Clash(txn'[y], txn[y])
      PROVE  ~ AlreadyVoted(txn[o])' /\ ~ VoteInFlight(o, txn[o])'
  BY <1>a, <1>b, <1>c, <1>d
<1>1. ASSUME NEW s \in Session, NEW r \in Request, NEW u \in User,
             BeginApprove(s, r, u) \/ BeginReject(s, r, u) \/ BeginCancel(s, r, u)
      PROVE  ~ AlreadyVoted(txn[o])' /\ ~ VoteInFlight(o, txn[o])'
  <2>1. acts' = acts /\ \A y \in Session \ {s} : txn'[y] = txn[y]
    BY <1>0, <1>1 DEF BeginApprove, BeginReject, BeginCancel, Open, TypeOK
  <2>2. ~ HasVoted(txn'[s])
    BY <1>0, <1>1 DEF BeginApprove, BeginReject, BeginCancel, Open, Fresh, HasVoted,
                      TypeOK
  <2> QED BY <1>d, <2>1, <2>2
<1>2. ASSUME NEW s \in Session, Step(s) \/ Crash(s)
      PROVE  ~ AlreadyVoted(txn[o])' /\ ~ VoteInFlight(o, txn[o])'
  <2>0. txn[s] # Idle /\ txn[s] \in Txn /\ Shape(txn[s])
    BY <1>0, <1>2, StepIsOpen DEF Grounded
  <2>1. CASE CastVote(s) \/ FlushReject(s)
    <3>1. /\ acts' = acts /\ Clash(txn'[s], txn[s])
          /\ \A y \in Session \ {s} : txn'[y] = txn[y]
      BY <1>0, <2>1, StepMoves DEF Moved
    <3>2. ~ VoteInFlight(s, txn[s]) /\ ~ AlreadyVoted(txn[s])
      BY <2>1 DEF CastVote, FlushReject
    <3>3. CASE o = s
      BY <1>c, <3>1, <3>2, <3>3 DEF VoteInFlight, AlreadyVoted
    <3>4. CASE o # s
      BY <1>a, <1>b, <1>c, <3>1, <3>2, <3>4 DEF VoteInFlight
    <3> QED BY <3>3, <3>4
  <2>2. CASE CountVotes(s) \/ LockRequest(s) \/ ExecutorReturns(s) \/ ExecutorRaises(s)
    <3>1. /\ acts' = acts /\ Clash(txn'[s], txn[s])
          /\ \A y \in Session \ {s} : txn'[y] = txn[y]
      BY <1>0, <2>2, StepMoves DEF Moved
    <3>2. HasVoted(txn[s])
      BY <2>2 DEF CountVotes, LockRequest, ExecutorReturns, ExecutorRaises, HasVoted
    <3> QED BY <1>d, <2>0, <3>1, <3>2
  <2>3. CASE FlushCancel(s)
    <3>1. /\ acts' = acts /\ txn'[s].verb = "cancel" /\ txn'[s].pc = "commit"
          /\ \A y \in Session \ {s} : txn'[y] = txn[y]
      BY <1>0, <2>3, StepMoves DEF Moved, FlushCancel
    <3>2. ~ HasVoted(txn'[s])
      BY <3>1 DEF HasVoted
    <3> QED BY <1>d, <3>1, <3>2
  <2>4. CASE Refuse(s) \/ Crash(s)
    <3>1. Ended(s) /\ acts' = acts
      BY <1>0, <2>4, StepMoves DEF Refuse, Crash, Rollback
    <3> QED BY <1>d, <3>1 DEF Ended
  <2>5. CASE Commit(s)
    <3>1. Ended(s) /\ o # s
      BY <1>0, <2>5, StepMoves DEF Ended
    <3>2. Voting(o) /\ txn'[o] = txn[o]
      BY <3>1 DEF Ended
    <3>3. acts' = acts \/ (HasVoted(txn[s]) /\ acts' = acts \cup {OwnAct(txn[s])})
      BY <2>5 DEF Commit
    <3>4. \A a \in acts' : ~ (a.req = txn'[o].req /\ a.actor = txn'[o].user)
      BY <1>a, <1>b, <2>0, <3>1, <3>2, <3>3 DEF OwnAct
    <3> QED BY <1>a, <1>c, <3>1, <3>2, <3>4 DEF Ended
  <2> QED BY <1>2, <2>1, <2>2, <2>3, <2>4, <2>5 DEF Step
<1>3. CASE UNCHANGED <<acts, txn>>
  BY <1>d, <1>3
<1> QED BY <1>1, <1>2, <1>3 DEF Next, Submit, Lapse, Expire, vars

(***************************************************************************)
(* Committed votes: one per checker, none of the maker.                    *)
(***************************************************************************)
LEMMA VotesStep == Inv /\ [Next]_vars => OneVotePerChecker' /\ MakerNeverVotes'
<1> SUFFICES ASSUME Inv, [Next]_vars
             PROVE  OneVotePerChecker' /\ MakerNeverVotes'
    OBVIOUS
<1>0. /\ TypeOK /\ Grounded /\ Blank /\ VotesApart /\ Kept
      /\ OneVotePerChecker /\ MakerNeverVotes
  BY Monotone DEF Inv
<1>1. \A a \in acts : a.req \in Request /\ maker'[a.req] = maker[a.req]
  BY <1>0 DEF TypeOK, Action, Blank, ActsOn, Kept
<1>2. ASSUME NEW s \in Session, Commit(s), HasVoted(txn[s])
      PROVE  OneVotePerChecker' /\ MakerNeverVotes'
  <2>1. txn[s] # Idle /\ txn[s] \in Txn /\ txn[s].req \in Request
    BY <1>0, <1>2, StepIsOpen DEF Step
  <2>2. acts' = acts \cup {OwnAct(txn[s])} /\ maker' = maker
    BY <1>2 DEF Commit
  <2>3. \A a \in acts : ~ (a.req = txn[s].req /\ a.actor = txn[s].user)
    BY <1>0, <1>2, <2>1 DEF VotesApart, AlreadyVoted
  <2>4. txn[s].user # maker[txn[s].req]
    <3>1. txn[s].verb # "cancel"
      BY <1>0, <1>2, <2>1 DEF HasVoted, Grounded, Shape
    <3> QED BY <1>0, <2>1, <3>1 DEF Grounded
  <2>5. OneVotePerChecker'
    BY <1>0, <2>2, <2>3 DEF OneVotePerChecker, OwnAct
  <2>6. MakerNeverVotes'
    BY <1>0, <2>2, <2>4 DEF MakerNeverVotes, OwnAct
  <2> QED BY <2>5, <2>6
<1>3. CASE acts' = acts
  BY <1>0, <1>1, <1>3 DEF OneVotePerChecker, MakerNeverVotes
<1>4. ASSUME NEW s \in Session, Step(s) \/ Crash(s)
      PROVE  OneVotePerChecker' /\ MakerNeverVotes'
  <2>1. CASE Commit(s) /\ HasVoted(txn[s])
    BY <1>2, <2>1
  <2>2. CASE ~ (Commit(s) /\ HasVoted(txn[s]))
    <3>1. acts' = acts
      BY <1>0, <1>4, <2>2, StepMoves DEF Step, Moved, Commit, Refuse, Crash, Rollback
    <3> QED BY <1>3, <3>1
  <2> QED BY <2>1, <2>2
<1> QED BY <1>3, <1>4 DEF Next, Submit, BeginApprove, BeginReject, BeginCancel, Open,
           Lapse, Expire, vars

(***************************************************************************)
(* The approval_actions table is finite: every commit adds at most a row.  *)
(***************************************************************************)
LEMMA FiniteActsStep == Inv /\ [Next]_vars => IsFiniteSet(acts')
<1> SUFFICES ASSUME Inv, [Next]_vars PROVE IsFiniteSet(acts')
    OBVIOUS
<1>0. TypeOK /\ IsFiniteSet(acts)
  BY DEF Inv
<1>1. ASSUME NEW s \in Session, Step(s) \/ Crash(s)
      PROVE  IsFiniteSet(acts')
  <2>1. acts' = acts \/ acts' = acts \cup {OwnAct(txn[s])}
    BY <1>0, <1>1, StepMoves DEF Step, Moved, Commit, Refuse, Crash, Rollback
  <2> QED BY <1>0, <2>1, FS_AddElement
<1> QED BY <1>0, <1>1 DEF Next, Submit, BeginApprove, BeginReject, BeginCancel, Open,
           Lapse, Expire, vars

(***************************************************************************)
(* A larger table has no smaller count.                                    *)
(***************************************************************************)
LEMMA CountGrows ==
    ASSUME NEW A, NEW B, A \subseteq B, IsFiniteSet(B), NEW n \in Nat,
           Cardinality(A) >= n
    PROVE  Cardinality(B) >= n
BY FS_Subset, FS_CardinalityType

(***************************************************************************)
(* A transaction that found its quorum keeps it until it commits.          *)
(***************************************************************************)
LEMMA QuorumKeptStep == Inv /\ [Next]_vars => QuorumKept'
<1> SUFFICES ASSUME Inv, [Next]_vars, NEW o \in Session,
                    txn'[o] # Idle, PastQuorum(txn'[o])
             PROVE  QuorumMet(txn[o])'
    BY DEF QuorumKept
<1>0. /\ TypeOK /\ TypeOK' /\ Grounded /\ QuorumKept /\ Kept
      /\ IsFiniteSet(acts')
  BY TypeStep, Monotone, FiniteActsStep DEF Inv
<1>a. ASSUME txn[o] # Idle, QuorumMet(txn[o]),
             txn'[o].req = txn[o].req, txn'[o].user = txn[o].user,
             txn'[o].verb = txn[o].verb
      PROVE  QuorumMet(txn[o])'
  <2>1. PICK r \in Request : r = txn[o].req /\ status[r] # "none"
    BY <1>0, <1>a DEF TypeOK, Txn, Grounded
  <2>0. PICK own : own = OwnAct(txn[o])
    OBVIOUS
  <2> DEFINE A == Approvals(r) \cup {own}
             B == Approvals(r)' \cup {own}
  <2>2. quorum'[r] = quorum[r] /\ quorum[r] \in Nat
    <3>1. quorum[r] \in Quorums \cup {0}
      BY <1>0 DEF TypeOK
    <3>2. quorum[r] \in Nat
      <4>1. quorum[r] \in Quorums => quorum[r] \in Nat
        BY QuorumsAreCounts, Zenon
      <4>2. quorum[r] = 0 => quorum[r] \in Nat
        OBVIOUS
      <4>3. quorum[r] \in Quorums \/ quorum[r] = 0
        BY <3>1, Zenon
      <4> QED BY <4>1, <4>2, <4>3, Zenon
    <3>3. quorum'[r] = quorum[r]
      BY <1>0, <2>1 DEF Kept
    <3> QED BY <3>2, <3>3
  <2>3. A \subseteq B
    BY <1>0 DEF Kept, Approvals, ActsOn
  <2>4. IsFiniteSet(B)
    <3>1. Approvals(r)' \subseteq acts'
      BY DEF Approvals, ActsOn
    <3>2. IsFiniteSet(Approvals(r)')
      BY <1>0, <3>1, FS_Subset
    <3> QED BY <3>2, FS_AddElement
  <2>5. Cardinality(A) >= quorum[r]
    BY <1>a, <2>0, <2>1 DEF QuorumMet
  <2>6. Cardinality(B) >= quorum[r]
    BY <2>2, <2>3, <2>4, <2>5, CountGrows
  <2>7. B = (Approvals(txn[o].req) \cup {OwnAct(txn[o])})'
    BY <1>a, <2>0, <2>1 DEF OwnAct, Approvals, ActsOn
  <2> QED BY <1>a, <2>1, <2>2, <2>6, <2>7 DEF QuorumMet
<1>b. ASSUME txn'[o] = txn[o]
      PROVE  QuorumMet(txn[o])'
  BY <1>0, <1>a, <1>b DEF QuorumKept
<1>1. ASSUME NEW s \in Session, NEW r \in Request, NEW u \in User,
             BeginApprove(s, r, u) \/ BeginReject(s, r, u) \/ BeginCancel(s, r, u)
      PROVE  QuorumMet(txn[o])'
  <2>1. o # s
    BY <1>0, <1>1 DEF BeginApprove, BeginReject, BeginCancel, Open, Fresh, PastQuorum,
                      TypeOK
  <2>2. txn'[o] = txn[o]
    BY <1>0, <1>1, <2>1 DEF BeginApprove, BeginReject, BeginCancel, Open, TypeOK
  <2> QED BY <1>b, <2>2
<1>2. ASSUME NEW s \in Session, Step(s) \/ Crash(s)
      PROVE  QuorumMet(txn[o])'
  <2>0. txn[s] # Idle /\ Shape(txn[s])
    BY <1>0, <1>2, StepIsOpen DEF Grounded
  <2>1. CASE o # s
    BY <1>0, <1>2, <1>b, <2>1, StepMoves DEF Step, Moved, Ended
  <2>2. CASE o = s
    <3>1. /\ txn'[o].req = txn[o].req /\ txn'[o].user = txn[o].user
          /\ txn'[o].verb = txn[o].verb
      BY <1>0, <1>2, <2>2, StepMoves DEF Step, Moved, Ended
    <3>2. CASE CountVotes(s)
      <4>1. txn'[s].next = "pending"
        BY <1>0, <2>0, <3>2, StepMoves DEF Moved, CountVotes, Shape
      <4>2. QuorumMet(txn[s])
        BY <1>0, <2>2, <3>2, <4>1, StepMoves DEF Moved, PastQuorum
      <4> QED BY <1>a, <2>0, <2>2, <3>1, <4>2
    <3>3. CASE LockRequest(s) \/ ExecutorReturns(s) \/ ExecutorRaises(s)
      <4>1. PastQuorum(txn[s])
        BY <3>3 DEF LockRequest, ExecutorReturns, ExecutorRaises, PastQuorum
      <4> QED BY <1>0, <1>a, <2>0, <2>2, <3>1, <4>1 DEF QuorumKept
    <3>4. CASE CastVote(s) \/ FlushReject(s) \/ FlushCancel(s)
      BY <1>0, <2>2, <3>4, StepMoves DEF Moved, PastQuorum
    <3>5. CASE Commit(s) \/ Refuse(s) \/ Crash(s)
      BY <1>0, <2>2, <3>5, StepMoves DEF Ended
    <3> QED BY <1>2, <3>2, <3>3, <3>4, <3>5 DEF Step
  <2> QED BY <2>1, <2>2
<1>3. CASE UNCHANGED txn
  BY <1>b, <1>3
<1> QED BY <1>1, <1>2, <1>3 DEF Next, Submit, Lapse, Expire, vars

(***************************************************************************)
(* The row lock makes a second executor wait for the first one's commit:   *)
(* work that is written is the request's first.                            *)
(***************************************************************************)
LEMMA FirstEffectStep == Inv /\ [Next]_vars => FirstEffect'
<1> SUFFICES ASSUME Inv, [Next]_vars, NEW o \in Session, txn'[o] # Idle
             PROVE  /\ txn'[o].wrote = "effect" /\ kind'[txn'[o].req] # "unguarded" =>
                           effect'[txn'[o].req] = 0
                    /\ txn'[o].next = "executed" =>
                           \/ txn'[o].wrote = "effect" \/ effect'[txn'[o].req] > 0
                           \/ kind'[txn'[o].req] \in {"keyed", "unguarded"}
    BY DEF FirstEffect
<1> DEFINE Goal == /\ txn'[o].wrote = "effect" /\ kind'[txn'[o].req] # "unguarded" =>
                          effect'[txn'[o].req] = 0
                   /\ txn'[o].next = "executed" =>
                          \/ txn'[o].wrote = "effect" \/ effect'[txn'[o].req] > 0
                          \/ kind'[txn'[o].req] \in {"keyed", "unguarded"}
<1>0. /\ TypeOK /\ TypeOK' /\ Grounded /\ LockHeld /\ FirstEffect /\ Kept
      /\ NoOne \notin Session
  BY TypeStep, Monotone, NoOneIsNobody DEF Inv
<1>a. ASSUME txn'[o] = txn[o], effect'[txn[o].req] = effect[txn[o].req]
      PROVE  Goal
  <2>1. txn[o].req \in Request /\ status[txn[o].req] # "none"
    BY <1>0, <1>a DEF TypeOK, Txn, Grounded
  <2>2. kind'[txn[o].req] = kind[txn[o].req]
    BY <1>0, <2>1 DEF Kept
  <2> QED BY <1>0, <1>a, <2>2 DEF FirstEffect
<1>1. ASSUME NEW s \in Session, NEW r \in Request, NEW u \in User,
             BeginApprove(s, r, u) \/ BeginReject(s, r, u) \/ BeginCancel(s, r, u)
      PROVE  Goal
  <2>1. effect' = effect /\ (o # s => txn'[o] = txn[o])
    BY <1>0, <1>1 DEF BeginApprove, BeginReject, BeginCancel, Open, TypeOK
  <2>2. o = s => txn'[o].wrote = "nothing" /\ txn'[o].next = "pending"
    BY <1>0, <1>1 DEF BeginApprove, BeginReject, BeginCancel, Open, Fresh, TypeOK
  <2> QED BY <1>a, <2>1, <2>2
<1>2. ASSUME NEW s \in Session, Step(s) \/ Crash(s)
      PROVE  Goal
  <2>0. txn[s] # Idle /\ txn[s] \in Txn /\ txn[s].req \in Request /\ Shape(txn[s])
    BY <1>0, <1>2, StepIsOpen DEF Grounded
  <2>1. CASE Commit(s)
    <3>1. o # s /\ txn'[o] = txn[o] /\ txn[o].req \in Request
      BY <1>0, <2>1, StepMoves DEF Ended, TypeOK, Txn
    <3>2. CASE txn[o].req # txn[s].req \/ txn[s].wrote # "effect"
      <4>1. effect'[txn[o].req] = effect[txn[o].req]
        BY <1>0, <2>0, <2>1, <3>1, <3>2 DEF Commit, TypeOK
      <4> QED BY <1>a, <3>1, <4>1
    <3>3. CASE txn[o].req = txn[s].req /\ txn[s].wrote = "effect"
      <4>1. lock[txn[s].req] = s
        BY <1>0, <2>0, <2>1, <3>3 DEF LockHeld, Holds, Decided, Shape, Commit
      <4>2. ~ Holds(txn[o])
        BY <1>0, <3>1, <3>3, <4>1 DEF LockHeld
      <4>3. txn[o].next = "pending" /\ txn[o].wrote = "nothing"
        BY <1>0, <3>1, <4>2 DEF Holds, Decided, Grounded, Shape, TypeOK, Txn
      <4> QED BY <3>1, <4>3
    <3> QED BY <3>2, <3>3
  <2>2. CASE ~ Commit(s) /\ o # s
    <3>1. effect' = effect /\ txn'[o] = txn[o]
      BY <1>0, <1>2, <2>2, StepMoves DEF Step, Moved, Ended, Refuse, Crash, Rollback
    <3> QED BY <1>a, <3>1
  <2>3. CASE o = s /\ ExecutorReturns(s)
    <3>1. PICK w \in Written(txn[s].req) :
             /\ txn'[s].req = txn[s].req /\ txn'[s].wrote = w
             /\ effect' = effect /\ kind' = kind
      BY <1>0, <2>3, StepMoves DEF Moved
    <3>2. effect[txn[s].req] \in Nat /\ kind[txn[s].req] \in Kind
      BY <1>0, <2>0 DEF TypeOK
    <3>3. ~ (effect[txn[s].req] > 0 /\ kind[txn[s].req] = "constrained")
      BY <2>3 DEF ExecutorReturns
    <3> QED BY <2>3, <3>1, <3>2, <3>3 DEF Kind, Written
  <2>4. CASE o = s /\ ~ ExecutorReturns(s) /\ ~ Commit(s)
    <3>1. txn'[s].wrote # "effect" /\ txn'[s].next # "executed"
      <4>1. CASE ExecutorRaises(s)
        BY <1>0, <4>1, StepMoves DEF Moved
      <4>2. CASE CastVote(s) \/ CountVotes(s) \/ LockRequest(s)
        BY <1>0, <2>0, <4>2, StepMoves DEF Moved, Shape, CastVote, CountVotes, LockRequest
      <4>3. CASE FlushReject(s) \/ FlushCancel(s)
        BY <1>0, <2>0, <4>3, StepMoves DEF Moved, Shape, FlushReject, FlushCancel
      <4>4. CASE Refuse(s) \/ Crash(s)
        BY <1>0, <2>4, <4>4, StepMoves DEF Ended
      <4> QED BY <1>2, <2>4, <4>1, <4>2, <4>3, <4>4 DEF Step
    <3> QED BY <2>4, <3>1
  <2> QED
    <3>1. CASE o = s /\ Commit(s)
      BY <1>0, <3>1, StepMoves DEF Ended
    <3> QED BY <2>1, <2>2, <2>3, <2>4
<1>3. CASE UNCHANGED <<txn, effect>>
  BY <1>a, <1>3
<1> QED BY <1>1, <1>2, <1>3 DEF Next, Submit, Lapse, Expire, vars

-----------------------------------------------------------------------------
\* The properties.

(***************************************************************************)
(* Work is committed only by the commit of a transaction whose executor    *)
(* wrote it.                                                               *)
(***************************************************************************)
LEMMA EffectChange ==
    ASSUME TypeOK, [Next]_vars, NEW r \in Request, effect'[r] # effect[r]
    PROVE  \E s \in Session :
              /\ Commit(s) /\ txn[s] # Idle /\ txn[s] \in Txn
              /\ txn[s].wrote = "effect" /\ txn[s].req = r
              /\ effect'[r] = effect[r] + 1
<1>1. PICK s \in Session : Step(s) \/ Crash(s)
  BY DEF Next, Submit, BeginApprove, BeginReject, BeginCancel, Open, Lapse, Expire, vars
<1>2. Commit(s)
  BY <1>1, StepMoves DEF Step, Moved, Refuse, Crash, Rollback
<1>3. txn[s] # Idle /\ txn[s] \in Txn /\ txn[s].req \in Request
  BY <1>1, StepIsOpen
<1>4. /\ txn[s].wrote = "effect" /\ txn[s].req = r
      /\ effect'[r] = effect[r] + 1
  BY <1>2, <1>3 DEF Commit, TypeOK
<1> QED BY <1>2, <1>3, <1>4

\* A guarded or constrained executor never adds to an effect that is committed.
LEMMA EffectAtMostOnceStep == Inv /\ [Next]_vars => EffectAtMostOnce'
<1> SUFFICES ASSUME Inv, [Next]_vars, NEW r \in Request, kind'[r] # "unguarded"
             PROVE  effect'[r] <= 1
    BY DEF EffectAtMostOnce
<1>0. TypeOK /\ Grounded /\ Blank /\ FirstEffect /\ EffectAtMostOnce /\ Kept
  BY Monotone DEF Inv
<1>1. effect[r] \in Nat
  BY <1>0 DEF TypeOK
<1>2. CASE effect'[r] = effect[r]
  <2>1. CASE status[r] = "none"
    BY <1>0, <1>2, <2>1 DEF Blank
  <2>2. CASE status[r] # "none"
    BY <1>0, <1>2, <2>2 DEF Kept, EffectAtMostOnce
  <2> QED BY <2>1, <2>2
<1>3. CASE effect'[r] # effect[r]
  <2>1. PICK s \in Session : /\ txn[s] # Idle /\ txn[s].wrote = "effect"
                             /\ txn[s].req = r /\ effect'[r] = effect[r] + 1
    BY <1>0, <1>3, EffectChange
  <2>2. kind[r] # "unguarded"
    BY <1>0, <2>1 DEF Grounded, Kept
  <2>3. effect[r] = 0
    BY <1>0, <2>1, <2>2 DEF FirstEffect
  <2> QED BY <2>1, <2>3
<1> QED BY <1>2, <1>3

\* The first effect of a request is committed with the votes that allowed it.
LEMMA QuorumBehindEffectStep == Inv /\ [Next]_vars => QuorumBehindEffect'
<1> SUFFICES ASSUME Inv, [Next]_vars, NEW r \in Request, effect'[r] > 0
             PROVE  /\ Approvals(r)' # {}
                    /\ Cardinality(Approvals(r)') >= quorum'[r]
                    /\ maker'[r] \notin Approvers(r)'
    BY DEF QuorumBehindEffect
<1>0. /\ TypeOK /\ TypeOK' /\ Grounded /\ Blank /\ QuorumKept /\ Kept
      /\ QuorumBehindEffect /\ IsFiniteSet(acts') /\ MakerNeverVotes'
  BY TypeStep, Monotone, FiniteActsStep, VotesStep DEF Inv
<1>1. maker'[r] \notin Approvers(r)'
  BY <1>0 DEF MakerNeverVotes, Approvers, Approvals, ActsOn
<1>2. IsFiniteSet(Approvals(r)')
  <2>1. Approvals(r)' \subseteq acts'
    BY DEF Approvals, ActsOn
  <2> QED BY <1>0, <2>1, FS_Subset
<1>3. quorum[r] \in Nat
  <2>1. quorum[r] \in Quorums => quorum[r] \in Nat
    BY QuorumsAreCounts, Zenon
  <2>2. quorum[r] = 0 => quorum[r] \in Nat
    OBVIOUS
  <2>3. quorum[r] \in Quorums \cup {0}
    BY <1>0 DEF TypeOK
  <2> QED BY <2>1, <2>2, <2>3, Zenon
<1>4. CASE effect'[r] = effect[r]
  <2>1. /\ Approvals(r) # {} /\ Cardinality(Approvals(r)) >= quorum[r]
        /\ status[r] # "none"
    BY <1>0, <1>4 DEF QuorumBehindEffect, Blank
  <2>2. Approvals(r) \subseteq Approvals(r)' /\ quorum'[r] = quorum[r]
    BY <1>0, <2>1 DEF Kept, Approvals, ActsOn
  <2>3. Cardinality(Approvals(r)') >= quorum[r]
    BY <1>2, <1>3, <2>1, <2>2, CountGrows
  <2> QED BY <1>1, <2>1, <2>2, <2>3
<1>5. CASE effect'[r] # effect[r]
  <2>1. PICK s \in Session : /\ Commit(s) /\ txn[s] # Idle /\ txn[s] \in Txn
                             /\ txn[s].wrote = "effect" /\ txn[s].req = r
    BY <1>0, <1>5, EffectChange
  <2>2. /\ txn[s].next = "executed" /\ txn[s].verb = "approve" /\ txn[s].pc = "commit"
        /\ status[r] # "none"
    BY <1>0, <2>1 DEF Grounded, Shape, Commit
  <2>3. PICK own : own = OwnAct(txn[s])
    OBVIOUS
  <2>4. Cardinality(Approvals(r) \cup {own}) >= quorum[r]
    BY <1>0, <2>1, <2>2, <2>3 DEF QuorumKept, PastQuorum, QuorumMet
  <2>5. acts' = acts \cup {own} /\ own.req = r /\ own.action = "approve"
    BY <2>1, <2>2, <2>3 DEF Commit, HasVoted, OwnAct
  <2>6. Approvals(r) \cup {own} \subseteq Approvals(r)'
    BY <2>5 DEF Approvals, ActsOn
  <2>7. quorum'[r] = quorum[r]
    BY <1>0, <2>2 DEF Kept
  <2>8. Cardinality(Approvals(r)') >= quorum[r]
    BY <1>2, <1>3, <2>4, <2>6, CountGrows
  <2> QED BY <1>1, <2>6, <2>7, <2>8
<1> QED BY <1>4, <1>5

(***************************************************************************)
(* Publishing announces just the published types for that request.         *)
(***************************************************************************)
LEMMA EmitAnnounces ==
    ASSUME NEW types, NEW q, NEW u, Emit(types, q, u), NEW y, NEW r
    PROVE  Announced(y, r)' <=> Announced(y, r) \/ (r = q /\ y \in types)
<1> DEFINE new == {[type |-> z, req |-> q, by |-> u] : z \in types}
<1>1. outbox' = outbox \cup new
  BY DEF Emit
<1>2. ASSUME NEW e \in new, e.type = y, e.req = r
      PROVE  r = q /\ y \in types
  BY <1>2
<1>3. ASSUME r = q, y \in types
      PROVE  \E e \in new : e.type = y /\ e.req = r
  <2>1. [type |-> y, req |-> q, by |-> u] \in new
    BY <1>3
  <2> QED BY <1>3, <2>1
<1> HIDE DEF new
<1> QED BY <1>1, <1>2, <1>3 DEF Announced

\* A commit publishes the events of the work it commits.
LEMMA WorkIsAnnouncedStep == Inv /\ [Next]_vars => WorkIsAnnounced'
<1> SUFFICES ASSUME Inv, [Next]_vars, NEW r \in Request
             PROVE  /\ effect'[r] > 0 => Announced("ApprovalExecuted", r)'
                    /\ kind'[r] \in {"own", "constrained"} /\ Announced("ApprovalExecuted", r)' =>
                           effect'[r] > 0
                    /\ r \in partial' => Announced("ApprovalExecutionFailed", r)'
    BY DEF WorkIsAnnounced
<1> DEFINE Goal == /\ effect'[r] > 0 => Announced("ApprovalExecuted", r)'
                   /\ kind'[r] \in {"own", "constrained"} /\ Announced("ApprovalExecuted", r)' =>
                          effect'[r] > 0
                   /\ r \in partial' => Announced("ApprovalExecutionFailed", r)'
<1>0. TypeOK /\ TypeOK' /\ Grounded /\ Blank /\ FirstEffect /\ WorkIsAnnounced /\ Kept
  BY TypeStep, Monotone DEF Inv
<1>1. /\ effect[r] > 0 => Announced("ApprovalExecuted", r)
      /\ kind[r] \in {"own", "constrained"} /\ Announced("ApprovalExecuted", r) =>
             effect[r] > 0
      /\ r \in partial => Announced("ApprovalExecutionFailed", r)
      /\ effect[r] \in Nat
  BY <1>0 DEF WorkIsAnnounced, TypeOK
<1>2. CASE UNCHANGED <<effect, partial, outbox, kind>>
  BY <1>1, <1>2 DEF Announced
<1>3. ASSUME NEW q \in Request, NEW u \in User, NEW n \in Quorums, NEW k \in Kind,
             Submit(q, u, n, k)
      PROVE  Goal
  <2>1. /\ Announced("ApprovalExecuted", r)' <=> Announced("ApprovalExecuted", r)
        /\ Announced("ApprovalExecutionFailed", r)' <=> Announced("ApprovalExecutionFailed", r)
    BY <1>3, EmitAnnounces DEF Submit
  <2>2. effect' = effect /\ partial' = partial
    BY <1>3 DEF Submit
  <2>3. kind[r] \in {"own", "constrained"} \/ kind'[r] = kind[r]
    BY <1>0, <1>3 DEF Submit, Blank, TypeOK
  <2> QED BY <1>1, <2>1, <2>2, <2>3
<1>4. ASSUME NEW s \in Session, Step(s) \/ Crash(s)
      PROVE  Goal
  <2>0. txn[s] # Idle /\ txn[s] \in Txn /\ txn[s].req \in Request /\ Shape(txn[s])
    BY <1>0, <1>4, StepIsOpen DEF Grounded
  <2>k. kind' = kind
    BY <1>4, SessionStepFrame
  <2>1. CASE ~ Commit(s)
    BY <1>0, <1>2, <1>4, <2>k, <2>1, StepMoves DEF Step, Moved, Refuse, Crash, Rollback
  <2>2. CASE Commit(s)
    <3> DEFINE t == txn[s]
    <3>1. Emit(Published(t), t.req, t.user)
      BY <2>2 DEF Commit
    <3>2. /\ "ApprovalExecuted" \in Published(t) <=> t.next = "executed"
          /\ t.next = "execution_failed" => "ApprovalExecutionFailed" \in Published(t)
      BY <2>0 DEF Published, Shape
    <3>3. \A y \in EventType :
             Announced(y, r)' <=> Announced(y, r) \/ (r = t.req /\ y \in Published(t))
      BY <3>1, EmitAnnounces
    <3>4. /\ Announced("ApprovalExecuted", r)' <=>
                Announced("ApprovalExecuted", r) \/ (r = t.req /\ t.next = "executed")
          /\ Announced("ApprovalExecutionFailed", r) => Announced("ApprovalExecutionFailed", r)'
          /\ r = t.req /\ t.next = "execution_failed" =>
                Announced("ApprovalExecutionFailed", r)'
      BY <3>2, <3>3 DEF EventType
    <3>5. effect'[r] > 0 <=> effect[r] > 0 \/ (r = t.req /\ t.wrote = "effect")
      BY <1>0, <1>1, <2>0, <2>2 DEF Commit, TypeOK
    <3>6. r = t.req /\ t.next = "executed" =>
             t.wrote = "effect" \/ effect[r] > 0 \/ kind[r] \in {"keyed", "unguarded"}
      BY <1>0, <2>0 DEF FirstEffect
    <3>7. r \in partial' => r \in partial \/ (r = t.req /\ t.wrote = "part")
      BY <2>2 DEF Commit
    <3>8. kind[r] \in {"keyed", "unguarded"} => kind[r] \notin {"own", "constrained"}
      OBVIOUS
    <3> QED BY <1>1, <2>0, <2>k, <3>4, <3>5, <3>6, <3>7, <3>8 DEF Shape
  <2> QED BY <2>1, <2>2
<1> QED BY <1>2, <1>3, <1>4 DEF Next, BeginApprove, BeginReject, BeginCancel, Open,
           Lapse, Expire, vars

(***************************************************************************)
(* A transaction that commits work also commits a decision on the request, *)
(* and no step makes a decided request undecided: the sweep tests the row  *)
(* again under its lock, and a vote short of the quorum leaves it alone.   *)
(***************************************************************************)
LEMMA UndecidedStep == Inv /\ [Next]_vars => UndecidedIsUndone'
<1> SUFFICES ASSUME Inv, [Next]_vars, NEW r \in Request,
                    status'[r] \in {"none", "pending", "expired"}
             PROVE  effect'[r] = 0 /\ r \notin partial'
    BY DEF UndecidedIsUndone
<1>0. TypeOK /\ Grounded /\ UndecidedIsUndone /\ Kept
  BY Monotone DEF Inv
<1>1. CASE UNCHANGED <<status, effect, partial>>
  BY <1>0, <1>1 DEF UndecidedIsUndone
<1>2. ASSUME NEW q \in Request, NEW u \in User, NEW n \in Quorums, NEW k \in Kind,
             Submit(q, u, n, k)
      PROVE  effect'[r] = 0 /\ r \notin partial'
  BY <1>0, <1>2 DEF Submit, UndecidedIsUndone, TypeOK
<1>3. ASSUME NEW q \in Request, Expire(q)
      PROVE  effect'[r] = 0 /\ r \notin partial'
  BY <1>0, <1>3 DEF Expire, GetPending, UndecidedIsUndone, TypeOK
<1>4. ASSUME NEW s \in Session, Commit(s)
      PROVE  effect'[r] = 0 /\ r \notin partial'
  <2> DEFINE t == txn[s]
  <2>1. t \in Txn /\ t.req \in Request /\ Shape(t) /\ t.next \notin {"none", "expired"}
    BY <1>0, <1>4, StepIsOpen DEF Step, Grounded, Txn
  <2>2. CASE t.next = "pending" \/ t.req # r
    BY <1>0, <1>4, <2>1, <2>2 DEF Commit, Shape, UndecidedIsUndone, TypeOK
  <2>3. CASE t.next # "pending" /\ t.req = r
    BY <1>0, <1>4, <2>1, <2>3 DEF Commit, TypeOK
  <2> QED BY <2>2, <2>3
<1>5. CASE \E s \in Session : (Step(s) \/ Crash(s)) /\ ~ Commit(s)
  BY <1>0, <1>1, <1>5, StepMoves DEF Step, Moved, Refuse, Crash, Rollback
<1> QED BY <1>1, <1>2, <1>3, <1>4, <1>5 DEF Next, BeginApprove, BeginReject, BeginCancel,
           Open, Lapse, vars

(***************************************************************************)
(* Inv is inductive.                                                       *)
(***************************************************************************)
THEOREM Invariance == Spec => []Inv
<1>1. Init => Inv
  <2> SUFFICES ASSUME Init PROVE Inv
      OBVIOUS
  <2>1. TypeOK
    BY DEF Init, TypeOK, Status, Kind
  <2>2. Grounded /\ LockHeld /\ VotesApart /\ QuorumKept /\ FirstEffect
    BY DEF Init, Grounded, LockHeld, VotesApart, QuorumKept, FirstEffect
  <2>3. Blank /\ MakerNeverVotes /\ OneVotePerChecker
    BY DEF Init, Blank, ActsOn, MakerNeverVotes, OneVotePerChecker
  <2>4. EffectAtMostOnce /\ QuorumBehindEffect /\ WorkIsAnnounced /\ UndecidedIsUndone
    BY DEF Init, EffectAtMostOnce, QuorumBehindEffect, WorkIsAnnounced, Announced,
           UndecidedIsUndone
  <2>5. IsFiniteSet(acts)
    BY FS_EmptySet DEF Init
  <2> QED BY <2>1, <2>2, <2>3, <2>4, <2>5 DEF Inv
<1>2. Inv /\ [Next]_vars => Inv'
  <2> SUFFICES ASSUME Inv, [Next]_vars PROVE Inv'
      OBVIOUS
  <2>1. TypeOK'
    BY TypeStep DEF Inv
  <2> QED BY <2>1, GroundedStep, BlankStep, LockHeldStep, VotesApartStep, VotesStep,
             FiniteActsStep, QuorumKeptStep, FirstEffectStep, EffectAtMostOnceStep,
             QuorumBehindEffectStep, WorkIsAnnouncedStep, UndecidedStep DEF Inv
<1> QED BY <1>1, <1>2, PTL DEF Spec

(***************************************************************************)
(* Committed work always has its quorum of checkers behind it, whatever    *)
(* calls overlap (ApprovalService.approve, _execute).                      *)
(***************************************************************************)
THEOREM QuorumCorrect == Spec => []QuorumBehindEffect
<1>1. Inv => QuorumBehindEffect
  BY DEF Inv
<1> QED BY <1>1, Invariance, PTL

(***************************************************************************)
(* The row lock taken by autoflush, with a guard or a unique key in the    *)
(* executor, makes the work of a request happen once.                      *)
(***************************************************************************)
THEOREM OnceCorrect == Spec => []EffectAtMostOnce
<1>1. Inv => EffectAtMostOnce
  BY DEF Inv
<1> QED BY <1>1, Invariance, PTL

(***************************************************************************)
(* The unique key of approval_actions holds against racing calls.          *)
(***************************************************************************)
THEOREM VotesCorrect == Spec => []OneVotePerChecker
<1>1. Inv => OneVotePerChecker
  BY DEF Inv
<1> QED BY <1>1, Invariance, PTL

(***************************************************************************)
(* Whatever an executor commits is announced in the outbox.                *)
(***************************************************************************)
THEOREM AnnouncedCorrect == Spec => []WorkIsAnnounced
<1>1. Inv => WorkIsAnnounced
  BY DEF Inv
<1> QED BY <1>1, Invariance, PTL

(***************************************************************************)
(* No interleaving of votes, rejections, cancellations and the sweep       *)
(* leaves a request open or expired whose executor has committed anything  *)
(* (_execute, _run_expiry).                                                *)
(***************************************************************************)
THEOREM UndecidedCorrect == Spec => []UndecidedIsUndone
<1>1. Inv => UndecidedIsUndone
  BY DEF Inv
<1> QED BY <1>1, Invariance, PTL

-----------------------------------------------------------------------------
\* The contract.

\* Calls do not overlap, and no request carries an expires_at.
OneCallAtATime == \A s, o \in Session : s = o

NothingExpires == Expirable = {}

\* What a transaction that runs alone has done when it is about to commit.
Verdict(t) ==
    \/ t.verb = "reject" /\ t.next = "rejected"
    \/ t.verb = "cancel" /\ t.next = "cancelled"
    \/ t.verb = "approve" /\ t.next \in {"executed", "execution_failed"}
    \/ t.verb = "approve" /\ t.next = "pending" /\ ~ QuorumMet(t)

\* What it read at its start still holds.
ReadsStand(t) ==
    /\ status[t.req] = "pending"
    /\ t.pc = "flush" => t.verb # "approve"
    /\ t.verb = "cancel" => ActsOn(t.req) = {}
    /\ t.pc = "commit" => Verdict(t)

SerialInv == \A s \in Session : txn[s] # Idle => ReadsStand(txn[s])

(***************************************************************************)
(* A call that runs alone on the database commits on the state it read.    *)
(***************************************************************************)
LEMMA SerialStep ==
    ASSUME OneCallAtATime, NothingExpires, Inv, SerialInv, [Next]_vars
    PROVE  SerialInv'
<1>0. TypeOK /\ TypeOK' /\ Grounded /\ Kept /\ lapsed = {}
  BY TypeStep, Monotone DEF Inv, TypeOK, NothingExpires
<1>1. CASE UNCHANGED <<status, effect, acts, quorum, txn>>
  BY <1>1 DEF SerialInv, ReadsStand, Verdict, QuorumMet, Approvals, ActsOn
<1>2. ASSUME NEW r \in Request, NEW u \in User, NEW q \in Quorums, NEW k \in Kind,
             Submit(r, u, q, k)
      PROVE  SerialInv'
  <2>2. ASSUME NEW s \in Session, txn'[s] # Idle
        PROVE  ReadsStand(txn[s])'
    <3>1. /\ txn' = txn /\ acts' = acts /\ txn[s] \in Txn /\ txn[s].req \in Request
          /\ ReadsStand(txn[s])
      BY <1>0, <1>2, <2>2 DEF Submit, TypeOK, Txn, SerialInv
    <3>2. /\ txn[s].req # r /\ status'[txn[s].req] = status[txn[s].req]
          /\ quorum'[txn[s].req] = quorum[txn[s].req]
      BY <1>0, <1>2, <3>1 DEF Submit, ReadsStand, TypeOK
    <3> QED BY <3>1, <3>2 DEF ReadsStand, Verdict, QuorumMet, Approvals, ActsOn, OwnAct
  <2> QED BY <2>2 DEF SerialInv
<1>3. ASSUME NEW s \in Session, NEW r \in Request, NEW u \in User,
             BeginApprove(s, r, u) \/ BeginReject(s, r, u) \/ BeginCancel(s, r, u)
      PROVE  SerialInv'
  <2>1. UNCHANGED <<status, effect, acts, quorum>> /\ status[r] = "pending"
    BY <1>3 DEF BeginApprove, BeginReject, BeginCancel, Open, GetPending
  <2>2. /\ txn'[s].req = r /\ txn'[s].pc # "commit"
        /\ txn'[s].pc = "flush" => txn'[s].verb # "approve"
        /\ txn'[s].verb = "cancel" => ActsOn(r) = {}
    BY <1>0, <1>3 DEF BeginApprove, BeginReject, BeginCancel, Open, Fresh, TypeOK
  <2>3. ReadsStand(txn[s])'
    BY <2>1, <2>2 DEF ReadsStand, ActsOn
  <2>4. \A o \in Session : o = s
    BY DEF OneCallAtATime
  <2> QED BY <2>1, <2>3, <2>4 DEF SerialInv
<1>4. ASSUME NEW s \in Session, Step(s) \/ Crash(s)
      PROVE  SerialInv'
  <2>0. /\ txn[s] # Idle /\ txn[s] \in Txn /\ txn[s].req \in Request
        /\ Shape(txn[s]) /\ ReadsStand(txn[s])
    BY <1>0, <1>4, StepIsOpen DEF Grounded, SerialInv
  <2>a. \A o \in Session : o = s
    BY DEF OneCallAtATime
  <2>1. ASSUME NEW p, NEW n, NEW w, Moved(s, p, n, w), p # "flush",
               p = "commit" => Verdict(txn[s])'
        PROVE  SerialInv'
    <3>1. ReadsStand(txn[s])'
      BY <2>0, <2>1 DEF Moved, ReadsStand, ActsOn
    <3> QED BY <2>a, <3>1 DEF SerialInv
  <2>2. CASE CastVote(s)
    BY <1>0, <2>1, <2>2, StepMoves
  <2>3. CASE CountVotes(s)
    <3> DEFINE p == IF QuorumMet(txn[s]) THEN "lock" ELSE "commit"
    <3>1. Moved(s, p, txn[s].next, txn[s].wrote) /\ txn[s].pc = "count"
      BY <1>0, <2>3, StepMoves DEF CountVotes
    <3>2. QuorumMet(txn[s])' <=> QuorumMet(txn[s])
      BY <3>1 DEF Moved, QuorumMet, Approvals, ActsOn, OwnAct
    <3>3. p = "commit" => Verdict(txn[s])'
      BY <2>0, <3>1, <3>2 DEF Moved, Verdict, Shape
    <3> QED BY <2>1, <3>1, <3>3
  <2>4. CASE LockRequest(s)
    BY <1>0, <2>1, <2>4, StepMoves
  <2>5. CASE ExecutorReturns(s)
    <3>1. PICK w : Moved(s, "commit", "executed", w) /\ txn[s].pc = "execute"
      BY <1>0, <2>5, StepMoves DEF ExecutorReturns
    <3> QED BY <2>0, <2>1, <3>1 DEF Moved, Verdict, Shape
  <2>6. CASE ExecutorRaises(s)
    <3>1. PICK w : Moved(s, "commit", "execution_failed", w) /\ txn[s].pc = "execute"
      BY <1>0, <2>6, StepMoves DEF ExecutorRaises
    <3> QED BY <2>0, <2>1, <3>1 DEF Moved, Verdict, Shape
  <2>7. CASE FlushReject(s)
    BY <1>0, <2>1, <2>7, StepMoves DEF Moved, Verdict, FlushReject
  <2>8. CASE FlushCancel(s)
    BY <1>0, <2>1, <2>8, StepMoves DEF Moved, Verdict, FlushCancel
  <2>9. CASE Commit(s)
    <3>1. txn'[s] = Idle
      BY <1>0, <2>9, StepMoves DEF Ended
    <3> QED BY <2>a, <3>1 DEF SerialInv
  <2>10. CASE Refuse(s) \/ Crash(s)
    <3>1. txn'[s] = Idle /\ UNCHANGED <<status, effect>>
      BY <1>0, <2>10, StepMoves DEF Ended, Refuse, Crash, Rollback
    <3> QED BY <2>a, <3>1 DEF SerialInv
  <2> QED BY <1>4, <2>2, <2>3, <2>4, <2>5, <2>6, <2>7, <2>8, <2>9, <2>10 DEF Step
<1> QED BY <1>0, <1>1, <1>2, <1>3, <1>4 DEF Next, Lapse, Expire, NothingExpires, vars

(***************************************************************************)
(* The commit of an approval, a rejection or a cancellation that ran alone *)
(* is the step of that name in the contract.                               *)
(***************************************************************************)
LEMMA CommitIsContractStep ==
    ASSUME Inv, SerialInv, NEW s \in Session, Commit(s)
    PROVE  Contract!ContractNext
<1> DEFINE t == txn[s]
           r == t.req
           u == t.user
<1>0. /\ TypeOK /\ txn[s] # Idle /\ t \in Txn /\ t.pc = "commit"
      /\ r \in Request /\ u \in User
      /\ Shape(t) /\ ReadsStand(t) /\ status[r] = "pending" /\ effect[r] = 0
      /\ t.verb # "cancel" => u # maker[r]
  <2>1. TypeOK /\ txn[s] # Idle /\ t \in Txn /\ t.pc = "commit"
    BY DEF Inv, TypeOK, Commit, Idle
  <2>2. r \in Request /\ u \in User
    BY <2>1 DEF Txn
  <2>3. Shape(t) /\ ReadsStand(t) /\ (t.verb # "cancel" => u # maker[r])
    BY <2>1 DEF Inv, Grounded, SerialInv
  <2>4. status[r] = "pending" /\ effect[r] = 0
    BY <2>2, <2>3 DEF Inv, ReadsStand, UndecidedIsUndone
  <2> QED BY <2>1, <2>2, <2>3, <2>4
<1>1. Verdict(t)
  BY <1>0 DEF ReadsStand
<1>2. UNCHANGED <<maker, quorum>>
  BY DEF Commit
<1>3. ASSUME t.verb \in {"approve", "reject"}
      PROVE  Contract!Vote(r, u, t.verb)
  <2>1. HasVoted(t)
    BY <1>0, <1>3 DEF HasVoted
  <2>2. ~ AlreadyVoted(t)
    BY <1>0, <2>1 DEF Inv, VotesApart
  <2>3. acts' = acts \cup {[req |-> r, actor |-> u, action |-> t.verb]}
    BY <2>1 DEF Commit, OwnAct
  <2> QED BY <1>0, <1>2, <1>3, <2>2, <2>3 DEF Contract!Vote, Contract!Voted, AlreadyVoted
<1>4. ASSUME t.verb = "approve"
      PROVE  QuorumMet(t) <=> Contract!Reaches(r, u)
  <2>1. Approvals(r) \cup {OwnAct(t)} =
            {a \in Contract!Voted(r) : a.action = "approve"}
                \cup {[req |-> r, actor |-> u, action |-> "approve"]}
    BY <1>4 DEF Approvals, ActsOn, OwnAct, Contract!Voted
  <2>2. ASSUME NEW S
        PROVE  Contract!Cardinality(S) = Cardinality(S)
    BY DEF Cardinality, Contract!Cardinality
  <2> QED BY <2>1, <2>2 DEF QuorumMet, Contract!Reaches
<1>5. status' = IF t.next = "pending" THEN status ELSE [status EXCEPT ![r] = t.next]
  BY DEF Commit
<1>6. t.wrote # "effect" => effect' = effect
  BY DEF Commit
<1>7. CASE t.verb = "reject" /\ t.next = "rejected"
  <2>1. Contract!RejectRequest(r, u)
    BY <1>0, <1>3, <1>5, <1>6, <1>7 DEF Contract!RejectRequest, Shape
  <2> QED BY <1>0, <2>1 DEF Contract!ContractNext
<1>8. CASE t.verb = "cancel" /\ t.next = "cancelled"
  <2>1. acts' = acts
    BY <1>0, <1>8 DEF Commit, HasVoted
  <2>2. Contract!CancelRequest(r)
    BY <1>0, <1>2, <1>5, <1>6, <1>8, <2>1
       DEF Contract!CancelRequest, Contract!Voted, Shape, ReadsStand, ActsOn
  <2> QED BY <1>0, <2>2 DEF Contract!ContractNext
<1>9. CASE t.verb = "approve" /\ t.next \in {"executed", "execution_failed"}
  <2>1. Contract!Vote(r, u, "approve")
    BY <1>3, <1>9
  <2>2. Contract!Reaches(r, u)
    BY <1>0, <1>4, <1>9 DEF Inv, QuorumKept, PastQuorum
  <2>3. CASE t.next = "executed"
    <3>2. effect' = [effect EXCEPT ![r] = 1] \/ effect' = effect
      BY <1>0 DEF Commit
    <3>3. Contract!ApproveAndExecute(r, u)
      BY <1>5, <2>1, <2>2, <2>3, <3>2 DEF Contract!ApproveAndExecute
    <3> QED BY <1>0, <3>3 DEF Contract!ContractNext
  <2>4. CASE t.next = "execution_failed"
    <3>1. Contract!ApproveAndExecute(r, u)
      BY <1>0, <1>5, <1>6, <2>1, <2>2, <2>4 DEF Contract!ApproveAndExecute, Shape
    <3> QED BY <1>0, <3>1 DEF Contract!ContractNext
  <2> QED BY <1>9, <2>3, <2>4
<1>10. CASE t.verb = "approve" /\ t.next = "pending" /\ ~ QuorumMet(t)
  <2>1. Contract!ApproveShort(r, u)
    BY <1>0, <1>3, <1>4, <1>5, <1>6, <1>10 DEF Contract!ApproveShort, Shape
  <2> QED BY <1>0, <2>1 DEF Contract!ContractNext
<1> QED BY <1>1, <1>7, <1>8, <1>9, <1>10 DEF Verdict

(***************************************************************************)
(* Every other step of a session, and time, leaves the contract's state    *)
(* alone.                                                                  *)
(***************************************************************************)
LEMMA StepImplements ==
    ASSUME NothingExpires, Inv, SerialInv, [Next]_vars
    PROVE  [Contract!ContractNext]_(Contract!cvars)
<1>0. TypeOK /\ lapsed = {}
  BY DEF Inv, TypeOK, NothingExpires
<1>1. ASSUME NEW r \in Request, NEW u \in User, NEW q \in Quorums, NEW k \in Kind,
             Submit(r, u, q, k)
      PROVE  Contract!ContractNext
  <2>1. Contract!SubmitRequest(r, u, q)
    BY <1>1 DEF Submit, Contract!SubmitRequest
  <2> QED BY <2>1 DEF Contract!ContractNext
<1>2. CASE \E s \in Session : Commit(s)
  BY <1>2, CommitIsContractStep
<1>3. CASE \E s \in Session : (Step(s) \/ Crash(s)) /\ ~ Commit(s)
  BY <1>0, <1>3, StepMoves DEF Step, Moved, Refuse, Crash, Rollback, Contract!cvars
<1>4. CASE UNCHANGED Contract!cvars
  BY <1>4
<1> QED BY <1>0, <1>1, <1>2, <1>3, <1>4 DEF Next, BeginApprove, BeginReject, BeginCancel,
           Open, Lapse, Expire, NothingExpires, vars, Contract!cvars

(***************************************************************************)
(* Calls that do not overlap, on requests without expires_at, implement    *)
(* the contract of the design document: each endpoint's transaction is one *)
(* of its atomic steps, its commit (ApprovalService.approve, reject,       *)
(* cancel, _execute), and each rolled back one is no step at all.  Neither *)
(* assumption can be dropped: beside another call or the sweep, a call may *)
(* commit on a status it read too early.                                   *)
(***************************************************************************)
THEOREM ContractImplemented ==
    ASSUME OneCallAtATime, NothingExpires
    PROVE  Spec => ImplementsContract
<1>1. Init => SerialInv
  BY DEF Init, SerialInv
<1>2. Inv /\ SerialInv /\ [Next]_vars => SerialInv'
  BY SerialStep
<1>3. Init => Contract!ContractInit
  BY DEF Init, Contract!ContractInit
<1>4. Inv /\ SerialInv /\ [Next]_vars => [Contract!ContractNext]_(Contract!cvars)
  BY StepImplements
<1> QED BY <1>1, <1>2, <1>3, <1>4, Invariance, PTL
       DEF Spec, ImplementsContract, Contract!ContractSpec
=============================================================================
