-------------------------- MODULE ApprovalContract --------------------------
(***************************************************************************)
(* What the maker-checker framework promises (design document, section     *)
(* 5.3): each call of submit, approve, reject and cancel, and the sweep,   *)
(* is one atomic step; a request is decided once; the executor runs when   *)
(* the quorum is met and never otherwise.  MakerChecker shows when the     *)
(* transactions of the service implement it.                               *)
(***************************************************************************)
EXTENDS Naturals, FiniteSets

CONSTANTS Request, User, Quorums, NoOne

VARIABLES status, maker, quorum, acts, effect

cvars == <<status, maker, quorum, acts, effect>>

ContractInit ==
    /\ status = [r \in Request |-> "none"]
    /\ maker = [r \in Request |-> NoOne]
    /\ quorum = [r \in Request |-> 0]
    /\ acts = {}
    /\ effect = [r \in Request |-> 0]

Voted(r) == {a \in acts : a.req = r}

Vote(r, u, v) ==
    /\ status[r] = "pending"
    /\ u # maker[r]
    /\ \A a \in Voted(r) : a.actor # u
    /\ acts' = acts \cup {[req |-> r, actor |-> u, action |-> v]}
    /\ UNCHANGED <<maker, quorum>>

\* The votes for r, u's included, reach required_approvals.
Reaches(r, u) ==
    Cardinality({a \in Voted(r) : a.action = "approve"}
                \cup {[req |-> r, actor |-> u, action |-> "approve"]}) >= quorum[r]

SubmitRequest(r, u, q) ==
    /\ status[r] = "none"
    /\ status' = [status EXCEPT ![r] = "pending"]
    /\ maker' = [maker EXCEPT ![r] = u]
    /\ quorum' = [quorum EXCEPT ![r] = q]
    /\ UNCHANGED <<acts, effect>>

ApproveShort(r, u) ==
    /\ Vote(r, u, "approve")
    /\ ~ Reaches(r, u)
    /\ UNCHANGED <<status, effect>>

ApproveAndExecute(r, u) ==
    /\ Vote(r, u, "approve")
    /\ Reaches(r, u)
    /\ \/ /\ status' = [status EXCEPT ![r] = "executed"]
          /\ \/ effect' = [effect EXCEPT ![r] = 1]
             \/ UNCHANGED effect     \* the executor found the work done
       \/ /\ status' = [status EXCEPT ![r] = "execution_failed"]
          /\ UNCHANGED effect

RejectRequest(r, u) ==
    /\ Vote(r, u, "reject")
    /\ status' = [status EXCEPT ![r] = "rejected"]
    /\ UNCHANGED effect

CancelRequest(r) ==
    /\ status[r] = "pending"
    /\ Voted(r) = {}
    /\ status' = [status EXCEPT ![r] = "cancelled"]
    /\ UNCHANGED <<maker, quorum, acts, effect>>

ExpireRequest(r) ==
    /\ status[r] = "pending"
    /\ status' = [status EXCEPT ![r] = "expired"]
    /\ UNCHANGED <<maker, quorum, acts, effect>>

ContractNext ==
    \E r \in Request :
        \/ \E u \in User :
            \/ \E q \in Quorums : SubmitRequest(r, u, q)
            \/ ApproveShort(r, u) \/ ApproveAndExecute(r, u)
            \/ RejectRequest(r, u)
        \/ CancelRequest(r) \/ ExpireRequest(r)

ContractSpec == ContractInit /\ [][ContractNext]_cvars
=============================================================================
