--------------------------- MODULE EventConsumer ---------------------------
(***************************************************************************)
(* A polling consumer of outbox events (app/modules/credit/consumer.py;    *)
(* the consumers of fees and members have the same loop): it keeps the     *)
(* penalty totals of loans in step with the fees module.                   *)
(*                                                                         *)
(* Beat starts a run every minute whether or not the last one is over, so  *)
(* runs overlap.  A run reads a batch of unprocessed events without        *)
(* locking them and handles them one by one, each in a savepoint of ONE    *)
(* transaction that commits at the end.  Inside the savepoint: check that  *)
(* the event is not processed, UPDATE the loan (waiting for its row lock), *)
(* INSERT into processed_events (waiting for an uncommitted duplicate).    *)
(***************************************************************************)
EXTENDS Integers, FiniteSets, FiniteSetsExt, Functions

CONSTANTS
    Event,      \* outbox_events rows, numbered in the order of occurred_at
    Loan,       \* loans the events are about
    Amount,     \* fee amounts
    Run,        \* consumer runs that may overlap
    BatchSize,  \* _BATCH
    MaxFaults   \* bound on runs that die and handlers that raise by accident

ASSUME EventsAreNumbered == Event \subseteq Nat
ASSUME AmountsAreNatural == Amount \subseteq Nat
ASSUME BoundsAreNatural == BatchSize \in Nat /\ MaxFaults \in Nat

VARIABLES
    about,      \* committed events: event -> what its payload says
    processed,  \* committed processed_events of this consumer
    loan,       \* Loan -> accrued_penalties and total_paid_penalties, committed
    run,        \* Run -> the state of the consumer run
    faults      \* accidents so far

vars == <<about, processed, loan, run, faults>>

\* "malformed": the payload lacks a field or holds no number, so the handler
\* raises each time; "other": target_type is not 'loan'.
Kind == {"FeeAssessmentCreated", "FeeCollectionCreated", "other", "malformed"}

Payload == [kind : Kind, loan : Loan, amount : Amount]

\* What this consumer keeps of a loan row.
Penalties == [accrued : Nat, paid : Nat]
NoPenalties == [accrued |-> 0, paid |-> 0]

\* A run: the events of its batch still to handle, the ones it has handled and
\* not committed, and the loan rows it has updated, therefore locked, with
\* their uncommitted values.
Polling ==
    [pc : {"off", "check", "apply"}, todo : SUBSET Event, done : SUBSET Event,
     locked : SUBSET Loan, mine : [Loan -> Penalties]]

Off == [pc |-> "off", todo |-> {}, done |-> {}, locked |-> {},
        mine |-> [l \in Loan |-> NoPenalties]]

TypeOK ==
    /\ about \in UNION {[E -> Payload] : E \in SUBSET Event}
    /\ processed \subseteq DOMAIN about
    /\ loan \in [Loan -> Penalties]
    /\ run \in [Run -> Polling]
    /\ faults \in 0 .. MaxFaults

Init ==
    /\ about = << >>
    /\ processed = {}
    /\ loan = [l \in Loan |-> NoPenalties]
    /\ run = [c \in Run |-> Off]
    /\ faults = 0

-----------------------------------------------------------------------------
\* A producer commits an event.  occurred_at is stamped before the commit, so
\* an event may become visible after a younger one.  No line of the application
\* publishes FeeAssessmentCreated or FeeCollectionCreated yet, so the producer
\* is taken from what the consumer accepts.
Emit(e, p) ==
    /\ e \notin DOMAIN about
    /\ about' = [d \in DOMAIN about \cup {e} |-> IF d = e THEN p ELSE about[d]]
    /\ UNCHANGED <<processed, loan, run, faults>>

Oldest(S) == {e \in S : Cardinality({d \in S : d < e}) < BatchSize}

\* Faulty variant: a cursor, past which nothing older is looked for.
Fetch_Cursor(c) ==
    LET found == Oldest({e \in DOMAIN about : \A d \in processed : d < e}) IN
    /\ run[c] = Off
    /\ found # {}
    /\ run' = [run EXCEPT ![c] = [Off EXCEPT !.pc = "check", !.todo = found]]
    /\ UNCHANGED <<about, processed, loan, faults>>

\* _fetch_sql: unprocessed events ORDER BY occurred_at LIMIT _BATCH.
Fetch(c) ==
    LET found == Oldest(DOMAIN about \ processed) IN
    /\ run[c] = Off
    /\ found # {}
    /\ run' = [run EXCEPT ![c] = [Off EXCEPT !.pc = "check", !.todo = found]]
    /\ UNCHANGED <<about, processed, loan, faults>>

IsNext(c, e) == e \in run[c].todo /\ \A d \in run[c].todo : e <= d

\* The savepoint of e ends without effect.
Skip(c, e) ==
    run' = [run EXCEPT ![c] = [run[c] EXCEPT !.pc = "check", !.todo = @ \ {e}]]

\* The double check inside the savepoint.
Check(c, e) ==
    /\ run[c].pc = "check" /\ IsNext(c, e)
    /\ IF e \in processed THEN Skip(c, e)
                          ELSE run' = [run EXCEPT ![c].pc = "apply"]
    /\ UNCHANGED <<about, processed, loan, faults>>

IsAboutLoan(p) == p.kind \in {"FeeAssessmentCreated", "FeeCollectionCreated"}

\* Run c, at event e, must wait for run o, which has updated the loan or
\* inserted the processed_events row and has not committed.
Blocks(o, c, e) ==
    /\ o # c
    /\ \/ e \in run[o].done
       \/ IsAboutLoan(about[e]) /\ about[e].loan \in run[o].locked

AtHandler(c, e) == run[c].pc = "apply" /\ IsNext(c, e)

\* Runs that wait for each other in a circle.
Deadlocked(S) ==
    \A c \in S : \E o \in S, e \in Event : AtHandler(c, e) /\ Blocks(o, c, e)

\* The loan row as this transaction sees it.
Visible(c, l) ==
    IF l \in run[c].locked THEN run[c].mine[l] ELSE loan[l]

\* Faulty variant: no floor at zero.
Penalise_NoFloor(p, v) ==
    IF p.kind = "FeeAssessmentCreated"
    THEN [v EXCEPT !.accrued = @ + p.amount]
    ELSE [v EXCEPT !.accrued = @ - p.amount, !.paid = @ + p.amount]

\* Faulty variant: a collection takes off the loan what another fee accrued.
Penalise_ClearsAll(p, v) ==
    IF p.kind = "FeeAssessmentCreated"
    THEN [v EXCEPT !.accrued = @ + p.amount]
    ELSE [v EXCEPT !.accrued = 0, !.paid = @ + p.amount]

\* _handle_event: accrued + amount, or GREATEST(accrued - amount, 0).
Penalise(p, v) ==
    IF p.kind = "FeeAssessmentCreated"
    THEN [v EXCEPT !.accrued = @ + p.amount]
    ELSE [v EXCEPT !.accrued = Max({@ - p.amount, 0}), !.paid = @ + p.amount]

\* The UPDATE of the loan, if there is one, inside the open transaction.
Updated(c, p) ==
    IF ~ IsAboutLoan(p) THEN run[c]
    ELSE [run[c] EXCEPT !.locked = @ \cup {p.loan},
                        !.mine[p.loan] = Penalise(p, Visible(c, p.loan))]

Handled(c, e) ==
    run' = [run EXCEPT ![c] = [Updated(c, about[e]) EXCEPT
                !.pc = "check", !.todo = @ \ {e}, !.done = @ \cup {e}]]

\* Faulty variant: processed_events without its primary key.
Duplicate_NoPrimaryKey(e) == FALSE

\* The primary key (event_id, consumer_name) of processed_events.
Duplicate(e) == e \in processed

\* _handle_event and the INSERT: a duplicate key raises and the savepoint
\* takes the UPDATE of the loan back.
Apply(c, e) ==
    /\ AtHandler(c, e)
    /\ about[e].kind # "malformed"
    /\ \A o \in Run : ~ Blocks(o, c, e)
    /\ IF Duplicate(e) THEN Skip(c, e) ELSE Handled(c, e)
    /\ UNCHANGED <<about, processed, loan, faults>>

\* The handler raises on a malformed payload; the event stays unprocessed.
Raise(c, e) ==
    /\ AtHandler(c, e)
    /\ about[e].kind = "malformed"
    /\ Skip(c, e)
    /\ UNCHANGED <<about, processed, loan, faults>>

\* PostgreSQL breaks a deadlock by failing one of the statements; the
\* savepoint of that event is rolled back and the run goes on.
Victim(c, e) ==
    /\ AtHandler(c, e)
    /\ \E S \in SUBSET Run : c \in S /\ Deadlocked(S)
    /\ Skip(c, e)
    /\ UNCHANGED <<about, processed, loan, faults>>

Accident == faults < MaxFaults /\ faults' = faults + 1

\* The handler raises by accident: a lock or statement timeout.
Stumble(c, e) ==
    /\ AtHandler(c, e)
    /\ Skip(c, e)
    /\ Accident
    /\ UNCHANGED <<about, processed, loan>>

\* session.commit() at the end of the run.
Commit(c) ==
    /\ run[c].pc = "check" /\ run[c].todo = {}
    /\ processed' = processed \cup run[c].done
    /\ loan' = [l \in Loan |-> Visible(c, l)]
    /\ run' = [run EXCEPT ![c] = Off]
    /\ UNCHANGED <<about, faults>>

\* The worker dies: everything the run did rolls back.
Crash(c) ==
    /\ run[c] # Off
    /\ run' = [run EXCEPT ![c] = Off]
    /\ Accident
    /\ UNCHANGED <<about, processed, loan>>

Work(c) ==
    \/ Commit(c)
    \/ \E e \in Event : Check(c, e) \/ Apply(c, e) \/ Raise(c, e) \/ Victim(c, e)

Next ==
    \/ \E e \in Event, p \in Payload : Emit(e, p)
    \/ \E c \in Run : Fetch(c) \/ Work(c) \/ Crash(c)
    \/ \E c \in Run, e \in Event : Stumble(c, e)

Spec == Init /\ [][Next]_vars

\* Beat keeps starting runs, a run keeps working, and the database breaks
\* deadlocks.
FairSpec == Spec /\ \A c \in Run : WF_vars(Fetch(c)) /\ WF_vars(Work(c))

-----------------------------------------------------------------------------
Total(kind, l) ==
    SumFunctionOnSet([e \in DOMAIN about |-> about[e].amount],
        {e \in processed : about[e].kind = kind /\ about[e].loan = l})

Assessed(l) == Total("FeeAssessmentCreated", l)
Collected(l) == Total("FeeCollectionCreated", l)

(***************************************************************************)
(* Exactly once: however runs overlap and die, what a loan has paid is the *)
(* sum of the collections marked processed, no event counted twice and     *)
(* none marked without its effect.                                         *)
(***************************************************************************)
EffectExactlyOnce == \A l \in Loan : loan[l].paid = Collected(l)

(***************************************************************************)
(* The floor at zero never hides a debt: the penalties a loan owes are at  *)
(* least what was assessed less what was collected, and at most what was   *)
(* assessed, also when a collection overtakes its assessment.              *)
(***************************************************************************)
PenaltiesNotUnderstated ==
    \A l \in Loan :
        /\ loan[l].accrued >= Assessed(l) - Collected(l)
        /\ loan[l].accrued <= Assessed(l)

Malformed == {e \in DOMAIN about : about[e].kind = "malformed"}

(***************************************************************************)
(* Every well-formed event is processed in the end, as long as malformed   *)
(* ones, which are fetched again and again, do not fill the batch.         *)
(***************************************************************************)
EventsAreConsumed ==
    \A e \in Event :
        (e \in DOMAIN about \ Malformed)
            ~> (e \in processed \/ Cardinality(Malformed) >= BatchSize)
=============================================================================
