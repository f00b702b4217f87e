------------------------------- MODULE Outbox -------------------------------
(***************************************************************************)
(* The transactional outbox of one schema (app/core/outbox): events that   *)
(* business transactions insert, the relay that sends them to RabbitMQ     *)
(* (worker.py) and the retention purge (retention.py).                     *)
(*                                                                         *)
(* Celery beat starts a tick every 5 s and a tick may run for 30 s, so     *)
(* ticks overlap.  A tick drains the table in batches; each batch is one   *)
(* transaction that locks its rows (FOR UPDATE SKIP LOCKED), sends them    *)
(* one by one, and only then commits what happened.  The broker is         *)
(* external: it accepts a message or the publish raises, and a publish     *)
(* that raises may have been accepted (a lost confirm).                    *)
(***************************************************************************)
EXTENDS Naturals, FiniteSets, FiniteSetsExt

CONSTANTS
    Event,        \* outbox_events rows, numbered in the order of occurred_at
    Worker,       \* relay ticks that may run at the same time
    BatchSize,    \* _BATCH_SIZE
    MaxAttempts,  \* _MAX_ATTEMPTS
    MaxCrashes    \* bound on the ticks that die

ASSUME EventsAreNumbered == Event \subseteq Nat
ASSUME LimitsArePositive ==
    BatchSize \in Nat \ {0} /\ MaxAttempts \in Nat \ {0} /\ MaxCrashes \in Nat

VARIABLES
    row,       \* Event -> state of the committed row
    attempts,  \* Event -> attempts, committed
    waiting,   \* rows whose next_attempt_at lies in the future
    sent,      \* Event -> how often the broker accepted its message
    tick,      \* Worker -> the tick it runs
    crashes    \* ticks that died

vars == <<row, attempts, waiting, sent, tick, crashes>>

RowState == {"none", "ready", "published", "dead_lettered", "purged"}

\* A tick: "off" when none runs, "first" before its first batch, "batch" inside
\* one, "again" between two.  late: rows whose next_attempt_at is after the
\* tick's `now`; held: rows its open transaction has locked, of which todo are
\* not sent yet, ok were accepted and the others raised.
Tick == [pc : {"off", "first", "batch", "again"}, late : SUBSET Event,
         held : SUBSET Event, todo : SUBSET Event, ok : SUBSET Event]

\* A tick that has no batch open.
Between(pc, late) ==
    [pc |-> pc, late |-> late, held |-> {}, todo |-> {}, ok |-> {}]

Off == Between("off", {})

TypeOK ==
    /\ row \in [Event -> RowState]
    /\ attempts \in [Event -> 0 .. MaxAttempts]
    /\ waiting \subseteq Event
    /\ sent \in [Event -> Nat]
    /\ tick \in [Worker -> Tick]
    /\ crashes \in 0 .. MaxCrashes

Init ==
    /\ row = [e \in Event |-> "none"]
    /\ attempts = [e \in Event |-> 0]
    /\ waiting = {}
    /\ sent = [e \in Event |-> 0]
    /\ tick = [w \in Worker |-> Off]
    /\ crashes = 0

-----------------------------------------------------------------------------
\* EventPublisher.publish: the row commits with its business transaction, so
\* not necessarily in the order of occurred_at.
Publish(e) ==
    /\ row[e] = "none"
    /\ row' = [row EXCEPT ![e] = "ready"]
    /\ UNCHANGED <<attempts, waiting, sent, tick, crashes>>

\* _relay_outbox: `now` is read once, when the tick starts.
StartTick(w) ==
    /\ tick[w] = Off
    /\ tick' = [tick EXCEPT ![w] = Between("first", waiting)]
    /\ UNCHANGED <<row, attempts, waiting, sent, crashes>>

Locked(e) == \E w \in Worker : e \in tick[w].held

\* Faulty variant: a plain SELECT, which locks nothing and skips nothing.
Eligible_NoLock(w) == {e \in Event : row[e] = "ready" /\ e \notin tick[w].late}

\* Faulty variant: only rows whose next_attempt_at is null.
Eligible_FirstAttemptOnly(w) ==
    {e \in Event : row[e] = "ready" /\ attempts[e] = 0 /\ ~ Locked(e)}

\* The WHERE clause of the SELECT ... FOR UPDATE SKIP LOCKED.
Eligible(w) ==
    {e \in Event : row[e] = "ready" /\ e \notin tick[w].late /\ ~ Locked(e)}

\* ORDER BY occurred_at LIMIT _BATCH_SIZE.
Oldest(S) == {e \in S : Cardinality({d \in S : d < e}) < BatchSize}

\* The tick w inside a batch.
InBatch(w, held, todo, ok) ==
    [pc |-> "batch", late |-> tick[w].late, held |-> held, todo |-> todo,
     ok |-> ok]

SelectBatch(w) ==
    /\ tick[w].pc \in {"first", "again"}
    /\ Eligible(w) # {}
    /\ LET batch == Oldest(Eligible(w)) IN
        tick' = [tick EXCEPT ![w] = InBatch(w, batch, batch, {})]
    /\ UNCHANGED <<row, attempts, waiting, sent, crashes>>

\* The tick ends when the query finds nothing, or, after a batch, when it has
\* used up its 30 s or its 1000 rows.
EndTick(w) ==
    /\ \/ tick[w].pc = "first" /\ Eligible(w) = {}
       \/ tick[w].pc = "again"
    /\ tick' = [tick EXCEPT ![w] = Off]
    /\ UNCHANGED <<row, attempts, waiting, sent, crashes>>

\* The rows of a batch are sent in the order of occurred_at.
IsNext(w, e) ==
    tick[w].pc = "batch" /\ e \in tick[w].todo /\ \A d \in tick[w].todo : e <= d

PublishSucceeds(w, e) ==
    /\ IsNext(w, e)
    /\ sent' = [sent EXCEPT ![e] = @ + 1]
    /\ tick' = [tick EXCEPT ![w] =
                    InBatch(w, @.held, @.todo \ {e}, @.ok \cup {e})]
    /\ UNCHANGED <<row, attempts, waiting, crashes>>

\* Faulty variant: published_at is set before the publish is confirmed.
PublishRaises_MarkedAnyway(w, e) ==
    /\ IsNext(w, e)
    /\ tick' = [tick EXCEPT ![w] =
                    InBatch(w, @.held, @.todo \ {e}, @.ok \cup {e})]
    /\ UNCHANGED <<row, attempts, waiting, sent, crashes>>

PublishRaises(w, e) ==
    /\ IsNext(w, e)
    /\ \E accepted \in {0, 1} : sent' = [sent EXCEPT ![e] = @ + accepted]
    /\ tick' = [tick EXCEPT ![w] = InBatch(w, @.held, @.todo \ {e}, @.ok)]
    /\ UNCHANGED <<row, attempts, waiting, crashes>>

\* Faulty variant: the limit is tested before the attempt is counted.
Exhausted_OffByOne(e) == attempts[e] >= MaxAttempts

\* row.attempts >= _MAX_ATTEMPTS, after the increment.
Exhausted(e) == attempts[e] + 1 >= MaxAttempts

\* The commit of a batch.  A row that failed got a next_attempt_at of at least
\* 30 s after the failure (_next_attempt_delta), which is later than this
\* tick's `now` and, unless the batch went on for longer than that (the rows
\* in over), than that of every tick that runs at this moment.
CommitBatch(w) ==
    LET held == tick[w].held
        failed == held \ tick[w].ok
    IN
    /\ tick[w].pc = "batch" /\ tick[w].todo = {}
    /\ row' = [e \in Event |->
                CASE e \in tick[w].ok -> "published"
                  [] e \in failed /\ Exhausted(e) -> "dead_lettered"
                  [] OTHER -> row[e]]
    /\ attempts' = [e \in Event |->
                        IF e \in held THEN attempts[e] + 1 ELSE attempts[e]]
    /\ \E over \in SUBSET failed :
        /\ waiting' = waiting \cup (failed \ over)
        /\ tick' = [v \in Worker |->
                IF v = w THEN Between("again", tick[w].late \cup failed)
                ELSE [tick[v] EXCEPT !.late =
                        IF tick[v].pc = "off" THEN @ ELSE @ \cup (failed \ over)]]
    /\ UNCHANGED <<sent, crashes>>

\* The worker dies, or the database or the broker connection is lost: the
\* batch rolls back, its locks are released, what was sent stays sent.
Crash(w) ==
    /\ tick[w] # Off
    /\ crashes < MaxCrashes
    /\ crashes' = crashes + 1
    /\ tick' = [tick EXCEPT ![w] = Off]
    /\ UNCHANGED <<row, attempts, waiting, sent>>

\* Time passes next_attempt_at.
BackoffEnds(e) ==
    /\ e \in waiting
    /\ waiting' = waiting \ {e}
    /\ UNCHANGED <<row, attempts, sent, tick, crashes>>

\* retention._purge: rows published long enough ago.
Purge(e) ==
    /\ row[e] = "published"
    /\ row' = [row EXCEPT ![e] = "purged"]
    /\ UNCHANGED <<attempts, waiting, sent, tick, crashes>>

\* What a running tick does next.
Work(w) ==
    \/ SelectBatch(w) \/ EndTick(w) \/ CommitBatch(w)
    \/ \E e \in Event : PublishSucceeds(w, e) \/ PublishRaises(w, e)

Next ==
    \/ \E e \in Event : Publish(e) \/ BackoffEnds(e) \/ Purge(e)
    \/ \E w \in Worker : StartTick(w) \/ Work(w) \/ Crash(w)

Spec == Init /\ [][Next]_vars

\* Beat keeps starting ticks, a running tick keeps working, time passes.
Fairness ==
    /\ \A w \in Worker : WF_vars(StartTick(w)) /\ WF_vars(Work(w))
    /\ \A e \in Event : WF_vars(BackoffEnds(e))

FairSpec == Spec /\ Fairness

-----------------------------------------------------------------------------
(***************************************************************************)
(* At-least-once: a row is only ever marked published, and purged, after   *)
(* the broker accepted its message.                                        *)
(***************************************************************************)
PublishedWasSent ==
    \A e \in Event : row[e] \in {"published", "purged"} => sent[e] > 0

\* The attempt on e that the open batch of w has made and not yet committed.
InFlight(e) ==
    IF \E w \in Worker : e \in tick[w].held \ tick[w].todo THEN 1 ELSE 0

(***************************************************************************)
(* Duplicates have a cause: the broker sees a message at most once per     *)
(* attempt that is on record or in flight, plus once per tick that died    *)
(* before it could record it.  Overlapping ticks alone duplicate nothing.  *)
(***************************************************************************)
DuplicatesHaveCause ==
    \A e \in Event : sent[e] <= attempts[e] + InFlight(e) + crashes

(***************************************************************************)
(* A dead-lettered row is left alone: no overlapping tick that selected it *)
(* earlier still sends it or revives it.                                   *)
(***************************************************************************)
DeadLettersRest ==
    [][\A e \in Event :
        row[e] = "dead_lettered" =>
            sent'[e] = sent[e] /\ row'[e] = "dead_lettered"]_vars

(***************************************************************************)
(* No event is stranded: whatever fails, each committed row is published   *)
(* or dead-lettered in the end.                                            *)
(***************************************************************************)
EventsSettle == \A e \in Event : row[e] = "ready" ~> row[e] # "ready"
=============================================================================
