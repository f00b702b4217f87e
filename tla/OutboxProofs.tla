---------------------------- MODULE OutboxProofs ----------------------------
(***************************************************************************)
(* Proofs about Outbox, for any number of events, overlapping ticks and    *)
(* crashes, any batch size and any limit of attempts.                      *)
(*                                                                         *)
(* The properties rest on what SKIP LOCKED guarantees between the SELECT   *)
(* of a batch and its commit: a row that a tick holds is still ready, and  *)
(* no other tick holds it (Held).                                          *)
(***************************************************************************)
EXTENDS Outbox, TLAPS

\* What the rows held by the open batches look like.
Held ==
    /\ \A w \in Worker :
        /\ tick[w].pc # "batch" => tick[w].held = {}
        /\ tick[w].todo \subseteq tick[w].held
        /\ tick[w].ok \subseteq tick[w].held \ tick[w].todo
        /\ \A e \in tick[w].held : row[e] = "ready"
        /\ \A e \in tick[w].ok : sent[e] > 0
    /\ \A v, w \in Worker : v # w => tick[v].held \cap tick[w].held = {}

\* A row that may still be sent has attempts left; one that is not committed
\* yet has made none.
AttemptsLeft ==
    \A e \in Event : row[e] \in {"none", "ready"} => attempts[e] < MaxAttempts

Inv == TypeOK /\ Held /\ AttemptsLeft /\ PublishedWasSent /\ DuplicatesHaveCause

USE EventsAreNumbered, LimitsArePositive

\* A step that leaves rows, attempts, messages and locks alone.
LEMMA QuietStep ==
    ASSUME Inv, UNCHANGED <<row, attempts, sent, tick, crashes>>,
           waiting' \subseteq Event
    PROVE  Inv'
BY DEF Inv, TypeOK, Held, AttemptsLeft, PublishedWasSent, DuplicatesHaveCause,
       InFlight

\* Inserting or purging a row that no tick holds.
LEMMA RowStep ==
    ASSUME Inv, NEW e \in Event, Publish(e) \/ Purge(e)
    PROVE  Inv'
<1>1. CASE Publish(e)
  BY <1>1 DEF Publish, Inv, TypeOK, RowState, Held, AttemptsLeft,
              PublishedWasSent, DuplicatesHaveCause, InFlight
<1>2. CASE Purge(e)
  BY <1>2 DEF Purge, Inv, TypeOK, RowState, Held, AttemptsLeft,
              PublishedWasSent, DuplicatesHaveCause, InFlight
<1> QED
  BY <1>1, <1>2

\* Starting a tick, or ending one that holds nothing.
LEMMA TickStep ==
    ASSUME Inv, NEW w \in Worker, StartTick(w) \/ EndTick(w)
    PROVE  Inv'
<1> USE DEF Inv
<1>1. PICK t \in Tick : /\ tick' = [tick EXCEPT ![w] = t]
                        /\ t.held = {} /\ t.todo = {} /\ t.ok = {}
                        /\ UNCHANGED <<row, attempts, waiting, sent, crashes>>
  <2>1. CASE StartTick(w)
    <3>1. Between("first", waiting) \in Tick
      BY DEF Between, TypeOK, Tick
    <3> QED
      BY <2>1, <3>1 DEF StartTick, Between
  <2>2. CASE EndTick(w)
    <3>1. Off \in Tick
      BY DEF Off, Between, Tick
    <3> QED
      BY <2>2, <3>1 DEF EndTick, Off, Between
  <2> QED
    BY <2>1, <2>2
<1>2. tick[w].held = {}
  BY DEF StartTick, EndTick, Off, Between, Held
<1>3. TypeOK'
  BY <1>1 DEF TypeOK
<1>4. Held'
  BY <1>1 DEF Held, TypeOK
<1>5. \A e \in Event : InFlight(e)' = InFlight(e)
  BY <1>1, <1>2 DEF InFlight, TypeOK
<1> QED
  BY <1>1, <1>3, <1>4, <1>5 DEF AttemptsLeft, PublishedWasSent,
                                DuplicatesHaveCause

\* SELECT ... FOR UPDATE SKIP LOCKED takes rows that nobody holds.
LEMMA SelectStep ==
    ASSUME Inv, NEW w \in Worker, SelectBatch(w)
    PROVE  Inv'
<1> USE DEF Inv
<1>1. PICK B \in SUBSET Event :
        /\ tick' = [tick EXCEPT ![w] = InBatch(w, B, B, {})]
        /\ \A e \in B : row[e] = "ready" /\ \A v \in Worker : e \notin tick[v].held
        /\ UNCHANGED <<row, attempts, waiting, sent, crashes>>
  <2>1. Oldest(Eligible(w)) \subseteq Eligible(w)
    BY DEF Oldest
  <2>2. \A e \in Eligible(w) :
          e \in Event /\ row[e] = "ready" /\ \A v \in Worker : e \notin tick[v].held
    BY DEF Eligible, Locked
  <2> QED
    BY <2>1, <2>2 DEF SelectBatch
<1>2. tick[w].held = {}
  BY DEF SelectBatch, Held
<1>3. TypeOK'
  BY <1>1 DEF TypeOK, InBatch, Tick
<1>4. Held'
  BY <1>1 DEF Held, TypeOK, InBatch
<1>5. \A e \in Event : InFlight(e)' = InFlight(e)
  BY <1>1, <1>2 DEF InFlight, TypeOK, InBatch
<1> QED
  BY <1>1, <1>3, <1>4, <1>5 DEF AttemptsLeft, PublishedWasSent,
                                DuplicatesHaveCause

\* One publish: at most one more message, for a row that is now in flight.
LEMMA PublishStep ==
    ASSUME Inv, NEW w \in Worker, NEW e \in Event,
           PublishSucceeds(w, e) \/ PublishRaises(w, e)
    PROVE  Inv'
<1> USE DEF Inv
<1>1. PICK n \in {0, 1}, ok \in {tick[w].ok, tick[w].ok \cup {e}} :
        /\ sent' = [sent EXCEPT ![e] = @ + n]
        /\ ok # tick[w].ok => n = 1
        /\ tick' = [tick EXCEPT ![w] =
                        InBatch(w, tick[w].held, tick[w].todo \ {e}, ok)]
        /\ UNCHANGED <<row, attempts, waiting, crashes>>
  <2>1. CASE PublishSucceeds(w, e)
    BY <2>1 DEF PublishSucceeds, TypeOK
  <2>2. CASE PublishRaises(w, e)
    BY <2>2 DEF PublishRaises, TypeOK
  <2> QED
    BY <2>1, <2>2
<1>2. e \in tick[w].todo /\ e \in tick[w].held /\ tick[w].pc = "batch"
  BY DEF PublishSucceeds, PublishRaises, IsNext, Held
<1>3. TypeOK'
  <2>1. tick[w] \in Tick
    BY DEF TypeOK
  <2>2. InBatch(w, tick[w].held, tick[w].todo \ {e}, ok) \in Tick
    BY <1>1, <2>1 DEF InBatch, Tick
  <2> QED
    BY <1>1, <2>2 DEF TypeOK
<1>4. Held'
  <2>1. \A d \in Event : sent[d] \in Nat /\ sent'[d] >= sent[d]
    BY <1>1 DEF TypeOK
  <2>2. \A d \in ok : sent'[d] > 0
    BY <1>1, <2>1 DEF Held, TypeOK, Tick
  <2>3. \A v \in Worker : \A d \in tick[v].ok : d \in Event
    BY DEF TypeOK, Tick
  <2> QED
    BY <1>1, <1>2, <2>1, <2>2, <2>3 DEF Held, TypeOK, InBatch
<1>5. InFlight(e) = 0 /\ InFlight(e)' = 1
  BY <1>1, <1>2 DEF InFlight, TypeOK, InBatch, Held
<1>6. \A d \in Event \ {e} : InFlight(d)' = InFlight(d)
  BY <1>1 DEF InFlight, TypeOK, InBatch
<1>7. DuplicatesHaveCause'
  <2> SUFFICES ASSUME NEW d \in Event
               PROVE  sent'[d] <= attempts'[d] + InFlight(d)' + crashes'
    BY DEF DuplicatesHaveCause
  <2>1. /\ sent[d] <= attempts[d] + InFlight(d) + crashes
        /\ sent[d] \in Nat /\ attempts[d] \in Nat /\ crashes \in Nat
    BY DEF DuplicatesHaveCause, TypeOK
  <2>2. sent'[d] = IF d = e THEN sent[d] + n ELSE sent[d]
    BY <1>1 DEF TypeOK
  <2>3. InFlight(d) \in {0, 1} /\ InFlight(d)' \in {0, 1}
    BY DEF InFlight
  <2>4. CASE d = e
    BY <1>1, <1>5, <2>1, <2>2, <2>4
  <2>5. CASE d # e
    BY <1>1, <1>6, <2>1, <2>2, <2>3, <2>5
  <2> QED
    BY <2>4, <2>5
<1>8. PublishedWasSent' /\ AttemptsLeft'
  BY <1>1 DEF PublishedWasSent, AttemptsLeft, TypeOK
<1> QED
  BY <1>3, <1>4, <1>7, <1>8

\* The commit of a batch records every attempt in flight.
LEMMA CommitStep ==
    ASSUME Inv, NEW w \in Worker, CommitBatch(w)
    PROVE  Inv'
<1> USE DEF Inv
<1> DEFINE held == tick[w].held
           failed == held \ tick[w].ok
<1>1. /\ tick[w].todo = {} /\ held \subseteq Event /\ tick[w].ok \subseteq held
      /\ \A e \in held : row[e] = "ready" /\ attempts[e] < MaxAttempts
  BY DEF CommitBatch, TypeOK, Tick, Held, AttemptsLeft
<1>0. PICK over \in SUBSET failed :
        /\ waiting' = waiting \cup (failed \ over)
        /\ tick' = [v \in Worker |->
                IF v = w THEN Between("again", tick[w].late \cup failed)
                ELSE [tick[v] EXCEPT !.late =
                        IF tick[v].pc = "off" THEN @ ELSE @ \cup (failed \ over)]]
  BY DEF CommitBatch
<1>2. /\ UNCHANGED <<sent, crashes>>
      /\ waiting' = waiting \cup (failed \ over)
      /\ attempts' = [e \in Event |->
                        IF e \in held THEN attempts[e] + 1 ELSE attempts[e]]
  BY <1>0 DEF CommitBatch
<1>3. /\ row' \in [Event -> RowState]
      /\ \A e \in Event \ held : row'[e] = row[e]
      /\ \A e \in tick[w].ok : row'[e] = "published"
      /\ \A e \in failed :
            /\ row'[e] \in {"ready", "dead_lettered"}
            /\ row'[e] = "ready" => attempts[e] + 1 < MaxAttempts
  <2>1. row' = [e \in Event |->
                CASE e \in tick[w].ok -> "published"
                  [] e \in failed /\ Exhausted(e) -> "dead_lettered"
                  [] OTHER -> row[e]]
    BY DEF CommitBatch
  <2>2. \A e \in Event : row[e] \in RowState /\ attempts[e] \in Nat
    BY DEF TypeOK
  <2>3. row' \in [Event -> RowState]
    BY <2>1, <2>2 DEF RowState
  <2>4. \A e \in Event : ~ Exhausted(e) => attempts[e] + 1 < MaxAttempts
    BY <2>2 DEF Exhausted
  <2> QED
    BY <1>1, <2>1, <2>3, <2>4
<1>4. /\ tick' \in [Worker -> Tick]
      /\ tick'[w].held = {} /\ tick'[w].todo = {} /\ tick'[w].ok = {}
      /\ \A v \in Worker \ {w} :
            /\ tick'[v].pc = tick[v].pc /\ tick'[v].held = tick[v].held
            /\ tick'[v].todo = tick[v].todo /\ tick'[v].ok = tick[v].ok
  <2> DEFINE after(v) ==
        IF v = w THEN Between("again", tick[w].late \cup failed)
        ELSE [tick[v] EXCEPT !.late =
                IF tick[v].pc = "off" THEN @ ELSE @ \cup (failed \ over)]
  <2>1. tick' = [v \in Worker |-> after(v)]
    BY <1>0
  <2>2. \A v \in Worker : tick[v] \in Tick
    BY DEF TypeOK
  <2>3. after(w) = [pc |-> "again", late |-> tick[w].late \cup failed,
                    held |-> {}, todo |-> {}, ok |-> {}]
    BY DEF Between
  <2>4. after(w) \in Tick
    <3>1. tick[w].late \cup failed \subseteq Event
      BY <1>1, <2>2 DEF Tick
    <3> HIDE DEF after, failed
    <3> QED
      BY <2>3, <3>1 DEF Tick
  <2>5. \A v \in Worker \ {w} :
          /\ after(v) \in Tick
          /\ after(v).pc = tick[v].pc /\ after(v).held = tick[v].held
          /\ after(v).todo = tick[v].todo /\ after(v).ok = tick[v].ok
    BY <1>1, <2>2 DEF Tick
  <2> HIDE DEF after
  <2>6. \A v \in Worker : after(v) \in Tick
    BY <2>4, <2>5
  <2>7. tick' \in [Worker -> Tick] /\ \A v \in Worker : tick'[v] = after(v)
    BY <2>1, <2>6
  <2> QED
    BY <2>3, <2>5, <2>7
<1>5. \A v \in Worker \ {w} : tick[v].held \cap held = {}
  BY DEF Held
<1>6. \A e \in Event : e \in held => InFlight(e) = 1
  BY <1>1 DEF InFlight
<1>7. \A e \in Event : e \notin held => InFlight(e)' = InFlight(e)
  BY <1>4 DEF InFlight
<1>8. TypeOK'
  <2>1. \A e \in Event : attempts[e] \in 0 .. MaxAttempts
    BY DEF TypeOK
  <2>2. attempts' \in [Event -> 0 .. MaxAttempts]
    BY <1>1, <1>2, <2>1
  <2> QED
    BY <1>1, <1>2, <1>3, <1>4, <2>2 DEF TypeOK
<1>9. Held'
  <2>1. \A v \in Worker : tick[v].held \subseteq Event
    BY DEF TypeOK, Tick
  <2>2. ASSUME NEW v \in Worker
        PROVE  /\ tick'[v].pc # "batch" => tick'[v].held = {}
               /\ tick'[v].todo \subseteq tick'[v].held
               /\ tick'[v].ok \subseteq tick'[v].held \ tick'[v].todo
               /\ \A e \in tick'[v].held : row'[e] = "ready"
               /\ \A e \in tick'[v].ok : sent'[e] > 0
    <3>1. CASE v = w
      BY <1>4, <3>1
    <3>2. CASE v # w
      <4>1. \A e \in tick[v].held : row'[e] = row[e]
        BY <1>3, <1>5, <2>1, <3>2
      <4>2. sent' = sent
        BY <1>2
      <4> QED
        BY <1>4, <3>2, <4>1, <4>2 DEF Held
    <3> QED
      BY <3>1, <3>2
  <2>3. \A u, v \in Worker : u # v => tick'[u].held \cap tick'[v].held = {}
    BY <1>4 DEF Held
  <2> QED
    BY <2>2, <2>3 DEF Held
<1>10. AttemptsLeft'
  <2>1. \A e \in held : e \in tick[w].ok \/ e \in failed
    OBVIOUS
  <2> QED
    BY <1>1, <1>2, <1>3, <2>1 DEF AttemptsLeft
<1>11. PublishedWasSent'
  <2>1. \A e \in tick[w].ok : sent[e] > 0
    BY DEF Held
  <2>2. \A e \in held : e \in tick[w].ok \/ e \in failed
    OBVIOUS
  <2> QED
    BY <1>2, <1>3, <2>1, <2>2 DEF PublishedWasSent
<1>12. DuplicatesHaveCause'
  <2> SUFFICES ASSUME NEW e \in Event
               PROVE  sent'[e] <= attempts'[e] + InFlight(e)' + crashes'
    BY DEF DuplicatesHaveCause
  <2>1. /\ sent[e] <= attempts[e] + InFlight(e) + crashes
        /\ sent[e] \in Nat /\ attempts[e] \in Nat /\ crashes \in Nat
    BY DEF DuplicatesHaveCause, TypeOK
  <2>2. InFlight(e)' \in {0, 1}
    BY DEF InFlight
  <2>3. CASE e \in held
    BY <1>2, <1>6, <2>1, <2>2, <2>3
  <2>4. CASE e \notin held
    BY <1>2, <1>7, <2>1, <2>2, <2>4
  <2> QED
    BY <2>3, <2>4
<1> QED
  BY <1>8, <1>9, <1>10, <1>11, <1>12

\* A crash turns an attempt in flight into one that only `crashes` records.
LEMMA CrashStep ==
    ASSUME Inv, NEW w \in Worker, Crash(w)
    PROVE  Inv'
<1> USE DEF Inv
<1>1. /\ tick' = [tick EXCEPT ![w] = Off] /\ crashes' = crashes + 1
      /\ crashes < MaxCrashes
      /\ UNCHANGED <<row, attempts, waiting, sent>>
  BY DEF Crash
<1>2. TypeOK'
  BY <1>1 DEF TypeOK, Off, Between, Tick
<1>3. Held'
  BY <1>1 DEF Held, TypeOK, Off, Between
<1>4. DuplicatesHaveCause'
  <2> SUFFICES ASSUME NEW e \in Event
               PROVE  sent'[e] <= attempts'[e] + InFlight(e)' + crashes'
    BY DEF DuplicatesHaveCause
  <2>1. /\ sent[e] <= attempts[e] + InFlight(e) + crashes
        /\ sent[e] \in Nat /\ attempts[e] \in Nat /\ crashes \in Nat
    BY DEF DuplicatesHaveCause, TypeOK
  <2>2. InFlight(e)' \in {0, 1} /\ InFlight(e) \in {0, 1}
    BY DEF InFlight
  <2> QED
    BY <1>1, <2>1, <2>2
<1> QED
  BY <1>1, <1>2, <1>3, <1>4 DEF AttemptsLeft, PublishedWasSent

\* Every step of the specification keeps the invariant.
LEMMA InvStep == Inv /\ [Next]_vars => Inv'
<1> SUFFICES ASSUME Inv, [Next]_vars PROVE Inv'
  OBVIOUS
<1>1. CASE \E e \in Event : Publish(e) \/ Purge(e)
  BY <1>1, RowStep
<1>2. CASE \E e \in Event : BackoffEnds(e)
  BY <1>2, QuietStep DEF BackoffEnds, Inv, TypeOK
<1>3. CASE \E w \in Worker : StartTick(w) \/ EndTick(w)
  BY <1>3, TickStep
<1>4. CASE \E w \in Worker : SelectBatch(w)
  BY <1>4, SelectStep
<1>5. CASE \E w \in Worker, e \in Event :
            PublishSucceeds(w, e) \/ PublishRaises(w, e)
  BY <1>5, PublishStep
<1>6. CASE \E w \in Worker : CommitBatch(w)
  BY <1>6, CommitStep
<1>7. CASE \E w \in Worker : Crash(w)
  BY <1>7, CrashStep
<1>8. CASE UNCHANGED vars
  BY <1>8, QuietStep DEF vars, Inv, TypeOK
<1> QED
  BY <1>1, <1>2, <1>3, <1>4, <1>5, <1>6, <1>7, <1>8 DEF Next, Work

(***************************************************************************)
(* The inductive invariant: rows held by open batches are ready and held   *)
(* once, and the messages sent are accounted for.                          *)
(***************************************************************************)
THEOREM OutboxInvariance == Spec => []Inv
<1>1. Init => Inv
  BY DEF Init, Inv, TypeOK, RowState, Off, Between, Tick, Held, AttemptsLeft,
         PublishedWasSent, DuplicatesHaveCause, InFlight
<1> QED
  BY <1>1, InvStep, PTL DEF Spec

(***************************************************************************)
(* Type correctness; in particular no row is attempted more than           *)
(* _MAX_ATTEMPTS times on record.                                          *)
(***************************************************************************)
THEOREM OutboxTypeCorrect == Spec => []TypeOK
BY OutboxInvariance, PTL DEF Inv

(***************************************************************************)
(* At-least-once: published_at is only ever committed for a message that   *)
(* the broker accepted.                                                    *)
(***************************************************************************)
THEOREM AtLeastOnce == Spec => []PublishedWasSent
BY OutboxInvariance, PTL DEF Inv

(***************************************************************************)
(* Duplicates come from failed attempts and dead ticks only, never from    *)
(* ticks that overlap.                                                     *)
(***************************************************************************)
THEOREM DuplicatesCorrect == Spec => []DuplicatesHaveCause
BY OutboxInvariance, PTL DEF Inv

(***************************************************************************)
(* A dead-lettered row is neither sent nor changed again: a tick only      *)
(* sends and updates rows it holds, and those are ready.                   *)
(***************************************************************************)
THEOREM DeadLettersCorrect == Spec => DeadLettersRest
<1> DEFINE Rest == \A e \in Event :
        row[e] = "dead_lettered" =>
            sent'[e] = sent[e] /\ row'[e] = "dead_lettered"
<1>1. Inv /\ [Next]_vars => Rest
  <2> SUFFICES ASSUME Inv, [Next]_vars, NEW e \in Event,
                      row[e] = "dead_lettered"
               PROVE  sent'[e] = sent[e] /\ row'[e] = "dead_lettered"
    OBVIOUS
  <2> USE DEF Inv, TypeOK
  <2>1. \A w \in Worker : e \notin tick[w].held /\ e \notin tick[w].todo
                            /\ e \notin tick[w].ok
    BY DEF Held
  <2>2. CASE \E d \in Event : Publish(d) \/ BackoffEnds(d) \/ Purge(d)
    BY <2>2 DEF Publish, BackoffEnds, Purge
  <2>3. CASE \E w \in Worker : StartTick(w) \/ Crash(w) \/ SelectBatch(w)
                                 \/ EndTick(w)
    BY <2>3 DEF StartTick, Crash, SelectBatch, EndTick
  <2>4. CASE \E w \in Worker, d \in Event :
              PublishSucceeds(w, d) \/ PublishRaises(w, d)
    BY <2>1, <2>4 DEF PublishSucceeds, PublishRaises, IsNext
  <2>5. CASE \E w \in Worker : CommitBatch(w)
    BY <2>1, <2>5 DEF CommitBatch
  <2>6. CASE UNCHANGED vars
    BY <2>6 DEF vars
  <2> QED
    BY <2>2, <2>3, <2>4, <2>5, <2>6 DEF Next, Work
<1> QED
  BY <1>1, OutboxInvariance, PTL DEF Spec, DeadLettersRest
=============================================================================
