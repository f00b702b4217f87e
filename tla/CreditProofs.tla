---------------------------- MODULE CreditProofs ----------------------------
(***************************************************************************)
(* Proofs about two parts of the credit module that share nothing but the  *)
(* loans: its event consumer (EventConsumer) and, in the last section, the *)
(* way from an application to a loan (LoanOrigination).                    *)
(*                                                                         *)
(* The consumer, for any number of events, loans and overlapping runs:     *)
(* what a loan row holds is the effect of exactly the events marked        *)
(* processed.                                                              *)
(*                                                                         *)
(* The committed row says nothing about a run that is half way through its *)
(* batch.  The invariant therefore gives every run a view of its own: each *)
(* loan row it has locked agrees with the processed events and the ones it *)
(* has handled (Sound).  A commit makes that view the committed one, and   *)
(* it leaves the views of the others alone because two runs never hold the *)
(* same loan or the same event (Apart).                                    *)
(***************************************************************************)
EXTENDS EventConsumer, LoanOrigination, Sums, TLAPS

\* The total of the events in S of one kind about loan l, when the payloads
\* are given by A.
TotalOf(A, kind, l, S) ==
    SumFunctionOnSet([e \in DOMAIN A |-> A[e].amount],
                     {e \in S : A[e].kind = kind /\ A[e].loan = l})

\* The row v of loan l is what the events of S make of it.
Agrees(A, v, l, S) ==
    /\ v.paid = TotalOf(A, "FeeCollectionCreated", l, S)
    /\ v.accrued >= TotalOf(A, "FeeAssessmentCreated", l, S)
                      - TotalOf(A, "FeeCollectionCreated", l, S)
    /\ v.accrued <= TotalOf(A, "FeeAssessmentCreated", l, S)

\* What is known of a run r.
Sound(r, A, done) ==
    /\ r.todo \subseteq DOMAIN A
    /\ r.done \subseteq DOMAIN A
    /\ IsFiniteSet(r.done)
    /\ r.done \cap done = {}
    /\ r.done \cap r.todo = {}
    /\ \A e \in r.done : IsAboutLoan(A[e]) => A[e].loan \in r.locked
    /\ \A l \in r.locked : Agrees(A, r.mine[l], l, done \cup r.done)

Apart ==
    \A c, o \in Run : c # o =>
        /\ run[c].done \cap run[o].done = {}
        /\ run[c].locked \cap run[o].locked = {}

Inv ==
    /\ TypeOK
    /\ IsFiniteSet(processed)
    /\ \A c \in Run : Sound(run[c], about, processed)
    /\ Apart
    /\ \A l \in Loan : Agrees(about, loan[l], l, processed)

-----------------------------------------------------------------------------
LEMMA MaxOfTwo ==
    ASSUME NEW a \in Int, NEW b \in Int
    PROVE  Max({a, b}) = IF a >= b THEN a ELSE b
<1>1. \E x \in {a, b} : \A y \in {a, b} : x >= y
  OBVIOUS
<1>2. /\ Max({a, b}) \in {a, b}
      /\ \A y \in {a, b} : Max({a, b}) >= y
  BY <1>1 DEF Max
<1> QED
  BY <1>2

LEMMA AmountType ==
    ASSUME NEW p \in Payload
    PROVE  p.amount \in Nat /\ p.amount \in Int
<1>1. p.amount \in Amount
  BY DEF Payload
<1>2. p.amount \in Nat
  BY <1>1, AmountsAreNatural
<1> QED
  BY <1>2

\* The payloads of a set of events.
Payloads(A, S) == S \subseteq DOMAIN A /\ \A e \in S : A[e] \in Payload

\* Totals are natural numbers; one more event adds its amount to the total of
\* its kind and loan.
LEMMA TotalOfType ==
    ASSUME NEW A, NEW kind, NEW l, NEW S, IsFiniteSet(S), Payloads(A, S)
    PROVE  TotalOf(A, kind, l, S) \in Nat
<1> DEFINE f == [e \in DOMAIN A |-> A[e].amount]
           T == {e \in S : A[e].kind = kind /\ A[e].loan = l}
<1>1. IsFiniteSet(T)
  BY FS_Subset
<1>2. \A e \in T : f[e] \in Nat
  BY AmountType DEF Payloads
<1> HIDE DEF f, T
<1>3. SumFunctionOnSet(f, T) \in Nat
  BY <1>1, <1>2, SumNat
<1> QED
  BY <1>3 DEF TotalOf, f, T

LEMMA TotalOfAdd ==
    ASSUME NEW A, NEW kind, NEW l, NEW S, IsFiniteSet(S), Payloads(A, S),
           NEW e \in DOMAIN A, A[e] \in Payload, e \notin S
    PROVE  TotalOf(A, kind, l, S \cup {e}) = TotalOf(A, kind, l, S)
             + (IF A[e].kind = kind /\ A[e].loan = l THEN A[e].amount ELSE 0)
<1> DEFINE f == [d \in DOMAIN A |-> A[d].amount]
           T == {d \in S : A[d].kind = kind /\ A[d].loan = l}
           U == {d \in S \cup {e} : A[d].kind = kind /\ A[d].loan = l}
<1>1. IsFiniteSet(T) /\ e \notin T
  BY FS_Subset
<1>2. /\ \A d \in T : f[d] \in Int
      /\ f[e] = A[e].amount /\ A[e].amount \in Nat
  BY AmountType DEF Payloads
<1>3. U = IF A[e].kind = kind /\ A[e].loan = l THEN T \cup {e} ELSE T
  OBVIOUS
<1>4. /\ TotalOf(A, kind, l, S) = SumFunctionOnSet(f, T)
      /\ TotalOf(A, kind, l, S \cup {e}) = SumFunctionOnSet(f, U)
  BY DEF TotalOf
<1>5. TotalOf(A, kind, l, S) \in Nat
  BY TotalOfType
<1> HIDE DEF f, T, U
<1>6. Numeric(f, T)
  BY <1>2 DEF Numeric
<1>7. SumFunctionOnSet(f, T \cup {e}) = SumFunctionOnSet(f, T) + f[e]
  BY <1>1, <1>2, <1>6, SumAdd
<1> QED
  BY <1>2, <1>3, <1>4, <1>5, <1>7

\* New events leave the totals of the old ones alone.
LEMMA TotalOfKept ==
    ASSUME NEW A, NEW B, NEW kind, NEW l, NEW S, IsFiniteSet(S),
           Payloads(A, S), S \subseteq DOMAIN B, \A e \in S : A[e] = B[e]
    PROVE  TotalOf(A, kind, l, S) = TotalOf(B, kind, l, S)
<1> DEFINE f == [e \in DOMAIN A |-> A[e].amount]
           g == [e \in DOMAIN B |-> B[e].amount]
           T == {e \in S : A[e].kind = kind /\ A[e].loan = l}
<1>1. T = {e \in S : B[e].kind = kind /\ B[e].loan = l}
  OBVIOUS
<1>2. IsFiniteSet(T)
  BY FS_Subset
<1>3. \A e \in T : f[e] \in Int /\ f[e] = g[e]
  BY AmountType DEF Payloads
<1>4. /\ TotalOf(A, kind, l, S) = SumFunctionOnSet(f, T)
      /\ TotalOf(B, kind, l, S) = SumFunctionOnSet(g, T)
  BY <1>1 DEF TotalOf
<1> HIDE DEF f, g, T
<1>5. Numeric(f, T)
  BY <1>3 DEF Numeric
<1> QED
  BY <1>2, <1>3, <1>4, <1>5, SumSame

\* Events that are not fees of the loan do not count.
LEMMA AgreesWithout ==
    ASSUME NEW A, NEW v, NEW l, NEW S, NEW T,
           \A e \in T : IsAboutLoan(A[e]) => A[e].loan # l
    PROVE  Agrees(A, v, l, S \cup T) <=> Agrees(A, v, l, S)
<1>1. ASSUME NEW kind \in {"FeeAssessmentCreated", "FeeCollectionCreated"}
      PROVE  TotalOf(A, kind, l, S \cup T) = TotalOf(A, kind, l, S)
  <2>1. {e \in S \cup T : A[e].kind = kind /\ A[e].loan = l}
          = {e \in S : A[e].kind = kind /\ A[e].loan = l}
    BY DEF IsAboutLoan
  <2> QED
    BY <2>1 DEF TotalOf
<1> QED
  BY <1>1 DEF Agrees

LEMMA AgreesKept ==
    ASSUME NEW A, NEW B, NEW v, NEW l, NEW S, IsFiniteSet(S),
           Payloads(A, S), S \subseteq DOMAIN B, \A e \in S : A[e] = B[e],
           Agrees(A, v, l, S)
    PROVE  Agrees(B, v, l, S)
BY TotalOfKept DEF Agrees

\* Between what is assessed less what is collected and what is assessed: an
\* assessment, and a collection with its floor at zero, keep a debt there.
LEMMA DebtStaysBetween ==
    ASSUME NEW x \in Nat, NEW a \in Nat, NEW c \in Nat, NEW m \in Nat,
           x >= a - c, x <= a
    PROVE  /\ x + m >= (a + m) - c /\ x + m <= a + m
           /\ LET y == IF x - m >= 0 THEN x - m ELSE 0
              IN  y >= a - (c + m) /\ y <= a
OBVIOUS

\* The handler's UPDATE: a row that agrees with S agrees with S and the event
\* handled.  The floor at zero keeps the debt at most what was assessed and
\* at least what is left of it.
LEMMA PenaliseAgrees ==
    ASSUME NEW A, NEW S, IsFiniteSet(S), Payloads(A, S),
           NEW e \in DOMAIN A, A[e] \in Payload, e \notin S, IsAboutLoan(A[e]),
           NEW v \in Penalties, Agrees(A, v, A[e].loan, S)
    PROVE  /\ Penalise(A[e], v) \in Penalties
           /\ Agrees(A, Penalise(A[e], v), A[e].loan, S \cup {e})
<1> DEFINE p == A[e]
           l == A[e].loan
           m == p.amount
           a == TotalOf(A, "FeeAssessmentCreated", l, S)
           c == TotalOf(A, "FeeCollectionCreated", l, S)
           a1 == TotalOf(A, "FeeAssessmentCreated", l, S \cup {e})
           c1 == TotalOf(A, "FeeCollectionCreated", l, S \cup {e})
           w == Penalise(p, v)
<1>1. a \in Nat /\ c \in Nat
  BY TotalOfType
<1>2. /\ a1 = a + (IF p.kind = "FeeAssessmentCreated" THEN m ELSE 0)
      /\ c1 = c + (IF p.kind = "FeeCollectionCreated" THEN m ELSE 0)
  BY TotalOfAdd
<1>3. m \in Nat /\ v.accrued \in Nat /\ v.paid \in Nat
  BY AmountType DEF Penalties
<1>4. v.paid = c /\ v.accrued >= a - c /\ v.accrued <= a
  BY DEF Agrees
<1>5. CASE p.kind = "FeeAssessmentCreated"
  <2>1. w = [v EXCEPT !.accrued = v.accrued + m]
    BY <1>5 DEF Penalise
  <2>2. w \in Penalties /\ w.accrued = v.accrued + m /\ w.paid = v.paid
    BY <1>3, <2>1 DEF Penalties
  <2>3. a1 = a + m /\ c1 = c
    BY <1>1, <1>2, <1>5
  <2>4. v.accrued + m >= (a + m) - c /\ v.accrued + m <= a + m
    BY <1>1, <1>3, <1>4, DebtStaysBetween
  <2>5. w.paid = c1 /\ w.accrued >= a1 - c1 /\ w.accrued <= a1
    BY <1>4, <2>2, <2>3, <2>4
  <2> HIDE DEF w
  <2> QED
    BY <2>2, <2>5 DEF Agrees, w
<1>6. CASE p.kind = "FeeCollectionCreated"
  <2> DEFINE d == Max({v.accrued - m, 0})
  <2>1. d \in Nat /\ d = IF v.accrued - m >= 0 THEN v.accrued - m ELSE 0
    BY <1>3, MaxOfTwo
  <2>2. w = [v EXCEPT !.accrued = d, !.paid = v.paid + m]
    BY <1>6 DEF Penalise
  <2> HIDE DEF d
  <2>3. v.paid + m \in Nat
    BY <1>3
  <2>4. w \in Penalties /\ w.accrued = d /\ w.paid = v.paid + m
    BY <2>1, <2>2, <2>3 DEF Penalties
  <2>5. a1 = a /\ c1 = c + m
    BY <1>1, <1>2, <1>6
  <2>6. d >= a - (c + m) /\ d <= a
    BY <1>1, <1>3, <1>4, <2>1, DebtStaysBetween
  <2>7. w.paid = c1 /\ w.accrued >= a1 - c1 /\ w.accrued <= a1
    BY <1>4, <2>4, <2>5, <2>6
  <2> HIDE DEF w
  <2> QED
    BY <2>4, <2>7 DEF Agrees, w
<1> QED
  BY <1>5, <1>6 DEF IsAboutLoan
-----------------------------------------------------------------------------
\* What the invariant says of the events of a run.
LEMMA RunHolds ==
    ASSUME Inv, NEW c \in Run
    PROVE  /\ run[c] \in Polling
           /\ Sound(run[c], about, processed)
           /\ IsFiniteSet(processed \cup run[c].done)
           /\ Payloads(about, processed \cup run[c].done)
           /\ Payloads(about, run[c].todo)
           /\ Payloads(about, processed)
<1>1. run[c] \in Polling /\ Sound(run[c], about, processed)
  BY DEF Inv, TypeOK
<1>2. IsFiniteSet(processed \cup run[c].done)
  BY <1>1, FS_Union DEF Inv, Sound
<1>3. \A e \in DOMAIN about : about[e] \in Payload
  BY DEF Inv, TypeOK
<1>4. /\ processed \cup run[c].done \subseteq DOMAIN about
      /\ run[c].todo \subseteq DOMAIN about
  BY <1>1 DEF Inv, TypeOK, Sound
<1> QED
  BY <1>1, <1>2, <1>3, <1>4 DEF Payloads

\* Every row, locked or not, agrees with what the run can see of the events.
LEMMA ViewAgrees ==
    ASSUME Inv, NEW c \in Run, NEW l \in Loan
    PROVE  /\ Visible(c, l) \in Penalties
           /\ Agrees(about, Visible(c, l), l, processed \cup run[c].done)
<1>1. Sound(run[c], about, processed) /\ run[c] \in Polling
  BY RunHolds
<1>2. CASE l \in run[c].locked
  BY <1>1, <1>2 DEF Visible, Sound, Polling
<1>3. CASE l \notin run[c].locked
  <2>1. \A e \in run[c].done : IsAboutLoan(about[e]) => about[e].loan # l
    BY <1>1, <1>3 DEF Sound
  <2>2. Agrees(about, loan[l], l, processed) /\ loan[l] \in Penalties
    BY DEF Inv, TypeOK
  <2> QED
    BY <1>3, <2>1, <2>2, AgreesWithout DEF Visible
<1> QED
  BY <1>2, <1>3

\* A step of one run that commits nothing.
LEMMA RunStep ==
    ASSUME Inv, NEW c \in Run, NEW r \in Polling, Sound(r, about, processed),
           \A o \in Run \ {c} : /\ r.done \cap run[o].done = {}
                                /\ r.locked \cap run[o].locked = {},
           run' = [run EXCEPT ![c] = r], UNCHANGED <<about, processed, loan>>,
           faults' \in 0 .. MaxFaults
    PROVE  Inv'
<1>1. TypeOK'
  BY DEF Inv, TypeOK
<1>2. \A o \in Run : run'[o] = IF o = c THEN r ELSE run[o]
  BY DEF Inv, TypeOK
<1>3. \A o \in Run : Sound(run'[o], about, processed)
  BY <1>2 DEF Inv
<1>4. Apart'
  BY <1>2 DEF Inv, Apart
<1> QED
  BY <1>1, <1>3, <1>4 DEF Inv

LEMMA OffIsSound == Off \in Polling /\ Sound(Off, about, processed)
BY FS_EmptySet DEF Off, Polling, NoPenalties, Penalties, Sound

\* The run gives up, dies or has not started: it holds nothing.
LEMMA OffStep ==
    ASSUME Inv, NEW c \in Run, run' = [run EXCEPT ![c] = Off],
           UNCHANGED <<about, processed, loan>>, faults' \in 0 .. MaxFaults
    PROVE  Inv'
<1>1. Off.done = {} /\ Off.locked = {}
  BY DEF Off
<1>2. \A o \in Run \ {c} : /\ Off.done \cap run[o].done = {}
                           /\ Off.locked \cap run[o].locked = {}
  BY <1>1
<1> HIDE DEF Off
<1> QED
  BY <1>2, OffIsSound, RunStep

LEMMA FetchStep ==
    ASSUME Inv, NEW c \in Run, Fetch(c)
    PROVE  Inv'
<1> DEFINE found == Oldest(DOMAIN about \ processed)
           r == [Off EXCEPT !.pc = "check", !.todo = found]
<1>1. found \subseteq DOMAIN about /\ found \subseteq Event
  BY DEF Oldest, Inv, TypeOK
<1>2. run' = [run EXCEPT ![c] = r] /\ UNCHANGED <<about, processed, loan, faults>>
  BY DEF Fetch
<1> HIDE DEF found
<1>3. Off \in Polling /\ Off.done = {} /\ Off.locked = {}
  BY OffIsSound DEF Off
<1>4. r \in Polling /\ r.done = {} /\ r.locked = {} /\ r.todo = found
  BY <1>1, <1>3 DEF Polling
<1> HIDE DEF r
<1>5. Sound(r, about, processed)
  BY <1>1, <1>4, FS_EmptySet DEF Sound
<1>6. faults' \in 0 .. MaxFaults
  BY <1>2 DEF Inv, TypeOK
<1>7. \A o \in Run \ {c} : /\ r.done \cap run[o].done = {}
                           /\ r.locked \cap run[o].locked = {}
  BY <1>4
<1> QED
  BY <1>2, <1>4, <1>5, <1>6, <1>7, RunStep

\* Setting the program counter, and dropping an event from the batch, change
\* nothing the run holds.
LEMMA MoveStep ==
    ASSUME Inv, NEW c \in Run, NEW pc \in {"check", "apply"},
           NEW T \in SUBSET run[c].todo,
           run' = [run EXCEPT ![c] = [run[c] EXCEPT !.pc = pc, !.todo = T]],
           UNCHANGED <<about, processed, loan>>, faults' \in 0 .. MaxFaults
    PROVE  Inv'
<1> DEFINE r == [run[c] EXCEPT !.pc = pc, !.todo = T]
<1>1. run[c] \in Polling /\ Sound(run[c], about, processed)
  BY RunHolds
<1>2. /\ r \in Polling /\ r.todo = T
      /\ r.done = run[c].done /\ r.locked = run[c].locked /\ r.mine = run[c].mine
  BY <1>1 DEF Polling
<1> HIDE DEF r
<1>3. Sound(r, about, processed)
  BY <1>1, <1>2 DEF Sound
<1>4. \A o \in Run \ {c} : /\ r.done \cap run[o].done = {}
                           /\ r.locked \cap run[o].locked = {}
  BY <1>2 DEF Inv, Apart
<1>5. run' = [run EXCEPT ![c] = r]
  BY DEF r
<1> QED
  BY <1>2, <1>3, <1>4, <1>5, RunStep

LEMMA SkipStep ==
    ASSUME Inv, NEW c \in Run, NEW e, Skip(c, e),
           UNCHANGED <<about, processed, loan>>, faults' \in 0 .. MaxFaults
    PROVE  Inv'
<1> DEFINE T == run[c].todo \ {e}
<1>1. run' = [run EXCEPT ![c] = [run[c] EXCEPT !.pc = "check", !.todo = T]]
  BY DEF Skip
<1>2. T \in SUBSET run[c].todo
  OBVIOUS
<1> HIDE DEF T
<1> QED
  BY <1>1, <1>2, MoveStep

\* The handler and its INSERT: the run gains an event nobody else has, and
\* a loan row nobody else has locked.
LEMMA HandledStep ==
    ASSUME Inv, NEW c \in Run, NEW e, AtHandler(c, e), e \notin processed,
           \A o \in Run : ~ Blocks(o, c, e), Handled(c, e),
           UNCHANGED <<about, processed, loan, faults>>
    PROVE  Inv'
<1> DEFINE p == about[e]
           u == Updated(c, p)
           r == [u EXCEPT !.pc = "check", !.todo = @ \ {e}, !.done = @ \cup {e}]
           S == processed \cup run[c].done
<1>1. /\ run[c] \in Polling /\ Sound(run[c], about, processed)
      /\ IsFiniteSet(S) /\ Payloads(about, S) /\ Payloads(about, run[c].todo)
  BY RunHolds
<1>2. e \in run[c].todo
  BY DEF AtHandler, IsNext
<1>3. e \in DOMAIN about /\ p \in Payload /\ e \in Event
  BY <1>1, <1>2 DEF Payloads, Polling
<1>4. e \notin S
  BY <1>1, <1>2 DEF Sound
<1>5. /\ u.todo = run[c].todo /\ u.done = run[c].done /\ u \in Polling
      /\ run[c].locked \subseteq u.locked
      /\ IsAboutLoan(p) => u.locked = run[c].locked \cup {p.loan}
      /\ ~ IsAboutLoan(p) => u.locked = run[c].locked
      /\ \A l \in u.locked : Agrees(about, u.mine[l], l, S \cup {e})
  <2>1. CASE ~ IsAboutLoan(p)
    <3>1. u = run[c]
      BY <2>1 DEF Updated
    <3>2. \A l \in run[c].locked : Agrees(about, run[c].mine[l], l, S)
      BY <1>1 DEF Sound
    <3>3. \A l \in run[c].locked : Agrees(about, run[c].mine[l], l, S \cup {e})
      BY <2>1, <3>2, AgreesWithout
    <3> QED
      BY <1>1, <2>1, <3>1, <3>3
  <2>2. CASE IsAboutLoan(p)
    <3> DEFINE k == p.loan
               v == Visible(c, k)
               w == Penalise(p, v)
    <3>1. k \in Loan
      BY <1>3 DEF Payload
    <3>2. v \in Penalties /\ Agrees(about, v, k, S)
      BY <3>1, ViewAgrees
    <3>3. w \in Penalties /\ Agrees(about, w, k, S \cup {e})
      BY <1>1, <1>3, <1>4, <2>2, <3>2, PenaliseAgrees
    <3>4. u = [run[c] EXCEPT !.locked = run[c].locked \cup {k},
                             !.mine = [run[c].mine EXCEPT ![k] = w]]
      BY <2>2 DEF Updated
    <3> DEFINE mine == [run[c].mine EXCEPT ![k] = w]
    <3> HIDE DEF w, v
    <3>5. run[c].mine \in [Loan -> Penalties]
      BY <1>1 DEF Polling
    <3>6. /\ mine \in [Loan -> Penalties] /\ mine[k] = w
          /\ \A l \in Loan \ {k} : mine[l] = run[c].mine[l]
      BY <3>1, <3>3, <3>5
    <3> HIDE DEF mine, k
    <3>7. u = [run[c] EXCEPT !.locked = run[c].locked \cup {k}, !.mine = mine]
      BY <3>4 DEF mine
    <3> HIDE DEF u
    <3>8. /\ u.todo = run[c].todo /\ u.done = run[c].done /\ u \in Polling
          /\ u.locked = run[c].locked \cup {k} /\ u.mine = mine
      BY <1>1, <3>1, <3>6, <3>7 DEF Polling
    <3>9. \A l \in run[c].locked \ {k} : Agrees(about, run[c].mine[l], l, S)
      BY <1>1 DEF Sound
    <3>10. \A l \in run[c].locked \ {k} :
            Agrees(about, run[c].mine[l], l, S \cup {e})
      BY <3>9, AgreesWithout DEF k
    <3>11. run[c].locked \subseteq Loan
      BY <1>1 DEF Polling
    <3> QED
      BY <2>2, <3>3, <3>6, <3>8, <3>10, <3>11 DEF k
  <2> QED
    BY <2>1, <2>2
<1>6. run' = [run EXCEPT ![c] = r]
  BY DEF Handled
<1> HIDE DEF u
<1>7. /\ r \in Polling /\ r.todo = run[c].todo \ {e} /\ r.done = run[c].done \cup {e}
      /\ r.locked = u.locked /\ r.mine = u.mine
  BY <1>3, <1>5 DEF Polling
<1> HIDE DEF r
<1>8. Sound(r, about, processed)
  <2>1. /\ r.todo \subseteq DOMAIN about /\ r.done \subseteq DOMAIN about
        /\ IsFiniteSet(r.done) /\ r.done \cap processed = {}
        /\ r.done \cap r.todo = {}
    BY <1>1, <1>3, <1>7, FS_AddElement DEF Sound
  <2>2. \A d \in r.done : IsAboutLoan(about[d]) => about[d].loan \in r.locked
    BY <1>1, <1>5, <1>7 DEF Sound
  <2>3. processed \cup r.done = S \cup {e}
    BY <1>7
  <2>4. \A l \in r.locked : Agrees(about, r.mine[l], l, processed \cup r.done)
    BY <1>5, <1>7, <2>3
  <2> QED
    BY <2>1, <2>2, <2>4 DEF Sound
<1>9. \A o \in Run \ {c} : /\ r.done \cap run[o].done = {}
                           /\ r.locked \cap run[o].locked = {}
  <2> TAKE o \in Run \ {c}
  <2>1. e \notin run[o].done /\ (IsAboutLoan(p) => p.loan \notin run[o].locked)
    BY DEF Blocks
  <2>2. /\ run[c].done \cap run[o].done = {}
        /\ run[c].locked \cap run[o].locked = {}
    BY DEF Inv, Apart
  <2> QED
    BY <1>5, <1>7, <2>1, <2>2
<1>10. faults' \in 0 .. MaxFaults
  BY DEF Inv, TypeOK
<1> QED
  BY <1>6, <1>7, <1>8, <1>9, <1>10, RunStep

\* The commit: the run's view becomes the committed one; what the others hold
\* is about other loans and other events.
LEMMA CommitStep ==
    ASSUME Inv, NEW c \in Run, Commit(c)
    PROVE  Inv'
<1> DEFINE S == processed \cup run[c].done
<1>1. /\ processed' = S /\ loan' = [l \in Loan |-> Visible(c, l)]
      /\ run' = [run EXCEPT ![c] = Off] /\ UNCHANGED <<about, faults>>
  BY DEF Commit
<1>2. IsFiniteSet(S) /\ S \subseteq DOMAIN about
  BY RunHolds DEF Payloads
<1>3. TypeOK'
  <2>1. run' \in [Run -> Polling]
    BY <1>1, OffIsSound DEF Inv, TypeOK
  <2>2. loan' \in [Loan -> Penalties]
    BY <1>1, ViewAgrees
  <2> QED
    BY <1>1, <1>2, <2>1, <2>2 DEF Inv, TypeOK
<1>4. \A l \in Loan : Agrees(about, loan'[l], l, S)
  BY <1>1, ViewAgrees
<1>5. \A o \in Run : run'[o] = IF o = c THEN Off ELSE run[o]
  BY <1>1 DEF Inv, TypeOK
<1>6. ASSUME NEW o \in Run
      PROVE  Sound(run'[o], about, S)
  <2>1. CASE o = c
    <3>1. run'[o] = Off
      BY <1>5, <2>1
    <3> QED
      BY <3>1, FS_EmptySet DEF Off, Sound
  <2>2. CASE o # c
    <3>1. run'[o] = run[o] /\ Sound(run[o], about, processed)
          /\ Sound(run[c], about, processed)
      BY <1>5, <2>2, RunHolds
    <3>2. /\ run[o].done \cap run[c].done = {}
          /\ run[o].locked \cap run[c].locked = {}
      BY <2>2 DEF Inv, Apart
    <3>3. ASSUME NEW l \in run[o].locked
          PROVE  Agrees(about, run[o].mine[l], l, S \cup run[o].done)
      <4>1. Agrees(about, run[o].mine[l], l, processed \cup run[o].done)
        BY <3>1 DEF Sound
      <4>2. \A e \in run[c].done : IsAboutLoan(about[e]) => about[e].loan # l
        BY <3>1, <3>2 DEF Sound
      <4>3. Agrees(about, run[o].mine[l], l,
                   (processed \cup run[o].done) \cup run[c].done)
        BY <4>1, <4>2, AgreesWithout
      <4>4. (processed \cup run[o].done) \cup run[c].done = S \cup run[o].done
        OBVIOUS
      <4> QED
        BY <4>3, <4>4
    <3>4. run[o].done \cap S = {}
      BY <3>1, <3>2 DEF Sound
    <3> HIDE DEF S
    <3> QED
      BY <3>1, <3>3, <3>4 DEF Sound
  <2> QED
    BY <2>1, <2>2
<1>7. Apart'
  <2>1. Off.done = {} /\ Off.locked = {}
    BY DEF Off
  <2> QED
    BY <1>5, <2>1 DEF Inv, Apart
<1> QED
  BY <1>1, <1>2, <1>3, <1>4, <1>6, <1>7 DEF Inv

\* A new event changes none of the totals: nobody has handled it yet.
LEMMA EmitStep ==
    ASSUME Inv, NEW e \in Event, NEW p \in Payload, Emit(e, p)
    PROVE  Inv'
<1>1. /\ e \notin DOMAIN about /\ UNCHANGED <<processed, loan, run, faults>>
      /\ about' = [d \in DOMAIN about \cup {e} |-> IF d = e THEN p ELSE about[d]]
  BY DEF Emit
<1>2. /\ DOMAIN about \subseteq DOMAIN about'
      /\ \A d \in DOMAIN about : about'[d] = about[d]
  BY <1>1
<1>3. TypeOK'
  <2>1. PICK E \in SUBSET Event : about \in [E -> Payload]
    BY DEF Inv, TypeOK
  <2>2. about' \in [E \cup {e} -> Payload] /\ E \cup {e} \in SUBSET Event
    BY <1>1, <2>1
  <2>3. processed \subseteq DOMAIN about'
    BY <1>2 DEF Inv, TypeOK
  <2> QED
    BY <1>1, <2>2, <2>3 DEF Inv, TypeOK
<1>4. ASSUME NEW v, NEW l, NEW S, IsFiniteSet(S), Payloads(about, S),
             Agrees(about, v, l, S)
      PROVE  Agrees(about', v, l, S)
  <2>1. S \subseteq DOMAIN about' /\ \A d \in S : about[d] = about'[d]
    BY <1>2, <1>4 DEF Payloads
  <2> QED
    BY <1>4, <2>1, AgreesKept
<1>5. ASSUME NEW c \in Run
      PROVE  Sound(run[c], about', processed)
  <2>1. /\ Sound(run[c], about, processed)
        /\ IsFiniteSet(processed \cup run[c].done)
        /\ Payloads(about, processed \cup run[c].done)
    BY RunHolds
  <2>2. \A l \in run[c].locked :
          Agrees(about', run[c].mine[l], l, processed \cup run[c].done)
    BY <1>4, <2>1 DEF Sound
  <2> QED
    BY <1>2, <2>1, <2>2 DEF Sound
<1>6. \A l \in Loan : Agrees(about', loan[l], l, processed)
  <2>1. IsFiniteSet(processed) /\ Payloads(about, processed)
    BY DEF Inv, TypeOK, Payloads
  <2> QED
    BY <1>4, <2>1 DEF Inv
<1> QED
  BY <1>1, <1>3, <1>5, <1>6 DEF Inv, Apart

LEMMA InitInv == Init => Inv
<1> SUFFICES ASSUME Init PROVE Inv
  OBVIOUS
<1>1. /\ processed = {} /\ \A c \in Run : run[c] = Off
      /\ \A l \in Loan : loan[l] = NoPenalties
  BY DEF Init
<1>2. about \in [{} -> Payload] /\ {} \in SUBSET Event
  BY DEF Init
<1>3. TypeOK
  BY <1>1, <1>2, OffIsSound, BoundsAreNatural
     DEF Init, TypeOK, NoPenalties, Penalties
<1>4. \A c \in Run : Sound(run[c], about, processed)
  BY <1>1, OffIsSound
<1>5. Apart
  BY <1>1 DEF Apart, Off
<1>6. \A l \in Loan : Agrees(about, loan[l], l, processed)
  <2> TAKE l \in Loan
  <2>1. \A kind : TotalOf(about, kind, l, {}) = 0
    <3> TAKE kind
    <3>1. {e \in {} : about[e].kind = kind /\ about[e].loan = l} = {}
      OBVIOUS
    <3> QED
      BY <3>1, SumEmpty DEF TotalOf
  <2> QED
    BY <1>1, <2>1 DEF Agrees, NoPenalties
<1> QED
  BY <1>1, <1>3, <1>4, <1>5, <1>6, FS_EmptySet DEF Inv

\* One step per action of the specification.
LEMMA InvStep == Inv /\ [Next]_vars => Inv'
<1> SUFFICES ASSUME Inv, [Next]_vars PROVE Inv'
  OBVIOUS
<1>1. faults \in 0 .. MaxFaults /\ (Accident => faults' \in 0 .. MaxFaults)
  BY BoundsAreNatural DEF Inv, TypeOK, Accident
<1>2. ASSUME NEW e \in Event, NEW p \in Payload, Emit(e, p)
      PROVE  Inv'
  BY <1>2, EmitStep
<1>3. ASSUME NEW c \in Run, Fetch(c)
      PROVE  Inv'
  BY <1>3, FetchStep
<1>4. ASSUME NEW c \in Run, Commit(c)
      PROVE  Inv'
  BY <1>4, CommitStep
<1>5. ASSUME NEW c \in Run, NEW e \in Event, Check(c, e)
      PROVE  Inv'
  <2>1. UNCHANGED <<about, processed, loan, faults>>
    BY <1>5 DEF Check
  <2>2. CASE e \in processed
    BY <1>1, <1>5, <2>1, <2>2, SkipStep DEF Check
  <2>3. CASE e \notin processed
    <3>1. run[c] \in Polling /\ run \in [Run -> Polling]
      BY DEF Inv, TypeOK
    <3>2. run' = [run EXCEPT ![c] =
                    [run[c] EXCEPT !.pc = "apply", !.todo = run[c].todo]]
      BY <1>5, <2>3, <3>1 DEF Check, Polling
    <3> QED
      BY <1>1, <2>1, <3>2, MoveStep
  <2> QED
    BY <2>2, <2>3
<1>6. ASSUME NEW c \in Run, NEW e \in Event, Apply(c, e)
      PROVE  Inv'
  <2>1. UNCHANGED <<about, processed, loan, faults>>
    BY <1>6 DEF Apply
  <2>2. CASE e \in processed
    BY <1>1, <1>6, <2>1, <2>2, SkipStep DEF Apply, Duplicate
  <2>3. CASE e \notin processed
    BY <1>6, <2>1, <2>3, HandledStep DEF Apply, Duplicate
  <2> QED
    BY <2>2, <2>3
<1>7. ASSUME NEW c \in Run, NEW e \in Event, Raise(c, e) \/ Victim(c, e)
      PROVE  Inv'
  BY <1>1, <1>7, SkipStep DEF Raise, Victim
<1>8. ASSUME NEW c \in Run, NEW e \in Event, Stumble(c, e)
      PROVE  Inv'
  BY <1>1, <1>8, SkipStep DEF Stumble
<1>9. ASSUME NEW c \in Run, Crash(c)
      PROVE  Inv'
  BY <1>1, <1>9, OffStep DEF Crash
<1>10. CASE UNCHANGED vars
  BY <1>10 DEF vars, Inv, TypeOK, Apart
<1> QED
  BY <1>2, <1>3, <1>4, <1>5, <1>6, <1>7, <1>8, <1>9, <1>10 DEF Next, Work

-----------------------------------------------------------------------------
(***************************************************************************)
(* The inductive invariant holds: every run's view of the loans it has     *)
(* locked agrees with the processed events and its own.                    *)
(***************************************************************************)
THEOREM ConsumerInvariance == Spec => []Inv
BY InitInv, InvStep, PTL DEF Spec

(***************************************************************************)
(* Events, loan rows and runs stay of their types; in particular penalties *)
(* are never negative.                                                     *)
(***************************************************************************)
THEOREM ConsumerTypes == Spec => []TypeOK
<1>1. Inv => TypeOK
  BY DEF Inv
<1> QED
  BY <1>1, ConsumerInvariance, PTL

(***************************************************************************)
(* Exactly once, for any number of overlapping and dying runs: what a loan *)
(* has paid is the sum of the collections marked processed.                *)
(***************************************************************************)
THEOREM ExactlyOnce == Spec => []EffectExactlyOnce
<1>1. Inv => EffectExactlyOnce
  BY DEF Inv, EffectExactlyOnce, Agrees, TotalOf, Collected, Total
<1> QED
  BY <1>1, ConsumerInvariance, PTL

(***************************************************************************)
(* The floor at zero hides no debt and invents none.                       *)
(***************************************************************************)
THEOREM PenaltiesCorrect == Spec => []PenaltiesNotUnderstated
<1>1. Inv => PenaltiesNotUnderstated
  BY DEF Inv, PenaltiesNotUnderstated, Agrees, TotalOf, Assessed, Collected,
         Total
<1> QED
  BY <1>1, ConsumerInvariance, PTL

-----------------------------------------------------------------------------
(***************************************************************************)
(* How a loan comes about (LoanOrigination), for any guarantors, keys and  *)
(* sessions: the money leaves once, and it rests on an approval and on     *)
(* consent.                                                                *)
(*                                                                         *)
(* Neither property is inductive.  A disbursement looks at the status of   *)
(* the application and of the guarantors, so the invariant says what those *)
(* statuses stand for: approved or disbursed means that an executor has    *)
(* committed, accepted means that a consent has.  Both survive the calls   *)
(* that overwrite each other, because an overwritten row loses the status, *)
(* never the fact.                                                         *)
(***************************************************************************)

\* Statuses stand for committed decisions and consents.
StatusHasCause ==
    /\ app \in {"approved", "disbursed"} => granted
    /\ \A g \in Guarantor : guarantor[g] = "accepted" => g \in consented

\* At most one loan, and as many entries.
OneLoan ==
    /\ loans = journal
    /\ \A j, k \in loans : j = k

\* The invariant of origination.
OriginationInv ==
    OriginationTypeOK /\ StatusHasCause /\ OneLoan /\ LoanRestsOnConsent

-----------------------------------------------------------------------------
\* What an open call carries.
LEMMA OpenCallHolds ==
    ASSUME OriginationTypeOK, NEW s \in Session
    PROVE  /\ call[s].op \in {"accept", "decline"} => call[s].by \in Guarantor
           /\ call[s].op = "disburse" => call[s].key \in Key
<1>1. call[s] \in Decision \cup Consent \cup Disbursement \cup {Idle}
  BY DEF OriginationTypeOK
<1>2. CASE call[s] \in Decision
  BY <1>2 DEF Decision
<1>3. CASE call[s] \in Consent
  BY <1>3 DEF Consent
<1>4. CASE call[s] \in Disbursement
  BY <1>4 DEF Disbursement
<1>5. CASE call[s] = Idle
  BY <1>5 DEF Idle
<1> QED
  BY <1>1, <1>2, <1>3, <1>4, <1>5

\* A call that ends leaves well-typed calls.
LEMMA CloseTyped ==
    ASSUME OriginationTypeOK, NEW s \in Session, Close(s)
    PROVE  call' \in [Session -> Decision \cup Consent \cup Disbursement \cup {Idle}]
BY DEF OriginationTypeOK, Close

\* A set without two members has at most one.
LEMMA AtMostOne ==
    ASSUME NEW S, \A j, k \in S : j = k
    PROVE  Cardinality(S) <= 1
<1>1. CASE S = {}
  <2>1. Cardinality({}) = 0
    BY FS_EmptySet
  <2> QED
    BY <1>1, <2>1
<1>2. CASE S # {}
  <2>1. PICK k \in S : TRUE
    BY <1>2
  <2>2. S = {k}
    BY <2>1
  <2>3. Cardinality({k}) = 1
    BY FS_Singleton
  <2> QED
    BY <2>2, <2>3
<1> QED
  BY <1>1, <1>2

\* The invariant holds at first.
LEMMA OriginationStart == OriginationInit => OriginationInv
BY DEF OriginationInit, OriginationInv, OriginationTypeOK, StatusHasCause, OneLoan,
       LoanRestsOnConsent, AppStatus,
       RequestStatus, ConsentStatus

-----------------------------------------------------------------------------
\* Opening a call changes nothing but the call.
LEMMA OpenStep ==
    ASSUME OriginationInv, NEW s \in Session,
           NEW c \in Decision \cup Consent \cup Disbursement, Open(s, c)
    PROVE  OriginationInv'
<1>1. UNCHANGED <<app, payable, request, granted, guarantor, consented, pledged,
                  loans, journal>>
  BY DEF Open
<1>2. OriginationTypeOK'
  BY <1>1 DEF OriginationInv, OriginationTypeOK, Open
<1> QED
  BY <1>1, <1>2 DEF OriginationInv, StatusHasCause, OneLoan, LoanRestsOnConsent

\* Approve, Reject and Withdraw write the application and its request only.
LEMMA DecisionStep ==
    ASSUME OriginationInv, NEW s \in Session, Approve(s) \/ Reject(s) \/ Withdraw(s)
    PROVE  OriginationInv'
<1>1. UNCHANGED <<payable, guarantor, consented, pledged, loans, journal>> /\ Close(s)
  BY DEF Approve, Reject, Withdraw
<1>2. /\ app' \in AppStatus /\ request' \in RequestStatus /\ granted' \in BOOLEAN
      /\ granted => granted'
      /\ app' \in {"approved", "disbursed"} => granted'
  BY DEF Approve, Reject, Withdraw, OriginationInv, OriginationTypeOK, AppStatus,
         RequestStatus
<1>3. OriginationTypeOK'
  BY <1>1, <1>2, CloseTyped DEF OriginationInv, OriginationTypeOK
<1> QED
  BY <1>1, <1>2, <1>3 DEF OriginationInv, StatusHasCause, OneLoan, LoanRestsOnConsent

\* Accept and Decline write one guarantor; an accepted one has consented.
LEMMA ConsentStep ==
    ASSUME OriginationInv, NEW s \in Session, Accept(s) \/ Decline(s)
    PROVE  OriginationInv'
<1>1. /\ UNCHANGED <<app, payable, request, granted, pledged, loans, journal>>
      /\ Close(s)
  BY DEF Accept, Decline
<1>2. call[s].by \in Guarantor
  BY OpenCallHolds DEF OriginationInv, Accept, Decline
<1>3. /\ guarantor' \in [Guarantor -> ConsentStatus]
      /\ consented' \subseteq Guarantor /\ consented \subseteq consented'
      /\ \A g \in Guarantor : guarantor'[g] = "accepted" => g \in consented'
  BY <1>2
     DEF Accept, Decline, OriginationInv, OriginationTypeOK, ConsentStatus,
         StatusHasCause
<1>4. OriginationTypeOK'
  BY <1>1, <1>3, CloseTyped DEF OriginationInv, OriginationTypeOK
<1> QED
  BY <1>1, <1>3, <1>4 DEF OriginationInv, StatusHasCause, OneLoan, LoanRestsOnConsent

\* A disbursement is the first one, and pledges who has consented.
LEMMA DisburseStep ==
    ASSUME OriginationInv, NEW s \in Session, Disburse(s)
    PROVE  OriginationInv'
<1>1. /\ UNCHANGED <<payable, request, granted, guarantor, consented>> /\ Close(s)
      /\ app = "approved" /\ app' = "disbursed" /\ loans = {}
      /\ loans' = {call[s].key} /\ journal' = journal \cup {call[s].key}
      /\ pledged' = pledged \cup Accepted
  BY DEF Disburse, MayBeDisbursed, IsFirstLoan
<1>2. call[s].key \in Key
  BY OpenCallHolds DEF OriginationInv, Disburse
<1>3. Accepted \subseteq consented /\ Accepted \subseteq Guarantor
  BY DEF Accepted, OriginationInv, StatusHasCause
<1>4. granted
  BY <1>1 DEF OriginationInv, StatusHasCause
<1>5. OriginationTypeOK'
  BY <1>1, <1>2, <1>3, CloseTyped DEF OriginationInv, OriginationTypeOK, AppStatus
<1>6. OneLoan'
  BY <1>1 DEF OriginationInv, OneLoan
<1>7. StatusHasCause' /\ LoanRestsOnConsent'
  BY <1>1, <1>3, <1>4 DEF OriginationInv, StatusHasCause, LoanRestsOnConsent
<1> QED
  BY <1>5, <1>6, <1>7 DEF OriginationInv

\* Every step keeps the invariant.
LEMMA OriginationStep ==
    OriginationInv /\ [OriginationNext]_originationVars => OriginationInv'
<1> SUFFICES ASSUME OriginationInv, [OriginationNext]_originationVars
             PROVE  OriginationInv'
  OBVIOUS
<1>1. ASSUME NEW p \in BOOLEAN, Submit(p)
      PROVE  OriginationInv'
  BY <1>1
     DEF Submit, OriginationInv, OriginationTypeOK, StatusHasCause, OneLoan,
         LoanRestsOnConsent,
              AppStatus, RequestStatus
<1>2. CASE Nominate
  BY <1>2
     DEF Nominate, OriginationInv, OriginationTypeOK, StatusHasCause, OneLoan,
         LoanRestsOnConsent,
              ConsentStatus
<1>3. ASSUME NEW s \in Session, OpenApprove(s) \/ OpenReject(s) \/ OpenWithdraw(s)
      PROVE  OriginationInv'
  <2>1. PICK op \in {"approve", "reject", "withdraw"} :
            Open(s, [op |-> op, seen |-> app])
    BY <1>3 DEF OpenApprove, OpenReject, OpenWithdraw
  <2>2. [op |-> op, seen |-> app] \in Decision
    BY DEF OriginationInv, OriginationTypeOK, Decision
  <2> QED
    BY <2>1, <2>2, OpenStep
<1>4. ASSUME NEW s \in Session, NEW g \in Guarantor, NEW op \in {"accept", "decline"},
             OpenConsent(s, op, g)
      PROVE  OriginationInv'
  <2>1. [op |-> op, by |-> g] \in Consent
    BY DEF Consent
  <2> QED
    BY <1>4, <2>1, OpenStep DEF OpenConsent
<1>5. ASSUME NEW s \in Session, NEW k \in Key, OpenDisburse(s, k)
      PROVE  OriginationInv'
  <2>1. [op |-> "disburse", key |-> k] \in Disbursement
    BY DEF Disbursement
  <2> QED
    BY <1>5, <2>1, OpenStep DEF OpenDisburse
<1>6. ASSUME NEW s \in Session, Abandon(s)
      PROVE  OriginationInv'
  <2>1. UNCHANGED <<app, payable, request, granted, guarantor, consented, pledged,
                    loans, journal>> /\ Close(s)
    BY <1>6 DEF Abandon
  <2> QED
    BY <2>1, CloseTyped
       DEF OriginationInv, OriginationTypeOK, StatusHasCause, OneLoan,
           LoanRestsOnConsent
<1>7. ASSUME NEW r \in {"rejected", "cancelled", "expired"}, EndRequest(r)
      PROVE  OriginationInv'
  BY <1>7
     DEF EndRequest, OriginationInv, OriginationTypeOK, StatusHasCause, OneLoan,
         LoanRestsOnConsent,
              RequestStatus
<1>8. CASE UNCHANGED originationVars
  BY <1>8
     DEF originationVars, OriginationInv, OriginationTypeOK, StatusHasCause, OneLoan,
         LoanRestsOnConsent
<1> QED
  BY <1>1, <1>2, <1>3, <1>4, <1>5, <1>6, <1>7, <1>8, DecisionStep, ConsentStep,
     DisburseStep DEF OriginationNext

-----------------------------------------------------------------------------
(***************************************************************************)
(* The inductive invariant of origination holds in every state.            *)
(***************************************************************************)
THEOREM OriginationInvariance == OriginationSpec => []OriginationInv
BY OriginationStart, OriginationStep, PTL DEF OriginationSpec

(***************************************************************************)
(* Every reachable state is well typed.                                    *)
(***************************************************************************)
THEOREM OriginationTypeCorrect == OriginationSpec => []OriginationTypeOK
<1>1. OriginationInv => OriginationTypeOK
  BY DEF OriginationInv
<1> QED
  BY <1>1, OriginationInvariance, PTL

(***************************************************************************)
(* One application is disbursed at most once, with one entry, although a   *)
(* late approval may put it back to approved (LoanDisbursementService).    *)
(***************************************************************************)
THEOREM OnceDisbursed == OriginationSpec => []DisbursedOnce
<1>1. OriginationInv => DisbursedOnce
  BY AtMostOne DEF OriginationInv, OneLoan, DisbursedOnce
<1> QED
  BY <1>1, OriginationInvariance, PTL

(***************************************************************************)
(* No disbursement without a committed approval, and no lien on a          *)
(* guarantor who never consented (place_liens).                            *)
(***************************************************************************)
THEOREM ConsentCorrect == OriginationSpec => []LoanRestsOnConsent
<1>1. OriginationInv => LoanRestsOnConsent
  BY DEF OriginationInv
<1> QED
  BY <1>1, OriginationInvariance, PTL
=============================================================================
