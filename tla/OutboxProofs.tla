---------------------------- MODULE OutboxProofs ----------------------------
(***************************************************************************)
(* Proofs about the outbox, for any tasks, workers and batch sizes.        *)
(***************************************************************************)
EXTENDS Outbox, FiniteSetTheorems, TLAPS

\* What a row's status says is true of it.
RowInv ==
    /\ \A t \in Task : status[t] = "NONE" =>
          t \notin due \cup leased \cup answered \cup overran
    /\ \A w \in Worker, t \in Task : t \in locked[w] \cup batch[w] => status[t] # "NONE"

\* Who may have a row in hand: a claim in progress alone, then the lease.
ClaimInv ==
    /\ \A w \in Worker \ alive : locked[w] = {} /\ batch[w] = {}
    /\ \A w \in Worker : locked[w] = {} \/ batch[w] = {}
    /\ \A v, w \in Worker : v # w => locked[v] \cap locked[w] = {}
    /\ \A w \in Worker, t \in Task : t \in locked[w] =>
          \/ status[t] = "PENDING"
          \/ status[t] = "PROCESSING" /\ t \notin leased
    /\ \A w \in Worker, t \in Task : t \in batch[w] \ overran =>
          status[t] = "PROCESSING" /\ t \in leased

\* What a worker remembers of a call is about a task of its batch.
SaidInv ==
    \A w \in Worker, t \in Task :
        /\ \A a \in {"ok", "error"} : <<t, a>> \in said[w] => t \in batch[w]
        /\ <<t, "ok">> \in said[w] => t \in answered

Inv == TypeOK /\ RowInv /\ ClaimInv /\ SaidInv /\ DisjointUnlessLate

LEMMA InitInv == Init => Inv
  BY PoisonAssumption DEF Init, Inv, TypeOK, Status, RowInv, ClaimInv, SaidInv,
     DisjointUnlessLate

-----------------------------------------------------------------------------
(* One lemma for each action.                                              *)

LEMMA EnqueueInv == ASSUME Inv, NEW t \in Task, Enqueue(t) PROVE Inv'
  <1> USE DEF Enqueue, Place, Prefixes
  <1>1. TypeOK'
    BY DEF Inv, TypeOK, Status
  <1>2. RowInv' /\ ClaimInv' /\ SaidInv' /\ DisjointUnlessLate'
    BY DEF Inv, TypeOK, Status, RowInv, ClaimInv, SaidInv, DisjointUnlessLate
  <1>3. QED  BY <1>1, <1>2 DEF Inv

LEMMA SelectInv == ASSUME Inv, NEW w \in Worker, Select(w) PROVE Inv'
  <1> DEFINE first == FirstRows(w)
  <1>1. /\ locked' = [locked EXCEPT ![w] = first]
        /\ w \in alive /\ batch[w] = {}
        /\ UNCHANGED <<status, due, earlier, leased, attempts, alive, batch, fatal,
                       said, answered, overran>>
    BY DEF Select
  <1>2. /\ first \subseteq Task
        /\ \A v \in Worker : first \cap locked[v] = {}
        /\ \A t \in first : \/ status[t] = "PENDING"
                            \/ status[t] = "PROCESSING" /\ t \notin leased
    BY DEF FirstRows, Claimable, Locked, Inv, TypeOK
  <1> HIDE DEF first
  <1>3. TypeOK'
    BY <1>1, <1>2 DEF Inv, TypeOK
  <1>4. RowInv' /\ SaidInv' /\ DisjointUnlessLate'
    BY <1>1, <1>2 DEF Inv, TypeOK, RowInv, SaidInv, DisjointUnlessLate
  <1>5. ClaimInv'
    BY <1>1, <1>2 DEF Inv, TypeOK, ClaimInv
  <1>6. QED  BY <1>3, <1>4, <1>5 DEF Inv

LEMMA LeaseInv == ASSUME Inv, NEW w \in Worker, Lease(w) PROVE Inv'
  <1>1. /\ locked[w] \subseteq Task
        /\ status' = [t \in Task |-> IF t \in locked[w] THEN "PROCESSING" ELSE status[t]]
        /\ leased' = leased \cup locked[w]
        /\ batch' = [batch EXCEPT ![w] = locked[w]]
        /\ locked' = [locked EXCEPT ![w] = {}]
        /\ UNCHANGED <<due, earlier, alive, said, answered, overran>>
    BY DEF Lease, Inv, TypeOK
  <1>2. w \in alive /\ batch[w] \subseteq Task
    BY DEF Lease, Inv, TypeOK
  <1>3. TypeOK'
    <2>1. /\ attempts' \in [Task -> {"none", "some", "spent"}]
          /\ fatal' \in [Worker -> SUBSET Task]
      BY <1>1 DEF Lease, Inv, TypeOK
    <2>2. QED  BY <1>1, <2>1 DEF Inv, TypeOK, Status
  \* Nobody else has one of these rows, unless its lease ended on him.
  <1>4. \A v \in Worker, t \in Task : t \in batch[v] /\ t \in locked[w] => t \in overran
    BY DEF Inv, ClaimInv
  <1>5. RowInv' /\ DisjointUnlessLate'
    <2>1. RowInv'
      BY <1>1 DEF Inv, TypeOK, RowInv
    <2>2. DisjointUnlessLate'
      BY <1>1, <1>4 DEF Inv, TypeOK, DisjointUnlessLate
    <2>3. QED  BY <2>1, <2>2
  <1>6. ClaimInv'
    BY <1>1, <1>2, <1>4 DEF Inv, TypeOK, ClaimInv
  <1>7. SaidInv'
    <2>1. \A t \in Task, a \in {"ok", "error"} : <<t, a>> \notin said[w]
      BY DEF Lease, Inv, TypeOK, ClaimInv, SaidInv
    <2>2. QED  BY <1>1, <2>1 DEF Inv, TypeOK, SaidInv
  <1>8. QED  BY <1>3, <1>5, <1>6, <1>7 DEF Inv

LEMMA AnswerInv ==
  ASSUME Inv, NEW w \in Worker, NEW t \in Task, NEW a \in {"ok", "error"}, Answer(w, t, a),
         \/ a = "ok" /\ t \notin Poison /\ answered' = answered \cup {t}
         \/ a = "error" /\ UNCHANGED answered
  PROVE  Inv'
  <1>1. /\ t \in batch[w]
        /\ said' = [said EXCEPT ![w] = {<<t, a>>}]
        /\ UNCHANGED <<status, due, earlier, leased, attempts, alive, locked, batch,
                       fatal, overran>>
    BY DEF Answer
  <1>2. TypeOK'
    BY <1>1 DEF Inv, TypeOK
  <1>3. RowInv' /\ ClaimInv' /\ DisjointUnlessLate'
    BY <1>1 DEF Inv, TypeOK, RowInv, ClaimInv, DisjointUnlessLate
  <1>4. SaidInv'
    BY <1>1 DEF Inv, TypeOK, SaidInv
  <1>5. QED  BY <1>2, <1>3, <1>4 DEF Inv

LEMMA MarkDoneInv ==
  ASSUME Inv, NEW w \in Worker, NEW t \in Task, MarkDone(w, t)  PROVE Inv'
  <1>1. t \in batch[w] /\ t \in answered /\ \A v \in Worker : t \notin locked[v]
    BY DEF MarkDone, Locked, Inv, SaidInv
  <1>2. TypeOK'
    BY DEF MarkDone, PutDown, Inv, TypeOK, Status
  <1>3. RowInv' /\ SaidInv' /\ DisjointUnlessLate'
    BY DEF MarkDone, PutDown, Inv, TypeOK, Status, RowInv, SaidInv, DisjointUnlessLate
  <1>4. ClaimInv'
    BY <1>1 DEF MarkDone, PutDown, Inv, TypeOK, ClaimInv, DisjointUnlessLate
  <1>5. QED  BY <1>2, <1>3, <1>4 DEF Inv

LEMMA MarkFailedInv ==
  ASSUME Inv, NEW w \in Worker, NEW t \in Task, MarkFailed(w, t)  PROVE Inv'
  <1>1. t \in batch[w] /\ \A v \in Worker : t \notin locked[v]
    BY DEF MarkFailed, Locked, Inv, SaidInv
  <1>2. TypeOK'
    BY DEF MarkFailed, PutDown, Postpone, Inv, TypeOK, Status
  <1>3. RowInv' /\ SaidInv' /\ DisjointUnlessLate'
    BY DEF MarkFailed, PutDown, Postpone, Inv, TypeOK, Status, RowInv, SaidInv,
       DisjointUnlessLate
  <1>4. ClaimInv'
    BY <1>1 DEF MarkFailed, PutDown, Inv, TypeOK, ClaimInv, DisjointUnlessLate
  <1>5. QED  BY <1>2, <1>3, <1>4 DEF Inv

LEMMA StopInv == ASSUME Inv, NEW w \in Worker, Stop(w)  PROVE Inv'
  <1>1. TypeOK'
    BY DEF Stop, Inv, TypeOK
  <1>2. RowInv' /\ ClaimInv' /\ SaidInv' /\ DisjointUnlessLate'
    BY DEF Stop, Inv, TypeOK, RowInv, ClaimInv, SaidInv, DisjointUnlessLate
  <1>3. QED  BY <1>1, <1>2 DEF Inv

LEMMA ElapseInv == ASSUME Inv, NEW t \in Task, Elapse(t)  PROVE Inv'
  <1> USE DEF Elapse, Place
  <1>1. TypeOK'
    BY DEF Inv, TypeOK
  <1>2. RowInv' /\ ClaimInv' /\ SaidInv' /\ DisjointUnlessLate'
    BY DEF Inv, TypeOK, RowInv, ClaimInv, SaidInv, DisjointUnlessLate
  <1>3. QED  BY <1>1, <1>2 DEF Inv

LEMMA LapseInv == ASSUME Inv, NEW t \in Task, Lapse(t)  PROVE Inv'
  <1>1. TypeOK'
    BY DEF Lapse, Inv, TypeOK
  <1>2. RowInv' /\ SaidInv' /\ DisjointUnlessLate'
    BY DEF Lapse, Inv, TypeOK, RowInv, SaidInv, DisjointUnlessLate
  \* Whoever has the task in hand is alive, so the overrun is recorded.
  <1>3. ClaimInv'
    <2>1. ASSUME NEW w \in Worker, t \in batch[w]  PROVE t \in overran'
      BY <2>1 DEF Lapse, InHand, Inv, ClaimInv
    <2>2. QED  BY <2>1 DEF Lapse, Inv, TypeOK, ClaimInv
  <1>4. QED  BY <1>1, <1>2, <1>3 DEF Inv

LEMMA StutterInv == ASSUME Inv, UNCHANGED vars  PROVE Inv'
  BY DEF vars, Inv, TypeOK, RowInv, ClaimInv, SaidInv, DisjointUnlessLate

LEMMA NextInv == Inv /\ [Next]_vars => Inv'
  <1> SUFFICES ASSUME Inv, [Next]_vars  PROVE Inv'
    OBVIOUS
  <1>1. CASE UNCHANGED vars
    BY <1>1, StutterInv
  <1>2. ASSUME NEW w \in Worker, Run(w)  PROVE Inv'
    <2>1. CASE Select(w) \/ Lease(w)
      BY <2>1, SelectInv, LeaseInv
    <2>2. ASSUME NEW t \in Task, Succeed(w, t) \/ Raise(w, t)  PROVE Inv'
      BY <2>2, AnswerInv DEF Succeed, Raise
    <2>3. ASSUME NEW t \in Task, MarkDone(w, t) \/ MarkFailed(w, t) \/ Overflow(w, t)
          PROVE  Inv'
      BY <2>3, MarkDoneInv, MarkFailedInv, StopInv DEF Overflow
    <2>4. QED  BY <1>2, <2>1, <2>2, <2>3 DEF Run
  <1>3. ASSUME NEW w \in Worker, Die(w)  PROVE Inv'
    BY <1>3, StopInv DEF Die
  <1>4. ASSUME NEW t \in Task, Enqueue(t) \/ Elapse(t) \/ Lapse(t)  PROVE Inv'
    BY <1>4, EnqueueInv, ElapseInv, LapseInv
  <1>5. QED  BY <1>1, <1>2, <1>3, <1>4 DEF Next

\* The invariant the theorems below rest on.
THEOREM InvAlways == Spec => []Inv
  BY InitInv, NextInv, PTL DEF Spec

\* Every column of the outbox keeps its type, and a task that no call succeeds
\* for is never taken as answered (claim_batch, mark_done, mark_failed).
THEOREM OutboxTypeCorrect == Spec => []TypeOK
  BY InvAlways, PTL DEF Inv

\* However many workers run, with whatever batch sizes, and whenever they die:
\* two of them have one task in hand only after a lease on it ended while a
\* worker was at it (claim_batch with SKIP LOCKED, then locked_until).
THEOREM ClaimsDisjoint == Spec => []DisjointUnlessLate
  BY InvAlways, PTL DEF Inv

-----------------------------------------------------------------------------
(* The order of claims.                                                    *)

\* A finite set with a strict order on it has a first element.
LEMMA FirstElement ==
  ASSUME NEW S, IsFiniteSet(S), S # {}, NEW R,
         \A x \in S : <<x, x>> \notin R,
         \A x, y, z \in S : <<x, y>> \in R /\ <<y, z>> \in R => <<x, z>> \in R
  PROVE  \E x \in S : \A y \in S : <<y, x>> \notin R
  <1> DEFINE before(x) == {y \in S : <<y, x>> \in R}
             T == {before(x) : x \in S}
  <1>1. IsWellFoundedOn(StrictSubsetOrdering(S), SUBSET S)
    BY FS_StrictSubsetOrderingWellFounded, FS_FiniteSubsetsOfFinite
  <1>2. T \subseteq SUBSET S /\ T # {}
    <2>1. \A x \in S : before(x) \in T /\ before(x) \in SUBSET S
      OBVIOUS
    <2>2. QED  BY <2>1
  <1>3. PICK p \in T : \A q \in T : <<q, p>> \notin StrictSubsetOrdering(S)
    <2> HIDE DEF T
    <2>1. QED  BY <1>1, <1>2, WFMin
  <1>4. PICK x \in S : p = before(x)
    OBVIOUS
  <1>5. ASSUME NEW y \in S, <<y, x>> \in R  PROVE FALSE
    <2>1. before(y) \subseteq before(x) /\ y \in before(x) /\ y \notin before(y)
      BY <1>5
    <2>2. <<before(y), before(x)>> \in StrictSubsetOrdering(S)
      BY <2>1 DEF StrictSubsetOrdering
    <2>3. QED  BY <1>3, <1>4, <2>2
  <1>6. QED  BY <1>5

\* next_run_at orders the rows that are due, all of them and no others.
OrderInv ==
    /\ due \subseteq Task /\ IsFiniteSet(due)
    /\ earlier \subseteq due \X due
    /\ \A t \in due : <<t, t>> \notin earlier
    /\ \A t, u, v \in due : <<t, u>> \in earlier /\ <<u, v>> \in earlier => <<t, v>> \in earlier
    /\ \A t, u \in due : t # u => <<t, u>> \in earlier \/ <<u, t>> \in earlier

LEMMA InitOrder == Init => OrderInv
  BY FS_EmptySet DEF Init, OrderInv

LEMMA PlaceOrder ==
  ASSUME OrderInv, NEW t \in Task \ due, NEW S \in Prefixes, Place(t, S)  PROVE OrderInv'
  <1>1. IsFiniteSet(due')
    BY FS_AddElement DEF OrderInv, Place
  <1>2. earlier' \subseteq due' \X due' /\ due' \subseteq Task
    BY DEF OrderInv, Place, Prefixes
  <1>3. \A u, v : <<u, v>> \in earlier' <=>
          (<<u, v>> \in earlier \/ (u \in S /\ v = t) \/ (u = t /\ v \in due \ S))
    BY DEF Place
  <1>4. \A u, v : <<u, v>> \in earlier => u \in due /\ v \in due
    BY DEF OrderInv
  <1>5. S \subseteq due /\ t \notin due
        /\ \A u \in S, v \in due \ S : <<u, v>> \in earlier /\ <<v, u>> \notin earlier
    <2>1. S \subseteq due /\ \A u \in S, v \in due \ S : <<u, v>> \in earlier
      BY DEF Prefixes
    <2>2. QED  BY <2>1 DEF OrderInv
  <1>6. ASSUME NEW u \in due', NEW v \in due', NEW x \in due',
               <<u, v>> \in earlier', <<v, x>> \in earlier'
        PROVE  <<u, x>> \in earlier'
    <2>1. due' = due \cup {t}
      BY DEF Place
    <2>2. CASE u = t
      BY <1>3, <1>4, <1>5, <1>6, <2>1, <2>2
    <2>3. CASE v = t
      BY <1>3, <1>4, <1>5, <1>6, <2>1, <2>3
    <2>4. CASE x = t
      BY <1>3, <1>4, <1>5, <1>6, <2>1, <2>4
    <2>5. CASE u # t /\ v # t /\ x # t
      BY <1>3, <1>6, <2>1, <2>5 DEF OrderInv
    <2>6. QED  BY <2>2, <2>3, <2>4, <2>5
  <1>7. \A u \in due' : <<u, u>> \notin earlier'
    BY <1>3, <1>4, <1>5 DEF OrderInv
  <1>8. \A u, v \in due' : u # v => <<u, v>> \in earlier' \/ <<v, u>> \in earlier'
    BY <1>3, <1>5 DEF OrderInv, Place
  <1>9. QED  BY <1>1, <1>2, <1>6, <1>7, <1>8 DEF OrderInv

LEMMA PostponeOrder ==
  ASSUME OrderInv, NEW t \in Task, Postpone(t)  PROVE OrderInv'
  <1>1. IsFiniteSet(due')
    BY FS_Subset DEF OrderInv, Postpone
  <1>2. QED  BY <1>1 DEF OrderInv, Postpone

LEMMA NextOrder == Inv /\ OrderInv /\ [Next]_vars => OrderInv'
  <1> SUFFICES ASSUME Inv, OrderInv, [Next]_vars  PROVE OrderInv'
    OBVIOUS
  <1>1. CASE UNCHANGED <<due, earlier>>
    BY <1>1 DEF OrderInv
  <1>2. ASSUME NEW t \in Task, Enqueue(t) \/ Elapse(t)  PROVE OrderInv'
    <2>1. t \notin due /\ (Place(t, due) \/ \E S \in Prefixes : Place(t, S))
      BY <1>2 DEF Enqueue, Elapse, Inv, RowInv
    <2>2. due \in Prefixes
      BY DEF Prefixes
    <2>3. QED  BY <2>1, <2>2, PlaceOrder
  <1>3. ASSUME NEW w \in Worker, NEW t \in Task, MarkFailed(w, t)  PROVE OrderInv'
    BY <1>3, PostponeOrder DEF MarkFailed
  <1>4. ASSUME NEW w \in Worker, Run(w) \/ Die(w)  PROVE OrderInv'
    BY <1>1, <1>3, <1>4 DEF Run, Die, Select, Lease, Succeed, Raise, Answer, MarkDone,
       Overflow, Stop
  <1>5. ASSUME NEW t \in Task, Lapse(t)  PROVE OrderInv'
    BY <1>1, <1>5 DEF Lapse
  <1>6. QED  BY <1>1, <1>2, <1>4, <1>5 DEF Next, vars

\* The filter of claim_batch, by the number of rows before a row, is its ORDER BY
\* and LIMIT: not empty, closed downward, and as large as the limit lets it be.
LEMMA FirstRowsInTurn ==
  ASSUME OrderInv, NEW w \in Worker, BatchSize[w] \in Nat \ {0}
  PROVE  /\ FirstRows(w) \subseteq Claimable
         /\ Claimable # {} => FirstRows(w) # {}
         /\ Cardinality(FirstRows(w)) <= BatchSize[w]
         /\ \A t \in Claimable \ FirstRows(w) :
               /\ Cardinality(FirstRows(w)) = BatchSize[w]
               /\ \A u \in FirstRows(w) : <<u, t>> \in earlier
  <1> DEFINE C == Claimable
             F == FirstRows(w)
             before(t) == {u \in C : <<u, t>> \in earlier}
  <1>1. /\ F = {t \in C : Cardinality(before(t)) < BatchSize[w]}
        /\ C \subseteq due
    BY DEF FirstRows, Claimable
  <1>2. /\ IsFiniteSet(C)
        /\ \A T \in SUBSET C : IsFiniteSet(T) /\ Cardinality(T) \in Nat
    BY <1>1, FS_Subset, FS_CardinalityType DEF OrderInv
  <1>3. /\ \A t \in C : <<t, t>> \notin earlier
        /\ \A t, u, v \in C : <<t, u>> \in earlier /\ <<u, v>> \in earlier => <<t, v>> \in earlier
        /\ \A t, u \in C : t # u => <<t, u>> \in earlier \/ <<u, t>> \in earlier
    BY <1>1 DEF OrderInv
  <1> HIDE DEF C, F
  <1>4. F \subseteq C
    BY <1>1
  <1>5. \A t \in C : before(t) \in SUBSET C
    OBVIOUS
  \* What is before a row that is taken is taken.
  <1>6. ASSUME NEW t \in C, NEW u \in F, <<t, u>> \in earlier  PROVE t \in F
    <2>1. before(t) \in SUBSET before(u)
      BY <1>3, <1>4, <1>6
    <2>2. Cardinality(before(t)) <= Cardinality(before(u))
      BY <1>2, <1>4, <1>5, <2>1, FS_Subset
    <2>3. /\ Cardinality(before(u)) < BatchSize[w]
          /\ Cardinality(before(t)) \in Nat /\ Cardinality(before(u)) \in Nat
      BY <1>1, <1>2, <1>4, <1>5
    <2>4. Cardinality(before(t)) < BatchSize[w]
      BY <2>2, <2>3
    <2>5. QED  BY <1>1, <2>4
  <1>7. ASSUME C # {}  PROVE F # {}
    <2>1. PICK t \in C : \A u \in C : <<u, t>> \notin earlier
      BY <1>2, <1>3, <1>7, FirstElement
    <2>2. before(t) = {}
      BY <2>1
    <2>3. Cardinality(before(t)) = 0
      BY <2>2, FS_EmptySet
    <2>4. QED  BY <1>1, <2>3
  \* The last row that is taken has all others before it.
  <1>8. Cardinality(F) <= BatchSize[w] /\ Cardinality(F) \in Nat
    <2>1. CASE F = {}
      BY <2>1, FS_EmptySet
    <2>2. CASE F # {}
      <3> DEFINE later == {p \in F \X F : <<p[2], p[1]>> \in earlier}
      <3>1. IsFiniteSet(F)
        BY <1>2, <1>4
      <3>2. /\ \A x \in F : <<x, x>> \notin later
            /\ \A x, y, z \in F : <<x, y>> \in later /\ <<y, z>> \in later => <<x, z>> \in later
        BY <1>3, <1>4
      <3> HIDE DEF later
      <3>3. PICK t \in F : \A u \in F : <<u, t>> \notin later
        BY <2>2, <3>1, <3>2, FirstElement
      <3>4. \A u \in F : u # t => <<u, t>> \in earlier
        BY <1>3, <1>4, <3>3 DEF later
      <3>5. F \subseteq before(t) \cup {t}
        BY <1>4, <3>4
      <3>6. IsFiniteSet(before(t)) /\ Cardinality(before(t)) \in Nat
            /\ Cardinality(before(t)) < BatchSize[w]
        BY <1>1, <1>2, <1>4, <1>5
      <3>7. IsFiniteSet(before(t) \cup {t})
            /\ Cardinality(before(t) \cup {t}) <= Cardinality(before(t)) + 1
        <4> DEFINE b == before(t)
        <4> HIDE DEF b
        <4>1. IsFiniteSet(b) => /\ IsFiniteSet(b \cup {t})
                                /\ Cardinality(b \cup {t}) =
                                     IF t \in b THEN Cardinality(b) ELSE Cardinality(b) + 1
          BY FS_AddElement
        <4>2. IsFiniteSet(b) /\ Cardinality(b) \in Nat
          BY <3>6 DEF b
        <4>3. IsFiniteSet(b \cup {t}) /\ Cardinality(b \cup {t}) <= Cardinality(b) + 1
          BY <4>1, <4>2
        <4>4. QED  BY <4>3 DEF b
      <3>8. Cardinality(F) <= Cardinality(before(t) \cup {t})
        BY <3>5, <3>7, FS_Subset
      <3>9. Cardinality(before(t) \cup {t}) \in Nat /\ Cardinality(F) \in Nat
        BY <3>1, <3>7, FS_CardinalityType
      <3>10. QED  BY <3>6, <3>7, <3>8, <3>9
    <2>3. QED  BY <2>1, <2>2
  <1>9. ASSUME NEW t \in C \ F, NEW u \in F  PROVE <<u, t>> \in earlier
    BY <1>3, <1>4, <1>6
  \* All that is before the first row that is left is taken.
  <1>10. ASSUME C \ F # {}  PROVE Cardinality(F) = BatchSize[w]
    <2>1. IsFiniteSet(C \ F)
      BY <1>2
    <2>2. PICK t \in C \ F : \A u \in C \ F : <<u, t>> \notin earlier
      BY <1>3, <1>10, <2>1, FirstElement
    <2>3. before(t) \in SUBSET F
      BY <2>2
    <2>4. Cardinality(before(t)) <= Cardinality(F)
      BY <1>2, <1>4, <2>3, FS_Subset
    <2>5. Cardinality(before(t)) \in Nat /\ ~ (Cardinality(before(t)) < BatchSize[w])
      BY <1>1, <1>2, <1>5
    <2>6. QED  BY <1>8, <2>4, <2>5
  <1>11. QED  BY <1>4, <1>7, <1>8, <1>9, <1>10 DEF C, F

LEMMA OrderAlways == Spec => [](Inv /\ OrderInv)
  BY InitInv, InitOrder, NextInv, NextOrder, PTL DEF Spec

\* For any number of tasks and workers and all batch sizes: a claim takes the rows
\* that are due first, whatever others have locked, and leaves a row only when its
\* batch is full, so that a task is passed only by tasks that waited longer.
THEOREM ClaimsGoInTurn == Spec => ClaimsInTurn
  <1>1. Inv /\ OrderInv /\ [Next]_vars =>
          [\A w \in Worker : locked'[w] \ locked[w] # {} =>
              /\ locked'[w] \subseteq Claimable
              /\ Cardinality(locked'[w]) <= BatchSize[w]
              /\ \A t \in Claimable \ locked'[w] :
                    /\ Cardinality(locked'[w]) = BatchSize[w]
                    /\ \A u \in locked'[w] : <<u, t>> \in earlier]_vars
    <2> SUFFICES ASSUME Inv, OrderInv, Next, NEW w \in Worker, locked'[w] \ locked[w] # {}
                 PROVE  /\ locked'[w] \subseteq Claimable
                        /\ Cardinality(locked'[w]) <= BatchSize[w]
                        /\ \A t \in Claimable \ locked'[w] :
                              /\ Cardinality(locked'[w]) = BatchSize[w]
                              /\ \A u \in locked'[w] : <<u, t>> \in earlier
      OBVIOUS
    <2>1. locked \in [Worker -> SUBSET Task] /\ BatchSize[w] \in Nat \ {0}
      BY BatchSizeAssumption DEF Inv, TypeOK
    <2>2. Select(w)
      BY <2>1 DEF Next, Run, Die, Select, Lease, Succeed, Raise, Answer, MarkDone, MarkFailed,
         Overflow, Stop, Enqueue, Elapse, Lapse
    <2>3. locked'[w] = FirstRows(w)
      BY <2>1, <2>2 DEF Select
    <2>4. QED  BY <2>1, <2>3, FirstRowsInTurn
  <1>2. QED  BY OrderAlways, <1>1, PTL DEF Spec, ClaimsInTurn

-----------------------------------------------------------------------------
(* The outbox implements the abstract queue.                               *)

LEMMA QueueInit == Init => Queue!Init
  BY DEF Init, Queue!Init

LEMMA QueueNext == Inv /\ [Next]_vars => [Queue!Next]_(Queue!vars)
  <1> DEFINE state == [t \in Task |-> IF status[t] \in {"NONE", "DONE"}
                                        THEN status[t] ELSE "OPEN"]
  <1> SUFFICES ASSUME Inv, [Next]_vars
               PROVE  Queue!Next \/ UNCHANGED <<state, answered, overran>>
    BY DEF Queue!vars
  <1> USE DEF Queue!Move, TypeOK
  <1>1. CASE UNCHANGED vars
    BY <1>1 DEF vars
  <1>2. ASSUME NEW t \in Task, Enqueue(t)  PROVE Queue!Write(t)
    BY <1>2 DEF Enqueue, Queue!Write, Inv
  <1>3. ASSUME NEW t \in Task, Elapse(t)  PROVE UNCHANGED <<state, answered, overran>>
    BY <1>3 DEF Elapse
  <1>4. ASSUME NEW t \in Task, Lapse(t)
        PROVE  Queue!Overrun(t) \/ UNCHANGED <<state, answered, overran>>
    <2>1. state[t] # "NONE"
      BY <1>4 DEF Lapse, Inv, RowInv, Status
    <2>2. QED  BY <1>4, <2>1 DEF Lapse, Queue!Overrun
  <1>5. ASSUME NEW w \in Worker, Select(w) \/ Stop(w)
        PROVE  UNCHANGED <<state, answered, overran>>
    BY <1>5 DEF Select, Stop
  <1>6. ASSUME NEW w \in Worker, Lease(w)  PROVE UNCHANGED <<state, answered, overran>>
    <2>1. \A t \in locked[w] : t \in Task /\ status[t] \in {"PENDING", "PROCESSING"}
      BY DEF Inv, ClaimInv
    <2>2. QED  BY <1>6, <2>1 DEF Lease, Inv
  <1>7. ASSUME NEW w \in Worker, NEW t \in Task, Succeed(w, t)  PROVE Queue!CarryOut(t)
    <2>1. state[t] # "NONE"
      BY <1>7 DEF Succeed, Answer, Inv, RowInv, Status
    <2>2. QED  BY <1>7, <2>1 DEF Succeed, Answer, Queue!CarryOut
  <1>8. ASSUME NEW w \in Worker, NEW t \in Task, Raise(w, t)
        PROVE  UNCHANGED <<state, answered, overran>>
    BY <1>8 DEF Raise, Answer
  <1>9. ASSUME NEW w \in Worker, NEW t \in Task, MarkDone(w, t)
        PROVE  Queue!Finish(t) \/ UNCHANGED <<state, answered, overran>>
    <2>1. t \in answered /\ status[t] # "NONE"
      BY <1>9 DEF MarkDone, Inv, SaidInv, RowInv
    <2>2. status' = [status EXCEPT ![t] = "DONE"] /\ UNCHANGED <<answered, overran>>
      BY <1>9 DEF MarkDone
    <2>3. QED  BY <2>1, <2>2 DEF Inv, Status, Queue!Finish
  <1>10. ASSUME NEW w \in Worker, NEW t \in Task, MarkFailed(w, t)
         PROVE  Queue!Reopen(t) \/ UNCHANGED <<state, answered, overran>>
    <2>1. status[t] # "NONE" /\ (t \in overran \/ status[t] = "PROCESSING")
      BY <1>10 DEF MarkFailed, Inv, SaidInv, RowInv, ClaimInv
    <2>2. status' = [status EXCEPT ![t] = "PENDING"] /\ UNCHANGED <<answered, overran>>
      BY <1>10 DEF MarkFailed
    <2>3. QED  BY <2>1, <2>2 DEF Inv, Status, Queue!Reopen
  <1>11. QED
    BY <1>1, <1>2, <1>3, <1>4, <1>5, <1>6, <1>7, <1>8, <1>9, <1>10
       DEF Next, Run, Overflow, Die, Queue!Next

\* Whatever workers do and whenever they die, the outbox is the abstract queue:
\* no task is lost, none is DONE before process_task returned for it, and a DONE
\* task is opened again only after an overrun (the whole of outbox_repo.py).
THEOREM OutboxImplementsQueue == Spec => QueueSpec
  BY InvAlways, QueueInit, QueueNext, PTL DEF Spec, QueueSpec, Queue!Spec
=============================================================================
