---------------------- MODULE ReservationOutcomeProofs ----------------------
(***************************************************************************)
(* Proofs about what becomes of a hold at a provider: the order that was   *)
(* confirmed to the client is backed by confirmed holds, an order that     *)
(* waits is driven forward, and no known hold is forgotten.                *)
(***************************************************************************)
EXTENDS ReservationProtocolProofs

-----------------------------------------------------------------------------
(* The invariant, line by line.                                            *)

\* The holds that no call changes any more.
Over == {"lapsed", "released"}

\* What a handler has in its memory is what its provider still says, and create
\* remembers one answer at a time.
Remembered(l) ==
    \/ /\ pc[Owner(l)] = "calls" /\ FirstReserving(l)
       /\ ans[l] = "ok" => remote[Slot(l)] # "none"
    \/ /\ pc[Owner(l)] = "confirm" /\ l \in OtherLines(Owner(l))
       /\ ans[l] \in {"ok", "rejected", "error"}
       /\ ans[l] = "ok" => remote[Slot(l)] = "confirmed"
       /\ ans[l] = "rejected" => remote[Slot(l)] \in Over \cup {"refused"}

\* A hold that the database has was asked for at the provider, and only lines of
\* a provider that takes reservations ask.
Asked(l) ==
    IF Local(l) THEN remote[Slot(l)] = "none"
                     /\ hold[l] \notin {"RESERVING", "PENDING_UNKNOWN"}
    ELSE hold[l] \in {"HELD", "RELEASED"} => remote[Slot(l)] # "none"

\* Only a create that failed writes RELEASED.
Known(l) ==
    /\ ans[l] # "none" => Remembered(l)
    /\ Asked(l)
    /\ hold[l] = "RELEASED" => resv[Owner(l)] = "FAILED"

\* The three promises.
Honest(l) ==
    order[Owner(l)] = "CONFIRMED" =>
        IF Internal(l) THEN l \in sold ELSE remote[Slot(l)] = "confirmed"

Driven(l) ==
    order[Owner(l)] = "PENDING_FULFILMENT" /\ ~Internal(l)
        => \/ remote[Slot(l)] = "confirmed"
           \/ outbox[<<"confirm", l>>] = "PENDING"

Followed(l) ==
    /\ remote[Slot(l)] \in Kept
    /\ resv[Owner(l)] \in {"CONFIRMED", "CANCELLED", "EXPIRED", "FAILED"}
    /\ hold[l] \in {"HELD", "RELEASED"}
    => \/ \E w \in Tracked : outbox[<<w, l>>] = "PENDING"
       \/ remote[Slot(l)] = "refused" /\ order[Owner(l)] = "NEEDS_RESOLUTION"

Fate(l) == Known(l) /\ Honest(l) /\ Driven(l) /\ Followed(l)

Outcome == \A l \in Line : Fate(l)

LEMMA OutcomeMeans == Outcome => ForwardDriven /\ NoUntrackedHold
BY DEF Outcome, Fate, Driven, Followed, ForwardDriven, NoUntrackedHold

LEMMA OutcomeInit == Init => Outcome
<1> SUFFICES ASSUME Init, NEW l \in Line PROVE Fate(l)
  BY DEF Outcome
<1>1. remote[Slot(l)] = "none" /\ order[Owner(l)] = "NONE"
  BY LineFacts DEF Init
<1>2. QED
  BY <1>1 DEF Init, Fate, Known, Asked, Honest, Driven, Followed, Kept

-----------------------------------------------------------------------------
(* Lines, and the lines a step does not touch.                             *)

LEMMA LineNames ==
    ASSUME NEW l \in Line
    PROVE  l \in Lines(Owner(l)) /\ l = <<Owner(l), l[2]>> /\ l[2] \in Nat
BY CartAssumption DEF Line, Lines, Owner

LEMMA SlotNames ==
    ASSUME NEW l \in Line, NEW m \in Line, Slot(l) = Slot(m)
    PROVE  /\ Owner(l) = Owner(m) /\ SkuOf(l) = SkuOf(m)
           /\ Local(l) = Local(m) /\ Internal(l) = Internal(m)
BY DEF Slot, Local, Internal

\* No line comes first beside another.
LEMMA OneFirst ==
    ASSUME NEW l \in Line, NEW m \in Line, Owner(l) = Owner(m),
           FirstReserving(l), FirstReserving(m)
    PROVE  l = m
<1>1. l[2] <= m[2] /\ m[2] <= l[2]
  BY LineNames DEF FirstReserving
<1>2. QED
  BY <1>1, LineNames

\* A step leaves the reservation r as it is, and takes no task from the outbox.
Passes(r) ==
    /\ pc'[r] = pc[r] /\ resv'[r] = resv[r] /\ order'[r] = order[r]
    /\ \A l \in Lines(r) :
          /\ ans'[l] = ans[l] /\ hold'[l] = hold[l]
          /\ remote'[Slot(l)] = remote[Slot(l)]
          /\ l \in sold => l \in sold'
          /\ \A w \in Why : outbox[<<w, l>>] = "PENDING" => outbox'[<<w, l>>] = "PENDING"

LEMMA Bystander ==
    ASSUME Outcome, NEW l \in Line, Passes(Owner(l))
    PROVE  Fate(l)'
<1>1. l \in Lines(Owner(l)) /\ Fate(l)
  BY LineNames DEF Outcome
<1>2. FirstReserving(l)' = FirstReserving(l)
  BY <1>1 DEF FirstReserving, Passes, Lines
<1>3. (l \in OtherLines(Owner(l)))' = (l \in OtherLines(Owner(l)))
  BY DEF OtherLines, Lines
<1>4. Known(l)'
  BY <1>1, <1>2, <1>3 DEF Fate, Known, Remembered, Asked, Passes
<1>5. Honest(l)' /\ Driven(l)' /\ Followed(l)'
  BY <1>1 DEF Fate, Honest, Driven, Followed, Passes, Why, Tracked
<1>6. QED
  BY <1>4, <1>5 DEF Fate

LEMMA EnqueueKeeps ==
    ASSUME NEW T, outbox' = Enqueue(T), NEW l \in Line, NEW w \in Why
    PROVE  /\ outbox[<<w, l>>] = "PENDING" => outbox'[<<w, l>>] = "PENDING"
           /\ <<w, l>> \in T => outbox'[<<w, l>>] = "PENDING"
BY DEF Enqueue, Task

\* Before its order exists a reservation is promised nothing.
LEMMA NoOrderYet ==
    ASSUME Protocol, NEW l \in Line, resv[Owner(l)] # "CONFIRMED"
    PROVE  order[Owner(l)] = "NONE"
BY LineFacts DEF Protocol, OrderLast

\* A handler that is neither calling nor confirming remembers nothing.
LEMMA NothingRemembered ==
    ASSUME Outcome, NEW l \in Line, pc[Owner(l)] \notin {"calls", "confirm"}
    PROVE  ans[l] = "none"
BY DEF Outcome, Fate, Known, Remembered

-----------------------------------------------------------------------------
(* Create.                                                                 *)

\* The steps that touch no line and no order: handlers that begin or end with
\* nothing remembered, and what clients and the clock do.
LEMMA QuietOutcome ==
    ASSUME Outcome, UNCHANGED <<resv, hold, order, sold, outbox, remote>>,
           \A r \in Resv : \/ pc'[r] = pc[r] /\ \A l \in Lines(r) : ans'[l] = ans[l]
                           \/ \A l \in Lines(r) : ans'[l] = "none"
    PROVE  Outcome'
<1> SUFFICES ASSUME NEW l \in Line PROVE Fate(l)'
  BY DEF Outcome
<1>1. l \in Lines(Owner(l)) /\ Owner(l) \in Resv /\ Fate(l)
  BY LineNames, LineFacts DEF Outcome
<1>2. CASE pc'[Owner(l)] = pc[Owner(l)] /\ \A m \in Lines(Owner(l)) : ans'[m] = ans[m]
  BY <1>2, Bystander DEF Passes
<1>3. CASE \A m \in Lines(Owner(l)) : ans'[m] = "none"
  BY <1>1, <1>3 DEF Fate, Known, Asked, Honest, Driven, Followed
<1>4. QED
  BY <1>1, <1>2, <1>3

LEMMA Tx1CommitOutcome ==
    ASSUME TypeOK, Protocol, Outcome, NEW r \in Resv, Tx1Commit(r)
    PROVE  Outcome'
<1> SUFFICES ASSUME NEW l \in Line PROVE Fate(l)'
  BY DEF Outcome
<1>1. /\ resv' = [resv EXCEPT ![r] = "INITIALIZING"]
      /\ pc' = [pc EXCEPT ![r] = "calls"]
      /\ hold' = [m \in Line |-> IF Owner(m) # r THEN hold[m]
                                 ELSE IF Local(m) THEN "HELD" ELSE "RESERVING"]
      /\ UNCHANGED <<order, sold, outbox, remote, ans>>
      /\ pc[r] = "tx1" /\ resv[r] = "NONE"
  BY DEF Tx1Commit, KeyTaken
<1>2. CASE Owner(l) # r
  <2>1. Passes(Owner(l))
    BY <1>1, <1>2, LineFacts DEF Passes, Lines, TypeOK
  <2>2. QED
    BY <2>1, Bystander
<1>3. CASE Owner(l) = r
  <2>1. resv'[r] = "INITIALIZING" /\ order[r] = "NONE" /\ ans[l] = "none"
    BY <1>1, <1>3, NoOrderYet, NothingRemembered DEF TypeOK
  <2>2. Asked(l) /\ hold'[l] = IF Local(l) THEN "HELD" ELSE "RESERVING"
    BY <1>1, <1>3 DEF Outcome, Fate, Known
  <2>3. Known(l)'
    BY <1>1, <1>3, <2>1, <2>2 DEF Known, Asked, Local
  <2>4. QED
    BY <1>1, <1>3, <2>1, <2>3 DEF Fate, Honest, Driven, Followed
<1>4. QED
  BY <1>2, <1>3

\* Two lines on one sku share what the provider says: an answer to one changes
\* nothing that is known of the other.
LEMMA CallReserveOutcome ==
    ASSUME TypeOK, Protocol, Outcome, NEW k \in Line, CallReserve(k)
    PROVE  Outcome'
<1> SUFFICES ASSUME NEW l \in Line PROVE Fate(l)'
  BY DEF Outcome
<1>1. PICK o \in ReserveOutcomes(remote[Slot(k)]) :
         /\ ans' = [ans EXCEPT ![k] = o[1]]
         /\ remote' = [remote EXCEPT ![Slot(k)] = o[2]]
  BY DEF CallReserve
<1>2. /\ UNCHANGED <<resv, hold, order, sold, outbox, pc>>
      /\ pc[Owner(k)] = "calls" /\ FirstReserving(k)
  BY DEF CallReserve
<1>3. (o[2] = remote[Slot(k)] \/ o[2] = "held") /\ (o[1] = "ok" => o[2] = "held")
  BY DEF ReserveOutcomes
<1>4. ~Local(k)
  BY <1>2 DEF Outcome, Fate, Known, Asked, FirstReserving
<1>5. CASE Owner(l) # Owner(k)
  <2>1. ASSUME NEW m \in Lines(Owner(l))
        PROVE  m \in Line /\ m # k /\ Slot(m) # Slot(k)
    BY <1>5, SlotNames DEF Lines
  <2>2. Passes(Owner(l))
    BY <1>1, <1>2, <2>1, LineFacts DEF Passes, TypeOK
  <2>3. QED
    BY <2>2, Bystander
<1>6. CASE Owner(l) = Owner(k)
  <2>1. resv[Owner(l)] = "INITIALIZING" /\ order[Owner(l)] = "NONE"
    BY <1>2, <1>6, NoOrderYet, LineFacts DEF Protocol, Owned
  <2>2. Known(l) /\ (FirstReserving(l)' = FirstReserving(l))
    BY <1>2 DEF Outcome, Fate, FirstReserving
  <2>3. \/ remote'[Slot(l)] = remote[Slot(l)]
        \/ Slot(l) = Slot(k) /\ remote'[Slot(l)] = "held"
    BY <1>1, <1>3, LineFacts DEF TypeOK
  <2>4. Asked(l)'
    BY <1>2, <1>4, <2>2, <2>3, SlotNames DEF Known, Asked, Local
  <2>5. ASSUME ans'[l] # "none"
        PROVE  Remembered(l)'
    <3>1. l = k
      <4>1. SUFFICES ASSUME l # k PROVE FALSE
        OBVIOUS
      <4>2. ans[l] # "none"
        BY <1>1, <2>5, <4>1 DEF TypeOK
      <4>3. FirstReserving(l)
        BY <1>2, <1>6, <2>2, <4>2 DEF Known, Remembered
      <4>4. QED
        BY <1>2, <1>6, <4>1, <4>3, OneFirst
    <3>2. ans'[l] = o[1] /\ remote'[Slot(l)] = o[2]
      BY <1>1, <3>1, LineFacts DEF TypeOK
    <3>3. QED
      BY <1>2, <1>3, <2>2, <3>1, <3>2 DEF Remembered
  <2>6. QED
    BY <1>2, <2>1, <2>2, <2>4, <2>5 DEF Fate, Known, Honest, Driven, Followed
<1>7. QED
  BY <1>5, <1>6

LEMMA SaveItemOutcome ==
    ASSUME TypeOK, Protocol, Outcome, NEW k \in Line, SaveItem(k)
    PROVE  Outcome'
<1> SUFFICES ASSUME NEW l \in Line PROVE Fate(l)'
  BY DEF Outcome
<1>1. /\ pc[Owner(k)] = "calls" /\ hold[k] = "RESERVING" /\ ans[k] # "none"
      /\ hold' = [hold EXCEPT ![k] = HoldAfter(ans[k])]
      /\ ans' = [ans EXCEPT ![k] = "none"]
      /\ UNCHANGED <<resv, order, sold, remote>>
      /\ pc' = [pc EXCEPT ![Owner(k)] = IF ans[k] = "ok" THEN "calls" ELSE "fail"]
  BY DEF SaveItem
<1>2. PICK T : outbox' = Enqueue(T)
  <2>1. outbox' = Enqueue({<<"reconcile", k>>}) \/ outbox' = Enqueue({})
    BY DEF SaveItem, Enqueue, TypeOK
  <2>2. QED
    BY <2>1
<1>3. CASE Owner(l) # Owner(k)
  <2>1. ASSUME NEW m \in Lines(Owner(l))
        PROVE  m \in Line /\ m # k
    BY <1>3 DEF Lines
  <2>2. Passes(Owner(l))
    BY <1>1, <1>2, <1>3, <2>1, EnqueueKeeps, LineFacts DEF Passes, TypeOK
  <2>3. QED
    BY <2>2, Bystander
<1>4. CASE Owner(l) = Owner(k)
  <2>1. resv[Owner(l)] = "INITIALIZING" /\ order[Owner(l)] = "NONE"
    BY <1>1, <1>4, NoOrderYet, LineFacts DEF Protocol, Owned
  <2>2. Known(l) /\ Known(k)
    BY DEF Outcome, Fate
  <2>3. ans'[l] = "none"
    <3>1. CASE l = k
      BY <1>1, <3>1 DEF TypeOK
    <3>2. CASE l # k
      <4>1. ans[l] # "none" => FirstReserving(l) /\ FirstReserving(k)
        BY <1>1, <1>4, <2>2 DEF Known, Remembered
      <4>2. ans[l] = "none"
        BY <1>4, <3>2, <4>1, OneFirst
      <4>3. QED
        BY <1>1, <3>2, <4>2 DEF TypeOK
    <3>3. QED
      BY <3>1, <3>2
  <2>4. Known(l)'
    <3>1. CASE l # k
      BY <1>1, <2>2, <2>3, <3>1 DEF Known, Asked, Local, TypeOK
    <3>2. CASE l = k
      <4>1. hold'[k] = HoldAfter(ans[k]) /\ ~Local(k)
        BY <1>1, <2>2 DEF Known, Asked, TypeOK
      <4>2. ans[k] = "ok" => remote[Slot(k)] # "none"
        BY <1>1, <2>2 DEF Known, Remembered
      <4>3. QED
        BY <1>1, <2>3, <3>2, <4>1, <4>2 DEF Known, Asked, Local, HoldAfter
    <3>3. QED
      BY <3>1, <3>2
  <2>5. QED
    BY <1>1, <2>1, <2>4 DEF Fate, Honest, Driven, Followed
<1>5. QED
  BY <1>3, <1>4

LEMMA FinalizeOkOutcome ==
    ASSUME TypeOK, Protocol, Outcome, NEW r \in Resv, FinalizeOk(r)
    PROVE  Outcome'
<1> SUFFICES ASSUME NEW l \in Line PROVE Fate(l)'
  BY DEF Outcome
<1>1. /\ pc[r] = "calls" /\ \A m \in Lines(r) : hold[m] # "RESERVING"
      /\ resv' = [resv EXCEPT ![r] = "PENDING"]
      /\ pc' = [pc EXCEPT ![r] = "idle"]
      /\ UNCHANGED <<hold, order, sold, outbox, remote, ans>>
  BY DEF FinalizeOk
<1>2. CASE Owner(l) # r
  <2>1. Passes(Owner(l))
    BY <1>1, <1>2, LineFacts DEF Passes, TypeOK
  <2>2. QED
    BY <2>1, Bystander
<1>3. CASE Owner(l) = r
  <2>1. resv[r] = "INITIALIZING" /\ resv'[r] = "PENDING" /\ order[r] = "NONE"
    BY <1>1, <1>3, NoOrderYet DEF Protocol, Owned, TypeOK
  <2>2. Known(l) /\ l \in Lines(r)
    BY <1>3, LineNames DEF Outcome, Fate
  <2>3. ans[l] = "none"
    BY <1>1, <1>3, <2>2 DEF Known, Remembered, FirstReserving
  <2>4. Known(l)'
    BY <1>1, <1>3, <2>1, <2>2, <2>3 DEF Known, Asked, Local
  <2>5. QED
    BY <1>1, <1>3, <2>1, <2>4 DEF Fate, Honest, Driven, Followed
<1>4. QED
  BY <1>2, <1>3

\* Every line that the failed create holds at a provider gets its RELEASE task in
\* the transaction that writes FAILED.
LEMMA FinalizeFailOutcome ==
    ASSUME TypeOK, Protocol, Outcome, NEW r \in Resv, FinalizeFail(r)
    PROVE  Outcome'
<1> SUFFICES ASSUME NEW l \in Line PROVE Fate(l)'
  BY DEF Outcome
<1> DEFINE owed == {m \in HeldLines(r) : ~Local(m)}
<1>1. /\ pc[r] = "fail"
      /\ hold' = [m \in Line |-> IF Owner(m) # r           THEN hold[m]
                                 ELSE IF hold[m] = "RESERVING" THEN "FAILED"
                                 ELSE IF hold[m] = "HELD"      THEN "RELEASED"
                                 ELSE hold[m]]
      /\ resv' = [resv EXCEPT ![r] = "FAILED"]
      /\ pc' = [pc EXCEPT ![r] = "idle"]
      /\ UNCHANGED <<order, sold, remote, ans>>
  BY DEF FinalizeFail
<1>2. outbox' = Enqueue({"release"} \X owed)
  <2>1. owed = HeldLines(r) \ {m \in HeldLines(r) : Local(m)}
    OBVIOUS
  <2>2. QED
    BY <2>1 DEF FinalizeFail
<1> HIDE DEF owed
<1>3. CASE Owner(l) # r
  <2>1. Passes(Owner(l))
    BY <1>1, <1>2, <1>3, EnqueueKeeps, LineFacts DEF Passes, Lines, TypeOK
  <2>2. QED
    BY <2>1, Bystander
<1>4. CASE Owner(l) = r
  <2>1. resv[r] = "INITIALIZING" /\ resv'[r] = "FAILED" /\ order[r] = "NONE"
    BY <1>1, <1>4, NoOrderYet DEF Protocol, Owned, TypeOK
  <2>2. Known(l) /\ ans[l] = "none" /\ l \in Lines(r)
    BY <1>1, <1>4, NothingRemembered, LineNames DEF Outcome, Fate
  <2>3. hold'[l] = IF hold[l] = "RESERVING" THEN "FAILED"
                   ELSE IF hold[l] = "HELD" THEN "RELEASED" ELSE hold[l]
    BY <1>1, <1>4
  <2>4. Known(l)'
    BY <1>1, <1>4, <2>1, <2>2, <2>3 DEF Known, Asked, Local
  <2>5. Followed(l)'
    <3> SUFFICES ASSUME remote'[Slot(l)] \in Kept, hold'[l] \in {"HELD", "RELEASED"}
                 PROVE  outbox'[<<"release", l>>] = "PENDING"
      BY DEF Followed, Tracked, Kept
    <3>1. hold[l] = "HELD"
      BY <1>4, <2>1, <2>2, <2>3 DEF Known
    <3>2. ~Local(l)
      BY <1>1, <2>2 DEF Known, Asked, Kept
    <3>3. <<"release", l>> \in {"release"} \X owed
      BY <2>2, <3>1, <3>2 DEF owed, HeldLines
    <3>4. QED
      BY <1>2, <3>3, EnqueueKeeps DEF Why
  <2>6. QED
    BY <1>1, <1>4, <2>1, <2>4, <2>5 DEF Fate, Honest, Driven
<1>5. QED
  BY <1>3, <1>4

\* A reserve that arrives late makes a hold of what was none: no promise was
\* made on it, as it had no answer.
LEMMA LateArrivalOutcome ==
    ASSUME TypeOK, Protocol, Outcome, NEW k \in Line, LateArrival(k)
    PROVE  Outcome'
<1> SUFFICES ASSUME NEW l \in Line PROVE Fate(l)'
  BY DEF Outcome
<1>1. /\ hold[k] = "PENDING_UNKNOWN" /\ remote[Slot(k)] = "none"
      /\ remote' = [remote EXCEPT ![Slot(k)] = "held"]
      /\ UNCHANGED <<resv, hold, order, sold, outbox, pc, ans>>
  BY DEF LateArrival
<1>2. Fate(l) /\ ~Local(k)
  BY <1>1 DEF Outcome, Fate, Known, Asked
<1>3. FirstReserving(l)' = FirstReserving(l)
  BY <1>1 DEF FirstReserving
<1>4. CASE Slot(l) # Slot(k)
  <2>1. remote'[Slot(l)] = remote[Slot(l)]
    BY <1>1, <1>4, LineFacts DEF TypeOK
  <2>2. Known(l)'
    BY <1>1, <1>2, <1>3, <2>1
    DEF Fate, Known, Remembered, Asked, OtherLines, Internal, Local
  <2>3. Honest(l)' /\ Driven(l)'
    BY <1>1, <1>2, <2>1 DEF Fate, Honest, Driven, Internal
  <2>4. Followed(l)'
    BY <1>1, <1>2, <2>1 DEF Fate, Followed
  <2>5. QED
    BY <2>2, <2>3, <2>4 DEF Fate
<1>5. CASE Slot(l) = Slot(k)
  <2>1. remote[Slot(l)] = "none" /\ remote'[Slot(l)] = "held" /\ ~Local(l) /\ ~Internal(l)
    BY <1>1, <1>2, <1>5, LineFacts, SlotNames DEF TypeOK, Local, Internal
  <2>2. hold[l] \notin {"HELD", "RELEASED"}
    BY <1>2, <2>1 DEF Fate, Known, Asked
  <2>3. Known(l)'
    BY <1>1, <1>2, <1>3, <2>1, <2>2
    DEF Fate, Known, Remembered, Asked, OtherLines, Local, Internal, Over
  <2>4. Honest(l)'
    <3>1. order[Owner(l)] # "CONFIRMED"
      BY <1>2, <2>1 DEF Fate, Honest
    <3>2. QED
      BY <1>1, <3>1 DEF Honest
  <2>5. Driven(l)'
    <3>1. order[Owner(l)] = "PENDING_FULFILMENT" => outbox[<<"confirm", l>>] = "PENDING"
      BY <1>2, <2>1 DEF Fate, Driven
    <3>2. QED
      BY <1>1, <3>1 DEF Driven
  <2>6. Followed(l)'
    BY <1>1, <2>2 DEF Followed
  <2>7. QED
    BY <2>3, <2>4, <2>5, <2>6 DEF Fate
<1>6. QED
  BY <1>4, <1>5

-----------------------------------------------------------------------------
(* Confirm.                                                                *)

LEMMA ConfirmClaimOutcome ==
    ASSUME TypeOK, Protocol, Outcome, NEW r \in Resv, ConfirmClaim(r)
    PROVE  Outcome'
<1> SUFFICES ASSUME NEW l \in Line PROVE Fate(l)'
  BY DEF Outcome
<1>1. /\ pc[r] = "idle" /\ resv[r] = "PENDING"
      /\ resv' = [resv EXCEPT ![r] = "CONFIRMING"]
      /\ pc' = [pc EXCEPT ![r] = "confirm"]
      /\ UNCHANGED <<hold, order, sold, outbox, remote, ans>>
  BY DEF ConfirmClaim
<1>2. CASE Owner(l) # r
  <2>1. Passes(Owner(l))
    BY <1>1, <1>2, LineFacts DEF Passes, TypeOK
  <2>2. QED
    BY <2>1, Bystander
<1>3. CASE Owner(l) = r
  <2>1. resv'[r] = "CONFIRMING" /\ order[r] = "NONE" /\ ans[l] = "none" /\ Known(l)
    BY <1>1, <1>3, NoOrderYet, NothingRemembered DEF TypeOK, Outcome, Fate
  <2>2. Known(l)'
    BY <1>1, <1>3, <2>1 DEF Known, Asked, Local
  <2>3. QED
    BY <1>1, <1>3, <2>1, <2>2 DEF Fate, Honest, Driven, Followed
<1>4. QED
  BY <1>2, <1>3

\* What a confirm call changes is what it says.
LEMMA ConfirmAnswers ==
    ASSUME NEW v \in Remote, NEW o \in ConfirmOutcomes(v)
    PROVE  /\ o[1] \in {"ok", "rejected", "error"}
           /\ o[1] = "ok" => o[2] = "confirmed"
           /\ o[1] = "rejected" => o[2] \in Over \cup {"refused"}
           /\ v = "none" <=> o[2] = "none"
           /\ o[2] \in Kept => v \in Kept
           /\ v = "confirmed" => o[2] = "confirmed"
           /\ v \in Over \cup {"refused"} => o[2] = v
BY DEF ConfirmOutcomes, Remote, Over, Kept

LEMMA CallConfirmOutcome ==
    ASSUME TypeOK, Protocol, Outcome, NEW k \in Line, CallConfirm(k)
    PROVE  Outcome'
<1> SUFFICES ASSUME NEW l \in Line PROVE Fate(l)'
  BY DEF Outcome
<1> DEFINE v == remote[Slot(k)]
<1>1. PICK o \in ConfirmOutcomes(v) :
         /\ ans' = [ans EXCEPT ![k] = o[1]]
         /\ remote' = [remote EXCEPT ![Slot(k)] = o[2]]
  BY DEF CallConfirm
<1>2. /\ UNCHANGED <<resv, hold, order, sold, outbox, pc>>
      /\ pc[Owner(k)] = "confirm" /\ k \in OtherLines(Owner(k))
  BY DEF CallConfirm
<1>3. /\ o[1] \in {"ok", "rejected", "error"}
      /\ o[1] = "ok" => o[2] = "confirmed"
      /\ o[1] = "rejected" => o[2] \in Over \cup {"refused"}
      /\ v = "none" <=> o[2] = "none"
      /\ v = "confirmed" => o[2] = "confirmed"
      /\ v \in Over \cup {"refused"} => o[2] = v
  BY ConfirmAnswers, LineFacts DEF TypeOK
<1>4. CASE Owner(l) # Owner(k)
  <2>1. ASSUME NEW m \in Lines(Owner(l))
        PROVE  m \in Line /\ m # k /\ Slot(m) # Slot(k)
    BY <1>4, SlotNames DEF Lines
  <2>2. Passes(Owner(l))
    BY <1>1, <1>2, <2>1, LineFacts DEF Passes, TypeOK
  <2>3. QED
    BY <2>2, Bystander
<1>5. CASE Owner(l) = Owner(k)
  <2>1. resv[Owner(l)] = "CONFIRMING" /\ order[Owner(l)] = "NONE"
    BY <1>2, <1>5, NoOrderYet, LineFacts DEF Protocol, Owned
  <2>2. Known(l)
    BY DEF Outcome, Fate
  <2>3. \/ remote'[Slot(l)] = remote[Slot(l)]
        \/ remote[Slot(l)] = v /\ remote'[Slot(l)] = o[2]
    BY <1>1, LineFacts DEF TypeOK
  <2>4. Asked(l)'
    BY <1>2, <1>3, <2>2, <2>3 DEF Known, Asked, Local
  <2>5. ASSUME ans'[l] # "none"
        PROVE  Remembered(l)'
    <3>1. CASE l = k
      <4>1. ans'[l] = o[1] /\ remote'[Slot(l)] = o[2]
        BY <1>1, <3>1, LineFacts DEF TypeOK
      <4>2. QED
        BY <1>2, <1>3, <3>1, <4>1 DEF Remembered, OtherLines, Lines, Internal
    <3>2. CASE l # k
      <4>1. ans'[l] = ans[l]
        BY <1>1, <3>2 DEF TypeOK
      <4>2. Remembered(l)
        BY <2>2, <2>5, <4>1 DEF Known
      <4>3. QED
        BY <1>2, <1>3, <1>5, <2>3, <4>1, <4>2 DEF Remembered, OtherLines, Lines, Internal
    <3>3. QED
      BY <3>1, <3>2
  <2>6. QED
    BY <1>2, <2>1, <2>2, <2>4, <2>5 DEF Fate, Known, Honest, Driven, Followed
<1>6. QED
  BY <1>4, <1>5

\* CONFIRMED is written only when every line had its answer, and that answer was
\* yes; a line whose call failed leaves with a CONFIRM task.
LEMMA ConfirmCommitOutcome ==
    ASSUME TypeOK, Protocol, Outcome, NEW r \in Resv, ConfirmCommit(r)
    PROVE  Outcome'
<1> SUFFICES ASSUME NEW l \in Line PROVE Fate(l)'
  BY DEF Outcome
<1>1. /\ pc[r] = "confirm" /\ Answered(r, "none") = {}
      /\ resv' = [resv EXCEPT ![r] = "CONFIRMED"]
      /\ ans' = Forget(r)
      /\ pc' = [pc EXCEPT ![r] = "idle"]
      /\ UNCHANGED <<hold, remote>>
  BY DEF ConfirmCommit
<1>2. PICK took \in SUBSET Lines(r), needsResolution \in BOOLEAN :
         /\ needsResolution <=> \/ took # {m \in Lines(r) : Internal(m)}
                                \/ Answered(r, "rejected") # {}
         /\ sold' = sold \cup took \cup Answered(r, "ok")
         /\ outbox' = Enqueue(ConfirmTasks(r, needsResolution))
         /\ order' = [order EXCEPT ![r] = OrderAfter(r, needsResolution)]
  BY DEF ConfirmCommit
<1>3. CASE Owner(l) # r
  <2>1. \A m \in Lines(Owner(l)) : m \in Line /\ ans'[m] = ans[m]
    BY <1>1, <1>3 DEF Forget, Lines
  <2>2. Passes(Owner(l))
    BY <1>1, <1>2, <1>3, <2>1, EnqueueKeeps, LineFacts DEF Passes, TypeOK
  <2>3. QED
    BY <2>2, Bystander
<1>4. CASE Owner(l) = r
  <2>1. /\ resv[r] = "CONFIRMING" /\ resv'[r] = "CONFIRMED" /\ ans'[l] = "none"
        /\ order'[r] = OrderAfter(r, needsResolution)
    BY <1>1, <1>2, <1>4 DEF Protocol, Owned, TypeOK, Forget
  <2>2. Known(l) /\ l \in Lines(r)
    BY <1>4, LineNames DEF Outcome, Fate
  <2>3. Known(l)'
    BY <1>1, <1>4, <2>1, <2>2 DEF Known, Asked, Local
  <2>4. ASSUME ~Internal(l)
        PROVE  /\ l \in OtherLines(r)
               /\ ans[l] \in {"ok", "rejected", "error"}
               /\ ans[l] = "ok" => remote[Slot(l)] = "confirmed"
               /\ ans[l] = "rejected" => remote[Slot(l)] \in Over \cup {"refused"}
    <3>1. l \in OtherLines(r) /\ ans[l] # "none"
      BY <1>1, <2>2, <2>4 DEF OtherLines, Answered
    <3>2. QED
      BY <1>1, <1>4, <2>2, <3>1 DEF Known, Remembered
  <2>5. ASSUME ~Internal(l), ans[l] = "error"
        PROVE  outbox'[<<"confirm", l>>] = "PENDING"
    <3>1. <<"confirm", l>> \in ConfirmTasks(r, needsResolution)
      BY <2>4, <2>5 DEF ConfirmTasks, Answered
    <3>2. QED
      BY <1>2, <3>1, EnqueueKeeps DEF Why
  <2>6. Honest(l)'
    <3> SUFFICES ASSUME OrderAfter(r, needsResolution) = "CONFIRMED"
                 PROVE  IF Internal(l) THEN l \in sold' ELSE remote[Slot(l)] = "confirmed"
      BY <1>1, <1>4, <2>1 DEF Honest, Internal
    <3>1. ~needsResolution /\ Answered(r, "error") = {}
      BY DEF OrderAfter
    <3>2. CASE Internal(l)
      BY <1>2, <2>2, <3>1, <3>2
    <3>3. CASE ~Internal(l)
      BY <1>2, <2>4, <3>1, <3>3 DEF Answered
    <3>4. QED
      BY <3>2, <3>3
  <2>7. Driven(l)'
    <3> SUFFICES ASSUME OrderAfter(r, needsResolution) = "PENDING_FULFILMENT", ~Internal(l)
                 PROVE  \/ remote[Slot(l)] = "confirmed"
                        \/ outbox'[<<"confirm", l>>] = "PENDING"
      BY <1>1, <1>4, <2>1 DEF Driven, Internal
    <3>1. Answered(r, "rejected") = {}
      BY <1>2 DEF OrderAfter
    <3>2. QED
      BY <2>4, <2>5, <3>1 DEF Answered
  <2>8. Followed(l)'
    <3> SUFFICES ASSUME remote[Slot(l)] \in Kept,
                        ~(remote[Slot(l)] = "refused" /\ order'[r] = "NEEDS_RESOLUTION")
                 PROVE  outbox'[<<"confirm", l>>] = "PENDING"
      BY <1>1, <1>4 DEF Followed, Tracked
    <3>1. ~Internal(l)
      BY <2>2 DEF Known, Asked, Local, Internal, Kept
    <3>2. ans[l] # "rejected"
      <4>1. SUFFICES ASSUME ans[l] = "rejected" PROVE FALSE
        OBVIOUS
      <4>2. remote[Slot(l)] = "refused"
        BY <2>4, <3>1, <4>1 DEF Over, Kept
      <4>3. needsResolution
        BY <1>2, <2>4, <3>1, <4>1 DEF Answered
      <4>4. QED
        BY <2>1, <4>2, <4>3 DEF OrderAfter
    <3>3. QED
      BY <2>4, <2>5, <3>1, <3>2 DEF Kept
  <2>9. QED
    BY <2>3, <2>6, <2>7, <2>8 DEF Fate
<1>5. QED
  BY <1>3, <1>4

-----------------------------------------------------------------------------
(* Cancel and the sweeper.                                                 *)

LEMMA GiveUpOutcome ==
    ASSUME TypeOK, Protocol, Outcome, NEW R \in SUBSET Resv, NEW status, NEW why,
           <<status, why>> \in {<<"CANCELLED", "cancel">>, <<"EXPIRED", "expired">>},
           \A r \in R : resv[r] = "PENDING", GiveUp(R, status, why)
    PROVE  Outcome'
<1> SUFFICES ASSUME NEW l \in Line PROVE Fate(l)'
  BY DEF Outcome
<1> DEFINE held == UNION {HeldLines(r) : r \in R}
           owed == held \ {m \in held : Local(m)}
<1>1. /\ resv' = [r \in Resv |-> IF r \in R THEN status ELSE resv[r]]
      /\ outbox' = Enqueue({why} \X owed)
      /\ UNCHANGED <<hold, order, sold, remote, pc, ans>>
  BY DEF GiveUp
<1>2. \A m \in Line : hold[m] = "HELD" /\ Owner(m) \in R /\ ~Local(m) => m \in owed
  BY DEF HeldLines, Lines
<1> HIDE DEF owed
<1>3. CASE Owner(l) \notin R
  <2>1. ASSUME NEW m \in Lines(Owner(l)), NEW w \in Why, outbox[<<w, m>>] = "PENDING"
        PROVE  outbox'[<<w, m>>] = "PENDING"
    BY <1>1, <2>1, EnqueueKeeps DEF Lines
  <2>2. Passes(Owner(l))
    BY <1>1, <1>3, <2>1, LineFacts DEF Passes
  <2>3. QED
    BY <2>2, Bystander
<1>4. CASE Owner(l) \in R
  <2>1. resv'[Owner(l)] = status /\ order[Owner(l)] = "NONE"
    BY <1>1, <1>4, NoOrderYet
  <2>2. Known(l) /\ hold[l] # "RELEASED"
    BY <1>4 DEF Outcome, Fate, Known
  <2>3. FirstReserving(l)' = FirstReserving(l)
    BY <1>1 DEF FirstReserving
  <2>4. Known(l)'
    BY <1>1, <2>2, <2>3 DEF Known, Remembered, Asked, OtherLines, Local
  <2>5. Followed(l)'
    <3> SUFFICES ASSUME remote[Slot(l)] \in Kept, hold[l] = "HELD"
                 PROVE  outbox'[<<why, l>>] = "PENDING"
      BY <1>1, <2>2 DEF Followed, Tracked
    <3>1. ~Local(l)
      BY <2>2 DEF Known, Asked, Kept
    <3>2. <<why, l>> \in {why} \X owed /\ why \in Why
      BY <1>2, <1>4, <3>1 DEF Why
    <3>3. QED
      BY <1>1, <3>2, EnqueueKeeps
  <2>6. QED
    BY <1>1, <2>1, <2>4, <2>5 DEF Fate, Honest, Driven
<1>5. QED
  BY <1>3, <1>4

-----------------------------------------------------------------------------
(* The worker.                                                             *)

LEMMA WorkerAnswers ==
    ASSUME NEW t \in Task, NEW o \in WorkerOutcomes(t), remote[Slot(t[2])] \in Remote
    PROVE  LET v == remote[Slot(t[2])]
           IN  /\ v = "none" <=> o[2] = "none"
               /\ o[2] \in Kept => v \in Kept
               /\ v \in Over => o[2] = v
               /\ v = "refused" => o[2] \in {"refused", "released"}
               /\ v = "confirmed" /\ t[1] # "compensate" => o[2] = "confirmed"
               /\ t[1] \in Tracked /\ o[1] # "error" /\ o[2] \in Kept
                     => o[1] = "rejected" /\ o[2] = "refused"
               /\ t[1] = "confirm" /\ o[1] \notin {"error", "rejected"} => o[2] = "confirmed"
<1> DEFINE v == remote[Slot(t[2])]
<1>1. t[1] \in Why
  BY DEF Task
<1>2. CASE t[1] = "reconcile"
  BY <1>2 DEF WorkerOutcomes, TaskType, Tracked
<1>3. CASE t[1] = "confirm"
  <2>1. o \in ConfirmOutcomes(v)
    BY <1>3 DEF WorkerOutcomes, TaskType
  <2>2. QED
    BY <1>3, <2>1, ConfirmAnswers DEF Over, Kept
<1>4. CASE t[1] \in {"release", "cancel", "expired", "compensate"}
  <2>1. o \in ReleaseOutcomes(v) \/ (t[1] = "compensate" /\ o \in UnconfirmOutcomes(v))
    BY <1>4 DEF WorkerOutcomes, TaskType
  <2>2. CASE o \in ReleaseOutcomes(v)
    BY <1>4, <2>2 DEF ReleaseOutcomes, Over, Kept
  <2>3. CASE t[1] = "compensate" /\ o \in UnconfirmOutcomes(v)
    BY <2>3 DEF UnconfirmOutcomes, Over, Kept
  <2>4. QED
    BY <2>1, <2>2, <2>3
<1>5. QED
  BY <1>1, <1>2, <1>3, <1>4 DEF Why

\* A call for a task changes the one hold it is about, and only the undoing of a
\* confirm takes a confirmed hold away: its order has gone to resolution.
LEMMA WorkerCall ==
    ASSUME TypeOK, Protocol, NEW t \in Task, outbox[t] # "NONE",
           NEW o \in WorkerOutcomes(t), remote' = [remote EXCEPT ![Slot(t[2])] = o[2]],
           NEW l \in Line
    PROVE  LET v == remote[Slot(l)]
           IN  /\ v = "none" <=> remote'[Slot(l)] = "none"
               /\ remote'[Slot(l)] \in Kept => v \in Kept
               /\ v \in Over => remote'[Slot(l)] = v
               /\ v = "refused" => remote'[Slot(l)] \in {"refused", "released"}
               /\ v = "confirmed" /\ order[Owner(l)] # "NEEDS_RESOLUTION"
                     => remote'[Slot(l)] = "confirmed"
<1> DEFINE k == t[2]
<1>1. k \in Line /\ t = <<t[1], k>> /\ Slot(k) \in Slots /\ remote[Slot(k)] \in Remote
  BY LineFacts DEF Task, TypeOK
<1>2. CASE Slot(l) # Slot(k)
  <2>1. remote'[Slot(l)] = remote[Slot(l)]
    BY <1>2, LineFacts DEF TypeOK
  <2>2. QED
    BY <2>1
<1>3. CASE Slot(l) = Slot(k)
  <2>1. remote'[Slot(l)] = o[2] /\ remote[Slot(l)] = remote[Slot(k)]
    BY <1>1, <1>3 DEF TypeOK
  <2>2. t[1] = "compensate" => order[Owner(l)] = "NEEDS_RESOLUTION"
    <3>1. TaskFits(k)
      BY <1>1 DEF Protocol, TaskMeans
    <3>2. Owner(k) = Owner(l)
      BY <1>1, <1>3, SlotNames
    <3>3. QED
      BY <1>1, <3>1, <3>2 DEF TaskFits
  <2>3. QED
    BY <1>1, <2>1, <2>2, WorkerAnswers
<1>4. QED
  BY <1>2, <1>3

\* What is known of a line survives any worker's call.
LEMMA WorkerKnown ==
    ASSUME TypeOK, Protocol, NEW l \in Line, Known(l),
           UNCHANGED <<resv, hold, pc, ans>>,
           remote[Slot(l)] = "none" <=> remote'[Slot(l)] = "none",
           remote[Slot(l)] \in Over => remote'[Slot(l)] = remote[Slot(l)],
           remote[Slot(l)] = "refused" => remote'[Slot(l)] \in {"refused", "released"},
           remote[Slot(l)] = "confirmed" /\ order[Owner(l)] # "NEEDS_RESOLUTION"
              => remote'[Slot(l)] = "confirmed"
    PROVE  Known(l)'
<1>1. FirstReserving(l)' = FirstReserving(l)
  BY DEF FirstReserving
<1>2. pc[Owner(l)] = "confirm" => order[Owner(l)] = "NONE"
  BY NoOrderYet, LineFacts DEF Protocol, Owned
<1>3. QED
  BY <1>1, <1>2 DEF Known, Remembered, Asked, OtherLines, Internal, Local, Over

LEMMA DrainDoneOutcome ==
    ASSUME TypeOK, Protocol, Outcome, NEW t \in Task, DrainDone(t)
    PROVE  Outcome'
<1> SUFFICES ASSUME NEW l \in Line PROVE Fate(l)'
  BY DEF Outcome
<1> DEFINE k == t[2]
<1>1. PICK o \in WorkerOutcomes(t) :
         /\ o[1] # "error"
         /\ remote' = [remote EXCEPT ![Slot(k)] = o[2]]
         /\ order' = IF o[1] = "rejected"
                       THEN [order EXCEPT ![Owner(k)] = "NEEDS_RESOLUTION"] ELSE order
  BY DEF DrainDone
<1>2. /\ outbox[t] = "PENDING" /\ outbox' = [outbox EXCEPT ![t] = "DONE"]
      /\ UNCHANGED <<resv, hold, sold, pc, ans>>
  BY DEF DrainDone
<1>3. k \in Line /\ t = <<t[1], k>> /\ Slot(k) \in Slots /\ remote[Slot(k)] \in Remote
  BY LineFacts DEF Task, TypeOK
<1>4. /\ remote[Slot(l)] = "none" <=> remote'[Slot(l)] = "none"
      /\ remote'[Slot(l)] \in Kept => remote[Slot(l)] \in Kept
      /\ remote[Slot(l)] \in Over => remote'[Slot(l)] = remote[Slot(l)]
      /\ remote[Slot(l)] = "refused" => remote'[Slot(l)] \in {"refused", "released"}
      /\ remote[Slot(l)] = "confirmed" /\ order[Owner(l)] # "NEEDS_RESOLUTION"
            => remote'[Slot(l)] = "confirmed"
  BY <1>1, <1>2, WorkerCall
<1>5. order'[Owner(l)] # "NEEDS_RESOLUTION" => order'[Owner(l)] = order[Owner(l)]
  BY <1>1, LineFacts DEF TypeOK
<1>6. ASSUME NEW w \in Why, outbox[<<w, l>>] = "PENDING", outbox'[<<w, l>>] # "PENDING"
      PROVE  t = <<w, l>> /\ remote'[Slot(l)] = o[2]
  BY <1>1, <1>2, <1>3, <1>6 DEF Task, TypeOK
<1>7. Fate(l)
  BY DEF Outcome
<1>8. Known(l)'
  BY <1>2, <1>4, <1>7, WorkerKnown DEF Fate
<1>9. Honest(l)'
  BY <1>2, <1>4, <1>5, <1>7 DEF Fate, Honest, Internal
<1>10. Driven(l)'
  <2> SUFFICES ASSUME order'[Owner(l)] = "PENDING_FULFILMENT", ~Internal(l),
                      outbox'[<<"confirm", l>>] # "PENDING"
               PROVE  remote'[Slot(l)] = "confirmed"
    BY DEF Driven, Internal
  <2>1. order[Owner(l)] = "PENDING_FULFILMENT"
    BY <1>5
  <2>2. CASE remote[Slot(l)] = "confirmed"
    BY <1>4, <2>1, <2>2
  <2>3. CASE outbox[<<"confirm", l>>] = "PENDING"
    <3>1. t = <<"confirm", l>> /\ remote'[Slot(l)] = o[2]
      BY <1>6, <2>3 DEF Why
    <3>2. o[1] # "rejected"
      BY <1>1, <3>1, LineFacts DEF TypeOK
    <3>3. QED
      BY <1>1, <1>3, <3>1, <3>2, WorkerAnswers
  <2>4. QED
    BY <1>7, <2>1, <2>2, <2>3 DEF Fate, Driven
<1>11. Followed(l)'
  <2> SUFFICES ASSUME remote'[Slot(l)] \in Kept,
                      resv[Owner(l)] \in {"CONFIRMED", "CANCELLED", "EXPIRED", "FAILED"},
                      hold[l] \in {"HELD", "RELEASED"},
                      ~\E w \in Tracked : outbox'[<<w, l>>] = "PENDING"
               PROVE  remote'[Slot(l)] = "refused" /\ order'[Owner(l)] = "NEEDS_RESOLUTION"
    BY <1>2 DEF Followed
  <2>1. CASE remote[Slot(l)] = "refused" /\ order[Owner(l)] = "NEEDS_RESOLUTION"
    <3>1. remote'[Slot(l)] = "refused"
      BY <1>4, <2>1 DEF Kept
    <3>2. order'[Owner(l)] = "NEEDS_RESOLUTION"
      BY <1>5, <2>1
    <3>3. QED
      BY <3>1, <3>2
  <2>2. ASSUME NEW w \in Tracked, outbox[<<w, l>>] = "PENDING"
        PROVE  remote'[Slot(l)] = "refused" /\ order'[Owner(l)] = "NEEDS_RESOLUTION"
    <3>1. t = <<w, l>> /\ remote'[Slot(l)] = o[2]
      BY <1>6, <2>2 DEF Tracked, Why
    <3>2. o[1] = "rejected" /\ o[2] = "refused"
      BY <1>1, <1>3, <3>1, WorkerAnswers
    <3>3. Owner(k) = Owner(l) /\ Owner(l) \in Resv
      BY <3>1, LineFacts
    <3>4. QED
      BY <1>1, <3>1, <3>2, <3>3 DEF TypeOK
  <2>3. QED
    BY <1>4, <1>7, <2>1, <2>2 DEF Fate, Followed
<1>12. QED
  BY <1>8, <1>9, <1>10, <1>11 DEF Fate

LEMMA DrainFailOutcome ==
    ASSUME TypeOK, Protocol, Outcome, NEW t \in Task, DrainFail(t)
    PROVE  Outcome'
<1> SUFFICES ASSUME NEW l \in Line PROVE Fate(l)'
  BY DEF Outcome
<1>1. PICK o \in WorkerOutcomes(t) : remote' = [remote EXCEPT ![Slot(t[2])] = o[2]]
  BY DEF DrainFail
<1>2. outbox[t] # "NONE" /\ UNCHANGED <<resv, hold, order, sold, outbox, pc, ans>>
  BY DEF DrainFail
<1>3. /\ remote[Slot(l)] = "none" <=> remote'[Slot(l)] = "none"
      /\ remote'[Slot(l)] \in Kept => remote[Slot(l)] \in Kept
      /\ remote[Slot(l)] \in Over => remote'[Slot(l)] = remote[Slot(l)]
      /\ remote[Slot(l)] = "refused" => remote'[Slot(l)] \in {"refused", "released"}
      /\ remote[Slot(l)] = "confirmed" /\ order[Owner(l)] # "NEEDS_RESOLUTION"
            => remote'[Slot(l)] = "confirmed"
  BY <1>1, <1>2, WorkerCall
<1>4. Fate(l)
  BY DEF Outcome
<1>5. Known(l)'
  BY <1>2, <1>3, <1>4, WorkerKnown DEF Fate
<1>6. QED
  BY <1>2, <1>3, <1>4, <1>5 DEF Fate, Honest, Driven, Followed, Internal, Kept

LEMMA ReopenOutcome ==
    ASSUME TypeOK, Outcome, NEW t \in Task, Reopen(t)
    PROVE  Outcome'
<1> SUFFICES ASSUME NEW l \in Line PROVE Fate(l)'
  BY DEF Outcome
<1>1. \A m \in Line, w \in Why :
         outbox[<<w, m>>] = "PENDING" => outbox'[<<w, m>>] = "PENDING"
  BY DEF Reopen, TypeOK, Task
<1>2. Passes(Owner(l))
  BY <1>1 DEF Passes, Reopen, Lines
<1>3. QED
  BY <1>2, Bystander

-----------------------------------------------------------------------------

\* One step of the service.
LEMMA OutcomeNext ==
    ASSUME TypeOK, Protocol, Outcome, [Next]_vars
    PROVE  Outcome'
<1>1. ASSUME NEW r \in Resv, Client(r)
      PROVE  Outcome'
  <2>1. CASE Lookup(r)
    <3>1. pc[r] = "idle" /\ pc' = [pc EXCEPT ![r] = "tx1"]
          /\ UNCHANGED <<resv, hold, order, sold, outbox, remote, ans>>
      BY <2>1 DEF Lookup
    <3>2. \A l \in Lines(r) : ans'[l] = "none"
      BY <3>1, NothingRemembered DEF Lines
    <3>3. QED
      BY <3>1, <3>2, QuietOutcome DEF TypeOK
  <2>2. CASE ConfirmRefuse(r)
    BY <2>2, QuietOutcome DEF ConfirmRefuse
  <2>3. CASE Cancel(r)
    BY <2>3, GiveUpOutcome DEF Cancel
  <2>4. QED
    BY <1>1, <2>1, <2>2, <2>3, ConfirmClaimOutcome DEF Client
<1>2. ASSUME NEW r \in Resv, Create(r)
      PROVE  Outcome'
  <2>1. CASE Tx1Rollback(r) \/ FinalizeAbort(r)
    <3>1. pc[r] \in {"tx1", "fail"} /\ pc' = [pc EXCEPT ![r] = "idle"]
          /\ UNCHANGED <<resv, hold, order, sold, outbox, remote, ans>>
      BY <2>1 DEF Tx1Rollback, FinalizeAbort
    <3>2. \A l \in Lines(r) : ans'[l] = "none"
      BY <3>1, NothingRemembered DEF Lines
    <3>3. QED
      BY <3>1, <3>2, QuietOutcome DEF TypeOK
  <2>2. ASSUME NEW l \in Lines(r), CallReserve(l) \/ SaveItem(l)
        PROVE  Outcome'
    BY <2>2, CallReserveOutcome, SaveItemOutcome DEF Lines
  <2>3. QED
    BY <1>2, <2>1, <2>2, Tx1CommitOutcome, FinalizeOkOutcome, FinalizeFailOutcome
    DEF Create
<1>3. ASSUME NEW r \in Resv, ConfirmAbort(r) \/ Crash(r)
      PROVE  Outcome'
  <2>1. ans' = Forget(r) /\ pc' = [pc EXCEPT ![r] = "idle"]
        /\ UNCHANGED <<resv, hold, order, sold, outbox, remote>>
    BY <1>3 DEF ConfirmAbort, Crash
  <2>2. \A q \in Resv : \/ q # r /\ pc'[q] = pc[q] /\ \A l \in Lines(q) : ans'[l] = ans[l]
                        \/ \A l \in Lines(q) : ans'[l] = "none"
    BY <2>1 DEF Forget, Lines, TypeOK
  <2>3. QED
    BY <2>1, <2>2, QuietOutcome
<1>4. ASSUME NEW r \in Resv, Confirm(r)
      PROVE  Outcome'
  <2>1. ASSUME NEW l \in Lines(r), CallConfirm(l)
        PROVE  Outcome'
    BY <2>1, CallConfirmOutcome DEF Lines
  <2>2. QED
    BY <1>3, <1>4, <2>1, ConfirmCommitOutcome DEF Confirm
<1>5. ASSUME NEW r \in Resv, Elapse(r)
      PROVE  Outcome'
  BY <1>5, QuietOutcome DEF Elapse
<1>6. CASE Sweep
  <2>1. Due \in SUBSET Resv /\ \A r \in Due : resv[r] = "PENDING"
    BY DEF Due, TypeOK
  <2>2. QED
    BY <1>6, <2>1, GiveUpOutcome DEF Sweep
<1>7. ASSUME NEW t \in Task, Worker(t)
      PROVE  Outcome'
  BY <1>7, DrainDoneOutcome, DrainFailOutcome, ReopenOutcome DEF Worker
<1>8. CASE UNCHANGED vars
  BY <1>8, QuietOutcome DEF vars
<1>9. QED
  BY <1>1, <1>2, <1>3, <1>4, <1>5, <1>6, <1>7, <1>8, LateArrivalOutcome DEF Next, Serve

\* The invariant behind the theorems that follow.
THEOREM OutcomeAlways == Spec => []Outcome
<1>1. TypeOK /\ Protocol /\ Outcome /\ [Next]_vars => Outcome'
  BY OutcomeNext
<1>2. QED
  BY OutcomeInit, <1>1, TypeCorrect, ProtocolAlways, PTL DEF Spec

\* An order that waits has a CONFIRM task for each line that is not confirmed.
THEOREM WaitingOrdersAreDriven == Spec => []ForwardDriven
<1>1. Outcome => ForwardDriven
  BY OutcomeMeans
<1>2. QED
  BY <1>1, OutcomeAlways, PTL

\* When its reservation is over, no hold that the service knows of is forgotten:
\* a task will end it, or its provider refused to confirm it and the order is in
\* resolution.
THEOREM KnownHoldsAreTracked == Spec => []NoUntrackedHold
<1>1. Outcome => NoUntrackedHold
  BY OutcomeMeans
<1>2. QED
  BY <1>1, OutcomeAlways, PTL

-----------------------------------------------------------------------------
(* The units behind a hold.  The lines of one sku share a hold, and its    *)
(* quantity is that of the call that placed it: the first line's, as the   *)
(* lines ask in turn and a line goes on only from a hold.                  *)

\* While create calls, every line is held or still to be asked for.
Calling(r) ==
    pc[r] = "calls" => \A l \in Lines(r) : hold[l] \in {"RESERVING", "HELD"}

\* The lines before one that got no answer had theirs, and it was yes.
InTurn(l) ==
    hold[l] = "PENDING_UNKNOWN" =>
        \A m \in Lines(Owner(l)) : m[2] < l[2] => hold[m] \in {"HELD", "RELEASED"}

Backed(l) ==
    ~Local(l) /\ FirstOnSlot(l) /\ remote[Slot(l)] # "none" => covers[Slot(l)] = Qty(l)

Cover ==
    /\ \A r \in Resv : Calling(r)
    /\ \A l \in Line : InTurn(l) /\ Backed(l)

LEMMA CoverMeans == Outcome /\ Cover => OrderHonest
<1> SUFFICES ASSUME Outcome, Cover, NEW l \in Line, order[Owner(l)] = "CONFIRMED"
             PROVE  IF Internal(l) THEN l \in sold
                    ELSE /\ remote[Slot(l)] = "confirmed"
                         /\ FirstOnSlot(l) /\ ~Local(l) => covers[Slot(l)] = Qty(l)
  BY DEF OrderHonest
<1>1. IF Internal(l) THEN l \in sold ELSE remote[Slot(l)] = "confirmed"
  BY DEF Outcome, Fate, Honest
<1>2. Backed(l)
  BY DEF Cover
<1>3. QED
  BY <1>1, <1>2 DEF Backed

LEMMA CoverInit == Init => Cover
<1> SUFFICES ASSUME Init PROVE Cover
  OBVIOUS
<1>1. \A l \in Line : remote[Slot(l)] = "none" /\ hold[l] = "NONE"
  BY LineFacts DEF Init
<1>2. QED
  BY <1>1 DEF Init, Cover, Calling, InTurn, Backed

\* The line that create asks for comes after lines that are held.
LEMMA EarlierAreHeld ==
    ASSUME Cover, NEW k \in Line, pc[Owner(k)] = "calls", FirstReserving(k),
           NEW m \in Lines(Owner(k)), m[2] < k[2]
    PROVE  hold[m] = "HELD"
<1>1. hold[m] \in {"RESERVING", "HELD"}
  BY LineFacts DEF Cover, Calling
<1>2. m \in Line /\ m[2] \in Nat /\ k[2] \in Nat
  BY LineNames DEF Lines
<1>3. hold[m] = "RESERVING" => k[2] <= m[2]
  BY DEF FirstReserving
<1>4. QED
  BY <1>1, <1>2, <1>3

\* So the line whose call places the hold is the first one on it.
LEMMA FirstPlaces ==
    ASSUME Outcome, NEW k \in Line, remote[Slot(k)] = "none",
           \A m \in Lines(Owner(k)) : m[2] < k[2] => hold[m] \in {"HELD", "RELEASED"},
           NEW l \in Line, Slot(l) = Slot(k), FirstOnSlot(l), ~Local(l)
    PROVE  l = k
<1>1. Owner(l) = Owner(k) /\ l \in Lines(Owner(k)) /\ k \in Lines(Owner(l))
  BY SlotNames, LineNames
<1>2. l[2] <= k[2]
  BY <1>1 DEF FirstOnSlot
<1>3. hold[l] \notin {"HELD", "RELEASED"}
  BY DEF Outcome, Fate, Known, Asked
<1>4. ~(l[2] < k[2])
  BY <1>1, <1>3
<1>5. l[2] = k[2]
  BY <1>2, <1>4, LineNames
<1>6. QED
  BY <1>1, <1>5, LineNames

\* A step that places no hold, changes no hold_status and starts no calls.
LEMMA QuietCover ==
    ASSUME Cover, UNCHANGED <<hold, covers>>,
           \A r \in Resv : pc'[r] = "calls" => pc[r] = "calls",
           \A l \in Line : remote[Slot(l)] = "none" => remote'[Slot(l)] = "none"
    PROVE  Cover'
<1>1. ASSUME NEW r \in Resv PROVE Calling(r)'
  BY DEF Cover, Calling
<1>2. ASSUME NEW l \in Line PROVE InTurn(l)'
  BY DEF Cover, InTurn
<1>3. ASSUME NEW l \in Line PROVE Backed(l)'
  BY DEF Cover, Backed
<1>4. QED
  BY <1>1, <1>2, <1>3 DEF Cover

LEMMA Tx1CommitCover ==
    ASSUME TypeOK, Cover, NEW r \in Resv, Tx1Commit(r)
    PROVE  Cover'
<1>1. /\ pc' = [pc EXCEPT ![r] = "calls"]
      /\ hold' = [l \in Line |-> IF Owner(l) # r THEN hold[l]
                                 ELSE IF Local(l) THEN "HELD" ELSE "RESERVING"]
      /\ UNCHANGED <<remote, covers>>
  BY DEF Tx1Commit
<1>2. ASSUME NEW q \in Resv PROVE Calling(q)'
  BY <1>1 DEF Cover, Calling, Lines, TypeOK
<1>3. ASSUME NEW l \in Line PROVE InTurn(l)'
  BY <1>1 DEF Cover, InTurn, Lines
<1>4. ASSUME NEW l \in Line PROVE Backed(l)'
  BY <1>1 DEF Cover, Backed
<1>5. QED
  BY <1>2, <1>3, <1>4 DEF Cover

\* Only the call that finds no hold for the key decides its units.
LEMMA CallReserveCover ==
    ASSUME TypeOK, Outcome, Cover, NEW k \in Line, CallReserve(k)
    PROVE  Cover'
<1>1. PICK o \in ReserveOutcomes(remote[Slot(k)]) :
         /\ remote' = [remote EXCEPT ![Slot(k)] = o[2]]
         /\ covers' = IF remote[Slot(k)] = "none" /\ o[2] # "none"
                        THEN Covering(k) ELSE covers
  BY DEF CallReserve
<1>2. UNCHANGED <<hold, pc>> /\ pc[Owner(k)] = "calls" /\ FirstReserving(k)
  BY DEF CallReserve
<1>3. ASSUME NEW r \in Resv PROVE Calling(r)'
  BY <1>2 DEF Cover, Calling
<1>4. ASSUME NEW l \in Line PROVE InTurn(l)'
  BY <1>2 DEF Cover, InTurn
<1>5. ASSUME NEW l \in Line PROVE Backed(l)'
  <2> SUFFICES ASSUME ~Local(l), FirstOnSlot(l), remote'[Slot(l)] # "none"
               PROVE  covers'[Slot(l)] = Qty(l)
    BY DEF Backed
  <2>1. Slot(l) \in Slots /\ Slot(k) \in Slots /\ Backed(l)
    BY LineFacts DEF Cover
  <2>2. CASE remote[Slot(l)] # "none"
    BY <1>1, <2>1, <2>2 DEF Covering, Backed, TypeOK
  <2>3. CASE remote[Slot(l)] = "none"
    <3>1. Slot(l) = Slot(k) /\ o[2] # "none"
      BY <1>1, <2>1, <2>3 DEF TypeOK
    <3>2. l = k
      BY <1>2, <2>3, <3>1, EarlierAreHeld, FirstPlaces
    <3>3. QED
      BY <1>1, <2>1, <2>3, <3>1, <3>2 DEF Covering, TypeOK
  <2>4. QED
    BY <2>2, <2>3
<1>6. QED
  BY <1>3, <1>4, <1>5 DEF Cover

LEMMA SaveItemCover ==
    ASSUME TypeOK, Outcome, Cover, NEW k \in Line, SaveItem(k)
    PROVE  Cover'
<1>1. /\ pc[Owner(k)] = "calls" /\ hold[k] = "RESERVING" /\ ans[k] # "none"
      /\ hold' = [hold EXCEPT ![k] = HoldAfter(ans[k])]
      /\ pc' = [pc EXCEPT ![Owner(k)] = IF ans[k] = "ok" THEN "calls" ELSE "fail"]
      /\ UNCHANGED <<remote, covers>>
  BY DEF SaveItem
<1>2. FirstReserving(k)
  BY <1>1 DEF Outcome, Fate, Known, Remembered
<1>3. ASSUME NEW r \in Resv PROVE Calling(r)'
  <2> SUFFICES ASSUME pc'[r] = "calls", NEW l \in Lines(r)
               PROVE  hold'[l] \in {"RESERVING", "HELD"}
    BY DEF Calling
  <2>1. pc[r] = "calls" /\ (r = Owner(k) => ans[k] = "ok")
    BY <1>1 DEF TypeOK
  <2>2. l \in Line /\ Owner(l) = r /\ hold[l] \in {"RESERVING", "HELD"}
    BY <2>1 DEF Cover, Calling, Lines
  <2>3. QED
    BY <1>1, <2>1, <2>2 DEF HoldAfter, TypeOK
<1>4. ASSUME NEW l \in Line PROVE InTurn(l)'
  <2> SUFFICES ASSUME hold'[l] = "PENDING_UNKNOWN", NEW m \in Lines(Owner(l)), m[2] < l[2]
               PROVE  hold'[m] \in {"HELD", "RELEASED"}
    BY DEF InTurn
  <2>1. hold[m] \in {"HELD", "RELEASED"}
    <3>1. CASE l = k
      BY <1>1, <1>2, <3>1, EarlierAreHeld
    <3>2. CASE l # k
      BY <1>1, <3>2 DEF Cover, InTurn, TypeOK
    <3>3. QED
      BY <3>1, <3>2
  <2>2. m # k /\ m \in Line
    BY <1>1, <2>1 DEF Lines
  <2>3. QED
    BY <1>1, <2>1, <2>2 DEF TypeOK
<1>5. ASSUME NEW l \in Line PROVE Backed(l)'
  BY <1>1 DEF Cover, Backed
<1>6. QED
  BY <1>3, <1>4, <1>5 DEF Cover

LEMMA FinalizeFailCover ==
    ASSUME TypeOK, Cover, NEW r \in Resv, FinalizeFail(r)
    PROVE  Cover'
<1>1. /\ hold' = [m \in Line |-> IF Owner(m) # r           THEN hold[m]
                                 ELSE IF hold[m] = "RESERVING" THEN "FAILED"
                                 ELSE IF hold[m] = "HELD"      THEN "RELEASED"
                                 ELSE hold[m]]
      /\ pc' = [pc EXCEPT ![r] = "idle"]
      /\ UNCHANGED <<remote, covers>>
  BY DEF FinalizeFail
<1>2. ASSUME NEW q \in Resv PROVE Calling(q)'
  BY <1>1 DEF Cover, Calling, Lines, TypeOK
<1>3. ASSUME NEW l \in Line PROVE InTurn(l)'
  BY <1>1 DEF Cover, InTurn, Lines
<1>4. ASSUME NEW l \in Line PROVE Backed(l)'
  BY <1>1 DEF Cover, Backed
<1>5. QED
  BY <1>2, <1>3, <1>4 DEF Cover

LEMMA LateArrivalCover ==
    ASSUME TypeOK, Outcome, Cover, NEW k \in Line, LateArrival(k)
    PROVE  Cover'
<1>1. /\ hold[k] = "PENDING_UNKNOWN" /\ remote[Slot(k)] = "none"
      /\ remote' = [remote EXCEPT ![Slot(k)] = "held"]
      /\ covers' = Covering(k)
      /\ UNCHANGED <<hold, pc>>
  BY DEF LateArrival
<1>2. ASSUME NEW r \in Resv PROVE Calling(r)'
  BY <1>1 DEF Cover, Calling
<1>3. ASSUME NEW l \in Line PROVE InTurn(l)'
  BY <1>1 DEF Cover, InTurn
<1>4. ASSUME NEW l \in Line PROVE Backed(l)'
  <2> SUFFICES ASSUME ~Local(l), FirstOnSlot(l), remote'[Slot(l)] # "none"
               PROVE  covers'[Slot(l)] = Qty(l)
    BY DEF Backed
  <2>1. Slot(l) \in Slots /\ Slot(k) \in Slots /\ Backed(l)
    BY LineFacts DEF Cover
  <2>2. CASE Slot(l) # Slot(k)
    BY <1>1, <2>1, <2>2 DEF Covering, Backed, TypeOK
  <2>3. CASE Slot(l) = Slot(k)
    <3>1. InTurn(k)
      BY DEF Cover
    <3>2. l = k
      BY <1>1, <2>3, <3>1, FirstPlaces DEF InTurn
    <3>3. QED
      BY <1>1, <2>1, <3>2 DEF Covering, TypeOK
  <2>4. QED
    BY <2>2, <2>3
<1>5. QED
  BY <1>2, <1>3, <1>4 DEF Cover

\* Confirming changes what a provider says of a hold, never that there is one.
LEMMA CallConfirmCover ==
    ASSUME TypeOK, Cover, NEW k \in Line, CallConfirm(k)
    PROVE  Cover'
<1>1. PICK o \in ConfirmOutcomes(remote[Slot(k)]) :
         remote' = [remote EXCEPT ![Slot(k)] = o[2]]
  BY DEF CallConfirm
<1>2. UNCHANGED <<hold, covers, pc>>
  BY DEF CallConfirm
<1>3. remote[Slot(k)] = "none" => o[2] = "none"
  BY ConfirmAnswers, LineFacts DEF TypeOK
<1>4. \A l \in Line : remote[Slot(l)] = "none" => remote'[Slot(l)] = "none"
  BY <1>1, <1>3, LineFacts DEF TypeOK
<1>5. QED
  BY <1>2, <1>4, QuietCover

LEMMA WorkerCover ==
    ASSUME TypeOK, Protocol, Cover, NEW t \in Task, Worker(t)
    PROVE  Cover'
<1>1. \/ remote' = remote
      \/ /\ outbox[t] # "NONE"
         /\ \E o \in WorkerOutcomes(t) : remote' = [remote EXCEPT ![Slot(t[2])] = o[2]]
  BY DEF Worker, DrainDone, DrainFail, Reopen
<1>2. UNCHANGED <<hold, covers, pc>>
  BY DEF Worker, DrainDone, DrainFail, Reopen
<1>3. \A l \in Line : remote[Slot(l)] = "none" => remote'[Slot(l)] = "none"
  BY <1>1, WorkerCall
<1>4. QED
  BY <1>2, <1>3, QuietCover

\* One step of the service.
LEMMA CoverNext ==
    ASSUME TypeOK, Protocol, Outcome, Cover, [Next]_vars
    PROVE  Cover'
<1>1. ASSUME NEW r \in Resv, Client(r) \/ Elapse(r) \/ Crash(r)
      PROVE  Cover'
  <2>1. UNCHANGED <<hold, remote, covers>>
    BY <1>1 DEF Client, Lookup, ConfirmClaim, ConfirmRefuse, Cancel, GiveUp, Elapse, Crash
  <2>2. \A q \in Resv : pc'[q] = "calls" => pc[q] = "calls"
    BY <1>1
    DEF Client, Lookup, ConfirmClaim, ConfirmRefuse, Cancel, GiveUp, Elapse, Crash, TypeOK
  <2>3. QED
    BY <2>1, <2>2, QuietCover
<1>2. ASSUME NEW r \in Resv, Create(r)
      PROVE  Cover'
  <2>1. CASE Tx1Rollback(r) \/ FinalizeOk(r) \/ FinalizeAbort(r)
    <3>1. UNCHANGED <<hold, remote, covers>> /\ pc' = [pc EXCEPT ![r] = "idle"]
      BY <2>1 DEF Tx1Rollback, FinalizeOk, FinalizeAbort
    <3>2. QED
      BY <3>1, QuietCover DEF TypeOK
  <2>2. ASSUME NEW l \in Lines(r), CallReserve(l) \/ SaveItem(l)
        PROVE  Cover'
    BY <2>2, CallReserveCover, SaveItemCover DEF Lines
  <2>3. QED
    BY <1>2, <2>1, <2>2, Tx1CommitCover, FinalizeFailCover DEF Create
<1>3. ASSUME NEW r \in Resv, Confirm(r)
      PROVE  Cover'
  <2>1. CASE ConfirmCommit(r) \/ ConfirmAbort(r)
    <3>1. UNCHANGED <<hold, remote, covers>> /\ pc' = [pc EXCEPT ![r] = "idle"]
      BY <2>1 DEF ConfirmCommit, ConfirmAbort
    <3>2. QED
      BY <3>1, QuietCover DEF TypeOK
  <2>2. ASSUME NEW l \in Lines(r), CallConfirm(l)
        PROVE  Cover'
    BY <2>2, CallConfirmCover DEF Lines
  <2>3. QED
    BY <1>3, <2>1, <2>2 DEF Confirm
<1>4. CASE Sweep
  BY <1>4, QuietCover DEF Sweep, GiveUp
<1>5. CASE UNCHANGED vars
  BY <1>5, QuietCover DEF vars
<1>6. QED
  BY <1>1, <1>2, <1>3, <1>4, <1>5, LateArrivalCover, WorkerCover DEF Next, Serve

\* The hold of a sku is for the units of the first line that asks for it.
THEOREM CoverAlways == Spec => []Cover
<1>1. TypeOK /\ Protocol /\ Outcome /\ Cover /\ [Next]_vars => Cover'
  BY CoverNext
<1>2. QED
  BY CoverInit, <1>1, TypeCorrect, ProtocolAlways, OutcomeAlways, PTL DEF Spec

\* An order that says CONFIRMED is always one whose internal lines were sold and
\* whose other lines every provider has confirmed, with a hold that is for all the
\* units of the first line on it.
THEOREM OrdersAreHonest == Spec => []OrderHonest
<1>1. Outcome /\ Cover => OrderHonest
  BY CoverMeans
<1>2. QED
  BY <1>1, OutcomeAlways, CoverAlways, PTL

-----------------------------------------------------------------------------
(* What was confirmed.                                                     *)

\* The handlers change a hold only while they own their reservation, and nothing
\* makes a provider forget that it was asked.
LEMMA ServeHold ==
    ASSUME TypeOK, Protocol, Serve, NEW l \in Line
    PROVE  \/ remote'[Slot(l)] = remote[Slot(l)]
           \/ remote[Slot(l)] = "none" /\ remote'[Slot(l)] = "held"
           \/ /\ resv[Owner(l)] \in {"INITIALIZING", "CONFIRMING"}
              /\ remote'[Slot(l)] # "none"
              /\ remote[Slot(l)] = "confirmed" => remote'[Slot(l)] = "confirmed"
<1>1. Slot(l) \in Slots
  BY LineFacts
<1>2. ASSUME NEW k \in Line, CallReserve(k)
      PROVE  \/ remote'[Slot(l)] = remote[Slot(l)]
             \/ /\ resv[Owner(l)] = "INITIALIZING" /\ remote'[Slot(l)] = "held"
                /\ remote[Slot(l)] # "confirmed"
  <2>1. PICK o \in ReserveOutcomes(remote[Slot(k)]) :
           remote' = [remote EXCEPT ![Slot(k)] = o[2]]
    BY <1>2 DEF CallReserve
  <2>2. resv[Owner(k)] = "INITIALIZING"
    BY <1>2, LineFacts DEF CallReserve, Protocol, Owned
  <2>3. Slot(k) = Slot(l) => Owner(k) = Owner(l)
    BY SlotNames
  <2>4. remote[Slot(k)] # "confirmed"
    BY <2>2 DEF Protocol, ConfirmedOnlyIfClaimed
  <2>5. QED
    BY <1>1, <2>1, <2>2, <2>3, <2>4, ReserveEffect DEF TypeOK
<1>3. ASSUME NEW k \in Line, CallConfirm(k)
      PROVE  \/ remote'[Slot(l)] = remote[Slot(l)]
             \/ /\ resv[Owner(l)] = "CONFIRMING"
                /\ remote'[Slot(l)] \in {"confirmed", "lapsed", "refused"}
                /\ remote[Slot(l)] = "confirmed" => remote'[Slot(l)] = "confirmed"
  <2>1. PICK o \in ConfirmOutcomes(remote[Slot(k)]) :
           remote' = [remote EXCEPT ![Slot(k)] = o[2]]
    BY <1>3 DEF CallConfirm
  <2>2. resv[Owner(k)] = "CONFIRMING"
    BY <1>3, LineFacts DEF CallConfirm, Protocol, Owned
  <2>3. Slot(k) = Slot(l) => Owner(k) = Owner(l)
    BY SlotNames
  <2>4. /\ o[2] = remote[Slot(k)] \/ o[2] \in {"confirmed", "lapsed", "refused"}
        /\ remote[Slot(k)] = "confirmed" => o[2] = "confirmed"
    BY <2>1, ConfirmEffect, ConfirmAnswers, LineFacts DEF TypeOK
  <2>5. QED
    BY <1>1, <2>1, <2>2, <2>3, <2>4 DEF TypeOK
<1>4. ASSUME NEW k \in Line, LateArrival(k)
      PROVE  \/ remote'[Slot(l)] = remote[Slot(l)]
             \/ remote[Slot(l)] = "none" /\ remote'[Slot(l)] = "held"
  BY <1>1, <1>4 DEF LateArrival, TypeOK
<1>5. ASSUME NEW r \in Resv, Client(r)
      PROVE  remote' = remote
  BY <1>5 DEF Client, Lookup, ConfirmClaim, ConfirmRefuse, Cancel, GiveUp
<1>6. ASSUME NEW r \in Resv, Create(r)
      PROVE  remote' = remote \/ \E k \in Line : CallReserve(k)
  <2>1. ASSUME NEW k \in Lines(r), SaveItem(k)
        PROVE  remote' = remote
    BY <2>1 DEF SaveItem
  <2>2. ASSUME NEW k \in Lines(r)
        PROVE  k \in Line
    BY DEF Lines
  <2>3. QED
    BY <1>6, <2>1, <2>2
    DEF Create, Tx1Commit, Tx1Rollback, FinalizeOk, FinalizeFail, FinalizeAbort
<1>7. ASSUME NEW r \in Resv, Confirm(r)
      PROVE  remote' = remote \/ \E k \in Line : CallConfirm(k)
  BY <1>7 DEF Confirm, ConfirmCommit, ConfirmAbort, Lines
<1>8. ASSUME NEW r \in Resv, Elapse(r) \/ Crash(r)
      PROVE  remote' = remote
  BY <1>8 DEF Elapse, Crash
<1>9. Sweep => remote' = remote
  BY DEF Sweep, GiveUp
<1>10. QED
  BY <1>2, <1>3, <1>4, <1>5, <1>6, <1>7, <1>8, <1>9 DEF Serve

LEMMA ConfirmedNext ==
    ASSUME TypeOK, Protocol, [Next]_vars, NEW l \in Line, remote[Slot(l)] = "confirmed"
    PROVE  remote'[Slot(l)] = "confirmed" \/ order[Owner(l)] = "NEEDS_RESOLUTION"
<1>1. CASE Serve
  BY <1>1, ServeHold
<1>2. ASSUME NEW t \in Task, Worker(t)
      PROVE  remote'[Slot(l)] = "confirmed" \/ order[Owner(l)] = "NEEDS_RESOLUTION"
  <2>1. \/ remote' = remote
        \/ /\ outbox[t] # "NONE"
           /\ \E o \in WorkerOutcomes(t) : remote' = [remote EXCEPT ![Slot(t[2])] = o[2]]
    BY <1>2 DEF Worker, DrainDone, DrainFail, Reopen
  <2>2. QED
    BY <2>1, WorkerCall
<1>3. CASE UNCHANGED vars
  BY <1>3 DEF vars
<1>4. QED
  BY <1>1, <1>2, <1>3 DEF Next

\* Whoever calls a provider, and however late: what it has confirmed stays
\* confirmed until the order is in resolution.
THEOREM ConfirmationsStand == Spec => NeverTakenBack
<1>1. TypeOK /\ Protocol /\ [Next]_vars
        => [\A l \in Line : remote[Slot(l)] = "confirmed" =>
               \/ remote'[Slot(l)] = "confirmed"
               \/ order[Owner(l)] = "NEEDS_RESOLUTION"]_vars
  BY ConfirmedNext
<1>2. QED
  BY <1>1, TypeCorrect, ProtocolAlways, PTL DEF Spec, NeverTakenBack
=============================================================================
