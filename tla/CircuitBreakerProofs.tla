------------------------ MODULE CircuitBreakerProofs ------------------------
(***************************************************************************)
(* Proofs about the circuit breaker, for any callers and threshold.        *)
(***************************************************************************)
EXTENDS CircuitBreaker, TLAPS

LEMMA InitTypes == Init => TypeOK
  BY ThresholdAssumption DEF Init, TypeOK, Points

LEMMA CounterDropped ==
  DropCounter => failures' \in 0 .. Threshold /\ "window" \notin keys'
  BY ThresholdAssumption DEF DropCounter

LEMMA EnterTypes ==
  ASSUME TypeOK, NEW c \in Caller,
         Check(c) \/ TakeProbe(c) \/ Refuse(c) \/ Return(c) \/ Replace(c) \/ Cancel(c)
  PROVE  TypeOK'
  BY DEF Check, TakeProbe, Refuse, Return, Replace, Cancel, Go, Leave, TypeOK, Points

LEMMA RecordTypes ==
  ASSUME TypeOK, NEW c \in Caller,
         \/ DelOpen(c) \/ DelProbe(c) \/ DelFailures(c)
         \/ Incr(c) \/ Expire(c) \/ SetOpen(c) \/ DelCount(c)
  PROVE  TypeOK'
  <1>1. CASE DelOpen(c) \/ DelProbe(c) \/ SetOpen(c)
    BY <1>1 DEF DelOpen, DelProbe, SetOpen, Go, TypeOK, Points
  \* The counter goes, and its time to live with it.
  <1>2. CASE DelFailures(c) \/ DelCount(c)
    <2>1. at' \in [Caller -> Points] /\ tripping' \subseteq Caller /\ provider' = provider
      BY <1>2 DEF DelFailures, DelCount, Go, Leave, TypeOK, Points
    <2>2. DropCounter
      BY <1>2 DEF DelFailures, DelCount
    <2>3. QED  BY <2>1, <2>2, CounterDropped DEF DropCounter, TypeOK
  <1>3. CASE Incr(c)
    <2>1. Count \in 1 .. Threshold
      BY ThresholdAssumption DEF Count, TypeOK
    <2>2. QED  BY <1>3, <2>1, ThresholdAssumption DEF Incr, Go, TypeOK, Points
  \* EXPIRE after another caller's DELETE sets nothing.
  <1>4. CASE Expire(c)
    BY <1>4 DEF Expire, Go, Leave, TypeOK, Points
  <1>5. QED  BY <1>1, <1>2, <1>3, <1>4

LEMMA OutsideTypes ==
  ASSUME TypeOK, OpenExpires \/ ProbeExpires \/ WindowExpires \/ Turn  PROVE TypeOK'
  <1>1. CASE OpenExpires \/ ProbeExpires \/ Turn
    BY <1>1 DEF OpenExpires, ProbeExpires, Turn, TypeOK
  <1>2. CASE WindowExpires
    BY <1>2, CounterDropped DEF WindowExpires, DropCounter, TypeOK
  <1>3. QED  BY <1>1, <1>2

LEMMA NextTypes == TypeOK /\ [Next]_vars => TypeOK'
  <1> SUFFICES ASSUME TypeOK, [Next]_vars  PROVE TypeOK'
    OBVIOUS
  <1>1. CASE UNCHANGED vars
    BY <1>1 DEF vars, TypeOK
  <1>2. ASSUME NEW c \in Caller, Call(c) \/ Cancel(c)  PROVE TypeOK'
    BY <1>2, EnterTypes, RecordTypes DEF Call
  <1>3. CASE OpenExpires \/ ProbeExpires \/ WindowExpires \/ Turn
    BY <1>3, OutsideTypes
  <1>4. QED  BY <1>1, <1>2, <1>3 DEF Next

\* Every variable always has its type; the counter's time to live never outlasts
\* the counter (_record_failure: EXPIRE after another caller's DELETE).
THEOREM BreakerTypeCorrect == Spec => []TypeOK
  BY InitTypes, NextTypes, PTL DEF Spec
=============================================================================
