--------------------------- MODULE CircuitBreaker ---------------------------
(***************************************************************************)
(* The circuit breaker of one provider: three Redis keys that the callers  *)
(* of several processes read and write, one command at a time, around      *)
(* their calls.  A key's time to live ends at any moment.                  *)
(*                                                                         *)
(* A definition marked "Fault:" is not the code: it is the next definition *)
(* with a slip in it, used to see that the properties would notice.        *)
(***************************************************************************)
EXTENDS Naturals

CONSTANTS
    Caller,      \* the requests that may be in the decorator at one time
    Threshold    \* failure_threshold

ASSUME ThresholdAssumption == Threshold \in Nat \ {0}

VARIABLES
    failures,   \* cb:<id>:failures, 0 when there is no such key; see Count
    keys,       \* what else Redis has: cb:<id>:open, cb:<id>:probe, and, as
                \* "window", a time to live of cb:<id>:failures
    at,         \* the command or call each caller is about to make
    tripping,   \* the callers whose INCR reached the threshold
    provider    \* whether it answers: "up" or "down"

vars == <<failures, keys, at, tripping, provider>>

Points == {"exists", "setnx", "call",
           "del_open", "del_probe", "del_failures",
           "incr", "expire", "set_open", "del_count",
           "cancelled"}

TypeOK ==
    /\ failures \in 0 .. Threshold
    /\ keys \subseteq {"open", "probe", "window"}
    /\ "window" \in keys => failures > 0
    /\ at \in [Caller -> Points]
    /\ tripping \subseteq Caller
    /\ provider \in {"up", "down"}

Init ==
    /\ failures = 0
    /\ keys = {}
    /\ at = [c \in Caller |-> "exists"]
    /\ tripping = {}
    /\ provider = "up"

Go(c, from, to) == at[c] = from /\ at' = [at EXCEPT ![c] = to]

\* A caller whose call is over is free to come again.
Leave == "exists"

Open  == "open" \in keys
Probe == "probe" \in keys

-----------------------------------------------------------------------------
(* _call: the check, the slot, the call.                                   *)

\* _is_open
Check(c) ==
    /\ Go(c, "exists", IF Open THEN "setnx" ELSE "call")
    /\ UNCHANGED <<failures, keys, tripping, provider>>

\* _try_acquire_probe, the key was not there.
TakeProbe(c) ==
    /\ ~Probe
    /\ Go(c, "setnx", "call")
    /\ keys' = keys \cup {"probe"}
    /\ UNCHANGED <<failures, tripping, provider>>

\* CircuitOpenError
Refuse(c) ==
    /\ Probe
    /\ Go(c, "setnx", Leave)
    /\ UNCHANGED <<failures, keys, tripping, provider>>

\* The adapter's call returns, or it raises.
Return(c) ==
    /\ Go(c, "call", IF provider = "up" THEN "del_open" ELSE "incr")
    /\ UNCHANGED <<failures, keys, tripping, provider>>

-----------------------------------------------------------------------------
(* _record_success                                                         *)

DelOpen(c) ==
    /\ Go(c, "del_open", "del_probe")
    /\ keys' = keys \ {"open"}
    /\ UNCHANGED <<failures, tripping, provider>>

\* The slot is free again, whoever had it.
DelProbe(c) ==
    /\ Go(c, "del_probe", "del_failures")
    /\ keys' = keys \ {"probe"}
    /\ UNCHANGED <<failures, tripping, provider>>

DropCounter == failures' = 0 /\ keys' = keys \ {"window"}

\* Fault: a success leaves the counter to its window.
DelFailuresNot(c) ==
    /\ Go(c, "del_failures", Leave)
    /\ UNCHANGED <<failures, keys, tripping, provider>>

DelFailures(c) ==
    /\ Go(c, "del_failures", Leave)
    /\ DropCounter
    /\ UNCHANGED <<tripping, provider>>

-----------------------------------------------------------------------------
(* _record_failure                                                         *)

\* Fault: the counter is written, not incremented.
CountOne == 1

\* INCR; all numbers from the threshold on are one, they compare alike.
Count == IF failures < Threshold THEN failures + 1 ELSE Threshold

Incr(c) ==
    /\ Go(c, "incr", "expire")
    /\ failures' = Count
    /\ tripping' = IF Count >= Threshold THEN tripping \cup {c} ELSE tripping
    /\ UNCHANGED <<keys, provider>>

\* Fault: a command that makes the key when it is gone.
ExpireAnew(c) ==
    /\ Go(c, "expire", IF c \in tripping THEN "set_open" ELSE Leave)
    /\ keys' = keys \cup {"window"}
    /\ UNCHANGED <<failures, tripping, provider>>

\* EXPIRE does nothing to a key that is gone by now.
Expire(c) ==
    /\ Go(c, "expire", IF c \in tripping THEN "set_open" ELSE Leave)
    /\ keys' = IF failures > 0 THEN keys \cup {"window"} ELSE keys
    /\ UNCHANGED <<failures, tripping, provider>>

SetOpen(c) ==
    /\ Go(c, "set_open", "del_count")
    /\ keys' = keys \cup {"open"}
    /\ UNCHANGED <<failures, tripping, provider>>

DelCount(c) ==
    /\ Go(c, "del_count", Leave)
    /\ DropCounter
    /\ tripping' = tripping \ {c}
    /\ UNCHANGED provider

-----------------------------------------------------------------------------

\* The caller is cancelled, which no except clause catches, or its process
\* dies: the keys stay as they are.
Cancel(c) ==
    /\ at[c] \notin {"exists", "cancelled"}
    /\ at' = [at EXCEPT ![c] = "cancelled"]
    /\ tripping' = tripping \ {c}
    /\ UNCHANGED <<failures, keys, provider>>

\* Another request takes the place of a cancelled one.
Replace(c) ==
    /\ Go(c, "cancelled", "exists")
    /\ UNCHANGED <<failures, keys, tripping, provider>>

OpenExpires ==
    /\ Open
    /\ keys' = keys \ {"open"}
    /\ UNCHANGED <<failures, at, tripping, provider>>

ProbeExpires ==
    /\ Probe
    /\ keys' = keys \ {"probe"}
    /\ UNCHANGED <<failures, at, tripping, provider>>

WindowExpires ==
    /\ "window" \in keys
    /\ DropCounter
    /\ UNCHANGED <<at, tripping, provider>>

\* The provider goes down or comes back.
Turn ==
    /\ provider' = IF provider = "up" THEN "down" ELSE "up"
    /\ UNCHANGED <<failures, keys, at, tripping>>

Call(c) ==
    \/ Check(c) \/ TakeProbe(c) \/ Refuse(c) \/ Return(c)
    \/ DelOpen(c) \/ DelProbe(c) \/ DelFailures(c)
    \/ Incr(c) \/ Expire(c) \/ SetOpen(c) \/ DelCount(c)
    \/ Replace(c)

Next ==
    \/ \E c \in Caller : Call(c) \/ Cancel(c)
    \/ OpenExpires \/ ProbeExpires \/ WindowExpires
    \/ Turn

Spec == Init /\ [][Next]_vars

\* There is traffic, a call ends (the timeout decorator sees to it), and Redis
\* drops a key in the end when nobody sets it anew.
Fairness ==
    /\ \A c \in Caller : WF_vars(Call(c))
    /\ WF_vars(OpenExpires) /\ WF_vars(ProbeExpires)

FairSpec == Spec /\ Fairness

-----------------------------------------------------------------------------

\* From some moment on, nothing is cancelled half-way.
Calm == <>[](\A c \in Caller : at[c] # "cancelled")

\* Once the provider is back for good, the breaker is closed for good, whatever
\* was cancelled half-way and whichever deletes raced with which increments; and
\* its failures are forgotten, once a caller gets to the end of its call
\* (_record_success, the open flag's `ex`).
HealedRecovers == <>[](provider = "up") => (<>[]~Open /\ (Calm => <>[](failures = 0)))

\* While the provider stays down, the breaker opens again and again, whatever
\* deletes the counter in between, as long as callers are not cancelled and the
\* failures come faster than the window ends (_record_failure).
OutageTrips ==
    (<>[](provider = "down") /\ Calm /\ <>[][~WindowExpires]_vars) => []<>Open
=============================================================================
