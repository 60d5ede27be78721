------------------------------ MODULE TaskQueue ------------------------------
(***************************************************************************)
(* What the rest of the service relies on when it writes an outbox task:   *)
(* the task is never lost, it is done only once it has been carried out,   *)
(* and it is taken up again after that only if a lease had ended before    *)
(* its holder was through with it.                                         *)
(***************************************************************************)

CONSTANT Task

VARIABLES
    state,     \* the task: not written yet, open or done
    carried,   \* the tasks that were carried out at least once
    overrun    \* the tasks whose lease ended too early at least once

vars == <<state, carried, overrun>>

State == {"NONE", "OPEN", "DONE"}

Init ==
    /\ state   = [t \in Task |-> "NONE"]
    /\ carried = {}
    /\ overrun = {}

Move(t, from, to) ==
    /\ state[t] = from
    /\ state' = [state EXCEPT ![t] = to]
    /\ UNCHANGED <<carried, overrun>>

Write(t) == Move(t, "NONE", "OPEN")

\* At least once: it may be carried out again even when it is done.
CarryOut(t) ==
    /\ state[t] # "NONE"
    /\ carried' = carried \cup {t}
    /\ UNCHANGED <<state, overrun>>

Finish(t) == t \in carried /\ Move(t, "OPEN", "DONE")

Overrun(t) ==
    /\ state[t] # "NONE"
    /\ overrun' = overrun \cup {t}
    /\ UNCHANGED <<state, carried>>

Reopen(t) == t \in overrun /\ Move(t, "DONE", "OPEN")

Next == \E t \in Task :
    Write(t) \/ CarryOut(t) \/ Finish(t) \/ Overrun(t) \/ Reopen(t)

Spec == Init /\ [][Next]_vars
=============================================================================
