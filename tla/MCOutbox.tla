------------------------------ MODULE MCOutbox ------------------------------
(***************************************************************************)
(* A task that can succeed and one that cannot, and two workers: one takes *)
(* a single task at a time, so that the poison task can stand in the way   *)
(* of the other; one takes both, so that the second of its batch waits     *)
(* while its lease runs.  Either may die.                                  *)
(***************************************************************************)
EXTENDS Outbox

CONSTANTS good, poison, narrow, wide

MCTask      == {good, poison}
MCWorker    == {narrow, wide}
MCBatchSize == [w \in Worker |-> IF w = wide THEN 2 ELSE 1]
MCPoison    == {poison}
=============================================================================
