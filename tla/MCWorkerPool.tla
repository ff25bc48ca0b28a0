---------------------------- MODULE MCWorkerPool ----------------------------
(* Small instances of WorkerPool: batches from empty to one task more than *)
(* the workers can take at once, so that workers wait, leave and race.     *)
EXTENDS WorkerPool

CONSTANTS MaxTasks   \* the longest batch

MCTask == 1..MaxTasks

MCBatches == {[i \in 1..n |-> i] : n \in 0..MaxTasks}
=============================================================================
