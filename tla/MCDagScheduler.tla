-------------------------- MODULE MCDagScheduler ---------------------------
(* Every dependency map on the tasks, cyclic ones included.                *)
EXTENDS DagScheduler

AllWorkflows == [Tasks -> SUBSET Tasks]
=============================================================================
