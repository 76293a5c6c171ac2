--------------------------- MODULE MCQueueManager ---------------------------
(* The constants whose values are functions and sequences.                 *)
EXTENDS QueueManager

CONSTANTS m1, m2, s1, s2, n1, n2

KindOfTask ==
  [t \in Tasks |-> CASE t \in {m1, m2} -> "Main"
                     [] t \in {s1, s2} -> "Subagent"
                     [] OTHER -> "Nested"]
SmallPool == <<"Nested", "Subagent">>
MainPool == <<"Main">>
Small == [k \in Kinds |-> IF k = "Subagent" THEN 1 ELSE 2]
=============================================================================
