------------------------ MODULE MCAgentStateManager ------------------------
(***************************************************************************)
(* One run of the manager asks about its rows, with a long run of record   *)
(* versions and nobody subscribed, and about its subscribers, with a short *)
(* one: each behaviour picks its side at the start.  Callers are           *)
(* interchangeable, and so are subscribers.                                *)
(***************************************************************************)
EXTENDS AgentStateManager

CONSTANT MaxVersionWithSubs

VARIABLE side

MCInit == Init /\ side \in {"rows", "subscribers"}

MCNext ==
  /\ Next
  /\ UNCHANGED side
  /\ side = "rows" => receiver' = receiver
  /\ side = "subscribers" => clock' <= MaxVersionWithSubs

MCSpec == MCInit /\ [][MCNext]_<<vars, side>>

Symmetry == Permutations(Callers) \cup Permutations(Subs)
=============================================================================
