---------------------------- MODULE AgentStates ----------------------------
(***************************************************************************)
(* The agent state machine shared by the state manager and the runtime:    *)
(* crates/agents/src/state_manager/mod.rs (AgentState, StateTransition,    *)
(* compute_new_state, is_valid_transition, the record update made by       *)
(* transition) and the lossy reading of a stored state in                  *)
(* state_manager/persistence.rs.                                           *)
(*                                                                         *)
(* A record keeps what the properties tell apart: the state, the current   *)
(* task and the number of finished tasks.  Timestamps become a version     *)
(* number `ver`, drawn from the manager's clock.  Error messages, the      *)
(* success/failure split of the statistics and metadata are abstracted.    *)
(***************************************************************************)
EXTENDS Integers

CONSTANTS TaskIds,   \* ids of the tasks an agent may be asked to run
          NoTask     \* current_task_id = None, and the empty id of a reloaded Working

ASSUME NoTaskAssumption == NoTask \notin TaskIds

Kinds == {"Registered", "Initializing", "Idle", "Working", "Paused",
          "ShuttingDown", "Stopped", "Error"}

AgentState == [kind : Kinds, task : TaskIds \cup {NoTask}]

Plain(k) == [kind |-> k, task |-> NoTask]

Triggers == {"Start", "InitializationComplete", "BeginTask", "CompleteTask",
             "Pause", "Resume", "Shutdown", "Stopped", "Error"}

\* Only BeginTask carries a task id.
StateTransition ==
  [name : Triggers \ {"BeginTask"}, task : {NoTask}]
    \cup [name : {"BeginTask"}, task : TaskIds]

Trigger(n) == [name |-> n, task |-> NoTask]
BeginTask(t) == [name |-> "BeginTask", task |-> t]

\* compute_new_state: current kind, trigger, next kind.
Edges ==
  { <<"Registered",   "Start",                  "Initializing">>,
    <<"Initializing", "InitializationComplete", "Idle">>,
    <<"Initializing", "Error",                  "Error">>,
    <<"Initializing", "Shutdown",               "ShuttingDown">>,
    <<"Idle",         "BeginTask",              "Working">>,
    <<"Idle",         "Pause",                  "Paused">>,
    <<"Idle",         "Shutdown",               "ShuttingDown">>,
    <<"Idle",         "Error",                  "Error">>,
    <<"Working",      "CompleteTask",           "Idle">>,
    <<"Working",      "Pause",                  "Paused">>,
    <<"Working",      "Shutdown",               "ShuttingDown">>,
    <<"Working",      "Error",                  "Error">>,
    <<"Paused",       "Resume",                 "Idle">>,
    <<"Paused",       "Shutdown",               "ShuttingDown">>,
    <<"Error",        "Start",                  "Initializing">>,
    <<"Error",        "Shutdown",               "ShuttingDown">>,
    <<"ShuttingDown", "Stopped",                "Stopped">> }

\* is_valid_transition: the second check, on the pair of states.
ValidPairs ==
  { <<"Registered", "Initializing">>, <<"Initializing", "Idle">>,
    <<"Initializing", "Error">>,      <<"Initializing", "ShuttingDown">>,
    <<"Idle", "Working">>,            <<"Idle", "Paused">>,
    <<"Idle", "ShuttingDown">>,       <<"Idle", "Error">>,
    <<"Working", "Idle">>,            <<"Working", "Paused">>,
    <<"Working", "ShuttingDown">>,    <<"Working", "Error">>,
    <<"Paused", "Idle">>,             <<"Paused", "ShuttingDown">>,
    <<"Error", "Initializing">>,      <<"Error", "ShuttingDown">>,
    <<"ShuttingDown", "Stopped">> }

\* What compute_new_state makes of state s under transition t, as a relation;
\* no state n satisfies it when the code returns Err.
NewState(s, t, n) ==
  /\ <<s.kind, t.name, n.kind>> \in Edges
  /\ <<s.kind, n.kind>> \in ValidPairs
  /\ n.task = IF n.kind = "Working" THEN t.task ELSE NoTask

\* transition refuses t in state s.
Refused(s, t) ==
  \A k \in Kinds : ~(<<s.kind, t.name, k>> \in Edges /\ <<s.kind, k>> \in ValidPairs)

----------------------------------------------------------------------------
AgentStateRecord == [state : AgentState, current : TaskIds \cup {NoTask},
                     total : Nat, ver : Nat]

FreshRecord(v) == [state |-> Plain("Registered"), current |-> NoTask,
                   total |-> 0, ver |-> v]

\* Mutant of Updated: a task is counted when it begins as well.
UpdatedCountsBegin(r, t, n, v) ==
  [state   |-> n,
   current |-> CASE t.name = "BeginTask"    -> t.task
                 [] t.name = "CompleteTask" -> NoTask
                 [] OTHER                   -> r.current,
   total   |-> IF t.name \in {"BeginTask", "CompleteTask"} THEN r.total + 1 ELSE r.total,
   ver     |-> v]

\* The assignments transition makes to the record: the task id is set by
\* BeginTask and cleared by CompleteTask only.
Updated(r, t, n, v) ==
  [state   |-> n,
   current |-> CASE t.name = "BeginTask"    -> t.task
                 [] t.name = "CompleteTask" -> NoTask
                 [] OTHER                   -> r.current,
   total   |-> IF t.name = "CompleteTask" THEN r.total + 1 ELSE r.total,
   ver     |-> v]

\* Mutants of Reloaded: the stored text is kept; the current task is lost too.
ReloadedUnparsed(r) ==
  [r EXCEPT !.state.kind = IF @ = "Working" THEN "Working { .. }" ELSE @]
ReloadedWithoutTask(r) ==
  [r EXCEPT !.state = Plain(r.state.kind), !.current = NoTask]

\* parse_agent_state reads "Working { .. }" back with an empty task id.
Reloaded(r) == [r EXCEPT !.state = Plain(r.state.kind)]
=============================================================================
