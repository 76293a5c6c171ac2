----------------------------- MODULE AgentPlans -----------------------------
(***************************************************************************)
(* Plans of one agent: the map active_plans and the execution of a plan's  *)
(* steps (crates/agents/src/agent_impl.rs, planning/plan.rs, the planners  *)
(* of planning/engine.rs).                                                 *)
(*                                                                         *)
(* A step is the number the planner gave it; the same number twice is the  *)
(* same step cloned.  Positions count from 1 here and from 0 in the code.  *)
(* An LLM that fails makes a failed step, never an error of the call, so a *)
(* step ends in one of two ways.  All methods take &self: calls overlap.   *)
(***************************************************************************)
EXTENDS Naturals, Sequences, SequencesExt, FiniteSets

CONSTANTS PlanCallers,  \* calls that may be under way at once
          PlanIds,      \* plans that may be made
          StepCap,      \* MAX_PLAN_STEPS
          ChainSizes,   \* lengths of the plans of the three chain planners
          HybridSizes,  \* numbers of steps the hybrid planner starts from
          CustomPlans   \* plans a caller builds itself for execute_plan

NoPlan == [steps |-> <<>>, deps |-> <<>>, parallel |-> FALSE, permits |-> 0, goOn |-> FALSE]
PlanShapes ==
  [steps : Seq(Nat), deps : Seq(SUBSET Nat), parallel : BOOLEAN, permits : Nat, goOn : BOOLEAN]

ASSUME PlansAssumption ==
  /\ StepCap \in Nat \ {0}
  /\ ChainSizes \subseteq Nat \ {0}
  /\ HybridSizes \subseteq Nat \ {0}
  /\ CustomPlans \subseteq PlanShapes \ {NoPlan}

VARIABLES
  planOf,      \* every plan made: callers and the map hold clones of it
  active,      \* the keys of active_plans
  pCall,       \* the call of each caller
  kept,        \* history: plans made by create_plan and plan-creation tasks
  timedOut,    \* history: plans whose execute_with_planning timed out
  takenOff     \* history: plans that were taken off the map

plansVars == <<planOf, active, pCall, kept, timedOut, takenOff>>

\* A call runs steps, or has a result and is about to take its plan off the map.
NoPlanCall == [stage |-> "idle"]
PlanCalls ==
  [stage : {"steps", "returned"}, kind : {"planning", "execution", "api"}, id : PlanIds,
   status : Seq({"waiting", "running", "ok", "failed"}), success : BOOLEAN]

Independent(n) == [i \in 1..n |-> {}]

\* Steps added one by one, each but the first with the one before as its
\* dependency; the default concurrency is 3.
Chain(n) ==
  [steps |-> [i \in 1..n |-> i], deps |-> [i \in 1..n |-> IF i = 1 THEN {} ELSE {i - 1}],
   parallel |-> FALSE, permits |-> 3, goOn |-> FALSE]

\* "Rebuild dependencies": the map is cleared and add_step_with_deps called for
\* the steps from the second on. It does not set the dependencies of a step, it
\* appends a clone of the step that has them.
Rebuilt(p) ==
  LET n == Len(p.steps) IN
  [p EXCEPT !.steps = @ \o Tail(@),
            !.deps = Independent(n) \o [j \in 1..(n - 1) |-> {j}]]

Hybrid(n) == [Rebuilt(Chain(n)) EXCEPT !.parallel = TRUE, !.permits = 5]

Planned == {Chain(n) : n \in ChainSizes} \cup {Hybrid(n) : n \in HybridSizes}

\* The plan execute_plan_internal really runs.
TooLong(p) == Len(p.steps) > StepCap
Executed(p) ==
  IF TooLong(p) THEN Rebuilt([p EXCEPT !.steps = SubSeq(@, 1, StepCap)]) ELSE p

NoDependencies(p) == \A i \in DOMAIN p.steps : p.deps[i] = {}
Mode(p) ==
  IF NoDependencies(Executed(p))
  THEN IF p.parallel /\ ~TooLong(p) THEN "parallel" ELSE "sequential"
  ELSE "waves"

PlansInit ==
  /\ planOf = [i \in PlanIds |-> NoPlan]
  /\ active = {}
  /\ pCall = [c \in PlanCallers |-> NoPlanCall]
  /\ kept = {} /\ timedOut = {} /\ takenOff = {}

----------------------------------------------------------------------------
(* Calls begin.                                                            *)

Unmade(i) == planOf[i] = NoPlan

PlanCallBegins(c, kind, i, p) ==
  /\ pCall[c] = NoPlanCall
  /\ pCall' = [pCall EXCEPT ![c] =
       [stage |-> "steps", kind |-> kind, id |-> i, success |-> FALSE,
        status |-> [k \in DOMAIN Executed(p).steps |-> "waiting"]]]

\* execute_with_planning: the plan is new to everybody.
PlanAndExecute(c, i, p) ==
  /\ Unmade(i) /\ p \in Planned
  /\ planOf' = [planOf EXCEPT ![i] = p]
  /\ active' = active \cup {i}
  /\ PlanCallBegins(c, "planning", i, p)
  /\ UNCHANGED <<kept, timedOut, takenOff>>

\* handle_plan_creation_task and create_plan.
CreatePlan(i, p) ==
  /\ Unmade(i) /\ p \in Planned
  /\ planOf' = [planOf EXCEPT ![i] = p]
  /\ active' = active \cup {i}
  /\ kept' = kept \cup {i}
  /\ UNCHANGED <<pCall, timedOut, takenOff>>

\* handle_plan_execution_task, and handle_plan_adaptation_task: a changed goal
\* resets statuses of steps that no execution here reads.
ExecuteActive(c, i) ==
  /\ i \in active
  /\ PlanCallBegins(c, "execution", i, planOf[i])
  /\ UNCHANGED <<planOf, active, kept, timedOut, takenOff>>

\* execute_plan: the caller has the plan from create_plan, or built it.
ExecutePlan(c, i, p) ==
  /\ IF Unmade(i) THEN p \in CustomPlans ELSE p = planOf[i]
  /\ planOf' = [planOf EXCEPT ![i] = p]
  /\ active' = active \cup {i}
  /\ takenOff' = takenOff \ {i}
  /\ PlanCallBegins(c, "api", i, p)
  /\ UNCHANGED <<kept, timedOut>>

\* cancel_plan takes the plan off the map; whoever executes it goes on.
CancelPlan(i) ==
  /\ i \in active
  /\ active' = active \ {i}
  /\ takenOff' = takenOff \cup {i}
  /\ UNCHANGED <<planOf, pCall, kept, timedOut>>

----------------------------------------------------------------------------
(* Steps.  The answer of the LLM ends a step; the call goes on when it is   *)
(* polled.                                                                 *)

PlanOf(c) == Executed(planOf[pCall[c].id])
InMode(c, m) == pCall[c].stage = "steps" /\ Mode(planOf[pCall[c].id]) = m
At(c, s) == {k \in DOMAIN pCall[c].status : pCall[c].status[k] = s}
Turns(c, K, s) ==
  /\ pCall' = [pCall EXCEPT ![c].status = [k \in DOMAIN @ |-> IF k \in K THEN s ELSE @[k]]]
  /\ UNCHANGED <<planOf, active, kept, timedOut, takenOff>>
PlanReturns(c, success) ==
  /\ pCall' = [pCall EXCEPT ![c].stage = "returned", ![c].success = success]
  /\ UNCHANGED <<planOf, active, kept, timedOut, takenOff>>

StepEnds(c, k) ==
  /\ pCall[c].stage = "steps" /\ k \in At(c, "running")
  /\ \E s \in {"ok", "failed"} : Turns(c, {k}, s)

\* A failure that ends the call.
Fatal(c) == At(c, "failed") # {} /\ ~PlanOf(c).goOn

ReadySteps(c) == {k \in At(c, "waiting") : PlanOf(c).deps[k] \subseteq At(c, "ok")}

\* execute_plan_with_dependencies: all ready steps run at once and the wave is
\* judged when the last of them has ended; failed steps may get another turn.
WaveStarts(c) ==
  /\ InMode(c, "waves") /\ At(c, "running") = {} /\ At(c, "failed") = {}
  /\ ReadySteps(c) # {}
  /\ Turns(c, ReadySteps(c), "running")

WaveRetries(c) ==
  /\ InMode(c, "waves") /\ At(c, "running") = {} /\ At(c, "failed") # {} /\ ~Fatal(c)
  /\ Turns(c, At(c, "failed"), "waiting")

WavesEnd(c) ==
  /\ InMode(c, "waves") /\ At(c, "running") = {}
  /\ \/ Fatal(c)
     \/ At(c, "failed") = {} /\ ReadySteps(c) = {}
  /\ PlanReturns(c, At(c, "ok") = DOMAIN pCall[c].status)

NextInLine(c) == {k \in At(c, "waiting") : \A j \in At(c, "waiting") : k <= j}

\* The plan without dependencies, step by step: the end of it is a success.
SequenceStarts(c) ==
  /\ InMode(c, "sequential") /\ At(c, "running") = {} /\ ~Fatal(c)
  /\ At(c, "waiting") # {}
  /\ Turns(c, NextInLine(c), "running")

SequenceEnds(c) ==
  /\ InMode(c, "sequential") /\ At(c, "running") = {}
  /\ Fatal(c) \/ At(c, "waiting") = {}
  /\ PlanReturns(c, ~Fatal(c))

\* execute_plan_parallel: permits go to the steps in order.
ParallelStarts(c) ==
  /\ InMode(c, "parallel") /\ At(c, "waiting") # {}
  /\ Cardinality(At(c, "running")) < PlanOf(c).permits
  /\ Turns(c, NextInLine(c), "running")

\* Mutant: one good step is enough.
ParallelForgives(c) ==
  /\ InMode(c, "parallel") /\ At(c, "running") \cup At(c, "waiting") = {}
  /\ PlanReturns(c, At(c, "ok") # {})

\* join_all: the results are judged when all steps have ended.
ParallelEnds(c) ==
  /\ InMode(c, "parallel") /\ At(c, "running") \cup At(c, "waiting") = {}
  /\ PlanReturns(c, At(c, "failed") = {})

----------------------------------------------------------------------------
(* Calls end.                                                              *)

\* The plan goes off the map, but for that of an execution or adaptation task.
Cleanup(c) ==
  /\ pCall[c].stage = "returned"
  /\ active' = IF pCall[c].kind = "execution" THEN active ELSE active \ {pCall[c].id}
  /\ takenOff' = takenOff \cup (active \ active')
  /\ pCall' = [pCall EXCEPT ![c] = NoPlanCall]
  /\ UNCHANGED <<planOf, kept, timedOut>>

\* execute_with_planning alone has a timeout, and returns from it before its
\* cleanup.
PlanTimesOut(c) ==
  /\ pCall[c].stage = "steps" /\ pCall[c].kind = "planning"
  /\ timedOut' = timedOut \cup {pCall[c].id}
  /\ pCall' = [pCall EXCEPT ![c] = NoPlanCall]
  /\ UNCHANGED <<planOf, active, kept, takenOff>>

PlanCallStep(c) ==
  \/ \E i \in PlanIds :
       \/ \E p \in Planned : PlanAndExecute(c, i, p)
       \/ \E p \in CustomPlans \cup {planOf[i]} : ExecutePlan(c, i, p)
       \/ ExecuteActive(c, i)
  \/ pCall[c].stage = "steps" /\ \E k \in DOMAIN pCall[c].status : StepEnds(c, k)
  \/ WaveStarts(c) \/ WaveRetries(c) \/ WavesEnd(c)
  \/ SequenceStarts(c) \/ SequenceEnds(c)
  \/ ParallelStarts(c) \/ ParallelEnds(c)
  \/ Cleanup(c) \/ PlanTimesOut(c)

PlansNext ==
  \/ \E c \in PlanCallers : PlanCallStep(c)
  \/ \E i \in PlanIds : CancelPlan(i) \/ \E p \in Planned : CreatePlan(i, p)

PlansSpec == PlansInit /\ [][PlansNext]_plansVars

----------------------------------------------------------------------------
(* Properties.                                                             *)

\* Every variable has its type; only plans that were made are on the map.
PlansTypeOK ==
  /\ planOf \in [PlanIds -> Planned \cup CustomPlans \cup {NoPlan}]
  /\ active \subseteq {i \in PlanIds : ~Unmade(i)}
  /\ pCall \in [PlanCallers -> PlanCalls \cup {NoPlanCall}]
  /\ kept \subseteq PlanIds /\ timedOut \subseteq PlanIds /\ takenOff \subseteq PlanIds

\* A plan that was successful, by whichever of the three ways it was executed,
\* had every step done that the cap leaves of it, and none of them failed, unless
\* it ran in sequence and was told to go on (agent_impl.rs:1418-1684).
SuccessIsEarned ==
  \A c \in PlanCallers :
    pCall[c].stage = "returned" /\ pCall[c].success =>
      LET p == planOf[pCall[c].id] IN
      /\ {PlanOf(c).steps[k] : k \in At(c, "ok") \cup At(c, "failed")} =
           {p.steps[k] : k \in 1..(IF TooLong(p) THEN StepCap ELSE Len(p.steps))}
      /\ At(c, "failed") # {} => Mode(p) = "sequential" /\ p.goOn

\* A plan is on the map because a call runs it, because somebody asked for it to
\* be made and has yet to run it, or because its task timed out: that plan
\* nobody removes. A plan that is run is on the map, unless another call of the
\* same plan or a cancellation took it off (agent_impl.rs:1293-1327, 1923-1975).
ActivePlansExplained ==
  /\ \A i \in active \ (kept \cup timedOut) :
       \E c \in PlanCallers : pCall[c].stage # "idle" /\ pCall[c].id = i
  /\ \A c \in PlanCallers :
       pCall[c].stage # "idle" => pCall[c].id \in active \cup takenOff

\* The two together: what a call reports, and what the map keeps
\* (agent_impl.rs:1273-1691).
PlansAccounted == SuccessIsEarned /\ ActivePlansExplained

\* "Truncation requires rebuilding dependencies, so we fall back to sequential
\* execution on a truncated view. For safety, we execute sequentially."
\* (agent_impl.rs:1430): one step at a time.
TruncatedPlanIsSequential ==
  \A c \in PlanCallers :
    pCall[c].stage = "steps" /\ TooLong(planOf[pCall[c].id]) =>
      Cardinality(At(c, "running")) <= 1
=============================================================================
