---------------------------- MODULE DagScheduler ----------------------------
(***************************************************************************)
(* DagScheduler (crates/agents/src/queue/dag_scheduler.rs): one workflow   *)
(* instance, the scheduler's workers, its health monitor and shutdown.     *)
(*                                                                         *)
(* Instances share nothing but the ready queue, so one is modelled.  The   *)
(* semaphore has as many permits as there are workers and never blocks.    *)
(* An action is what runs under one acquisition of the instances lock; the *)
(* events sent inside it are kept only where a property speaks of them     *)
(* (the channel holds 10000 and is taken to be drained).                   *)
(***************************************************************************)
EXTENDS Integers, Sequences, SequencesExt, FiniteSets

CONSTANTS Tasks, Workers,
          Workflows,   \* the workflows a client may submit, as dependency maps
          MaxRetries,  \* retry_policy.max_retries
          NoWork,      \* a worker without a request
          Monitor      \* the health monitor's task

ASSUME DagAssumption ==
  /\ IsFiniteSet(Tasks)
  /\ Workflows \subseteq [Tasks -> SUBSET Tasks]
  /\ MaxRetries \in Nat
  /\ NoWork \notin Tasks
  /\ Monitor \notin Workers

VARIABLES
  deps,      \* workflow.dependencies
  status,    \* task_states: the status of each task
  retries,   \* retry_count
  workflow,  \* instance.status, "none" before it is stored
  submit,    \* where submit_workflow is
  toQueue,   \* ready tasks queue_ready_tasks has still to push
  queue,     \* ready_queue
  wpc,       \* where each worker is in its loop
  task,      \* the request a worker holds
  ready,     \* the tasks update_downstream_tasks found ready
  shutdown,  \* "no", "notified" or "done"
  monitor,   \* where the health monitor is in its loop
  woken,     \* tasks whose notified() future has fired
  attempts,  \* history: how often each task was given to a worker
  reported   \* history: success flags of the WorkflowCompleted events

worker == <<wpc, task, ready, woken>>
vars == <<deps, status, retries, workflow, submit, toQueue, queue, worker, shutdown,
          monitor, attempts, reported>>

TaskExecutionStatus ==
  {"Pending", "Ready", "Running", "Completed", "Failed"}
WorkflowStatus == {"none", "Pending", "Running", "Completed", "Failed"}
WPCs == {"top", "listen", "start", "execute", "fail", "downstream", "mark",
         "check", "exited"}

Roots == {t \in Tasks : deps[t] = {}}
NoDeps == [t \in Tasks |-> {}]
Finished(t) == status[t] \in {"Completed", "Failed"}

Init ==
  /\ deps = NoDeps
  /\ status = [t \in Tasks |-> "Pending"]
  /\ retries = [t \in Tasks |-> 0]
  /\ workflow = "none"
  /\ submit = "new"
  /\ toQueue = {}
  /\ queue = <<>>
  /\ wpc = [w \in Workers |-> "top"]
  /\ task = [w \in Workers |-> NoWork]
  /\ ready = [w \in Workers |-> {}]
  /\ shutdown = "no"
  /\ monitor = "listen"
  /\ woken = {}
  /\ attempts = [t \in Tasks |-> 0]
  /\ reported = {}

----------------------------------------------------------------------------
(* submit_workflow, start_workflow_execution, queue_ready_tasks.           *)

\* validate_workflow: toposort finds an order, so every task can be given a
\* place after the tasks it depends on.
Acyclic(d) ==
  \E place \in [Tasks -> 1..Cardinality(Tasks)] :
    \A t \in Tasks : \A p \in d[t] : place[p] < place[t]

SubmitWorkflow(d) ==
  /\ submit = "new" /\ Acyclic(d)
  /\ deps' = d
  /\ status' = [t \in Tasks |-> IF d[t] = {} THEN "Ready" ELSE "Pending"]
  /\ workflow' = "Pending"
  /\ submit' = "stored"
  /\ UNCHANGED <<retries, toQueue, queue, worker, shutdown, monitor, attempts, reported>>

StartWorkflowExecution ==
  /\ submit = "stored"
  /\ workflow' = "Running"
  /\ submit' = "started"
  /\ UNCHANGED <<deps, status, retries, toQueue, queue, worker, shutdown, monitor,
                 attempts, reported>>

\* Mutant: the wrong status is queued.
CollectPending ==
  /\ submit = "started"
  /\ toQueue' = {t \in Tasks : status[t] = "Pending"}
  /\ submit' = "queueing"
  /\ UNCHANGED <<deps, status, retries, workflow, queue, worker, shutdown,
                 monitor, attempts, reported>>

CollectReady ==
  /\ submit = "started"
  /\ toQueue' = {t \in Tasks : status[t] = "Ready"}
  /\ submit' = "queueing"
  /\ UNCHANGED <<deps, status, retries, workflow, queue, worker, shutdown,
                 monitor, attempts, reported>>

\* The map iterates in any order; the queue is locked for one push at a time.
QueueReadyTask(t) ==
  /\ submit = "queueing" /\ t \in toQueue
  /\ queue' = Append(queue, t)
  /\ toQueue' = toQueue \ {t}
  /\ UNCHANGED <<deps, status, retries, workflow, submit, worker, shutdown,
                 monitor, attempts, reported>>

----------------------------------------------------------------------------
(* The loop of a worker.  From "listen" on, its notified() future exists.  *)

WMoves(w, l) == wpc' = [wpc EXCEPT ![w] = l]
\* The branch of the select is over: its future is dropped with the listener.
WReturns(w) ==
  /\ WMoves(w, "top")
  /\ task' = [task EXCEPT ![w] = NoWork]
  /\ ready' = [ready EXCEPT ![w] = {}]
  /\ woken' = woken \ {w}
Others == UNCHANGED <<deps, workflow, submit, toQueue, shutdown, monitor, reported>>

Listen(w) ==
  /\ wpc[w] = "top"
  /\ WMoves(w, "listen")
  /\ Others /\ UNCHANGED <<status, retries, queue, task, ready, woken, attempts>>

\* Finding no work, a worker sleeps 10 ms and returns to the top.
Sleep(w) ==
  /\ wpc[w] = "listen" /\ queue = <<>>
  /\ WReturns(w)
  /\ Others /\ UNCHANGED <<status, retries, queue, attempts>>

\* A request is popped; an executor that can run it is registered, or none is.
TakeRequest(w) ==
  /\ wpc[w] = "listen" /\ queue # <<>>
  /\ task' = [task EXCEPT ![w] = Head(queue)]
  /\ attempts' = [attempts EXCEPT ![Head(queue)] = @ + 1]
  /\ queue' = Tail(queue)
  /\ \E found \in BOOLEAN : WMoves(w, IF found THEN "start" ELSE "fail")
  /\ Others /\ UNCHANGED <<status, retries, ready, woken>>

MarkRunning(w) ==
  /\ wpc[w] = "start"
  /\ status' = [status EXCEPT ![task[w]] = "Running"]
  /\ WMoves(w, "execute")
  /\ Others /\ UNCHANGED <<retries, queue, task, ready, woken, attempts>>

ExecuteFails(w) ==
  /\ wpc[w] = "execute"
  /\ WMoves(w, "fail")
  /\ Others /\ UNCHANGED <<status, retries, queue, task, ready, woken, attempts>>

\* complete_task, whatever the status has become (a timed-out task too).
CompleteTask(w) ==
  /\ wpc[w] = "execute"
  /\ status' = [status EXCEPT ![task[w]] = "Completed"]
  /\ WMoves(w, "downstream")
  /\ Others /\ UNCHANGED <<retries, queue, task, ready, woken, attempts>>

\* Mutant: the task is left waiting for its retry.
FailTaskWaits(w) ==
  /\ wpc[w] = "fail"
  /\ retries' = [retries EXCEPT ![task[w]] = @ + 1]
  /\ status' = [status EXCEPT ![task[w]] = "WaitingRetry"]
  /\ WMoves(w, "check")
  /\ Others /\ UNCHANGED <<queue, task, ready, woken, attempts>>

\* fail_task: a retry is "just marked as ready again" and queued by nobody.
FailTask(w) ==
  LET t == task[w] IN
  /\ wpc[w] = "fail"
  /\ IF retries[t] < MaxRetries
     THEN /\ retries' = [retries EXCEPT ![t] = @ + 1]
          /\ status' = [status EXCEPT ![t] = "Ready"]
     ELSE /\ status' = [status EXCEPT ![t] = "Failed"]
          /\ UNCHANGED retries
  /\ WMoves(w, "check")
  /\ Others /\ UNCHANGED <<queue, task, ready, woken, attempts>>

\* Mutant: one completed dependency is enough.
SomeDepCompleted(t) == \E d \in deps[t] : status[d] = "Completed"

AllDepsCompleted(t) == \A d \in deps[t] : status[d] = "Completed"

\* update_downstream_tasks reads under one lock ...
FindDownstream(w) ==
  /\ wpc[w] = "downstream"
  /\ ready' = [ready EXCEPT ![w] =
       {t \in Tasks : task[w] \in deps[t] /\ status[t] = "Pending" /\ AllDepsCompleted(t)}]
  /\ WMoves(w, "mark")
  /\ Others /\ UNCHANGED <<status, retries, queue, task, woken, attempts>>

\* Mutant: the missing hand-over, made without looking at the status again.
MarkDownstreamAndQueue(w) ==
  /\ wpc[w] = "mark"
  /\ status' = [t \in Tasks |-> IF t \in ready[w] THEN "Ready" ELSE status[t]]
  /\ queue' = queue \o SetToSeq(ready[w])
  /\ WMoves(w, "check")
  /\ Others /\ UNCHANGED <<retries, task, ready, woken, attempts>>

\* ... and writes under another.  Nothing is queued here.
MarkDownstream(w) ==
  /\ wpc[w] = "mark"
  /\ status' = [t \in Tasks |-> IF t \in ready[w] THEN "Ready" ELSE status[t]]
  /\ WMoves(w, "check")
  /\ Others /\ UNCHANGED <<retries, queue, task, ready, woken, attempts>>

\* Mutant: tasks that wait for others do not hold the workflow open.
CheckIgnoresWaiting(w) ==
  /\ wpc[w] = "check"
  /\ IF \A t \in Tasks : status[t] # "Running"
     THEN LET success == \A t \in Tasks : status[t] # "Failed" IN
          /\ workflow' = IF success THEN "Completed" ELSE "Failed"
          /\ reported' = reported \cup {success}
     ELSE UNCHANGED <<workflow, reported>>
  /\ WReturns(w)
  /\ UNCHANGED <<deps, status, retries, submit, toQueue, queue, shutdown,
                 monitor, attempts>>

CheckWorkflowCompletion(w) ==
  /\ wpc[w] = "check"
  /\ IF \A t \in Tasks : Finished(t)
     THEN LET success == \A t \in Tasks : status[t] # "Failed" IN
          /\ workflow' = IF success THEN "Completed" ELSE "Failed"
          /\ reported' = reported \cup {success}
     ELSE UNCHANGED <<workflow, reported>>
  /\ WReturns(w)
  /\ UNCHANGED <<deps, status, retries, submit, toQueue, queue, shutdown,
                 monitor, attempts>>

\* The select takes the shutdown branch at an await of the other one, which is
\* dropped there: a request in hand is lost with it.
WorkerExits(w) ==
  /\ w \in woken /\ wpc[w] \notin {"top", "exited"}
  /\ WMoves(w, "exited")
  /\ woken' = woken \ {w}
  /\ Others /\ UNCHANGED <<status, retries, queue, task, ready, attempts>>

WorkerStep(w) ==
  \/ Listen(w) \/ Sleep(w) \/ TakeRequest(w) \/ MarkRunning(w) \/ ExecuteFails(w)
  \/ CompleteTask(w) \/ FailTask(w) \/ FindDownstream(w) \/ MarkDownstream(w)
  \/ CheckWorkflowCompletion(w) \/ WorkerExits(w)

----------------------------------------------------------------------------
(* check_workflow_health and shutdown.                                     *)

MonitorTicks ==
  /\ monitor = "listen"
  /\ monitor' = "check"
  /\ woken' = woken \ {Monitor}
  /\ UNCHANGED <<deps, status, retries, workflow, submit, toQueue, queue, wpc, task,
                 ready, shutdown, attempts, reported>>

\* A timed-out task is Failed; its executor runs on and nobody checks whether
\* the workflow is complete.
CheckWorkflowHealth ==
  /\ monitor = "check"
  /\ \E late \in SUBSET {t \in Tasks : workflow = "Running" /\ status[t] = "Running"} :
       status' = [t \in Tasks |-> IF t \in late THEN "Failed" ELSE status[t]]
  /\ monitor' = "listen"
  /\ UNCHANGED <<deps, retries, workflow, submit, toQueue, queue, worker, shutdown,
                 attempts, reported>>

MonitorExits ==
  /\ monitor = "listen" /\ Monitor \in woken
  /\ monitor' = "exited"
  /\ woken' = woken \ {Monitor}
  /\ UNCHANGED <<deps, status, retries, workflow, submit, toQueue, queue, wpc, task,
                 ready, shutdown, attempts, reported>>

\* notify_waiters reaches the listeners there are, and stores nothing.
Shutdown ==
  /\ shutdown = "no"
  /\ shutdown' = "notified"
  /\ woken' = {w \in Workers : wpc[w] \notin {"top", "exited"}}
                \cup (IF monitor = "listen" THEN {Monitor} ELSE {})
  /\ UNCHANGED <<deps, status, retries, workflow, submit, toQueue, queue, wpc, task,
                 ready, monitor, attempts, reported>>

ShutdownReturns ==
  /\ shutdown = "notified"
  /\ monitor = "exited" /\ \A w \in Workers : wpc[w] = "exited"
  /\ shutdown' = "done"
  /\ UNCHANGED <<deps, status, retries, workflow, submit, toQueue, queue, worker,
                 monitor, attempts, reported>>

Submission ==
  \/ \E d \in Workflows : SubmitWorkflow(d)
  \/ StartWorkflowExecution \/ CollectReady
  \/ \E t \in Tasks : QueueReadyTask(t)

Next ==
  \/ Submission
  \/ \E w \in Workers : WorkerStep(w)
  \/ MonitorTicks \/ CheckWorkflowHealth \/ MonitorExits
  \/ Shutdown \/ ShutdownReturns

\* Tokio runs every task that is ready, and executors return.
Fairness ==
  /\ WF_vars(StartWorkflowExecution) /\ WF_vars(CollectReady)
  /\ \A t \in Tasks : WF_vars(QueueReadyTask(t))
  /\ \A w \in Workers : WF_vars(WorkerStep(w))

Safety == Init /\ [][Next]_vars
Spec == Safety /\ Fairness

----------------------------------------------------------------------------
(* Properties.                                                             *)

\* Every variable has its type.
TypeOK ==
  /\ deps \in [Tasks -> SUBSET Tasks]
  /\ status \in [Tasks -> TaskExecutionStatus]
  /\ retries \in [Tasks -> Nat]
  /\ workflow \in WorkflowStatus
  /\ submit \in {"new", "stored", "started", "queueing"}
  /\ toQueue \in SUBSET Tasks
  /\ queue \in Seq(Tasks)
  /\ wpc \in [Workers -> WPCs]
  /\ task \in [Workers -> Tasks \cup {NoWork}]
  /\ ready \in [Workers -> SUBSET Tasks]
  /\ shutdown \in {"no", "notified", "done"}
  /\ monitor \in {"listen", "check", "exited"}
  /\ woken \in SUBSET (Workers \cup {Monitor})
  /\ attempts \in [Tasks -> Nat]
  /\ reported \in SUBSET BOOLEAN

\* No task gets ahead of its dependencies: once it is more than Pending, all of
\* them are Completed, and stay so, in spite of timeouts, late results and the
\* two locks of update_downstream_tasks.
DependenciesFirst ==
  \A t \in Tasks : status[t] # "Pending" =>
    \A d \in deps[t] : status[d] = "Completed"

\* A success that was reported is never taken back: every task is Completed and
\* the workflow is, whatever the workers and the monitor do later.
SuccessIsFinal ==
  TRUE \in reported =>
    workflow = "Completed" /\ \A t \in Tasks : status[t] = "Completed"

\* A request is in one place: no task is queued twice, or queued and in the
\* hands of a worker, or in the hands of two.
Holders(t) == {w \in Workers : task[w] = t /\ wpc[w] # "exited"}
Places(t) ==
  Cardinality({i \in DOMAIN queue : queue[i] = t}) + Cardinality(Holders(t))
    + (IF t \in toQueue THEN 1 ELSE 0)
OnePlace == \A t \in Tasks : Places(t) <= 1

\* Every task without dependencies is given to a worker unless the scheduler is
\* shut down.
RootsAreAttempted ==
  \A t \in Tasks :
    submit = "stored" /\ t \in Roots ~> attempts[t] > 0 \/ shutdown # "no"

\* "Provides explicit task dependency management with topological ordering"
\* (dag_scheduler.rs:3): a submitted workflow ends unless the scheduler is shut
\* down.
WorkflowEnds ==
  submit = "stored" ~> workflow \in {"Completed", "Failed"} \/ shutdown # "no"
=============================================================================
