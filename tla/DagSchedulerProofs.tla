------------------------ MODULE DagSchedulerProofs -------------------------
(***************************************************************************)
(* Safety of DagScheduler for any finite set of tasks, and any workers and *)
(* workflows.                                                              *)
(*                                                                         *)
(* IInv strengthens the three invariants with what makes them inductive:   *)
(* nothing moves before the ready tasks are collected; only tasks without  *)
(* dependencies are ever queued; a request is in one place; and a worker   *)
(* that may still change the status of its task holds one that is not      *)
(* Completed, so that Completed is for ever. Two more theorems say that a  *)
(* workflow never waits on itself and that no root is lost on its way.     *)
(***************************************************************************)
EXTENDS DagScheduler, SequenceTheorems, FiniteSetTheorems, WellFoundedInduction,
        TLAPS

Busy == {"start", "execute", "fail", "downstream", "mark", "check"}
Early == submit \in {"new", "stored", "started"}

WellTyped ==
  /\ TypeOK
  /\ \A w \in Workers : wpc[w] \in Busy => task[w] \in Tasks
  /\ \A w \in Workers : wpc[w] \in {"top", "listen"} => task[w] = NoWork

\* Before CollectReady nothing is queued, held or reported, and the statuses
\* are those submit_workflow gave.
EarlyQuiet ==
  Early => /\ queue = <<>> /\ toQueue = {} /\ reported = {}
           /\ \A w \in Workers : wpc[w] \notin Busy /\ ready[w] = {}
           /\ \A t \in Tasks :
                status[t] = IF submit # "new" /\ deps[t] = {} THEN "Ready" ELSE "Pending"

\* Only tasks without dependencies are given to workers.
OnlyRootsMove ==
  /\ toQueue \subseteq Roots
  /\ \A i \in DOMAIN queue : queue[i] \in Roots
  /\ \A w \in Workers : wpc[w] \in Busy => task[w] \in Roots
  /\ \A t \in Tasks \ Roots : status[t] \in {"Pending", "Ready"}

\* A request is in one place.
Apart ==
  /\ \A i, j \in DOMAIN queue : queue[i] = queue[j] => i = j
  /\ \A i \in DOMAIN queue : queue[i] \notin toQueue
  /\ \A w \in Workers : wpc[w] \in Busy =>
       /\ task[w] \notin toQueue
       /\ \A i \in DOMAIN queue : queue[i] # task[w]
       /\ \A v \in Workers : wpc[v] \in Busy /\ task[v] = task[w] => v = w

\* Nobody who may change a status holds a Completed task.
CompletedIsSettled ==
  \A t \in Tasks : status[t] = "Completed" =>
    /\ t \notin toQueue
    /\ \A i \in DOMAIN queue : queue[i] # t
    /\ \A w \in Workers :
         task[w] = t => wpc[w] \notin {"start", "execute", "fail"}

\* What update_downstream_tasks found ready is ready when it is marked.
ReadyIsReady ==
  \A w \in Workers : \A t \in ready[w] : t \notin Roots /\ AllDepsCompleted(t)

IInv ==
  /\ WellTyped /\ EarlyQuiet /\ OnlyRootsMove /\ Apart /\ CompletedIsSettled
  /\ ReadyIsReady /\ DependenciesFirst /\ SuccessIsFinal

\* What Append adds to a sequence.
LEMMA AppendElements ==
  ASSUME NEW S, NEW s \in Seq(S), NEW e \in S
  PROVE  \A i \in DOMAIN Append(s, e) :
           \/ i \in DOMAIN s /\ Append(s, e)[i] = s[i]
           \/ i = Len(s) + 1 /\ Append(s, e)[i] = e
<1>1. Append(s, e) \in Seq(S) /\ Len(Append(s, e)) = Len(s) + 1
  BY AppendProperties
<1>2. Len(s) \in Nat /\ DOMAIN s = 1..Len(s) /\ DOMAIN Append(s, e) = 1..(Len(s) + 1)
  BY <1>1, LenProperties
<1> QED BY <1>2, AppendProperties

\* submit_workflow stores an instance whose ready tasks are its roots.
LEMMA SubmitWorkflowStep ==
  ASSUME IInv, NEW d \in Workflows, SubmitWorkflow(d)
  PROVE  IInv'
<1>1. WellTyped'
    BY DagAssumption DEF IInv, WellTyped, TypeOK, SubmitWorkflow, worker,
       TaskExecutionStatus, WorkflowStatus
<1>2. EarlyQuiet'
    BY DagAssumption DEF IInv, EarlyQuiet, SubmitWorkflow, worker, Early
<1>3. OnlyRootsMove'
    BY DagAssumption DEF IInv, EarlyQuiet, OnlyRootsMove, SubmitWorkflow,
       worker, Early
<1>4. ReadyIsReady'
    BY DagAssumption DEF IInv, EarlyQuiet, ReadyIsReady, SubmitWorkflow, worker,
       Early
<1>5. DependenciesFirst'
    BY DagAssumption DEF IInv, DependenciesFirst, SubmitWorkflow
<1>6. Apart' /\ CompletedIsSettled'
    BY DagAssumption DEF IInv, Apart, CompletedIsSettled, SubmitWorkflow, worker
<1>7. SuccessIsFinal'
    BY DEF IInv, WellTyped, EarlyQuiet, ReadyIsReady, DependenciesFirst,
       SuccessIsFinal, TypeOK, SubmitWorkflow, worker, Busy, Early, Roots,
       AllDepsCompleted
<1> QED BY <1>1, <1>2, <1>3, <1>4, <1>5, <1>6, <1>7 DEF IInv

\* The workflow is Running before anything is queued.
LEMMA StartWorkflowExecutionStep ==
  ASSUME IInv, StartWorkflowExecution
  PROVE  IInv'
<1>1. WellTyped'
    BY DagAssumption DEF IInv, WellTyped, TypeOK, StartWorkflowExecution,
       worker, WorkflowStatus
<1>2. EarlyQuiet'
    BY DEF IInv, EarlyQuiet, StartWorkflowExecution, worker, Early
<1>3. OnlyRootsMove'
    BY DEF IInv, OnlyRootsMove, StartWorkflowExecution, worker, Roots
<1>4. Apart' /\ CompletedIsSettled'
    BY DagAssumption DEF IInv, Apart, CompletedIsSettled,
       StartWorkflowExecution, worker
<1>5. ReadyIsReady' /\ DependenciesFirst' /\ SuccessIsFinal'
    BY DEF IInv, WellTyped, EarlyQuiet, ReadyIsReady, DependenciesFirst,
       SuccessIsFinal, TypeOK, StartWorkflowExecution, worker, Busy, Early,
       Roots, AllDepsCompleted
<1> QED BY <1>1, <1>2, <1>3, <1>4, <1>5 DEF IInv

\* Only roots are Ready when the ready tasks are collected.
LEMMA CollectReadyStep ==
  ASSUME IInv, CollectReady
  PROVE  IInv'
<1>1. WellTyped'
    BY DagAssumption DEF IInv, WellTyped, TypeOK, CollectReady, worker
<1>2. OnlyRootsMove'
    BY DEF IInv, WellTyped, EarlyQuiet, OnlyRootsMove, TypeOK, CollectReady,
       worker, Busy, Early, Roots
<1>3. CompletedIsSettled'
    BY DEF IInv, CompletedIsSettled, CollectReady, worker
<1>4. EarlyQuiet'
    BY DEF IInv, EarlyQuiet, CollectReady, Early
<1>5. Apart'
    BY DagAssumption DEF IInv, EarlyQuiet, Apart, CollectReady, worker, Early
<1>6. ReadyIsReady' /\ DependenciesFirst' /\ SuccessIsFinal'
    BY DEF IInv, WellTyped, EarlyQuiet, ReadyIsReady, DependenciesFirst,
       SuccessIsFinal, TypeOK, CollectReady, worker, Busy, Early, Roots,
       AllDepsCompleted
<1> QED BY <1>1, <1>2, <1>3, <1>4, <1>5, <1>6 DEF IInv

\* A collected task moves to the queue.
LEMMA QueueReadyTaskStep ==
  ASSUME IInv, NEW t \in Tasks, QueueReadyTask(t)
  PROVE  IInv'
<1>1. WellTyped'
    BY DagAssumption DEF IInv, WellTyped, TypeOK, QueueReadyTask, worker
<1>h. \A i \in DOMAIN queue' :
        \/ i \in DOMAIN queue /\ queue'[i] = queue[i]
        \/ i = Len(queue) + 1 /\ queue'[i] = t
    BY AppendElements DEF IInv, WellTyped, TypeOK, QueueReadyTask
<1>2. OnlyRootsMove'
    BY <1>h DEF IInv, OnlyRootsMove, QueueReadyTask, worker, Roots
<1>3. Apart'
  <2>1. t \in toQueue /\ \A i \in DOMAIN queue : queue[i] # t
    BY DEF IInv, Apart, QueueReadyTask
  <2> QED BY <1>h, <2>1 DEF IInv, Apart, QueueReadyTask, worker
<1>4. CompletedIsSettled'
    BY DEF IInv, CompletedIsSettled, QueueReadyTask, worker
<1>5. EarlyQuiet'
    BY DEF IInv, EarlyQuiet, QueueReadyTask, Early
<1>6. ReadyIsReady' /\ DependenciesFirst' /\ SuccessIsFinal'
    BY DEF IInv, WellTyped, EarlyQuiet, ReadyIsReady, DependenciesFirst,
       SuccessIsFinal, TypeOK, QueueReadyTask, worker, Busy, Early, Roots,
       AllDepsCompleted
<1> QED BY <1>1, <1>2, <1>3, <1>4, <1>5, <1>6 DEF IInv

\* A worker registers with the shutdown signal.
LEMMA ListenStep ==
  ASSUME IInv, NEW w \in Workers, Listen(w)
  PROVE  IInv'
<1>1. WellTyped'
    BY DagAssumption DEF IInv, WellTyped, TypeOK, Listen, WMoves, Others, Busy,
       WPCs
<1>2. EarlyQuiet' /\ OnlyRootsMove'
    BY DEF IInv, EarlyQuiet, OnlyRootsMove, Listen, WMoves, Others, Busy, Early,
       Roots
<1>3. Apart' /\ CompletedIsSettled'
    BY DagAssumption DEF IInv, Apart, CompletedIsSettled, Listen, WMoves,
       Others, Busy
<1>4. ReadyIsReady' /\ DependenciesFirst' /\ SuccessIsFinal'
    BY DEF IInv, WellTyped, EarlyQuiet, ReadyIsReady, DependenciesFirst,
       SuccessIsFinal, TypeOK, Listen, WMoves, Others, Busy, Early, Roots,
       AllDepsCompleted
<1> QED BY <1>1, <1>2, <1>3, <1>4 DEF IInv

\* A worker finds the queue empty and drops its listener.
LEMMA SleepStep ==
  ASSUME IInv, NEW w \in Workers, Sleep(w)
  PROVE  IInv'
<1>1. WellTyped'
    BY DagAssumption DEF IInv, WellTyped, TypeOK, Sleep, WMoves, WReturns,
       Others, Busy, WPCs
<1>2. EarlyQuiet' /\ OnlyRootsMove'
    BY DEF IInv, EarlyQuiet, OnlyRootsMove, Sleep, WMoves, WReturns, Others,
       Busy, Early, Roots
<1>3. Apart' /\ CompletedIsSettled'
    BY DagAssumption DEF IInv, Apart, CompletedIsSettled, Sleep, WMoves,
       WReturns, Others, Busy
<1>4. ReadyIsReady' /\ DependenciesFirst' /\ SuccessIsFinal'
    BY DEF IInv, WellTyped, EarlyQuiet, ReadyIsReady, DependenciesFirst,
       SuccessIsFinal, TypeOK, Sleep, WMoves, WReturns, Others, Busy, Early,
       Roots, AllDepsCompleted
<1> QED BY <1>1, <1>2, <1>3, <1>4 DEF IInv

\* A request moves from the queue to one worker.
LEMMA TakeRequestStep ==
  ASSUME IInv, NEW w \in Workers, TakeRequest(w)
  PROVE  IInv'
<1>1. WellTyped'
    BY DagAssumption DEF IInv, WellTyped, TypeOK, TakeRequest, WMoves, Others,
       WPCs
<1>h. /\ 1 \in DOMAIN queue /\ queue[1] = Head(queue)
      /\ \A i \in DOMAIN queue' : i + 1 \in DOMAIN queue /\ queue'[i] = queue[i + 1]
      /\ DOMAIN queue' \subseteq Int
    BY HeadTailProperties, LenProperties, EmptySeq
    DEF IInv, WellTyped, TypeOK, TakeRequest
<1>2. OnlyRootsMove'
  <2>1. /\ Head(queue) \in Roots
        /\ \A i \in DOMAIN queue' : queue'[i] \in Roots
    BY <1>h DEF IInv, OnlyRootsMove
  <2>2. \A v \in Workers : task'[v] = IF v = w THEN Head(queue) ELSE task[v]
    BY DEF IInv, WellTyped, TypeOK, TakeRequest
  <2>3. \A v \in Workers \ {w} : wpc'[v] = wpc[v]
    BY DEF IInv, TakeRequest, WMoves
  <2> QED
    BY <2>1, <2>2, <2>3 DEF IInv, OnlyRootsMove, TakeRequest, Others, Roots
<1>3. Apart'
  <2>2. /\ \A i, j \in DOMAIN queue' : queue'[i] = queue'[j] => i = j
        /\ \A i \in DOMAIN queue' : queue'[i] \notin toQueue' /\ queue'[i] # Head(queue)
    BY <1>h DEF IInv, Apart, TakeRequest, Others
  <2>3. task' = [task EXCEPT ![w] = Head(queue)] /\ toQueue' = toQueue /\ wpc[w] \notin Busy
    BY DEF TakeRequest, Others, Busy
  <2>4. \A v \in Workers \ {w} : wpc'[v] = wpc[v] /\ task'[v] = task[v]
    BY DEF IInv, TakeRequest, WMoves
  <2>5. /\ Head(queue) \notin toQueue
        /\ \A v \in Workers : wpc[v] \in Busy => task[v] # Head(queue)
    BY <1>h DEF IInv, Apart
  <2>6. task'[w] = Head(queue)
    BY <2>3 DEF IInv, WellTyped, TypeOK
  <2>7. ASSUME NEW v \in Workers, wpc'[v] \in Busy
        PROVE  /\ task'[v] \notin toQueue'
               /\ \A i \in DOMAIN queue' : queue'[i] # task'[v]
               /\ \A u \in Workers : wpc'[u] \in Busy /\ task'[u] = task'[v] => u = v
    <3>1. CASE v = w
      BY <3>1, <2>2, <2>3, <2>4, <2>5, <2>6
    <3>2. CASE v # w
      BY <3>2, <1>h, <2>3, <2>4, <2>5, <2>6, <2>7 DEF IInv, Apart
    <3> QED BY <3>1, <3>2
  <2> QED BY <2>2, <2>7 DEF Apart
<1>4. CompletedIsSettled'
    BY DEF IInv, WellTyped, CompletedIsSettled, TypeOK, TakeRequest, WMoves,
       Others
<1>5. EarlyQuiet'
    BY DEF IInv, EarlyQuiet, TakeRequest, Others, Early
<1>6. ReadyIsReady' /\ DependenciesFirst' /\ SuccessIsFinal'
    BY DEF IInv, WellTyped, EarlyQuiet, ReadyIsReady, DependenciesFirst,
       SuccessIsFinal, TypeOK, TakeRequest, WMoves, Others, Busy, Early, Roots,
       AllDepsCompleted
<1> QED BY <1>1, <1>2, <1>3, <1>4, <1>5, <1>6 DEF IInv

\* The task held is not Completed, so no dependant of it has moved.
LEMMA MarkRunningStep ==
  ASSUME IInv, NEW w \in Workers, MarkRunning(w)
  PROVE  IInv'
<1>1. WellTyped'
    BY DagAssumption DEF IInv, WellTyped, TypeOK, MarkRunning, WMoves, Others,
       Busy, WPCs, TaskExecutionStatus
<1>2. OnlyRootsMove'
    BY DEF IInv, OnlyRootsMove, MarkRunning, WMoves, Others, Busy, Roots
<1>3. CompletedIsSettled'
    BY DEF IInv, CompletedIsSettled, MarkRunning, WMoves, Others
<1>4. ReadyIsReady'
    BY DEF IInv, OnlyRootsMove, CompletedIsSettled, ReadyIsReady, MarkRunning,
       Others, Busy, Roots, AllDepsCompleted
<1>5. DependenciesFirst'
    BY DEF IInv, OnlyRootsMove, CompletedIsSettled, DependenciesFirst,
       MarkRunning, Others, Busy, Roots
<1>6. SuccessIsFinal'
    BY DEF IInv, CompletedIsSettled, SuccessIsFinal, MarkRunning, Others
<1>7. EarlyQuiet'
    BY DEF IInv, EarlyQuiet, MarkRunning, Others, Busy, Early
<1>8. Apart'
    BY DagAssumption DEF IInv, Apart, MarkRunning, WMoves, Others, Busy
<1> QED BY <1>1, <1>2, <1>3, <1>4, <1>5, <1>6, <1>7, <1>8 DEF IInv

\* A failed execution changes no status yet.
LEMMA ExecuteFailsStep ==
  ASSUME IInv, NEW w \in Workers, ExecuteFails(w)
  PROVE  IInv'
<1>1. WellTyped'
    BY DagAssumption DEF IInv, WellTyped, TypeOK, ExecuteFails, WMoves, Others,
       Busy, WPCs
<1>2. CompletedIsSettled'
    BY DEF IInv, CompletedIsSettled, ExecuteFails, WMoves, Others
<1>3. EarlyQuiet' /\ OnlyRootsMove'
    BY DEF IInv, EarlyQuiet, OnlyRootsMove, ExecuteFails, WMoves, Others, Busy,
       Early, Roots
<1>4. Apart'
    BY DagAssumption DEF IInv, Apart, ExecuteFails, WMoves, Others, Busy
<1>5. ReadyIsReady' /\ DependenciesFirst' /\ SuccessIsFinal'
    BY DEF IInv, WellTyped, EarlyQuiet, ReadyIsReady, DependenciesFirst,
       SuccessIsFinal, TypeOK, ExecuteFails, WMoves, Others, Busy, Early, Roots,
       AllDepsCompleted
<1> QED BY <1>1, <1>2, <1>3, <1>4, <1>5 DEF IInv

\* The holder of the task that becomes Completed is the only one.
LEMMA CompleteTaskStep ==
  ASSUME IInv, NEW w \in Workers, CompleteTask(w)
  PROVE  IInv'
<1>1. WellTyped'
    BY DagAssumption DEF IInv, WellTyped, TypeOK, CompleteTask, WMoves, Others,
       Busy, WPCs, TaskExecutionStatus
<1>2. OnlyRootsMove'
    BY DEF IInv, OnlyRootsMove, CompleteTask, WMoves, Others, Busy, Roots
<1>3. CompletedIsSettled'
    BY DEF IInv, WellTyped, Apart, CompletedIsSettled, TypeOK, CompleteTask,
       WMoves, Others, Busy
<1>4. ReadyIsReady'
    BY DEF IInv, ReadyIsReady, CompleteTask, Others, Roots, AllDepsCompleted
<1>5. DependenciesFirst'
    BY DEF IInv, OnlyRootsMove, DependenciesFirst, CompleteTask, Others, Busy,
       Roots
<1>6. SuccessIsFinal'
    BY DEF IInv, SuccessIsFinal, CompleteTask, Others
<1>7. EarlyQuiet'
    BY DEF IInv, EarlyQuiet, CompleteTask, Others, Busy, Early
<1>8. Apart'
    BY DagAssumption DEF IInv, Apart, CompleteTask, WMoves, Others, Busy
<1> QED BY <1>1, <1>2, <1>3, <1>4, <1>5, <1>6, <1>7, <1>8 DEF IInv

\* As for MarkRunning.
LEMMA FailTaskStep ==
  ASSUME IInv, NEW w \in Workers, FailTask(w)
  PROVE  IInv'
<1>1. WellTyped'
  <2>1. /\ task[w] \in Tasks /\ retries[task[w]] + 1 \in Nat
        /\ retries \in [Tasks -> Nat] /\ status \in [Tasks -> TaskExecutionStatus]
    BY DEF IInv, WellTyped, TypeOK, FailTask, Busy
  <2>2. retries' \in [Tasks -> Nat] /\ status' \in [Tasks -> TaskExecutionStatus]
    <3>1. CASE retries[task[w]] < MaxRetries
      BY <3>1, <2>1 DEF TaskExecutionStatus, FailTask
    <3>2. CASE ~(retries[task[w]] < MaxRetries)
      BY <3>2, <2>1 DEF TaskExecutionStatus, FailTask
    <3> QED BY <3>1, <3>2
  <2> QED
    BY <2>2 DEF IInv, WellTyped, TypeOK, FailTask, WMoves, Others, Busy, WPCs
<1>2. OnlyRootsMove'
    BY DEF IInv, WellTyped, EarlyQuiet, OnlyRootsMove, TypeOK, FailTask, WMoves,
       Others, Busy, Early, Roots
<1>3. CompletedIsSettled'
    BY DEF IInv, WellTyped, Apart, CompletedIsSettled, TypeOK, FailTask, WMoves,
       Others, Busy
<1>4. ReadyIsReady'
    BY DEF IInv, WellTyped, CompletedIsSettled, ReadyIsReady, TypeOK, FailTask,
       Others, Roots, AllDepsCompleted
<1>5. DependenciesFirst'
  <2> DEFINE t == task[w]
  <2>1. t \in Roots /\ status[t] # "Completed"
    BY DEF IInv, WellTyped, OnlyRootsMove, CompletedIsSettled, FailTask, Busy
  <2>2. \A u \in Tasks \ {t} : status'[u] = status[u]
    BY DEF IInv, WellTyped, TypeOK, FailTask
  <2>3. deps' = deps /\ deps \in [Tasks -> SUBSET Tasks]
    BY DEF IInv, WellTyped, TypeOK, FailTask, Others
  <2> QED BY <2>1, <2>2, <2>3 DEF IInv, DependenciesFirst, Roots
<1>6. SuccessIsFinal'
    BY DEF IInv, OnlyRootsMove, CompletedIsSettled, SuccessIsFinal, FailTask,
       Others, Busy, Roots
<1>7. EarlyQuiet'
    BY DEF IInv, EarlyQuiet, FailTask, Others, Busy, Early
<1>8. Apart'
    BY DagAssumption DEF IInv, Apart, FailTask, WMoves, Others, Busy
<1> QED BY <1>1, <1>2, <1>3, <1>4, <1>5, <1>6, <1>7, <1>8 DEF IInv

\* The dependants found are Pending and their dependencies Completed.
LEMMA FindDownstreamStep ==
  ASSUME IInv, NEW w \in Workers, FindDownstream(w)
  PROVE  IInv'
<1>1. WellTyped'
    BY DagAssumption DEF IInv, WellTyped, TypeOK, FindDownstream, WMoves,
       Others, Busy, WPCs
<1>2. ReadyIsReady'
    BY DEF IInv, ReadyIsReady, FindDownstream, Others, Roots, AllDepsCompleted
<1>3. EarlyQuiet' /\ OnlyRootsMove'
    BY DEF IInv, EarlyQuiet, OnlyRootsMove, FindDownstream, WMoves, Others,
       Busy, Early, Roots
<1>4. Apart' /\ CompletedIsSettled'
    BY DagAssumption DEF IInv, Apart, CompletedIsSettled, FindDownstream,
       WMoves, Others, Busy
<1>5. DependenciesFirst' /\ SuccessIsFinal'
    BY DEF IInv, WellTyped, EarlyQuiet, ReadyIsReady, DependenciesFirst,
       SuccessIsFinal, TypeOK, FindDownstream, WMoves, Others, Busy, Early,
       Roots, AllDepsCompleted
<1> QED BY <1>1, <1>2, <1>3, <1>4, <1>5 DEF IInv

\* What was ready under the first lock is ready under the second.
LEMMA MarkDownstreamStep ==
  ASSUME IInv, NEW w \in Workers, MarkDownstream(w)
  PROVE  IInv'
<1>1. WellTyped'
    BY DagAssumption DEF IInv, WellTyped, TypeOK, MarkDownstream, WMoves,
       Others, Busy, WPCs, TaskExecutionStatus
<1>2. OnlyRootsMove'
    BY DEF IInv, OnlyRootsMove, MarkDownstream, WMoves, Others, Busy, Roots
<1>3. CompletedIsSettled'
    BY DEF IInv, CompletedIsSettled, MarkDownstream, WMoves, Others
<1>4. ReadyIsReady'
    BY DEF IInv, WellTyped, EarlyQuiet, OnlyRootsMove, CompletedIsSettled,
       ReadyIsReady, TypeOK, MarkDownstream, WMoves, Others, Busy, Early, Roots,
       AllDepsCompleted
<1>5. DependenciesFirst'
    BY DEF IInv, WellTyped, EarlyQuiet, OnlyRootsMove, CompletedIsSettled,
       ReadyIsReady, DependenciesFirst, TypeOK, MarkDownstream, WMoves, Others,
       Busy, Early, Roots, AllDepsCompleted
<1>6. SuccessIsFinal'
    BY DEF IInv, WellTyped, EarlyQuiet, OnlyRootsMove, CompletedIsSettled,
       SuccessIsFinal, TypeOK, MarkDownstream, WMoves, Others, Busy, Early,
       Roots, AllDepsCompleted, ReadyIsReady
<1>7. EarlyQuiet'
    BY DEF IInv, EarlyQuiet, MarkDownstream, Others, Busy, Early
<1>8. Apart'
    BY DagAssumption DEF IInv, Apart, MarkDownstream, WMoves, Others, Busy
<1> QED BY <1>1, <1>2, <1>3, <1>4, <1>5, <1>6, <1>7, <1>8 DEF IInv

\* A success is reported only when every task is Completed.
LEMMA CheckWorkflowCompletionStep ==
  ASSUME IInv, NEW w \in Workers, CheckWorkflowCompletion(w)
  PROVE  IInv'
<1>1. WellTyped'
    BY DagAssumption DEF IInv, WellTyped, TypeOK, CheckWorkflowCompletion,
       WMoves, WReturns, Busy, WPCs, TaskExecutionStatus, WorkflowStatus,
       Finished
<1>2. SuccessIsFinal'
    BY DEF IInv, WellTyped, EarlyQuiet, OnlyRootsMove, CompletedIsSettled,
       SuccessIsFinal, TypeOK, CheckWorkflowCompletion, WMoves, WReturns, Busy,
       Early, Roots, Finished
<1>3. EarlyQuiet' /\ OnlyRootsMove'
    BY DEF IInv, WellTyped, EarlyQuiet, OnlyRootsMove, TypeOK,
       CheckWorkflowCompletion, WMoves, WReturns, Busy, Early, Roots
<1>4. Apart' /\ CompletedIsSettled'
    BY DagAssumption DEF IInv, OnlyRootsMove, Apart, CompletedIsSettled,
       CheckWorkflowCompletion, WMoves, WReturns, Busy, Roots
<1>5. ReadyIsReady' /\ DependenciesFirst'
    BY DEF IInv, ReadyIsReady, DependenciesFirst, CheckWorkflowCompletion,
       WReturns, Roots, AllDepsCompleted
<1> QED BY <1>1, <1>2, <1>3, <1>4, <1>5 DEF IInv

\* A request that goes with its worker is in no other place.
LEMMA WorkerExitsStep ==
  ASSUME IInv, NEW w \in Workers, WorkerExits(w)
  PROVE  IInv'
<1>1. WellTyped'
    BY DagAssumption DEF IInv, WellTyped, TypeOK, WorkerExits, WMoves, Others,
       Busy, WPCs
<1>2. CompletedIsSettled'
    BY DEF IInv, CompletedIsSettled, WorkerExits, WMoves, Others
<1>3. EarlyQuiet' /\ OnlyRootsMove'
    BY DEF IInv, EarlyQuiet, OnlyRootsMove, WorkerExits, WMoves, Others, Busy,
       Early, Roots
<1>4. Apart'
    BY DagAssumption DEF IInv, Apart, WorkerExits, WMoves, Others, Busy
<1>5. ReadyIsReady' /\ DependenciesFirst' /\ SuccessIsFinal'
    BY DEF IInv, WellTyped, EarlyQuiet, ReadyIsReady, DependenciesFirst,
       SuccessIsFinal, TypeOK, WorkerExits, WMoves, Others, Busy, Early, Roots,
       AllDepsCompleted
<1> QED BY <1>1, <1>2, <1>3, <1>4, <1>5 DEF IInv

\* The monitor begins a check.
LEMMA MonitorTicksStep ==
  ASSUME IInv, MonitorTicks
  PROVE  IInv'
<1>1. WellTyped'
    BY DagAssumption DEF IInv, WellTyped, TypeOK, MonitorTicks
<1>2. EarlyQuiet' /\ OnlyRootsMove'
    BY DEF IInv, EarlyQuiet, OnlyRootsMove, MonitorTicks, Early, Roots
<1>3. Apart' /\ CompletedIsSettled'
    BY DagAssumption DEF IInv, Apart, CompletedIsSettled, MonitorTicks
<1>4. ReadyIsReady' /\ DependenciesFirst' /\ SuccessIsFinal'
    BY DEF IInv, WellTyped, EarlyQuiet, ReadyIsReady, DependenciesFirst,
       SuccessIsFinal, TypeOK, MonitorTicks, Busy, Early, Roots,
       AllDepsCompleted
<1> QED BY <1>1, <1>2, <1>3, <1>4 DEF IInv

\* The monitor leaves its loop.
LEMMA MonitorExitsStep ==
  ASSUME IInv, MonitorExits
  PROVE  IInv'
<1>1. WellTyped'
    BY DagAssumption DEF IInv, WellTyped, TypeOK, MonitorExits
<1>2. EarlyQuiet' /\ OnlyRootsMove'
    BY DEF IInv, EarlyQuiet, OnlyRootsMove, MonitorExits, Early, Roots
<1>3. Apart' /\ CompletedIsSettled'
    BY DagAssumption DEF IInv, Apart, CompletedIsSettled, MonitorExits
<1>4. ReadyIsReady' /\ DependenciesFirst' /\ SuccessIsFinal'
    BY DEF IInv, WellTyped, EarlyQuiet, ReadyIsReady, DependenciesFirst,
       SuccessIsFinal, TypeOK, MonitorExits, Busy, Early, Roots,
       AllDepsCompleted
<1> QED BY <1>1, <1>2, <1>3, <1>4 DEF IInv

\* A timeout fails Running tasks only: roots.
LEMMA CheckWorkflowHealthStep ==
  ASSUME IInv, CheckWorkflowHealth
  PROVE  IInv'
<1>1. WellTyped'
    BY DagAssumption DEF IInv, WellTyped, TypeOK, CheckWorkflowHealth, worker,
       TaskExecutionStatus
<1>2. OnlyRootsMove'
    BY DEF IInv, OnlyRootsMove, CheckWorkflowHealth, worker, Roots
<1>3. CompletedIsSettled'
    BY DEF IInv, CompletedIsSettled, CheckWorkflowHealth, worker
<1>4. ReadyIsReady'
    BY DEF IInv, WellTyped, ReadyIsReady, TypeOK, CheckWorkflowHealth, worker,
       Roots, AllDepsCompleted
<1>5. DependenciesFirst'
    BY DEF IInv, WellTyped, DependenciesFirst, TypeOK, CheckWorkflowHealth
<1>6. SuccessIsFinal'
    BY DEF IInv, SuccessIsFinal, CheckWorkflowHealth
<1>7. EarlyQuiet'
    BY DEF IInv, EarlyQuiet, CheckWorkflowHealth, worker, Early
<1>8. Apart'
    BY DagAssumption DEF IInv, Apart, CheckWorkflowHealth, worker
<1> QED BY <1>1, <1>2, <1>3, <1>4, <1>5, <1>6, <1>7, <1>8 DEF IInv

\* The signal changes nothing the workflow depends on.
LEMMA ShutdownStep ==
  ASSUME IInv, Shutdown
  PROVE  IInv'
<1>1. WellTyped'
    BY DagAssumption DEF IInv, WellTyped, TypeOK, Shutdown
<1>2. EarlyQuiet' /\ OnlyRootsMove'
    BY DEF IInv, EarlyQuiet, OnlyRootsMove, Shutdown, Early, Roots
<1>3. Apart' /\ CompletedIsSettled'
    BY DagAssumption DEF IInv, Apart, CompletedIsSettled, Shutdown
<1>4. ReadyIsReady' /\ DependenciesFirst' /\ SuccessIsFinal'
    BY DEF IInv, WellTyped, EarlyQuiet, ReadyIsReady, DependenciesFirst,
       SuccessIsFinal, TypeOK, Shutdown, Busy, Early, Roots, AllDepsCompleted
<1> QED BY <1>1, <1>2, <1>3, <1>4 DEF IInv

\* Nor does the end of shutdown.
LEMMA ShutdownReturnsStep ==
  ASSUME IInv, ShutdownReturns
  PROVE  IInv'
<1>1. WellTyped'
    BY DagAssumption DEF IInv, WellTyped, TypeOK, ShutdownReturns, worker
<1>2. EarlyQuiet' /\ OnlyRootsMove'
    BY DEF IInv, EarlyQuiet, OnlyRootsMove, ShutdownReturns, worker, Early,
       Roots
<1>3. Apart' /\ CompletedIsSettled'
    BY DagAssumption DEF IInv, Apart, CompletedIsSettled, ShutdownReturns,
       worker
<1>4. ReadyIsReady' /\ DependenciesFirst' /\ SuccessIsFinal'
    BY DEF IInv, WellTyped, EarlyQuiet, ReadyIsReady, DependenciesFirst,
       SuccessIsFinal, TypeOK, ShutdownReturns, worker, Busy, Early, Roots,
       AllDepsCompleted
<1> QED BY <1>1, <1>2, <1>3, <1>4 DEF IInv

\* The scheduler before any workflow is submitted.
LEMMA InitIInv == Init => IInv
<1> SUFFICES ASSUME Init PROVE IInv
  OBVIOUS
<1>1. WellTyped
  <2>1. <<>> \in Seq(Tasks) /\ NoDeps \in [Tasks -> SUBSET Tasks]
    BY EmptySeq DEF NoDeps
  <2> QED
    BY <2>1 DEF Init, WellTyped, TypeOK, Busy, WPCs, TaskExecutionStatus,
       WorkflowStatus
<1>2. EarlyQuiet /\ CompletedIsSettled /\ ReadyIsReady
  BY DEF Init, EarlyQuiet, CompletedIsSettled, ReadyIsReady, Busy
<1>3. OnlyRootsMove /\ Apart
  BY DEF Init, OnlyRootsMove, Apart, Busy
<1>4. DependenciesFirst /\ SuccessIsFinal
  BY DEF Init, DependenciesFirst, SuccessIsFinal
<1> QED BY <1>1, <1>2, <1>3, <1>4 DEF IInv

\* A step that changes nothing.
LEMMA StutterIInv ==
  ASSUME IInv, UNCHANGED vars
  PROVE  IInv'
<1>1. WellTyped'
  BY DEF IInv, WellTyped, TypeOK, vars, worker
<1>2. EarlyQuiet' /\ OnlyRootsMove'
  BY DEF IInv, EarlyQuiet, OnlyRootsMove, vars, worker, Early, Roots
<1>3. Apart' /\ CompletedIsSettled'
  BY DEF IInv, Apart, CompletedIsSettled, vars, worker
<1>4. ReadyIsReady' /\ DependenciesFirst' /\ SuccessIsFinal'
  BY DEF IInv, ReadyIsReady, DependenciesFirst, SuccessIsFinal, vars, worker,
     Roots, AllDepsCompleted
<1> QED BY <1>1, <1>2, <1>3, <1>4 DEF IInv

\* Every step of a client, a worker, the monitor or shutdown.
LEMMA NextIInv == IInv /\ [Next]_vars => IInv'
<1> SUFFICES ASSUME IInv, [Next]_vars PROVE IInv'
  OBVIOUS
<1>1. CASE Submission
  BY <1>1, SubmitWorkflowStep, StartWorkflowExecutionStep, CollectReadyStep,
     QueueReadyTaskStep DEF Submission
<1>2. ASSUME NEW w \in Workers, WorkerStep(w) PROVE IInv'
  BY <1>2, ListenStep, SleepStep, TakeRequestStep, MarkRunningStep,
     ExecuteFailsStep, CompleteTaskStep, FailTaskStep, FindDownstreamStep,
     MarkDownstreamStep, CheckWorkflowCompletionStep, WorkerExitsStep DEF
     WorkerStep
<1>3. CASE MonitorTicks \/ CheckWorkflowHealth \/ MonitorExits
  BY <1>3, MonitorTicksStep, CheckWorkflowHealthStep, MonitorExitsStep
<1>4. CASE Shutdown \/ ShutdownReturns
  BY <1>4, ShutdownStep, ShutdownReturnsStep
<1>5. CASE UNCHANGED vars
  BY <1>5, StutterIInv
<1> QED BY <1>1, <1>2, <1>3, <1>4, <1>5 DEF Next

\* The strengthened invariant holds in every reachable state of the scheduler.
THEOREM Invariance == Safety => []IInv
BY InitIInv, NextIInv, PTL DEF Safety

\* Every variable keeps its type, for every instance of the scheduler.
THEOREM Typing == Safety => []TypeOK
<1>1. IInv => TypeOK
  BY DEF IInv, WellTyped
<1> QED BY <1>1, Invariance, PTL

\* No task gets ahead of its dependencies (complete_task, fail_task,
\* check_workflow_health and update_downstream_tasks, in any interleaving).
THEOREM DependenciesComeFirst == Safety => []DependenciesFirst
<1>1. IInv => DependenciesFirst
  BY DEF IInv
<1> QED BY <1>1, Invariance, PTL

\* check_workflow_completion never takes back a reported success.
THEOREM SuccessStays == Safety => []SuccessIsFinal
<1>1. IInv => SuccessIsFinal
  BY DEF IInv
<1> QED BY <1>1, Invariance, PTL

\* At most one element satisfies a predicate that tells its elements apart.
LEMMA AtMostOne ==
  ASSUME NEW S, \A x, y \in S : x = y
  PROVE  Cardinality(S) \in {0, 1} /\ (S = {} => Cardinality(S) = 0)
<1>1. CASE S = {}
  BY <1>1, FS_EmptySet
<1>2. CASE S # {}
  <2>1. PICK x : x \in S
    BY <1>2
  <2>2. S = {x}
    BY <2>1
  <2> QED BY <2>2, <1>2, FS_Singleton
<1> QED BY <1>1, <1>2

\* Where the request of a task is.
LEMMA ApartIsOnePlace == WellTyped /\ Apart => OnePlace
<1> SUFFICES ASSUME WellTyped, Apart, NEW t \in Tasks PROVE Places(t) <= 1
  BY DEF OnePlace
<1> DEFINE Q == {i \in DOMAIN queue : queue[i] = t}
<1>1. \A w \in Holders(t) : wpc[w] \in Busy /\ task[w] = t /\ w \in Workers
  BY DagAssumption DEF WellTyped, TypeOK, Holders, Busy, WPCs
<1>2. Cardinality(Q) \in {0, 1} /\ (Q = {} => Cardinality(Q) = 0)
  BY AtMostOne DEF Apart
<1>3. /\ Cardinality(Holders(t)) \in {0, 1}
      /\ Holders(t) = {} => Cardinality(Holders(t)) = 0
  <2>1. \A v, w \in Holders(t) : v = w
    BY <1>1 DEF Apart
  <2> QED BY <2>1, AtMostOne
<1>4. /\ Q # {} => Holders(t) = {} /\ t \notin toQueue
      /\ Holders(t) # {} => t \notin toQueue
  BY <1>1 DEF Apart
<1> QED BY <1>2, <1>3, <1>4 DEF Places

\* A request is in one place: queue_ready_tasks, the queue, or one worker.
THEOREM RequestsInOnePlace == Safety => []OnePlace
<1>1. IInv => OnePlace
  BY ApartIsOnePlace DEF IInv
<1> QED BY <1>1, Invariance, PTL

----------------------------------------------------------------------------
(* What validate_workflow is good for.                                     *)

\* A family of subsets of a finite set has a member with no other below it.
LEMMA MinimalSubset ==
  ASSUME NEW S, IsFiniteSet(S), NEW F, F \subseteq SUBSET S, F # {}
  PROVE  \E U \in F : \A V \in F : V \subseteq U => V = U
<1>1. IsWellFoundedOn(StrictSubsetOrdering(S), SUBSET S)
  BY FS_StrictSubsetOrderingWellFounded, FS_FiniteSubsetsOfFinite
<1>2. PICK U \in F : \A V \in F : ~ (<<V, U>> \in StrictSubsetOrdering(S))
  BY <1>1, WFMin
<1>3. \A V \in F : V \subseteq U => V = U
  BY <1>2 DEF StrictSubsetOrdering
<1> QED BY <1>3

\* Among any tasks, one depends on none of the others: no task waits, through
\* whatever chain, for itself.
NoCycle(d) ==
  \A C \in SUBSET Tasks : C # {} => \E t \in C : d[t] \cap C = {}

\* toposort finds an order only if there is no cycle: the first of the tasks of
\* a cycle would have a dependency before it (dag_scheduler.rs:719-724).
LEMMA OrderMeansNoCycle ==
  ASSUME NEW d \in [Tasks -> SUBSET Tasks], Acyclic(d)
  PROVE  NoCycle(d)
<1> SUFFICES ASSUME NEW C \in SUBSET Tasks, C # {}
             PROVE  \E t \in C : d[t] \cap C = {}
  BY DEF NoCycle
<1>1. PICK place \in [Tasks -> 1..Cardinality(Tasks)] :
        \A t \in Tasks : \A p \in d[t] : place[p] < place[t]
  BY DEF Acyclic
<1>2. Cardinality(Tasks) \in Nat
  BY DagAssumption, FS_CardinalityType
<1>3. \A t \in Tasks : place[t] \in Nat
  BY <1>1, <1>2
<1> DEFINE upto(t) == {u \in C : place[u] <= place[t]}
           F == {upto(t) : t \in C}
<1>4. PICK U \in F : \A V \in F : V \subseteq U => V = U
  <2>1. F \subseteq SUBSET Tasks /\ F # {}
    OBVIOUS
  <2> HIDE DEF F
  <2> QED BY <2>1, DagAssumption, MinimalSubset
<1>5. PICK t \in C : U = upto(t)
  OBVIOUS
<1>6. ASSUME NEW p \in d[t], p \in C PROVE FALSE
  <2>1. place[p] < place[t] /\ place[p] \in Nat /\ place[t] \in Nat
    BY <1>1, <1>3, <1>6
  <2>2. \A u \in C : place[u] <= place[p] => place[u] <= place[t]
    BY <1>3, <2>1
  <2>3. upto(p) \in F /\ upto(p) \subseteq upto(t)
    BY <1>6, <2>2
  <2>4. place[t] <= place[t] /\ ~(place[t] <= place[p])
    BY <2>1
  <2>5. t \in upto(t) /\ t \notin upto(p)
    BY <2>4
  <2> HIDE DEF F, upto
  <2> QED BY <1>4, <1>5, <2>3, <2>5
<1> QED BY <1>6

\* The dependencies of the scheduler never have a cycle.
LEMMA NeverACycle == Safety => []NoCycle(deps)
<1>1. Init => NoCycle(deps)
  BY DEF Init, NoDeps, NoCycle
<1>2. NoCycle(deps) /\ [Next]_vars => NoCycle(deps)'
  <2> SUFFICES ASSUME NoCycle(deps), [Next]_vars PROVE NoCycle(deps)'
    OBVIOUS
  <2>1. ASSUME NEW d \in Workflows, SubmitWorkflow(d) PROVE NoCycle(deps)'
    <3>1. NoCycle(d) /\ deps' = d
      BY <2>1, OrderMeansNoCycle, DagAssumption DEF SubmitWorkflow
    <3> QED BY <3>1 DEF NoCycle
  <2>2. ASSUME deps' = deps PROVE NoCycle(deps)'
    BY <2>2 DEF NoCycle
  <2>3. Submission => deps' = deps \/ \E d \in Workflows : SubmitWorkflow(d)
    BY DEF Submission, StartWorkflowExecution, CollectReady, QueueReadyTask
  <2>4. ASSUME NEW w \in Workers, WorkerStep(w) PROVE deps' = deps
    BY <2>4 DEF WorkerStep, WReturns, Listen, Sleep, TakeRequest, MarkRunning, ExecuteFails,
       CompleteTask, FailTask, FindDownstream, MarkDownstream, CheckWorkflowCompletion,
       WorkerExits, Others
  <2>5. MonitorTicks \/ CheckWorkflowHealth \/ MonitorExits \/ Shutdown \/ ShutdownReturns
          => deps' = deps
    BY DEF MonitorTicks, CheckWorkflowHealth, MonitorExits, Shutdown, ShutdownReturns
  <2>6. UNCHANGED vars => deps' = deps
    BY DEF vars
  <2> QED BY <2>1, <2>2, <2>3, <2>4, <2>5, <2>6 DEF Next
<1> QED BY <1>1, <1>2, PTL DEF Safety

\* Nobody waits for everybody: as long as a task is not Completed, one is not
\* whose dependencies all are, retries and failures notwithstanding. So what keeps
\* a workflow from ending is never its dependencies but that nobody queues them.
SomeTaskMayGo ==
  (\E t \in Tasks : status[t] # "Completed") =>
    \E t \in Tasks : status[t] # "Completed" /\ AllDepsCompleted(t)

\* The workflows that validate_workflow accepts never wait on themselves, whatever
\* the workers, the monitor and the timeouts did to the tasks.
THEOREM SomeTaskMayAlwaysGo == Safety => []SomeTaskMayGo
<1>1. TypeOK /\ NoCycle(deps) => SomeTaskMayGo
  <2> SUFFICES ASSUME TypeOK, NoCycle(deps), \E t \in Tasks : status[t] # "Completed"
               PROVE  \E t \in Tasks : status[t] # "Completed" /\ AllDepsCompleted(t)
    BY DEF SomeTaskMayGo
  <2>1. PICK C \in SUBSET Tasks : C = {t \in Tasks : status[t] # "Completed"}
    OBVIOUS
  <2>2. PICK t \in C : deps[t] \cap C = {}
    BY <2>1 DEF NoCycle
  <2>3. \A p \in deps[t] : p \in Tasks /\ status[p] = "Completed"
    BY <2>1, <2>2 DEF TypeOK
  <2> QED BY <2>1, <2>2, <2>3 DEF AllDepsCompleted
<1> QED BY <1>1, Typing, NeverACycle, PTL

----------------------------------------------------------------------------
(* The safety half of RootsAreAttempted.                                   *)

\* Once queue_ready_tasks has collected the ready tasks, a root that no worker was
\* given yet is still to be pushed, or is in the queue: nothing drops it on the way.
RootsWaitTheirTurn ==
  submit = "queueing" =>
    \A t \in Roots : attempts[t] = 0 =>
      t \in toQueue \/ \E i \in DOMAIN queue : queue[i] = t

LEMMA RootsWaitStep ==
  ASSUME IInv, RootsWaitTheirTurn, [Next]_vars
  PROVE  RootsWaitTheirTurn'
<1> SUFFICES ASSUME submit' = "queueing", NEW t \in Roots', attempts'[t] = 0
             PROVE  t \in toQueue' \/ \E i \in DOMAIN queue' : queue'[i] = t
  BY DEF RootsWaitTheirTurn
<1> USE DEF IInv, WellTyped, TypeOK
<1>1. t \in Tasks
  BY DEF Roots
<1>2. ASSUME UNCHANGED <<deps, submit, attempts, toQueue, queue>>
      PROVE  t \in toQueue' \/ \E i \in DOMAIN queue' : queue'[i] = t
  BY <1>2 DEF RootsWaitTheirTurn, Roots
<1>3. CASE CollectReady
  <2>1. deps' = deps /\ toQueue' = {u \in Tasks : status[u] = "Ready"} /\ submit = "started"
    BY <1>3 DEF CollectReady
  <2>2. status[t] = "Ready"
    BY <1>1, <2>1 DEF EarlyQuiet, Early, Roots
  <2> QED BY <1>1, <2>1, <2>2
<1>4. ASSUME NEW u \in Tasks, QueueReadyTask(u)
      PROVE  t \in toQueue' \/ \E i \in DOMAIN queue' : queue'[i] = t
  <2>1. /\ UNCHANGED <<deps, submit, attempts>> /\ submit = "queueing"
        /\ queue' = Append(queue, u) /\ toQueue' = toQueue \ {u}
    BY <1>4 DEF QueueReadyTask
  <2>2. t \in toQueue \/ \E i \in DOMAIN queue : queue[i] = t
    BY <2>1 DEF RootsWaitTheirTurn, Roots
  <2>3. /\ Append(queue, u) \in Seq(Tasks) /\ Len(Append(queue, u)) = Len(queue) + 1
        /\ Append(queue, u)[Len(queue) + 1] = u
        /\ \A i \in 1..Len(queue) : Append(queue, u)[i] = queue[i]
    BY AppendProperties
  <2>4. /\ Len(queue) \in Nat /\ DOMAIN queue = 1..Len(queue)
        /\ DOMAIN Append(queue, u) = 1..(Len(queue) + 1)
    BY <2>3, LenProperties
  <2> HIDE DEF TypeOK
  <2> QED BY <2>1, <2>2, <2>3, <2>4
<1>5. ASSUME NEW w \in Workers, TakeRequest(w)
      PROVE  t \in toQueue' \/ \E i \in DOMAIN queue' : queue'[i] = t
  <2>1. /\ UNCHANGED <<deps, submit, toQueue>> /\ queue # <<>> /\ queue' = Tail(queue)
        /\ attempts' = [attempts EXCEPT ![Head(queue)] = @ + 1]
    BY <1>5 DEF TakeRequest, Others
  <2>2. /\ Head(queue) \in Tasks /\ Head(queue) = queue[1] /\ Len(queue) \in Nat
        /\ Tail(queue) \in Seq(Tasks) /\ Len(Tail(queue)) = Len(queue) - 1
        /\ \A i \in 1..Len(Tail(queue)) : Tail(queue)[i] = queue[i + 1]
    BY <2>1, HeadTailProperties, LenProperties
  <2>3. attempts[t] = 0 /\ t # Head(queue)
    <3>1. \A n \in Nat : n + 1 # 0
      OBVIOUS
    <3>2. attempts'[Head(queue)] = attempts[Head(queue)] + 1 /\ attempts[Head(queue)] \in Nat
      BY <2>1, <2>2
    <3>3. t # Head(queue)
      BY <3>1, <3>2
    <3> QED BY <1>1, <2>1, <3>3
  <2>4. CASE t \in toQueue
    BY <2>1, <2>4
  <2>5. CASE \E i \in DOMAIN queue : queue[i] = t
    <3>1. PICK i \in 1..Len(queue) : queue[i] = t
      BY <2>5, LenProperties
    <3>2. i - 1 \in 1..Len(Tail(queue)) /\ (i - 1) + 1 = i
      BY <2>2, <2>3, <3>1
    <3>3. Tail(queue)[i - 1] = t /\ i - 1 \in DOMAIN Tail(queue)
      BY <2>2, <3>1, <3>2, LenProperties
    <3> QED BY <2>1, <3>3
  <2> QED BY <2>1, <2>3, <2>4, <2>5 DEF RootsWaitTheirTurn, Roots
<1>6. CASE StartWorkflowExecution \/ \E d \in Workflows : SubmitWorkflow(d)
  BY <1>6 DEF StartWorkflowExecution, SubmitWorkflow
<1>7. ASSUME NEW w \in Workers, WorkerStep(w)
      PROVE  TakeRequest(w) \/ UNCHANGED <<deps, submit, attempts, toQueue, queue>>
  BY <1>7 DEF WorkerStep, WReturns, Listen, Sleep, MarkRunning, ExecuteFails, CompleteTask,
     FailTask, FindDownstream, MarkDownstream, CheckWorkflowCompletion, WorkerExits, Others
<1>8. ASSUME \/ MonitorTicks \/ CheckWorkflowHealth \/ MonitorExits \/ Shutdown
             \/ ShutdownReturns \/ UNCHANGED vars
      PROVE  UNCHANGED <<deps, submit, attempts, toQueue, queue>>
  BY <1>8 DEF MonitorTicks, CheckWorkflowHealth, MonitorExits, Shutdown, ShutdownReturns, vars
<1> HIDE DEF IInv, WellTyped, TypeOK
<1> QED BY <1>2, <1>3, <1>4, <1>5, <1>6, <1>7, <1>8 DEF Next, Submission

\* queue_ready_tasks and the workers' pops lose no root (dag_scheduler.rs:788-819,
\* 463-483): what RootsAreAttempted leaves to fairness is that workers go on taking.
THEOREM RootsAreNotLost == Safety => []RootsWaitTheirTurn
<1>1. Init => RootsWaitTheirTurn
  BY DEF Init, RootsWaitTheirTurn
<1>2. IInv /\ RootsWaitTheirTurn /\ [Next]_vars => RootsWaitTheirTurn'
  BY RootsWaitStep
<1> QED BY <1>1, <1>2, Invariance, PTL DEF Safety
=============================================================================
