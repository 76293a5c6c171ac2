--------------------------- MODULE KernelExecutor ---------------------------
(***************************************************************************)
(* The kernel's scheduler (src/crates/kernel/src/scheduler/mod.rs) on its  *)
(* work-stealing executor (scheduler/executor.rs): workers that pop tasks  *)
(* from priority queues, wakers that push them back, cancellation tokens,  *)
(* and the task table and handles the Scheduler keeps beside them. A task  *)
(* here is one call of Scheduler::spawn; its identifier decides its queue. *)
(***************************************************************************)
EXTENDS Naturals, Sequences, FiniteSets, FiniteSetsExt, SequencesExt

CONSTANTS
    Workers,        \* workers, each with a queue
    KTasks,         \* the tasks ever spawned
    KPriority,      \* their priorities: a smaller number is more urgent
    KHome,          \* the worker whose queue a new task enters
    SelfWakers,     \* tasks whose future wakes its own waker while polled
    MaxPending,     \* bound: polls that return Pending, of all tasks together
    MaxCalls        \* bound: calls of wakers, cancel, await_task and shutdown

ASSUME ExecutorAssumption ==
    /\ KPriority \in [KTasks -> Nat]
    /\ KHome \in [KTasks -> Workers]
    /\ SelfWakers \subseteq KTasks
    /\ MaxPending \in Nat /\ MaxCalls \in Nat

NoKTask == "none"

VARIABLES
    xQueue,     \* WorkQueue of each worker; the next task to pop is the last
    xPushing,   \* <<t, w>>: somebody is about to push t into the queue of w
    xState,     \* TaskInner::state
    xPhase,     \* the wrapped future: not started, in its body, completed
    xLocked,    \* tasks whose inner mutex is held for ever by a stuck poll
    xPolls,     \* polls that returned Pending
    xWakers,    \* the queues that the wakers of each task push to
    xCalls,     \* calls of wakers, cancel, await_task and shutdown
    xVersion,   \* CancellationToken::version
    xCancelled, \* CancellationToken::cancelled
    xCancel,    \* Scheduler::cancel under way: the task and the step
    xInfo,      \* Scheduler::tasks: the state of the TaskInfo
    xHandle,    \* Scheduler::handles: not stored yet, stored, taken by await_task
    xWorker,    \* where each worker is
    xTask,      \* the task each worker has popped
    xSeen,      \* the cancel_version each worker has read
    xShutdown,  \* ThreadPoolExecutor::shutdown
    xExtra,     \* history: tasks woken while they were already runnable
    xClean      \* history: tasks cancelled while no worker held them

executorVars == <<xQueue, xPushing, xState, xPhase, xLocked, xPolls, xWakers, xCalls,
                  xVersion, xCancelled, xCancel, xInfo, xHandle, xWorker, xTask,
                  xSeen, xShutdown, xExtra, xClean>>
taskVars == <<xState, xPhase, xLocked, xPolls, xWakers>>
cancelVars == <<xVersion, xCancelled, xCancel, xHandle, xClean>>
workerVars == <<xWorker, xTask, xSeen>>

\* find .. poll: the stations of Worker::run; dead: a panic ended it; stuck:
\* it waits for a mutex it holds; stopped: it saw the shutdown.
WorkerPlaces == {"find", "steal", "begin", "check", "poll", "dead", "stuck", "stopped"}

ExecutorTypeOK ==
    /\ xQueue \in [Workers -> Seq(KTasks)]
    /\ xPushing \subseteq KTasks \X Workers
    /\ xState \in [KTasks -> {"None", "Ready", "Running", "Zombie"}]
    /\ xPhase \in [KTasks -> {"new", "body", "done"}]
    /\ xLocked \subseteq KTasks
    /\ xPolls \in 0 .. MaxPending
    /\ xWakers \in [KTasks -> SUBSET Workers]
    /\ xCalls \in 0 .. MaxCalls
    /\ xVersion \in [KTasks -> 0 .. MaxCalls]
    /\ xCancelled \in [KTasks -> BOOLEAN]
    /\ xCancel \in (KTasks \cup {NoKTask}) \X {"no", "bumped", "flagged"}
    /\ xInfo \in [KTasks -> {"None", "Ready", "Running", "Zombie"}]
    /\ xHandle \in [KTasks -> {"none", "stored", "taken"}]
    /\ xWorker \in [Workers -> WorkerPlaces]
    /\ xTask \in [Workers -> KTasks \cup {NoKTask}]
    /\ xSeen \in [Workers -> 0 .. MaxCalls]
    /\ xShutdown \in BOOLEAN
    /\ xExtra \subseteq KTasks
    /\ xClean \subseteq KTasks

ExecutorInit ==
    /\ xQueue = [w \in Workers |-> <<>>]
    /\ xPushing = {}
    /\ xState = [t \in KTasks |-> "None"]
    /\ xPhase = [t \in KTasks |-> "new"]
    /\ xLocked = {}
    /\ xPolls = 0
    /\ xWakers = [t \in KTasks |-> {}]
    /\ xCalls = 0
    /\ xVersion = [t \in KTasks |-> 0]
    /\ xCancelled = [t \in KTasks |-> FALSE]
    /\ xCancel = <<NoKTask, "no">>
    /\ xInfo = [t \in KTasks |-> "None"]
    /\ xHandle = [t \in KTasks |-> "none"]
    /\ xWorker = [w \in Workers |-> "find"]
    /\ xTask = [w \in Workers |-> NoKTask]
    /\ xSeen = [w \in Workers |-> 0]
    /\ xShutdown = FALSE
    /\ xExtra = {}
    /\ xClean = {}

Queued(t) == \E w \in Workers : Contains(xQueue[w], t)
Holding(w) == xWorker[w] \in {"begin", "check", "poll"}

\* t is queued, about to be, or in the hands of a worker that has not polled it.
Runnable(t) ==
    \/ Queued(t)
    \/ \E w \in Workers : <<t, w>> \in xPushing \/ (xTask[w] = t /\ Holding(w))

\* One more of the calls that MaxCalls bounds.
CallFromOutside == xCalls < MaxCalls /\ xCalls' = xCalls + 1

(***************************************************************************)
(* Spawning and waking                                                     *)
(***************************************************************************)
\* Scheduler::spawn up to executor.spawn: the TaskInfo is stored, the task
\* is created Ready; pushing it and storing its handle follow.
KSpawn(t) ==
    /\ xState[t] = "None"
    /\ xInfo' = [xInfo EXCEPT ![t] = "Ready"]
    /\ xState' = [xState EXCEPT ![t] = "Ready"]
    /\ xPushing' = xPushing \cup {<<t, KHome[t]>>}
    /\ UNCHANGED <<xQueue, xPhase, xLocked, xPolls, xWakers, xCalls, xShutdown, xExtra, cancelVars, workerVars>>

\* Scheduler::spawn: executor.spawn has returned, the handle is stored. The
\* map of handles is locked for as long as a cancel is under way.
StoreHandle(t) ==
    /\ xHandle[t] = "none" /\ xState[t] # "None"
    /\ <<t, KHome[t]>> \notin xPushing \/ xWakers[t] # {}
    /\ xCancel[2] = "no"
    /\ xHandle' = [xHandle EXCEPT ![t] = "stored"]
    /\ UNCHANGED <<xQueue, xPushing, xCalls, xVersion, xCancelled, xCancel, xInfo, xShutdown, xExtra, xClean, taskVars, workerVars>>

\* WorkQueue::push: binary_search in the order of falling urgency numbers
\* finds any position of an equal one, or the place where t belongs.
InsertPositions(q, t) ==
    LET equal == {i \in DOMAIN q : KPriority[q[i]] = KPriority[t]}
    IN  IF equal # {}
        THEN equal
        ELSE {1 + Cardinality({i \in DOMAIN q : KPriority[q[i]] > KPriority[t]})}

\* The second half of spawn and of wake: the task enters the queue.
KPush(t, w) ==
    /\ <<t, w>> \in xPushing
    /\ xPushing' = xPushing \ {<<t, w>>}
    /\ \E i \in InsertPositions(xQueue[w], t) :
          xQueue' = [xQueue EXCEPT ![w] = InsertAt(@, i, t)]
    /\ UNCHANGED <<xCalls, xInfo, xShutdown, xExtra, taskVars, cancelVars, workerVars>>

\* The task becomes Ready and somebody is about to push it.
MakeReady(t, w) ==
    /\ <<t, w>> \notin xPushing
    /\ xState' = [xState EXCEPT ![t] = "Ready"]
    /\ xPushing' = xPushing \cup {<<t, w>>}
    /\ xExtra' = IF Runnable(t) THEN xExtra \cup {t} ELSE xExtra
    /\ CallFromOutside
    /\ UNCHANGED <<xQueue, xPhase, xLocked, xPolls, xWakers, xInfo, xShutdown, cancelVars, workerVars>>

\* A mutant of KWake: a Zombie is woken as well.
KWakeAny(t, w) == w \in xWakers[t] /\ t \notin xLocked /\ MakeReady(t, w)

\* TaskWaker::wake: a clone of a waker that some poll handed out is called.
\* A task that is no Zombie becomes Ready and is pushed, queued or not.
KWake(t, w) ==
    /\ w \in xWakers[t] /\ t \notin xLocked
    /\ xState[t] # "Zombie"
    /\ MakeReady(t, w)

(***************************************************************************)
(* Workers                                                                 *)
(***************************************************************************)
KTake(w, v) ==
    /\ xTask' = [xTask EXCEPT ![w] = Last(xQueue[v])]
    /\ xQueue' = [xQueue EXCEPT ![v] = Front(@)]
    /\ xWorker' = [xWorker EXCEPT ![w] = "begin"]
    /\ UNCHANGED <<xPushing, xCalls, xInfo, xShutdown, xExtra, xSeen, taskVars, cancelVars>>

WorkerGoes(w, place) ==
    /\ xWorker' = [xWorker EXCEPT ![w] = place]
    /\ UNCHANGED <<xQueue, xPushing, xCalls, xInfo, xShutdown, xExtra, xTask, xSeen, taskVars, cancelVars>>

\* find_task: the worker's own queue first. The shutdown flag is looked at
\* between two tasks only.
PopOwn(w) ==
    /\ xWorker[w] = "find" /\ ~xShutdown
    /\ xQueue[w] # <<>>
    /\ KTake(w, w)

OwnIsEmpty(w) ==
    /\ xWorker[w] = "find" /\ ~xShutdown
    /\ xQueue[w] = <<>>
    /\ WorkerGoes(w, "steal")

\* A mutant of StealFrom: no work stealing.
StealFromNobody(w, v) == FALSE /\ KTake(w, v)

\* find_task: then the queues of the others, from the same end as the owner.
StealFrom(w, v) ==
    /\ xWorker[w] = "steal"
    /\ v # w /\ xQueue[v] # <<>>
    /\ KTake(w, v)

\* No work: the worker waits, for a notification or 10 ms, and looks again.
NothingToSteal(w) ==
    /\ xWorker[w] = "steal"
    /\ \A v \in Workers \ {w} : xQueue[v] = <<>>
    /\ WorkerGoes(w, "find")

WorkerStops(w) == xWorker[w] = "find" /\ xShutdown /\ WorkerGoes(w, "stopped")

\* execute_task: the task is Running, whatever it was; then the version is
\* read. Nothing another thread does between the two makes a difference.
Begin(w) ==
    /\ xWorker[w] = "begin" /\ xTask[w] \notin xLocked
    /\ xState' = [xState EXCEPT ![xTask[w]] = "Running"]
    /\ xSeen' = [xSeen EXCEPT ![w] = xVersion[xTask[w]]]
    /\ xWorker' = [xWorker EXCEPT ![w] = "check"]
    /\ UNCHANGED <<xQueue, xPushing, xPhase, xLocked, xPolls, xWakers, xCalls, xInfo, xShutdown, xExtra, xTask, cancelVars>>

\* execute_task: cancelled, and not since the version was read.
SeenCancelled(w) == xCancelled[xTask[w]] /\ xVersion[xTask[w]] = xSeen[w]

CheckCancelled(w) ==
    /\ xWorker[w] = "check" /\ xTask[w] \notin xLocked
    /\ SeenCancelled(w)
    /\ xState' = [xState EXCEPT ![xTask[w]] = "Zombie"]
    /\ xWorker' = [xWorker EXCEPT ![w] = "find"]
    /\ xTask' = [xTask EXCEPT ![w] = NoKTask]
    /\ xSeen' = [xSeen EXCEPT ![w] = 0]
    /\ UNCHANGED <<xQueue, xPushing, xPhase, xLocked, xPolls, xWakers, xCalls, xInfo, xShutdown, xExtra, cancelVars>>

\* The version that was read is of no more use.
WorkerPolls(w) ==
    /\ xWorker' = [xWorker EXCEPT ![w] = "poll"]
    /\ xSeen' = [xSeen EXCEPT ![w] = 0]
    /\ UNCHANGED <<xQueue, xPushing, xCalls, xInfo, xShutdown, xExtra, xTask, taskVars, cancelVars>>

\* A mutant of CheckPasses: the version is compared the other way round.
CheckPassesEarlier(w) ==
    /\ xWorker[w] = "check"
    /\ ~(xCancelled[xTask[w]] /\ xVersion[xTask[w]] # xSeen[w])
    /\ WorkerPolls(w)

CheckPasses(w) ==
    /\ xWorker[w] = "check"
    /\ ~SeenCancelled(w)
    /\ WorkerPolls(w)

\* execute_task: the future is polled under the task's mutex and goes on as
\* far as it can: on its first step it marks its TaskInfo Running, on its
\* last one Zombie. Pending leaves a waker for this worker's queue.
PollTask(w) ==
    LET t == xTask[w] IN
    /\ xWorker[w] = "poll" /\ t \notin xLocked
    /\ xPhase[t] # "done"
    /\ \E phase \in {"new", "body", "done"} :
          /\ phase = "new" => xPhase[t] = "new"
          /\ phase # "done" => xPolls < MaxPending
          /\ xPhase' = [xPhase EXCEPT ![t] = phase]
          /\ xState' = IF phase = "done" THEN [xState EXCEPT ![t] = "Zombie"] ELSE xState
          /\ xPolls' = IF phase = "done" THEN xPolls ELSE xPolls + 1
          /\ xWakers' = IF phase = "done" THEN xWakers ELSE [xWakers EXCEPT ![t] = @ \cup {w}]
          /\ xInfo' = [xInfo EXCEPT ![t] =
                CASE phase = xPhase[t] -> @
                  [] phase = "done" -> "Zombie"
                  [] OTHER -> "Running"]
    /\ xWorker' = [xWorker EXCEPT ![w] = "find"]
    /\ xTask' = [xTask EXCEPT ![w] = NoKTask]
    /\ UNCHANGED <<xQueue, xPushing, xLocked, xCalls, xShutdown, xExtra, xSeen, cancelVars>>

\* A completed future panics when it is polled, which ends Worker::run. The
\* state of the task stays Running.
PollPanics(w) ==
    /\ xWorker[w] = "poll" /\ xTask[w] \notin xLocked
    /\ xPhase[xTask[w]] = "done"
    /\ WorkerGoes(w, "dead")

\* A future that wakes its own waker while it is polled waits for the mutex
\* its worker holds.
PollSelfWakes(w) ==
    /\ xWorker[w] = "poll" /\ xTask[w] \in SelfWakers \ xLocked
    /\ xPhase[xTask[w]] # "done"
    /\ xLocked' = xLocked \cup {xTask[w]}
    /\ xWorker' = [xWorker EXCEPT ![w] = "stuck"]
    /\ UNCHANGED <<xQueue, xPushing, xState, xPhase, xPolls, xWakers, xCalls, xInfo, xShutdown, xExtra, xTask, xSeen, cancelVars>>

(***************************************************************************)
(* Control                                                                 *)
(***************************************************************************)
\* Scheduler::cancel holds the map of handles throughout: the version, ...
CancelBumps(t) ==
    /\ xCancel[2] = "no"
    /\ xHandle[t] = "stored"
    /\ CallFromOutside
    /\ xVersion' = [xVersion EXCEPT ![t] = @ + 1]
    /\ xCancel' = <<t, "bumped">>
    /\ UNCHANGED <<xQueue, xPushing, xCancelled, xInfo, xHandle, xShutdown, xExtra, xClean, taskVars, workerVars>>

\* ... then the flag, ...
CancelFlags ==
    LET t == xCancel[1] IN
    /\ xCancel[2] = "bumped"
    /\ xCancelled' = [xCancelled EXCEPT ![t] = TRUE]
    /\ xCancel' = <<t, "flagged">>
    /\ xClean' = IF \E w \in Workers : xTask[w] = t /\ Holding(w) THEN xClean ELSE xClean \cup {t}
    /\ UNCHANGED <<xQueue, xPushing, xCalls, xVersion, xInfo, xHandle, xShutdown, xExtra, taskVars, workerVars>>

\* ... then the TaskInfo.
CancelReports ==
    LET t == xCancel[1] IN
    /\ xCancel[2] = "flagged"
    /\ xInfo' = [xInfo EXCEPT ![t] = "Zombie"]
    /\ xCancel' = <<NoKTask, "no">>
    /\ UNCHANGED <<xQueue, xPushing, xCalls, xVersion, xCancelled, xHandle, xShutdown, xExtra, xClean, taskVars, workerVars>>

\* await_task takes the handle away: from here on cancel finds nothing.
AwaitTask(t) ==
    /\ xHandle[t] = "stored" /\ xCancel[2] = "no"
    /\ xHandle' = [xHandle EXCEPT ![t] = "taken"]
    /\ CallFromOutside
    /\ UNCHANGED <<xQueue, xPushing, xVersion, xCancelled, xCancel, xInfo, xShutdown, xExtra, xClean, taskVars, workerVars>>

KShutdown ==
    /\ ~xShutdown
    /\ xShutdown' = TRUE
    /\ CallFromOutside
    /\ UNCHANGED <<xQueue, xPushing, xInfo, xExtra, taskVars, cancelVars, workerVars>>

WorkerStep(w) ==
    \/ PopOwn(w) \/ OwnIsEmpty(w) \/ NothingToSteal(w)
    \/ \E v \in Workers : StealFrom(w, v)
    \/ WorkerStops(w)
    \/ Begin(w) \/ CheckCancelled(w) \/ CheckPasses(w)
    \/ PollTask(w) \/ PollPanics(w) \/ PollSelfWakes(w)

ExecutorNext ==
    \/ \E t \in KTasks :
          \/ KSpawn(t) \/ StoreHandle(t) \/ CancelBumps(t) \/ AwaitTask(t)
          \/ \E w \in Workers : KPush(t, w) \/ KWake(t, w)
    \/ \E w \in Workers : WorkerStep(w)
    \/ CancelFlags \/ CancelReports
    \/ KShutdown

ExecutorSpec ==
    /\ ExecutorInit /\ [][ExecutorNext]_executorVars
    /\ \A w \in Workers : WF_executorVars(WorkerStep(w))
    /\ \A t \in KTasks, w \in Workers : WF_executorVars(KPush(t, w))

(***************************************************************************)
(* Properties                                                              *)
(***************************************************************************)
\* Workers are lost to wakes alone: one that panics polled a task that had
\* been woken while it was already runnable (so that two queue entries of it
\* were polled, the second after its completion), one that waits for ever
\* polled a task that wakes itself. A task never woken in that way is in at
\* most one pair of hands (executor.rs:289-371).
WorkersLostOnlyToWakes ==
    /\ \A w \in Workers :
          /\ xWorker[w] = "dead" => xTask[w] \in xExtra
          /\ xWorker[w] = "stuck" => xTask[w] \in SelfWakers
    /\ \A v, w \in Workers :
          v # w /\ Holding(v) /\ Holding(w) /\ xTask[v] = xTask[w] => xTask[v] \in xExtra

\* A task cancelled once, at a moment when no worker had it, never makes
\* another step, and the Zombie the Scheduler then reports stays one: the
\* race on the version (executor.rs:307-314) is over before a worker begins.
CleanCancelIsFinal ==
    [][\A t \in xClean : xVersion'[t] = 1 =>
          /\ xPhase'[t] = xPhase[t]
          /\ xInfo[t] = "Zombie" => xInfo'[t] = "Zombie"
      ]_executorVars

LiveWorker(w) == xWorker[w] \notin {"dead", "stuck", "stopped"}

\* A task that is Ready, spawned or woken, gets its next execution as long as
\* some worker is left, whatever became of the worker whose queue it is in;
\* shutdown and a task that blocked itself are the only other ways out.
ReadyIsServed ==
    \A t \in KTasks :
        xState[t] = "Ready" ~>
            \/ xState[t] # "Ready" \/ xShutdown \/ t \in xLocked
            \/ \A w \in Workers : ~LiveWorker(w) \/ xTask[w] \in xLocked
=============================================================================
