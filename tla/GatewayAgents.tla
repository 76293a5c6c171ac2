--------------------------- MODULE GatewayAgents ---------------------------
(***************************************************************************)
(* The life of one agent as the gateway's own API has it: its row in the   *)
(* table agents, the kernel task that runs beside it and beats, the        *)
(* monitor of that task, and the record and the instance that execute its  *)
(* tasks (src/apps/gateway/src/services/agent_service.rs,                  *)
(* task_monitor.rs, agent_runtime_manager.rs, and the handlers of          *)
(* handlers/http/agents.rs that call them). The state manager is the one   *)
(* of AgentStates, in memory only.                                         *)
(*                                                                         *)
(* A request is a step per await, and may end at any of them: the router   *)
(* drops it after a timeout, the client goes, or the database fails. Names, *)
(* capabilities, logs and the history of statuses are left out. So is the  *)
(* cancellation of the kernel task in stop and delete: they look up its id *)
(* in the record, where nothing of this API writes it.                     *)
(***************************************************************************)
EXTENDS AgentStates, FiniteSets

CONSTANTS
    MaxGatewayTasks,    \* kernel tasks ever spawned for the agent
    MaxInstances,       \* instances ever built
    MaxAsked,           \* requests ever made
    MaxMishaps          \* requests dropped, database errors of the kernel tasks,
                        \* instances that cannot be built, in all

ASSUME GatewayAssumption ==
    /\ MaxGatewayTasks \in Nat /\ MaxInstances \in Nat
    /\ MaxAsked \in Nat /\ MaxMishaps \in Nat

VARIABLES
    gRow,       \* agents.status; "unborn" before the row, "deleted" after it
    gMonitor,   \* active_monitors: the kernel task monitored, or 0
    gTask,      \* where each kernel task is in run_agent_task
    gErrors,    \* consecutive_errors of each
    gRecord,    \* the agent in the state manager
    gInstance,  \* INSTANCE_REGISTRY: the number of the instance, or 0
    gBuilt,     \* instances built
    gAt,        \* the await each client's request is at
    gKind,      \* what it asks for
    gHeld,      \* the instance it built or got hold of, or 0
    gSpawned,   \* the kernel task it spawned, or 0
    gAsked,     \* requests so far
    gMishaps,   \* mishaps so far
    gOrphan,    \* history: the request that was to move the record on failed
    gLoose,     \* history: a kernel task is monitored by nobody
    gDisturbed  \* history: requests overlapped or failed, the row said running at the start

recordVars == <<gRecord, gInstance, gBuilt, gOrphan>>
backVars == <<gRow, gMonitor, gTask, gErrors>>
restVars == <<gAsked, gMishaps, gLoose, gDisturbed>>
requestVars == <<gAt, gKind, gHeld, gSpawned>>
gatewayVars == <<backVars, recordVars, requestVars, restVars>>

\* A client asks for one task at a time; the task bears its name.
Clients == TaskIds
GatewayTasks == 1..MaxGatewayTasks

Statuses == {"unborn", "pending", "initializing", "running", "stopped", "deleted"}
RequestKinds == {"create", "start", "stop", "delete", "execute"}
NoAgent == Plain("None")

\* Awaits of a request that has the record in its hands.
Enrolling == {"begin", "build", "store", "ready"}
Executing == {"wait", "run", "complete"}
Leaving == {"take", "close", "stopped", "forget"}
Awaits == Enrolling \cup Executing \cup Leaving \cup
          {"idle", "check", "spawn", "insert", "known", "register", "enroll",
           "examine", "fetch", "beginTask", "leave", "shut", "status"}

\* So many mishaps happen now.
Mishaps(n) == gMishaps' = gMishaps + n /\ gMishaps' <= MaxMishaps

HasRow == gRow \notin {"unborn", "deleted"}
Alive(k) == gTask[k] \in {"init", "loop"}

GatewayTypeOK ==
    /\ gRow \in Statuses
    /\ gMonitor \in 0..MaxGatewayTasks
    /\ gTask \in [GatewayTasks -> {"unborn", "init", "loop", "ended"}]
    /\ gErrors \in [GatewayTasks -> 0..3]
    /\ gRecord \in AgentState \cup {NoAgent}
    /\ gInstance \in 0..gBuilt
    /\ gBuilt \in 0..MaxInstances
    /\ gAt \in [Clients -> Awaits]
    /\ gKind \in [Clients -> RequestKinds \cup {"none"}]
    /\ gHeld \in [Clients -> 0..gBuilt]
    /\ gSpawned \in [Clients -> 0..MaxGatewayTasks]
    /\ gAsked \in 0..MaxAsked /\ gMishaps \in 0..MaxMishaps
    /\ gOrphan \in BOOLEAN /\ gLoose \in BOOLEAN /\ gDisturbed \in BOOLEAN

\* The gateway starts, for the first time or after a crash or a shutdown, when
\* only the row is left; the code treats the other statuses as it does running.
GatewayInit ==
    /\ gRow \in {"unborn", "running", "stopped"}
    /\ gMonitor = 0
    /\ gTask = [k \in GatewayTasks |-> "unborn"]
    /\ gErrors = [k \in GatewayTasks |-> 0]
    /\ gRecord = NoAgent /\ gInstance = 0 /\ gBuilt = 0
    /\ gAt = [h \in Clients |-> "idle"]
    /\ gKind = [h \in Clients |-> "none"]
    /\ gHeld = [h \in Clients |-> 0]
    /\ gSpawned = [h \in Clients |-> 0]
    /\ gAsked = 0 /\ gMishaps = 0
    /\ gOrphan = FALSE /\ gLoose = FALSE
    /\ gDisturbed = (gRow = "running")

(***************************************************************************)
(* Requests                                                                *)
(***************************************************************************)
GoesTo(h, await) ==
    /\ gAt' = [gAt EXCEPT ![h] = await]
    /\ UNCHANGED <<gKind, gHeld, gSpawned>>

Returns(h) ==
    /\ gAt' = [gAt EXCEPT ![h] = "idle"]
    /\ gKind' = [gKind EXCEPT ![h] = "none"]
    /\ gHeld' = [gHeld EXCEPT ![h] = 0]
    /\ gSpawned' = [gSpawned EXCEPT ![h] = 0]

\* transition: the record moves, or the state manager refuses.
Moves(trigger) == \E n \in AgentState : NewState(gRecord, trigger, n) /\ gRecord' = n
Refuses(trigger) == Refused(gRecord, trigger)

\* The lock of INSTANCE_REGISTRY: unregister_agent that finds no instance
\* keeps the guard until it returns.
RegistryFree == \A h \in Clients : gAt[h] \in {"stopped", "forget"} => gHeld[h] # 0

\* The mutex of an instance.
InstanceFree(i) == \A h \in Clients : gAt[h] = "run" => gHeld[h] # i

Begins(h, kind, await) ==
    /\ gAt[h] = "idle" /\ gAsked < MaxAsked
    /\ gAsked' = gAsked + 1
    /\ gAt' = [gAt EXCEPT ![h] = await]
    /\ gKind' = [gKind EXCEPT ![h] = kind]
    /\ gDisturbed' = (gDisturbed \/ \E g \in Clients : gAt[g] # "idle")
    /\ UNCHANGED <<gMonitor, gTask, gErrors, recordVars, gHeld, gSpawned, gMishaps, gLoose>>

\* create_and_spawn: the row first.
Create(h) ==
    /\ gRow = "unborn"
    /\ gRow' = "pending"
    /\ Begins(h, "create", "check")

\* start_agent, stop_agent, delete_agent, execute_agent_task: get_agent first.
Ask(h) ==
    /\ HasRow /\ UNCHANGED gRow
    /\ \/ Begins(h, "start", "check")
       \/ \E kind \in {"stop", "delete"} : Begins(h, kind, "leave")
       \/ Begins(h, "execute", "known")

\* A request is dropped: a timeout of the router, or an error of the database.
Drop(h) ==
    /\ gAt[h] # "idle" /\ Mishaps(1)
    /\ Returns(h)
    /\ gOrphan' = (gOrphan \/ gAt[h] \in Enrolling \cup Executing \cup Leaving)
    /\ gLoose' = (gLoose \/ gAt[h] = "insert")
    /\ gDisturbed' = TRUE
    /\ UNCHANGED <<backVars, gRecord, gInstance, gBuilt, gAsked>>

\* update_status, or the deletion of the row: the last of a request.
StatusAfter(kind) ==
    CASE kind = "create" -> "initializing"
      [] kind = "start" -> "running"
      [] kind = "stop" -> "stopped"
      [] kind = "delete" -> "deleted"

WriteStatus(h) ==
    /\ gAt[h] = "status"
    /\ gRow' = IF HasRow THEN StatusAfter(gKind[h]) ELSE gRow
    /\ Returns(h)
    /\ UNCHANGED <<gMonitor, gTask, gErrors, recordVars, restVars>>

(***************************************************************************)
(* The kernel task and its monitor                                         *)
(***************************************************************************)
\* spawn_and_monitor: refused while the agent is monitored.
CheckMonitor(h) ==
    /\ gAt[h] = "check"
    /\ IF gMonitor = 0 THEN GoesTo(h, "spawn") ELSE Returns(h)
    /\ UNCHANGED <<backVars, recordVars, restVars>>

SpawnTask(h, k) ==
    /\ gAt[h] = "spawn"
    /\ gTask[k] = "unborn" /\ \A l \in 1..(k - 1) : gTask[l] # "unborn"
    /\ gTask' = [gTask EXCEPT ![k] = "init"]
    /\ gSpawned' = [gSpawned EXCEPT ![h] = k]
    /\ gAt' = [gAt EXCEPT ![h] = "insert"]
    /\ UNCHANGED <<gRow, gMonitor, gErrors, recordVars, gKind, gHeld, restVars>>

\* The entry replaces the one another request made since the check, which is
\* an overlap.
InsertMonitor(h) ==
    /\ gAt[h] = "insert"
    /\ gMonitor' = gSpawned[h]
    /\ gLoose' = (gLoose \/ (gMonitor # 0 /\ gDisturbed))
    /\ GoesTo(h, "register")
    /\ UNCHANGED <<gRow, gTask, gErrors, recordVars, gAsked, gMishaps, gDisturbed>>

\* cancel_monitoring aborts the monitor; the kernel task goes on.
CancelMonitoring ==
    /\ gMonitor # 0
    /\ gMonitor' = 0
    /\ gLoose' = TRUE
    /\ UNCHANGED <<gRow, gTask, gErrors, recordVars, requestVars, gAsked, gMishaps, gDisturbed>>

\* run_agent_task: after two seconds the row says running, whatever it said,
\* unless the update fails.
InitTask(k) ==
    /\ gTask[k] = "init"
    /\ gTask' = [gTask EXCEPT ![k] = "loop"]
    /\ \/ gRow' = (IF HasRow THEN "running" ELSE gRow) /\ UNCHANGED restVars
       \/ Mishaps(1) /\ gDisturbed' = TRUE /\ UNCHANGED <<gRow, gAsked, gLoose>>
    /\ UNCHANGED <<gMonitor, gErrors, recordVars, requestVars>>

\* A round of the loop: the query, which may find that the row ends the task,
\* and the heartbeat, each of which may fail. Three errors in a row end the task
\* too.
Round(k, queried, beaten, rowEnds) ==
    LET errors == IF queried THEN 0 ELSE gErrors[k] + 1
        over == IF queried THEN rowEnds ELSE errors >= 3
    IN
    /\ gTask[k] = "loop"
    /\ over => beaten
    /\ Mishaps(IF queried /\ beaten THEN 0 ELSE 1)
    /\ gTask' = [gTask EXCEPT ![k] = IF over THEN "ended" ELSE "loop"]
    /\ gErrors' = [gErrors EXCEPT ![k] = IF over \/ beaten THEN 0 ELSE errors + 1]
    /\ gDisturbed' = (gDisturbed \/ (over /\ ~queried))
    /\ UNCHANGED <<gRow, gMonitor, recordVars, requestVars, gAsked, gLoose>>

\* A mutant of Heartbeat: only a row that is gone ends the task.
HeartbeatUntilDeleted(k, queried, beaten) == Round(k, queried, beaten, gRow = "deleted")

Heartbeat(k, queried, beaten) == Round(k, queried, beaten, gRow \in {"stopped", "deleted"})

(***************************************************************************)
(* AgentRuntimeManager                                                     *)
(***************************************************************************)
\* Where a request goes on when the agent is registered, and when it could
\* not be: create and start log the error and go on.
Enrolled(h) == IF gKind[h] = "execute" THEN GoesTo(h, "examine") ELSE GoesTo(h, "status")
NotEnrolled(h) == IF gKind[h] = "execute" THEN Returns(h) ELSE GoesTo(h, "status")

\* is_registered: execute_agent_task asks, then register_agent again.
IsRegistered(h) ==
    /\ gAt[h] \in {"known", "register"}
    /\ CASE gRecord # NoAgent -> Enrolled(h)
         [] gAt[h] = "known" -> GoesTo(h, "register")
         [] OTHER -> GoesTo(h, "enroll")
    /\ UNCHANGED <<backVars, recordVars, restVars>>

Enroll(h) ==
    /\ gAt[h] = "enroll"
    /\ IF gRecord = NoAgent
       THEN gRecord' = Plain("Registered") /\ GoesTo(h, "begin")
       ELSE NotEnrolled(h) /\ UNCHANGED gRecord
    /\ UNCHANGED <<backVars, gInstance, gBuilt, gOrphan, restVars>>

BeginInit(h) ==
    /\ gAt[h] = "begin"
    /\ \/ Moves(Trigger("Start")) /\ GoesTo(h, "build")
       \/ Refuses(Trigger("Start")) /\ NotEnrolled(h) /\ UNCHANGED gRecord
    /\ UNCHANGED <<backVars, gInstance, gBuilt, gOrphan, restVars>>

\* AgentInstance::new
Build(h) ==
    /\ gAt[h] = "build" /\ gBuilt < MaxInstances
    /\ gBuilt' = gBuilt + 1
    /\ gHeld' = [gHeld EXCEPT ![h] = gBuilt + 1]
    /\ gAt' = [gAt EXCEPT ![h] = "store"]
    /\ UNCHANGED <<backVars, gRecord, gInstance, gOrphan, gKind, gSpawned,
                   restVars>>

\* The instance cannot be built. The transition to Error is made into a future
\* that nobody awaits: the record stays as it is.
BuildFails(h) ==
    /\ gAt[h] = "build" /\ Mishaps(1)
    /\ NotEnrolled(h)
    /\ gOrphan' = TRUE
    /\ UNCHANGED <<backVars, gRecord, gInstance, gBuilt, gAsked, gLoose, gDisturbed>>

StoreInstance(h) ==
    /\ gAt[h] = "store" /\ RegistryFree
    /\ gInstance' = gHeld[h]
    /\ GoesTo(h, "ready")
    /\ UNCHANGED <<backVars, gRecord, gBuilt, gOrphan, restVars>>

\* A mutant of BecomesReady: this transition is not awaited either.
ReadyUnawaited(h) ==
    /\ gAt[h] = "ready"
    /\ Enrolled(h)
    /\ UNCHANGED <<backVars, recordVars, restVars>>

BecomesReady(h) ==
    /\ gAt[h] = "ready"
    /\ \/ Moves(Trigger("InitializationComplete")) /\ Enrolled(h)
       \/ Refuses(Trigger("InitializationComplete")) /\ NotEnrolled(h) /\ UNCHANGED gRecord
    /\ UNCHANGED <<backVars, gInstance, gBuilt, gOrphan, restVars>>

\* execute_task: the agent is idle, its instance is found, the record moves,
\* the instance is waited for, used and left, the record moves back.
Examine(h) ==
    /\ gAt[h] = "examine"
    /\ IF gRecord.kind = "Idle" THEN GoesTo(h, "fetch") ELSE Returns(h)
    /\ UNCHANGED <<backVars, recordVars, restVars>>

Fetch(h) ==
    /\ gAt[h] = "fetch" /\ RegistryFree
    /\ IF gInstance = 0 THEN Returns(h)
       ELSE /\ gHeld' = [gHeld EXCEPT ![h] = gInstance]
            /\ gAt' = [gAt EXCEPT ![h] = "beginTask"]
            /\ UNCHANGED <<gKind, gSpawned>>
    /\ UNCHANGED <<backVars, recordVars, restVars>>

StartTask(h) ==
    /\ gAt[h] = "beginTask"
    /\ \/ Moves(BeginTask(h)) /\ GoesTo(h, "wait")
       \/ Refuses(BeginTask(h)) /\ Returns(h) /\ UNCHANGED gRecord
    /\ UNCHANGED <<backVars, gInstance, gBuilt, gOrphan, restVars>>

RunTask(h) ==
    /\ gAt[h] = "wait" /\ InstanceFree(gHeld[h])
    /\ GoesTo(h, "run")
    /\ UNCHANGED <<backVars, recordVars, restVars>>

TaskDone(h) ==
    /\ gAt[h] = "run"
    /\ GoesTo(h, "complete")
    /\ UNCHANGED <<backVars, recordVars, restVars>>

CompleteTask(h) ==
    /\ gAt[h] = "complete"
    /\ \/ Moves(Trigger("CompleteTask"))
       \/ Refuses(Trigger("CompleteTask")) /\ UNCHANGED gRecord
    /\ Returns(h)
    /\ UNCHANGED <<backVars, gInstance, gBuilt, gOrphan, restVars>>

\* unregister_agent: refused transitions are logged and passed over.
Leave(h) ==
    /\ gAt[h] = "leave"
    /\ IF gRecord = NoAgent THEN GoesTo(h, "status") ELSE GoesTo(h, "shut")
    /\ UNCHANGED <<backVars, recordVars, restVars>>

ShutDown(h) ==
    /\ gAt[h] = "shut"
    /\ \/ Moves(Trigger("Shutdown"))
       \/ Refuses(Trigger("Shutdown")) /\ UNCHANGED gRecord
    /\ GoesTo(h, "take")
    /\ UNCHANGED <<backVars, gInstance, gBuilt, gOrphan, restVars>>

TakeInstance(h) ==
    /\ gAt[h] = "take" /\ RegistryFree
    /\ gHeld' = [gHeld EXCEPT ![h] = gInstance]
    /\ gInstance' = 0
    /\ gAt' = [gAt EXCEPT ![h] = IF gInstance = 0 THEN "stopped" ELSE "close"]
    /\ UNCHANGED <<backVars, gRecord, gBuilt, gOrphan, gKind, gSpawned,
                   restVars>>

CloseInstance(h) ==
    /\ gAt[h] = "close" /\ InstanceFree(gHeld[h])
    /\ GoesTo(h, "stopped")
    /\ UNCHANGED <<backVars, recordVars, restVars>>

MarkStopped(h) ==
    /\ gAt[h] = "stopped"
    /\ \/ Moves(Trigger("Stopped"))
       \/ Refuses(Trigger("Stopped")) /\ UNCHANGED gRecord
    /\ GoesTo(h, "forget")
    /\ UNCHANGED <<backVars, gInstance, gBuilt, gOrphan, restVars>>

Forget(h) ==
    /\ gAt[h] = "forget"
    /\ gRecord' = NoAgent
    /\ gOrphan' = FALSE
    /\ GoesTo(h, "status")
    /\ UNCHANGED <<backVars, gInstance, gBuilt, restVars>>

TaskStep(k) == InitTask(k) \/ \E queried, beaten \in BOOLEAN : Heartbeat(k, queried, beaten)

GatewayNext ==
    \/ \E h \in Clients :
          \/ Create(h) \/ Ask(h) \/ Drop(h) \/ WriteStatus(h)
          \/ CheckMonitor(h) \/ InsertMonitor(h)
          \/ \E k \in GatewayTasks : SpawnTask(h, k)
          \/ IsRegistered(h) \/ Enroll(h) \/ BeginInit(h) \/ Build(h) \/ BuildFails(h)
          \/ StoreInstance(h) \/ BecomesReady(h)
          \/ Examine(h) \/ Fetch(h) \/ StartTask(h) \/ RunTask(h) \/ TaskDone(h) \/ CompleteTask(h)
          \/ Leave(h) \/ ShutDown(h) \/ TakeInstance(h) \/ CloseInstance(h) \/ MarkStopped(h)
          \/ Forget(h)
    \/ \E k \in GatewayTasks : TaskStep(k)
    \/ CancelMonitoring

GatewaySpec ==
    /\ GatewayInit /\ [][GatewayNext]_gatewayVars
    /\ \A k \in GatewayTasks : WF_gatewayVars(TaskStep(k))

(***************************************************************************)
(* Properties                                                              *)
(***************************************************************************)
AliveTasks == {k \in GatewayTasks : Alive(k)}

\* One kernel task beats for an agent, unless one is monitored by nobody: its
\* monitoring was cancelled, its entry replaced by that of a start that had
\* looked before it was there, or its start dropped in between
\* (task_monitor.rs:146-200). Starts that have still to insert may be two.
OneKernelTask ==
    Cardinality(AliveTasks) > 1 => gLoose \/ \E h \in Clients : gAt[h] = "insert"

\* A row that says initializing or running has a kernel task, as long as
\* requests came one by one and ended, and the gateway and its database held
\* (agent_service.rs:97-124, 171-188, 445-525).
RunningHasItsTask ==
    gRow \in {"initializing", "running"} /\ ~gDisturbed => AliveTasks # {}

\* A record on its way to another state has a request that takes it there,
\* unless that request was dropped or its instance could not be built
\* (agent_runtime_manager.rs:311-519).
RecordIsAttended ==
    \/ gOrphan
    \/ CASE gRecord.kind = "Registered" -> \E h \in Clients : gAt[h] = "begin"
         [] gRecord.kind = "Initializing" ->
                \E h \in Clients : gAt[h] \in {"build", "store", "ready"}
         [] gRecord.kind = "Working" -> gAt[gRecord.task] \in Executing
         [] gRecord.kind \in {"ShuttingDown", "Stopped"} ->
                \E h \in Clients : gAt[h] \in Leaving
         [] OTHER -> TRUE

\* An agent that is being initialized, waits for tasks or executes one has its
\* instance, or a request that is to store one, or a stop in progress that took
\* it, unless a request failed on the way. A registration and a stop overlap at
\* any of their awaits (agent_runtime_manager.rs:311-379, 464-519).
ReadyHasInstance ==
    gRecord.kind \in {"Initializing", "Idle", "Working"} =>
        \/ gInstance # 0 \/ gOrphan
        \/ \E h \in Clients : gAt[h] \in {"build", "store"} \cup Leaving

\* The row, the kernel tasks, the record and the instance of an agent go
\* together: the four above.
AgentAccounted == OneKernelTask /\ RunningHasItsTask /\ RecordIsAttended /\ ReadyHasInstance

\* The kernel tasks of an agent that is stopped or deleted for good end, however
\* many there are, monitored or not (agent_service.rs:473-500).
StoppedTasksEnd == <>[](gRow \in {"stopped", "deleted"}) => <>[](AliveTasks = {})

\* "This is used when a previously stopped agent is started again"
\* (agent_service.rs:152): an agent that is stopped and at rest is not
\* monitored, or start refuses it.
StoppedCanStart ==
    gRow = "stopped" /\ AliveTasks = {} /\ (\A h \in Clients : gAt[h] = "idle") => gMonitor = 0
=============================================================================
