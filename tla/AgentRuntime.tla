---------------------------- MODULE AgentRuntime ----------------------------
(***************************************************************************)
(* The life of one agent id under GatewayAgentRuntime                      *)
(* (crates/agents/src/runtime/agent_runtime_impl.rs) and AgentKernelTask   *)
(* (crates/agents/src/kernel_integration.rs), over the state manager's     *)
(* record and its row in the database.                                     *)
(*                                                                         *)
(* Three kinds of actors interleave: callers inside spawn, stop or         *)
(* send_command; kernel tasks inside run, one per successful spawn of the  *)
(* kernel; and, after a start, the recovery of the agent.  Each transition *)
(* changes the record at once and saves the clone later (`saving`), and    *)
(* its actor waits for the save.  Publication to subscribers is in         *)
(* AgentStateManager.  The kernel is always configured, as in the gateway. *)
(***************************************************************************)
EXTENDS AgentStates, Sequences, SequencesExt, FiniteSets

CONSTANTS Callers, MaxKTasks,  \* MaxKTasks bounds the kernel tasks ever spawned
          NoRecord, NoKTask,
          Recovery,            \* the start-up actor
          SavesMayFail         \* whether save_record may return an error

ASSUME RuntimeAssumption ==
  /\ MaxKTasks \in Nat \ {0}
  /\ NoRecord \notin AgentStateRecord
  /\ NoKTask \notin 1..MaxKTasks
  /\ Callers \cap (1..MaxKTasks) = {} /\ Recovery \notin Callers \cup (1..MaxKTasks)
  /\ SavesMayFail \in BOOLEAN

KTasks == 1..MaxKTasks
Actors == Callers \cup KTasks \cup {Recovery}

VARIABLES
  record,    \* the agent's entry of the state manager's registry
  row,       \* its row of agent_states
  saving,    \* the clone each actor is about to save
  handle,    \* agent_tasks: the kernel task behind the agent's handle
  born,      \* number of kernel tasks spawned so far
  kpc,       \* where each kernel task is in run
  queue,     \* its channel of requests
  serving,   \* the request it handles
  cpc,       \* where each caller, and recovery, is
  mine,      \* the kernel task a spawn obtained from the kernel
  request,   \* what the client of each task knows
  unreported \* history: an Error report was refused since the last start

actors == <<saving, kpc, queue, serving, cpc, mine>>
vars == <<record, row, handle, born, request, unreported, actors>>

KPCs == {"unborn", "start", "init", "loop", "receive", "execute", "reply",
         "close", "stopping", "exited"}
CPCs == {"idle", "lookup", "recheck", "unregister", "delete", "register",
         "kspawn", "insert", "stopped", "down"}
\* failed: refused, timed out, or the result channel closed.
Outcomes == {"new", "sent", "answered", "failed"}

Init ==
  /\ record = NoRecord
  /\ row = NoRecord
  /\ saving = [x \in Actors |-> NoRecord]
  /\ handle = NoKTask
  /\ born = 0
  /\ kpc = [k \in KTasks |-> "unborn"]
  /\ queue = [k \in KTasks |-> <<>>]
  /\ serving = [k \in KTasks |-> NoTask]
  /\ cpc = [x \in Callers \cup {Recovery} |-> IF x = Recovery THEN "down" ELSE "idle"]
  /\ mine = [x \in Callers \cup {Recovery} |-> NoKTask]
  /\ request = [r \in TaskIds |-> "new"]
  /\ unreported = FALSE

Up == cpc[Recovery] = "idle"
Live(k) == kpc[k] \notin {"unborn", "exited"}
Free(x) == saving[x] = NoRecord
At(c, l) == Up /\ cpc[c] = l /\ Free(c)
KAt(k, l) == kpc[k] = l /\ Free(k)

----------------------------------------------------------------------------
(* AgentStateManager::transition, and the save of the clone it took.       *)

Takes(x, t) ==
  /\ record # NoRecord
  /\ \E n \in AgentState :
       NewState(record.state, t, n) /\ record' = Updated(record, t, n, 0)
  /\ saving' = [saving EXCEPT ![x] = record']

CannotTake(t) == record # NoRecord => Refused(record.state, t)

\* update_state: a refused transition is logged and forgotten.
Report(x, t) ==
  \/ Takes(x, t) /\ UNCHANGED unreported
  \/ /\ CannotTake(t)
     /\ unreported' = (unreported \/ t.name = "Error")
     /\ UNCHANGED <<record, saving>>

Save(x) ==
  /\ ~Free(x)
  /\ row' = saving[x]
  /\ saving' = [saving EXCEPT ![x] = NoRecord]
  /\ UNCHANGED <<record, handle, born, kpc, queue, serving, cpc, mine, request,
                 unreported>>

\* transition returns an error: stop gives up before it removes the handle,
\* a kernel task ignores it.
SaveFails(x) ==
  /\ SavesMayFail /\ ~Free(x)
  /\ saving' = [saving EXCEPT ![x] = NoRecord]
  /\ cpc' = IF x \in Callers THEN [cpc EXCEPT ![x] = "idle"] ELSE cpc
  /\ UNCHANGED <<record, row, handle, born, kpc, queue, serving, mine, request,
                 unreported>>

----------------------------------------------------------------------------
(* AgentKernelTask::run and handle_task_request.                           *)

KMoves(k, l) == kpc' = [kpc EXCEPT ![k] = l]
KUnchanged == UNCHANGED <<row, handle, born, cpc, mine>>

KStart(k) ==
  /\ KAt(k, "start")
  /\ Report(k, Trigger("Start"))
  /\ KMoves(k, "init")
  /\ KUnchanged /\ UNCHANGED <<queue, serving, request>>

\* The channel goes with the task: requests in it are dropped and their
\* clients see a closed result channel.
Closed(k) ==
  [r \in TaskIds |-> IF r \in ToSet(queue[k]) /\ request[r] = "sent"
                     THEN "failed" ELSE request[r]]
KExits(k) ==
  /\ KMoves(k, "exited")
  /\ queue' = [queue EXCEPT ![k] = <<>>]
  /\ request' = Closed(k)

\* Mutant: the failure is not reported.
KInitFailsSilently(k) ==
  /\ KAt(k, "init")
  /\ KExits(k)
  /\ KUnchanged /\ UNCHANGED <<record, saving, unreported, serving>>

KInitFails(k) ==
  /\ KAt(k, "init")
  /\ Report(k, Trigger("Error"))
  /\ KExits(k)
  /\ KUnchanged /\ UNCHANGED serving

KInitialized(k) ==
  /\ KAt(k, "init")
  /\ Report(k, Trigger("InitializationComplete"))
  /\ KMoves(k, "loop")
  /\ KUnchanged /\ UNCHANGED <<queue, serving, request>>

\* should_shutdown: a missing record does not stop the loop.
ShouldShutdown ==
  record # NoRecord /\ record.state.kind \in {"ShuttingDown", "Stopped"}

KChecks(k) ==
  /\ KAt(k, "loop")
  /\ KMoves(k, IF ShouldShutdown THEN "close" ELSE "receive")
  /\ KUnchanged /\ UNCHANGED <<record, saving, unreported, queue, serving, request>>

\* The receive timeout runs a health check that only reads.
KTimesOut(k) ==
  /\ KAt(k, "receive") /\ queue[k] = <<>>
  /\ KMoves(k, "loop")
  /\ KUnchanged /\ UNCHANGED <<record, saving, unreported, queue, serving, request>>

\* The capability check depends on the task's type only: either outcome.
KDenies(k) ==
  LET r == Head(queue[k]) IN
  /\ KAt(k, "receive") /\ queue[k] # <<>>
  /\ queue' = [queue EXCEPT ![k] = Tail(@)]
  /\ request' = [request EXCEPT ![r] = IF @ = "sent" THEN "failed" ELSE @]
  /\ KMoves(k, "loop")
  /\ KUnchanged /\ UNCHANGED <<record, saving, unreported, serving>>

\* The task runs whether or not the manager accepts BeginTask.
KBegins(k) ==
  /\ KAt(k, "receive") /\ queue[k] # <<>>
  /\ queue' = [queue EXCEPT ![k] = Tail(@)]
  /\ serving' = [serving EXCEPT ![k] = Head(queue[k])]
  /\ Report(k, BeginTask(Head(queue[k])))
  /\ KMoves(k, "execute")
  /\ KUnchanged /\ UNCHANGED request

\* Mutant: the client is answered before the state is updated.
KCompletesAfterReply(k) ==
  /\ KAt(k, "execute")
  /\ request' = [request EXCEPT ![serving[k]] = IF @ = "sent" THEN "answered" ELSE @]
  /\ KMoves(k, "reply")
  /\ KUnchanged /\ UNCHANGED <<record, saving, unreported, queue, serving>>

KCompletes(k) ==
  /\ KAt(k, "execute")
  /\ Report(k, Trigger("CompleteTask"))
  /\ KMoves(k, "reply")
  /\ KUnchanged /\ UNCHANGED <<queue, serving, request>>

\* Mutant: the result is dropped.
KForgets(k) ==
  /\ KAt(k, "reply")
  /\ serving' = [serving EXCEPT ![k] = NoTask]
  /\ KMoves(k, "loop")
  /\ KUnchanged /\ UNCHANGED <<record, saving, unreported, queue, request>>

KReplies(k) ==
  /\ KAt(k, "reply")
  /\ request' = [request EXCEPT ![serving[k]] = IF @ = "sent" THEN "answered" ELSE @]
  /\ serving' = [serving EXCEPT ![k] = NoTask]
  /\ KMoves(k, "loop")
  /\ KUnchanged /\ UNCHANGED <<record, saving, unreported, queue>>

KCloses(k) ==
  /\ KAt(k, "close")
  /\ Report(k, Trigger("Shutdown"))
  /\ KMoves(k, "stopping")
  /\ KUnchanged /\ UNCHANGED <<queue, serving, request>>

\* Mutant: the loop is left without the last transition.
KStopsSilently(k) ==
  /\ KAt(k, "stopping")
  /\ KExits(k)
  /\ KUnchanged /\ UNCHANGED <<record, saving, unreported, serving>>

KStops(k) ==
  /\ KAt(k, "stopping")
  /\ Report(k, Trigger("Stopped"))
  /\ KExits(k)
  /\ KUnchanged /\ UNCHANGED serving

KStep(k) ==
  \/ KStart(k) \/ KInitFails(k) \/ KInitialized(k) \/ KChecks(k) \/ KTimesOut(k)
  \/ KDenies(k) \/ KBegins(k) \/ KCompletes(k) \/ KReplies(k)
  \/ KCloses(k) \/ KStops(k)

----------------------------------------------------------------------------
(* GatewayAgentRuntime::spawn.                                             *)

Goes(c, l) == cpc' = [cpc EXCEPT ![c] = l]
CUnchanged == UNCHANGED <<queue, serving, unreported>>
Elsewhere == UNCHANGED <<record, row, saving, handle, born, kpc, mine, request>>

SpawnChecks(c) ==
  /\ At(c, "idle") /\ handle = NoKTask /\ born < MaxKTasks
  /\ Goes(c, "lookup")
  /\ CUnchanged /\ Elsewhere

SpawnLooksUp(c) ==
  /\ At(c, "lookup")
  /\ Goes(c, IF record = NoRecord THEN "register" ELSE "recheck")
  /\ CUnchanged /\ Elsewhere

\* A record without a handle is taken for a stale one.
SpawnRechecks(c) ==
  /\ At(c, "recheck")
  /\ Goes(c, IF handle = NoKTask THEN "unregister" ELSE "register")
  /\ CUnchanged /\ Elsewhere

SpawnUnregisters(c) ==
  /\ At(c, "unregister")
  /\ record' = NoRecord
  /\ Goes(c, "delete")
  /\ CUnchanged /\ UNCHANGED <<row, saving, handle, born, kpc, mine, request>>

SpawnDeletesRow(c) ==
  /\ At(c, "delete")
  /\ row' = NoRecord
  /\ Goes(c, "register")
  /\ CUnchanged /\ UNCHANGED <<record, saving, handle, born, kpc, mine, request>>

\* Mutant: registration is persisted, as transitions are.
SpawnRegistersAndSaves(c) ==
  /\ At(c, "register") /\ record = NoRecord
  /\ record' = FreshRecord(0)
  /\ saving' = [saving EXCEPT ![c] = FreshRecord(0)]
  /\ Goes(c, "kspawn")
  /\ CUnchanged /\ UNCHANGED <<row, handle, born, kpc, mine, request>>

SpawnRegisters(c) ==
  /\ At(c, "register")
  /\ IF record = NoRecord
     THEN record' = FreshRecord(0) /\ Goes(c, "kspawn")
     ELSE UNCHANGED record /\ Goes(c, "idle")
  /\ CUnchanged /\ UNCHANGED <<row, saving, handle, born, kpc, mine, request>>

\* kernel.spawn_task: the future is polled from here on.
SpawnsKTask(c) ==
  /\ born < MaxKTasks
  /\ born' = born + 1
  /\ kpc' = [kpc EXCEPT ![born + 1] = "start"]
  /\ mine' = [mine EXCEPT ![c] = born + 1]
  /\ Goes(c, "insert")
  /\ CUnchanged /\ UNCHANGED <<record, row, saving, handle, request>>

SpawnInKernel(c) == At(c, "kspawn") /\ SpawnsKTask(c)

SpawnRefused(c) ==
  /\ At(c, "kspawn")
  /\ Goes(c, "idle")
  /\ CUnchanged /\ Elsewhere

Inserts(c) ==
  /\ handle' = mine[c]
  /\ mine' = [mine EXCEPT ![c] = NoKTask]
  /\ Goes(c, "idle")
  /\ CUnchanged /\ UNCHANGED <<record, row, saving, born, kpc, request>>

SpawnInserts(c) == At(c, "insert") /\ Inserts(c)

----------------------------------------------------------------------------
(* stop, send_command and execute_task.                                    *)

CallerTakes(c, t, l) ==
  /\ At(c, "idle")
  /\ Takes(c, t)
  /\ Goes(c, l)
  /\ CUnchanged /\ UNCHANGED <<row, handle, born, kpc, mine, request>>

Stop(c) == CallerTakes(c, Trigger("Shutdown"), "stopped")

StopRemovesHandle(c) ==
  /\ At(c, "stopped")
  /\ handle' = NoKTask
  /\ Goes(c, "idle")
  /\ CUnchanged /\ UNCHANGED <<record, row, saving, born, kpc, mine, request>>

\* Stop and Restart are both Shutdown.
convert_command ==
  [Start |-> "Start", Pause |-> "Pause", Resume |-> "Resume",
   Stop |-> "Shutdown", Restart |-> "Shutdown"]

SendCommand(c) ==
  \E cmd \in DOMAIN convert_command :
    CallerTakes(c, Trigger(convert_command[cmd]), "idle")

\* A request enters the channel of the kernel task behind the handle; sending
\* to an exited task fails at once.
ExecuteTask(r) ==
  /\ Up /\ request[r] = "new" /\ handle # NoKTask
  /\ IF Live(handle)
     THEN /\ queue' = [queue EXCEPT ![handle] = Append(@, r)]
          /\ request' = [request EXCEPT ![r] = "sent"]
     ELSE /\ request' = [request EXCEPT ![r] = "failed"]
          /\ UNCHANGED queue
  /\ UNCHANGED <<record, row, saving, handle, born, kpc, serving, cpc, mine,
                 unreported>>

\* The client gives up; the request stays where it is.
ClientTimesOut(r) ==
  /\ request[r] = "sent"
  /\ request' = [request EXCEPT ![r] = "failed"]
  /\ UNCHANGED <<record, row, saving, handle, born, kpc, queue, serving, cpc,
                 mine, unreported>>

----------------------------------------------------------------------------
(* Crash and recover_agents.                                               *)

Crash ==
  /\ Up
  /\ record' = NoRecord
  /\ saving' = [x \in Actors |-> NoRecord]
  /\ handle' = NoKTask
  /\ kpc' = [k \in KTasks |-> IF Live(k) THEN "exited" ELSE kpc[k]]
  /\ queue' = [k \in KTasks |-> <<>>]
  /\ serving' = [k \in KTasks |-> NoTask]
  /\ cpc' = [x \in Callers \cup {Recovery} |-> IF x = Recovery THEN "down" ELSE "idle"]
  /\ mine' = [x \in Callers \cup {Recovery} |-> NoKTask]
  /\ request' = [r \in TaskIds |-> IF request[r] = "sent" THEN "failed" ELSE request[r]]
  /\ unreported' = FALSE
  /\ UNCHANGED <<row, born>>

RAt(l) == cpc[Recovery] = l /\ Free(Recovery)

\* load_from_db, then recover_agent's look at the state: an agent in Error is
\* loaded and left alone.  A row is never Registered (only transitions save),
\* so recover_agent's own Start has nothing to do.
RecoveryLoads ==
  /\ RAt("down")
  /\ \/ row = NoRecord /\ record' = NoRecord
     \/ row # NoRecord /\ record' =
          IF row.state.kind = "Stopped" THEN NoRecord ELSE Reloaded(row)
  /\ Goes(Recovery, IF record' = NoRecord \/ record'.state.kind = "Error"
                    THEN "idle" ELSE "kspawn")
  /\ CUnchanged /\ UNCHANGED <<row, saving, handle, born, kpc, mine, request>>

RecoveryLoadFails ==
  /\ RAt("down")
  /\ Goes(Recovery, "idle")
  /\ CUnchanged /\ Elsewhere

RecoverySpawns == RAt("kspawn") /\ SpawnsKTask(Recovery)

\* The failure is reported as an Error transition whose own failure is ignored.
RecoveryRefused ==
  /\ RAt("kspawn")
  /\ Report(Recovery, Trigger("Error"))
  /\ Goes(Recovery, "idle")
  /\ UNCHANGED <<row, handle, born, kpc, mine, request, queue, serving>>

RecoveryInserts == RAt("insert") /\ Inserts(Recovery)

RecoveryStep ==
  \/ RecoveryLoads \/ RecoveryLoadFails \/ RecoverySpawns \/ RecoveryRefused
  \/ RecoveryInserts

----------------------------------------------------------------------------
CallerStep(c) ==
  \/ SpawnChecks(c) \/ SpawnLooksUp(c) \/ SpawnRechecks(c) \/ SpawnUnregisters(c)
  \/ SpawnDeletesRow(c) \/ SpawnRegisters(c) \/ SpawnInKernel(c) \/ SpawnRefused(c)
  \/ SpawnInserts(c) \/ Stop(c) \/ StopRemovesHandle(c) \/ SendCommand(c)

Next ==
  \/ \E k \in KTasks : KStep(k)
  \/ \E c \in Callers : CallerStep(c)
  \/ \E x \in Actors : Save(x) \/ SaveFails(x)
  \/ \E r \in TaskIds : ExecuteTask(r) \/ ClientTimesOut(r)
  \/ RecoveryStep \/ Crash

\* The kernel polls every task it has, a task's execution ends (the LLM calls
\* in it have timeouts) and the database answers.
Fairness ==
  /\ \A k \in KTasks : WF_vars(KStep(k))
  /\ \A x \in Actors : WF_vars(Save(x) \/ SaveFails(x))

Spec == Init /\ [][Next]_vars /\ Fairness

----------------------------------------------------------------------------
(* Properties.                                                             *)

\* Every variable has its type; a row is never Registered.
TypeOK ==
  /\ record \in AgentStateRecord \cup {NoRecord}
  /\ row \in AgentStateRecord \cup {NoRecord}
  /\ row # NoRecord => row.state.kind # "Registered"
  /\ saving \in [Actors -> AgentStateRecord \cup {NoRecord}]
  /\ handle \in KTasks \cup {NoKTask}
  /\ born \in 0..MaxKTasks
  /\ kpc \in [KTasks -> KPCs]
  /\ queue \in [KTasks -> Seq(TaskIds)]
  /\ serving \in [KTasks -> TaskIds \cup {NoTask}]
  /\ cpc \in [Callers \cup {Recovery} -> CPCs]
  /\ mine \in [Callers \cup {Recovery} -> KTasks \cup {NoKTask}]
  /\ request \in [TaskIds -> Outcomes]
  /\ unreported \in BOOLEAN

\* An agent that says it is Idle, Working or Paused has a live kernel task, in
\* every interleaving of stops, respawns, failing saves and recoveries, unless
\* the manager refused the report of a failed start (a Paused agent cannot
\* become Error).
AgentIsServed ==
  Up /\ record # NoRecord /\ record.state.kind \in {"Idle", "Working", "Paused"} =>
    unreported \/ \E k \in KTasks : Live(k)

\* handle_task_request updates the state before it answers: a client that has
\* its answer never reads that the agent is still working on its task.
AnsweredIsNotWorking ==
  record # NoRecord /\ record.state.kind = "Working" /\ record.state.task # NoTask =>
    request[record.state.task] # "answered"

\* Every request that entered a channel is answered, refused, or its client is
\* told that the channel closed, however the agent stops.
RequestsResolved == \A r \in TaskIds : request[r] = "sent" ~> request[r] # "sent"

\* A kernel task in its loop notices a shutdown and takes the agent out of
\* ShuttingDown, unless the record is replaced first or the process dies.
ShutdownCompletes ==
  (\E k \in KTasks : kpc[k] \in {"loop", "receive", "execute", "reply"})
     /\ record # NoRecord /\ record.state.kind = "ShuttingDown"
  ~> record = NoRecord \/ record.state.kind # "ShuttingDown"

\* recover_agents "restores all agents that were in a non-terminal state (not
\* Stopped or Error)" (agent_runtime_impl.rs:242): when no save is pending, a
\* stopped agent's row says so, or the next start brings the agent back.
StoppedRowIsCurrent ==
  (/\ Up /\ record # NoRecord /\ record.state.kind = "Stopped"
   /\ \A x \in Actors : Free(x)) =>
    row # NoRecord /\ row.state.kind = "Stopped"
=============================================================================
