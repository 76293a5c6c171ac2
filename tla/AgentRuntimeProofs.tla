------------------------- MODULE AgentRuntimeProofs -------------------------
(***************************************************************************)
(* What TLAPS proves of AgentRuntime, for any set of callers and of tasks, *)
(* any bound on the kernel tasks, and saves that fail or not: Typing,      *)
(* AgentsAreServed, AnswersFollowTheState, and that no client waits for a  *)
(* kernel task that is gone (ClientsWaitForTheLiving).                     *)
(*                                                                         *)
(* RuntimeIInv adds to the types that a request is in one place, that the  *)
(* task of a Working agent is under execution, that an agent that could be *)
(* given work has a kernel task on which Stopped has not been decided, and *)
(* that nothing runs before the recovery.                                  *)
(***************************************************************************)
EXTENDS AgentRuntime, SequenceTheorems, TLAPS

\* An agent in one of these can be given work, or could before it was paused.
Active == {"Idle", "Working", "Paused"}

\* A request with the client still waiting, or gone.
Entered == {"sent", "failed"}

\* What a kernel task serves, and what waits in its channel, was sent, and is
\* nowhere else.
RequestsInOnePlace ==
  /\ \A k \in KTasks :
       /\ serving[k] # NoTask <=> kpc[k] \in {"execute", "reply"}
       /\ serving[k] # NoTask => request[serving[k]] \in Entered
       /\ \A i \in 1 .. Len(queue[k]) : request[queue[k][i]] \in Entered
  /\ \A k, l \in KTasks :
       /\ serving[k] # NoTask /\ serving[k] = serving[l] => k = l
       /\ \A i \in 1 .. Len(queue[k]) :
            /\ queue[k][i] # serving[l]
            /\ \A j \in 1 .. Len(queue[l]) : queue[k][i] = queue[l][j] => k = l /\ i = j

\* A Working agent that names its task has a kernel task that executes it.
WorkIsExecuted ==
  record # NoRecord /\ record.state.kind = "Working" /\ record.state.task # NoTask =>
    \E k \in KTasks : kpc[k] = "execute" /\ serving[k] = record.state.task

\* From the recovery's own spawn on, whatever the actors do.
ServedBeforeStopping ==
  /\ cpc[Recovery] \in {"insert", "idle"} /\ record # NoRecord
  /\ record.state.kind \in Active
  => unreported \/ \E k \in KTasks : Live(k) /\ kpc[k] # "stopping"

NothingBeforeRecovery ==
  cpc[Recovery] = "down" => record = NoRecord

NextIsUnborn ==
  \A k \in KTasks : k > born => kpc[k] = "unborn"

\* A transition leaves Registered for good, and only transitions are saved.
SavedNotRegistered ==
  \A x \in Actors : saving[x] # NoRecord => saving[x].state.kind # "Registered"

RuntimeIInv ==
  /\ TypeOK /\ RequestsInOnePlace /\ WorkIsExecuted /\ ServedBeforeStopping
  /\ NothingBeforeRecovery /\ NextIsUnborn /\ SavedNotRegistered

(***************************************************************************)
(* The state machine                                                       *)
(***************************************************************************)
LEMMA EdgeFacts ==
  \A a, n, b : <<a, n, b>> \in Edges =>
    /\ a \in Kinds /\ b \in Kinds /\ b # "Registered"
    /\ b = "Working" => n = "BeginTask"
    /\ n = "Start" => b = "Initializing"
    /\ n \in {"Pause", "Resume"} => a \in Active
    /\ n = "CompleteTask" => b = "Idle"
    /\ n = "Shutdown" => b = "ShuttingDown"
    /\ n = "Stopped" => b = "Stopped"
    /\ n = "Error" => b = "Error"
BY DEF Edges, Kinds, Active

\* What is never refused: the end of a task, and a shutdown of an active agent.
LEMMA Accepted ==
  ASSUME NEW s
  PROVE  /\ s.kind = "Working" => ~Refused(s, Trigger("CompleteTask"))
         /\ s.kind \in Active => ~Refused(s, Trigger("Shutdown"))
BY DEF Refused, Trigger, Edges, ValidPairs, Kinds, Active

LEMMA Transitions ==
  /\ \A n \in Triggers \ {"BeginTask"} :
       Trigger(n) \in StateTransition /\ Trigger(n).name = n
  /\ \A t \in TaskIds :
       /\ BeginTask(t) \in StateTransition /\ BeginTask(t).task = t
       /\ BeginTask(t).name = "BeginTask"
BY DEF Trigger, BeginTask, StateTransition

LEMMA Constants ==
  /\ NoTask \notin TaskIds /\ NoRecord \notin AgentStateRecord /\ NoKTask \notin KTasks
  /\ KTasks \subseteq Nat /\ KTasks \cap (Callers \cup {Recovery}) = {}
  /\ Recovery \notin Callers
  /\ Actors = Callers \cup KTasks \cup {Recovery}
BY RuntimeAssumption, NoTaskAssumption DEF KTasks, Actors

\* What an accepted transition does.
LEMMA TakesFacts ==
  ASSUME TypeOK, NEW x \in Actors, NEW t \in StateTransition, Takes(x, t)
  PROVE  /\ record # NoRecord /\ record' \in AgentStateRecord /\ record' # NoRecord
         /\ <<record.state.kind, t.name, record'.state.kind>> \in Edges
         /\ record'.state.kind = "Working" => record'.state.task = t.task
         /\ saving' \in [Actors -> AgentStateRecord \cup {NoRecord}]
         /\ \A y \in Actors : saving'[y] = IF y = x THEN record' ELSE saving[y]
<1>1. record \in AgentStateRecord /\ record # NoRecord
  BY DEF Takes, TypeOK
<1>2. PICK n \in AgentState :
        NewState(record.state, t, n) /\ record' = Updated(record, t, n, 0)
  BY DEF Takes
<1>3. record'.state = n
  BY <1>2 DEF Updated
<1>4. record' \in AgentStateRecord
  <2>1. t.name = "BeginTask" => t.task \in TaskIds
    BY DEF StateTransition
  <2>2. record.current \in TaskIds \cup {NoTask} /\ record.total \in Nat
    BY <1>1 DEF AgentStateRecord
  <2> QED BY <1>2, <2>1, <2>2 DEF Updated, AgentStateRecord
<1>5. record' # NoRecord
  BY <1>4, Constants
<1>6. /\ saving' \in [Actors -> AgentStateRecord \cup {NoRecord}]
      /\ \A y \in Actors : saving'[y] = IF y = x THEN record' ELSE saving[y]
  BY <1>4 DEF Takes, TypeOK
<1> QED BY <1>1, <1>2, <1>3, <1>4, <1>5, <1>6 DEF NewState

\* A report is taken, or changes nothing but may be the refused one.
LEMMA ReportFacts ==
  ASSUME NEW x \in Actors, NEW t \in StateTransition, Report(x, t)
  PROVE  \/ Takes(x, t) /\ unreported' = unreported
         \/ /\ record' = record /\ saving' = saving
            /\ record # NoRecord => Refused(record.state, t)
            /\ unreported' = (unreported \/ t.name = "Error")
BY DEF Report, CannotTake

(***************************************************************************)
(* Types                                                                   *)
(***************************************************************************)
\* What every step does to the record and to the clones still to be saved.
RecordStep ==
  /\ record' \in AgentStateRecord \cup {NoRecord}
  /\ saving' \in [Actors -> AgentStateRecord \cup {NoRecord}]
  /\ SavedNotRegistered'

LEMMA TakesKeeps ==
  ASSUME TypeOK, SavedNotRegistered, NEW x \in Actors, NEW t \in StateTransition, Takes(x, t)
  PROVE  RecordStep
<1>1. /\ record' \in AgentStateRecord
      /\ <<record.state.kind, t.name, record'.state.kind>> \in Edges
      /\ saving' \in [Actors -> AgentStateRecord \cup {NoRecord}]
      /\ \A y \in Actors : saving'[y] = IF y = x THEN record' ELSE saving[y]
  BY TakesFacts
<1>2. record'.state.kind # "Registered"
  BY <1>1, EdgeFacts
<1> QED BY <1>1, <1>2 DEF RecordStep, SavedNotRegistered

LEMMA ReportKeeps ==
  ASSUME TypeOK, SavedNotRegistered, NEW x \in Actors, NEW t \in StateTransition, Report(x, t)
  PROVE  RecordStep /\ unreported' \in BOOLEAN
<1>1. CASE Takes(x, t) /\ unreported' = unreported
  BY <1>1, TakesKeeps DEF TypeOK
<1>2. CASE record' = record /\ saving' = saving /\ unreported' = (unreported \/ t.name = "Error")
  <2>1. RecordStep
    BY <1>2 DEF RecordStep, TypeOK, SavedNotRegistered
  <2>2. unreported' \in BOOLEAN
    BY <1>2
  <2> QED BY <2>1, <2>2
<1> QED BY <1>1, <1>2, ReportFacts

\* An exit empties the channel.
LEMMA ExitTypes ==
  ASSUME TypeOK, NEW k \in KTasks, KExits(k)
  PROVE  /\ kpc' \in [KTasks -> KPCs] /\ queue' \in [KTasks -> Seq(TaskIds)]
         /\ request' \in [TaskIds -> Outcomes]
<1>1. kpc' \in [KTasks -> KPCs]
  BY DEF KExits, KMoves, TypeOK, KPCs
<1>2. queue' \in [KTasks -> Seq(TaskIds)]
  BY DEF KExits, TypeOK
<1>3. request' \in [TaskIds -> Outcomes]
  BY DEF KExits, Closed, TypeOK, Outcomes
<1> QED BY <1>1, <1>2, <1>3

LEMMA KTyping ==
  ASSUME TypeOK, SavedNotRegistered, RequestsInOnePlace, NEW k \in KTasks, KStep(k)
  PROVE  TypeOK' /\ SavedNotRegistered'
<1>1. k \in Actors
  BY Constants
<1>2. \A l \in KPCs : KMoves(k, l) => kpc' \in [KTasks -> KPCs]
  BY DEF KMoves, TypeOK
<1>3. queue[k] # <<>> =>
        /\ Head(queue[k]) \in TaskIds
        /\ [queue EXCEPT ![k] = Tail(@)] \in [KTasks -> Seq(TaskIds)]
  <2>1. queue[k] \in Seq(TaskIds)
    BY DEF TypeOK
  <2> QED BY <2>1, HeadTailProperties DEF TypeOK
<1>4. /\ RecordStep /\ kpc' \in [KTasks -> KPCs] /\ queue' \in [KTasks -> Seq(TaskIds)]
      /\ serving' \in [KTasks -> TaskIds \cup {NoTask}] /\ request' \in [TaskIds -> Outcomes]
      /\ unreported' \in BOOLEAN /\ UNCHANGED <<row, handle, born, cpc, mine>>
  <2> DEFINE Goal == /\ RecordStep /\ kpc' \in [KTasks -> KPCs]
                     /\ queue' \in [KTasks -> Seq(TaskIds)]
                     /\ serving' \in [KTasks -> TaskIds \cup {NoTask}]
                     /\ request' \in [TaskIds -> Outcomes]
                     /\ unreported' \in BOOLEAN /\ UNCHANGED <<row, handle, born, cpc, mine>>
  <2>1. UNCHANGED <<record, saving>> => RecordStep
    BY DEF RecordStep, TypeOK, SavedNotRegistered
  <2>2. CASE KStart(k) \/ KInitialized(k) \/ KCompletes(k) \/ KCloses(k)
    <3>1. \E n \in Triggers \ {"BeginTask"} : Report(k, Trigger(n))
      BY <2>2 DEF KStart, KInitialized, KCompletes, KCloses, Triggers
    <3>2. RecordStep /\ unreported' \in BOOLEAN
      BY <1>1, <3>1, ReportKeeps, Transitions
    <3>3. \E l \in KPCs : KMoves(k, l)
      BY <2>2 DEF KStart, KInitialized, KCompletes, KCloses, KPCs
    <3>4. UNCHANGED <<queue, serving, request, row, handle, born, cpc, mine>>
      BY <2>2 DEF KStart, KInitialized, KCompletes, KCloses, KUnchanged
    <3> QED BY <1>2, <3>2, <3>3, <3>4 DEF TypeOK
  <2>3. CASE KInitFails(k) \/ KStops(k)
    <3>1. \E n \in Triggers \ {"BeginTask"} : Report(k, Trigger(n))
      BY <2>3 DEF KInitFails, KStops, Triggers
    <3>2. RecordStep /\ unreported' \in BOOLEAN
      BY <1>1, <3>1, ReportKeeps, Transitions
    <3>3. KExits(k) /\ UNCHANGED <<serving, row, handle, born, cpc, mine>>
      BY <2>3 DEF KInitFails, KStops, KUnchanged
    <3> QED BY <3>2, <3>3, ExitTypes DEF TypeOK
  <2>4. CASE KChecks(k) \/ KTimesOut(k)
    <3>1. \E l \in KPCs : KMoves(k, l)
      BY <2>4 DEF KChecks, KTimesOut, KPCs
    <3>2. UNCHANGED <<record, saving, unreported, queue, serving, request, row, handle,
                      born, cpc, mine>>
      BY <2>4 DEF KChecks, KTimesOut, KUnchanged
    <3> QED BY <1>2, <2>1, <3>1, <3>2 DEF TypeOK
  <2>5. CASE KDenies(k)
    <3>1. /\ KMoves(k, "loop") /\ queue' \in [KTasks -> Seq(TaskIds)]
          /\ UNCHANGED <<record, saving, unreported, serving, row, handle, born, cpc, mine>>
      BY <1>3, <2>5 DEF KDenies, KUnchanged
    <3>2. request' \in [TaskIds -> Outcomes]
      BY <2>5 DEF KDenies, TypeOK, Outcomes
    <3> QED BY <1>2, <2>1, <3>1, <3>2 DEF TypeOK, KPCs
  <2>6. CASE KBegins(k)
    <3>1. /\ queue[k] # <<>> /\ Report(k, BeginTask(Head(queue[k]))) /\ KMoves(k, "execute")
          /\ queue' \in [KTasks -> Seq(TaskIds)]
          /\ UNCHANGED <<request, row, handle, born, cpc, mine>>
      BY <1>3, <2>6 DEF KBegins, KUnchanged
    <3>2. RecordStep /\ unreported' \in BOOLEAN
      BY <1>1, <1>3, <3>1, ReportKeeps, Transitions
    <3>3. serving' \in [KTasks -> TaskIds \cup {NoTask}]
      BY <1>3, <2>6 DEF KBegins, TypeOK
    <3> QED BY <1>2, <3>1, <3>2, <3>3 DEF TypeOK, KPCs
  <2>7. CASE KReplies(k)
    <3>1. /\ KMoves(k, "loop")
          /\ UNCHANGED <<record, saving, unreported, queue, row, handle, born, cpc, mine>>
      BY <2>7 DEF KReplies, KUnchanged
    <3>2. request' \in [TaskIds -> Outcomes] /\ serving' \in [KTasks -> TaskIds \cup {NoTask}]
      BY <2>7 DEF KReplies, TypeOK, Outcomes
    <3> QED BY <1>2, <2>1, <3>1, <3>2 DEF TypeOK, KPCs
  <2> QED BY <2>2, <2>3, <2>4, <2>5, <2>6, <2>7 DEF KStep
<1> QED BY <1>4 DEF TypeOK, RecordStep

\* Where the callers are, and what they hold.
LEMMA CallerTyping ==
  ASSUME TypeOK, SavedNotRegistered, NEW c \in Callers, CallerStep(c)
  PROVE  TypeOK' /\ SavedNotRegistered'
<1>1. c \in Actors /\ c \in Callers \cup {Recovery}
  BY Constants
<1>2. \A l \in CPCs : Goes(c, l) => cpc' \in [Callers \cup {Recovery} -> CPCs]
  BY DEF Goes, TypeOK
<1>3. UNCHANGED <<record, saving>> => RecordStep
  BY DEF RecordStep, TypeOK, SavedNotRegistered
<1> DEFINE Rest == UNCHANGED <<queue, serving, unreported, request>>
<1>4. CASE \/ SpawnChecks(c) \/ SpawnLooksUp(c) \/ SpawnRechecks(c) \/ SpawnRefused(c)
  <2>1. \E l \in CPCs : Goes(c, l)
    BY <1>4 DEF SpawnChecks, SpawnLooksUp, SpawnRechecks, SpawnRefused, CPCs
  <2>2. Rest /\ UNCHANGED <<record, row, saving, handle, born, kpc, mine>>
    BY <1>4 DEF SpawnChecks, SpawnLooksUp, SpawnRechecks, SpawnRefused, CUnchanged, Elsewhere
  <2> QED BY <1>2, <1>3, <2>1, <2>2 DEF TypeOK, RecordStep
<1>5. CASE SpawnUnregisters(c) \/ SpawnDeletesRow(c) \/ SpawnRegisters(c)
  <2>1. \E l \in CPCs : Goes(c, l)
    BY <1>5 DEF SpawnUnregisters, SpawnDeletesRow, SpawnRegisters, CPCs
  <2>2. Rest /\ UNCHANGED <<saving, handle, born, kpc, mine>>
    BY <1>5 DEF SpawnUnregisters, SpawnDeletesRow, SpawnRegisters, CUnchanged
  <2>3. FreshRecord(0) \in AgentStateRecord
    BY DEF FreshRecord, AgentStateRecord, AgentState, Plain, Kinds
  <2>4. record' \in {record, NoRecord, FreshRecord(0)} /\ row' \in {row, NoRecord}
    BY <1>5 DEF SpawnUnregisters, SpawnDeletesRow, SpawnRegisters
  <2> QED BY <1>2, <2>1, <2>2, <2>3, <2>4 DEF TypeOK, SavedNotRegistered
<1>6. CASE SpawnInKernel(c)
  <2>1. SpawnsKTask(c)
    BY <1>6 DEF SpawnInKernel
  <2>2. born + 1 \in KTasks /\ born + 1 \in 0 .. MaxKTasks
    BY <2>1, RuntimeAssumption DEF SpawnsKTask, KTasks, TypeOK
  <2>3. Rest /\ Goes(c, "insert") /\ UNCHANGED <<record, row, saving, handle>>
    BY <2>1 DEF SpawnsKTask, CUnchanged
  <2>4. /\ born' \in 0 .. MaxKTasks /\ kpc' \in [KTasks -> KPCs]
        /\ mine' \in [Callers \cup {Recovery} -> KTasks \cup {NoKTask}]
    BY <1>1, <2>1, <2>2 DEF SpawnsKTask, TypeOK, KPCs
  <2> QED BY <1>2, <1>3, <2>3, <2>4 DEF TypeOK, RecordStep, CPCs
<1>7. CASE SpawnInserts(c) \/ StopRemovesHandle(c)
  <2>1. Rest /\ Goes(c, "idle") /\ UNCHANGED <<record, row, saving, born, kpc>>
    BY <1>7 DEF SpawnInserts, Inserts, StopRemovesHandle, CUnchanged
  <2>2. /\ handle' \in KTasks \cup {NoKTask}
        /\ mine' \in [Callers \cup {Recovery} -> KTasks \cup {NoKTask}]
    BY <1>1, <1>7 DEF SpawnInserts, Inserts, StopRemovesHandle, TypeOK
  <2> QED BY <1>2, <1>3, <2>1, <2>2 DEF TypeOK, RecordStep, CPCs
<1>8. CASE Stop(c) \/ SendCommand(c)
  <2>1. \E n \in Triggers \ {"BeginTask"}, l \in CPCs : CallerTakes(c, Trigger(n), l)
    BY <1>8 DEF Stop, SendCommand, convert_command, Triggers, CPCs
  <2>2. RecordStep
    BY <1>1, <2>1, TakesKeeps, Transitions DEF CallerTakes
  <2>3. /\ \E l \in CPCs : Goes(c, l)
        /\ Rest /\ UNCHANGED <<row, handle, born, kpc, mine>>
    BY <2>1 DEF CallerTakes, CUnchanged
  <2> QED BY <1>2, <2>2, <2>3 DEF TypeOK, RecordStep
<1> QED BY <1>4, <1>5, <1>6, <1>7, <1>8 DEF CallerStep

LEMMA SavingTyping ==
  ASSUME TypeOK, SavedNotRegistered, NEW x \in Actors, Save(x) \/ SaveFails(x)
  PROVE  TypeOK' /\ SavedNotRegistered'
<1>1. /\ saving' = [saving EXCEPT ![x] = NoRecord]
      /\ UNCHANGED <<record, handle, born, kpc, queue, serving, mine, request, unreported>>
  BY DEF Save, SaveFails
<1>2. saving[x] # NoRecord /\ row' \in {row, saving[x]}
  BY DEF Save, SaveFails, Free
<1>3. row' \in AgentStateRecord \cup {NoRecord} /\ (row' # NoRecord => row'.state.kind # "Registered")
  BY <1>2 DEF TypeOK, SavedNotRegistered
<1>4. cpc' \in [Callers \cup {Recovery} -> CPCs]
  BY DEF Save, SaveFails, TypeOK, CPCs
<1>5. saving' \in [Actors -> AgentStateRecord \cup {NoRecord}] /\ SavedNotRegistered'
  BY <1>1 DEF TypeOK, SavedNotRegistered
<1> QED BY <1>1, <1>3, <1>4, <1>5 DEF TypeOK

LEMMA ClientTyping ==
  ASSUME TypeOK, SavedNotRegistered, NEW r \in TaskIds, ExecuteTask(r) \/ ClientTimesOut(r)
  PROVE  TypeOK' /\ SavedNotRegistered'
<1>1. UNCHANGED <<record, row, saving, handle, born, kpc, serving, cpc, mine, unreported>>
  BY DEF ExecuteTask, ClientTimesOut
<1>2. request' \in [TaskIds -> Outcomes]
  BY DEF ExecuteTask, ClientTimesOut, TypeOK, Outcomes
<1>3. queue' \in [KTasks -> Seq(TaskIds)]
  <2>1. CASE ExecuteTask(r)
    <3>1. handle \in KTasks /\ queue[handle] \in Seq(TaskIds)
      BY <2>1 DEF ExecuteTask, TypeOK
    <3>2. Append(queue[handle], r) \in Seq(TaskIds)
      BY <3>1, AppendProperties
    <3> QED BY <2>1, <3>1, <3>2 DEF ExecuteTask, TypeOK
  <2>2. CASE ClientTimesOut(r)
    BY <2>2 DEF ClientTimesOut, TypeOK
  <2> QED BY <2>1, <2>2
<1> QED BY <1>1, <1>2, <1>3 DEF TypeOK, SavedNotRegistered

LEMMA RecoveryTyping ==
  ASSUME TypeOK, SavedNotRegistered, RecoveryStep
  PROVE  TypeOK' /\ SavedNotRegistered'
<1> DEFINE c == Recovery
<1>1. c \in Actors /\ c \in Callers \cup {Recovery}
  BY Constants
<1>2. \A l \in CPCs : Goes(c, l) => cpc' \in [Callers \cup {Recovery} -> CPCs]
  BY DEF Goes, TypeOK
<1> HIDE DEF c
<1> DEFINE Rest == UNCHANGED <<row, queue, serving, request>>
<1>3. CASE RecoveryLoads \/ RecoveryLoadFails
  <2>1. \E l \in CPCs : Goes(c, l)
    BY <1>3 DEF RecoveryLoads, RecoveryLoadFails, CPCs, c
  <2>2. Rest /\ UNCHANGED <<saving, handle, born, kpc, mine, unreported>>
    BY <1>3 DEF RecoveryLoads, RecoveryLoadFails, CUnchanged, Elsewhere
  <2>3. row # NoRecord => Reloaded(row) \in AgentStateRecord
    BY DEF Reloaded, TypeOK, AgentStateRecord, AgentState, Plain
  <2>4. record' \in AgentStateRecord \cup {NoRecord}
    BY <1>3, <2>3 DEF RecoveryLoads, RecoveryLoadFails, Elsewhere, TypeOK
  <2> QED BY <1>2, <2>1, <2>2, <2>4 DEF TypeOK, SavedNotRegistered
<1>4. CASE RecoverySpawns
  <2>1. SpawnsKTask(c)
    BY <1>4 DEF RecoverySpawns, c
  <2>2. born + 1 \in KTasks /\ born + 1 \in 0 .. MaxKTasks
    BY <2>1, RuntimeAssumption DEF SpawnsKTask, KTasks, TypeOK
  <2>3. Rest /\ Goes(c, "insert") /\ UNCHANGED <<record, saving, handle, unreported>>
    BY <2>1 DEF SpawnsKTask, CUnchanged
  <2>4. /\ born' \in 0 .. MaxKTasks /\ kpc' \in [KTasks -> KPCs]
        /\ mine' \in [Callers \cup {Recovery} -> KTasks \cup {NoKTask}]
    BY <1>1, <2>1, <2>2 DEF SpawnsKTask, TypeOK, KPCs
  <2> QED BY <1>2, <2>3, <2>4 DEF TypeOK, SavedNotRegistered, CPCs
<1>5. CASE RecoveryRefused
  <2>1. /\ Report(c, Trigger("Error")) /\ Goes(c, "idle")
        /\ Rest /\ UNCHANGED <<handle, born, kpc, mine>>
    BY <1>5 DEF RecoveryRefused, c
  <2>2. RecordStep /\ unreported' \in BOOLEAN
    BY <1>1, <2>1, ReportKeeps, Transitions DEF Triggers
  <2> QED BY <1>2, <2>1, <2>2 DEF TypeOK, RecordStep, CPCs
<1>6. CASE RecoveryInserts
  <2>1. Rest /\ Goes(c, "idle") /\ UNCHANGED <<record, saving, born, kpc, unreported>>
    BY <1>6 DEF RecoveryInserts, Inserts, CUnchanged, c
  <2>2. /\ handle' \in KTasks \cup {NoKTask}
        /\ mine' \in [Callers \cup {Recovery} -> KTasks \cup {NoKTask}]
    BY <1>1, <1>6 DEF RecoveryInserts, Inserts, TypeOK, c
  <2> QED BY <1>2, <2>1, <2>2 DEF TypeOK, SavedNotRegistered, CPCs
<1> QED BY <1>3, <1>4, <1>5, <1>6 DEF RecoveryStep

LEMMA CrashTyping ==
  ASSUME TypeOK, Crash
  PROVE  TypeOK' /\ SavedNotRegistered'
<1>1. /\ record' = NoRecord /\ handle' = NoKTask /\ unreported' = FALSE
      /\ row' = row /\ born' = born
      /\ saving' = [x \in Actors |-> NoRecord]
  BY DEF Crash
<1>2. kpc' \in [KTasks -> KPCs] /\ cpc' \in [Callers \cup {Recovery} -> CPCs]
  BY DEF Crash, TypeOK, KPCs, CPCs
<1>3. /\ queue' \in [KTasks -> Seq(TaskIds)] /\ serving' \in [KTasks -> TaskIds \cup {NoTask}]
      /\ mine' \in [Callers \cup {Recovery} -> KTasks \cup {NoKTask}]
  BY DEF Crash
<1>4. request' \in [TaskIds -> Outcomes]
  BY DEF Crash, TypeOK, Outcomes
<1> QED BY <1>1, <1>2, <1>3, <1>4 DEF TypeOK, SavedNotRegistered

(***************************************************************************)
(* Where requests are                                                      *)
(***************************************************************************)
LEMMA Channels ==
  ASSUME TypeOK, NEW k \in KTasks
  PROVE  /\ queue[k] \in Seq(TaskIds) /\ Len(queue[k]) \in Nat
         /\ \A i \in 1 .. Len(queue[k]) : queue[k][i] \in TaskIds
         /\ serving[k] # NoTask => serving[k] \in TaskIds
         /\ queue[k] # <<>> => /\ Head(queue[k]) = queue[k][1] /\ Len(queue[k]) >= 1
                               /\ Tail(queue[k]) \in Seq(TaskIds)
                               /\ Len(Tail(queue[k])) = Len(queue[k]) - 1
                               /\ \A i \in 1 .. Len(queue[k]) - 1 :
                                    Tail(queue[k])[i] = queue[k][i + 1]
<1>1. queue[k] \in Seq(TaskIds) /\ serving[k] \in TaskIds \cup {NoTask}
  BY DEF TypeOK
<1>2. Len(queue[k]) \in Nat /\ \A i \in 1 .. Len(queue[k]) : queue[k][i] \in TaskIds
  BY <1>1, LenProperties, ElementOfSeq
<1>3. queue[k] # <<>> => /\ Head(queue[k]) = queue[k][1] /\ Len(queue[k]) >= 1
                         /\ Tail(queue[k]) \in Seq(TaskIds)
                         /\ Len(Tail(queue[k])) = Len(queue[k]) - 1
                         /\ \A i \in 1 .. Len(queue[k]) - 1 :
                              Tail(queue[k])[i] = queue[k][i + 1]
  <2>1. SUFFICES ASSUME queue[k] # <<>>
                 PROVE  /\ Head(queue[k]) = queue[k][1] /\ Len(queue[k]) >= 1
                        /\ Tail(queue[k]) \in Seq(TaskIds)
                        /\ Len(Tail(queue[k])) = Len(queue[k]) - 1
                        /\ \A i \in 1 .. Len(queue[k]) - 1 :
                             Tail(queue[k])[i] = queue[k][i + 1]
    OBVIOUS
  <2>2. Len(queue[k]) >= 1
    BY <1>1, <1>2, <2>1, EmptySeq
  <2>3. Head(queue[k]) = queue[k][1]
    BY <1>1, <2>1
  <2>4. /\ Tail(queue[k]) \in Seq(TaskIds) /\ Len(Tail(queue[k])) = Len(queue[k]) - 1
        /\ \A i \in 1 .. Len(Tail(queue[k])) : Tail(queue[k])[i] = queue[k][i + 1]
    BY <1>1, <2>1, HeadTailProperties
  <2> QED BY <2>2, <2>3, <2>4
<1> QED BY <1>1, <1>2, <1>3

\* Nothing new at k: its channel lost its first n requests, its task may have
\* been left, and the request that is no longer open is not there.
Shrinks(k, n, gone) ==
  /\ Len(queue'[k]) \in Nat /\ Len(queue'[k]) + n <= Len(queue[k])
  /\ \A i \in 1 .. Len(queue'[k]) :
       queue'[k][i] = queue[k][i + n] /\ queue'[k][i] # gone
  /\ serving'[k] \in {serving[k], NoTask}
  /\ serving'[k] # NoTask => serving'[k] # gone
  /\ serving'[k] # NoTask <=> kpc'[k] \in {"execute", "reply"}

OpenBut(gone) ==
  \A r \in TaskIds : request[r] \in Entered /\ r # gone => request'[r] \in Entered

LEMMA PlacesShrink ==
  ASSUME TypeOK, RequestsInOnePlace, NEW d \in [KTasks -> Nat], NEW gone,
         \A k \in KTasks : Shrinks(k, d[k], gone), OpenBut(gone)
  PROVE  RequestsInOnePlace'
<1> USE DEF Shrinks, OpenBut
<1>1. ASSUME NEW k \in KTasks, NEW i \in 1 .. Len(queue'[k])
      PROVE  i + d[k] \in 1 .. Len(queue[k]) /\ queue'[k][i] = queue[k][i + d[k]]
  BY Channels
<1>2. \A k \in KTasks :
        /\ serving'[k] # NoTask => request'[serving'[k]] \in Entered
        /\ \A i \in 1 .. Len(queue'[k]) : request'[queue'[k][i]] \in Entered
  <2>1. ASSUME NEW k \in KTasks, serving'[k] # NoTask
        PROVE  request'[serving'[k]] \in Entered
    BY <2>1, Channels DEF RequestsInOnePlace
  <2>2. ASSUME NEW k \in KTasks, NEW i \in 1 .. Len(queue'[k])
        PROVE  request'[queue'[k][i]] \in Entered
    <3>1. request[queue[k][i + d[k]]] \in Entered /\ queue[k][i + d[k]] \in TaskIds
      BY <1>1, Channels DEF RequestsInOnePlace
    <3> QED BY <1>1, <3>1
  <2> QED BY <2>1, <2>2
<1>3. ASSUME NEW k \in KTasks, NEW l \in KTasks
      PROVE  /\ serving'[k] # NoTask /\ serving'[k] = serving'[l] => k = l
             /\ \A i \in 1 .. Len(queue'[k]) :
                  /\ queue'[k][i] # serving'[l]
                  /\ \A j \in 1 .. Len(queue'[l]) :
                       queue'[k][i] = queue'[l][j] => k = l /\ i = j
  <2>1. serving'[k] # NoTask /\ serving'[k] = serving'[l] => k = l
    BY DEF RequestsInOnePlace
  <2>2. ASSUME NEW i \in 1 .. Len(queue'[k])
        PROVE  queue'[k][i] # serving'[l]
    <3>1. /\ i + d[k] \in 1 .. Len(queue[k]) /\ queue'[k][i] = queue[k][i + d[k]]
          /\ queue'[k][i] \in TaskIds
      BY <1>1, Channels
    <3>2. queue'[k][i] # serving[l]
      BY <3>1 DEF RequestsInOnePlace
    <3> QED BY <3>1, <3>2, Constants
  <2>3. ASSUME NEW i \in 1 .. Len(queue'[k]), NEW j \in 1 .. Len(queue'[l]),
               queue'[k][i] = queue'[l][j]
        PROVE  k = l /\ i = j
    <3>1. /\ i + d[k] \in 1 .. Len(queue[k]) /\ j + d[l] \in 1 .. Len(queue[l])
          /\ queue[k][i + d[k]] = queue[l][j + d[l]]
      BY <1>1, <2>3
    <3>2. k = l /\ i + d[k] = j + d[l]
      BY <3>1 DEF RequestsInOnePlace
    <3>3. d[k] \in Nat /\ Len(queue'[k]) \in Nat /\ Len(queue'[l]) \in Nat
      OBVIOUS
    <3> QED BY <3>2, <3>3
  <2> QED BY <2>1, <2>2, <2>3
<1> QED BY <1>2, <1>3 DEF RequestsInOnePlace

\* The channels are left alone.
LEMMA PlacesKept ==
  ASSUME TypeOK, RequestsInOnePlace, UNCHANGED queue, NEW gone, OpenBut(gone),
         \A k \in KTasks :
           /\ \A i \in 1 .. Len(queue[k]) : queue[k][i] # gone
           /\ serving'[k] \in {serving[k], NoTask}
           /\ serving'[k] # NoTask => serving'[k] # gone
           /\ serving'[k] # NoTask <=> kpc'[k] \in {"execute", "reply"}
  PROVE  RequestsInOnePlace'
<1> DEFINE d == [k \in KTasks |-> 0]
<1>1. d \in [KTasks -> Nat] /\ \A k \in KTasks : d[k] = 0
  OBVIOUS
<1> HIDE DEF d
<1>2. ASSUME NEW k \in KTasks
      PROVE  Shrinks(k, d[k], gone)
  BY <1>1, Channels DEF Shrinks
<1> QED BY <1>1, <1>2, PlacesShrink

\* Emptied channels and a closed result channel; nothing else changes.
LEMMA ExitPlaces ==
  ASSUME TypeOK, RequestsInOnePlace, NEW k \in KTasks, KExits(k), UNCHANGED serving,
         kpc[k] \notin {"execute", "reply"}
  PROVE  RequestsInOnePlace'
<1> DEFINE d == [l \in KTasks |-> 0]
<1>1. d \in [KTasks -> Nat] /\ \A l \in KTasks : d[l] = 0
  OBVIOUS
<1> HIDE DEF d
<1>2. \A l \in KTasks : queue'[l] = IF l = k THEN <<>> ELSE queue[l]
  BY DEF KExits, TypeOK
<1>3. \A l \in KTasks : kpc'[l] = IF l = k THEN "exited" ELSE kpc[l]
  BY DEF KExits, KMoves, TypeOK
<1>4. \A r \in TaskIds : request[r] \in Entered => request'[r] \in Entered
  BY DEF KExits, Closed, Entered
<1>5. ASSUME NEW l \in KTasks
      PROVE  Shrinks(l, d[l], NoTask)
  <2>1. serving'[l] # NoTask <=> kpc'[l] \in {"execute", "reply"}
    BY <1>3 DEF RequestsInOnePlace
  <2>2. Len(<<>>) = 0
    OBVIOUS
  <2>3. /\ Len(queue'[l]) \in Nat /\ Len(queue'[l]) + d[l] <= Len(queue[l])
        /\ \A i \in 1 .. Len(queue'[l]) :
             queue'[l][i] = queue[l][i + d[l]] /\ queue'[l][i] # NoTask
    <3>1. Len(queue[l]) \in Nat /\ \A i \in 1 .. Len(queue[l]) : queue[l][i] # NoTask
      BY Channels, Constants
    <3>2. CASE l = k
      BY <1>1, <1>2, <2>2, <3>1, <3>2
    <3>3. CASE l # k
      BY <1>1, <1>2, <3>1, <3>3
    <3> QED BY <3>2, <3>3
  <2> QED BY <2>1, <2>3 DEF Shrinks
<1>6. OpenBut(NoTask)
  BY <1>4 DEF OpenBut
<1> QED BY <1>1, <1>5, <1>6, PlacesShrink

LEMMA TailShift ==
  ASSUME TypeOK, NEW k \in KTasks, queue[k] # <<>>
  PROVE  /\ Len(Tail(queue[k])) \in Nat /\ Len(Tail(queue[k])) + 1 = Len(queue[k])
         /\ \A i \in 1 .. Len(Tail(queue[k])) :
              i + 1 \in 1 .. Len(queue[k]) /\ Tail(queue[k])[i] = queue[k][i + 1]
<1>1. /\ Len(queue[k]) \in Nat /\ Len(queue[k]) >= 1
      /\ Len(Tail(queue[k])) = Len(queue[k]) - 1
      /\ \A i \in 1 .. Len(queue[k]) - 1 : Tail(queue[k])[i] = queue[k][i + 1]
  BY Channels
<1> QED BY <1>1

\* No request waits twice.
LEMMA NoTwins ==
  ASSUME RequestsInOnePlace, NEW k \in KTasks, NEW l \in KTasks,
         NEW i \in 1 .. Len(queue[k]), NEW j \in 1 .. Len(queue[l]), queue[k][i] = queue[l][j]
  PROVE  k = l /\ i = j
BY DEF RequestsInOnePlace

LEMMA KPlaces ==
  ASSUME TypeOK, RequestsInOnePlace, NEW k \in KTasks, KStep(k)
  PROVE  RequestsInOnePlace'
<1>1. \A l : KMoves(k, l) => \A m \in KTasks : kpc'[m] = IF m = k THEN l ELSE kpc[m]
  BY DEF KMoves, TypeOK
<1>2. \A m \in KTasks : \A i \in 1 .. Len(queue[m]) : queue[m][i] \in TaskIds /\ queue[m][i] # NoTask
  BY Channels, Constants
<1>3. \A m \in KTasks : serving[m] # NoTask <=> kpc[m] \in {"execute", "reply"}
  BY DEF RequestsInOnePlace
<1>4. CASE KStart(k) \/ KInitialized(k) \/ KChecks(k) \/ KTimesOut(k) \/ KCompletes(k) \/ KCloses(k)
  <2>1. UNCHANGED <<queue, serving, request>>
    BY <1>4 DEF KStart, KInitialized, KChecks, KTimesOut, KCompletes, KCloses
  <2>2. PICK l : KMoves(k, l) /\ (l \in {"execute", "reply"} <=> kpc[k] \in {"execute", "reply"})
    BY <1>4 DEF KStart, KInitialized, KChecks, KTimesOut, KCompletes, KCloses, KAt
  <2>3. \A m \in KTasks : serving'[m] # NoTask <=> kpc'[m] \in {"execute", "reply"}
    BY <1>1, <1>3, <2>1, <2>2
  <2> QED BY <1>2, <2>1, <2>3, PlacesKept DEF OpenBut
<1>5. CASE KInitFails(k) \/ KStops(k)
  BY <1>5, ExitPlaces DEF KInitFails, KStops, KAt
<1>6. CASE KDenies(k)
  <2> DEFINE d == [m \in KTasks |-> IF m = k THEN 1 ELSE 0]
  <2>1. d \in [KTasks -> Nat] /\ \A m \in KTasks : d[m] = IF m = k THEN 1 ELSE 0
    OBVIOUS
  <2> HIDE DEF d
  <2>2. /\ queue[k] # <<>> /\ UNCHANGED serving
        /\ \A m \in KTasks : queue'[m] = IF m = k THEN Tail(queue[k]) ELSE queue[m]
    BY <1>6 DEF KDenies, TypeOK
  <2>3. ASSUME NEW m \in KTasks
        PROVE  Shrinks(m, d[m], NoTask)
    <3>1. serving'[m] # NoTask <=> kpc'[m] \in {"execute", "reply"}
      BY <1>1, <1>3, <1>6, <2>2 DEF KDenies, KAt
    <3>2. /\ Len(queue'[m]) \in Nat /\ Len(queue'[m]) + d[m] <= Len(queue[m])
          /\ \A i \in 1 .. Len(queue'[m]) :
               queue'[m][i] = queue[m][i + d[m]] /\ queue'[m][i] # NoTask
      <4>1. CASE m = k
        <5>1. queue'[k] = Tail(queue[k])
          BY <2>2
        <5>2. /\ Len(queue'[k]) \in Nat /\ Len(queue'[k]) + 1 <= Len(queue[k])
              /\ \A i \in 1 .. Len(queue'[k]) :
                   queue'[k][i] = queue[k][i + 1] /\ i + 1 \in 1 .. Len(queue[k])
          BY <2>2, <5>1, TailShift, LenProperties
        <5>3. d[m] = 1
          BY <2>1, <4>1
        <5> QED BY <1>2, <4>1, <5>2, <5>3
      <4>2. CASE m # k
        BY <1>2, <2>1, <2>2, <4>2, Channels
      <4> QED BY <4>1, <4>2
    <3> QED BY <2>2, <3>1, <3>2 DEF Shrinks
  <2>4. OpenBut(NoTask)
    BY <1>6 DEF OpenBut, KDenies, TypeOK, Entered
  <2> QED BY <2>1, <2>3, <2>4, PlacesShrink
<1>7. CASE KReplies(k)
  <2> DEFINE r == serving[k]
  <2>1. /\ kpc[k] = "reply" /\ KMoves(k, "loop") /\ UNCHANGED queue
        /\ serving' = [serving EXCEPT ![k] = NoTask]
        /\ \A t \in TaskIds \ {r} : request'[t] = request[t]
    BY <1>7 DEF KReplies, KAt, TypeOK
  <2>2. r # NoTask
    BY <1>3, <2>1
  <2>3. \A m \in KTasks : serving'[m] = IF m = k THEN NoTask ELSE serving[m]
    BY <2>1 DEF TypeOK
  <2>4. OpenBut(r)
    BY <2>1 DEF OpenBut
  <2>5. \A m \in KTasks : /\ \A i \in 1 .. Len(queue[m]) : queue[m][i] # r
                          /\ m # k => serving[m] # r
    BY <2>2 DEF RequestsInOnePlace
  <2>6. \A m \in KTasks : serving'[m] # NoTask <=> kpc'[m] \in {"execute", "reply"}
    BY <1>1, <1>3, <2>1, <2>3
  <2> HIDE DEF r
  <2> QED BY <2>1, <2>3, <2>4, <2>5, <2>6, PlacesKept
<1>8. CASE KBegins(k)
  <2> DEFINE h == Head(queue[k])
  <2>1. /\ kpc[k] = "receive" /\ queue[k] # <<>> /\ KMoves(k, "execute") /\ UNCHANGED request
        /\ \A m \in KTasks : queue'[m] = IF m = k THEN Tail(queue[k]) ELSE queue[m]
        /\ \A m \in KTasks : serving'[m] = IF m = k THEN h ELSE serving[m]
    BY <1>8 DEF KBegins, KAt, TypeOK
  <2>2. /\ h = queue[k][1] /\ 1 \in 1 .. Len(queue[k]) /\ serving[k] = NoTask
        /\ h \in TaskIds /\ h # NoTask
    BY <1>2, <1>3, <2>1, Channels
  <2> HIDE DEF h
  <2>3. ASSUME NEW m \in KTasks, NEW i \in 1 .. Len(queue'[m])
        PROVE  \E n \in 1 .. Len(queue[m]) :
                 queue'[m][i] = queue[m][n] /\ n = (IF m = k THEN i + 1 ELSE i)
    <3>1. CASE m = k
      <4>1. i + 1 \in 1 .. Len(queue[k]) /\ queue'[k][i] = queue[k][i + 1]
        BY <2>1, <3>1, TailShift
      <4> QED BY <3>1, <4>1
    <3>2. CASE m # k
      BY <2>1, <3>2
    <3> QED BY <3>1, <3>2
  <2>4. ASSUME NEW m \in KTasks, NEW i \in 1 .. Len(queue'[m])
        PROVE  queue'[m][i] # h
    <3>1. PICK n \in 1 .. Len(queue[m]) :
            queue'[m][i] = queue[m][n] /\ n = (IF m = k THEN i + 1 ELSE i)
      BY <2>3
    <3>2. queue[m][n] = queue[k][1] => m = k /\ n = 1
      BY <2>2 DEF RequestsInOnePlace
    <3>3. i \in Nat /\ i >= 1
      OBVIOUS
    <3> QED BY <2>2, <3>1, <3>2, <3>3
  <2>5. ASSUME NEW m \in KTasks
        PROVE  /\ serving'[m] # NoTask <=> kpc'[m] \in {"execute", "reply"}
               /\ serving'[m] # NoTask => request'[serving'[m]] \in Entered
               /\ \A i \in 1 .. Len(queue'[m]) : request'[queue'[m][i]] \in Entered
    <3>1. serving'[m] # NoTask <=> kpc'[m] \in {"execute", "reply"}
      BY <1>1, <1>3, <2>1, <2>2
    <3>2. request[h] \in Entered
      BY <2>2 DEF RequestsInOnePlace
    <3>3. serving'[m] # NoTask => request'[serving'[m]] \in Entered
      BY <2>1, <3>2 DEF RequestsInOnePlace
    <3>4. \A i \in 1 .. Len(queue'[m]) : request'[queue'[m][i]] \in Entered
      BY <2>1, <2>3 DEF RequestsInOnePlace
    <3> QED BY <3>1, <3>3, <3>4
  <2>6. ASSUME NEW m \in KTasks, NEW l \in KTasks
        PROVE  /\ serving'[m] # NoTask /\ serving'[m] = serving'[l] => m = l
               /\ \A i \in 1 .. Len(queue'[m]) :
                    /\ queue'[m][i] # serving'[l]
                    /\ \A j \in 1 .. Len(queue'[l]) :
                         queue'[m][i] = queue'[l][j] => m = l /\ i = j
    <3>1. \A n \in KTasks : serving[n] # h
      BY <2>2 DEF RequestsInOnePlace
    <3>2. serving'[m] # NoTask /\ serving'[m] = serving'[l] => m = l
      BY <2>1, <3>1 DEF RequestsInOnePlace
    <3>3. ASSUME NEW i \in 1 .. Len(queue'[m])
          PROVE  queue'[m][i] # serving'[l]
      BY <2>1, <2>3, <2>4 DEF RequestsInOnePlace
    <3>4. ASSUME NEW i \in 1 .. Len(queue'[m]), NEW j \in 1 .. Len(queue'[l]),
                 queue'[m][i] = queue'[l][j]
          PROVE  m = l /\ i = j
      <4>1. PICK n \in 1 .. Len(queue[m]) :
              queue'[m][i] = queue[m][n] /\ n = (IF m = k THEN i + 1 ELSE i)
        BY <2>3
      <4>2. PICK o \in 1 .. Len(queue[l]) :
              queue'[l][j] = queue[l][o] /\ o = (IF l = k THEN j + 1 ELSE j)
        BY <2>3
      <4>3. m = l /\ n = o
        <5>1. queue[m][n] = queue[l][o]
          BY <3>4, <4>1, <4>2
        <5> QED BY <5>1, NoTwins
      <4>4. i \in Nat /\ j \in Nat
        OBVIOUS
      <4> QED BY <4>1, <4>2, <4>3, <4>4
    <3> QED BY <3>2, <3>3, <3>4
  <2> QED BY <2>5, <2>6 DEF RequestsInOnePlace
<1> QED BY <1>4, <1>5, <1>6, <1>7, <1>8 DEF KStep

\* A new kernel task starts with nothing.
LEMMA SpawnPlaces ==
  ASSUME TypeOK, RequestsInOnePlace, NextIsUnborn, NEW c, SpawnsKTask(c)
  PROVE  RequestsInOnePlace' /\ NextIsUnborn'
<1>1. /\ born + 1 \in KTasks /\ born \in Nat /\ born' = born + 1
      /\ \A k \in KTasks : kpc'[k] = IF k = born + 1 THEN "start" ELSE kpc[k]
      /\ UNCHANGED <<queue, serving, request>>
  BY RuntimeAssumption DEF SpawnsKTask, CUnchanged, KTasks, TypeOK
<1>2. kpc[born + 1] = "unborn"
  BY <1>1 DEF NextIsUnborn
<1>3. \A k \in KTasks : serving'[k] # NoTask <=> kpc'[k] \in {"execute", "reply"}
  BY <1>1, <1>2 DEF RequestsInOnePlace
<1>4. \A k \in KTasks : \A i \in 1 .. Len(queue[k]) : queue[k][i] # NoTask
  BY Channels, Constants
<1>5. NextIsUnborn'
  BY <1>1, Constants DEF NextIsUnborn
<1> QED BY <1>1, <1>3, <1>4, <1>5, PlacesKept DEF OpenBut

LEMMA ClientPlaces ==
  ASSUME TypeOK, RequestsInOnePlace, NEW r \in TaskIds, ExecuteTask(r) \/ ClientTimesOut(r)
  PROVE  RequestsInOnePlace'
<1>1. UNCHANGED <<serving, kpc>>
  BY DEF ExecuteTask, ClientTimesOut
<1>2. \A k \in KTasks : \A i \in 1 .. Len(queue[k]) : queue[k][i] # NoTask /\ queue[k][i] \in TaskIds
  BY Channels, Constants
<1>3. CASE UNCHANGED queue
  <2>1. OpenBut(NoTask)
    BY DEF OpenBut, ExecuteTask, ClientTimesOut, Entered, TypeOK
  <2> QED BY <1>1, <1>2, <1>3, <2>1, PlacesKept DEF RequestsInOnePlace
<1>4. CASE /\ handle \in KTasks /\ queue' = [queue EXCEPT ![handle] = Append(@, r)]
           /\ request[r] = "new" /\ request' = [request EXCEPT ![r] = "sent"]
  <2> DEFINE n == Len(queue[handle])
  <2>1. /\ n \in Nat /\ Len(queue'[handle]) = n + 1 /\ queue'[handle][n + 1] = r
        /\ \A i \in 1 .. n : queue'[handle][i] = queue[handle][i]
    BY <1>4, Channels, AppendProperties DEF TypeOK
  <2>2. \A m \in KTasks \ {handle} : queue'[m] = queue[m]
    BY <1>4 DEF TypeOK
  <2>3. \A m \in KTasks : serving[m] # r /\ \A i \in 1 .. Len(queue[m]) : queue[m][i] # r
    BY <1>4, Constants DEF RequestsInOnePlace, Entered
  <2>4. request'[r] = "sent" /\ \A t \in TaskIds \ {r} : request'[t] = request[t]
    BY <1>4 DEF TypeOK
  <2>5. ASSUME NEW m \in KTasks, NEW i \in 1 .. Len(queue'[m])
        PROVE  \/ m = handle /\ i = n + 1 /\ queue'[m][i] = r
               \/ i \in 1 .. Len(queue[m]) /\ queue'[m][i] = queue[m][i]
    BY <2>1, <2>2
  <2>6. ASSUME NEW m \in KTasks
        PROVE  /\ serving'[m] # NoTask <=> kpc'[m] \in {"execute", "reply"}
               /\ serving'[m] # NoTask => request'[serving'[m]] \in Entered
               /\ \A i \in 1 .. Len(queue'[m]) : request'[queue'[m][i]] \in Entered
    <3>1. serving'[m] # NoTask => request'[serving'[m]] \in Entered
      BY <1>1, <2>3, <2>4, Channels DEF RequestsInOnePlace
    <3>2. ASSUME NEW i \in 1 .. Len(queue'[m])
          PROVE  request'[queue'[m][i]] \in Entered
      <4>1. CASE queue'[m][i] = r
        BY <2>4, <4>1 DEF Entered
      <4>2. CASE i \in 1 .. Len(queue[m]) /\ queue'[m][i] = queue[m][i]
        BY <1>2, <2>3, <2>4, <4>2 DEF RequestsInOnePlace
      <4> QED BY <2>5, <4>1, <4>2
    <3> QED BY <1>1, <3>1, <3>2 DEF RequestsInOnePlace
  <2>7. ASSUME NEW m \in KTasks, NEW l \in KTasks
        PROVE  /\ serving'[m] # NoTask /\ serving'[m] = serving'[l] => m = l
               /\ \A i \in 1 .. Len(queue'[m]) :
                    /\ queue'[m][i] # serving'[l]
                    /\ \A j \in 1 .. Len(queue'[l]) :
                         queue'[m][i] = queue'[l][j] => m = l /\ i = j
    <3>1. serving'[m] # NoTask /\ serving'[m] = serving'[l] => m = l
      BY <1>1 DEF RequestsInOnePlace
    <3>2. ASSUME NEW i \in 1 .. Len(queue'[m])
          PROVE  queue'[m][i] # serving'[l]
      BY <1>1, <2>3, <2>5 DEF RequestsInOnePlace
    <3>3. ASSUME NEW i \in 1 .. Len(queue'[m]), NEW j \in 1 .. Len(queue'[l]),
                 queue'[m][i] = queue'[l][j]
          PROVE  m = l /\ i = j
      <4>1. CASE queue'[m][i] = r
        <5>1. m = handle /\ i = n + 1
          BY <2>3, <2>5, <4>1
        <5>2. l = handle /\ j = n + 1
          BY <2>3, <2>5, <3>3, <4>1
        <5> QED BY <5>1, <5>2
      <4>2. CASE queue'[m][i] # r
        <5>1. i \in 1 .. Len(queue[m]) /\ queue'[m][i] = queue[m][i]
          BY <2>5, <4>2
        <5>2. j \in 1 .. Len(queue[l]) /\ queue'[l][j] = queue[l][j]
          BY <2>5, <3>3, <4>2
        <5>3. queue[m][i] = queue[l][j]
          BY <3>3, <5>1, <5>2
        <5> QED BY <5>1, <5>2, <5>3, NoTwins
      <4> QED BY <4>1, <4>2
    <3> QED BY <3>1, <3>2, <3>3
  <2> QED BY <2>6, <2>7 DEF RequestsInOnePlace
<1> QED BY <1>3, <1>4 DEF ExecuteTask, ClientTimesOut, TypeOK

LEMMA CrashPlaces ==
  ASSUME TypeOK, RequestsInOnePlace, Crash
  PROVE  RequestsInOnePlace'
<1>1. \A k \in KTasks : /\ queue'[k] = <<>> /\ serving'[k] = NoTask
                        /\ kpc'[k] \notin {"execute", "reply"}
  BY DEF Crash, Live
<1>2. Len(<<>>) = 0
  OBVIOUS
<1>3. \A k \in KTasks : 1 .. Len(queue'[k]) = {}
  BY <1>1, <1>2
<1> QED BY <1>1, <1>3 DEF RequestsInOnePlace

\* None of the others touches a request.
LEMMA PlacesStep ==
  ASSUME RuntimeIInv, [Next]_vars
  PROVE  RequestsInOnePlace'
<1>1. ASSUME UNCHANGED <<queue, serving, request, kpc>>
      PROVE  RequestsInOnePlace'
  BY <1>1 DEF RuntimeIInv, RequestsInOnePlace
<1>2. CASE \E k \in KTasks : KStep(k)
  BY <1>2, KPlaces DEF RuntimeIInv
<1>3. CASE \E c \in Callers : CallerStep(c)
  <2>1. PICK c \in Callers : CallerStep(c)
    BY <1>3
  <2>2. CASE SpawnInKernel(c)
    BY <2>2, SpawnPlaces DEF SpawnInKernel, RuntimeIInv
  <2>3. CASE ~SpawnInKernel(c)
    <3>1. UNCHANGED <<queue, serving, request, kpc>>
      BY <2>1, <2>3 DEF CallerStep, SpawnChecks, SpawnLooksUp, SpawnRechecks,
         SpawnUnregisters, SpawnDeletesRow, SpawnRegisters, SpawnRefused, SpawnInserts,
         Inserts, Stop, StopRemovesHandle, SendCommand, CallerTakes, CUnchanged, Elsewhere
    <3> QED BY <1>1, <3>1
  <2> QED BY <2>2, <2>3
<1>4. CASE \E x \in Actors : Save(x) \/ SaveFails(x)
  BY <1>1, <1>4 DEF Save, SaveFails
<1>5. CASE \E r \in TaskIds : ExecuteTask(r) \/ ClientTimesOut(r)
  BY <1>5, ClientPlaces DEF RuntimeIInv
<1>6. CASE RecoveryStep
  <2>1. CASE RecoverySpawns
    BY <2>1, SpawnPlaces DEF RecoverySpawns, RuntimeIInv
  <2>2. CASE ~RecoverySpawns
    BY <1>1, <1>6, <2>2 DEF RecoveryStep, RecoveryLoads, RecoveryLoadFails, RecoveryRefused,
       RecoveryInserts, Inserts, CUnchanged, Elsewhere
  <2> QED BY <2>1, <2>2
<1>7. CASE Crash
  BY <1>7, CrashPlaces DEF RuntimeIInv
<1>8. CASE UNCHANGED vars
  BY <1>1, <1>8 DEF vars, actors
<1> QED BY <1>2, <1>3, <1>4, <1>5, <1>6, <1>7, <1>8 DEF Next

(***************************************************************************)
(* The record and who serves it                                            *)
(***************************************************************************)
\* What the record's invariants see of a step that leaves it alone.
LEMMA RecordKept ==
  ASSUME RuntimeIInv, UNCHANGED <<record, kpc, serving, unreported>>,
         cpc'[Recovery] = cpc[Recovery]
  PROVE  WorkIsExecuted' /\ ServedBeforeStopping' /\ NothingBeforeRecovery'
BY DEF RuntimeIInv, WorkIsExecuted, ServedBeforeStopping, NothingBeforeRecovery, Live

\* A kernel task that goes on serves the agent itself.
LEMMA KGoesOn ==
  ASSUME NEW k \in KTasks, Live(k)', kpc'[k] # "stopping"
  PROVE  ServedBeforeStopping'
BY DEF ServedBeforeStopping

\* Nothing becomes Working but by BeginTask.
LEMMA NotToWork ==
  ASSUME RuntimeIInv, NEW x \in Actors, NEW n \in Triggers \ {"BeginTask"},
         Report(x, Trigger(n)), NEW k \in KTasks,
         \A m \in KTasks \ {k} : kpc'[m] = kpc[m] /\ serving'[m] = serving[m],
         kpc[k] # "execute" \/ n = "CompleteTask"
  PROVE  WorkIsExecuted'
<1>1. CASE Takes(x, Trigger(n))
  <2>1. <<record.state.kind, n, record'.state.kind>> \in Edges
    BY <1>1, TakesFacts, Transitions DEF RuntimeIInv
  <2>2. record'.state.kind # "Working"
    BY <2>1, EdgeFacts
  <2> QED BY <2>2 DEF WorkIsExecuted
<1>2. CASE record' = record /\ (record # NoRecord => Refused(record.state, Trigger(n)))
  <2>1. SUFFICES ASSUME record # NoRecord, record.state.kind = "Working",
                        record.state.task # NoTask
                 PROVE  \E l \in KTasks : kpc'[l] = "execute" /\ serving'[l] = record.state.task
    BY <1>2 DEF WorkIsExecuted
  <2>2. n # "CompleteTask"
    BY <1>2, <2>1, Accepted
  <2>3. PICK l \in KTasks : kpc[l] = "execute" /\ serving[l] = record.state.task
    BY <2>1 DEF RuntimeIInv, WorkIsExecuted
  <2>4. l # k
    BY <2>2, <2>3
  <2> QED BY <2>3, <2>4
<1> QED BY <1>1, <1>2, ReportFacts, Transitions

LEMMA KRecord ==
  ASSUME RuntimeIInv, NEW k \in KTasks, KStep(k)
  PROVE  /\ WorkIsExecuted' /\ ServedBeforeStopping' /\ NothingBeforeRecovery'
         /\ NextIsUnborn'
<1>1. k \in Actors /\ TypeOK
  BY Constants DEF RuntimeIInv
<1>2. UNCHANGED <<born, cpc>> /\ kpc[k] # "unborn"
  BY DEF KStep, KStart, KInitFails, KInitialized, KChecks, KTimesOut, KDenies, KBegins,
     KCompletes, KReplies, KCloses, KStops, KUnchanged, KAt
<1>3. \A l : KMoves(k, l) => \A m \in KTasks : kpc'[m] = IF m = k THEN l ELSE kpc[m]
  BY <1>1 DEF KMoves, TypeOK
<1>4. \A m \in KTasks \ {k} : kpc'[m] = kpc[m]
  BY <1>3 DEF KStep, KStart, KInitFails, KInitialized, KChecks, KTimesOut, KDenies, KBegins,
     KCompletes, KReplies, KCloses, KStops, KExits
<1>5. NextIsUnborn'
  BY <1>2, <1>4 DEF RuntimeIInv, NextIsUnborn
<1>6. NothingBeforeRecovery'
  <2>1. record' = NoRecord \/ record # NoRecord
    <3>1. CASE UNCHANGED record
      BY <3>1
    <3>2. CASE \E t : Report(k, t)
      BY <3>2 DEF Report, Takes
    <3> QED BY <3>1, <3>2 DEF KStep, KStart, KInitFails, KInitialized, KChecks, KTimesOut,
            KDenies, KBegins, KCompletes, KReplies, KCloses, KStops
  <2> QED BY <1>2, <2>1 DEF RuntimeIInv, NothingBeforeRecovery
<1>7. CASE KStart(k) \/ KInitialized(k) \/ KCompletes(k)
  <2>1. PICK n \in Triggers \ {"BeginTask"} :
          Report(k, Trigger(n)) /\ (kpc[k] # "execute" \/ n = "CompleteTask")
    BY <1>7 DEF KStart, KInitialized, KCompletes, KAt, Triggers
  <2>2. kpc'[k] \in {"init", "loop", "reply"} /\ UNCHANGED serving
    BY <1>3, <1>7 DEF KStart, KInitialized, KCompletes
  <2>3. WorkIsExecuted'
    BY <1>1, <1>4, <2>1, <2>2, NotToWork
  <2>4. ServedBeforeStopping'
    BY <2>2, KGoesOn DEF Live
  <2> QED BY <1>5, <1>6, <2>3, <2>4
<1>8. CASE KChecks(k) \/ KTimesOut(k) \/ KDenies(k) \/ KReplies(k)
  <2>1. kpc'[k] \in {"close", "receive", "loop"} /\ kpc[k] # "execute" /\ UNCHANGED record
    BY <1>3, <1>8 DEF KChecks, KTimesOut, KDenies, KReplies, KAt
  <2>2. \A m \in KTasks \ {k} : serving'[m] = serving[m]
    BY <1>1, <1>8 DEF KChecks, KTimesOut, KDenies, KReplies, TypeOK
  <2>3. WorkIsExecuted'
    BY <1>4, <2>1, <2>2 DEF RuntimeIInv, WorkIsExecuted
  <2>4. ServedBeforeStopping'
    BY <2>1, KGoesOn DEF Live
  <2> QED BY <1>5, <1>6, <2>3, <2>4
<1>9. CASE KBegins(k)
  <2> DEFINE h == Head(queue[k])
  <2>1. /\ queue[k] # <<>> /\ Report(k, BeginTask(h)) /\ kpc'[k] = "execute"
        /\ kpc[k] = "receive"
        /\ \A m \in KTasks : serving'[m] = IF m = k THEN h ELSE serving[m]
    BY <1>1, <1>3, <1>9 DEF KBegins, KAt, TypeOK
  <2>2. h \in TaskIds
    BY <1>1, <2>1, HeadTailProperties DEF TypeOK
  <2> HIDE DEF h
  <2>3. WorkIsExecuted'
    <3>1. CASE Takes(k, BeginTask(h))
      <4>1. record'.state.kind = "Working" => record'.state.task = h
        BY <1>1, <2>2, <3>1, TakesFacts, Transitions
      <4> QED BY <2>1, <4>1 DEF WorkIsExecuted
    <3>2. CASE record' = record
      BY <1>4, <2>1, <3>2 DEF RuntimeIInv, WorkIsExecuted
    <3> QED BY <2>1, <3>1, <3>2 DEF Report
  <2>4. ServedBeforeStopping'
    BY <2>1, KGoesOn DEF Live
  <2> QED BY <1>5, <1>6, <2>3, <2>4
<1>10. CASE KInitFails(k) \/ KCloses(k) \/ KStops(k)
  <2>1. PICK n \in {"Error", "Shutdown", "Stopped"} :
          /\ Report(k, Trigger(n)) /\ kpc[k] # "execute"
          /\ n = "Stopped" => kpc[k] = "stopping"
    BY <1>10 DEF KInitFails, KCloses, KStops, KAt
  <2>2. n \in Triggers \ {"BeginTask"} /\ UNCHANGED serving
    BY <1>10 DEF KInitFails, KCloses, KStops, Triggers
  <2>3. WorkIsExecuted'
    BY <1>1, <1>4, <2>1, <2>2, NotToWork
  <2>4. CASE Takes(k, Trigger(n))
    <3>1. <<record.state.kind, n, record'.state.kind>> \in Edges
      BY <1>1, <2>2, <2>4, TakesFacts, Transitions
    <3>2. record'.state.kind \notin Active
      BY <3>1, EdgeFacts DEF Active
    <3> QED BY <1>5, <1>6, <2>3, <3>2 DEF ServedBeforeStopping
  <2>5. CASE /\ record' = record /\ (record # NoRecord => Refused(record.state, Trigger(n)))
             /\ unreported' = (unreported \/ n = "Error")
    <3>1. n = "Error" => ServedBeforeStopping'
      BY <2>5 DEF ServedBeforeStopping
    <3>2. n = "Shutdown" => ServedBeforeStopping'
      BY <2>5, Accepted DEF ServedBeforeStopping
    <3>3. ASSUME n = "Stopped"
          PROVE  ServedBeforeStopping'
      <4>1. kpc[k] = "stopping" /\ unreported' = unreported
        BY <1>1, <2>1, <2>5, <3>3 DEF TypeOK
      <4>2. CASE \E l \in KTasks : Live(l) /\ kpc[l] # "stopping"
        <5>1. PICK l \in KTasks : Live(l) /\ kpc[l] # "stopping"
          BY <4>2
        <5>2. l # k
          BY <4>1, <5>1
        <5>3. kpc'[l] = kpc[l]
          BY <1>4, <5>2
        <5> QED BY <5>1, <5>3, KGoesOn DEF Live
      <4>3. CASE ~\E l \in KTasks : Live(l) /\ kpc[l] # "stopping"
        BY <1>2, <2>5, <4>1, <4>3 DEF RuntimeIInv, ServedBeforeStopping
      <4> QED BY <4>2, <4>3
    <3> QED BY <1>5, <1>6, <2>1, <2>3, <3>1, <3>2, <3>3
  <2> QED BY <1>1, <2>1, <2>2, <2>4, <2>5, ReportFacts, Transitions
<1> QED BY <1>7, <1>8, <1>9, <1>10 DEF KStep

\* The new kernel task is a new witness.
LEMMA SpawnRecord ==
  ASSUME RuntimeIInv, NEW c \in Callers \cup {Recovery}, SpawnsKTask(c),
         cpc[Recovery] # "down"
  PROVE  WorkIsExecuted' /\ ServedBeforeStopping' /\ NothingBeforeRecovery'
<1>1. /\ born + 1 \in KTasks /\ UNCHANGED <<record, serving>>
      /\ \A k \in KTasks : kpc'[k] = IF k = born + 1 THEN "start" ELSE kpc[k]
      /\ cpc' = [cpc EXCEPT ![c] = "insert"]
  BY RuntimeAssumption DEF SpawnsKTask, CUnchanged, Goes, KTasks, RuntimeIInv, TypeOK
<1>2. cpc'[Recovery] # "down"
  BY <1>1 DEF RuntimeIInv, TypeOK
<1>3. kpc[born + 1] = "unborn"
  <2>1. born \in Nat /\ born + 1 > born
    BY DEF RuntimeIInv, TypeOK
  <2> QED BY <1>1, <2>1 DEF RuntimeIInv, NextIsUnborn
<1>4. WorkIsExecuted'
  <2>1. ASSUME NEW k \in KTasks, kpc[k] = "execute"
        PROVE  kpc'[k] = "execute"
    BY <1>1, <1>3, <2>1
  <2> QED BY <1>1, <2>1 DEF RuntimeIInv, WorkIsExecuted
<1>5. ServedBeforeStopping'
  BY <1>1, KGoesOn DEF Live
<1> QED BY <1>2, <1>4, <1>5 DEF NothingBeforeRecovery

LEMMA CallerRecord ==
  ASSUME RuntimeIInv, NEW c \in Callers, CallerStep(c)
  PROVE  WorkIsExecuted' /\ ServedBeforeStopping' /\ NothingBeforeRecovery'
<1>1. c \in Actors /\ TypeOK /\ c # Recovery /\ Recovery \in Callers \cup {Recovery}
  BY Constants DEF RuntimeIInv
<1>2. cpc[Recovery] = "idle" \/ UNCHANGED <<record, kpc>>
  BY DEF CallerStep, SpawnChecks, SpawnLooksUp, SpawnRechecks, SpawnUnregisters,
     SpawnDeletesRow, SpawnRegisters, SpawnInKernel, SpawnRefused, SpawnInserts, Stop,
     StopRemovesHandle, SendCommand, CallerTakes, At, Up
<1>3. \A l : Goes(c, l) => cpc'[Recovery] = cpc[Recovery]
  BY <1>1 DEF Goes, TypeOK
<1>4. CASE \/ SpawnChecks(c) \/ SpawnLooksUp(c) \/ SpawnRechecks(c) \/ SpawnDeletesRow(c)
           \/ SpawnRefused(c) \/ SpawnInserts(c) \/ StopRemovesHandle(c)
  <2>1. UNCHANGED <<record, kpc, serving, unreported>>
    BY <1>4 DEF SpawnChecks, SpawnLooksUp, SpawnRechecks, SpawnDeletesRow, SpawnRefused,
       SpawnInserts, Inserts, StopRemovesHandle, CUnchanged, Elsewhere
  <2>2. \E l : Goes(c, l)
    BY <1>4 DEF SpawnChecks, SpawnLooksUp, SpawnRechecks, SpawnDeletesRow, SpawnRefused,
       SpawnInserts, Inserts, StopRemovesHandle
  <2> QED BY <1>3, <2>1, <2>2, RecordKept
<1>5. CASE SpawnUnregisters(c)
  BY <1>5 DEF SpawnUnregisters, WorkIsExecuted, ServedBeforeStopping, NothingBeforeRecovery
<1>6. CASE SpawnRegisters(c)
  <2>1. CASE record = NoRecord
    <3>1. record' = FreshRecord(0) /\ cpc'[Recovery] # "down"
      BY <1>3, <1>6, <2>1 DEF SpawnRegisters, At, Up
    <3>2. record'.state.kind = "Registered"
      BY <3>1 DEF FreshRecord, Plain
    <3> QED BY <3>1, <3>2 DEF WorkIsExecuted, ServedBeforeStopping, NothingBeforeRecovery, Active
  <2>2. CASE record # NoRecord
    <3>1. UNCHANGED <<record, kpc, serving, unreported>> /\ Goes(c, "idle")
      BY <1>6, <2>2 DEF SpawnRegisters, CUnchanged
    <3> QED BY <1>3, <3>1, RecordKept
  <2> QED BY <2>1, <2>2
<1>7. CASE SpawnInKernel(c)
  BY <1>7, SpawnRecord DEF SpawnInKernel, At, Up
<1>8. CASE Stop(c) \/ SendCommand(c)
  <2>1. PICK n \in {"Start", "Pause", "Resume", "Shutdown"} :
          Takes(c, Trigger(n)) /\ \E l : CallerTakes(c, Trigger(n), l)
    BY <1>8 DEF Stop, SendCommand, convert_command, CallerTakes
  <2>2. /\ UNCHANGED <<kpc, serving, unreported>> /\ cpc'[Recovery] = cpc[Recovery]
        /\ cpc[Recovery] = "idle"
    BY <1>3, <2>1 DEF CallerTakes, CUnchanged, At, Up
  <2>3. n \in Triggers \ {"BeginTask"}
    BY DEF Triggers
  <2>4. record # NoRecord /\ <<record.state.kind, n, record'.state.kind>> \in Edges
    BY <1>1, <2>1, <2>3, TakesFacts, Transitions
  <2>5. record'.state.kind # "Working"
    BY <2>4, EdgeFacts
  <2>6. record'.state.kind \in Active => record.state.kind \in Active
    BY <2>4, EdgeFacts DEF Active
  <2>7. ServedBeforeStopping'
    BY <2>2, <2>4, <2>6 DEF RuntimeIInv, ServedBeforeStopping, Live
  <2> QED BY <2>2, <2>5, <2>7 DEF WorkIsExecuted, NothingBeforeRecovery
<1> QED BY <1>4, <1>5, <1>6, <1>7, <1>8 DEF CallerStep

LEMMA RecoveryRecord ==
  ASSUME RuntimeIInv, RecoveryStep
  PROVE  WorkIsExecuted' /\ ServedBeforeStopping' /\ NothingBeforeRecovery'
<1>1. Recovery \in Actors /\ TypeOK /\ Recovery \in Callers \cup {Recovery}
  BY Constants DEF RuntimeIInv
<1>2. \A l : Goes(Recovery, l) => cpc'[Recovery] = l
  BY <1>1 DEF Goes, TypeOK
<1>3. CASE RecoveryLoads
  <2>1. /\ record' = NoRecord \/ (row # NoRecord /\ record' = Reloaded(row))
        /\ cpc'[Recovery] = IF record' = NoRecord \/ record'.state.kind = "Error"
                            THEN "idle" ELSE "kspawn"
    BY <1>2, <1>3 DEF RecoveryLoads
  <2>2. row # NoRecord => Reloaded(row).state.task = NoTask
    BY <1>1 DEF Reloaded, Plain, TypeOK, AgentStateRecord
  <2>3. WorkIsExecuted'
    BY <2>1, <2>2 DEF WorkIsExecuted
  <2> QED BY <2>1, <2>3 DEF ServedBeforeStopping, NothingBeforeRecovery, Active
<1>4. CASE RecoveryLoadFails
  <2>1. record' = NoRecord
    BY <1>4 DEF RecoveryLoadFails, Elsewhere, RAt, RuntimeIInv, NothingBeforeRecovery
  <2> QED BY <2>1 DEF WorkIsExecuted, ServedBeforeStopping, NothingBeforeRecovery
<1>5. CASE RecoverySpawns
  BY <1>5, SpawnRecord DEF RecoverySpawns, RAt
<1>6. CASE RecoveryRefused
  <2>1. /\ Report(Recovery, Trigger("Error")) /\ cpc'[Recovery] = "idle"
        /\ UNCHANGED <<kpc, serving>>
    BY <1>2, <1>6 DEF RecoveryRefused
  <2>2. CASE Takes(Recovery, Trigger("Error"))
    <3>1. "Error" \in Triggers \ {"BeginTask"}
      BY DEF Triggers
    <3>2. <<record.state.kind, "Error", record'.state.kind>> \in Edges
      BY <1>1, <2>2, <3>1, TakesFacts, Transitions
    <3>3. record'.state.kind = "Error"
      BY <3>2, EdgeFacts
    <3> QED BY <2>1, <3>3 DEF WorkIsExecuted, ServedBeforeStopping, NothingBeforeRecovery, Active
  <2>3. CASE record' = record /\ unreported' = TRUE
    <3>1. WorkIsExecuted'
      BY <2>1, <2>3 DEF RuntimeIInv, WorkIsExecuted
    <3> QED BY <2>1, <2>3, <3>1 DEF ServedBeforeStopping, NothingBeforeRecovery
  <2> QED BY <2>1, <2>2, <2>3 DEF Report, Trigger
<1>7. CASE RecoveryInserts
  <2>1. /\ UNCHANGED <<record, kpc, serving, unreported>>
        /\ cpc[Recovery] = "insert" /\ cpc'[Recovery] = "idle"
    BY <1>2, <1>7 DEF RecoveryInserts, Inserts, CUnchanged, RAt
  <2>2. ServedBeforeStopping'
    BY <2>1 DEF RuntimeIInv, ServedBeforeStopping, Live
  <2> QED BY <2>1, <2>2 DEF RuntimeIInv, WorkIsExecuted, NothingBeforeRecovery
<1> QED BY <1>3, <1>4, <1>5, <1>6, <1>7 DEF RecoveryStep

LEMMA RecordInvariants ==
  ASSUME RuntimeIInv, [Next]_vars
  PROVE  /\ WorkIsExecuted' /\ ServedBeforeStopping' /\ NothingBeforeRecovery'
         /\ NextIsUnborn'
<1>1. UNCHANGED <<born, kpc>> => NextIsUnborn'
  BY DEF RuntimeIInv, NextIsUnborn
<1>2. CASE \E k \in KTasks : KStep(k)
  BY <1>2, KRecord
<1>3. CASE \E c \in Callers : CallerStep(c)
  <2>1. PICK c \in Callers : CallerStep(c)
    BY <1>3
  <2>2. CASE SpawnInKernel(c)
    BY <2>1, <2>2, CallerRecord, SpawnPlaces DEF SpawnInKernel, RuntimeIInv
  <2>3. CASE ~SpawnInKernel(c)
    <3>1. UNCHANGED <<born, kpc>>
      BY <2>1, <2>3 DEF CallerStep, SpawnChecks, SpawnLooksUp, SpawnRechecks,
         SpawnUnregisters, SpawnDeletesRow, SpawnRegisters, SpawnRefused, SpawnInserts,
         Inserts, Stop, StopRemovesHandle, SendCommand, CallerTakes, Elsewhere
    <3> QED BY <1>1, <2>1, <3>1, CallerRecord
  <2> QED BY <2>2, <2>3
<1>4. CASE \E x \in Actors : Save(x) \/ SaveFails(x)
  <2>1. UNCHANGED <<record, born, kpc, serving, unreported>> /\ cpc'[Recovery] = cpc[Recovery]
    BY <1>4, Constants DEF Save, SaveFails, RuntimeIInv, TypeOK
  <2> QED BY <1>1, <2>1, RecordKept
<1>5. CASE \E r \in TaskIds : ExecuteTask(r) \/ ClientTimesOut(r)
  <2>1. UNCHANGED <<record, born, kpc, serving, unreported, cpc>>
    BY <1>5 DEF ExecuteTask, ClientTimesOut
  <2> QED BY <1>1, <2>1, RecordKept
<1>6. CASE RecoveryStep
  <2>1. CASE RecoverySpawns
    BY <1>6, <2>1, RecoveryRecord, SpawnPlaces DEF RecoverySpawns, RuntimeIInv
  <2>2. CASE ~RecoverySpawns
    <3>1. UNCHANGED <<born, kpc>>
      BY <1>6, <2>2 DEF RecoveryStep, RecoveryLoads, RecoveryLoadFails, RecoveryRefused,
         RecoveryInserts, Inserts, Elsewhere
    <3> QED BY <1>1, <1>6, <3>1, RecoveryRecord
  <2> QED BY <2>1, <2>2
<1>7. CASE Crash
  <2>1. record' = NoRecord /\ born' = born
    BY <1>7 DEF Crash
  <2>2. NextIsUnborn'
    BY <1>7, <2>1 DEF Crash, Live, RuntimeIInv, NextIsUnborn
  <2> QED BY <2>1, <2>2 DEF WorkIsExecuted, ServedBeforeStopping, NothingBeforeRecovery
<1>8. CASE UNCHANGED vars
  BY <1>1, <1>8, RecordKept DEF vars, actors
<1> QED BY <1>2, <1>3, <1>4, <1>5, <1>6, <1>7, <1>8 DEF Next

(***************************************************************************)
(* The theorems                                                            *)
(***************************************************************************)
LEMMA InitIInv == Init => RuntimeIInv
<1> SUFFICES ASSUME Init
             PROVE  RuntimeIInv
  OBVIOUS
<1>1. TypeOK
  <2>1. 0 \in 0 .. MaxKTasks
    BY RuntimeAssumption
  <2>2. /\ kpc \in [KTasks -> KPCs] /\ cpc \in [Callers \cup {Recovery} -> CPCs]
        /\ request \in [TaskIds -> Outcomes]
    BY DEF Init, KPCs, CPCs, Outcomes
  <2>3. /\ saving \in [Actors -> AgentStateRecord \cup {NoRecord}]
        /\ serving \in [KTasks -> TaskIds \cup {NoTask}]
        /\ mine \in [Callers \cup {Recovery} -> KTasks \cup {NoKTask}]
        /\ queue \in [KTasks -> Seq(TaskIds)]
    BY DEF Init
  <2> QED BY <2>1, <2>2, <2>3 DEF Init, TypeOK
<1>2. \A k \in KTasks : Len(queue[k]) = 0 /\ serving[k] = NoTask /\ kpc[k] = "unborn"
  BY DEF Init
<1>3. \A k \in KTasks : 1 .. Len(queue[k]) = {}
  BY <1>2
<1>4. RequestsInOnePlace
  BY <1>2, <1>3 DEF RequestsInOnePlace
<1>5. WorkIsExecuted /\ ServedBeforeStopping /\ NothingBeforeRecovery /\ SavedNotRegistered
  BY DEF Init, WorkIsExecuted, ServedBeforeStopping, NothingBeforeRecovery, SavedNotRegistered
<1>6. NextIsUnborn
  BY <1>2 DEF NextIsUnborn
<1> QED BY <1>1, <1>4, <1>5, <1>6 DEF RuntimeIInv

LEMMA TypingStep ==
  ASSUME RuntimeIInv, [Next]_vars
  PROVE  TypeOK' /\ SavedNotRegistered'
<1> USE DEF RuntimeIInv
<1>1. CASE UNCHANGED vars
  BY <1>1 DEF vars, actors, TypeOK, SavedNotRegistered
<1> QED BY <1>1, KTyping, CallerTyping, SavingTyping, ClientTyping, RecoveryTyping,
        CrashTyping DEF Next

LEMMA NextIInv == RuntimeIInv /\ [Next]_vars => RuntimeIInv'
<1> SUFFICES ASSUME RuntimeIInv, [Next]_vars
             PROVE  RuntimeIInv'
  OBVIOUS
<1> QED BY TypingStep, PlacesStep, RecordInvariants DEF RuntimeIInv

LEMMA Invariance == Spec => []RuntimeIInv
BY InitIInv, NextIInv, PTL DEF Spec

\* Every variable keeps its type, and a row is never Registered, whatever is
\* lost in a crash and whatever save fails.
THEOREM Typing == Spec => []TypeOK
<1>1. RuntimeIInv => TypeOK
  BY DEF RuntimeIInv
<1> QED BY <1>1, Invariance, PTL

\* An agent that says it is Idle, Working or Paused has a live kernel task, for
\* any number of callers that spawn, stop and command it, any number of crashes
\* and recoveries, unless a refused Error report was its last word.
THEOREM AgentsAreServed == Spec => []AgentIsServed
<1>1. RuntimeIInv => AgentIsServed
  BY DEF RuntimeIInv, ServedBeforeStopping, AgentIsServed, Up, Active
<1> QED BY <1>1, Invariance, PTL

\* A client that has its answer never reads that the agent still works on its
\* task, whoever else reports on the same record meanwhile.
THEOREM AnswersFollowTheState == Spec => []AnsweredIsNotWorking
<1>1. RuntimeIInv => AnsweredIsNotWorking
  BY DEF RuntimeIInv, WorkIsExecuted, RequestsInOnePlace, AnsweredIsNotWorking, Entered
<1> QED BY <1>1, Invariance, PTL

(***************************************************************************)
(* The safety half of RequestsResolved                                     *)
(***************************************************************************)
Waits(r, k) == \E i \in 1 .. Len(queue[k]) : queue[k][i] = r

Answerable(r) == \E k \in KTasks : Live(k) /\ (serving[k] = r \/ Waits(r, k))

\* A client that still waits for its answer waits for a kernel task that runs:
\* one that executes its request, or has it in its channel.
SentIsAnswerable == \A r \in TaskIds : request[r] = "sent" => Answerable(r)

LEMMA AnswerableKept ==
  ASSUME SentIsAnswerable, UNCHANGED <<queue, serving>>,
         \A k \in KTasks : Live(k) => kpc'[k] \notin {"unborn", "exited"},
         \A r \in TaskIds : request'[r] = "sent" => request[r] = "sent"
  PROVE  SentIsAnswerable'
BY DEF SentIsAnswerable, Answerable, Waits, Live

\* A kernel task keeps what is in its channel, and leaves with no client waiting.
LEMMA KAnswerable ==
  ASSUME RuntimeIInv, SentIsAnswerable, NEW k \in KTasks, KStep(k)
  PROVE  SentIsAnswerable'
<1> USE DEF RuntimeIInv
<1>1. \A l : KMoves(k, l) => \A m \in KTasks : kpc'[m] = IF m = k THEN l ELSE kpc[m]
  BY DEF KMoves, TypeOK
<1>2. CASE KStart(k) \/ KInitialized(k) \/ KChecks(k) \/ KTimesOut(k) \/ KCompletes(k) \/ KCloses(k)
  <2>1. UNCHANGED <<queue, serving, request>>
    BY <1>2 DEF KStart, KInitialized, KChecks, KTimesOut, KCompletes, KCloses
  <2>2. \E l \in KPCs \ {"unborn", "exited"} : KMoves(k, l)
    BY <1>2 DEF KStart, KInitialized, KChecks, KTimesOut, KCompletes, KCloses, KPCs
  <2> QED BY <1>1, <2>1, <2>2, AnswerableKept DEF Live
<1>3. CASE KInitFails(k) \/ KStops(k)
  <2>1. /\ KMoves(k, "exited") /\ queue' = [queue EXCEPT ![k] = <<>>] /\ serving' = serving
        /\ request' = Closed(k) /\ serving[k] = NoTask
    BY <1>3 DEF KInitFails, KStops, KExits, KAt, RequestsInOnePlace
  <2>2. ASSUME NEW r \in TaskIds, request'[r] = "sent" PROVE Answerable(r)'
    <3>1. request[r] = "sent" /\ r \notin ToSet(queue[k])
      BY <2>1, <2>2 DEF Closed
    <3>2. ~Waits(r, k)
      BY <3>1, Channels, LenProperties DEF ToSet, Waits
    <3>3. PICK m \in KTasks : Live(m) /\ (serving[m] = r \/ Waits(r, m))
      BY <3>1 DEF SentIsAnswerable, Answerable
    <3>4. m # k
      BY <2>1, <3>2, <3>3, Constants
    <3>5. kpc'[m] = kpc[m] /\ queue'[m] = queue[m] /\ serving'[m] = serving[m]
      BY <1>1, <2>1, <3>4 DEF TypeOK
    <3> QED BY <3>3, <3>5 DEF Answerable, Live, Waits
  <2> QED BY <2>2 DEF SentIsAnswerable
<1>4. CASE KDenies(k) \/ KBegins(k)
  <2> DEFINE h == Head(queue[k])
  <2>1. /\ queue[k] # <<>> /\ kpc[k] = "receive"
        /\ \E l \in {"loop", "execute"} : KMoves(k, l)
        /\ queue' = [queue EXCEPT ![k] = Tail(@)]
        /\ \/ serving' = serving /\ request' = [request EXCEPT ![h] = IF @ = "sent" THEN "failed" ELSE @]
           \/ serving' = [serving EXCEPT ![k] = h] /\ request' = request
    BY <1>4 DEF KDenies, KBegins, KAt
  <2>2. /\ h = queue[k][1] /\ h \in TaskIds /\ Len(queue[k]) \in Nat /\ Len(queue[k]) >= 1
        /\ Len(Tail(queue[k])) = Len(queue[k]) - 1
        /\ \A i \in 1 .. Len(queue[k]) - 1 : Tail(queue[k])[i] = queue[k][i + 1]
    BY <2>1, Channels
  <2>3. queue'[k] = Tail(queue[k]) /\ \A m \in KTasks \ {k} : queue'[m] = queue[m]
    BY <2>1 DEF TypeOK
  <2>4. serving[k] = NoTask
    BY <2>1 DEF RequestsInOnePlace
  <2>5. ASSUME NEW r \in TaskIds, request'[r] = "sent" PROVE Answerable(r)'
    <3>1. request[r] = "sent" /\ (r = h => serving'[k] = h)
      <4> HIDE DEF h
      <4> QED BY <2>1, <2>2, <2>5 DEF TypeOK
    <3>2. PICK m \in KTasks : Live(m) /\ (serving[m] = r \/ Waits(r, m))
      BY <3>1 DEF SentIsAnswerable, Answerable
    <3>3. \A n \in KTasks : Live(n) => Live(n)'
      BY <1>1, <2>1 DEF Live
    <3>4. CASE r = h
      <4>1. Live(k) /\ serving'[k] = r
        BY <2>1, <3>1, <3>4 DEF Live
      <4> QED BY <3>3, <4>1 DEF Answerable
    <3>5. CASE r # h /\ m = k
      <4>1. PICK i \in 1 .. Len(queue[k]) : queue[k][i] = r
        BY <2>4, <3>2, <3>5, Constants DEF Waits
      <4>2. i # 1
        BY <2>2, <3>5, <4>1
      <4>3. i - 1 \in 1 .. Len(queue[k]) - 1 /\ (i - 1) + 1 = i
        BY <2>2, <4>1, <4>2
      <4>4. Tail(queue[k])[i - 1] = r /\ i - 1 \in 1 .. Len(Tail(queue[k]))
        BY <2>2, <4>1, <4>3
      <4>5. Waits(r, k)'
        BY <2>3, <4>4 DEF Waits
      <4> QED BY <3>2, <3>3, <3>5, <4>5 DEF Answerable
    <3>6. CASE r # h /\ m # k
      <4>1. serving'[m] = serving[m] /\ queue'[m] = queue[m]
        BY <2>1, <2>3, <3>6 DEF TypeOK
      <4>2. serving'[m] = r \/ Waits(r, m)'
        BY <3>2, <4>1 DEF Waits
      <4> QED BY <3>2, <3>3, <4>2 DEF Answerable
    <3> QED BY <3>4, <3>5, <3>6
  <2> QED BY <2>5 DEF SentIsAnswerable
<1>5. CASE KReplies(k)
  <2>1. /\ kpc[k] = "reply" /\ KMoves(k, "loop") /\ UNCHANGED queue
        /\ serving' = [serving EXCEPT ![k] = NoTask]
        /\ request' = [request EXCEPT ![serving[k]] = IF @ = "sent" THEN "answered" ELSE @]
    BY <1>5 DEF KReplies, KAt
  <2>2. ASSUME NEW r \in TaskIds, request'[r] = "sent" PROVE Answerable(r)'
    <3>1. request[r] = "sent" /\ r # serving[k]
      BY <2>1, <2>2 DEF TypeOK
    <3>2. PICK m \in KTasks : Live(m) /\ (serving[m] = r \/ Waits(r, m))
      BY <3>1 DEF SentIsAnswerable, Answerable
    <3>3. Live(m)'
      BY <1>1, <2>1, <3>2 DEF Live
    <3>4. serving[m] = r => serving'[m] = r
      BY <2>1, <3>1 DEF TypeOK
    <3>5. Waits(r, m) => Waits(r, m)'
      BY <2>1 DEF Waits
    <3> QED BY <3>2, <3>3, <3>4, <3>5 DEF Answerable
  <2> QED BY <2>2 DEF SentIsAnswerable
<1> QED BY <1>2, <1>3, <1>4, <1>5 DEF KStep

\* execute_task sends to a kernel task that runs, or fails at once.
LEMMA ClientAnswerable ==
  ASSUME RuntimeIInv, SentIsAnswerable, NEW r \in TaskIds, ExecuteTask(r) \/ ClientTimesOut(r)
  PROVE  SentIsAnswerable'
<1> USE DEF RuntimeIInv
<1>1. UNCHANGED <<serving, kpc, handle>>
  BY DEF ExecuteTask, ClientTimesOut
<1>2. CASE UNCHANGED queue /\ request' = [request EXCEPT ![r] = "failed"]
  <2>1. \A t \in TaskIds : request'[t] = "sent" => request[t] = "sent"
    BY <1>2 DEF TypeOK
  <2> QED BY <1>1, <1>2, <2>1, AnswerableKept DEF Live
<1>3. CASE /\ handle \in KTasks /\ Live(handle)
           /\ queue' = [queue EXCEPT ![handle] = Append(@, r)]
           /\ request' = [request EXCEPT ![r] = "sent"]
  <2>1. /\ Len(queue[handle]) \in Nat /\ Len(queue'[handle]) = Len(queue[handle]) + 1
        /\ queue'[handle][Len(queue[handle]) + 1] = r
        /\ \A i \in 1 .. Len(queue[handle]) : queue'[handle][i] = queue[handle][i]
    BY <1>3, Channels, AppendProperties DEF TypeOK
  <2>2. \A m \in KTasks \ {handle} : queue'[m] = queue[m]
    BY <1>3 DEF TypeOK
  <2>3. \A m \in KTasks : \A i \in 1 .. Len(queue[m]) :
           i \in 1 .. Len(queue'[m]) /\ queue'[m][i] = queue[m][i]
    BY <2>1, <2>2
  <2>4. ASSUME NEW t \in TaskIds, request'[t] = "sent" PROVE Answerable(t)'
    <3>1. CASE t = r
      <4>1. Waits(r, handle)'
        BY <1>1, <2>1 DEF Waits
      <4> QED BY <1>1, <1>3, <3>1, <4>1 DEF Answerable, Live
    <3>2. CASE t # r
      <4>1. request[t] = "sent"
        BY <1>3, <2>4, <3>2 DEF TypeOK
      <4>2. PICK m \in KTasks : Live(m) /\ (serving[m] = t \/ Waits(t, m))
        BY <4>1 DEF SentIsAnswerable, Answerable
      <4>3. Waits(t, m) => Waits(t, m)'
        BY <2>3 DEF Waits
      <4> QED BY <1>1, <4>2, <4>3 DEF Answerable, Live
    <3> QED BY <3>1, <3>2
  <2> QED BY <2>4 DEF SentIsAnswerable
<1> QED BY <1>2, <1>3 DEF ExecuteTask, ClientTimesOut, TypeOK

\* The kernel's new task starts; none of the others changes.
LEMMA SpawnAnswerable ==
  ASSUME RuntimeIInv, SentIsAnswerable, NEW c, SpawnsKTask(c)
  PROVE  SentIsAnswerable'
<1>1. kpc' = [kpc EXCEPT ![born + 1] = "start"] /\ UNCHANGED <<queue, serving, request>>
  BY DEF SpawnsKTask, CUnchanged
<1>2. \A k \in KTasks : kpc'[k] \in {kpc[k], "start"}
  BY <1>1 DEF RuntimeIInv, TypeOK
<1> QED BY <1>1, <1>2, AnswerableKept DEF Live

LEMMA AnswerableStep ==
  ASSUME RuntimeIInv, SentIsAnswerable, [Next]_vars
  PROVE  SentIsAnswerable'
<1>1. ASSUME UNCHANGED <<queue, serving, request, kpc>>
      PROVE  SentIsAnswerable'
  BY <1>1, AnswerableKept DEF Live
<1>2. ASSUME NEW c \in Callers, CallerStep(c) PROVE SentIsAnswerable'
  <2>1. CASE SpawnInKernel(c)
    BY <2>1, SpawnAnswerable DEF SpawnInKernel
  <2>2. CASE ~SpawnInKernel(c)
    <3>1. UNCHANGED <<queue, serving, request, kpc>>
      BY <1>2, <2>2 DEF CallerStep, SpawnChecks, SpawnLooksUp, SpawnRechecks,
         SpawnUnregisters, SpawnDeletesRow, SpawnRegisters, SpawnRefused, SpawnInserts,
         Inserts, Stop, StopRemovesHandle, SendCommand, CallerTakes, CUnchanged, Elsewhere
    <3> QED BY <1>1, <3>1
  <2> QED BY <2>1, <2>2
<1>3. CASE \E x \in Actors : Save(x) \/ SaveFails(x)
  BY <1>1, <1>3 DEF Save, SaveFails
<1>4. CASE RecoveryStep
  <2>1. CASE RecoverySpawns
    BY <2>1, SpawnAnswerable DEF RecoverySpawns
  <2>2. CASE ~RecoverySpawns
    BY <1>1, <1>4, <2>2 DEF RecoveryStep, RecoveryLoads, RecoveryLoadFails, RecoveryRefused,
       RecoveryInserts, Inserts, CUnchanged, Elsewhere
  <2> QED BY <2>1, <2>2
<1>5. CASE Crash
  <2>1. \A r \in TaskIds : request'[r] # "sent"
    BY <1>5 DEF Crash
  <2> QED BY <2>1 DEF SentIsAnswerable
<1>6. CASE UNCHANGED vars
  BY <1>1, <1>6 DEF vars, actors
<1> QED BY <1>2, <1>3, <1>4, <1>5, <1>6, KAnswerable, ClientAnswerable DEF Next

\* No client waits for a task that is gone, however the agent is stopped, fails to
\* start or is spawned again: what RequestsResolved leaves to fairness is that
\* the kernel task goes on.
THEOREM ClientsWaitForTheLiving == Spec => []SentIsAnswerable
<1>1. Init => SentIsAnswerable
  BY DEF Init, SentIsAnswerable
<1>2. RuntimeIInv /\ SentIsAnswerable /\ [Next]_vars => SentIsAnswerable'
  BY AnswerableStep
<1> QED BY <1>1, <1>2, Invariance, PTL DEF Spec
=============================================================================
