------------------------ MODULE GatewayAgentsProofs ------------------------
(***************************************************************************)
(* What TLAPS proves of GatewayAgents, for any clients, kernel tasks,      *)
(* instances, requests and mishaps: GatewayTyping and                      *)
(* AgentsAreAccountedFor.                                                  *)
(*                                                                         *)
(* GatewayIInv adds to the parts of AgentAccounted that an await belongs   *)
(* to the kind of its request, that a kernel task is monitored or about to *)
(* be as long as none got loose, and, as long as nothing was disturbed,    *)
(* that a request is alone and that the kernel task it spawned lives.      *)
(***************************************************************************)
EXTENDS GatewayAgents, FiniteSetTheorems, TLAPS

\* The awaits of each kind of request.
AwaitsOf(kind) ==
  CASE kind \in {"create", "start"} ->
         {"check", "spawn", "insert", "register", "enroll", "status"} \cup Enrolling
    [] kind = "execute" ->
         {"known", "register", "enroll", "examine", "fetch", "beginTask"}
           \cup Enrolling \cup Executing
    [] kind \in {"stop", "delete"} -> {"leave", "shut", "status"} \cup Leaving
    [] OTHER -> {"idle"}

\* A create or a start that is past the spawn has a kernel task, and no other
\* request has.
KindsFit ==
  \A h \in Clients :
    /\ gAt[h] \in AwaitsOf(gKind[h])
    /\ gSpawned[h] # 0 <=>
         gKind[h] \in {"create", "start"} /\ gAt[h] \notin {"check", "spawn"}

\* What is alive is monitored, or will be.
MonitoredOrLoose ==
  gLoose \/ \A k \in GatewayTasks :
    Alive(k) => k = gMonitor \/ \E h \in Clients : gAt[h] = "insert" /\ gSpawned[h] = k

\* As long as nothing was disturbed there is one request at a time, for an
\* agent with a row; it spawns when there is no monitor, and the kernel task it
\* spawned goes on, because the row says running from its first round on.
Undisturbed ==
  gDisturbed \/
    /\ \A g, h \in Clients : gAt[g] # "idle" /\ gAt[h] # "idle" => g = h
    /\ \A h \in Clients :
         /\ gAt[h] # "idle" => HasRow
         /\ gAt[h] \in {"spawn", "insert"} => gMonitor = 0
         /\ gSpawned[h] # 0 =>
              /\ Alive(gSpawned[h])
              /\ gTask[gSpawned[h]] = "loop" => gRow = "running"

\* What is about to be stored was built.
BuiltToStore == \A h \in Clients : gAt[h] = "store" => gHeld[h] # 0

\* RecordIsAttended, one state of the record at a time; the task of a working
\* agent is that of a client.
Attended ==
  /\ gRecord.kind = "Working" => gRecord.task \in Clients
  /\ gOrphan \/
       /\ gRecord.kind = "Registered" => \E h \in Clients : gAt[h] = "begin"
       /\ gRecord.kind = "Initializing" =>
            \E h \in Clients : gAt[h] \in {"build", "store", "ready"}
       /\ gRecord.kind = "Working" => gAt[gRecord.task] \in Executing
       /\ gRecord.kind \in {"ShuttingDown", "Stopped"} =>
            \E h \in Clients : gAt[h] \in Leaving

GatewayIInv ==
  /\ GatewayTypeOK /\ KindsFit
  /\ MonitoredOrLoose /\ Undisturbed /\ RunningHasItsTask
  /\ BuiltToStore /\ Attended /\ ReadyHasInstance

(***************************************************************************)
(* The state machine                                                       *)
(***************************************************************************)
LEMMA MoveFacts ==
  ASSUME NEW n, Moves(Trigger(n))
  PROVE  gRecord' \in AgentState /\ <<gRecord.kind, n, gRecord'.kind>> \in Edges
BY DEF Moves, NewState, Trigger

LEMMA BeginFacts ==
  ASSUME NEW h, Moves(BeginTask(h))
  PROVE  /\ gRecord' \in AgentState /\ <<gRecord.kind, "BeginTask", gRecord'.kind>> \in Edges
         /\ gRecord'.task = IF gRecord'.kind = "Working" THEN h ELSE NoTask
BY DEF Moves, NewState, BeginTask

\* Where each transition of the API leads.
LEMMA MoveKinds ==
  /\ Moves(Trigger("Start")) =>
       gRecord' \in AgentState /\ gRecord'.kind = "Initializing"
  /\ Moves(Trigger("InitializationComplete")) =>
       gRecord' \in AgentState /\ gRecord.kind = "Initializing" /\ gRecord'.kind = "Idle"
  /\ \A h : Moves(BeginTask(h)) =>
       /\ gRecord' \in AgentState /\ gRecord.kind = "Idle"
       /\ gRecord'.kind = "Working" /\ gRecord'.task = h
  /\ Moves(Trigger("CompleteTask")) =>
       gRecord' \in AgentState /\ gRecord.kind = "Working" /\ gRecord'.kind = "Idle"
  /\ Moves(Trigger("Shutdown")) =>
       gRecord' \in AgentState /\ gRecord'.kind = "ShuttingDown"
  /\ Moves(Trigger("Stopped")) =>
       gRecord' \in AgentState /\ gRecord'.kind = "Stopped"
<1>1. \A a, n, b : <<a, n, b>> \in Edges =>
        /\ n = "Start" => b = "Initializing"
        /\ n = "InitializationComplete" => a = "Initializing" /\ b = "Idle"
        /\ n = "BeginTask" => a = "Idle" /\ b = "Working"
        /\ n = "CompleteTask" => a = "Working" /\ b = "Idle"
        /\ n = "Shutdown" => b = "ShuttingDown"
        /\ n = "Stopped" => b = "Stopped"
  BY DEF Edges
<1>2. ASSUME Moves(Trigger("Start"))
      PROVE  gRecord' \in AgentState /\ gRecord'.kind = "Initializing"
  BY <1>1, <1>2, MoveFacts
<1>3. ASSUME Moves(Trigger("InitializationComplete"))
      PROVE  gRecord' \in AgentState /\ gRecord.kind = "Initializing" /\ gRecord'.kind = "Idle"
  BY <1>1, <1>3, MoveFacts
<1>4. ASSUME NEW h, Moves(BeginTask(h))
      PROVE  /\ gRecord' \in AgentState /\ gRecord.kind = "Idle"
             /\ gRecord'.kind = "Working" /\ gRecord'.task = h
  BY <1>1, <1>4, BeginFacts
<1>5. ASSUME Moves(Trigger("CompleteTask"))
      PROVE  gRecord' \in AgentState /\ gRecord.kind = "Working" /\ gRecord'.kind = "Idle"
  BY <1>1, <1>5, MoveFacts
<1>6. ASSUME Moves(Trigger("Shutdown"))
      PROVE  gRecord' \in AgentState /\ gRecord'.kind = "ShuttingDown"
  BY <1>1, <1>6, MoveFacts
<1>7. ASSUME Moves(Trigger("Stopped"))
      PROVE  gRecord' \in AgentState /\ gRecord'.kind = "Stopped"
  BY <1>1, <1>7, MoveFacts
<1> QED BY <1>2, <1>3, <1>4, <1>5, <1>6, <1>7

LEMMA RefusalKinds ==
  /\ Refuses(Trigger("Start")) => gRecord.kind # "Registered"
  /\ Refuses(Trigger("InitializationComplete")) => gRecord.kind # "Initializing"
  /\ Refuses(Trigger("CompleteTask")) => gRecord.kind # "Working"
BY DEF Refuses, Refused, Trigger, Edges, ValidPairs, Kinds

(***************************************************************************)
(* Types, and which await belongs to which request                         *)
(***************************************************************************)
\* The steps of a request under AgentRuntimeManager.
ManagerStep(h) ==
  \/ IsRegistered(h) \/ Enroll(h) \/ BeginInit(h) \/ Build(h) \/ BuildFails(h)
  \/ StoreInstance(h) \/ BecomesReady(h) \/ Examine(h) \/ Fetch(h) \/ StartTask(h)
  \/ RunTask(h) \/ TaskDone(h) \/ CompleteTask(h) \/ Leave(h) \/ ShutDown(h)
  \/ TakeInstance(h) \/ CloseInstance(h) \/ MarkStopped(h) \/ Forget(h)

\* And the others.
OtherStep(h) ==
  \/ Create(h) \/ Ask(h) \/ Drop(h) \/ WriteStatus(h)
  \/ CheckMonitor(h) \/ InsertMonitor(h)
  \/ \E k \in GatewayTasks : SpawnTask(h, k)

LEMMA StepsOfAll ==
  ASSUME GatewayNext
  PROVE  \/ \E h \in Clients : ManagerStep(h) \/ OtherStep(h)
         \/ \E k \in GatewayTasks : TaskStep(k)
         \/ CancelMonitoring
BY DEF GatewayNext, ManagerStep, OtherStep

\* A manager step leaves the row, the kernel tasks and their monitor alone, and
\* moves its request among the manager's awaits, to the status or out.
LEMMA ManagerFrame ==
  ASSUME GatewayTypeOK, KindsFit, NEW h \in Clients, ManagerStep(h)
  PROVE  /\ UNCHANGED <<backVars, gLoose, gDisturbed>>
         /\ gAt[h] \notin {"idle", "check", "spawn", "insert", "status"}
         /\ \/ /\ gAt' = [gAt EXCEPT ![h] = gAt'[h]]
               /\ gAt'[h] \in AwaitsOf(gKind[h]) \ {"idle", "check", "spawn", "insert"}
               /\ UNCHANGED <<gKind, gSpawned>>
            \/ /\ gAt' = [gAt EXCEPT ![h] = "idle"]
               /\ gKind' = [gKind EXCEPT ![h] = "none"]
               /\ gSpawned' = [gSpawned EXCEPT ![h] = 0]
<1> USE DEF GatewayTypeOK, KindsFit, AwaitsOf, Enrolling, Executing, Leaving, RequestKinds,
            GoesTo, Returns, Enrolled, NotEnrolled, backVars, recordVars, restVars
<1>1. CASE IsRegistered(h)
  BY <1>1 DEF IsRegistered
<1>2. CASE Enroll(h)
  BY <1>2 DEF Enroll
<1>3. CASE BeginInit(h)
  BY <1>3 DEF BeginInit
<1>4. CASE Build(h)
  BY <1>4 DEF Build
<1>5. CASE BuildFails(h)
  BY <1>5 DEF BuildFails
<1>6. CASE StoreInstance(h)
  BY <1>6 DEF StoreInstance
<1>7. CASE BecomesReady(h)
  BY <1>7 DEF BecomesReady
<1>8. CASE Examine(h)
  BY <1>8 DEF Examine
<1>9. CASE Fetch(h)
  BY <1>9 DEF Fetch
<1>10. CASE StartTask(h)
  BY <1>10 DEF StartTask
<1>11. CASE RunTask(h)
  BY <1>11 DEF RunTask
<1>12. CASE TaskDone(h)
  BY <1>12 DEF TaskDone
<1>13. CASE CompleteTask(h)
  BY <1>13 DEF CompleteTask
<1>14. CASE Leave(h)
  BY <1>14 DEF Leave
<1>15. CASE ShutDown(h)
  BY <1>15 DEF ShutDown
<1>16. CASE TakeInstance(h)
  BY <1>16 DEF TakeInstance
<1>17. CASE CloseInstance(h)
  BY <1>17 DEF CloseInstance
<1>18. CASE MarkStopped(h)
  BY <1>18 DEF MarkStopped
<1>19. CASE Forget(h)
  BY <1>19 DEF Forget
<1> QED BY <1>1, <1>2, <1>3, <1>4, <1>5, <1>6, <1>7, <1>8, <1>9, <1>10, <1>11, <1>12,
           <1>13, <1>14, <1>15, <1>16, <1>17, <1>18, <1>19 DEF ManagerStep

\* The other requests stay where they are.
LEMMA ManagerOthers ==
  ASSUME GatewayTypeOK, KindsFit, NEW h \in Clients, ManagerStep(h)
  PROVE  /\ gSpawned'[h] \in {0, gSpawned[h]}
         /\ \A g \in Clients : g # h => gAt'[g] = gAt[g] /\ gSpawned'[g] = gSpawned[g]
BY ManagerFrame DEF GatewayTypeOK

LEMMA OtherKindsFit ==
  ASSUME GatewayTypeOK, KindsFit, NEW h \in Clients, OtherStep(h)
  PROVE  KindsFit'
<1> USE DEF GatewayTypeOK, KindsFit, AwaitsOf, Enrolling, Executing, Leaving, RequestKinds,
            GoesTo, Returns, GatewayTasks
<1>1. CASE Create(h)
  BY <1>1 DEF Create, Begins
<1>2. CASE Ask(h)
  <2>1. CASE Begins(h, "start", "check")
    BY <2>1 DEF Begins
  <2>2. CASE Begins(h, "stop", "leave")
    BY <2>2 DEF Begins
  <2>3. CASE Begins(h, "delete", "leave")
    BY <2>3 DEF Begins
  <2>4. CASE Begins(h, "execute", "known")
    BY <2>4 DEF Begins
  <2> QED BY <1>2, <2>1, <2>2, <2>3, <2>4 DEF Ask
<1>3. CASE Drop(h)
  BY <1>3 DEF Drop
<1>4. CASE WriteStatus(h)
  BY <1>4 DEF WriteStatus
<1>5. CASE CheckMonitor(h)
  BY <1>5 DEF CheckMonitor
<1>6. CASE InsertMonitor(h)
  BY <1>6 DEF InsertMonitor
<1>7. ASSUME NEW k \in GatewayTasks, SpawnTask(h, k)
      PROVE  KindsFit'
  BY <1>7 DEF SpawnTask
<1> QED BY <1>1, <1>2, <1>3, <1>4, <1>5, <1>6, <1>7 DEF OtherStep

LEMMA KindsStillFit ==
  ASSUME GatewayTypeOK, KindsFit, GatewayNext
  PROVE  KindsFit'
<1>1. ASSUME NEW h \in Clients, ManagerStep(h)
      PROVE  KindsFit'
  BY <1>1, ManagerFrame DEF GatewayTypeOK, KindsFit, AwaitsOf, Enrolling, Executing, Leaving
<1>2. ASSUME NEW k \in GatewayTasks, TaskStep(k)
      PROVE  KindsFit'
  BY <1>2 DEF TaskStep, InitTask, Heartbeat, Round, requestVars, KindsFit
<1>3. CASE CancelMonitoring
  BY <1>3 DEF CancelMonitoring, requestVars, KindsFit
<1> QED BY <1>1, <1>2, <1>3, StepsOfAll, OtherKindsFit

LEMMA ManagerTypes ==
  ASSUME GatewayTypeOK, KindsFit, NEW h \in Clients, ManagerStep(h)
  PROVE  GatewayTypeOK'
<1> USE GatewayAssumption DEF GatewayTypeOK, Mishaps,
            GoesTo, Returns, Enrolled, NotEnrolled, backVars, recordVars, restVars
<1>a. {"idle", "begin", "build", "store", "ready", "wait", "run", "complete", "take", "close",
       "stopped", "forget", "register", "enroll", "examine", "fetch", "beginTask", "shut",
       "status"} \subseteq Awaits
  BY DEF Awaits, Enrolling, Executing, Leaving
<1>c. Plain("Registered") \in AgentState
  BY DEF Plain, AgentState, Kinds
<1>1. CASE IsRegistered(h)
  BY <1>1, <1>a DEF IsRegistered
<1>2. CASE Enroll(h)
  BY <1>2, <1>a, <1>c DEF Enroll
<1>3. CASE BeginInit(h)
  BY <1>3, <1>a, MoveKinds DEF BeginInit
<1>4. CASE Build(h)
  BY <1>4, <1>a DEF Build
<1>5. CASE BuildFails(h)
  BY <1>5, <1>a DEF BuildFails
<1>6. CASE StoreInstance(h)
  BY <1>6, <1>a DEF StoreInstance
<1>7. CASE BecomesReady(h)
  BY <1>7, <1>a, MoveKinds DEF BecomesReady
<1>8. CASE Examine(h)
  BY <1>8, <1>a DEF Examine
<1>9. CASE Fetch(h)
  BY <1>9, <1>a DEF Fetch
<1>10. CASE StartTask(h)
  BY <1>10, <1>a, MoveKinds DEF StartTask
<1>11. CASE RunTask(h)
  BY <1>11, <1>a DEF RunTask
<1>12. CASE TaskDone(h)
  BY <1>12, <1>a DEF TaskDone
<1>13. CASE CompleteTask(h)
  BY <1>13, <1>a, MoveKinds DEF CompleteTask
<1>14. CASE Leave(h)
  BY <1>14, <1>a DEF Leave
<1>15. CASE ShutDown(h)
  BY <1>15, <1>a, MoveKinds DEF ShutDown
<1>16. CASE TakeInstance(h)
  BY <1>16, <1>a DEF TakeInstance
<1>17. CASE CloseInstance(h)
  BY <1>17, <1>a DEF CloseInstance
<1>18. CASE MarkStopped(h)
  BY <1>18, <1>a, MoveKinds DEF MarkStopped
<1>19. CASE Forget(h)
  BY <1>19, <1>a DEF Forget
<1> QED BY <1>1, <1>2, <1>3, <1>4, <1>5, <1>6, <1>7, <1>8, <1>9, <1>10, <1>11, <1>12,
           <1>13, <1>14, <1>15, <1>16, <1>17, <1>18, <1>19 DEF ManagerStep

LEMMA OtherTypes ==
  ASSUME GatewayTypeOK, KindsFit, NEW h \in Clients, OtherStep(h)
  PROVE  GatewayTypeOK'
<1> USE GatewayAssumption DEF GatewayTypeOK, Mishaps, Statuses, RequestKinds, GatewayTasks,
            GoesTo, Returns, backVars, recordVars, restVars
<1>a. {"idle", "check", "spawn", "insert", "register", "known", "leave"} \subseteq Awaits
  BY DEF Awaits
<1>1. ASSUME NEW kind \in RequestKinds, NEW await \in {"check", "leave", "known"},
             Begins(h, kind, await), gRow' \in Statuses
      PROVE  GatewayTypeOK'
  BY <1>1, <1>a DEF Begins
<1>2. CASE Create(h)
  BY <1>1, <1>2 DEF Create
<1>3. CASE Ask(h)
  BY <1>1, <1>3 DEF Ask
<1>4. CASE Drop(h)
  BY <1>4, <1>a DEF Drop
<1>5. CASE WriteStatus(h)
  <2>1. gKind[h] \in {"create", "start", "stop", "delete"}
    BY <1>5 DEF WriteStatus, KindsFit, AwaitsOf, Enrolling, Executing, Leaving
  <2>2. StatusAfter(gKind[h]) \in Statuses
    BY <2>1 DEF StatusAfter
  <2> QED BY <1>5, <1>a, <2>2 DEF WriteStatus
<1>6. CASE CheckMonitor(h)
  <2>1. CASE GoesTo(h, "spawn")
    BY <1>6, <1>a, <2>1 DEF CheckMonitor
  <2>2. CASE Returns(h)
    BY <1>6, <1>a, <2>2 DEF CheckMonitor
  <2> QED BY <1>6, <2>1, <2>2 DEF CheckMonitor
<1>7. CASE InsertMonitor(h)
  BY <1>7, <1>a DEF InsertMonitor
<1>8. ASSUME NEW k \in GatewayTasks, SpawnTask(h, k)
      PROVE  GatewayTypeOK'
  BY <1>8, <1>a DEF SpawnTask
<1> QED BY <1>2, <1>3, <1>4, <1>5, <1>6, <1>7, <1>8 DEF OtherStep

\* A kernel task after three errors is over, so it counts no fourth one.
LEMMA TaskTypes ==
  ASSUME GatewayTypeOK, NEW k \in GatewayTasks, TaskStep(k)
  PROVE  GatewayTypeOK'
<1> USE GatewayAssumption DEF GatewayTypeOK, Mishaps, Statuses, recordVars, requestVars, restVars
<1>1. CASE InitTask(k)
  <2>1. gRow' \in Statuses
    BY <1>1 DEF InitTask, HasRow
  <2>2. /\ gTask' \in [GatewayTasks -> {"unborn", "init", "loop", "ended"}]
        /\ UNCHANGED <<gMonitor, gErrors, recordVars, requestVars>>
    BY <1>1 DEF InitTask
  <2>3. gMishaps' \in 0..MaxMishaps /\ UNCHANGED <<gAsked, gLoose>>
    BY <1>1 DEF InitTask
  <2>4. gDisturbed' \in BOOLEAN
    <3>1. CASE gDisturbed' = TRUE
      BY <3>1
    <3>2. CASE UNCHANGED gDisturbed
      BY <3>2
    <3> QED BY <1>1, <3>1, <3>2 DEF InitTask
  <2> QED BY <2>1, <2>2, <2>3, <2>4
<1>2. ASSUME NEW queried \in BOOLEAN, NEW beaten \in BOOLEAN, Heartbeat(k, queried, beaten)
      PROVE  GatewayTypeOK'
  <2>1. gErrors'[k] \in 0..3 /\ gErrors' = [gErrors EXCEPT ![k] = gErrors'[k]]
    BY <1>2 DEF Heartbeat, Round
  <2>2. gTask' \in [GatewayTasks -> {"unborn", "init", "loop", "ended"}]
    BY <1>2 DEF Heartbeat, Round
  <2> QED BY <1>2, <2>1, <2>2 DEF Heartbeat, Round
<1> QED BY <1>1, <1>2 DEF TaskStep

LEMMA TypesKept ==
  ASSUME GatewayTypeOK, KindsFit, GatewayNext
  PROVE  GatewayTypeOK'
<1>1. CASE CancelMonitoring
  BY <1>1, GatewayAssumption
     DEF CancelMonitoring, GatewayTypeOK, recordVars, requestVars
<1> QED BY <1>1, StepsOfAll, ManagerTypes, OtherTypes, TaskTypes

(***************************************************************************)
(* Kernel tasks                                                            *)
(***************************************************************************)
LEMMA IdleHasNoTask ==
  ASSUME KindsFit, NEW h \in Clients
  PROVE  gSpawned[h] # 0 => gAt[h] \notin {"idle", "check", "spawn"}
BY DEF KindsFit, AwaitsOf, Enrolling, Executing, Leaving

\* A start replaces an entry only if something was disturbed (Undisturbed), and
\* then a kernel task is loose.
LEMMA TasksMonitored ==
  ASSUME GatewayTypeOK, KindsFit, MonitoredOrLoose, Undisturbed, GatewayNext
  PROVE  MonitoredOrLoose'
<1> USE DEF MonitoredOrLoose, GatewayTypeOK, Alive, GoesTo, Returns, backVars, recordVars,
            requestVars, restVars, GatewayTasks
<1>a. ASSUME UNCHANGED <<gLoose, gMonitor, gTask>>,
             \A g \in Clients : gAt[g] = "insert" => gAt'[g] = "insert" /\ gSpawned'[g] = gSpawned[g]
      PROVE  MonitoredOrLoose'
  <2>1. \A k \in GatewayTasks : Alive(k)' <=> Alive(k)
    BY <1>a
  <2>2. CASE gLoose
    BY <1>a, <2>2
  <2>3. CASE ~gLoose
    <3>1. ASSUME NEW k \in GatewayTasks, Alive(k)'
          PROVE  (k = gMonitor \/ \E h \in Clients : gAt[h] = "insert" /\ gSpawned[h] = k)'
      <4>1. k = gMonitor \/ \E h \in Clients : gAt[h] = "insert" /\ gSpawned[h] = k
        BY <2>1, <2>3, <3>1
      <4> QED BY <1>a, <4>1
    <3> QED BY <3>1
  <2> QED BY <2>2, <2>3
<1>1. ASSUME NEW h \in Clients, ManagerStep(h)
      PROVE  MonitoredOrLoose'
  <2>1. UNCHANGED <<gLoose, gMonitor, gTask>> /\ gAt[h] # "insert"
    BY <1>1, ManagerFrame
  <2>2. \A g \in Clients : g # h => gAt'[g] = gAt[g] /\ gSpawned'[g] = gSpawned[g]
    BY <1>1, ManagerOthers
  <2> QED BY <1>a, <2>1, <2>2
<1>2. ASSUME NEW h \in Clients, Create(h) \/ Ask(h)
      PROVE  MonitoredOrLoose'
  <2>1. UNCHANGED <<gLoose, gMonitor, gTask, gSpawned>> /\ gAt[h] = "idle"
    BY <1>2 DEF Create, Ask, Begins
  <2>2. \A g \in Clients : g # h => gAt'[g] = gAt[g]
    BY <1>2 DEF Create, Ask, Begins
  <2> QED BY <1>a, <2>1, <2>2
<1>3. ASSUME NEW h \in Clients, Drop(h)
      PROVE  MonitoredOrLoose'
  BY <1>3 DEF Drop
<1>4. ASSUME NEW h \in Clients, WriteStatus(h) \/ CheckMonitor(h)
      PROVE  MonitoredOrLoose'
  <2>1. UNCHANGED <<gLoose, gMonitor, gTask>> /\ gAt[h] # "insert"
    BY <1>4 DEF WriteStatus, CheckMonitor
  <2>2. \A g \in Clients : g # h => gAt'[g] = gAt[g] /\ gSpawned'[g] = gSpawned[g]
    BY <1>4 DEF WriteStatus, CheckMonitor
  <2> QED BY <1>a, <2>1, <2>2
<1>5. ASSUME NEW h \in Clients, InsertMonitor(h)
      PROVE  MonitoredOrLoose'
  BY <1>5 DEF InsertMonitor, Undisturbed
<1>6. ASSUME NEW h \in Clients, NEW k \in GatewayTasks, SpawnTask(h, k)
      PROVE  MonitoredOrLoose'
  BY <1>6 DEF SpawnTask
<1>7. ASSUME NEW k \in GatewayTasks, InitTask(k)
      PROVE  MonitoredOrLoose'
  BY <1>7 DEF InitTask
<1>8. ASSUME NEW k \in GatewayTasks, NEW queried \in BOOLEAN, NEW beaten \in BOOLEAN,
             Heartbeat(k, queried, beaten)
      PROVE  MonitoredOrLoose'
  BY <1>8 DEF Heartbeat, Round
<1>9. CASE CancelMonitoring
  BY <1>9 DEF CancelMonitoring
<1> QED BY <1>1, <1>2, <1>3, <1>4, <1>5, <1>6, <1>7, <1>8, <1>9, StepsOfAll
        DEF OtherStep, TaskStep

LEMMA UndisturbedStays ==
  ASSUME GatewayTypeOK, KindsFit, Undisturbed, GatewayNext
  PROVE  Undisturbed'
<1> USE DEF Undisturbed, GatewayTypeOK, KindsFit, HasRow, Alive, GoesTo, Returns, backVars,
            recordVars, requestVars, restVars, GatewayTasks
<1>a. ASSUME UNCHANGED <<gRow, gMonitor, gTask, gDisturbed>>,
             \A g \in Clients :
               /\ gAt'[g] # "idle" => gAt[g] # "idle"
               /\ gAt'[g] \in {"spawn", "insert"} => gAt[g] \in {"spawn", "insert"}
               /\ gSpawned'[g] # 0 => gSpawned'[g] = gSpawned[g]
      PROVE  Undisturbed'
  BY <1>a
<1>1. ASSUME NEW h \in Clients, ManagerStep(h)
      PROVE  Undisturbed'
  <2>1. UNCHANGED <<gRow, gMonitor, gTask, gDisturbed>>
    BY <1>1, ManagerFrame
  <2>2. gAt[h] # "idle" /\ gAt'[h] \notin {"spawn", "insert"}
    BY <1>1, ManagerFrame
  <2>3. /\ gSpawned'[h] \in {0, gSpawned[h]}
        /\ \A g \in Clients : g # h => gAt'[g] = gAt[g] /\ gSpawned'[g] = gSpawned[g]
    BY <1>1, ManagerOthers
  <2> QED BY <1>a, <2>1, <2>2, <2>3
<1>2. ASSUME NEW h \in Clients, Create(h) \/ Ask(h)
      PROVE  Undisturbed'
  <2>1. gDisturbed' \/ \A g \in Clients : gAt[g] = "idle" /\ gSpawned[g] = 0
    BY <1>2, IdleHasNoTask DEF Create, Ask, Begins
  <2>2. HasRow'
    BY <1>2 DEF Create, Ask
  <2>3. /\ UNCHANGED <<gMonitor, gTask, gSpawned>>
        /\ gAt'[h] \notin {"spawn", "insert"}
        /\ \A g \in Clients : g # h => gAt'[g] = gAt[g]
    BY <1>2 DEF Create, Ask, Begins
  <2> QED BY <2>1, <2>2, <2>3
<1>3. ASSUME NEW h \in Clients, Drop(h)
      PROVE  Undisturbed'
  BY <1>3 DEF Drop
<1>4. ASSUME NEW h \in Clients, WriteStatus(h)
      PROVE  Undisturbed'
  <2>1. gAt[h] = "status" /\ UNCHANGED gDisturbed
    BY <1>4 DEF WriteStatus
  <2>2. gDisturbed \/ \A g \in Clients : g # h => gAt[g] = "idle" /\ gSpawned[g] = 0
    BY <2>1, IdleHasNoTask
  <2>3. gAt'[h] = "idle" /\ gSpawned'[h] = 0
    BY <1>4 DEF WriteStatus
  <2>4. \A g \in Clients : g # h => gAt'[g] = gAt[g] /\ gSpawned'[g] = gSpawned[g]
    BY <1>4 DEF WriteStatus
  <2>5. gDisturbed' \/ \A g \in Clients : gAt'[g] = "idle" /\ gSpawned'[g] = 0
    BY <2>1, <2>2, <2>3, <2>4
  <2> QED BY <2>5
<1>5. ASSUME NEW h \in Clients, CheckMonitor(h)
      PROVE  Undisturbed'
  BY <1>5 DEF CheckMonitor
<1>6. ASSUME NEW h \in Clients, InsertMonitor(h)
      PROVE  Undisturbed'
  BY <1>6 DEF InsertMonitor
<1>7. ASSUME NEW h \in Clients, NEW k \in GatewayTasks, SpawnTask(h, k)
      PROVE  Undisturbed'
  BY <1>7 DEF SpawnTask
<1>8. ASSUME NEW k \in GatewayTasks, InitTask(k)
      PROVE  Undisturbed'
  <2>1. gDisturbed' \/ (UNCHANGED gDisturbed /\ gRow' = IF HasRow THEN "running" ELSE gRow)
    BY <1>8 DEF InitTask
  <2>2. UNCHANGED <<gMonitor, gAt, gSpawned>> /\ \A l \in GatewayTasks : Alive(l) => Alive(l)'
    BY <1>8 DEF InitTask
  <2>3. \A g \in Clients : gSpawned[g] # 0 => gSpawned[g] \in GatewayTasks /\ gAt[g] # "idle"
    BY IdleHasNoTask
  <2>4. ASSUME ~gDisturbed', NEW g \in Clients, gAt[g] # "idle"
        PROVE  HasRow' /\ gRow' = "running"
    BY <2>1, <2>4
  <2> QED BY <2>1, <2>2, <2>3, <2>4
<1>9. ASSUME NEW k \in GatewayTasks, NEW queried \in BOOLEAN, NEW beaten \in BOOLEAN,
             Heartbeat(k, queried, beaten)
      PROVE  Undisturbed'
  BY <1>9 DEF Heartbeat, Round
<1>10. CASE CancelMonitoring
  BY <1>10 DEF CancelMonitoring
<1> QED BY <1>1, <1>2, <1>3, <1>4, <1>5, <1>6, <1>7, <1>8, <1>9, <1>10, StepsOfAll
        DEF OtherStep, TaskStep

\* The row comes to say initializing or running by a request whose kernel task
\* lives, or by the kernel task itself; a kernel task that ends leaves a row
\* that says stopped or deleted.
LEMMA RunningStaysServed ==
  ASSUME GatewayTypeOK, KindsFit, Undisturbed, RunningHasItsTask, GatewayNext
  PROVE  RunningHasItsTask'
<1> USE DEF RunningHasItsTask, AliveTasks, Alive, GatewayTypeOK, GoesTo, Returns, backVars,
            recordVars, requestVars, restVars, GatewayTasks
<1>1. ASSUME NEW h \in Clients, ManagerStep(h)
      PROVE  RunningHasItsTask'
  BY <1>1, ManagerFrame
<1>2. ASSUME NEW h \in Clients, Create(h) \/ Ask(h)
      PROVE  RunningHasItsTask'
  BY <1>2 DEF Create, Ask, Begins
<1>3. ASSUME NEW h \in Clients, Drop(h)
      PROVE  RunningHasItsTask'
  BY <1>3 DEF Drop
<1>4. ASSUME NEW h \in Clients, WriteStatus(h)
      PROVE  RunningHasItsTask'
  <2>1. gKind[h] \in {"create", "start", "stop", "delete"}
    BY <1>4 DEF WriteStatus, KindsFit, AwaitsOf, Enrolling, Executing, Leaving
  <2>2. CASE gKind[h] \in {"create", "start"}
    <3>1. gDisturbed \/ Alive(gSpawned[h])
      BY <1>4, <2>2 DEF WriteStatus, KindsFit, Undisturbed
    <3> QED BY <1>4, <2>2, <3>1 DEF WriteStatus, KindsFit
  <2>3. CASE gKind[h] \in {"stop", "delete"}
    BY <1>4, <2>3 DEF WriteStatus, StatusAfter
  <2> QED BY <2>1, <2>2, <2>3
<1>5. ASSUME NEW h \in Clients, CheckMonitor(h) \/ InsertMonitor(h)
      PROVE  RunningHasItsTask'
  BY <1>5 DEF CheckMonitor, InsertMonitor
<1>6. ASSUME NEW h \in Clients, NEW k \in GatewayTasks, SpawnTask(h, k)
      PROVE  RunningHasItsTask'
  BY <1>6 DEF SpawnTask
<1>7. ASSUME NEW k \in GatewayTasks, InitTask(k)
      PROVE  RunningHasItsTask'
  BY <1>7 DEF InitTask
<1>8. ASSUME NEW k \in GatewayTasks, NEW queried \in BOOLEAN, NEW beaten \in BOOLEAN,
             Heartbeat(k, queried, beaten)
      PROVE  RunningHasItsTask'
  BY <1>8 DEF Heartbeat, Round
<1>9. CASE CancelMonitoring
  BY <1>9 DEF CancelMonitoring
<1> QED BY <1>1, <1>2, <1>3, <1>4, <1>5, <1>6, <1>7, <1>8, <1>9, StepsOfAll
        DEF OtherStep, TaskStep

(***************************************************************************)
(* The record and the instance                                             *)
(***************************************************************************)
LEMMA AttendedFits ==
  Attended => RecordIsAttended
BY DEF Attended, RecordIsAttended

Attending == Enrolling \cup Executing \cup Leaving

\* Whoever attends to the record goes on, the record and the instance stay.
LEMMA QuietStep ==
  ASSUME Attended, ReadyHasInstance, UNCHANGED <<gRecord, gInstance, gOrphan>>,
         \A h \in Clients : gAt[h] \in Attending => gAt'[h] = gAt[h]
  PROVE  Attended' /\ ReadyHasInstance'
<1>1. ReadyHasInstance'
  BY DEF ReadyHasInstance, Attending, Enrolling
<1>2. Attended'
  BY DEF Attended, Attending, Enrolling, Executing, Leaving
<1> QED BY <1>1, <1>2

\* A request that goes on attending as it did.
LEMMA SameAttendance ==
  ASSUME Attended, ReadyHasInstance, NEW h \in Clients, GatewayTypeOK,
         UNCHANGED <<gRecord, gInstance, gOrphan>>,
         gAt' = [gAt EXCEPT ![h] = gAt'[h]],
         \/ gAt[h] \in {"build", "store"} /\ gAt'[h] \in {"build", "store"}
         \/ gAt[h] \in Executing /\ gAt'[h] \in Executing
         \/ gAt[h] \in Leaving /\ gAt'[h] \in Leaving
         \/ gAt[h] \notin Attending
  PROVE  Attended' /\ ReadyHasInstance'
<1>1. \A g \in Clients : g # h => gAt'[g] = gAt[g]
  BY DEF GatewayTypeOK
<1>2. ReadyHasInstance'
  BY <1>1 DEF ReadyHasInstance, Attending, Executing, Enrolling, Leaving
<1>3. Attended'
  BY <1>1 DEF Attended, Attending, Enrolling, Executing, Leaving
<1> QED BY <1>2, <1>3

LEMMA OthersAttend ==
  ASSUME GatewayTypeOK, KindsFit, Attended, ReadyHasInstance, NEW h \in Clients, OtherStep(h)
  PROVE  Attended' /\ ReadyHasInstance'
<1>1. CASE Drop(h)
  <2>1. CASE gOrphan'
    BY <1>1, <2>1 DEF Drop, Attended, ReadyHasInstance
  <2>2. CASE ~gOrphan'
    <3>1. gAt[h] \notin Attending /\ ~gOrphan
      BY <1>1, <2>2 DEF Drop, Attending
    <3>2. gAt' = [gAt EXCEPT ![h] = gAt'[h]] /\ UNCHANGED <<gRecord, gInstance>>
      BY <1>1 DEF Drop, Returns, GatewayTypeOK
    <3>3. gOrphan = FALSE /\ gOrphan' = FALSE
      BY <2>2, <3>1, OtherTypes DEF GatewayTypeOK
    <3> QED BY <3>1, <3>2, <3>3, SameAttendance
  <2> QED BY <2>1, <2>2
<1>2. CASE ~Drop(h)
  <2>1. UNCHANGED <<gRecord, gInstance, gOrphan>>
    BY <1>2 DEF OtherStep, Create, Ask, Begins, WriteStatus, CheckMonitor, InsertMonitor,
                SpawnTask, recordVars
  <2>2. gAt[h] \in {"idle", "check", "spawn", "insert", "status"}
    BY <1>2 DEF OtherStep, Create, Ask, Begins, WriteStatus, CheckMonitor, InsertMonitor,
                SpawnTask
  <2>3. gAt' = [gAt EXCEPT ![h] = gAt'[h]]
    BY <1>2 DEF OtherStep, Create, Ask, Begins, WriteStatus, CheckMonitor, InsertMonitor,
                SpawnTask, Returns, GoesTo, GatewayTypeOK
  <2> QED BY <2>1, <2>2, <2>3, SameAttendance DEF Attending, Enrolling, Executing, Leaving
<1> QED BY <1>1, <1>2

LEMMA ManagerAttends ==
  ASSUME GatewayTypeOK, KindsFit, BuiltToStore, Attended, ReadyHasInstance, NEW h \in Clients,
         ManagerStep(h)
  PROVE  Attended' /\ ReadyHasInstance'
<1>a. /\ gAt' = [gAt EXCEPT ![h] = gAt'[h]]
      /\ \A g \in Clients : g # h => gAt'[g] = gAt[g]
  BY ManagerFrame, ManagerOthers DEF GatewayTypeOK
<1> USE DEF Attended, ReadyHasInstance, Enrolling, Executing, Leaving
<1>1. CASE IsRegistered(h)
  BY <1>1, <1>a, SameAttendance DEF IsRegistered, recordVars, Attending
<1>2. CASE Enroll(h)
  <2>1. CASE gRecord = NoAgent
    <3>1. gAt'[h] = "begin" /\ gRecord'.kind = "Registered"
      BY <1>2, <2>1 DEF Enroll, GoesTo, Plain, GatewayTypeOK
    <3> QED BY <3>1
  <2>2. CASE gRecord # NoAgent
    BY <1>2, <1>a, <2>2, SameAttendance DEF Enroll, Attending
  <2> QED BY <2>1, <2>2
<1>3. CASE BeginInit(h)
  <2>1. CASE gRecord'.kind = "Initializing" /\ gAt'[h] = "build"
    BY <2>1
  <2>2. CASE UNCHANGED gRecord /\ gRecord.kind # "Registered"
    BY <1>3, <1>a, <2>2 DEF BeginInit
  <2> QED BY <1>3, <2>1, <2>2, MoveKinds, RefusalKinds DEF BeginInit, GoesTo, GatewayTypeOK
<1>4. CASE Build(h)
  BY <1>4, <1>a, SameAttendance DEF Build, GatewayTypeOK
<1>5. CASE BuildFails(h)
  BY <1>5 DEF BuildFails
<1>6. CASE StoreInstance(h)
  <2>1. gAt[h] = "store" /\ gAt'[h] = "ready" /\ UNCHANGED <<gRecord, gOrphan>>
    BY <1>6 DEF StoreInstance, GoesTo, GatewayTypeOK
  <2>2. gInstance' # 0
    BY <1>6 DEF StoreInstance, BuiltToStore
  <2> QED BY <1>a, <2>1, <2>2
<1>7. CASE BecomesReady(h)
  <2>1. CASE gRecord'.kind = "Idle" /\ gRecord.kind = "Initializing"
    BY <1>7, <1>a, <2>1 DEF BecomesReady
  <2>2. CASE UNCHANGED gRecord /\ gRecord.kind # "Initializing"
    BY <1>7, <1>a, <2>2 DEF BecomesReady
  <2> QED BY <1>7, <2>1, <2>2, MoveKinds, RefusalKinds DEF BecomesReady
<1>8. CASE Examine(h)
  BY <1>8, <1>a, SameAttendance DEF Examine, recordVars, Attending
<1>9. CASE Fetch(h)
  BY <1>9, <1>a, SameAttendance DEF Fetch, recordVars, Attending
<1>10. CASE StartTask(h)
  <2>1. CASE /\ gRecord'.kind = "Working" /\ gRecord'.task = h /\ gAt'[h] = "wait"
             /\ gRecord.kind = "Idle"
    BY <1>10, <1>a, <2>1 DEF StartTask
  <2>2. CASE UNCHANGED gRecord
    BY <1>10, <1>a, <2>2, SameAttendance DEF StartTask, Attending
  <2> QED BY <1>10, <2>1, <2>2, MoveKinds DEF StartTask, GoesTo, GatewayTypeOK
<1>11. CASE RunTask(h)
  BY <1>11, <1>a, SameAttendance DEF RunTask, recordVars, GoesTo, GatewayTypeOK
<1>12. CASE TaskDone(h)
  BY <1>12, <1>a, SameAttendance DEF TaskDone, recordVars, GoesTo, GatewayTypeOK
<1>13. CASE CompleteTask(h)
  <2>1. CASE gRecord'.kind = "Idle" /\ gRecord.kind = "Working"
    BY <1>13, <1>a, <2>1 DEF CompleteTask
  <2>2. CASE UNCHANGED gRecord /\ gRecord.kind # "Working"
    BY <1>13, <1>a, <2>2 DEF CompleteTask
  <2> QED BY <1>13, <2>1, <2>2, MoveKinds, RefusalKinds DEF CompleteTask
<1>14. CASE Leave(h)
  BY <1>14, <1>a, SameAttendance DEF Leave, recordVars, Attending
<1>15. CASE ShutDown(h)
  <2>1. CASE gRecord'.kind = "ShuttingDown"
    BY <1>15, <2>1 DEF ShutDown, GoesTo, GatewayTypeOK
  <2>2. CASE UNCHANGED gRecord
    BY <1>15, <1>a, <2>2, SameAttendance DEF ShutDown, Attending
  <2> QED BY <1>15, <2>1, <2>2, MoveKinds DEF ShutDown
<1>16. CASE TakeInstance(h)
  <2>1. gAt[h] = "take" /\ gAt'[h] \in {"close", "stopped"} /\ UNCHANGED <<gRecord, gOrphan>>
    BY <1>16 DEF TakeInstance, GatewayTypeOK
  <2> QED BY <1>a, <2>1
<1>17. CASE CloseInstance(h)
  BY <1>17, <1>a, SameAttendance DEF CloseInstance, recordVars, GoesTo, GatewayTypeOK
<1>18. CASE MarkStopped(h)
  <2>1. gAt[h] = "stopped" /\ gAt'[h] = "forget" /\ UNCHANGED <<gInstance, gOrphan>>
    BY <1>18 DEF MarkStopped, GoesTo, GatewayTypeOK
  <2>2. CASE gRecord'.kind = "Stopped"
    BY <2>1, <2>2
  <2>3. CASE UNCHANGED gRecord
    BY <1>a, <2>1, <2>3, SameAttendance
  <2> QED BY <1>18, <2>2, <2>3, MoveKinds DEF MarkStopped
<1>19. CASE Forget(h)
  BY <1>19 DEF Forget, NoAgent, Plain
<1> QED BY <1>1, <1>2, <1>3, <1>4, <1>5, <1>6, <1>7, <1>8, <1>9, <1>10, <1>11, <1>12,
           <1>13, <1>14, <1>15, <1>16, <1>17, <1>18, <1>19 DEF ManagerStep

LEMMA RecordAttended ==
  ASSUME GatewayTypeOK, KindsFit, BuiltToStore, Attended, ReadyHasInstance, GatewayNext
  PROVE  Attended' /\ ReadyHasInstance'
<1>1. ASSUME NEW k \in GatewayTasks, TaskStep(k)
      PROVE  Attended' /\ ReadyHasInstance'
  <2>1. UNCHANGED <<gRecord, gInstance, gOrphan, gAt>>
    BY <1>1 DEF TaskStep, InitTask, Heartbeat, Round, recordVars, requestVars
  <2> QED BY <2>1, QuietStep
<1>2. CASE CancelMonitoring
  <2>1. UNCHANGED <<gRecord, gInstance, gOrphan, gAt>>
    BY <1>2 DEF CancelMonitoring, recordVars, requestVars
  <2> QED BY <2>1, QuietStep
<1> QED BY <1>1, <1>2, StepsOfAll, ManagerAttends, OthersAttend

LEMMA StoresWhatIsBuilt ==
  ASSUME GatewayTypeOK, KindsFit, BuiltToStore, GatewayNext
  PROVE  BuiltToStore'
<1> USE DEF GatewayTypeOK, GoesTo, Returns
<1>1. ASSUME NEW h \in Clients, Build(h)
      PROVE  BuiltToStore'
  BY <1>1 DEF BuiltToStore, Build
<1>2. ASSUME NEW h \in Clients, ManagerStep(h), ~Build(h)
      PROVE  BuiltToStore'
  <2>1. gAt'[h] # "store"
    BY <1>2 DEF ManagerStep, IsRegistered, Enroll, BeginInit, BuildFails, StoreInstance,
                BecomesReady, Examine, Fetch, StartTask, RunTask, TaskDone, CompleteTask, Leave,
                ShutDown, TakeInstance, CloseInstance, MarkStopped, Forget, Enrolled, NotEnrolled
  <2>2. \A g \in Clients : g # h => gHeld'[g] = gHeld[g]
    BY <1>2 DEF ManagerStep, IsRegistered, Enroll, BeginInit, BuildFails, StoreInstance,
                BecomesReady, Examine, Fetch, StartTask, RunTask, TaskDone, CompleteTask, Leave,
                ShutDown, TakeInstance, CloseInstance, MarkStopped, Forget, Enrolled, NotEnrolled
  <2> QED BY <1>2, <2>1, <2>2, ManagerOthers DEF BuiltToStore
<1>3. ASSUME NEW h \in Clients, OtherStep(h)
      PROVE  BuiltToStore'
  <2>1. gAt'[h] # "store" /\ \A g \in Clients : g # h => gAt'[g] = gAt[g] /\ gHeld'[g] = gHeld[g]
    BY <1>3 DEF OtherStep, Create, Ask, Begins, Drop, WriteStatus, CheckMonitor, InsertMonitor,
                SpawnTask
  <2> QED BY <2>1 DEF BuiltToStore
<1>4. ASSUME UNCHANGED requestVars
      PROVE  BuiltToStore'
  BY <1>4 DEF BuiltToStore, requestVars
<1> QED BY <1>1, <1>2, <1>3, <1>4, StepsOfAll
        DEF TaskStep, InitTask, Heartbeat, Round, CancelMonitoring

(***************************************************************************)
(* The theorems                                                            *)
(***************************************************************************)
LEMMA GatewayStarts ==
  ASSUME GatewayInit
  PROVE  GatewayIInv
<1>1. GatewayTypeOK
  <2>1. /\ gRow \in Statuses /\ gRecord \in AgentState \cup {NoAgent}
        /\ gTask \in [GatewayTasks -> {"unborn", "init", "loop", "ended"}]
        /\ gAt \in [Clients -> Awaits]
        /\ gKind \in [Clients -> RequestKinds \cup {"none"}]
    BY DEF GatewayInit, Statuses, Awaits
  <2>2. /\ gMonitor \in 0..MaxGatewayTasks
        /\ gErrors \in [GatewayTasks -> 0..3] /\ gSpawned \in [Clients -> 0..MaxGatewayTasks]
    BY GatewayAssumption DEF GatewayInit
  <2>3. gBuilt \in 0..MaxInstances /\ gInstance \in 0..gBuilt /\ gHeld \in [Clients -> 0..gBuilt]
    BY GatewayAssumption DEF GatewayInit
  <2>4. gAsked \in 0..MaxAsked /\ gMishaps \in 0..MaxMishaps
    BY GatewayAssumption DEF GatewayInit
  <2>5. gOrphan \in BOOLEAN /\ gLoose \in BOOLEAN /\ gDisturbed \in BOOLEAN
    BY DEF GatewayInit
  <2> QED BY <2>1, <2>2, <2>3, <2>4, <2>5 DEF GatewayTypeOK
<1>2. KindsFit
  BY DEF GatewayInit, KindsFit, AwaitsOf
<1>3. AliveTasks = {} /\ MonitoredOrLoose
  BY DEF GatewayInit, MonitoredOrLoose, AliveTasks, Alive
<1>4. Undisturbed
  BY DEF GatewayInit, Undisturbed
<1>5. RunningHasItsTask
  BY DEF GatewayInit, RunningHasItsTask
<1>6. BuiltToStore
  BY DEF GatewayInit, BuiltToStore
<1>7. Attended /\ ReadyHasInstance
  BY DEF GatewayInit, Attended, ReadyHasInstance, NoAgent, Plain
<1> QED BY <1>1, <1>2, <1>3, <1>4, <1>5, <1>6, <1>7 DEF GatewayIInv

LEMMA GatewaySteps ==
  ASSUME GatewayIInv, [GatewayNext]_gatewayVars
  PROVE  GatewayIInv'
<1>1. CASE GatewayNext
  BY <1>1, TypesKept, KindsStillFit, TasksMonitored, UndisturbedStays, RunningStaysServed,
     StoresWhatIsBuilt, RecordAttended DEF GatewayIInv
<1>2. CASE UNCHANGED gatewayVars
  <2> USE <1>2 DEF gatewayVars, backVars, recordVars, requestVars, restVars, GatewayIInv
  <2>1. GatewayTypeOK'
    BY DEF GatewayTypeOK
  <2>2. KindsFit'
    BY DEF KindsFit
  <2>3. MonitoredOrLoose'
    BY DEF MonitoredOrLoose, Alive
  <2>4. Undisturbed'
    BY DEF Undisturbed, HasRow, Alive
  <2>5. RunningHasItsTask'
    BY DEF RunningHasItsTask, AliveTasks, Alive
  <2>6. BuiltToStore' /\ Attended' /\ ReadyHasInstance'
    BY DEF BuiltToStore, Attended, ReadyHasInstance
  <2> QED BY <2>1, <2>2, <2>3, <2>4, <2>5, <2>6
<1> QED BY <1>1, <1>2

LEMMA GatewayInvariance == GatewaySpec => []GatewayIInv
<1> QED BY GatewayStarts, GatewaySteps, PTL DEF GatewaySpec

\* The variables stay within their types, the counter of consecutive errors of a
\* kernel task among them, which ends at the third (agent_service.rs:445-525).
THEOREM GatewayTyping == GatewaySpec => []GatewayTypeOK
<1>1. GatewayIInv => GatewayTypeOK
  BY DEF GatewayIInv
<1> QED BY <1>1, GatewayInvariance, PTL

\* Who is alive is monitored or about to be, so there is one of them.
LEMMA OneIsAlive ==
  ASSUME GatewayTypeOK, MonitoredOrLoose
  PROVE  OneKernelTask
<1> SUFFICES ASSUME ~gLoose, \A h \in Clients : gAt[h] # "insert"
             PROVE  ~(Cardinality(AliveTasks) > 1)
  BY DEF OneKernelTask
<1>1. AliveTasks \subseteq {gMonitor}
  BY DEF AliveTasks, MonitoredOrLoose
<1>2. IsFiniteSet({gMonitor}) /\ Cardinality({gMonitor}) = 1
  BY FS_Singleton
<1>3. Cardinality(AliveTasks) \in Nat /\ Cardinality(AliveTasks) <= 1
  BY <1>1, <1>2, FS_Subset, FS_CardinalityType
<1> QED BY <1>3

\* An agent behind the gateway's API is accounted for, however many clients ask
\* and however their requests overlap, fail or are dropped: its kernel task, its
\* row, its record and its instance go together (agent_service.rs:97-188,
\* 445-525; task_monitor.rs:146-200; agent_runtime_manager.rs:311-519).
THEOREM AgentsAreAccountedFor == GatewaySpec => []AgentAccounted
<1>1. GatewayIInv => AgentAccounted
  BY OneIsAlive, AttendedFits DEF GatewayIInv, AgentAccounted
<1> QED BY <1>1, GatewayInvariance, PTL
=============================================================================
