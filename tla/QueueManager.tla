---------------------------- MODULE QueueManager ----------------------------
(***************************************************************************)
(* QueueManager (crates/agents/src/queue/manager.rs) and its workers       *)
(* (queue/worker_tasks.rs): four bounded queues, their pools of workers,   *)
(* the supervisor, the auto-scaler and shutdown.                           *)
(*                                                                         *)
(* An action is what an actor does between two awaits.  The handles and    *)
(* the infos of the workers are two vectors under two locks that the       *)
(* supervisor reads by index; `workers` holds worker slots, and a slot is  *)
(* used again when its handle is dropped.  Nested tasks are of one         *)
(* session.  A worker in "select" has a notified() future; the branch it   *)
(* takes drops it.                                                         *)
(***************************************************************************)
EXTENDS Integers, Sequences, SequencesExt, FiniteSets

CONSTANTS Tasks, NoTask,
          KindOf,         \* the queue each task is submitted to
          Pool,           \* the kinds of the initial workers, in spawning order
          ExtraWorkers,   \* slots for the auto-scaler; 0 when scaling is disabled
          Capacity,       \* channel capacity of each queue
          MaxConcurrent,  \* permits of the subagent semaphore
          MaxRestarts,    \* 10 in the code
          NestingLimit,   \* 5 in the code
          ScaleUp,        \* scale_up_threshold
          MaxSubagents,   \* max_workers
          W,              \* the depth counter wraps modulo W
          MaxPanics       \* bound on the panics of processors (TLC only)

Kinds == {"Main", "Cron", "Subagent", "Nested"}
Sequential == Kinds \ {"Subagent"}
Slots == 1..(Len(Pool) + ExtraWorkers)
Scaler == 0
Supervisor == -1

ASSUME QueueAssumption ==
  /\ NoTask \notin Tasks /\ IsFiniteSet(Tasks)
  /\ KindOf \in [Tasks -> Kinds]
  /\ Pool \in Seq(Kinds) /\ Pool # <<>>
  /\ \A i, j \in DOMAIN Pool : Pool[i] = Pool[j] /\ Pool[i] \in Sequential => i = j
  /\ Capacity \in [Kinds -> Nat \ {0}]
  /\ {ExtraWorkers, MaxRestarts, ScaleUp, MaxSubagents, MaxPanics} \subseteq Nat
  /\ {MaxConcurrent, NestingLimit, W} \subseteq Nat \ {0}

VARIABLES
  queue,     \* the four channels
  depth,     \* subagent_queue_depth
  permits,   \* free permits of the semaphore
  active,    \* nesting depth of the session
  submit,    \* where the submission of each task is
  kind,      \* what each slot's worker serves
  pc,        \* where each worker is in its loop
  task,      \* the task in the hands of each worker
  workers,   \* the handles, as slots
  infos,     \* worker_infos: kind and restart_count
  sup,       \* where the supervisor is
  scan,      \* its index into workers
  scaler,    \* where the auto-scaler is
  fresh,     \* the slot it has just spawned a worker in
  shutdown,  \* "no", "notified", "draining" or "done"
  woken,     \* actors whose notified() future has fired
  panics,    \* number of panics
  fate,      \* history: what became of each accepted task
  missed,    \* history: an actor did not act on the shutdown signal
  raced      \* history: handles and infos were paired when a push was half done

queues == <<queue, depth, permits, active, submit, fate, panics>>
pools == <<workers, infos, raced>>
signal == <<shutdown, woken, missed>>
vars == <<queues, pools, signal, kind, pc, task, sup, scan, scaler, fresh>>

Init ==
  /\ queue = [k \in Kinds |-> <<>>]
  /\ depth = 0
  /\ permits = MaxConcurrent
  /\ active = 0
  /\ submit = [t \in Tasks |-> "new"]
  /\ kind = [w \in Slots |-> IF w \in DOMAIN Pool THEN Pool[w] ELSE "Subagent"]
  /\ pc = [w \in Slots |-> IF w \in DOMAIN Pool THEN "spawned" ELSE "free"]
  /\ task = [w \in Slots |-> NoTask]
  /\ workers = [i \in DOMAIN Pool |-> i]
  /\ infos = [i \in DOMAIN Pool |-> [kind |-> Pool[i], restarts |-> 0]]
  /\ sup = "select"
  /\ scan = 1
  /\ scaler = IF ExtraWorkers = 0 THEN "exited" ELSE "select"
  /\ fresh = 1
  /\ shutdown = "no"
  /\ woken = {}
  /\ panics = 0
  /\ fate = [t \in Tasks |-> "none"]
  /\ missed = FALSE
  /\ raced = FALSE

\* The supervisor holds both locks while it scans, shutdown holds the lock of
\* the handles until it has awaited them all.
InfosFree == sup # "scan"
HandlesFree == sup # "scan" /\ shutdown # "draining"

\* The branch of a select that is not the shutdown one: a signal that had
\* reached x is lost with its future.
Overlooks(x) ==
  /\ woken' = woken \ {x}
  /\ missed' = (missed \/ x \in woken)
  /\ UNCHANGED shutdown

----------------------------------------------------------------------------
(* submit_main, submit_cron, submit_subagent, submit_nested.               *)

SubmitsTo(t, l) ==
  /\ IF Len(queue[KindOf[t]]) < Capacity[KindOf[t]]
     THEN /\ queue' = [queue EXCEPT ![KindOf[t]] = Append(@, t)]
          /\ submit' = [submit EXCEPT ![t] = l]
     ELSE /\ submit' = [submit EXCEPT ![t] = "rejected"]
          /\ UNCHANGED queue
  /\ UNCHANGED <<depth, permits, active, fate, panics, pools, signal, kind, pc, task,
                 sup, scan, scaler, fresh>>

\* A subagent task is sent first and counted afterwards.
Submit(t) ==
  /\ submit[t] = "new" /\ KindOf[t] # "Nested"
  /\ SubmitsTo(t, IF KindOf[t] = "Subagent" THEN "sent" ELSE "accepted")

CountSubagent(t) ==
  /\ submit[t] = "sent"
  /\ depth' = (depth + 1) % W
  /\ submit' = [submit EXCEPT ![t] = "accepted"]
  /\ UNCHANGED <<queue, permits, active, fate, panics, pools, signal, kind, pc, task,
                 sup, scan, scaler, fresh>>

\* The nesting depth is read, the lock dropped, the task sent.
CheckNesting(t) ==
  /\ submit[t] = "new" /\ KindOf[t] = "Nested"
  /\ submit' = [submit EXCEPT ![t] = IF active >= NestingLimit THEN "rejected" ELSE "checked"]
  /\ UNCHANGED <<queue, depth, permits, active, fate, panics, pools, signal, kind, pc,
                 task, sup, scan, scaler, fresh>>

SubmitNested(t) == submit[t] = "checked" /\ SubmitsTo(t, "accepted")

SubmitterStep(t) ==
  \/ Submit(t) \/ CountSubagent(t) \/ CheckNesting(t) \/ SubmitNested(t)

----------------------------------------------------------------------------
(* The workers.                                                            *)

WMoves(w, l) == pc' = [pc EXCEPT ![w] = l]
WUnchanged == UNCHANGED <<submit, kind, sup, scan, scaler, fresh, pools>>

\* The first poll of a worker; after a task it selects again without an await.
Start(w) ==
  /\ pc[w] = "spawned"
  /\ WMoves(w, "select")
  /\ WUnchanged /\ UNCHANGED <<queue, depth, permits, active, fate, panics, signal, task>>

\* What a worker does first with a task it received.
FirstStep(k) == CASE k = "Subagent" -> "count" [] k = "Nested" -> "enter" [] OTHER -> "process"

Receive(w) ==
  LET t == Head(queue[kind[w]]) IN
  /\ pc[w] = "select" /\ queue[kind[w]] # <<>>
  /\ queue' = [queue EXCEPT ![kind[w]] = Tail(@)]
  /\ task' = [task EXCEPT ![w] = t]
  /\ fate' = [fate EXCEPT ![t] = "taken"]
  /\ WMoves(w, FirstStep(kind[w]))
  /\ Overlooks(w)
  /\ WUnchanged /\ UNCHANGED <<depth, permits, active, panics>>

\* fetch_sub wraps below zero.
Uncount(w) ==
  /\ pc[w] = "count"
  /\ depth' = (depth - 1) % W
  /\ WMoves(w, "acquire")
  /\ WUnchanged /\ UNCHANGED <<queue, permits, active, fate, panics, signal, task>>

Acquire(w) ==
  /\ pc[w] = "acquire" /\ permits > 0
  /\ permits' = permits - 1
  /\ WMoves(w, "process")
  /\ WUnchanged /\ UNCHANGED <<queue, depth, active, fate, panics, signal, task>>

\* A session at its limit: the task is dropped with a warning.
EnterNested(w) ==
  /\ pc[w] = "enter"
  /\ IF active >= NestingLimit
     THEN /\ task' = [task EXCEPT ![w] = NoTask]
          /\ WMoves(w, "select")
          /\ UNCHANGED active
     ELSE /\ active' = active + 1
          /\ WMoves(w, "process")
          /\ UNCHANGED task
  /\ WUnchanged /\ UNCHANGED <<queue, depth, permits, fate, panics, signal>>

\* The permit is released at the end of the iteration, the nesting depth right
\* after the processor returned.
Processed(w) ==
  /\ pc[w] = "process"
  /\ permits' = IF kind[w] = "Subagent" THEN permits + 1 ELSE permits
  /\ active' = IF kind[w] = "Nested" THEN active - 1 ELSE active
  /\ task' = [task EXCEPT ![w] = NoTask]
  /\ WMoves(w, "select")
  /\ WUnchanged /\ UNCHANGED <<queue, depth, fate, panics, signal>>

\* Mutant: the permit is forgotten by an unwinding worker.
PanicsKeepingPermit(w) ==
  /\ pc[w] = "process" /\ panics < MaxPanics
  /\ panics' = panics + 1
  /\ fate' = [fate EXCEPT ![task[w]] = "panicked"]
  /\ task' = [task EXCEPT ![w] = NoTask]
  /\ WMoves(w, "finished")
  /\ WUnchanged /\ UNCHANGED <<queue, depth, active, permits, signal>>

\* A panic of the processor ends the worker.  Unwinding drops the permit; the
\* nesting depth stays.
Panics(w) ==
  /\ pc[w] = "process" /\ panics < MaxPanics
  /\ panics' = panics + 1
  /\ permits' = IF kind[w] = "Subagent" THEN permits + 1 ELSE permits
  /\ fate' = [fate EXCEPT ![task[w]] = "panicked"]
  /\ task' = [task EXCEPT ![w] = NoTask]
  /\ WMoves(w, "finished")
  /\ WUnchanged /\ UNCHANGED <<queue, depth, active, signal>>

WorkerExits(w) ==
  /\ pc[w] = "select" /\ w \in woken
  /\ woken' = woken \ {w}
  /\ WMoves(w, "finished")
  /\ WUnchanged
  /\ UNCHANGED <<queue, depth, permits, active, fate, panics, task, shutdown, missed>>

WorkerStep(w) ==
  \/ Start(w) \/ Receive(w) \/ Uncount(w) \/ EnterNested(w) \/ Processed(w)
  \/ WorkerExits(w)

----------------------------------------------------------------------------
(* start_supervisor.                                                       *)

SupUnchanged == UNCHANGED <<queues, task, scaler, fresh>>

\* The tick and the two locks: while it waits for shutdown to give up the
\* handles it might as well not have ticked.
SupervisorTicks ==
  /\ sup = "select" /\ shutdown # "draining"
  /\ sup' = "scan"
  /\ Overlooks(Supervisor)
  /\ SupUnchanged /\ UNCHANGED <<pools, kind, pc, scan>>

Finished == {i \in DOMAIN workers : i >= scan /\ pc[workers[i]] = "finished"}

\* Mutants: the limit is off by one, either way.
RestartsOnceMore(i) == i <= Len(infos) /\ infos[i].restarts <= MaxRestarts
RestartsOnceLess(i) == i <= Len(infos) /\ infos[i].restarts + 1 < MaxRestarts

\* Whether the finished handle at index i is replaced: its info says so, and a
\* handle beyond the infos has none.
Restarts(i) == i <= Len(infos) /\ infos[i].restarts < MaxRestarts

Replaced(s, i, x) == Append(RemoveAt(s, i), x)
Again(info) == [info EXCEPT !.restarts = @ + 1]

\* Mutant: the old info stays where it was.
HandleFinishedKeepingInfo(i) ==
  IF Restarts(i)
  THEN /\ workers' = Replaced(workers, i, workers[i])
       /\ infos' = Append(infos, Again(infos[i]))
       /\ kind' = [kind EXCEPT ![workers[i]] = infos[i].kind]
       /\ pc' = [pc EXCEPT ![workers[i]] = "spawned"]
  ELSE /\ workers' = RemoveAt(workers, i)
       /\ pc' = [pc EXCEPT ![workers[i]] = "free"]
       /\ UNCHANGED <<infos, kind>>

\* The handle and the info at index i are removed; the new ones are of the
\* kind the info names, and pushed at the end.
HandleFinished(i) ==
  IF Restarts(i)
  THEN /\ workers' = Replaced(workers, i, workers[i])
       /\ infos' = Replaced(infos, i, Again(infos[i]))
       /\ kind' = [kind EXCEPT ![workers[i]] = infos[i].kind]
       /\ pc' = [pc EXCEPT ![workers[i]] = "spawned"]
  ELSE /\ workers' = RemoveAt(workers, i)
       /\ infos' = IF i <= Len(infos) THEN RemoveAt(infos, i) ELSE infos
       /\ pc' = [pc EXCEPT ![workers[i]] = "free"]
       /\ UNCHANGED kind

\* Passing a handle that is not finished changes nothing, so a step goes to the
\* next finished one.
SupervisorHandles ==
  /\ sup = "scan" /\ Finished # {}
  /\ \E i \in Finished :
       /\ \A j \in Finished : i <= j
       /\ HandleFinished(i)
       /\ scan' = i
  /\ raced' = (raced \/ scaler = "info")
  /\ SupUnchanged /\ UNCHANGED <<sup, signal>>

SupervisorEnds ==
  /\ sup = "scan" /\ Finished = {}
  /\ sup' = "select"
  /\ scan' = 1
  /\ SupUnchanged /\ UNCHANGED <<pools, signal, kind, pc>>

SupervisorExits ==
  /\ sup = "select" /\ Supervisor \in woken
  /\ sup' = "exited"
  /\ woken' = woken \ {Supervisor}
  /\ SupUnchanged /\ UNCHANGED <<pools, kind, pc, scan, shutdown, missed>>

SupervisorStep ==
  SupervisorTicks \/ SupervisorHandles \/ SupervisorEnds \/ SupervisorExits

----------------------------------------------------------------------------
(* start_auto_scaling.                                                     *)

ScalerUnchanged == UNCHANGED <<queues, kind, task, sup, scan, raced, fresh>>

Subagents == {i \in DOMAIN infos : infos[i].kind = "Subagent"}

\* After the cooldown the counter is loaded and the subagent infos are counted
\* under their lock; a worker is spawned there and then ...
ScalerSpawns(w) ==
  /\ scaler = "select" /\ InfosFree
  /\ depth >= ScaleUp /\ Cardinality(Subagents) < MaxSubagents
  /\ w > Len(Pool) /\ pc[w] = "free"
  /\ scaler' = "handle"
  /\ pc' = [pc EXCEPT ![w] = "spawned"]
  /\ kind' = [kind EXCEPT ![w] = "Subagent"]
  /\ fresh' = w
  /\ Overlooks(Scaler)
  /\ UNCHANGED <<queues, task, sup, scan, pools>>

\* ... before its handle and its info are pushed, under one lock each.
ScalerPushesHandle ==
  /\ scaler = "handle" /\ HandlesFree
  /\ workers' = Append(workers, fresh)
  /\ fresh' = 1
  /\ scaler' = "info"
  /\ UNCHANGED <<queues, kind, task, sup, scan, raced, signal, infos, pc>>

ScalerPushesInfo ==
  /\ scaler = "info" /\ InfosFree
  /\ infos' = Append(infos, [kind |-> "Subagent", restarts |-> 0])
  /\ scaler' = "select"
  /\ ScalerUnchanged /\ UNCHANGED <<signal, workers, pc>>

\* A tick in the cooldown, or with nothing to add; it matters when it hides a
\* signal.
ScalerSkips ==
  /\ scaler = "select" /\ Scaler \in woken
  /\ Overlooks(Scaler)
  /\ ScalerUnchanged /\ UNCHANGED <<workers, infos, pc, scaler>>

ScalerExits ==
  /\ scaler = "select" /\ Scaler \in woken
  /\ scaler' = "exited"
  /\ woken' = woken \ {Scaler}
  /\ ScalerUnchanged /\ UNCHANGED <<workers, infos, pc, shutdown, missed>>

ScalerStep ==
  \/ \E w \in Slots : ScalerSpawns(w)
  \/ ScalerSkips \/ ScalerPushesHandle \/ ScalerPushesInfo \/ ScalerExits

----------------------------------------------------------------------------
(* shutdown.                                                               *)

ShutdownUnchanged == UNCHANGED <<queues, infos, raced, kind, pc, task, sup, scan, scaler, fresh>>

Listeners ==
  {w \in Slots : pc[w] = "select"}
    \cup (IF sup = "select" THEN {Supervisor} ELSE {})
    \cup (IF scaler = "select" THEN {Scaler} ELSE {})

\* Those who are not listening and have not left either.
Deaf ==
  {w \in Slots : pc[w] \notin {"select", "finished", "free"}}
    \cup (IF sup = "scan" THEN {Supervisor} ELSE {})
    \cup (IF scaler \in {"handle", "info"} THEN {Scaler} ELSE {})

\* Mutant: one waiter is notified.
NotifyOne ==
  /\ shutdown = "no"
  /\ shutdown' = "notified"
  /\ woken' \in {{x} : x \in Listeners}
  /\ missed' = (Deaf # {})
  /\ ShutdownUnchanged /\ UNCHANGED workers

\* notify_waiters reaches those who listen and stores nothing for the others.
Notify ==
  /\ shutdown = "no"
  /\ shutdown' = "notified"
  /\ woken' = Listeners
  /\ missed' = (Deaf # {})
  /\ ShutdownUnchanged /\ UNCHANGED workers

ShutdownLocks ==
  /\ shutdown = "notified" /\ sup # "scan"
  /\ shutdown' = "draining"
  /\ ShutdownUnchanged /\ UNCHANGED <<workers, woken, missed>>

\* Every handle is awaited in turn.
ShutdownEnds ==
  /\ shutdown = "draining"
  /\ \A i \in DOMAIN workers : pc[workers[i]] = "finished"
  /\ shutdown' = "done"
  /\ workers' = <<>>
  /\ ShutdownUnchanged /\ UNCHANGED <<woken, missed>>

Next ==
  \/ \E t \in Tasks : SubmitterStep(t)
  \/ \E w \in Slots : WorkerStep(w) \/ Acquire(w) \/ Panics(w)
  \/ SupervisorStep \/ ScalerStep
  \/ Notify \/ ShutdownLocks \/ ShutdownEnds

\* Tokio runs every task that is ready, processors return or panic, and its
\* mutexes and semaphores serve their waiters in order.
Fairness ==
  /\ \A w \in Slots : WF_vars(WorkerStep(w)) /\ SF_vars(Acquire(w))
  /\ WF_vars(SupervisorStep)
  /\ SF_vars(ShutdownLocks) /\ WF_vars(ShutdownEnds)

Spec == Init /\ [][Next]_vars /\ Fairness

----------------------------------------------------------------------------
(* Properties.                                                             *)

\* Every variable has its type.
TypeOK ==
  /\ queue \in [Kinds -> Seq(Tasks)]
  /\ depth \in 0..(W - 1)
  /\ permits \in 0..MaxConcurrent
  /\ active \in 0..NestingLimit
  /\ submit \in [Tasks -> {"new", "checked", "sent", "accepted", "rejected"}]
  /\ kind \in [Slots -> Kinds]
  /\ pc \in [Slots -> {"free", "spawned", "select", "count", "acquire", "enter",
                       "process", "finished"}]
  /\ task \in [Slots -> Tasks \cup {NoTask}]
  /\ workers \in Seq(Slots)
  /\ infos \in Seq([kind : Kinds, restarts : 0..MaxRestarts])
  /\ sup \in {"select", "scan", "exited"}
  /\ scan \in Nat \ {0}
  /\ scaler \in {"select", "handle", "info", "exited"}
  /\ fresh \in Slots
  /\ shutdown \in {"no", "notified", "draining", "done"}
  /\ woken \in SUBSET (Slots \cup {Scaler, Supervisor})
  /\ panics \in 0..MaxPanics
  /\ fate \in [Tasks -> {"none", "taken", "panicked"}]
  /\ missed \in BOOLEAN
  /\ raced \in BOOLEAN

In(l) == {w \in Slots : pc[w] = l}

DepthTracksQueue ==
  depth = (Len(queue["Subagent"]) + Cardinality(In("count"))
             - Cardinality({t \in Tasks : submit[t] = "sent"})) % W

PermitsConserved ==
  permits + Cardinality({w \in In("process") : kind[w] = "Subagent"}) = MaxConcurrent

NestingAccounted ==
  active = Cardinality({w \in In("process") : kind[w] = "Nested"})
             + Cardinality({t \in Tasks : KindOf[t] = "Nested" /\ fate[t] = "panicked"})

\* The three counters say what the work is, panics and restarts notwithstanding.
\* subagent_queue_depth is the length of the subagent queue but for the tasks
\* taken and not yet subtracted and the tasks sent and not yet added; when the
\* second are more than the first and the queue, it has wrapped
\* (manager.rs:694). Every permit of the semaphore is free or with a worker that
\* processes a subagent task. The nesting depth of a session is the number of
\* its tasks that are being processed and of those whose processor panicked:
\* only a panic leaks a level (worker_tasks.rs:331).
CountersAccountForWork ==
  DepthTracksQueue /\ PermitsConserved /\ NestingAccounted

\* "sequential - single worker" (manager.rs:280, 283, 299): however often workers are
\* restarted, the main, cron and nested queues have at most one worker each,
\* unless the supervisor paired handles and infos while the auto-scaler had
\* pushed one and not the other, or shutdown has drained the handles and kept
\* the infos (manager.rs:744), which an auto-scaler that missed the signal
\* goes on adding to.
Live(k) == {w \in Slots : kind[w] = k /\ pc[w] \notin {"free", "finished"}}
OneSequentialWorker ==
  raced \/ shutdown = "done" \/ \A k \in Sequential : Cardinality(Live(k)) <= 1

\* Every queue of the pool keeps a worker, or the supervisor will find a
\* finished one it may restart, unless the manager is shut down, the workers
\* of the queue panicked more often than max_restarts allows, or the
\* supervisor mixed up the infos as above.
PanicsOf(k) == Cardinality({t \in Tasks : KindOf[t] = k /\ fate[t] = "panicked"})
Restartable(k) ==
  \E i \in DOMAIN workers :
    pc[workers[i]] = "finished" /\ Restarts(i) /\ infos[i].kind = k
EveryQueueIsServed ==
  shutdown = "no" /\ ~raced =>
    \A k \in ToSet(Pool) :
      PanicsOf(k) > MaxRestarts \/ Live(k) # {} \/ Restartable(k)

\* When everyone was listening at the signal and nobody overlooked it, each
\* worker, the supervisor and the auto-scaler has left or is about to.
SignalReachesAll ==
  shutdown # "no" /\ ~missed =>
    /\ \A w \in Slots : pc[w] \in {"free", "finished"} \/ w \in woken
    /\ sup = "exited" \/ Supervisor \in woken
    /\ scaler = "exited" \/ Scaler \in woken

\* "Wait for all workers to complete" (manager.rs:743): shutdown returns.
ShutdownReturns == shutdown = "notified" ~> shutdown = "done"
=============================================================================
