# BeeBotOS: models and proofs

TLA+ specifications of the parts of BeeBotOS that decide what happens to an agent,
a workflow, a message or a payment: the agent state manager, the agent runtime with
its kernel task, the DAG scheduler and the queue manager; the kernel's executor,
channel and pipe underneath; the session pool, the execution of plans, the in-memory
message bus and the gateway's state store around them (`crates/`, Rust); the life of an
agent behind the gateway's API (`apps/gateway`, Rust); and three of the contracts
(`contracts/`, Solidity). TLC checks them on small instances; TLAPS proves every safety
property that a passing run checks, for every value of the constants. What is left to TLC
alone are the liveness properties and the six disagreements with the code's own words.

## 1. The system

### Components

| Component | State it keeps | Operations | What makes it correct |
|---|---|---|---|
| **Agent state manager** `agents/src/state_manager` | registry of records, vector of subscribers, table `agent_states` | register, unregister, transition, subscribe, snapshot and restore, clean-up, load, save | records coherent in every copy; tasks counted once; rows not older than what was settled; subscribers told in order and kept while alive |
| **Agent runtime** `agents/src/runtime/agent_runtime_impl.rs` | `agent_tasks`: a handle per agent | spawn, stop, send_command, execute_task, recover_agents | an active agent has somebody who serves it; clients learn what became of their requests |
| **Kernel task of an agent** `agents/src/kernel_integration.rs` | its request channel | run: start, initialize, serve, notice a shutdown, stop | reports every state it goes through; answers after it updated the state |
| **DAG scheduler** `agents/src/queue/dag_scheduler.rs` | instances with task states, ready queue, workers | submit_workflow, worker loop, retries, timeouts, shutdown | dependencies first; outcome final; a request in one place; workflows end |
| **Queue manager** `agents/src/queue/manager.rs`, `worker_tasks.rs` | four channels, workers and their infos, semaphore, nesting depths, depth counter | submit_*, worker loops, supervisor, auto-scaler, shutdown | counters account for the work; sequential queues have one worker; queues stay served; shutdown ends |
| Dead letter queue, subagent and nested helpers `agents/src/queue` | lists of tasks | push, retry, expire | no task lost or retried for ever |
| **Session pool** `agents/src/runtime/session_pool.rs` | sessions by id, queue of available ids, queue of requests | acquire, release, create, hibernate, wake, terminate, maintenance | no session leased to two tasks, leased to nobody, or idle and not findable |
| **Plans of an agent** `agents/src/agent_impl.rs`, `planning` | `active_plans`, the calls that execute a plan | create, execute, cancel, time out | success means every step was done; a plan is on the map while it matters |
| A2A, MCP, communication, memory, media, skills, LLM, tools, browser, wallet, DID, device, service mesh `agents/src/*` | caches, connections | mostly calls to other services | adapters; the deduplicator has a state machine of its own; the circuit breaker is called by its tests only |
| **Kernel scheduler and executor** `kernel/src/scheduler` | work queues, task states, handles, cancellation | spawn, poll, wake, cancel, await | a woken task is polled again; a cancelled one ends; awaiting returns |
| **Kernel IPC** `kernel/src/ipc` | bounded buffers, closed flags | send, recv, read, write, close | FIFO, nobody sleeps through a close |
| Kernel capabilities, security, resources, memory, storage, syscalls, WASM `kernel/src/*` | levels, limits, counters | check, allocate, release | monotone checks, limits kept |
| **Message bus** `message-bus/src` | patterns with their subscriptions, and back | publish, subscribe, unsubscribe, request | everyone who is subscribed all along gets the message once and in order |
| **Gateway library** `gateway-lib/src` | event log, cache of agents; token buckets | execute a command, load | the log is a possible history; a restart loads nothing stale |
| **Gateway's agents** `apps/gateway/src/services` | table `agents`, active monitors, registry of instances, kernel tasks | create, start, stop, delete, execute; heartbeats | row, kernel task, record and instance of an agent go together; a stopped agent's kernel task ends |
| **Contracts** `contracts/src` | streams, mandates, vesting schedules, deals and escrows, one balance per token | create, withdraw, release, cancel, revoke, refund | the balance covers what is owed; nothing is paid twice |
| Chain, crypto, P2P; brain; core, SDK, telemetry; apps | | | not concurrent cores of this program, or third-party protocols and numerical code |

### How they interact

An agent may be run in two ways. The second version of the gateway's API calls
`GatewayAgentRuntime`. `spawn` registers the agent with the
state manager, asks the kernel to run an `AgentKernelTask` and keeps the sending
end of its channel in `agent_tasks`. From then on runtime and kernel task talk in
two ways: requests through the channel (answered through a oneshot), and the
agent's *state*, which `stop` and `send_command` change in the state manager and
the kernel task reads between requests (`should_shutdown`). Every transition is
published to subscribers and saved to SQLite by the caller, after the registry
lock was released. After a start, `recover_agents` loads the table and spawns a
kernel task for every agent that is not in Error. The API proper goes another way:
`AgentService` writes the agent's row, spawns a kernel task that reads it and beats
(`task_monitor.rs` watches that task), and registers the agent with
`AgentRuntimeManager`, which moves the agent's record in the state manager and keeps
the instance that executes its tasks. The DAG scheduler and the queue
manager are independent pools of tokio tasks that share queues, maps and a
`Notify` for shutdown.

The kernel runs on an executor of its own: OS threads that poll futures from priority
queues, wakers that push them back, and `Scheduler` with its table of tasks beside it.
Its channel and its pipe block threads on condition variables. An agent that plans
asks the planning engine for a plan and executes its steps with the LLM. The session
pool, the bus and the state store are called by whoever needs them, from many tasks at
once, and keep no lock over two of their maps. The contracts are called by
transactions; the marketplace calls the escrow.

### What is hard

Locks are released between reading and acting (publish_event, spawn,
update_downstream_tasks, submit_nested, cleanup); saves and publications of two
transitions overtake each other; a kernel task outlives the handle that named it;
tasks time out while their executor runs on; `notify_waiters` reaches only those
who wait at that moment; handles and infos of workers are paired by index;
workers panic and are restarted; processes die between a change and its save; threads
unlock before they notify; a waker may fire while its task runs; a plan outlives its
call; several parties may close the same escrow.
`PROJECT.json` lists each hazard with its line and the properties that would
catch it.

## 2. Modules

| Module | Models | Used by |
|---|---|---|
| `AgentStates` | the agent state machine and its records, as operators | `AgentStateManager`, `AgentRuntime`, `GatewayAgents` |
| `AgentStateManager` | registry, rows, subscribers, callers of any number of agents | `AgentStateManagerProofs`, `MCAgentStateManager` |
| `AgentRuntime` | one agent id: callers, kernel tasks, recovery, saves | `AgentRuntimeProofs` |
| `DagScheduler` | one workflow instance, workers, health monitor, shutdown | `DagSchedulerProofs`, `MCDagScheduler` |
| `QueueManager` | queues, workers, supervisor, auto-scaler, shutdown | `QueueManagerProofs`, `MCQueueManager` |
| `BoundedFifo` | *abstract*: what a conduit promises | `IpcChannel`, `Pipe` |
| `IpcChannel` | the kernel's channel, its condition variables | `KernelProofs`, `MCKernel` |
| `Pipe` | the kernel's pipe, its close | `KernelProofs`, `MCKernel` |
| `KernelExecutor` | workers, queues, wakers, cancellation, `Scheduler` | `KernelProofs`, `MCKernel` |
| `SessionPool` | sessions, requests, processor, maintenance | `ServicesProofs`, `MCServices` |
| `AgentPlans` | plans, their map, the three ways to execute one | `ServicesProofs`, `MCServices` |
| `MemoryTransport` | the two maps of the in-memory bus, publishers | `ServicesProofs`, `MCServices` |
| `StateStore` | event log, cache, commands, restarts | `ServicesProofs`, `MCServices` |
| `GatewayAgents` | one agent of the gateway: requests, row, kernel tasks, record, instance | `GatewayAgentsProofs`, `MCServices`, `MCKernel` |
| `PaymentStreams` | streams, mandates and balances of `AgentPayment.sol` | `ContractsProofs`, `MCServices` |
| `VestingWallet` | the schedules of `VestingWallet.sol` | `ContractsProofs`, `MCServices` |
| `DealEscrow` | `A2ACommerce.sol` and `DealEscrow.sol` together | `ContractsProofs`, `MCServices` |

The `MC...` modules only give TLC the values a `.cfg` cannot write: symmetry sets,
the set of all dependency maps, pools and capacities. `MCKernel` and `MCServices` also
put side by side modules that share no state: a variable `running` says which of them
a behaviour is about, the others stutter in their initial states, and the state counts
add up. `MCAgentStateManager` does the same with `side`: a behaviour has long lives of
records and no subscribers, or short ones with subscribers.

**Grain.** An action is what an actor does under one acquisition of a lock or
between two awaits, whole. A program counter per actor says which await it is
at. Where a function takes a clone under a lock and uses it later, the clone is
part of the state.

### AgentStates

`compute_new_state` and `is_valid_transition` are the relations `Edges` and
`ValidPairs`; the code applies both and `NewState` is their conjunction. `Updated`
is the assignment `transition` makes to a record; `Reloaded` is a record after a
trip through the table (`parse_agent_state` gives a Working state an empty task
id). Timestamps are version numbers.

### AgentStateManager

`registry`, `db` and `snapshot` map agents to records. A call of `transition` or
`register_agent` goes through `publish` (loop under the read lock), `sweep` (the
dead indices, under the write lock) and `save` (the clone it took); `register_agent`
keeps the registry lock (`lockedBy`) until it has published and saves nothing.
`cleanup_stopped_agents` lists under one lock and unregisters under another.
`SaveFails` is the error branch. `Crash` empties the memory; `LoadFromDb` or
`LoadFails` is the next start. `attempt_recovery` is a `Transition` with Start and
`batch_transition` a sequence of `Transition`s. Subscribers are unbounded channels:
a send fails when and only when the receiver was dropped. The loop that removes dead
indices from the last to the first, each if it is below the length, keeps exactly the
elements at the other indices: `WithoutIndices` says it with their ranks (`Ascending`).

The history variables are `begun` (tasks begun), `removals`, `deadAt` (whether the
indices a call holds are still good), `seen` (newest version a subscriber was told
of) and `settled` (version of a row that agreed with the memory when no call was
in flight).

### AgentRuntime

One agent id. `saving[x]` is the clone actor x is about to save; an actor does
nothing else until it has saved. `handle` is the entry of `agent_tasks`, `kpc[k]`
where kernel task k is in `run`, `cpc` where callers are inside `spawn` or `stop`,
with a step per await: the check of the handle, the look at the record, the second
check, unregister, delete of the row, register, spawn in the kernel, insert. A
kernel task that exits drops its channel, and clients of queued requests see a
closed result channel. `Recovery` is the actor that loads and respawns after a
`Crash`. `unreported` remembers that the manager refused an Error report.

The kernel is taken to be configured, as it is in the gateway, and to poll every
task it was given. `execute_task_stream` differs from `execute_task` by a callback.
Publication is not repeated here: it touches no state the runtime reads.

### DagScheduler

One instance, since instances share the ready queue only. Submission stores the
instance, sets it Running, collects the Ready tasks and pushes them one by one.
Workers follow `start_worker`: listen (the `notified()` future exists from there
on), pop, mark Running, execute, `complete_task` or `fail_task`, then the two locks
of `update_downstream_tasks` and `check_workflow_completion`. `WorkerExits` may
happen at any await, with the request in hand, because the other branch of the
select is dropped there. `CheckWorkflowHealth` fails any set of Running tasks;
their executors go on, and a late result finds whatever status there is. `woken`
are the futures that `notify_waiters` has fired.

### QueueManager

Worker slots with a kind, a program counter and the task in hand; `workers` and
`infos` are the two vectors the supervisor reads by index. The scan of the
supervisor runs with both locks held, and passing over a handle that is not
finished changes nothing, so a step goes to the next finished index; workers may
finish during the scan. The tick and the two locks are one step. The auto-scaler
loads the counter, counts and spawns in one step (there is one await in between,
for the lock of the infos, and the counter is read before it: the threshold is
advice), then pushes handle and info under one lock each. `shutdown` holds
the lock of the handles while it awaits them. A worker is `spawned` until it is
first polled, which is when it starts to listen. Main and cron workers are
sequential workers without a counter; nested tasks are of one session. The depth
counter wraps modulo `W`, as `AtomicUsize` does modulo 2^64.

`missed` remembers that some actor was not listening at the signal or took the
other branch when both were ready, `raced` that the supervisor handled a finished
worker while the auto-scaler had pushed a handle and not yet its info.

### BoundedFifo, IpcChannel, Pipe

`BoundedFifo` is the promise: items come out in order, none lost or repeated, at most
`Capacity` in between, nothing goes in after the end was announced. The channel and the
pipe keep history variables of what went in and came out, and implement it by
`INSTANCE ... WITH`. In both, a step is what a thread does while it holds the mutex.
`notify_one` comes after the unlock and is a step of its own, a wait may end without a
notification, and a woken thread looks again. In the pipe the closed flag has a mutex of
its own: a reader between its look at the flag and its wait, and a writer between its
look and its wait, hold the buffer (`pHolder`) while `close_pipe` sets the flag and
notifies.

### KernelExecutor

A worker pops the last entry of its queue, else steals, marks the task Running, reads
the cancellation version, checks, polls. A wake pushes the task whatever its state but
Zombie, so it may be in two queues; a second poll of a completed future panics and ends
the worker; a future that wakes itself while it is polled meets the mutex that
`execute_task` holds. `Scheduler::spawn` stores the handle after the push, and `cancel`
looks for it in between. `xExtra` remembers which tasks were woken while already
runnable, `xClean` which were cancelled while no worker had them.

### SessionPool

Looking for a session and assigning it are two steps under two locks, for callers and
for the assignment processor; so are changing a session's state and changing the queue
of available ids, and listing sessions for maintenance and acting on the list. A caller
that gives up leaves its request behind. `tainted` remembers sessions assigned or
hibernated when they were in use, `hidden` idle ones that a late hibernation took out of
the queue. Scores and the order of the queue only decide which session is found, which
is a choice here.

### AgentPlans

A plan is the numbers of its steps, the positions each depends on, and its metadata. The
chain planners give each step the one before; `Rebuilt` is what the loops under "Rebuild
dependencies" do, which append clones. `Executed` applies the cap. A call starts steps,
judges them when they have ended, and returns: one at a time, all at once with permits,
or in waves. Calls overlap, since every method takes `&self`. Replanning changes
statuses that no execution reads, so an adaptation executes the plan as it is.

### MemoryTransport, StateStore

The bus is two concurrent maps, and every access to an entry is a step; a publisher
visits the entries one by one. `TopicMatches` is the loop of `topic_matches` as a
recursive function, with one index because the code's two move together; it is compared
with the doc comment's words (`MatchesReference`) by an ASSUME of `MCServices` over all
patterns and topics of up to four segments, and by a theorem for all. A command of
the state store is validated, numbered, inserted and applied, with an await between two
of these; `Restart` may come anywhere and rebuilds the cache as `load_initial_state`
does. `Replay` folds a log with the `Apply` of the cache.

### GatewayAgents

One agent. A request is a step per await (`gAt`), and `Drop` ends it at any of them, as a
timeout of the router, a client that goes or an error of the database does. `gTask[k]` is
where kernel task k is in `run_agent_task`; it knows the agent by its row only. A
`Heartbeat` is the query of a round and its update, each of which may fail; three errors
in a row end the task. The monitor's entry (`gMonitor`) is written by a start and taken
away by `cancel_monitoring` only. An instance has a mutex, the registry of instances a
lock that `unregister_agent` keeps where it finds no instance. The gateway may start with
a row left by a crash and nothing else, so `GatewayInit` is also its restart. The
transition to Error of `register_agent` is a future that nobody awaits, and so no step.
That an agent executes one task at a time is not among the properties: a stop waits for
the mutex of the instance it took, and a second stop passes it and forgets the record, so
the agent can be started and given a task while the first one runs on. `gLoose`,
`gOrphan` and `gDisturbed` remember what the properties excuse: a kernel task
that nobody monitors, a request that ended with the record in its hands, requests that
overlapped or failed.

### PaymentStreams, VestingWallet, DealEscrow

A transaction is one step, and one that reverts is none. Amounts are integers with the
contract's rounded divisions, time is a counter. `DealEscrow` holds both contracts,
since `fundDeal` and `cancelDeal` act on both; closing an escrow directly, and another
address in the place of the marketplace, act on one. What a contract owes is a sum over
streams, schedules or escrows (`SumFunctionOnSet`).

## 3. What the runs check

| Run | Instance | Question |
|---|---|---|
| `agent_manager` | 1 agent, 2 callers, 1 task id; 7 record versions without subscribers, or 3 with 2 subscribers | copies of a record through overlapping calls, crashes, reloads, snapshots, failed saves; order of announcements, who is removed from the vector |
| `agent_sweep` | the same, 3 versions | *violated*: a sweep removes only dead subscribers |
| `agent_life` | 1 caller, 2 kernel tasks, 1 request, failing saves, crashes | served, answered in order, requests resolved, shutdown completes |
| `agent_stopped_row` | 1 caller, 2 kernel tasks, no failing save | *violated*: the row of a stopped agent says so |
| `dag_safety` | all dependency maps on 3 tasks (cyclic ones are refused), 2 workers, 1 retry | dependencies first, success final, one place, roots attempted |
| `dag_ends` | the same | *violated*: workflows end |
| `queue_workers` | nested and subagent worker, 1 scaled worker, 3 tasks, 2 panics, 1 restart each | counters, permits, nesting, one sequential worker, queues served, signal |
| `queue_shutdown` | nested and subagent worker, 2 tasks, no panics | *violated*: shutdown returns |
| `kernel` | 2 workers, 2 tasks of one home queue, one of them waking itself; channel of 2 with 2 senders and 2 receivers; pipe of 2 bytes with 1 reader and 2 writers; 1 client and 2 kernel tasks of a gateway's agent, 3 mishaps | who dies, blocks or sleeps and why; refinement of the FIFO; stopped agents' tasks end |
| `services` | each part as in `Services.cfg`: 3 sessions and 2 tasks; 2 calls of one plan; 2 subscriptions, 2 publishers; 2 clients of the store, 4 commands, 1 restart; 2 streams, a mandate, 2 schedules, 2 deals; 2 clients and 2 kernel tasks of a gateway's agent, 3 requests, 1 mishap | leases, plans, delivery, history, books; row, task, record and instance |
| `plan_truncated` | the plans of `AgentPlans` | *violated*: a plan over the cap runs one step at a time |
| `gateway_restart` | 1 client, 2 kernel tasks, 1 instance, 3 requests, 1 mishap | *violated*: a stopped agent can be started |

**Properties.**

- `WorkingNamesItsTask`: in memory, in the table, in a snapshot or in flight, a
  Working record names its task in `current_task_id`, and its state names the same
  or, reloaded, none.
- `NoTaskCountedTwice`: finished tasks and the one in work are no more than were
  begun, in every copy.
- `SettledRowNeverRegresses`: only overlapping calls make a row older than the
  memory; once the two agreed at rest, the row never goes behind that.
- `RegistrationAnnouncedFirst`: the lock held over the announcement does what it
  is for.
- `LiveSubscriberLostOnlyToStaleIndices`: the one way to lose a live subscriber is
  a sweep whose indices another removal shifted.
- `AgentIsServed`: an agent that says Idle, Working or Paused has a live kernel
  task, unless an Error report was refused (a Paused agent cannot become Error).
- `AnsweredIsNotWorking`, `RequestsResolved`, `ShutdownCompletes`: what a client
  and an operator may rely on.
- `DependenciesFirst`, `SuccessIsFinal`, `OnePlace`, `RootsAreAttempted`: what the
  scheduler keeps in spite of timeouts and late results.
- `CountersAccountForWork`: `subagent_queue_depth` is the queue plus the tasks taken
  and not yet subtracted, minus the tasks sent and not yet added, modulo 2^w (it does
  wrap, and that is the only way); permits and nesting levels are those of the tasks in
  work, except that a panic leaks the nesting level.
- `OneSequentialWorker`, `EveryQueueIsServed`: index-paired vectors survive any
  order of panics, restarts and exits, unless the supervisor acts between the two
  pushes of the auto-scaler. `OneSequentialWorker` stops at the end of `shutdown`, which
  drains the handles and leaves the infos: the pushes of an auto-scaler that missed the
  signal are then paired with the infos of workers that are gone.
- `SignalReachesAll`: shutdown works when everyone listens.
- `WorkersLostOnlyToWakes`: a kernel worker dies only on a task that was woken while
  runnable, and blocks only on one that wakes itself; other tasks are in one pair of
  hands.
- `CleanCancelIsFinal`, `ReadyIsServed`: a task cancelled while no worker had it does
  nothing more; a Ready task is executed as long as a worker is left, whichever queue it
  is in.
- `ChannelNoLostWakeup`, `PipeStallsExplained`: nobody sleeps over something to do in
  the channel; in the pipe only beside a write longer than the capacity, or as the one
  thread per side that looked at the flag before it was set.
- `ChannelImplementsFifo`, `PipeImplementsFifo`: the refinements.
- `SessionsAccounted`: sessions are shared only after a stale look, busy for nobody only
  after a caller gave up, idle and unfindable only after a late hibernation.
- `PlansAccounted` (`SuccessIsEarned`, `ActivePlansExplained`): a plan reported successful had every step
  of it done, in sequence with `continue_on_failure` apart; a plan is on the map because
  somebody runs it, made it and has yet to, or timed out.
- `PublishReachesAll`: a subscription in place all through a publish gets the message,
  once and in order, unless it went with an entry another had found empty.
- `LegalHistory`, `RecoveredIsReplay`: the log of an agent is a history that could have
  happened and the first restart loads all of it or nothing, unless two commands of the
  agent overlapped.
- `AgentAccounted` (`OneKernelTask`, `RunningHasItsTask`, `RecordIsAttended`,
  `ReadyHasInstance`): an agent has one kernel task unless one got loose from its monitor;
  an agent that says running has one, and a record on its way has a request that moves
  it, unless a request failed; an agent that takes tasks has its instance, or a
  registration or a stop under way.
- `StoppedTasksEnd`: the kernel tasks of an agent that stays stopped or deleted end,
  though nobody cancels them.
- `StreamsAccounted`, `SchedulesCovered`, `DealsCovered`: the balances are what is
  owed, in spite of rounding, cancellations, revocations, mandates, withdrawals, changes
  of fee and of marketplace, and of the several parties that may close an escrow.

**Disagreements with what the code says of itself** (the six runs that end in a
violation):

1. `SweepRemovesOnlyDead`: "Remove in reverse order to maintain correct indices"
   (`state_manager/mod.rs:570`); another sweep between the two locks makes the
   indices wrong.
2. `StoppedRowIsCurrent`: `recover_agents` "restores all agents that were in a
   non-terminal state (not Stopped or Error)" (`agent_runtime_impl.rs:242`); saves
   land out of order, the row of a stopped agent says ShuttingDown, and the next
   start brings it back.
3. `WorkflowEnds`: "explicit task dependency management with topological
   ordering" (`dag_scheduler.rs:3`); tasks that become ready and tasks to retry are
   queued by nobody.
4. `ShutdownReturns`: "Wait for all workers to complete" (`manager.rs:743`); a
   worker busy at the signal never hears of it.
5. `TruncatedPlanIsSequential`: "For safety, we execute sequentially"
   (`agent_impl.rs:1432`); the plan that is left has its first steps without
   dependencies, which start at once, and clones of all but the first after them.
6. `StoppedCanStart`: "This is used when a previously stopped agent is started again"
   (`agent_service.rs:152`); the monitor of the kernel task that ended is never
   forgotten, so `spawn_and_monitor` refuses.

Others were met while modelling and are part of the models without a run of their own
(`PROJECT.json`, "findings", quotes each with its line): a receiver that waits when the
last `Sender` is dropped; a pipe write longer than the free room, which notifies nobody
before it waits; the thief that takes the most urgent task; the bus entry removed after
it was found empty, and the response subscription a refused request leaves behind; the
state store, which loads an agent only when its latest row is its registration and
starts its sequence again; the stream whose cancellation pays the recipient nothing;
mandates in Ether paid out of the streams' money; plans of the hybrid planner whose
steps run twice; success with failed steps, and failed steps retried for ever, under
`continue_on_failure`; plans that stay active after a timeout; the deal that can never
be completed, is paid twice in a token, and cannot be cancelled after a direct refund;
the rest of a release that stays in the escrow; services whose price is set to 0; a stop that
looks for the kernel task where nobody writes its id; `running` written over a stop two
seconds after the start; the transition to Error that is never awaited.

**Bounds.** `MaxVersion` bounds the versions of records, hence the number of
transitions and registrations; 7 are enough for an agent to be registered,
started, put to work, finish and be shut down with calls overlapping, and 3 for
two publications and a sweep in between. `MaxKTasks` = 2 gives an agent an old and
a new incarnation. Three tasks contain every shape two dependencies can have
(chain, fork, join); two workers are enough for two completions to meet in
`update_downstream_tasks`. `MaxPanics`, `MaxRestarts` and `NestingLimit` are small so
that the limits are reached; `W` = 8 is larger than the number of tasks, so that
the counter wraps below zero and not above. One agent is enough in the state
manager because calls touch one agent only, and the subscribers and snapshots they
share are modelled.

In `kernel`, two tasks of one home queue let the other worker steal, one Pending poll and
two outside calls let a wake, a cancellation or a shutdown meet each station of a worker;
two threads per side and a capacity of two let a notification go to the wrong thread, a
buffer be full and empty with both sides asleep; writes of one to three bytes are
shorter than, equal to and longer than the pipe. In `services`, two tasks compete for
two sessions with a third one to be created; a plan of four steps is over the cap of
three (which stands for `MAX_PLAN_STEPS` = 5), two calls share one plan; two
subscriptions and two publishers meet in one entry and one more matches by wildcard;
four commands take an agent from its registration to a task and its completion, with a
restart anywhere (no property speaks of a second one); divisions of 3 by 2 and 3 round, and two streams, schedules or deals
share a balance. Fees are 0 and the maximum of 500 basis points on a price of 40. Two
requests of a gateway's agent overlap at any two awaits and a third one follows, on two
kernel tasks and two instances; one mishap drops a request or fails a heartbeat. The run
`kernel` has a single client and three mishaps, enough for the three errors in a row that
end a kernel task.

**Symmetry** (callers of the state manager; subscribers; sessions; the two model values
that stand for clients, calls, streams, schedules and deals) is used in safety runs only.

**Deadlock** is not checked: every one of these systems may come to rest (nothing
to do, no request, bound reached), and rest in the wrong place is what the
liveness properties and their violations are about.

**Fairness.** `AgentRuntime`: weak fairness of each kernel task (the kernel polls
every task it has, and executions end because the LLM calls in them have timeouts)
and of each save (the database answers, with success or an error). Callers, clients
and crashes are not fair. `DagScheduler`: weak fairness of submission once it has
begun and of each worker (tokio runs every ready task, executors return); none of
the client, the monitor or shutdown. `QueueManager`: weak fairness of workers and
supervisor; strong fairness of acquiring a permit and of the lock taken by
shutdown, because tokio's semaphores and mutexes are first-in first-out; none for
submitters, the auto-scaler or panics. `KernelExecutor`: weak fairness of each worker (an
OS thread) and of each push that a spawn or a wake has begun; none of wakers,
cancellation or shutdown. `GatewayAgents`: weak fairness of each kernel task of an
agent, which sleeps and looks at its row for as long as it lives; none of the requests.
The other modules state no liveness.

## 4. What is proved

Eight modules hold the theorems. Each property is proved in the same way: an inductive
invariant (`...IInv`) that TLC checked on a run's instance first, a lemma per action that
the step preserves it, and a corollary per property. The theorems that a reader should
know of are listed in `PROJECT.json`; the lemmas are named after the action or the
operator they are about.

`DagSchedulerProofs` (of `Safety`, the specification without fairness, for any
finite set of tasks, any workers, workflows and retry limit):

- `Typing`, `DependenciesComeFirst`, `SuccessStays`, `RequestsInOnePlace`,
  `SomeTaskMayAlwaysGo`, `RootsAreNotLost`.

`AgentStateManagerProofs` (of `Spec`, for any agents, callers, subscribers, task ids
and bound):

- `Typing`, `WorkingIsCoherent`, `TasksCountedOnce`, `RegistrationFirst`,
  `SettledRowsStay`, and the action property `LiveSubscribersAreKept`.

`AgentRuntimeProofs` (of `Spec`, for any callers, requests and number of kernel tasks,
and saves that fail or not):

- `Typing`, `AgentsAreServed`, `AnswersFollowTheState`, `ClientsWaitForTheLiving`.

*The scheduler.* `DependenciesFirst` is not inductive: a task found ready under
the read lock is marked under the write lock later, and its dependencies must
still be Completed by then. `ReadyIsReady` says so, and it is kept because
Completed is for ever: `CompletedIsSettled` says that nobody who may still change a
status holds a Completed task, that such a task is in no queue and about to be
pushed by nobody. That needs requests to be in one place (`Apart`: `toQueue`, the
queue and the hands of workers are disjoint and hold a task once), which in turn
needs to know where submission is (`EarlyQuiet`: nothing moves before the ready
tasks are collected) and that only tasks without dependencies are ever queued
(`OnlyRootsMove`), which is what the code does (run `dag_ends`). When a success is
reported all tasks are Completed, hence settled, and `SuccessIsFinal` follows.
Cardinalities enter only at the end (`ApartIsOnePlace`).
`SomeTaskMayAlwaysGo` says what `validate_workflow` is good for: an order of the tasks
excludes every cycle (`OrderMeansNoCycle`: of the tasks of a cycle, the one the order puts
first has its dependencies outside), so among the tasks not yet Completed one has nothing
to wait for. A workflow that does not end (run `dag_ends`) is therefore never one that
waits on itself, but one with a task that nobody queues.

*The state manager.* The properties quantify over copies of records, so `IInv`
types every record (`Typed`), says that a caller inside a call knows its agent and
its record (`InCall`), that calls in flight carry different versions, none newer
than the clock (`Versions`), that only a registration holds the lock across an
await, with the newest version there is (`Locked`), and that no copy that can still
reach a row is older than what was settled (`Settled`). The vector of subscribers has an
invariant of its own, `Subscribed`: indices that no removal has shifted since a call
computed them still lie in the vector and belong to dropped receivers, because a new
subscriber goes to the end and a dropped receiver never opens again. With
`AscendingLists` (ranks fill 1 to the number of elements, an injection between finite sets of
one size) it follows that such a sweep loses nobody who is alive: `agent_sweep` violates
the comment in the code only through two sweeps between whose locks a third party removes.

*The agent runtime.* `AgentIsServed` is not inductive: the live kernel task may be the
one that has decided to report Stopped. `ServedBeforeStopping` asks for one that has not,
and an agent becomes active only by a step of such a task. It needs that nothing runs
before the recovery (`NothingBeforeRecovery`), that kernel tasks not yet spawned have
done nothing (`NextIsUnborn`), and that what waits to be saved is never a fresh
registration (`SavedNotRegistered`). `AnsweredIsNotWorking` needs that a request is in one
channel or one kernel task, once (`RequestsInOnePlace`), and that the task a Working
agent names is under execution (`WorkIsExecuted`). With the
types these are `RuntimeIInv`.

`KernelProofs`, of the channel (`ChannelSpec`, for any finite sets of senders and
receivers and any capacity):

- `ChannelTyping`, `NoLostWakeup`, and `ChannelIsFifo`, which shows that the channel
  implements `BoundedFifo`: `Send` maps to `Accept` of one message, `Recv` to
  `Deliver` of one message, `RecvClosed` to `EndOfStream`, and every other step to a
  stutter.

*The channel.* `ChannelNoLostWakeup` is not inductive: with two messages in the buffer
and one notifier left, the thread it wakes takes one message and the other receiver
sleeps on. What every step keeps is a count (`ChannelIInv`). While a receiver sleeps,
the threads on their way to one (senders about to notify, receivers already woken) are
at least as many as the messages; while a sender sleeps, those on their way to a sender
are at least as many as the free places. A push adds a message and a notifier; a pop
takes a message and at most one woken receiver; a notification hands the notifier's
place to the thread it wakes. For the refinement, what has come out followed by what is
in the buffer is what has gone in (`NothingLost`), and the end is announced only when
every Sender is gone, which is for ever (`EndIsFinal`).

`KernelProofs`, of the pipe (`PipeSpec`, for any finite sets of readers and writers, any
capacity and any lengths of the calls):

- `PipeTyping`, `StallsExplained`, and `PipeIsFifo`: what a round of `write` pushes is an `Accept`,
  what `read` takes is a `Deliver`, a read that returns 0 is `EndOfStream`.

*The pipe.* Here the notification follows the unlock and nobody counts: `notify_one`
may wake a thread that finds nothing to do. What survives (`PipeIInv`) is weaker than
in the channel. While writers sleep before an empty buffer, some reader is about to
notify or some writer is awake (`WritersServed`). While an only reader sleeps before
bytes, some writer is about to notify, or some writer is inside a call longer than the
capacity, which notifies only when it is complete (`ReaderServed`): with two readers
this is false, which is why `PipeStallsExplained` asks about one. `close_pipe` stores its
flag and notifies without the mutex, so it misses the one thread that has looked and not
yet slept; there is at most one on each side because it holds the mutex
(`HolderIsInside`, `ClosingMissesOne`). The end is final (`EndStays`) because a read
returns 0 only after the flag, with the mutex in its hands: no writer is then in its
loop and none begins. For the types, `PipeBounded` adds that the bytes that went in, with
those the writers inside their calls have still to push, are at most those that the calls
offered.

`QueueManagerProofs` (of `Spec`, for any finite set of tasks, any non-empty pool whose
sequential kinds occur once, and any capacities, limits and width of the counter):

- `Typing`, `CountersAlwaysAccount`, `SequentialStaysSequential`, `QueuesStayServed`,
  `NobodyIsForgotten`: every invariant of the run `queue_workers`.

*The queue manager.* The counters are cardinalities of sets of workers and tasks, so a
lemma (`MovingCounts`) says once what a worker that goes from one place to another does
to them, and the wrapping counter needs that adding or subtracting one commutes with the
remainder (`ModUp`, `ModDown`). That a panic leaks exactly one level needs a task to be
in one place (`TasksInOnePlace`). For the pool, `Paired` says that the two vectors have
the same length, up to the handle the auto-scaler is ahead with, and the same kinds; a
replacement then gives a slot the kind it had, so every slot keeps its first kind and a
sequential kind has the one slot the pool gave it. `EveryQueueIsServed` is not inductive
either: a worker that is dropped must have used up its restarts. `RestartsPaid` keeps the
accounts: restarts, and the one due to a finished worker, never exceed the panics of the
queue. It also covers the worker that panics between the two pushes, before it has an
info. `SignalStands` is the signal: after one that nobody missed, whoever is left listens
and is woken, so a step of anybody else would be a signal missed. `QueueIInv` was checked
with TLC on the instance of `queue_workers` before it was proved.

`GatewayAgentsProofs` (of `GatewaySpec`, for any clients and any bounds on kernel tasks,
instances, requests and mishaps):

- `GatewayTyping`, `AgentsAreAccountedFor`.

*The gateway's agents.* Of the four parts of `AgentAccounted`, `ReadyHasInstance` is
inductive once one knows that a request stores what it built (`BuiltToStore`), and
`RecordIsAttended` is, once it is written one state of the record at a time and names a
client for a Working one (`Attended`): whoever gives up its place has moved the record on,
or failed. `OneKernelTask` follows from `MonitoredOrLoose`: what is alive is monitored or
about to be, because an entry is replaced only where requests overlapped. That, and
`RunningHasItsTask`, need what holds while nothing was disturbed (`Undisturbed`): one
request at a time, for an agent with a row; a request that spawns found no monitor; the
kernel task it spawned lives, and has the row say running once it is in its loop, so that
no heartbeat ends it before the request has written the status. `KindsFit` says which
awaits are those of which request. The proof covers what the run `services` cannot: a
third client, a fourth request. An earlier version of the properties said that an agent
executes one task at a time, which held in the run and could not be proved: seven requests
refute it.

`KernelProofs`, of the executor (`ExecutorSpec`, for any workers, tasks, priorities and
bounds), and of the run that puts these together (`KernelTyping`):

- `ExecutorTyping`, `WorkersAreLostOnlyToWakes`, `CleanCancelsAreFinal`,
  `ReadyTasksAreNotLost`.

*The executor.* `ExecutorIInv` is about the *places* of a task: a queue, somebody about to
push it, a worker that popped it. A task that was never woken in a place is in at most one
(`OneEntryEach`), and in none once its future has completed (`DoneIsGone`): so the worker
that panics polled a task of `xExtra`. Both need that nobody can wake a task that was not
spawned (`UnspawnedNowhere`). `PlacesStep` says once what the twenty actions do to the
places: every step but a spawn or a wake of the task leaves it in at most as many as
before; the lemmas on `InsertAt` and `Front` say it of a push at any position and of a
pop. For the cancellation, `CleanIsSeen` says that a worker that holds a task cancelled
cleanly has yet to look at the token and has read no older version of it. It holds while
the version is 1: a second cancel raises the version between the two looks of a worker, and
the worker polls the task (`executor.rs:307-314`). `ExecutorIInv` was checked with TLC on
two workers, two tasks, two pending polls and three calls before it was proved.

`ContractsProofs` (of `EscrowSpec`, `PaymentSpec` and `VestingSpec`, for any deals,
streams, mandates, schedules, parties, tokens and amounts):

- `EscrowTyping`, `DealsAreCovered`; `PaymentTyping`, `StreamsAreAccountedFor`;
  `VestingTyping`, `SchedulesAreCovered`.

*The contracts.* The books are sums over finite sets, and a transaction changes one
summand, adds one or moves one from a sum to another. `SumFunctionOnSet` folds a function
over a set by choosing elements; that the fold exists and what it does to one element is an
induction on the set, done here by minimal counterexample: a family of subsets of a finite
set has a member with no other below it (`MinimalSubset`, from the library's theorem that the
strict subset order is well-founded). Rounding needs that a rounded share of an amount is at
most the amount, grows with time and is the whole amount at the end (`ShareBounds`,
`ShareGrows`, `DivExact`), so that what a recipient was paid is never ahead of what the clock
entitles to. The invariants add to the properties that an escrow not yet made has paid
nothing and no fee exceeds its amount (`EscrowMore`), that an active stream was refunded
nothing (`StreamFine`), that cliffs are within durations (`ScheduleFine`).

`ServicesProofs` (of `StoreSpec`, `PoolSpec`, `PlansSpec` and `BusSpec`, for any clients,
agents, states, sessions, tasks, plans, patterns, topics and bounds):

- `StoreTyping`, `HistoryIsLegal`, `RecoveryIsNeverStale`; `PoolTyping`,
  `SessionsAreAccountedFor`; `PlansTyping`, `PlansAreAccountedFor`; `BusTyping`,
  `PublishesArrive`; `TopicMatchesIsReference`, for all sequences of segments; and
  `ServicesTyping`, of the run that puts all of these, the contracts and the gateway's
  agents together.

*The state store.* For an agent that never had two commands under way at a time
(`OneAtATime`), `Mirrors` ties the cache to the log: the entry is the replay of the log or
nothing; between the insert of an event and its application, it is about to become so; and
what was valid when it was looked at still is. A row is appended where the replay allows it,
so every row stays lawful with respect to those before it (`LawfulRows`), which needs that
`Replay` of a log and one row more is a step of `Apply` and that rows of other agents change
nothing. Recovery needs `InOrder`, before the first restart: sequence numbers grow with the
log, so that the row with the largest one is the last, and if it is the registration the
replay is what is loaded.

*The session pool.* A session that no late look disturbed has at most one holder, none
when it could be given away, and when it is busy its task (`Undivided`). That needs to
know where tasks are: nobody is in the queue of requests twice, nor there while the
processor has its request or while it holds a session (`TasksPlaced`).

*The plans.* A call has a status for each step of what it executes, and returns success
only when none is left waiting or running (`CallFits`). A plan on the map has a call that
will take it off, unless it was made to be kept or timed out, and the plan of a call is on
the map or was taken off (`PlansHeld`). That the steps executed are those the cap leaves is
a fact about `Rebuilt` and `Executed`, proved for plans of any length.

*The bus.* A subscription that is being made or in place is in its entry unless it was
thrown out with one (`TableFits`); a message in an inbox is one its client has published,
and not the one it is publishing while the entry is still to be visited (`InboxFits`), so
none comes twice; and what a publish owes to a subscription in place is sent or still to be
sent (`PublishFits`). `TopicMatchesIsReference` is an induction on the length, again by
minimal counterexample (`NatMinimum`): the last index at which the loop and the reference
disagree has a next one at which they agree.

**Assumptions.** They are those of the modules, named in each: values that stand for nobody
or nothing are not among the things they are told from, bounds are naturals, sets that are
counted or summed are finite, pools and vectors have a sequential kind once, topics and
patterns are not empty, custom plans have the shape of plans. TLC evaluates them in every
run.

**Only model-checked.** The liveness properties (`RequestsResolved`, `ShutdownCompletes`,
`RootsAreAttempted`, `ReadyIsServed`, `StoppedTasksEnd`): fairness and `ENABLED` are beyond
the prover. Of three of them the safety half is proved, with invariants of their own on
top of the `IInv`s: what has to be served is never lost on the way. A request whose client
waits is with a kernel task that runs (`ClientsWaitForTheLiving`), a root that was not
given to a worker is queued or about to be (`RootsAreNotLost`), a Ready task is queued,
about to be pushed, or popped and not begun (`ReadyTasksAreNotLost`); that somebody goes on
serving is what the runs show under fairness. The six violations are TLC's by nature.

## 5. What is not modelled

- In the modelled components: metadata, messages, statistics other than the number
  of tasks, events and metrics; several workflow instances or nested sessions at
  once; an agent's panic inside its kernel task; `execute_task_stream`, which
  differs by a callback; undrained event channels.
- Kernel: the clean-up of finished tasks after 300 seconds, `complete`, `block` and
  `unblock` of a `TaskInfo`, the deprecated `submit`; shared memory, message queues by
  name and the IPC manager; capabilities, security, resources, memory, storage,
  syscalls, WASM.
- Session pool: `stop`, statistics and scores. Between two rounds the assignment
  processor takes back a request it cannot serve and takes it again at once
  (`session_pool.rs:871`), which the model shows as a cycle and no property asks about.
- Planning: the text matching of the decomposer, the `PlanExecutor` (given to agents,
  never used to execute), storage and expiry of plans, what a step asks of the LLM.
  `current_plan_goal` is overwritten by every task that plans and read by every step: a
  step may carry another task's goal; goals are not modelled.
- Bus: the router above the transport, persistence, the networked transports.
- Gateway library: queries, broadcasts and statistics of the state store; HTTP
  middleware, discovery, rate limiter.
- Gateway's agents: updates of an agent's fields and status, capabilities, logs, history
  and the times of heartbeats; the state machine service, with which only its tests
  register agents; several agents, which share nothing but the two maps.
- Contracts: upgrades, timelocks (they do later what the direct setters do),
  replacing the escrow, lists of ids, and the contracts that hold no money of several
  parties: identity, registry, reputation, skills; bridge, governance, treasury and
  token. `completeDeal` reverts always and has no action.
- The circuit breaker of the service mesh: nothing but its tests calls it.
- LLM, memory, media, tools, browser, wallet, chain, P2P and the apps: I/O and data
  transformation around services this repository does not contain.
- The brain crate: numerical models on floating-point data.

## 6. Plan

In order:

1. *done* `AgentStates`, `AgentStateManager`, `AgentRuntime`: the life of an agent.
2. *done* `DagScheduler`, `QueueManager`: the life of a task.
3. *done* `KernelExecutor`, whose contract ("a Ready task is executed") is the fairness
   `AgentRuntime` assumes of the kernel.
4. *done* `BoundedFifo`, with the kernel's channel and pipe as refinements of it.
5. *done* Session pool, plans, in-memory bus, state store; payments, vesting, escrow.
6. *done* `GatewayAgents`: the same life behind the gateway's API.
7. Left: the dead letter queue, the deduplicator, the rate limiter, the persistence of
   messages, the router of the bus; the treasury and the bridge.
8. *done* Proofs of every safety property the passing runs check. Left: the
   modules of item 7 with theirs.
