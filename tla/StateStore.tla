---------------------------- MODULE StateStore ----------------------------
(***************************************************************************)
(* The state store of the gateway library                                  *)
(* (src/crates/gateway-lib/src/state_store.rs): a log of events in a       *)
(* database and a cache of what they add up to. A command is validated     *)
(* against the cache, given a sequence number, written to the log and      *)
(* applied to the cache, with an await and no lock between the four. The   *)
(* configuration and the metadata of an agent are one value, the sequence  *)
(* of the command that set it; event_sourcing is on; the broadcast to      *)
(* subscribers, the statistics and the queries are left out.               *)
(***************************************************************************)
EXTENDS Naturals, FiniteSets, Sequences, SequencesExt

CONSTANTS
    StoreAgents,    \* the agents
    StoreClients,   \* tasks that execute commands
    StoreStates,    \* of AgentState; "Registered", "Idle" and "Working" among them
    MaxCommands,    \* commands executed
    MaxRestarts     \* restarts of the gateway

ASSUME StoreAssumption ==
    /\ IsFiniteSet(StoreClients)
    /\ {"Registered", "Idle", "Working"} \subseteq StoreStates
    /\ "none" \notin StoreStates
    /\ MaxCommands \in Nat /\ MaxRestarts \in Nat

VARIABLES
    log,        \* agent_state_events, in the order of the inserts
    cache,      \* the entries of the cache, NoInfo for none
    counter,    \* sequence_counter
    step,       \* where the command of each client is
    command,    \* the command, then the event, of each client
    commands,   \* how many commands there have been
    restarts,   \* how many restarts
    fresh,      \* history: nothing has been inserted since the last restart
    overlapped  \* history: agents two commands were under way for at a time

storeVars == <<log, cache, counter, step, command, commands, restarts, fresh, overlapped>>

\* What a command asks for. UpdateConfig and UpdateMetadata are one.
Changes ==
         [type : {"AgentRegistered", "TaskAssigned", "DataUpdated", "AgentArchived"}]
    \cup [type : {"StateTransitioned"}, from : StoreStates, to : StoreStates]
    \cup [type : {"TaskCompleted"}, success : BOOLEAN]

\* A row of the log; a command is one without its number.
Rows == [agent : StoreAgents, change : Changes, sequence : 1..MaxCommands]
CommandsOf == [agent : StoreAgents, change : Changes, sequence : {0}]

NoCommand == [sequence |-> 0]
NoInfo == [state |-> "none"]
AgentInfo == [state : StoreStates, tasks : 0..MaxCommands, successes : 0..MaxCommands,
              failures : 0..MaxCommands, data : 0..MaxCommands]

Steps == {"idle", "validated", "sequenced", "persisted"}

StoreTypeOK ==
    /\ log \in Seq(Rows) /\ Len(log) <= commands
    /\ cache \in [StoreAgents -> AgentInfo \cup {NoInfo}]
    /\ counter \in 0..commands
    /\ step \in [StoreClients -> Steps]
    /\ \A c \in StoreClients :
            command[c] \in CASE step[c] = "idle" -> {NoCommand}
                             [] step[c] = "validated" -> CommandsOf
                             [] OTHER -> Rows
    /\ commands \in 0..MaxCommands /\ restarts \in 0..MaxRestarts
    /\ fresh \in BOOLEAN /\ overlapped \subseteq StoreAgents

StoreInit ==
    /\ log = <<>>
    /\ cache = [a \in StoreAgents |-> NoInfo]
    /\ counter = 0
    /\ step = [c \in StoreClients |-> "idle"]
    /\ command = [c \in StoreClients |-> NoCommand]
    /\ commands = 0 /\ restarts = 0
    /\ fresh = FALSE /\ overlapped = {}

(***************************************************************************)
(* What an event does to an entry (apply_event_to_cache)                   *)
(***************************************************************************)
Registered(e) ==
    [state |-> "Registered", tasks |-> 0, successes |-> 0, failures |-> 0, data |-> e.sequence]

Apply(info, e) ==
    LET type == e.change.type IN
    IF type = "AgentRegistered" THEN Registered(e)
    ELSE IF type = "AgentArchived" \/ info = NoInfo THEN NoInfo
    ELSE CASE type = "StateTransitioned" -> [info EXCEPT !.state = e.change.to]
           [] type = "TaskAssigned" -> [info EXCEPT !.state = "Working", !.tasks = @ + 1]
           [] type = "TaskCompleted" /\ e.change.success ->
                 [info EXCEPT !.state = "Idle", !.successes = @ + 1]
           [] type = "TaskCompleted" /\ ~e.change.success ->
                 [info EXCEPT !.state = "Idle", !.failures = @ + 1]
           [] type = "DataUpdated" -> [info EXCEPT !.data = e.sequence]

\* What a log adds up to for an agent.
Replay(rows, a) ==
    LET after[n \in 0..Len(rows)] ==
            IF n = 0 THEN NoInfo
            ELSE IF rows[n].agent = a THEN Apply(after[n - 1], rows[n])
            ELSE after[n - 1]
    IN  after[Len(rows)]

(***************************************************************************)
(* execute                                                                 *)
(***************************************************************************)
\* A mutant of Valid: a task is given to whatever agent there is.
ValidForAny(change, info) ==
    /\ change.type = "StateTransitioned" => info.state = change.from
    /\ change.type = "TaskAssigned" => info # NoInfo

\* validate_command: only these two kinds are looked at.
Valid(change, info) ==
    /\ change.type = "StateTransitioned" => info.state = change.from
    /\ change.type = "TaskAssigned" => info.state = "Idle"

UnderWay(a) == \E c \in StoreClients : step[c] # "idle" /\ command[c].agent = a

Execute(c, e) ==
    /\ step[c] = "idle" /\ commands < MaxCommands
    /\ Valid(e.change, cache[e.agent])
    /\ step' = [step EXCEPT ![c] = "validated"]
    /\ command' = [command EXCEPT ![c] = e]
    /\ commands' = commands + 1
    /\ overlapped' = IF UnderWay(e.agent) THEN overlapped \cup {e.agent} ELSE overlapped
    /\ UNCHANGED <<log, cache, counter, restarts, fresh>>

CommandToEvent(c) ==
    /\ step[c] = "validated"
    /\ counter' = counter + 1
    /\ command' = [command EXCEPT ![c].sequence = counter + 1]
    /\ step' = [step EXCEPT ![c] = "sequenced"]
    /\ UNCHANGED <<log, cache, commands, restarts, fresh, overlapped>>

PersistEvent(c) ==
    /\ step[c] = "sequenced"
    /\ log' = Append(log, command[c])
    /\ step' = [step EXCEPT ![c] = "persisted"]
    /\ fresh' = FALSE
    /\ UNCHANGED <<cache, counter, command, commands, restarts, overlapped>>

\* The insert fails: the command returns an error, its number is spent.
PersistFails(c) ==
    /\ step[c] = "sequenced"
    /\ step' = [step EXCEPT ![c] = "idle"]
    /\ command' = [command EXCEPT ![c] = NoCommand]
    /\ UNCHANGED <<log, cache, counter, commands, restarts, fresh, overlapped>>

ApplyEvent(c) ==
    LET e == command[c] IN
    /\ step[c] = "persisted"
    /\ cache' = [cache EXCEPT ![e.agent] = Apply(@, e)]
    /\ step' = [step EXCEPT ![c] = "idle"]
    /\ command' = [command EXCEPT ![c] = NoCommand]
    /\ UNCHANGED <<log, counter, commands, restarts, fresh, overlapped>>

(***************************************************************************)
(* A crash or a stop at any point, then new and load_initial_state         *)
(***************************************************************************)
\* The rows of an agent with the highest sequence; the filter on archived
\* agents never applies, as the type is stored under its Rust name.
LatestRows(a) ==
    {e \in ToSet(log) : e.agent = a /\ \A f \in ToSet(log) : f.agent = a => f.sequence <= e.sequence}

\* A mutant of Loaded: the latest registration.
LoadedRegistration(a) ==
    LET rows == {e \in ToSet(log) : e.agent = a /\ e.change.type = "AgentRegistered"} IN
    IF rows = {} THEN {NoInfo} ELSE {Registered(e) : e \in rows}

\* Only the row of a registration holds an AgentInfo.
Loaded(a) ==
    IF LatestRows(a) = {} THEN {NoInfo}
    ELSE {IF e.change.type = "AgentRegistered" THEN Registered(e) ELSE NoInfo : e \in LatestRows(a)}

Restart ==
    /\ restarts < MaxRestarts
    /\ restarts' = restarts + 1
    /\ cache' \in {f \in [StoreAgents -> UNION {Loaded(a) : a \in StoreAgents}] :
                    \A a \in StoreAgents : f[a] \in Loaded(a)}
    /\ counter' = 0
    /\ step' = [c \in StoreClients |-> "idle"]
    /\ fresh' = TRUE
    /\ command' = [c \in StoreClients |-> NoCommand]
    /\ UNCHANGED <<log, commands, overlapped>>

StoreNext ==
    \/ \E c \in StoreClients :
          \/ \E e \in CommandsOf : Execute(c, e)
          \/ CommandToEvent(c) \/ PersistEvent(c) \/ PersistFails(c) \/ ApplyEvent(c)
    \/ Restart

StoreSpec == StoreInit /\ [][StoreNext]_storeVars

(***************************************************************************)
(* Properties                                                              *)
(***************************************************************************)
\* The log is a history that could have happened: a transition starts in the
\* state the earlier events lead to, and a task is given to an idle agent,
\* although what was looked at was the cache, some steps before the insert.
\* Not for an agent with two commands under way at a time (the second is
\* validated before the first is applied, state_store.rs:424-436), nor after a
\* second restart (the sequence numbers start again, state_store.rs:337).
LegalHistory ==
    restarts <= 1 => \A k \in DOMAIN log : log[k].agent \notin overlapped =>
        LET change == log[k].change
            before == Replay(SubSeq(log, 1, k - 1), log[k].agent)
        IN  /\ change.type = "StateTransitioned" => before.state = change.from
            /\ change.type = "TaskAssigned" => before.state = "Idle"

\* What the first restart loads for an agent is never stale: it is what the
\* log adds up to, or nothing (state_store.rs:383-414), wherever the commands
\* were when the gateway went down. It is nothing as soon as the latest event
\* is not the registration. Later restarts promise less: the sequences of two
\* lives are compared.
RecoveredIsReplay ==
    restarts = 1 /\ fresh => \A a \in StoreAgents \ overlapped :
        cache[a] \in {NoInfo, Replay(log, a)}
=============================================================================
