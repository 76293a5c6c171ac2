------------------------- MODULE AgentStateManager -------------------------
(***************************************************************************)
(* AgentStateManager (crates/agents/src/state_manager/mod.rs) with its     *)
(* SQLite persistence (state_manager/persistence.rs) under concurrent      *)
(* callers.                                                                *)
(*                                                                         *)
(* A caller is one async task inside a call of the manager.  Between two   *)
(* awaits of a call the other callers run, so a call is split where the    *)
(* code awaits: transition changes the record under the registry lock and  *)
(* drops it, publishes the event under the subscribers' read lock, removes *)
(* dead subscribers under a later write lock, and finally saves the clone  *)
(* of the record it took.  register_agent keeps the registry lock across   *)
(* its publication.  A crash loses everything but the database.            *)
(***************************************************************************)
EXTENDS AgentStates, Sequences, SequencesExt, FiniteSets

CONSTANTS Agents, Callers, Subs,
          NoRecord,    \* an agent absent from a map
          NoCaller,    \* nobody holds the registry lock
          MaxVersion   \* bound on the number of record versions (TLC only)

ASSUME ManagerAssumption ==
  /\ NoRecord \notin AgentStateRecord
  /\ NoCaller \notin Callers
  /\ MaxVersion \in Nat

VARIABLES
  registry,     \* registry: agent -> record
  lockedBy,     \* the caller that awaits while it holds the registry lock
  subscribers,  \* subscribers: the vector of senders, by subscriber
  receiver,     \* "new", "open" or "dropped", for each subscriber
  db,           \* table agent_states: agent -> row
  snapshot,     \* the last StateSnapshot a caller holds
  pc,           \* where each caller is in its call
  call,         \* the agent and record clone of the call
  dead,         \* dead_indices of the call's publish_event
  booted,       \* load_from_db ran, or was skipped, after the last start
  clock,        \* number of record versions made
  begun,        \* history: tasks begun by each agent, over all its lives
  removals,     \* history: how often indices of the vector shifted
  deadAt,       \* history: removals when the call computed dead
  seen,         \* history: newest version each subscriber was told of
  settled       \* history: version the row had when nobody was in flight and
                \* it was the record in memory

state == <<registry, lockedBy, subscribers, receiver, db, snapshot, pc, call,
           dead, booted, clock>>
history == <<begun, removals, deadAt, seen, settled>>
vars == <<state, history>>

NoCall == [agent |-> NoRecord, record |-> NoRecord]
Calls == [agent : Agents, record : AgentStateRecord] \cup {NoCall}
PCs == {"idle", "publish", "sweep", "save", "cleanup"}

Init ==
  /\ registry = [a \in Agents |-> NoRecord]
  /\ lockedBy = NoCaller
  /\ subscribers = <<>>
  /\ receiver = [s \in Subs |-> "new"]
  /\ db = [a \in Agents |-> NoRecord]
  /\ snapshot = registry
  /\ pc = [c \in Callers |-> "idle"]
  /\ call = [c \in Callers |-> NoCall]
  /\ dead = [c \in Callers |-> {}]
  /\ booted = FALSE
  /\ clock = 0
  /\ begun = [a \in Agents |-> 0]
  /\ removals = 0
  /\ deadAt = [c \in Callers |-> 0]
  /\ seen = [s \in Subs |-> 0]
  /\ settled = [a \in Agents |-> 0]

RegistryFree == lockedBy = NoCaller
Registered(a) == registry[a] # NoRecord
\* A caller starts a new call.
Enters(c) == booted /\ pc[c] = "idle"
Return(c) ==
  /\ pc' = [pc EXCEPT ![c] = "idle"]
  /\ call' = [call EXCEPT ![c] = NoCall]

----------------------------------------------------------------------------
(* Start-up: recover_agents calls load_from_db before anything else.       *)

\* load_all_records filters on the exact strings 'Stopped' and 'Error'; an
\* Error state is stored with its message and passes the filter.
Loadable(a) == db[a] # NoRecord /\ db[a].state.kind # "Stopped"

LoadFromDb ==
  /\ ~booted
  /\ booted' = TRUE
  /\ registry' = [a \in Agents |->
                    IF Loadable(a) THEN Reloaded(db[a]) ELSE registry[a]]
  /\ UNCHANGED <<lockedBy, subscribers, receiver, db, snapshot, pc, call, dead,
                 clock, history>>

\* recover_agents logs a failure of load_from_db and goes on.
LoadFails ==
  /\ ~booted
  /\ booted' = TRUE
  /\ UNCHANGED <<registry, lockedBy, subscribers, receiver, db, snapshot, pc,
                 call, dead, clock, history>>

----------------------------------------------------------------------------
(* Calls that change the registry.                                         *)

\* Mutant: the lock is released before the announcement.
RegisterAgentUnlocked(c, a) ==
  /\ Enters(c) /\ RegistryFree /\ ~Registered(a)
  /\ clock < MaxVersion
  /\ clock' = clock + 1
  /\ registry' = [registry EXCEPT ![a] = FreshRecord(clock + 1)]
  /\ call' = [call EXCEPT ![c] = [agent |-> a, record |-> FreshRecord(clock + 1)]]
  /\ pc' = [pc EXCEPT ![c] = "publish"]
  /\ UNCHANGED <<lockedBy, subscribers, receiver, db, snapshot, dead, booted, history>>

\* register_agent: the new record is announced while the lock is held.
RegisterAgent(c, a) ==
  /\ Enters(c) /\ RegistryFree /\ ~Registered(a)
  /\ clock < MaxVersion
  /\ clock' = clock + 1
  /\ registry' = [registry EXCEPT ![a] = FreshRecord(clock + 1)]
  /\ lockedBy' = c
  /\ call' = [call EXCEPT ![c] = [agent |-> a, record |-> FreshRecord(clock + 1)]]
  /\ pc' = [pc EXCEPT ![c] = "publish"]
  /\ UNCHANGED <<subscribers, receiver, db, snapshot, dead, booted, history>>

UnregisterAgent(c, a) ==
  /\ Enters(c) /\ RegistryFree /\ Registered(a)
  /\ registry' = [registry EXCEPT ![a] = NoRecord]
  /\ UNCHANGED <<lockedBy, subscribers, receiver, db, snapshot, pc, call, dead,
                 booted, clock, history>>

\* transition, up to drop(registry).  attempt_recovery is this with Start and
\* batch_transition is this for one agent after the other.
Transition(c, a, t) ==
  /\ Enters(c) /\ RegistryFree /\ Registered(a)
  /\ clock < MaxVersion
  /\ clock' = clock + 1
  /\ \E n \in AgentState :
       /\ NewState(registry[a].state, t, n)
       /\ registry' = [registry EXCEPT ![a] = Updated(@, t, n, clock + 1)]
  /\ begun' = [begun EXCEPT ![a] = IF t.name = "BeginTask" THEN @ + 1 ELSE @]
  /\ call' = [call EXCEPT ![c] = [agent |-> a, record |-> registry'[a]]]
  /\ pc' = [pc EXCEPT ![c] = "publish"]
  /\ UNCHANGED <<lockedBy, subscribers, receiver, db, snapshot, dead, booted,
                 removals, deadAt, seen, settled>>

CreateSnapshot(c) ==
  /\ Enters(c) /\ RegistryFree
  /\ snapshot' = registry
  /\ UNCHANGED <<registry, lockedBy, subscribers, receiver, db, pc, call, dead,
                 booted, clock, history>>

\* restore_snapshot replaces the map and leaves the database alone.  Rows may
\* be rolled back from here on, so what was settled is settled no more.
RestoreSnapshot(c) ==
  /\ Enters(c) /\ RegistryFree
  /\ registry' = snapshot
  /\ settled' = [a \in Agents |-> 0]
  /\ UNCHANGED <<lockedBy, subscribers, receiver, db, snapshot, pc, call, dead,
                 booted, clock, begun, removals, deadAt, seen>>

\* cleanup_stopped_agents: the list is read under one lock ...
CleanupScan(c, a) ==
  /\ Enters(c) /\ RegistryFree /\ Registered(a)
  /\ registry[a].state.kind = "Stopped"
  /\ call' = [call EXCEPT ![c] = [agent |-> a, record |-> registry[a]]]
  /\ pc' = [pc EXCEPT ![c] = "cleanup"]
  /\ UNCHANGED <<registry, lockedBy, subscribers, receiver, db, snapshot, dead,
                 booted, clock, history>>

\* ... and each agent is unregistered under another, whatever it is by then.
CleanupUnregister(c) ==
  /\ pc[c] = "cleanup" /\ RegistryFree
  /\ registry' = [registry EXCEPT ![call[c].agent] = NoRecord]
  /\ Return(c)
  /\ UNCHANGED <<lockedBy, subscribers, receiver, db, snapshot, dead, booted,
                 clock, history>>

----------------------------------------------------------------------------
(* publish_event and the end of transition.                                *)

\* A registration releases its lock and returns after publish_event, a
\* transition goes on to save.
Published(c) ==
  IF lockedBy = c
  THEN Return(c) /\ lockedBy' = NoCaller
  ELSE pc' = [pc EXCEPT ![c] = "save"] /\ UNCHANGED <<call, lockedBy>>

DeadIndices == {i \in DOMAIN subscribers : receiver[subscribers[i]] = "dropped"}
Receivers == {subscribers[i] : i \in DOMAIN subscribers \ DeadIndices}

\* The loop under the read lock: send never waits on an unbounded channel.
Publish(c) ==
  /\ pc[c] = "publish"
  /\ dead' = [dead EXCEPT ![c] = DeadIndices]
  /\ deadAt' = [deadAt EXCEPT ![c] = removals]
  /\ seen' = [s \in Subs |->
                IF s \in Receivers /\ seen[s] < call[c].record.ver
                THEN call[c].record.ver ELSE seen[s]]
  /\ IF DeadIndices = {}
     THEN Published(c)
     ELSE pc' = [pc EXCEPT ![c] = "sweep"] /\ UNCHANGED <<call, lockedBy>>
  /\ UNCHANGED <<registry, subscribers, receiver, db, snapshot, booted, clock,
                 begun, removals, settled>>

\* The elements of a finite set of numbers from the smallest to the largest.
Ascending(K) ==
  [n \in 1..Cardinality(K) |->
     CHOOSE i \in K : Cardinality({j \in K : j <= i}) = n]

\* Mutant: off by one.
WithoutNextIndices(q, D) ==
  LET kept == Ascending(DOMAIN q \ {i + 1 : i \in D})
  IN  [n \in DOMAIN kept |-> q[kept[n]]]

\* Descending removal with the guard index < len keeps exactly the elements
\* whose index is not in the set.
WithoutIndices(q, D) ==
  LET kept == Ascending(DOMAIN q \ D)
  IN  [n \in DOMAIN kept |-> q[kept[n]]]

Sweep(c) ==
  /\ pc[c] = "sweep"
  /\ subscribers' = WithoutIndices(subscribers, dead[c])
  /\ removals' = IF subscribers' = subscribers THEN removals ELSE removals + 1
  /\ dead' = [dead EXCEPT ![c] = {}]
  /\ deadAt' = [deadAt EXCEPT ![c] = 0]
  /\ Published(c)
  /\ UNCHANGED <<registry, receiver, db, snapshot, booted, clock, begun, seen,
                 settled>>

InFlight(a) ==
  {c \in Callers : pc[c] \in {"publish", "sweep", "save"} /\ call[c].agent = a}

\* save_record is an upsert of the clone.
Save(c) ==
  LET a == call[c].agent IN
  /\ pc[c] = "save"
  /\ db' = [db EXCEPT ![a] = call[c].record]
  /\ settled' = [settled EXCEPT ![a] =
                   IF InFlight(a) = {c} /\ registry[a] = call[c].record
                   THEN call[c].record.ver ELSE @]
  /\ Return(c)
  /\ UNCHANGED <<registry, lockedBy, subscribers, receiver, snapshot, dead,
                 booted, clock, begun, removals, deadAt, seen>>

\* The caller is told that the state changed and the row did not.
SaveFails(c) ==
  /\ pc[c] = "save"
  /\ Return(c)
  /\ UNCHANGED <<registry, lockedBy, subscribers, receiver, db, snapshot, dead,
                 booted, clock, history>>

----------------------------------------------------------------------------
(* Calls that touch the database or the subscribers only.                  *)

\* Mutant: the last snapshot is saved instead of the record.
PersistSnapshot(c, a) ==
  /\ Enters(c) /\ RegistryFree /\ snapshot[a] # NoRecord
  /\ db' = [db EXCEPT ![a] = snapshot[a]]
  /\ UNCHANGED <<registry, lockedBy, subscribers, receiver, snapshot, pc, call,
                 dead, booted, clock, history>>

\* persist_state saves under the registry's read lock.
PersistState(c, a) ==
  /\ Enters(c) /\ RegistryFree /\ Registered(a)
  /\ db' = [db EXCEPT ![a] = registry[a]]
  /\ UNCHANGED <<registry, lockedBy, subscribers, receiver, snapshot, pc, call,
                 dead, booted, clock, history>>

DeleteRecord(c, a) ==
  /\ Enters(c)
  /\ db' = [db EXCEPT ![a] = NoRecord]
  /\ settled' = [settled EXCEPT ![a] = 0]
  /\ UNCHANGED <<registry, lockedBy, subscribers, receiver, snapshot, pc, call,
                 dead, booted, clock, begun, removals, deadAt, seen>>

Subscribe(s) ==
  /\ booted /\ receiver[s] = "new"
  /\ receiver' = [receiver EXCEPT ![s] = "open"]
  /\ subscribers' = Append(subscribers, s)
  /\ UNCHANGED <<registry, lockedBy, db, snapshot, pc, call, dead, booted,
                 clock, history>>

DropReceiver(s) ==
  /\ receiver[s] = "open"
  /\ receiver' = [receiver EXCEPT ![s] = "dropped"]
  /\ UNCHANGED <<registry, lockedBy, subscribers, db, snapshot, pc, call, dead,
                 booted, clock, history>>

ClearSubscribers ==
  /\ booted /\ subscribers # <<>>
  /\ subscribers' = <<>>
  /\ removals' = removals + 1
  /\ UNCHANGED <<registry, lockedBy, receiver, db, snapshot, pc, call, dead,
                 booted, clock, begun, deadAt, seen, settled>>

\* The process dies; the next one starts with empty maps and the same database.
Crash ==
  /\ booted
  /\ booted' = FALSE
  /\ registry' = [a \in Agents |-> NoRecord]
  /\ snapshot' = registry'
  /\ lockedBy' = NoCaller
  /\ subscribers' = <<>>
  /\ receiver' = [s \in Subs |-> IF receiver[s] = "open" THEN "dropped" ELSE receiver[s]]
  /\ pc' = [c \in Callers |-> "idle"]
  /\ call' = [c \in Callers |-> NoCall]
  /\ dead' = [c \in Callers |-> {}]
  /\ deadAt' = [c \in Callers |-> 0]
  /\ UNCHANGED <<db, clock, begun, removals, seen, settled>>

----------------------------------------------------------------------------
CallerStep(c) ==
  \/ \E a \in Agents :
       \/ RegisterAgent(c, a) \/ UnregisterAgent(c, a) \/ CleanupScan(c, a)
       \/ PersistState(c, a) \/ DeleteRecord(c, a)
       \/ \E t \in StateTransition : Transition(c, a, t)
  \/ CreateSnapshot(c) \/ RestoreSnapshot(c) \/ CleanupUnregister(c)
  \/ Publish(c) \/ Sweep(c) \/ Save(c) \/ SaveFails(c)

Next ==
  \/ \E c \in Callers : CallerStep(c)
  \/ \E s \in Subs : Subscribe(s) \/ DropReceiver(s)
  \/ LoadFromDb \/ LoadFails \/ ClearSubscribers \/ Crash

Spec == Init /\ [][Next]_vars

----------------------------------------------------------------------------
(* Properties.                                                             *)

\* Every variable has its type.
TypeOK ==
  /\ registry \in [Agents -> AgentStateRecord \cup {NoRecord}]
  /\ lockedBy \in Callers \cup {NoCaller}
  /\ subscribers \in Seq(Subs)
  /\ receiver \in [Subs -> {"new", "open", "dropped"}]
  /\ db \in [Agents -> AgentStateRecord \cup {NoRecord}]
  /\ snapshot \in [Agents -> AgentStateRecord \cup {NoRecord}]
  /\ pc \in [Callers -> PCs]
  /\ call \in [Callers -> Calls]
  /\ dead \in [Callers -> SUBSET Nat]
  /\ booted \in BOOLEAN
  /\ clock \in Nat
  /\ begun \in [Agents -> Nat]
  /\ removals \in Nat
  /\ deadAt \in [Callers -> Nat]
  /\ seen \in [Subs -> Nat]
  /\ settled \in [Agents -> Nat]

\* A record that says Working names its task, and a reloaded one still does in
\* current_task_id although the state lost it.
Coherent(r) ==
  r.state.kind = "Working" => /\ r.current \in TaskIds
                              /\ r.state.task \in {r.current, NoTask}

\* No task is counted twice: the finished tasks and the one being worked on
\* were each begun.
CountedOnce(r, a) ==
  r.total + (IF r.state.kind = "Working" THEN 1 ELSE 0) <= begun[a]

\* Every copy of agent a's record: in memory, in the table, in a snapshot and
\* in the clones the calls in flight are about to publish and save.
Copies(a) ==
  ({registry[a], db[a], snapshot[a]} \cup
     {call[c].record : c \in InFlight(a)}) \ {NoRecord}

\* Every copy of a record is coherent, after reloads, restores and lost writes.
WorkingNamesItsTask == \A a \in Agents : \A r \in Copies(a) : Coherent(r)

\* No copy of a record counts more tasks than were begun, so a crash, a reload
\* or a restored snapshot never makes the statistics count a task twice.
NoTaskCountedTwice == \A a \in Agents : \A r \in Copies(a) : CountedOnce(r, a)

\* register_agent announces under the registry lock: until it has told the
\* subscribers, none of them has been told anything as new about any agent.
RegistrationAnnouncedFirst ==
  \A c \in Callers :
    pc[c] = "publish" /\ call[c].record.state.kind = "Registered" =>
      \A s \in Subs : seen[s] < call[c].record.ver

\* Once the row and the memory of an agent agreed with no call in flight, the
\* row never goes back to an older record (restore_snapshot and deletion apart):
\* a stale row is the work of transitions that overlapped.
SettledRowNeverRegresses ==
  \A a \in Agents : db[a] # NoRecord => settled[a] <= db[a].ver

\* A live subscriber leaves the vector only when it is cleared, the process
\* dies, or a sweep uses indices another removal has shifted since.
Removed(s) ==
  s \in ToSet(subscribers) /\ receiver[s] = "open" /\ s \notin ToSet(subscribers')
LiveSubscriberLostOnlyToStaleIndices ==
  [][ \A s \in Subs : Removed(s) /\ ~ClearSubscribers /\ ~Crash =>
        \E c \in Callers : pc[c] = "sweep" /\ deadAt[c] # removals ]_vars

\* "Remove in reverse order to maintain correct indices" (mod.rs:570): a sweep
\* removes dead subscribers only.
SweepRemovesOnlyDead ==
  [][ \A c \in Callers : Sweep(c) => \A s \in Subs : ~Removed(s) ]_vars
=============================================================================
