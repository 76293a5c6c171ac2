---------------------- MODULE AgentStateManagerProofs ----------------------
(***************************************************************************)
(* Safety of AgentStateManager for every set of agents, callers, tasks and *)
(* subscribers, and for runs of any length.                                *)
(*                                                                         *)
(* IInv strengthens the four invariants with the order of versions: calls  *)
(* in flight carry different versions, none newer than the clock; the      *)
(* holder of the registry lock carries the newest; and nothing older than  *)
(* the settled version of an agent is left that could reach its row.       *)
(* The vector of subscribers plays no part in it: Subscribed, the second   *)
(* invariant below, is about the vector and the indices that publish_event *)
(* carries from one lock to the next.                                      *)
(***************************************************************************)
EXTENDS AgentStateManager, FiniteSetTheorems, TLAPS

Record == AgentStateRecord \cup {NoRecord}
Flying(c) == pc[c] \in {"publish", "sweep", "save"}

Typed ==
  /\ registry \in [Agents -> Record]
  /\ db \in [Agents -> Record]
  /\ snapshot \in [Agents -> Record]
  /\ lockedBy \in Callers \cup {NoCaller}
  /\ pc \in [Callers -> PCs]
  /\ call \in [Callers -> Calls]
  /\ clock \in Nat
  /\ begun \in [Agents -> Nat]
  /\ seen \in [Subs -> Nat]
  /\ settled \in [Agents -> Nat]

\* A caller inside a call knows its agent and record.
InCall ==
  \A c \in Callers : pc[c] # "idle" =>
    call[c].agent \in Agents /\ call[c].record \in AgentStateRecord

\* Versions come from the clock, and two calls in flight never share one.
Versions ==
  /\ \A c \in Callers : Flying(c) =>
       /\ call[c].record.ver <= clock
       /\ \A d \in Callers : Flying(d) /\ call[d].record.ver = call[c].record.ver => d = c
  /\ \A s \in Subs : seen[s] <= clock
  /\ \A a \in Agents : settled[a] <= clock

\* Only register_agent holds the lock across an await, and only it announces a
\* Registered record.
Locked ==
  \A c \in Callers :
    /\ lockedBy = c => /\ pc[c] \in {"publish", "sweep"}
                       /\ call[c].record.ver = clock
                       /\ pc[c] = "publish" => \A s \in Subs : seen[s] < clock
    /\ pc[c] = "publish" /\ call[c].record.state.kind = "Registered" => lockedBy = c

\* No copy that can still reach the row is older than what was settled.
Settled ==
  \A a \in Agents :
    /\ registry[a] # NoRecord => settled[a] <= registry[a].ver
    /\ \A c \in InFlight(a) : settled[a] <= call[c].record.ver

IInv ==
  /\ Typed /\ InCall /\ Versions /\ Locked /\ Settled
  /\ WorkingNamesItsTask /\ NoTaskCountedTwice /\ SettledRowNeverRegresses

----------------------------------------------------------------------------
(* What the operators on records give.                                     *)

\* register_agent's record.
LEMMA FreshFacts ==
  ASSUME NEW v \in Nat
  PROVE  /\ FreshRecord(v) \in AgentStateRecord
         /\ FreshRecord(v).ver = v /\ FreshRecord(v).total = 0
         /\ FreshRecord(v).state.kind = "Registered"
BY DEF FreshRecord, AgentStateRecord, AgentState, Kinds, Plain

\* A reloaded record has the version, the count and the kind of its row.
LEMMA ReloadedFacts ==
  ASSUME NEW r \in AgentStateRecord
  PROVE  /\ Reloaded(r) \in AgentStateRecord
         /\ Reloaded(r).ver = r.ver /\ Reloaded(r).total = r.total
         /\ Reloaded(r).state.kind = r.state.kind
         /\ Coherent(r) => Coherent(Reloaded(r))
BY DEF Reloaded, AgentStateRecord, AgentState, Plain, Coherent

\* A transition never leads to Registered, a Working record comes from
\* BeginTask, and a finished task was being worked on.
LEMMA UpdatedFacts ==
  ASSUME NEW r \in AgentStateRecord, NEW t \in StateTransition, NEW n \in AgentState,
         NEW v \in Nat, NewState(r.state, t, n)
  PROVE  /\ Updated(r, t, n, v) \in AgentStateRecord
         /\ Updated(r, t, n, v).ver = v
         /\ Updated(r, t, n, v).state.kind # "Registered"
         /\ Coherent(Updated(r, t, n, v))
         /\ Updated(r, t, n, v).total
              + (IF Updated(r, t, n, v).state.kind = "Working" THEN 1 ELSE 0)
            <= r.total + (IF r.state.kind = "Working" THEN 1 ELSE 0)
                 + (IF t.name = "BeginTask" THEN 1 ELSE 0)
<1>1. n.kind # "Registered" /\ (n.kind = "Working" <=> t.name = "BeginTask")
  BY DEF NewState, Edges
<1>2. t.name = "CompleteTask" => r.state.kind = "Working"
  BY DEF NewState, Edges
<1>3. t.name = "BeginTask" => r.state.kind = "Idle" /\ t.task \in TaskIds
  BY NoTaskAssumption DEF NewState, Edges, StateTransition
<1>4. t.task \in TaskIds \cup {NoTask}
  BY DEF StateTransition
<1>5. /\ Updated(r, t, n, v) \in AgentStateRecord
      /\ Updated(r, t, n, v).ver = v /\ Updated(r, t, n, v).state = n
  BY <1>4 DEF Updated, AgentStateRecord
<1>6. Coherent(Updated(r, t, n, v))
  BY <1>1, <1>3 DEF Coherent, Updated, NewState
<1>7. Updated(r, t, n, v).total
        = IF t.name = "CompleteTask" THEN r.total + 1 ELSE r.total
  BY DEF Updated
<1>8. r.total \in Nat
  BY DEF AgentStateRecord
<1> QED BY <1>1, <1>2, <1>3, <1>5, <1>6, <1>7, <1>8

----------------------------------------------------------------------------
(* Every step keeps IInv.                                                  *)

\* A load puts versions and counts in memory that rows already carried.
LEMMA LoadFromDbStep ==
  ASSUME IInv, LoadFromDb
  PROVE  IInv'
<1>a. ASSUME NEW a \in Agents, NEW r \in Copies(a)'
      PROVE  \/ r \in Copies(a)
             \/ /\ db[a] \in Copies(a) /\ db[a] \in AgentStateRecord
                /\ r = Reloaded(db[a])
  BY DEF IInv, Typed, Record, LoadFromDb, Loadable, Copies, InFlight
<1>1. Typed' /\ InCall'
  BY ManagerAssumption, ReloadedFacts DEF IInv, Typed, InCall, LoadFromDb,
     Loadable, Reloaded, history, Record, Calls, NoCall, PCs
<1>2. Versions' /\ Locked'
  BY ManagerAssumption, ReloadedFacts DEF IInv, Versions, Locked, LoadFromDb,
     history, Flying
<1>3. Settled' /\ SettledRowNeverRegresses'
  BY ManagerAssumption, ReloadedFacts DEF IInv, Settled,
     SettledRowNeverRegresses, LoadFromDb, Loadable, Reloaded, history, InFlight
<1>4. WorkingNamesItsTask'
  BY <1>a, ReloadedFacts DEF IInv, WorkingNamesItsTask
<1>5. NoTaskCountedTwice'
  <2>1. begun' = begun
    BY DEF LoadFromDb, history
  <2> QED BY <1>a, <2>1, ReloadedFacts DEF IInv, NoTaskCountedTwice, CountedOnce
<1> QED BY <1>1, <1>2, <1>3, <1>4, <1>5 DEF IInv

\* A failed load moves only the program counter of the start.
LEMMA LoadFailsStep ==
  ASSUME IInv, LoadFails
  PROVE  IInv'
<1>1. Typed' /\ InCall'
  BY ManagerAssumption DEF IInv, Typed, InCall, LoadFails, history
<1>2. Versions' /\ Locked'
  BY ManagerAssumption DEF IInv, Versions, Locked, LoadFails, history, Flying
<1>3. Settled' /\ SettledRowNeverRegresses'
  BY ManagerAssumption DEF IInv, Settled, SettledRowNeverRegresses, LoadFails,
     history, InFlight
<1>4. WorkingNamesItsTask' /\ NoTaskCountedTwice'
  BY ManagerAssumption DEF IInv, WorkingNamesItsTask, NoTaskCountedTwice,
     LoadFails, history, Copies, InFlight, CountedOnce
<1> QED BY <1>1, <1>2, <1>3, <1>4 DEF IInv

\* A new record is fresh, and its announcement is published by the same call.
LEMMA RegisterAgentStep ==
  ASSUME IInv, NEW c \in Callers, NEW a \in Agents, RegisterAgent(c, a)
  PROVE  IInv'
<1>1. Typed' /\ InCall'
  BY ManagerAssumption, FreshFacts DEF IInv, Typed, InCall, RegisterAgent,
     Enters, history, Record, Calls, PCs
<1>2. Versions'
  <2>1. /\ call'[c] = [agent |-> a, record |-> FreshRecord(clock + 1)]
        /\ pc[c] = "idle" /\ clock' = clock + 1
        /\ \A d \in Callers \ {c} : call'[d] = call[d] /\ pc'[d] = pc[d]
    BY DEF IInv, Typed, RegisterAgent, Enters
  <2>2. FreshRecord(clock + 1).ver = clock + 1 /\ clock \in Nat
    BY FreshFacts DEF IInv, Typed
  <2> QED
    BY <2>1, <2>2 DEF IInv, Typed, InCall, Versions, Flying, RegisterAgent,
       history, AgentStateRecord
<1>3. Locked'
  BY ManagerAssumption, FreshFacts DEF IInv, Typed, Versions, Locked,
     RegisterAgent, RegistryFree, Enters, history
<1>4. Settled' /\ SettledRowNeverRegresses'
  BY ManagerAssumption, FreshFacts DEF IInv, Typed, Versions, Settled,
     SettledRowNeverRegresses, RegisterAgent, Enters, history, InFlight
<1>5. WorkingNamesItsTask' /\ NoTaskCountedTwice'
  BY ManagerAssumption, FreshFacts DEF IInv, Typed, WorkingNamesItsTask,
     NoTaskCountedTwice, RegisterAgent, Enters, history, Copies, InFlight,
     Coherent, CountedOnce, Calls
<1> QED BY <1>1, <1>2, <1>3, <1>4, <1>5 DEF IInv

\* A record leaves the memory; its row stays as it is.
LEMMA UnregisterAgentStep ==
  ASSUME IInv, NEW c \in Callers, NEW a \in Agents, UnregisterAgent(c, a)
  PROVE  IInv'
<1>1. Typed' /\ InCall'
  BY ManagerAssumption DEF IInv, Typed, InCall, UnregisterAgent, Enters,
     history, Record
<1>2. Versions' /\ Locked'
  BY ManagerAssumption DEF IInv, Versions, Locked, UnregisterAgent, Enters,
     history, Flying
<1>3. Settled' /\ SettledRowNeverRegresses'
  BY ManagerAssumption DEF IInv, Settled, SettledRowNeverRegresses,
     UnregisterAgent, Enters, history, InFlight
<1>4. WorkingNamesItsTask' /\ NoTaskCountedTwice'
  BY ManagerAssumption DEF IInv, WorkingNamesItsTask, NoTaskCountedTwice,
     UnregisterAgent, Enters, history, Copies, InFlight, CountedOnce
<1> QED BY <1>1, <1>2, <1>3, <1>4 DEF IInv

\* The one step that makes a new copy: its version and count grow together.
LEMMA TransitionStep ==
  ASSUME IInv, NEW c \in Callers, NEW a \in Agents, NEW t \in StateTransition, Transition(c, a, t)
  PROVE  IInv'
<1>a. registry[a] \in AgentStateRecord /\ clock + 1 \in Nat
  BY DEF IInv, Typed, Record, Transition, Registered
<1>b. PICK n \in AgentState :
        /\ NewState(registry[a].state, t, n)
        /\ registry' = [registry EXCEPT ![a] = Updated(registry[a], t, n, clock + 1)]
  BY DEF Transition
<1>c. /\ registry'[a] \in AgentStateRecord
      /\ registry'[a].ver = clock + 1
      /\ registry'[a].state.kind # "Registered"
      /\ Coherent(registry'[a])
      /\ registry'[a].total + (IF registry'[a].state.kind = "Working" THEN 1 ELSE 0)
           <= registry[a].total + (IF registry[a].state.kind = "Working" THEN 1 ELSE 0)
                + (IF t.name = "BeginTask" THEN 1 ELSE 0)
  <2>1. registry'[a] = Updated(registry[a], t, n, clock + 1)
    BY <1>b DEF IInv, Typed
  <2> QED BY <2>1, <1>a, <1>b, UpdatedFacts
<1>d. /\ \A b \in Agents \ {a} : registry'[b] = registry[b]
      /\ call'[c] = [agent |-> a, record |-> registry'[a]]
      /\ pc[c] = "idle" /\ pc'[c] = "publish"
      /\ \A d \in Callers \ {c} : call'[d] = call[d] /\ pc'[d] = pc[d]
      /\ clock' = clock + 1 /\ lockedBy = NoCaller
  BY <1>b DEF IInv, Typed, Transition, Enters, RegistryFree
<1>1. Typed' /\ InCall'
  BY ManagerAssumption, UpdatedFacts DEF IInv, Typed, InCall, Transition,
     Registered, Enters, Record, Calls, PCs
<1>2. Versions'
  BY <1>c, <1>d DEF IInv, Typed, InCall, Versions, Flying, Transition,
     AgentStateRecord
<1>3. Locked'
  BY ManagerAssumption, UpdatedFacts DEF IInv, Typed, Locked, Transition,
     RegistryFree, Registered, Enters, Record
<1>4. Settled'
  BY <1>c, <1>d DEF IInv, Typed, Versions, Settled, InFlight, Transition
<1>5. SettledRowNeverRegresses'
  BY ManagerAssumption, UpdatedFacts DEF IInv, SettledRowNeverRegresses,
     Transition, Enters
<1>6. WorkingNamesItsTask'
  <2>1. ASSUME NEW b \in Agents, NEW r \in Copies(b)'
        PROVE  r \in Copies(b) \/ (b = a /\ r = registry'[a])
    <3>1. \A d \in InFlight(b)' :
            (d = c /\ b = a) \/ (d \in InFlight(b) /\ call'[d] = call[d])
      BY <1>d DEF InFlight
    <3>2. db' = db /\ snapshot' = snapshot /\ r # NoRecord
      BY DEF Transition, Copies
    <3>3. CASE \E d \in InFlight(b)' : r = call'[d].record
      BY <3>3, <3>1, <3>2, <1>d DEF Copies
    <3>4. CASE r \in {registry'[b], db'[b], snapshot'[b]}
      BY <3>4, <3>2, <1>d DEF Copies
    <3> QED BY <3>3, <3>4 DEF Copies
  <2> QED BY <2>1, <1>c DEF IInv, WorkingNamesItsTask
<1>7. NoTaskCountedTwice'
  <2>1. ASSUME NEW b \in Agents, NEW r \in Copies(b)'
        PROVE  r \in Copies(b) \/ (b = a /\ r = registry'[a])
    <3>1. \A d \in InFlight(b)' :
            (d = c /\ b = a) \/ (d \in InFlight(b) /\ call'[d] = call[d])
      BY <1>d DEF InFlight
    <3>2. db' = db /\ snapshot' = snapshot /\ r # NoRecord
      BY DEF Transition, Copies
    <3>3. CASE \E d \in InFlight(b)' : r = call'[d].record
      BY <3>3, <3>1, <3>2, <1>d DEF Copies
    <3>4. CASE r \in {registry'[b], db'[b], snapshot'[b]}
      BY <3>4, <3>2, <1>d DEF Copies
    <3> QED BY <3>3, <3>4 DEF Copies
  <2>2. \A b \in Agents : begun[b] \in Nat /\ begun'[b] \in Nat
          /\ begun'[b] = IF b = a /\ t.name = "BeginTask" THEN begun[b] + 1 ELSE begun[b]
    BY DEF IInv, Typed, Transition
  <2>3. ASSUME NEW b \in Agents, NEW r \in Copies(b)
        PROVE  r.total + (IF r.state.kind = "Working" THEN 1 ELSE 0) <= begun'[b]
    <3>1. CountedOnce(r, b) /\ r.total \in Nat
      BY DEF IInv, Typed, Record, InCall, NoTaskCountedTwice, Copies, InFlight,
         AgentStateRecord
    <3> QED BY <3>1, <2>2 DEF CountedOnce
  <2>4. registry'[a].total + (IF registry'[a].state.kind = "Working" THEN 1 ELSE 0)
          <= begun'[a]
    <3>1. CountedOnce(registry[a], a)
      BY <1>a, ManagerAssumption DEF IInv, NoTaskCountedTwice, Copies
    <3>2. registry[a].total \in Nat /\ registry'[a].total \in Nat
      BY <1>a, <1>c DEF AgentStateRecord
    <3> QED BY <3>1, <3>2, <2>2, <1>c DEF CountedOnce
  <2> QED BY <2>1, <2>3, <2>4 DEF NoTaskCountedTwice, CountedOnce
<1> QED BY <1>1, <1>2, <1>3, <1>4, <1>5, <1>6, <1>7 DEF IInv

\* A snapshot is a copy of records that are typed and coherent.
LEMMA CreateSnapshotStep ==
  ASSUME IInv, NEW c \in Callers, CreateSnapshot(c)
  PROVE  IInv'
<1>1. Typed' /\ InCall'
  BY ManagerAssumption DEF IInv, Typed, InCall, CreateSnapshot, Enters, history
<1>2. Versions' /\ Locked'
  BY ManagerAssumption DEF IInv, Versions, Locked, CreateSnapshot, Enters,
     history, Flying
<1>3. Settled' /\ SettledRowNeverRegresses'
  BY ManagerAssumption DEF IInv, Settled, SettledRowNeverRegresses,
     CreateSnapshot, Enters, history, InFlight
<1>4. WorkingNamesItsTask' /\ NoTaskCountedTwice'
  BY ManagerAssumption DEF IInv, WorkingNamesItsTask, NoTaskCountedTwice,
     CreateSnapshot, Enters, history, Copies, InFlight, CountedOnce
<1> QED BY <1>1, <1>2, <1>3, <1>4 DEF IInv

\* A restored record is a copy the snapshot held.
LEMMA RestoreSnapshotStep ==
  ASSUME IInv, NEW c \in Callers, RestoreSnapshot(c)
  PROVE  IInv'
<1>1. Typed' /\ InCall'
  BY ManagerAssumption DEF IInv, Typed, InCall, RestoreSnapshot, Enters
<1>2. Versions' /\ Locked'
  BY ManagerAssumption DEF IInv, Typed, Versions, Locked, RestoreSnapshot,
     Enters, Flying
<1>3. Settled'
  <2>1. \A a \in Agents : settled'[a] = 0
    BY DEF RestoreSnapshot
  <2>2. \A a \in Agents : registry'[a] # NoRecord => registry'[a].ver \in Nat
    BY DEF IInv, Typed, Record, RestoreSnapshot, AgentStateRecord
  <2>3. \A a \in Agents : \A d \in InFlight(a)' : call'[d].record.ver \in Nat
    BY DEF IInv, InCall, InFlight, RestoreSnapshot, AgentStateRecord
  <2> QED BY <2>1, <2>2, <2>3 DEF Settled
<1>4. SettledRowNeverRegresses'
  <2>1. \A a \in Agents : settled'[a] = 0 /\ db'[a] = db[a]
    BY DEF RestoreSnapshot
  <2>2. \A a \in Agents : db[a] # NoRecord => db[a].ver \in Nat
    BY DEF IInv, Typed, Record, AgentStateRecord
  <2> QED BY <2>1, <2>2 DEF SettledRowNeverRegresses
<1>5. WorkingNamesItsTask' /\ NoTaskCountedTwice'
  BY ManagerAssumption DEF IInv, WorkingNamesItsTask, NoTaskCountedTwice,
     RestoreSnapshot, Enters, Copies, InFlight, CountedOnce
<1> QED BY <1>1, <1>2, <1>3, <1>4, <1>5 DEF IInv

\* The scan of cleanup_stopped_agents writes nothing but its own list.
LEMMA CleanupScanStep ==
  ASSUME IInv, NEW c \in Callers, NEW a \in Agents, CleanupScan(c, a)
  PROVE  IInv'
<1>1. Typed' /\ InCall'
  BY ManagerAssumption DEF IInv, Typed, InCall, CleanupScan, Registered, Enters,
     history, Record, Calls, PCs
<1>2. Versions' /\ Locked'
  BY ManagerAssumption DEF IInv, Versions, Locked, CleanupScan, Enters, history,
     Flying
<1>3. Settled' /\ SettledRowNeverRegresses'
  BY ManagerAssumption DEF IInv, Settled, SettledRowNeverRegresses, CleanupScan,
     Enters, history, InFlight
<1>4. WorkingNamesItsTask' /\ NoTaskCountedTwice'
  BY ManagerAssumption DEF IInv, WorkingNamesItsTask, NoTaskCountedTwice,
     CleanupScan, Enters, history, Copies, InFlight, CountedOnce
<1> QED BY <1>1, <1>2, <1>3, <1>4 DEF IInv

\* The clean-up removes records, as unregister does.
LEMMA CleanupUnregisterStep ==
  ASSUME IInv, NEW c \in Callers, CleanupUnregister(c)
  PROVE  IInv'
<1>1. Typed' /\ InCall'
  BY ManagerAssumption DEF IInv, Typed, InCall, CleanupUnregister, Return,
     history, Record, Calls, PCs
<1>2. Versions' /\ Locked'
  BY ManagerAssumption DEF IInv, Versions, Locked, CleanupUnregister, Return,
     history, Flying
<1>3. Settled' /\ SettledRowNeverRegresses'
  BY ManagerAssumption DEF IInv, Settled, SettledRowNeverRegresses,
     CleanupUnregister, Return, history, InFlight
<1>4. WorkingNamesItsTask' /\ NoTaskCountedTwice'
  BY ManagerAssumption DEF IInv, WorkingNamesItsTask, NoTaskCountedTwice,
     CleanupUnregister, Return, history, Copies, InFlight, CountedOnce
<1> QED BY <1>1, <1>2, <1>3, <1>4 DEF IInv

\* A publication delivers to receivers what its own call recorded.
LEMMA PublishStep ==
  ASSUME IInv, NEW c \in Callers, Publish(c)
  PROVE  IInv'
<1>a. /\ call[c].record \in AgentStateRecord /\ call[c].record.ver \in Nat
      /\ call[c].record.ver <= clock
  BY DEF IInv, InCall, Versions, Flying, Publish, AgentStateRecord
<1>b. /\ pc' \in [Callers -> PCs] /\ call' \in [Callers -> Calls]
      /\ lockedBy' \in Callers \cup {NoCaller}
      /\ pc'[c] # "publish"
      /\ pc'[c] # "idle" => call'[c] = call[c] /\ lockedBy' = lockedBy
      /\ lockedBy' = c => pc'[c] = "sweep"
      /\ lockedBy' # c => lockedBy' \in {lockedBy, NoCaller}
      /\ \A d \in Callers \ {c} : call'[d] = call[d] /\ pc'[d] = pc[d]
  BY ManagerAssumption DEF IInv, Typed, Publish, Published, Return, Calls, PCs
<1>c. /\ seen' \in [Subs -> Nat]
      /\ \A s \in Subs : seen'[s] = seen[s] \/ seen'[s] = call[c].record.ver
  BY <1>a DEF IInv, Typed, Publish
<1>1. Typed'
  BY <1>b, <1>c DEF IInv, Typed, Publish
<1>2. InCall'
  BY ManagerAssumption DEF IInv, Typed, InCall, Publish, Published, Return
<1>3. Versions'
  BY ManagerAssumption DEF IInv, Typed, Versions, Publish, Published, Return,
     Flying
<1>4. Locked'
  <2>1. ASSUME NEW d \in Callers, lockedBy' = d
        PROVE  /\ pc'[d] \in {"publish", "sweep"} /\ call'[d].record.ver = clock'
               /\ pc'[d] = "publish" => \A s \in Subs : seen'[s] < clock'
    <3>1. lockedBy = d /\ clock' = clock
      BY <2>1, <1>b, ManagerAssumption DEF Publish
    <3>2. CASE d = c
      BY <3>1, <3>2, <2>1, <1>b DEF IInv, Locked
    <3>3. CASE d # c
      <4>1. pc[d] \in {"publish", "sweep"} /\ call[d].record.ver = clock
        BY <3>1 DEF IInv, Locked
      <4>2. call[c].record.ver # clock
        BY <4>1, <3>3 DEF IInv, Versions, Flying, Publish
      <4>3. call[c].record.ver < clock
        BY <4>2, <1>a DEF IInv, Typed
      <4> QED BY <3>1, <3>3, <4>1, <4>3, <1>b, <1>c DEF IInv, Locked
    <3> QED BY <3>2, <3>3
  <2>2. ASSUME NEW d \in Callers, pc'[d] = "publish",
               call'[d].record.state.kind = "Registered"
        PROVE  lockedBy' = d
    <3>1. d # c /\ pc[d] = "publish" /\ call[d] = call'[d]
      BY <2>2, <1>b
    <3>2. lockedBy = d
      BY <3>1, <2>2 DEF IInv, Locked
    <3>3. lockedBy' = lockedBy
      BY <3>1, <3>2 DEF Publish, Published
    <3> QED BY <3>2, <3>3
  <2> QED BY <2>1, <2>2 DEF Locked
<1>5. Settled' /\ SettledRowNeverRegresses'
  BY ManagerAssumption DEF IInv, Typed, Settled, SettledRowNeverRegresses,
     Publish, Published, Return, InFlight
<1>6. WorkingNamesItsTask'
  <2>1. \A a \in Agents : Copies(a)' \subseteq Copies(a)
    BY <1>b DEF Copies, InFlight, Publish
  <2> QED BY <2>1 DEF IInv, WorkingNamesItsTask
<1>7. NoTaskCountedTwice'
  <2>1. \A a \in Agents : Copies(a)' \subseteq Copies(a)
    BY <1>b DEF Copies, InFlight, Publish
  <2>2. begun' = begun
    BY DEF Publish
  <2> QED BY <2>1, <2>2 DEF IInv, NoTaskCountedTwice, CountedOnce
<1> QED BY <1>1, <1>2, <1>3, <1>4, <1>5, <1>6, <1>7 DEF IInv

\* The sweep of dead subscribers leaves records, rows and calls alone.
LEMMA SweepStep ==
  ASSUME IInv, NEW c \in Callers, Sweep(c)
  PROVE  IInv'
<1>1. Typed' /\ InCall'
  BY ManagerAssumption DEF IInv, Typed, InCall, Sweep, Published, Return, Calls,
     PCs
<1>2. Versions' /\ Locked'
  BY ManagerAssumption DEF IInv, Typed, Versions, Locked, Sweep, Published,
     Return, Flying
<1>a. \A a \in Agents : \A d \in InFlight(a)' : d \in InFlight(a) /\ call'[d] = call[d]
  BY DEF IInv, Typed, Sweep, Published, Return, InFlight
<1>3. Settled' /\ SettledRowNeverRegresses'
  BY <1>a DEF IInv, Settled, SettledRowNeverRegresses, Sweep
<1>b. \A a \in Agents : Copies(a)' \subseteq Copies(a)
  BY <1>a DEF Copies, Sweep
<1>4. WorkingNamesItsTask' /\ NoTaskCountedTwice'
  BY <1>b DEF IInv, WorkingNamesItsTask, NoTaskCountedTwice, Sweep, Coherent,
     CountedOnce
<1> QED BY <1>1, <1>2, <1>3, <1>4 DEF IInv

\* A save writes the copy its caller holds: the row may go back to it, a
\* settled one may not.
LEMMA SaveStep ==
  ASSUME IInv, NEW c \in Callers, Save(c)
  PROVE  IInv'
<1>a. /\ call[c].agent \in Agents /\ call[c].record \in AgentStateRecord
      /\ call[c].record.ver \in Nat /\ call[c].record.ver <= clock
      /\ c \in InFlight(call[c].agent)
  BY DEF IInv, InCall, Versions, Flying, InFlight, Save, AgentStateRecord
<1>b. /\ \A d \in Callers \ {c} : call'[d] = call[d] /\ pc'[d] = pc[d]
      /\ pc'[c] = "idle" /\ registry' = registry
      /\ \A a \in Agents : InFlight(a)' = InFlight(a) \ {c}
  BY DEF IInv, Typed, Save, Return, InFlight
<1>c. \A a \in Agents :
        /\ db'[a] = IF a = call[c].agent THEN call[c].record ELSE db[a]
        /\ \/ settled'[a] = settled[a]
           \/ /\ a = call[c].agent /\ settled'[a] = call[c].record.ver
              /\ InFlight(a) = {c} /\ registry[a] = call[c].record
  BY DEF IInv, Typed, Save
<1>1. Typed'
  <2>1. db' \in [Agents -> Record] /\ settled' \in [Agents -> Nat]
    BY <1>a DEF IInv, Typed, Record, Save
  <2>2. pc' \in [Callers -> PCs] /\ call' \in [Callers -> Calls]
    BY DEF IInv, Typed, Save, Return, Calls, PCs
  <2> QED BY <2>1, <2>2 DEF IInv, Typed, Save
<1>2. InCall'
  BY ManagerAssumption DEF IInv, Typed, InCall, Save, Return
<1>3. Versions'
  BY <1>a, <1>b, <1>c DEF IInv, Versions, Flying, Save
<1>4. Locked'
  BY ManagerAssumption DEF IInv, Locked, Save, Return
<1>5. Settled'
  <2>1. ASSUME NEW a \in Agents, NEW d \in InFlight(a)'
        PROVE  settled'[a] <= call'[d].record.ver
    <3>1. d \in InFlight(a) /\ d # c /\ call'[d] = call[d]
      BY <1>b DEF InFlight
    <3>2. settled'[a] = settled[a]
      BY <3>1, <1>c
    <3> QED BY <3>1, <3>2 DEF IInv, Settled
  <2>2. ASSUME NEW a \in Agents, registry'[a] # NoRecord
        PROVE  settled'[a] <= registry'[a].ver
    BY <2>2, <1>a, <1>b, <1>c DEF IInv, Settled
  <2> QED BY <2>1, <2>2 DEF Settled
<1>6. SettledRowNeverRegresses'
  <2>1. settled[call[c].agent] <= call[c].record.ver
    BY <1>a DEF IInv, Settled
  <2> QED BY <2>1, <1>a, <1>c DEF IInv, SettledRowNeverRegresses
<1>7. WorkingNamesItsTask' /\ NoTaskCountedTwice'
  BY ManagerAssumption DEF IInv, WorkingNamesItsTask, NoTaskCountedTwice, Save,
     Return, InFlight, NoCall, Copies, CountedOnce
<1> QED BY <1>1, <1>2, <1>3, <1>4, <1>5, <1>6, <1>7 DEF IInv

\* A failed save ends the call with the row as it was.
LEMMA SaveFailsStep ==
  ASSUME IInv, NEW c \in Callers, SaveFails(c)
  PROVE  IInv'
<1>1. Typed' /\ InCall'
  BY ManagerAssumption DEF IInv, Typed, InCall, SaveFails, Return, history,
     Calls, PCs
<1>2. Versions' /\ Locked'
  BY ManagerAssumption DEF IInv, Typed, Versions, Locked, SaveFails, Return,
     history, Flying
<1>3. Settled' /\ SettledRowNeverRegresses'
  BY ManagerAssumption DEF IInv, Typed, Settled, SettledRowNeverRegresses,
     SaveFails, Return, history, InFlight
<1>4. WorkingNamesItsTask' /\ NoTaskCountedTwice'
  BY ManagerAssumption DEF IInv, WorkingNamesItsTask, NoTaskCountedTwice,
     SaveFails, Return, NoCall, history, Copies, InFlight, CountedOnce
<1> QED BY <1>1, <1>2, <1>3, <1>4 DEF IInv

\* persist_state writes the record as it is under the lock.
LEMMA PersistStateStep ==
  ASSUME IInv, NEW c \in Callers, NEW a \in Agents, PersistState(c, a)
  PROVE  IInv'
<1>1. Typed' /\ InCall'
  BY ManagerAssumption DEF IInv, Typed, InCall, PersistState, Enters, history
<1>2. Versions' /\ Locked'
  BY ManagerAssumption DEF IInv, Versions, Locked, PersistState, Enters,
     history, Flying
<1>3. Settled' /\ SettledRowNeverRegresses'
  BY ManagerAssumption DEF IInv, Settled, SettledRowNeverRegresses,
     PersistState, Enters, history, InFlight
<1>4. WorkingNamesItsTask' /\ NoTaskCountedTwice'
  BY ManagerAssumption DEF IInv, WorkingNamesItsTask, NoTaskCountedTwice,
     PersistState, Enters, history, Copies, InFlight, CountedOnce
<1> QED BY <1>1, <1>2, <1>3, <1>4 DEF IInv

\* A deleted row takes its settled version with it.
LEMMA DeleteRecordStep ==
  ASSUME IInv, NEW c \in Callers, NEW a \in Agents, DeleteRecord(c, a)
  PROVE  IInv'
<1>1. Typed' /\ InCall'
  BY ManagerAssumption DEF IInv, Typed, InCall, DeleteRecord, Enters, Record
<1>2. Versions' /\ Locked'
  BY ManagerAssumption DEF IInv, Typed, Versions, Locked, DeleteRecord, Enters,
     Flying
<1>3. Settled'
  <2>1. /\ registry[a] # NoRecord => registry[a].ver \in Nat
        /\ \A d \in InFlight(a) : call[d].record.ver \in Nat
    BY DEF IInv, Typed, Record, InCall, InFlight, AgentStateRecord
  <2>2. \A b \in Agents : settled'[b] = IF b = a THEN 0 ELSE settled[b]
    BY DEF IInv, Typed, DeleteRecord
  <2>3. registry' = registry /\ call' = call /\ \A b \in Agents : InFlight(b)' = InFlight(b)
    BY DEF DeleteRecord, InFlight
  <2> QED BY <2>1, <2>2, <2>3 DEF IInv, Settled
<1>4. SettledRowNeverRegresses'
  BY ManagerAssumption DEF IInv, Typed, SettledRowNeverRegresses, DeleteRecord,
     Enters
<1>5. WorkingNamesItsTask' /\ NoTaskCountedTwice'
  BY ManagerAssumption DEF IInv, WorkingNamesItsTask, NoTaskCountedTwice,
     DeleteRecord, Enters, Copies, InFlight, CountedOnce
<1> QED BY <1>1, <1>2, <1>3, <1>4, <1>5 DEF IInv

\* A new receiver has been told nothing.
LEMMA SubscribeStep ==
  ASSUME IInv, NEW s \in Subs, Subscribe(s)
  PROVE  IInv'
<1>1. Typed' /\ InCall'
  BY ManagerAssumption DEF IInv, Typed, InCall, Subscribe, history
<1>2. Versions' /\ Locked'
  BY ManagerAssumption DEF IInv, Versions, Locked, Subscribe, history, Flying
<1>3. Settled' /\ SettledRowNeverRegresses'
  BY ManagerAssumption DEF IInv, Settled, SettledRowNeverRegresses, Subscribe,
     history, InFlight
<1>4. WorkingNamesItsTask' /\ NoTaskCountedTwice'
  BY ManagerAssumption DEF IInv, WorkingNamesItsTask, NoTaskCountedTwice,
     Subscribe, history, Copies, InFlight, CountedOnce
<1> QED BY <1>1, <1>2, <1>3, <1>4 DEF IInv

\* A dropped receiver is told nothing more.
LEMMA DropReceiverStep ==
  ASSUME IInv, NEW s \in Subs, DropReceiver(s)
  PROVE  IInv'
<1>1. Typed' /\ InCall'
  BY ManagerAssumption DEF IInv, Typed, InCall, DropReceiver, history
<1>2. Versions' /\ Locked'
  BY ManagerAssumption DEF IInv, Versions, Locked, DropReceiver, history, Flying
<1>3. Settled' /\ SettledRowNeverRegresses'
  BY ManagerAssumption DEF IInv, Settled, SettledRowNeverRegresses,
     DropReceiver, history, InFlight
<1>4. WorkingNamesItsTask' /\ NoTaskCountedTwice'
  BY ManagerAssumption DEF IInv, WorkingNamesItsTask, NoTaskCountedTwice,
     DropReceiver, history, Copies, InFlight, CountedOnce
<1> QED BY <1>1, <1>2, <1>3, <1>4 DEF IInv

\* Clearing the subscribers is no news to any of them.
LEMMA ClearSubscribersStep ==
  ASSUME IInv, ClearSubscribers
  PROVE  IInv'
<1>1. Typed' /\ InCall'
  BY ManagerAssumption DEF IInv, Typed, InCall, ClearSubscribers
<1>2. Versions' /\ Locked'
  BY ManagerAssumption DEF IInv, Versions, Locked, ClearSubscribers, Flying
<1>3. Settled' /\ SettledRowNeverRegresses'
  BY ManagerAssumption DEF IInv, Settled, SettledRowNeverRegresses,
     ClearSubscribers, InFlight
<1>4. WorkingNamesItsTask' /\ NoTaskCountedTwice'
  BY ManagerAssumption DEF IInv, WorkingNamesItsTask, NoTaskCountedTwice,
     ClearSubscribers, Copies, InFlight, CountedOnce
<1> QED BY <1>1, <1>2, <1>3, <1>4 DEF IInv

\* A crash empties the memory and the calls, and keeps the rows.
LEMMA CrashStep ==
  ASSUME IInv, Crash
  PROVE  IInv'
<1>1. Typed' /\ InCall'
  BY ManagerAssumption DEF IInv, Typed, InCall, Crash, Record, Calls, PCs
<1>2. Versions' /\ Locked'
  BY ManagerAssumption DEF IInv, Versions, Locked, Crash, Flying
<1>3. Settled' /\ SettledRowNeverRegresses'
  BY ManagerAssumption DEF IInv, Settled, SettledRowNeverRegresses, Crash,
     InFlight
<1>4. WorkingNamesItsTask' /\ NoTaskCountedTwice'
  BY ManagerAssumption DEF IInv, WorkingNamesItsTask, NoTaskCountedTwice, Crash,
     Copies, InFlight, CountedOnce
<1> QED BY <1>1, <1>2, <1>3, <1>4 DEF IInv

\* The invariant depends on the variables alone.
LEMMA StutterIInv ==
  ASSUME IInv, UNCHANGED vars
  PROVE  IInv'
<1>1. Typed' /\ InCall'
  BY DEF IInv, Typed, InCall, vars, state, history
<1>2. Versions' /\ Locked'
  BY DEF IInv, Versions, Locked, Flying, vars, state, history
<1>3. Settled' /\ SettledRowNeverRegresses'
  BY DEF IInv, Settled, SettledRowNeverRegresses, InFlight, vars, state, history
<1>4. WorkingNamesItsTask' /\ NoTaskCountedTwice'
  BY DEF IInv, WorkingNamesItsTask, NoTaskCountedTwice, CountedOnce, Copies,
     InFlight, vars, state, history
<1> QED BY <1>1, <1>2, <1>3, <1>4 DEF IInv

\* The empty manager satisfies the invariant.
LEMMA InitIInv == Init => IInv
<1> SUFFICES ASSUME Init PROVE IInv
  OBVIOUS
<1>1. Typed /\ InCall
  BY DEF Init, Typed, InCall, Record, Calls, PCs
<1>2. Versions /\ Locked
  BY ManagerAssumption DEF Init, Versions, Locked, Flying
<1>3. Settled /\ SettledRowNeverRegresses
  BY DEF Init, Settled, SettledRowNeverRegresses, InFlight
<1>4. \A a \in Agents : Copies(a) = {}
  BY DEF Init, Copies, InFlight
<1>5. WorkingNamesItsTask /\ NoTaskCountedTwice
  BY <1>4 DEF WorkingNamesItsTask, NoTaskCountedTwice
<1> QED BY <1>1, <1>2, <1>3, <1>5 DEF IInv

\* The invariant is inductive: one step per action.
LEMMA NextIInv == IInv /\ [Next]_vars => IInv'
<1> SUFFICES ASSUME IInv, [Next]_vars PROVE IInv'
  OBVIOUS
<1>1. ASSUME NEW c \in Callers, CallerStep(c) PROVE IInv'
  BY <1>1, RegisterAgentStep, UnregisterAgentStep, CleanupScanStep,
     PersistStateStep, DeleteRecordStep, TransitionStep, CreateSnapshotStep,
     RestoreSnapshotStep, CleanupUnregisterStep, PublishStep, SweepStep,
     SaveStep, SaveFailsStep DEF CallerStep
<1>2. ASSUME NEW s \in Subs, Subscribe(s) \/ DropReceiver(s) PROVE IInv'
  BY <1>2, SubscribeStep, DropReceiverStep
<1>3. CASE LoadFromDb \/ LoadFails \/ ClearSubscribers \/ Crash
  BY <1>3, LoadFromDbStep, LoadFailsStep, ClearSubscribersStep, CrashStep
<1>4. CASE UNCHANGED vars
  BY <1>4, StutterIInv
<1> QED BY <1>1, <1>2, <1>3, <1>4 DEF Next

\* Every reachable state satisfies the inductive invariant.
THEOREM Invariance == Spec => []IInv
BY InitIInv, NextIInv, PTL DEF Spec

\* Every copy of a Working agent's record names its task, through transition,
\* save_record, load_from_db and restore_snapshot.
THEOREM WorkingIsCoherent == Spec => []WorkingNamesItsTask
<1>1. IInv => WorkingNamesItsTask
  BY DEF IInv
<1> QED BY <1>1, Invariance, PTL

\* No copy of a record counts more tasks than transition began.
THEOREM TasksCountedOnce == Spec => []NoTaskCountedTwice
<1>1. IInv => NoTaskCountedTwice
  BY DEF IInv
<1> QED BY <1>1, Invariance, PTL

\* Nobody is told anything as new as a registration before it is announced.
THEOREM RegistrationFirst == Spec => []RegistrationAnnouncedFirst
<1>1. IInv => RegistrationAnnouncedFirst
  BY DEF IInv, Locked, RegistrationAnnouncedFirst
<1> QED BY <1>1, Invariance, PTL

\* A row is not rolled back behind the version it had when it was settled.
THEOREM SettledRowsStay == Spec => []SettledRowNeverRegresses
<1>1. IInv => SettledRowNeverRegresses
  BY DEF IInv
<1> QED BY <1>1, Invariance, PTL

----------------------------------------------------------------------------
(* The vector of subscribers and the indices a sweep removes.              *)

\* Ascending lists every element of a finite set of numbers: an element's rank
\* is its place, ranks differ, and so they fill 1..Cardinality(K).
LEMMA AscendingLists ==
  ASSUME NEW K \in SUBSET Nat, IsFiniteSet(K)
  PROVE  /\ Cardinality(K) \in Nat
         /\ Ascending(K) \in [1..Cardinality(K) -> K]
         /\ \A i \in K : \E n \in 1..Cardinality(K) : Ascending(K)[n] = i
<1> DEFINE Upto(i) == {j \in K : j <= i}
           rank == [i \in K |-> Cardinality(Upto(i))]
           last == Cardinality(K)
<1>1. last \in Nat
  BY FS_CardinalityType
<1>2. ASSUME NEW i \in K
      PROVE  IsFiniteSet(Upto(i)) /\ Cardinality(Upto(i)) \in 1..last
  <2>1. Upto(i) \in SUBSET K /\ i \in Upto(i)
    OBVIOUS
  <2>2. IsFiniteSet(Upto(i)) /\ Cardinality(Upto(i)) <= last
    BY <2>1, FS_Subset
  <2>3. Cardinality(Upto(i)) \in Nat /\ Cardinality(Upto(i)) # 0
    BY <2>1, <2>2, FS_CardinalityType, FS_EmptySet
  <2> HIDE DEF Upto, last
  <2> QED BY <1>1, <2>2, <2>3
<1>3. ASSUME NEW i \in K, NEW k \in K, i < k
      PROVE  rank[i] # rank[k]
  <2>1. \A j \in K : j \in Nat
    OBVIOUS
  <2>2. \A j \in K : j <= i => j <= k
    BY <1>3, <2>1
  <2>3. k <= k /\ ~(k <= i)
    BY <1>3, <2>1
  <2>4. Upto(i) \in SUBSET Upto(k) /\ k \in Upto(k) /\ k \notin Upto(i)
    BY <2>2, <2>3, Zenon
  <2>5. IsFiniteSet(Upto(k))
    BY <1>2
  <2>6. Cardinality(Upto(i)) # Cardinality(Upto(k))
    <3> HIDE DEF Upto
    <3> QED BY <2>4, <2>5, FS_Subset
  <2> QED BY <2>6
<1>4. rank \in [K -> 1..last]
  BY <1>2
<1>5. ASSUME NEW i \in K, NEW k \in K, i # k
      PROVE  rank[i] # rank[k]
  <2>1. i < k \/ k < i
    BY <1>5
  <2> HIDE DEF rank
  <2> QED BY <1>3, <2>1
<1>6. rank \in Injection(K, 1..last)
  <2> HIDE DEF rank, last
  <2> QED BY <1>4, <1>5, Zenon DEF Injection, IsInjective
<1>7. rank \in Surjection(K, 1..last)
  <2>1. IsFiniteSet(1..last) /\ Cardinality(1..last) = last
    <3> HIDE DEF last
    <3> QED BY <1>1, FS_Interval
  <2>2. PICK T : T = 1..last
    OBVIOUS
  <2> HIDE DEF rank
  <2> QED BY <1>6, <2>1, <2>2, FS_Injection
<1>8. \A n \in 1..last : \E i \in K : rank[i] = n
  <2> HIDE DEF rank, last
  <2> QED BY <1>7, Zenon DEF Surjection
<1>9. \A n \in 1..last : \E i \in K : Cardinality(Upto(i)) = n
  BY <1>8
<1>10. \A n \in 1..last : Ascending(K)[n] = CHOOSE i \in K : Cardinality(Upto(i)) = n
  BY DEF Ascending
<1>11. ASSUME NEW n \in 1..last
       PROVE  Ascending(K)[n] \in K /\ Cardinality(Upto(Ascending(K)[n])) = n
  <2> HIDE DEF Upto, last
  <2> QED BY <1>9, <1>10, Zenon
<1>12. Ascending(K) \in [1..last -> K]
  <2>1. Ascending(K) = [n \in 1..last |-> Ascending(K)[n]]
    BY DEF Ascending
  <2> HIDE DEF last
  <2> QED BY <1>11, <2>1
<1>13. ASSUME NEW i \in K
       PROVE  \E n \in 1..last : Ascending(K)[n] = i
  <2>1. Cardinality(Upto(i)) \in 1..last
    BY <1>2
  <2>2. PICK n \in 1..last : n = Cardinality(Upto(i))
    <3> HIDE DEF Upto, last
    <3> QED BY <2>1
  <2>3. PICK k \in K : k = Ascending(K)[n] /\ Cardinality(Upto(k)) = n
    BY <1>11, Zenon
  <2>4. rank[k] = rank[i]
    BY <2>2, <2>3
  <2>5. k = i
    <3> HIDE DEF rank
    <3> QED BY <1>5, <2>4
  <2> QED BY <2>3, <2>5
<1> QED BY <1>1, <1>12, <1>13

\* What remains of a vector is a vector, and holds every element whose index
\* was not removed.
LEMMA WithoutIndicesKeeps ==
  ASSUME NEW S, NEW q \in Seq(S), NEW D
  PROVE  /\ WithoutIndices(q, D) \in Seq(S)
         /\ \A i \in DOMAIN q \ D : q[i] \in ToSet(WithoutIndices(q, D))
<1>1. PICK K : K = DOMAIN q \ D
  OBVIOUS
<1>2. K \in SUBSET Nat /\ K \in SUBSET (1..Len(q)) /\ Len(q) \in Nat
  BY <1>1
<1>3. IsFiniteSet(1..Len(q))
  BY <1>2, FS_Interval
<1>4. IsFiniteSet(K)
  BY <1>2, <1>3, FS_Subset
<1>5. PICK m \in Nat : \E f \in [1..m -> K] :
        f = Ascending(K) /\ \A i \in K : \E n \in 1..m : f[n] = i
  BY <1>2, <1>4, AscendingLists
<1>6. PICK kept \in [1..m -> K] :
        kept = Ascending(K) /\ \A i \in K : \E n \in 1..m : kept[n] = i
  BY <1>5
<1>7. WithoutIndices(q, D) = [n \in 1..m |-> q[kept[n]]]
  BY <1>1, <1>6 DEF WithoutIndices
<1>8. \A i \in K : q[i] \in S
  BY <1>1
<1>9. \A n \in 1..m : q[kept[n]] \in S
  BY <1>8
<1>10. [n \in 1..m |-> q[kept[n]]] \in Seq(S)
  BY <1>9
<1>11. ASSUME NEW i \in K
      PROVE  q[i] \in ToSet([n \in 1..m |-> q[kept[n]]])
  <2>1. PICK n \in 1..m : kept[n] = i
    BY <1>6
  <2> QED BY <2>1 DEF ToSet
<1> QED BY <1>1, <1>7, <1>10, <1>11

\* The vector, the receivers and the indices the calls carry.  Indices that no
\* removal has shifted since they were computed still lie in the vector and
\* belong to dropped receivers: Append leaves them in place, and a dropped
\* receiver never opens again.
Subscribed ==
  /\ subscribers \in Seq(Subs)
  /\ receiver \in [Subs -> {"new", "open", "dropped"}]
  /\ dead \in [Callers -> SUBSET Nat]
  /\ booted \in BOOLEAN
  /\ removals \in Nat
  /\ deadAt \in [Callers -> Nat]
  /\ \A c \in Callers :
       /\ deadAt[c] <= removals
       /\ deadAt[c] = removals =>
            \A i \in dead[c] : /\ i \in DOMAIN subscribers
                              /\ receiver[subscribers[i]] = "dropped"

\* The steps that do not touch the vector keep what is known of it.
LEMMA QuietStep ==
  ASSUME Subscribed, booted' \in BOOLEAN,
         UNCHANGED <<subscribers, receiver, dead, removals, deadAt>>
  PROVE  Subscribed'
BY DEF Subscribed

\* publish_event takes the indices of the receivers that are dropped now.
LEMMA PublishSubscribed ==
  ASSUME Subscribed, NEW c \in Callers, Publish(c)
  PROVE  Subscribed'
<1>1. DeadIndices \subseteq DOMAIN subscribers /\ DeadIndices \in SUBSET Nat
  BY DEF DeadIndices, Subscribed
<1>2. \A i \in DeadIndices : receiver[subscribers[i]] = "dropped"
  BY DEF DeadIndices
<1>3. PICK D \in SUBSET Nat : D = DeadIndices
  BY <1>1
<1>4. /\ dead' = [dead EXCEPT ![c] = D] /\ deadAt' = [deadAt EXCEPT ![c] = removals]
      /\ UNCHANGED <<subscribers, receiver, booted, removals>>
  BY <1>3 DEF Publish
<1>5. dead' \in [Callers -> SUBSET Nat] /\ deadAt' \in [Callers -> Nat]
  BY <1>4 DEF Subscribed
<1>6. ASSUME NEW d \in Callers
      PROVE  /\ deadAt'[d] <= removals
             /\ deadAt'[d] = removals =>
                  \A i \in dead'[d] : /\ i \in DOMAIN subscribers
                                     /\ receiver[subscribers[i]] = "dropped"
  <2>1. CASE d = c
    BY <1>1, <1>2, <1>3, <1>4, <2>1 DEF Subscribed
  <2>2. CASE d # c
    BY <1>4, <2>2 DEF Subscribed
  <2> QED BY <2>1, <2>2
<1> QED BY <1>4, <1>5, <1>6 DEF Subscribed

\* A sweep whose removal shifts the vector makes every other call's indices
\* stale; one that removes nothing changes nothing.
LEMMA SweepSubscribed ==
  ASSUME Subscribed, NEW c \in Callers, Sweep(c)
  PROVE  Subscribed'
<1>1. /\ subscribers' = WithoutIndices(subscribers, dead[c])
      /\ removals' = IF subscribers' = subscribers THEN removals ELSE removals + 1
      /\ dead' = [dead EXCEPT ![c] = {}] /\ deadAt' = [deadAt EXCEPT ![c] = 0]
      /\ UNCHANGED <<receiver, booted>>
  BY DEF Sweep
<1>2. subscribers' \in Seq(Subs)
  BY <1>1, WithoutIndicesKeeps DEF Subscribed
<1>3. dead' \in [Callers -> SUBSET Nat] /\ deadAt' \in [Callers -> Nat]
  BY <1>1 DEF Subscribed
<1>4. removals' \in Nat /\ removals <= removals'
  BY <1>1 DEF Subscribed
<1>5. ASSUME NEW d \in Callers
      PROVE  /\ deadAt'[d] <= removals'
             /\ deadAt'[d] = removals' =>
                  \A i \in dead'[d] : /\ i \in DOMAIN subscribers'
                                     /\ receiver[subscribers'[i]] = "dropped"
  <2>1. CASE d = c
    BY <1>1, <1>4, <2>1 DEF Subscribed
  <2>2. CASE d # c
    <3>1. deadAt'[d] = deadAt[d] /\ dead'[d] = dead[d] /\ deadAt[d] \in Nat
          /\ deadAt[d] <= removals /\ removals \in Nat
      BY <1>1, <2>2 DEF Subscribed
    <3>2. CASE subscribers' = subscribers
      BY <1>1, <3>1, <3>2 DEF Subscribed
    <3>3. CASE subscribers' # subscribers
      BY <1>1, <3>1, <3>3
    <3> QED BY <3>2, <3>3
  <2> QED BY <2>1, <2>2
<1> QED BY <1>1, <1>2, <1>3, <1>4, <1>5 DEF Subscribed

\* A new subscriber goes to the end of the vector.
LEMMA SubscribeSubscribed ==
  ASSUME Subscribed, NEW s \in Subs, Subscribe(s)
  PROVE  Subscribed' /\ \A i \in DOMAIN subscribers :
                           i \in DOMAIN subscribers' /\ subscribers'[i] = subscribers[i]
<1>1. /\ receiver[s] = "new" /\ receiver' = [receiver EXCEPT ![s] = "open"]
      /\ subscribers' = Append(subscribers, s)
      /\ UNCHANGED <<dead, booted, removals, deadAt>>
  BY DEF Subscribe, history
<1>2. subscribers \in Seq(Subs)
  BY DEF Subscribed
<1>3. /\ subscribers' \in Seq(Subs)
      /\ \A i \in DOMAIN subscribers :
           i \in DOMAIN subscribers' /\ subscribers'[i] = subscribers[i]
  BY <1>1, <1>2
<1>4. \A r \in Subs : receiver[r] = "dropped" => receiver'[r] = "dropped"
  BY <1>1 DEF Subscribed
<1>5. \A i \in DOMAIN subscribers : subscribers[i] \in Subs
  BY <1>2
<1>6. receiver' \in [Subs -> {"new", "open", "dropped"}]
  BY <1>1 DEF Subscribed
<1> QED BY <1>1, <1>3, <1>4, <1>5, <1>6 DEF Subscribed

\* A receiver that is dropped makes no index stale.
LEMMA DropReceiverSubscribed ==
  ASSUME Subscribed, NEW s \in Subs, DropReceiver(s)
  PROVE  Subscribed'
<1>1. /\ receiver' = [receiver EXCEPT ![s] = "dropped"]
      /\ UNCHANGED <<subscribers, dead, booted, removals, deadAt>>
  BY DEF DropReceiver, history
<1>2. \A r \in Subs : receiver[r] = "dropped" => receiver'[r] = "dropped"
  BY <1>1 DEF Subscribed
<1>3. \A i \in DOMAIN subscribers : subscribers[i] \in Subs
  BY DEF Subscribed
<1>4. receiver' \in [Subs -> {"new", "open", "dropped"}]
  BY <1>1 DEF Subscribed
<1> QED BY <1>1, <1>2, <1>3, <1>4 DEF Subscribed

\* clear_subscribers makes every call's indices stale, a crash ends the calls.
LEMMA EmptiedSubscribed ==
  ASSUME Subscribed, ClearSubscribers \/ Crash
  PROVE  Subscribed'
<1>1. <<>> \in Seq(Subs)
  OBVIOUS
<1>2. CASE ClearSubscribers
  <2>1. \A c \in Callers : deadAt[c] <= removals' /\ deadAt[c] # removals'
    BY <1>2 DEF Subscribed, ClearSubscribers
  <2> QED BY <1>1, <1>2, <2>1 DEF Subscribed, ClearSubscribers
<1>3. CASE Crash
  <2>1. receiver' \in [Subs -> {"new", "open", "dropped"}]
    BY <1>3 DEF Crash, Subscribed
  <2>2. /\ dead' \in [Callers -> SUBSET Nat] /\ deadAt' \in [Callers -> Nat]
        /\ \A c \in Callers : dead'[c] = {} /\ deadAt'[c] = 0
    BY <1>3 DEF Crash
  <2>3. subscribers' \in Seq(Subs)
    BY <1>1, <1>3 DEF Crash
  <2>4. booted' \in BOOLEAN
    BY <1>3 DEF Crash
  <2>5. removals' \in Nat /\ 0 <= removals'
    BY <1>3 DEF Crash, Subscribed
  <2> QED BY <2>1, <2>2, <2>3, <2>4, <2>5 DEF Subscribed
<1> QED BY <1>2, <1>3

\* The steps of a caller but publish and sweep leave the vector alone.
LEMMA CallerQuiet ==
  ASSUME NEW c \in Callers, CallerStep(c)
  PROVE  \/ Publish(c) \/ Sweep(c)
         \/ UNCHANGED <<subscribers, receiver, dead, booted, removals, deadAt>>
<1>1. ASSUME NEW a \in Agents,
             \/ RegisterAgent(c, a) \/ UnregisterAgent(c, a) \/ CleanupScan(c, a)
             \/ PersistState(c, a) \/ DeleteRecord(c, a)
             \/ \E t \in StateTransition : Transition(c, a, t)
      PROVE  UNCHANGED <<subscribers, receiver, dead, booted, removals, deadAt>>
  BY <1>1 DEF RegisterAgent, UnregisterAgent, CleanupScan, PersistState,
     DeleteRecord, Transition, history
<1>2. CASE CreateSnapshot(c) \/ RestoreSnapshot(c) \/ CleanupUnregister(c)
           \/ Save(c) \/ SaveFails(c)
  BY <1>2 DEF CreateSnapshot, RestoreSnapshot, CleanupUnregister, Save,
     SaveFails, history
<1> QED BY <1>1, <1>2 DEF CallerStep

\* Subscribed is inductive.
LEMMA NextSubscribed == Subscribed /\ [Next]_vars => Subscribed'
<1> SUFFICES ASSUME Subscribed, [Next]_vars PROVE Subscribed'
  OBVIOUS
<1>0. booted \in BOOLEAN
  BY DEF Subscribed
<1>1. ASSUME NEW c \in Callers, CallerStep(c) PROVE Subscribed'
  BY <1>0, <1>1, CallerQuiet, PublishSubscribed, SweepSubscribed, QuietStep
<1>2. ASSUME NEW s \in Subs, Subscribe(s) \/ DropReceiver(s) PROVE Subscribed'
  BY <1>2, SubscribeSubscribed, DropReceiverSubscribed
<1>3. CASE LoadFromDb \/ LoadFails
  <2>1. booted' = TRUE /\ UNCHANGED <<subscribers, receiver, dead, removals, deadAt>>
    BY <1>3 DEF LoadFromDb, LoadFails, history
  <2> QED BY <2>1, QuietStep
<1>4. CASE ClearSubscribers \/ Crash
  BY <1>4, EmptiedSubscribed
<1>5. CASE UNCHANGED vars
  BY <1>0, <1>5, QuietStep DEF vars, state, history
<1> QED BY <1>1, <1>2, <1>3, <1>4, <1>5 DEF Next

\* Every reachable state has a well-formed vector of subscribers.
LEMMA SubscribedAlways == Spec => []Subscribed
<1>1. ASSUME Init PROVE Subscribed
  <2>1. /\ dead \in [Callers -> SUBSET Nat] /\ deadAt \in [Callers -> Nat]
        /\ \A c \in Callers : dead[c] = {} /\ deadAt[c] = 0
        /\ receiver \in [Subs -> {"new", "open", "dropped"}]
    BY <1>1 DEF Init
  <2>2. <<>> \in Seq(Subs)
    OBVIOUS
  <2>3. subscribers \in Seq(Subs) /\ removals = 0
    BY <1>1, <2>2 DEF Init
  <2>4. booted \in BOOLEAN
    BY <1>1 DEF Init
  <2> QED BY <2>1, <2>3, <2>4 DEF Subscribed
<1> QED BY <1>1, NextSubscribed, PTL DEF Spec

\* Every variable has its type, the vector of subscribers and the indices that
\* publish_event carries from one lock to the next included.
THEOREM Typing == Spec => []TypeOK
<1>1. IInv /\ Subscribed => TypeOK
  BY DEF IInv, Typed, Record, Subscribed, TypeOK
<1> QED BY <1>1, Invariance, SubscribedAlways, PTL

\* publish_event's removal takes a live subscriber out of the vector only when
\* another removal came between its read lock and its write lock.
THEOREM LiveSubscribersAreKept == Spec => LiveSubscriberLostOnlyToStaleIndices
<1> DEFINE Kept == \A s \in Subs : Removed(s) /\ ~ClearSubscribers /\ ~Crash =>
                     \E c \in Callers : pc[c] = "sweep" /\ deadAt[c] # removals
<1>1. ASSUME Subscribed, [Next]_vars PROVE [Kept]_vars
  <2>1. ASSUME subscribers' = subscribers PROVE Kept
    BY <2>1 DEF Removed
  <2>2. ASSUME NEW c \in Callers, Sweep(c) PROVE Kept
    <3> SUFFICES ASSUME NEW s \in Subs, Removed(s), deadAt[c] = removals PROVE FALSE
      <4>1. pc[c] = "sweep"
        BY <2>2 DEF Sweep
      <4> QED BY <4>1
    <3>1. PICK i \in DOMAIN subscribers : subscribers[i] = s
      BY DEF Removed, ToSet
    <3>2. i \notin dead[c]
      BY <1>1, <3>1 DEF Subscribed, Removed
    <3>3. subscribers \in Seq(Subs)
      BY <1>1 DEF Subscribed
    <3>4. s \in ToSet(WithoutIndices(subscribers, dead[c]))
      BY <3>1, <3>2, <3>3, WithoutIndicesKeeps
    <3> QED BY <2>2, <3>4 DEF Sweep, Removed
  <2>3. ASSUME NEW r \in Subs, Subscribe(r) PROVE Kept
    <3>1. \A i \in DOMAIN subscribers :
            i \in DOMAIN subscribers' /\ subscribers'[i] = subscribers[i]
      BY <1>1, <2>3, SubscribeSubscribed
    <3> QED BY <3>1 DEF Removed, ToSet
  <2>4. CASE ClearSubscribers \/ Crash
    BY <2>4
  <2>5. ASSUME NEW c \in Callers, CallerStep(c)
        PROVE  Sweep(c) \/ subscribers' = subscribers
    BY <2>5, CallerQuiet DEF Publish
  <2>6. ASSUME NEW r \in Subs, DropReceiver(r) PROVE subscribers' = subscribers
    BY <2>6 DEF DropReceiver
  <2>7. LoadFromDb \/ LoadFails => subscribers' = subscribers
    BY DEF LoadFromDb, LoadFails
  <2>8. UNCHANGED vars => subscribers' = subscribers
    BY DEF vars, state
  <2> HIDE DEF Kept
  <2> QED BY <1>1, <2>1, <2>2, <2>3, <2>4, <2>5, <2>6, <2>7, <2>8 DEF Next
<1> QED BY <1>1, SubscribedAlways, PTL DEF Spec, LiveSubscriberLostOnlyToStaleIndices
=============================================================================
