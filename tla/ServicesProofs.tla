---------------------------- MODULE ServicesProofs ----------------------------
(***************************************************************************)
(* Safety of the state store, the session pool, the plans of an agent and  *)
(* the in-memory transport, for any clients, agents, sessions, plans and   *)
(* topics, and any bounds; and type correctness of the run that checks     *)
(* them together with the contracts and the agents of the gateway.         *)
(***************************************************************************)
EXTENDS MCServices, ContractsProofs, GatewayAgentsProofs, SequenceTheorems

\* What stands in for induction over the natural numbers.
LEMMA NatMinimum ==
  ASSUME NEW C, C \subseteq Nat, C # {}
  PROVE  \E n \in C : \A m \in C : n <= m
<1>1. PICK top \in C : TRUE
  OBVIOUS
<1> DEFINE D == {0..n : n \in {k \in C : k <= top}}
<1>2. D \subseteq SUBSET (0..top) /\ D # {}
  BY <1>1
<1>3. IsFiniteSet(0..top)
  BY <1>1, FS_Interval
<1>4. PICK U \in D : \A V \in D : V \subseteq U => V = U
  <2>1. PICK S : S = 0..top
    OBVIOUS
  <2>2. D \subseteq SUBSET S /\ D # {} /\ IsFiniteSet(S)
    BY <1>2, <1>3, <2>1
  <2> HIDE DEF D
  <2> QED BY <2>2, MinimalSubset
<1>5. PICK n \in C : n <= top /\ U = 0..n
  BY <1>4
<1>6. ASSUME NEW m \in C, m < n PROVE FALSE
  <2>1. m \in Nat /\ n \in Nat /\ top \in Nat /\ m <= top
    BY <1>1, <1>5, <1>6
  <2>2. 0..m \in D
    BY <2>1, <1>6
  <2>3. 0..m \subseteq 0..n
    BY <2>1, <1>6
  <2>4. n \in 0..n /\ n \notin 0..m
    BY <2>1, <1>6
  <2> HIDE DEF D
  <2> QED BY <1>4, <1>5, <2>2, <2>3, <2>4
<1>7. \A m \in C : n <= m
  BY <1>5, <1>6
<1> QED BY <1>5, <1>7

(***************************************************************************)
(* The state store: what a log adds up to                                  *)
(***************************************************************************)
\* One row more, for the agent a.
Next1(info, e, a) == IF e.agent = a THEN Apply(info, e) ELSE info

IsReplay(f, rows, a) ==
  f = [n \in 0..Len(rows) |-> IF n = 0 THEN NoInfo ELSE Next1(f[n - 1], rows[n], a)]

LEMMA ReplayIsIter ==
  ASSUME NEW rows, NEW a
  PROVE  Replay(rows, a) = (CHOOSE f : IsReplay(f, rows, a))[Len(rows)]
BY DEF Replay, IsReplay, Next1

LEMMA ReplayValues ==
  ASSUME NEW rows, NEW a, NEW f, IsReplay(f, rows, a), Len(rows) \in Nat
  PROVE  /\ f[0] = NoInfo
         /\ \A n \in 1..Len(rows) : f[n] = Next1(f[n - 1], rows[n], a)
BY DEF IsReplay

LEMMA ReplayUnique ==
  ASSUME NEW R, NEW rows \in Seq(R), NEW more \in Seq(R), NEW a,
         Len(rows) <= Len(more), \A n \in 1..Len(rows) : more[n] = rows[n],
         NEW f, IsReplay(f, rows, a), NEW g, IsReplay(g, more, a)
  PROVE  g[Len(rows)] = f[Len(rows)]
<1> DEFINE C == {n \in 0..Len(rows) : g[n] # f[n]}
<1> SUFFICES ASSUME C # {} PROVE FALSE
  OBVIOUS
<1>0. Len(rows) \in Nat /\ Len(more) \in Nat
  OBVIOUS
<1>1. PICK n \in C : \A m \in C : n <= m
  <2> C \subseteq Nat
    OBVIOUS
  <2> HIDE DEF C
  <2> QED BY NatMinimum
<1>2. n # 0
  BY <1>0, ReplayValues
<1>3. n - 1 \in 0..Len(rows) /\ n - 1 \notin C /\ n \in 1..Len(rows) /\ n \in 1..Len(more)
  BY <1>0, <1>1, <1>2
<1>4. g[n - 1] = f[n - 1]
  BY <1>3
<1>5. f[n] = Next1(f[n - 1], rows[n], a) /\ g[n] = Next1(g[n - 1], more[n], a)
  BY <1>0, <1>3, ReplayValues
<1> QED BY <1>1, <1>3, <1>4, <1>5

LEMMA ReplayExists ==
  ASSUME NEW R, NEW rows \in Seq(R), NEW a
  PROVE  \E f : IsReplay(f, rows, a)
<1> DEFINE P(f, n) == f = [k \in 0..n |-> IF k = 0 THEN NoInfo ELSE Next1(f[k - 1], rows[k], a)]
<1> DEFINE C == {n \in Nat : ~ \E f : P(f, n)}
<1>1. C = {}
  <2> SUFFICES ASSUME C # {} PROVE FALSE
    OBVIOUS
  <2>1. PICK n \in C : \A m \in C : n <= m
    <3> C \subseteq Nat
      OBVIOUS
    <3> HIDE DEF C
    <3> QED BY NatMinimum
  <2>2. n # 0
    <3>1. P([k \in 0..0 |-> NoInfo], 0)
      OBVIOUS
    <3> QED BY <2>1, <3>1
  <2>3. \E f : P(f, n - 1)
    <3> HIDE DEF P
    <3>1. n \in Nat /\ n - 1 \in Nat
      BY <2>1, <2>2
    <3>2. n - 1 \notin C
      <4> HIDE DEF C
      <4> QED BY <2>1, <3>1
    <3> QED BY <3>1, <3>2
  <2>3a. PICK f : P(f, n - 1)
    BY <2>3
  <2> DEFINE g == [k \in 0..n |-> IF k = n THEN Next1(f[n - 1], rows[n], a) ELSE f[k]]
  <2>4. P(g, n)
    <3> SUFFICES ASSUME NEW k \in 0..n
                 PROVE g[k] = IF k = 0 THEN NoInfo ELSE Next1(g[k - 1], rows[k], a)
      OBVIOUS
    <3>1. CASE k = n
      BY <3>1, <2>1, <2>2
    <3>2. CASE k # n
      <4>1. k \in 0..(n - 1)
        BY <3>2, <2>1, <2>2
      <4>2. f[k] = IF k = 0 THEN NoInfo ELSE Next1(f[k - 1], rows[k], a)
        BY <2>3a, <4>1
      <4>3. k # 0 => k - 1 \in 0..n /\ k - 1 # n
        BY <4>1, <2>1
      <4> QED BY <4>1, <4>2, <4>3, <3>2
    <3> QED BY <3>1, <3>2
  <2> QED BY <2>1, <2>4
<1>2. Len(rows) \in Nat
  OBVIOUS
<1>3. PICK f : P(f, Len(rows))
  BY <1>1, <1>2
<1>4. IsReplay(f, rows, a)
  BY <1>3 DEF IsReplay
<1> QED BY <1>4

LEMMA ReplayEmpty == ASSUME NEW a PROVE Replay(<<>>, a) = NoInfo
<1>1. IsReplay(CHOOSE f : IsReplay(f, <<>>, a), <<>>, a)
  <2> <<>> \in Seq({})
    OBVIOUS
  <2> QED BY ReplayExists
<1>2. Len(<<>>) = 0
  OBVIOUS
<1> QED BY <1>1, <1>2, ReplayIsIter, ReplayValues

LEMMA ReplayAppend ==
  ASSUME NEW R, NEW rows \in Seq(R), NEW e \in R, NEW a
  PROVE  Replay(Append(rows, e), a) = Next1(Replay(rows, a), e, a)
<1> DEFINE more == Append(rows, e)
<1>1. PICK f : f = CHOOSE h : IsReplay(h, rows, a)
  OBVIOUS
<1>2. PICK g : g = CHOOSE h : IsReplay(h, more, a)
  OBVIOUS
<1>3. more \in Seq(R) /\ Len(more) = Len(rows) + 1 /\ Len(rows) \in Nat
  OBVIOUS
<1>4. IsReplay(f, rows, a) /\ IsReplay(g, more, a)
  BY <1>1, <1>2, <1>3, ReplayExists
<1>5. (\A n \in 1..Len(rows) : more[n] = rows[n]) /\ more[Len(rows) + 1] = e
  OBVIOUS
<1>6. Replay(rows, a) = f[Len(rows)] /\ Replay(more, a) = g[Len(rows) + 1]
  BY <1>1, <1>2, <1>3, ReplayIsIter
<1> HIDE DEF more
<1>7. g[Len(rows)] = f[Len(rows)]
  BY <1>3, <1>4, <1>5, ReplayUnique
<1>8. g[Len(rows) + 1] = Next1(g[Len(rows) + 1 - 1], more[Len(rows) + 1], a)
  <2>1. Len(more) \in Nat /\ Len(rows) + 1 \in 1..Len(more)
    BY <1>3
  <2> QED BY <1>4, <2>1, ReplayValues
<1> QED BY <1>3, <1>5, <1>6, <1>7, <1>8 DEF more

(***************************************************************************)
(* The state store: types                                                  *)
(***************************************************************************)
Within(stages) == {c \in StoreClients : step[c] \in stages}

\* No more than n of anything has been counted.
CountedTo(info, n) ==
  info # NoInfo => info.tasks <= n /\ info.successes <= n /\ info.failures <= n

\* A command counts once: it is validated, has its number, its row, or is applied.
StoreNumbers ==
  /\ counter + Cardinality(Within({"validated"})) <= commands
  /\ Len(log) + Cardinality(Within({"validated", "sequenced"})) <= commands
  /\ Cardinality(Within({"validated", "sequenced", "persisted"})) <= commands
  /\ \A a \in StoreAgents :
        CountedTo(cache[a],
                  commands - Cardinality(Within({"validated", "sequenced", "persisted"})))

StoreTypes ==
  /\ StoreTypeOK
  /\ command \in [StoreClients -> {NoCommand} \cup CommandsOf \cup Rows]

LEMMA StoreConstants ==
  /\ MaxCommands \in Nat /\ MaxRestarts \in Nat /\ IsFiniteSet(StoreClients)
  /\ {"Registered", "Idle", "Working"} \subseteq StoreStates /\ "none" \notin StoreStates
BY StoreAssumption

LEMMA InfoParts ==
  ASSUME NEW info \in AgentInfo
  PROVE  /\ info.state \in StoreStates /\ info.tasks \in 0..MaxCommands
         /\ info.successes \in 0..MaxCommands /\ info.failures \in 0..MaxCommands
         /\ info.data \in 0..MaxCommands
         /\ info # NoInfo /\ NoInfo.state = "none"
<1>1. info.state \in StoreStates
  BY DEF AgentInfo
<1>2. NoInfo.state = "none"
  BY DEF NoInfo
<1>3. info # NoInfo
  BY <1>1, <1>2, StoreConstants
<1> QED BY <1>1, <1>2, <1>3 DEF AgentInfo

LEMMA RowParts ==
  /\ \A e \in Rows : e.agent \in StoreAgents /\ e.change \in Changes /\ e.sequence \in 1..MaxCommands
  /\ \A e \in CommandsOf : e.agent \in StoreAgents /\ e.change \in Changes /\ e.sequence = 0
BY DEF Rows, CommandsOf

LEMMA ChangeTypes ==
  ASSUME NEW change \in Changes
  PROVE  /\ change.type \in {"AgentRegistered", "TaskAssigned", "DataUpdated", "AgentArchived",
                             "StateTransitioned", "TaskCompleted"}
         /\ change.type = "StateTransitioned" => change.from \in StoreStates /\ change.to \in StoreStates
         /\ change.type = "TaskCompleted" => change.success \in BOOLEAN
BY DEF Changes

LEMMA RegisteredType ==
  ASSUME NEW e \in Rows, NEW n \in Nat
  PROVE  Registered(e) \in AgentInfo /\ CountedTo(Registered(e), n)
<1>1. e.sequence \in 0..MaxCommands /\ MaxCommands \in Nat /\ "Registered" \in StoreStates
  BY RowParts, StoreConstants
<1> QED BY <1>1 DEF Registered, AgentInfo, CountedTo

LEMMA ApplyType ==
  ASSUME NEW info \in AgentInfo \cup {NoInfo}, NEW e \in Rows,
         NEW n \in Nat, n + 1 <= MaxCommands, CountedTo(info, n)
  PROVE  /\ Apply(info, e) \in AgentInfo \cup {NoInfo}
         /\ CountedTo(Apply(info, e), n + 1)
<1> DEFINE type == e.change.type
<1>0. /\ e.change \in Changes /\ e.sequence \in 0..MaxCommands
      /\ type = "TaskCompleted" => e.change.success \in BOOLEAN
      /\ type \in {"AgentRegistered", "TaskAssigned", "DataUpdated", "AgentArchived",
                   "StateTransitioned", "TaskCompleted"}
      /\ type = "StateTransitioned" => e.change.to \in StoreStates
      /\ MaxCommands \in Nat /\ {"Idle", "Working"} \subseteq StoreStates
  BY RowParts, ChangeTypes, StoreConstants
<1>1. CASE type = "AgentRegistered"
  <2>1. Apply(info, e) = Registered(e)
    BY <1>1 DEF Apply
  <2> QED BY <2>1, RegisteredType
<1>2. CASE type = "AgentArchived" \/ (info = NoInfo /\ type # "AgentRegistered")
  <2>1. Apply(info, e) = NoInfo
    BY <1>2 DEF Apply
  <2> QED BY <2>1 DEF CountedTo
<1>3. CASE info # NoInfo /\ type \notin {"AgentRegistered", "AgentArchived"}
  <2>1. info \in AgentInfo /\ info.tasks <= n /\ info.successes <= n /\ info.failures <= n
    BY <1>3 DEF CountedTo
  <2>2. PICK new : new = Apply(info, e)
    OBVIOUS
  <2>3. /\ info.state \in StoreStates /\ info.tasks \in 0..MaxCommands
        /\ info.successes \in 0..MaxCommands /\ info.failures \in 0..MaxCommands
        /\ info.data \in 0..MaxCommands
    BY <2>1, InfoParts
  <2>4. \/ new = [info EXCEPT !.state = e.change.to] /\ e.change.to \in StoreStates
        \/ new = [info EXCEPT !.state = "Working", !.tasks = @ + 1]
        \/ new = [info EXCEPT !.state = "Idle", !.successes = @ + 1]
        \/ new = [info EXCEPT !.state = "Idle", !.failures = @ + 1]
        \/ new = [info EXCEPT !.data = e.sequence]
    BY <1>0, <1>3, <2>2 DEF Apply
  <2>5. new \in AgentInfo /\ new.tasks <= n + 1 /\ new.successes <= n + 1 /\ new.failures <= n + 1
    <3>1. PICK s \in StoreStates, t, u, f, d \in 0..MaxCommands :
             /\ info = [state |-> s, tasks |-> t, successes |-> u, failures |-> f, data |-> d]
             /\ t <= n /\ u <= n /\ f <= n
      BY <2>1 DEF AgentInfo
    <3>2. \E s2 \in StoreStates, t2, u2, f2, d2 \in 0..MaxCommands :
             /\ new = [state |-> s2, tasks |-> t2, successes |-> u2, failures |-> f2, data |-> d2]
             /\ t2 <= n + 1 /\ u2 <= n + 1 /\ f2 <= n + 1
      <4>0. /\ t + 1 \in 0..MaxCommands /\ u + 1 \in 0..MaxCommands /\ f + 1 \in 0..MaxCommands
            /\ t <= n + 1 /\ u <= n + 1 /\ f <= n + 1
            /\ t + 1 <= n + 1 /\ u + 1 <= n + 1 /\ f + 1 <= n + 1
        BY <1>0, <3>1
      <4> HIDE DEF type
      <4>1. CASE new = [info EXCEPT !.state = e.change.to] /\ e.change.to \in StoreStates
        <5>1. new = [state |-> e.change.to, tasks |-> t, successes |-> u,
                failures |-> f, data |-> d]
          BY <4>1, <3>1
        <5> QED BY <5>1, <4>0, <4>1, <3>1, <1>0
      <4>2. CASE new = [info EXCEPT !.state = "Working", !.tasks = @ + 1]
        <5>1. new = [state |-> "Working", tasks |-> t + 1, successes |-> u,
                failures |-> f, data |-> d]
          BY <4>2, <3>1
        <5> QED BY <5>1, <4>0, <4>2, <3>1, <1>0
      <4>3. CASE new = [info EXCEPT !.state = "Idle", !.successes = @ + 1]
        <5>1. new = [state |-> "Idle", tasks |-> t, successes |-> u + 1,
                failures |-> f, data |-> d]
          BY <4>3, <3>1
        <5>2. "Idle" \in StoreStates
          BY <1>0
        <5> USE <4>0, <5>2
        <5> WITNESS "Idle" \in StoreStates,
                    t \in 0..MaxCommands, u + 1 \in 0..MaxCommands, f \in 0..MaxCommands, d \in 0..MaxCommands
        <5> QED BY <5>1, <4>0
      <4>4. CASE new = [info EXCEPT !.state = "Idle", !.failures = @ + 1]
        <5>1. new = [state |-> "Idle", tasks |-> t, successes |-> u,
                failures |-> f + 1, data |-> d]
          BY <4>4, <3>1
        <5>2. "Idle" \in StoreStates
          BY <1>0
        <5> USE <4>0, <5>2
        <5> WITNESS "Idle" \in StoreStates,
                    t \in 0..MaxCommands, u \in 0..MaxCommands, f + 1 \in 0..MaxCommands, d \in 0..MaxCommands
        <5> QED BY <5>1, <4>0
      <4>5. CASE new = [info EXCEPT !.data = e.sequence]
        <5>1. new = [state |-> s, tasks |-> t, successes |-> u,
                failures |-> f, data |-> e.sequence]
          BY <4>5, <3>1
        <5> QED BY <5>1, <4>0, <4>5, <3>1, <1>0
      <4> QED BY <2>4, <4>1, <4>2, <4>3, <4>4, <4>5
    <3> QED BY <3>2 DEF AgentInfo
  <2> QED BY <2>2, <2>5 DEF CountedTo
<1> QED BY <1>1, <1>2, <1>3

LEMMA WithinMoves ==
  ASSUME NEW stages, step \in [StoreClients -> Steps],
         NEW c \in StoreClients, NEW stage, step' = [step EXCEPT ![c] = stage]
  PROVE  /\ Cardinality(Within(stages)) \in Nat /\ Cardinality(Within(stages)') \in Nat
         /\ step[c] \in stages <=> stage \in stages
              => Cardinality(Within(stages)') = Cardinality(Within(stages))
         /\ step[c] \notin stages /\ stage \in stages
              => Cardinality(Within(stages)') = Cardinality(Within(stages)) + 1
         /\ step[c] \in stages /\ stage \notin stages
              => Cardinality(Within(stages)') = Cardinality(Within(stages)) - 1
<1>1. PICK U : U = Within(stages)
  OBVIOUS
<1>2. PICK W : W = Within(stages)'
  OBVIOUS
<1>3. U \subseteq StoreClients /\ W \subseteq StoreClients
  BY <1>1, <1>2 DEF Within
<1>4. IsFiniteSet(U) /\ IsFiniteSet(W) /\ Cardinality(U) \in Nat /\ Cardinality(W) \in Nat
  BY <1>3, StoreConstants, FS_Subset, FS_CardinalityType
<1>5. (step[c] \in stages <=> stage \in stages) => W = U
  BY <1>1, <1>2 DEF Within
<1>6. step[c] \notin stages /\ stage \in stages => W = U \cup {c} /\ c \notin U
  BY <1>1, <1>2 DEF Within
<1>7. step[c] \in stages /\ stage \notin stages => U = W \cup {c} /\ c \notin W
  BY <1>1, <1>2 DEF Within
<1>8. step[c] \notin stages /\ stage \in stages => Cardinality(W) = Cardinality(U) + 1
  BY <1>4, <1>6, FS_AddElement
<1>9. step[c] \in stages /\ stage \notin stages => Cardinality(U) = Cardinality(W) + 1
  BY <1>4, <1>7, FS_AddElement
<1>10. Cardinality(Within(stages)) = Cardinality(U) /\ Cardinality(Within(stages)') = Cardinality(W)
  BY <1>1, <1>2
<1> QED
  <2>1. step[c] \in stages /\ stage \notin stages => Cardinality(W) = Cardinality(U) - 1
    BY <1>4, <1>9
  <2> QED BY <1>4, <1>5, <1>8, <1>10, <2>1

LEMMA WithinNobody ==
  ASSUME NEW stages, \A c \in StoreClients : step[c] \notin stages
  PROVE  Cardinality(Within(stages)) = 0
<1>1. Within(stages) = {}
  BY DEF Within
<1> QED BY <1>1, FS_EmptySet

LEMMA CountedFurther ==
  ASSUME NEW info \in AgentInfo \cup {NoInfo}, NEW n \in Int, NEW m \in Int, n <= m,
         CountedTo(info, n)
  PROVE  CountedTo(info, m)
<1>1. CASE info = NoInfo
  BY <1>1 DEF CountedTo
<1>2. CASE info # NoInfo
  BY <1>2, InfoParts DEF CountedTo
<1> QED BY <1>1, <1>2

\* What the types say of the parts of the state.
LEMMA StoreTypeParts ==
  ASSUME StoreTypes
  PROVE  /\ log \in Seq(Rows) /\ Len(log) \in Nat /\ Len(log) <= commands
         /\ cache \in [StoreAgents -> AgentInfo \cup {NoInfo}]
         /\ counter \in Nat /\ counter <= commands
         /\ step \in [StoreClients -> Steps]
         /\ commands \in Nat /\ commands <= MaxCommands
         /\ restarts \in 0..MaxRestarts
         /\ command \in [StoreClients -> {NoCommand} \cup CommandsOf \cup Rows]
         /\ \A c \in StoreClients :
               /\ step[c] = "idle" => command[c] = NoCommand
               /\ step[c] = "validated" => command[c] \in CommandsOf
               /\ step[c] \in {"sequenced", "persisted"} => command[c] \in Rows
<1>1. commands \in 0..MaxCommands /\ MaxCommands \in Nat
  BY StoreConstants DEF StoreTypes, StoreTypeOK
<1>2. ASSUME NEW c \in StoreClients
      PROVE /\ step[c] = "idle" => command[c] = NoCommand
            /\ step[c] = "validated" => command[c] \in CommandsOf
            /\ step[c] \in {"sequenced", "persisted"} => command[c] \in Rows
  BY DEF StoreTypes, StoreTypeOK
<1>3. log \in Seq(Rows) /\ Len(log) \in Nat
  BY DEF StoreTypes, StoreTypeOK
<1> QED BY <1>1, <1>2, <1>3 DEF StoreTypes, StoreTypeOK

LEMMA NumberedCommand ==
  ASSUME NEW e \in CommandsOf, NEW n \in 1..MaxCommands
  PROVE  /\ [e EXCEPT !.sequence = n] \in Rows
         /\ [e EXCEPT !.sequence = n].agent = e.agent
         /\ [e EXCEPT !.sequence = n].change = e.change
         /\ [e EXCEPT !.sequence = n].sequence = n
BY DEF CommandsOf, Rows

StoreTyped == StoreTypes /\ StoreNumbers

LEMMA StoreTypedStart == StoreInit => StoreTyped
<1> SUFFICES ASSUME StoreInit PROVE StoreTyped
  OBVIOUS
<1>1. \A c \in StoreClients : step[c] = "idle" /\ command[c] = NoCommand
  BY DEF StoreInit
<1>2. StoreTypes
  <2>1. log \in Seq(Rows) /\ Len(log) = 0 /\ commands = 0 /\ counter = 0 /\ restarts = 0
    BY DEF StoreInit
  <2>2. cache \in [StoreAgents -> AgentInfo \cup {NoInfo}]
    BY DEF StoreInit
  <2>3. step \in [StoreClients -> Steps] /\ command \in [StoreClients -> {NoCommand} \cup CommandsOf \cup Rows]
    BY DEF StoreInit, Steps
  <2>4. fresh \in BOOLEAN /\ overlapped \subseteq StoreAgents
    BY DEF StoreInit
  <2>5. 0 \in 0..MaxCommands /\ 0 \in 0..MaxRestarts /\ 0 \in 0..0 /\ 0 <= 0
    BY StoreConstants
  <2> QED BY <1>1, <2>1, <2>2, <2>3, <2>4, <2>5 DEF StoreTypes, StoreTypeOK
<1>3. StoreNumbers
  <2>1. /\ Cardinality(Within({"validated"})) = 0
        /\ Cardinality(Within({"validated", "sequenced"})) = 0
        /\ Cardinality(Within({"validated", "sequenced", "persisted"})) = 0
    BY <1>1, WithinNobody
  <2>2. Len(log) = 0 /\ commands = 0 /\ counter = 0
    BY DEF StoreInit
  <2>3. \A a \in StoreAgents : cache[a] = NoInfo
    BY DEF StoreInit
  <2> QED BY <2>1, <2>2, <2>3 DEF StoreNumbers, CountedTo
<1> QED BY <1>2, <1>3 DEF StoreTyped

\* The stages of one command change, and with them the three counts.
LEMMA StageMoves ==
  ASSUME StoreTyped, NEW c \in StoreClients, NEW stage \in Steps,
         step' = [step EXCEPT ![c] = stage]
  PROVE  /\ step' \in [StoreClients -> Steps]
         /\ \A S \in {{"validated"}, {"validated", "sequenced"},
                      {"validated", "sequenced", "persisted"}} :
              /\ Cardinality(Within(S)) \in Nat /\ Cardinality(Within(S)') \in Nat
              /\ (step[c] \in S <=> stage \in S)
                   => Cardinality(Within(S)') = Cardinality(Within(S))
              /\ step[c] \notin S /\ stage \in S
                   => Cardinality(Within(S)') = Cardinality(Within(S)) + 1
              /\ step[c] \in S /\ stage \notin S
                   => Cardinality(Within(S)') = Cardinality(Within(S)) - 1
<1>1. step \in [StoreClients -> Steps]
  BY StoreTypeParts DEF StoreTyped
<1>2. ASSUME NEW S
      PROVE /\ Cardinality(Within(S)) \in Nat /\ Cardinality(Within(S)') \in Nat
            /\ (step[c] \in S <=> stage \in S)
                 => Cardinality(Within(S)') = Cardinality(Within(S))
            /\ step[c] \notin S /\ stage \in S
                 => Cardinality(Within(S)') = Cardinality(Within(S)) + 1
            /\ step[c] \in S /\ stage \notin S
                 => Cardinality(Within(S)') = Cardinality(Within(S)) - 1
  BY <1>1, WithinMoves
<1> QED BY <1>1, <1>2

LEMMA CommandTypes ==
  ASSUME StoreTypes, NEW c \in StoreClients, NEW stage \in Steps, NEW e,
         step' = [step EXCEPT ![c] = stage], command' = [command EXCEPT ![c] = e],
         stage = "idle" => e = NoCommand,
         stage = "validated" => e \in CommandsOf,
         stage \in {"sequenced", "persisted"} => e \in Rows
  PROVE  /\ command' \in [StoreClients -> {NoCommand} \cup CommandsOf \cup Rows]
         /\ step' \in [StoreClients -> Steps]
         /\ \A d \in StoreClients :
               command'[d] \in CASE step'[d] = "idle" -> {NoCommand}
                                 [] step'[d] = "validated" -> CommandsOf
                                 [] OTHER -> Rows
<1>1. stage \in {"idle", "validated", "sequenced", "persisted"}
  BY DEF Steps
<1>2. e \in {NoCommand} \cup CommandsOf \cup Rows
  BY <1>1
<1>3. step \in [StoreClients -> Steps]
      /\ command \in [StoreClients -> {NoCommand} \cup CommandsOf \cup Rows]
  BY StoreTypeParts
<1>4. ASSUME NEW d \in StoreClients
      PROVE  command'[d] \in CASE step'[d] = "idle" -> {NoCommand}
                               [] step'[d] = "validated" -> CommandsOf
                               [] OTHER -> Rows
  <2>1. CASE d = c
    <3>1. command'[d] = e /\ step'[d] = stage
      BY <2>1, <1>3
    <3> QED BY <1>1, <3>1
  <2>2. CASE d # c
    <3>1. command'[d] = command[d] /\ step'[d] = step[d]
      BY <2>2, <1>3
    <3> QED BY <3>1 DEF StoreTypes, StoreTypeOK
  <2> QED BY <2>1, <2>2
<1> QED BY <1>2, <1>3, <1>4

LEMMA StoreTypedStep ==
  ASSUME StoreTyped, [StoreNext]_storeVars
  PROVE  StoreTyped'
<1> USE DEF StoreTyped
<1> DEFINE V == {"validated"}
           VS == {"validated", "sequenced"}
           VSP == {"validated", "sequenced", "persisted"}
           v == Cardinality(Within(V))
           vs == Cardinality(Within(VS))
           vsp == Cardinality(Within(VSP))
<1>0. /\ log \in Seq(Rows) /\ Len(log) \in Nat /\ Len(log) <= commands
      /\ cache \in [StoreAgents -> AgentInfo \cup {NoInfo}]
      /\ counter \in Nat /\ counter <= commands
      /\ step \in [StoreClients -> Steps]
      /\ commands \in Nat /\ commands <= MaxCommands
      /\ restarts \in 0..MaxRestarts
      /\ command \in [StoreClients -> {NoCommand} \cup CommandsOf \cup Rows]
      /\ \A c \in StoreClients :
            /\ step[c] = "idle" => command[c] = NoCommand
            /\ step[c] = "validated" => command[c] \in CommandsOf
            /\ step[c] \in {"sequenced", "persisted"} => command[c] \in Rows
      /\ fresh \in BOOLEAN /\ overlapped \subseteq StoreAgents
      /\ MaxCommands \in Nat /\ MaxRestarts \in Nat
  BY StoreTypeParts, StoreConstants DEF StoreTypes, StoreTypeOK
<1>1. counter + v <= commands /\ Len(log) + vs <= commands /\ vsp <= commands
      /\ \A a \in StoreAgents : CountedTo(cache[a], commands - vsp)
  BY DEF StoreNumbers
<1>N. ASSUME counter' + v' <= commands', Len(log') + vs' <= commands', vsp' <= commands',
             \A a \in StoreAgents : CountedTo(cache'[a], commands' - vsp')
      PROVE  StoreNumbers'
  <2>1. \A a \in StoreAgents : CountedTo(cache'[a], commands' - vsp') <=> CountedTo(cache[a], commands - vsp)'
    BY DEF CountedTo
  <2> QED BY <1>N, <2>1 DEF StoreNumbers
<1>T. ASSUME log' \in Seq(Rows), Len(log') <= commands',
             cache' \in [StoreAgents -> AgentInfo \cup {NoInfo}],
             counter' \in 0..commands', step' \in [StoreClients -> Steps],
             \A c \in StoreClients :
               command'[c] \in CASE step'[c] = "idle" -> {NoCommand}
                                 [] step'[c] = "validated" -> CommandsOf
                                 [] OTHER -> Rows,
             commands' \in 0..MaxCommands, restarts' \in 0..MaxRestarts,
             fresh' \in BOOLEAN, overlapped' \subseteq StoreAgents,
             command' \in [StoreClients -> {NoCommand} \cup CommandsOf \cup Rows]
      PROVE  StoreTypes'
  BY <1>T DEF StoreTypes, StoreTypeOK
<1>M. ASSUME NEW c \in StoreClients, NEW stage \in Steps, step' = [step EXCEPT ![c] = stage]
      PROVE /\ step' \in [StoreClients -> Steps]
            /\ v \in Nat /\ v' \in Nat /\ vs \in Nat /\ vs' \in Nat /\ vsp \in Nat /\ vsp' \in Nat
            /\ (step[c] \in V <=> stage \in V) => v' = v
            /\ step[c] \notin V /\ stage \in V => v' = v + 1
            /\ step[c] \in V /\ stage \notin V => v' = v - 1
            /\ (step[c] \in VS <=> stage \in VS) => vs' = vs
            /\ step[c] \notin VS /\ stage \in VS => vs' = vs + 1
            /\ step[c] \in VS /\ stage \notin VS => vs' = vs - 1
            /\ (step[c] \in VSP <=> stage \in VSP) => vsp' = vsp
            /\ step[c] \notin VSP /\ stage \in VSP => vsp' = vsp + 1
            /\ step[c] \in VSP /\ stage \notin VSP => vsp' = vsp - 1
  BY <1>M, StageMoves
<1> HIDE DEF StoreTyped, v, vs, vsp
<1>S. Steps = {"idle", "validated", "sequenced", "persisted"}
  BY DEF Steps
<1>2. ASSUME NEW c \in StoreClients, NEW e \in CommandsOf, Execute(c, e)
      PROVE  StoreTyped'
  <2>1. /\ step[c] = "idle" /\ commands < MaxCommands /\ commands' = commands + 1
        /\ step' = [step EXCEPT ![c] = "validated"] /\ command' = [command EXCEPT ![c] = e]
        /\ UNCHANGED <<log, cache, counter, restarts, fresh>>
        /\ overlapped' \in {overlapped, overlapped \cup {e.agent}}
    BY <1>2 DEF Execute
  <2>2. v' = v + 1 /\ vs' = vs + 1 /\ vsp' = vsp + 1 /\ v \in Nat /\ vs \in Nat /\ vsp \in Nat
    BY <2>1, <1>M, <1>S
  <2>3. commands' - vsp' = commands - vsp
    BY <2>1, <2>2, <1>0
  <2>4. StoreNumbers'
    <3>1. counter' + v' <= commands' /\ Len(log') + vs' <= commands' /\ vsp' <= commands'
      BY <2>1, <2>2, <1>0, <1>1
    <3>2. \A a \in StoreAgents : CountedTo(cache'[a], commands' - vsp')
      BY <2>1, <2>3, <1>1
    <3> QED BY <3>1, <3>2, <1>N
  <2>5. StoreTypes'
    <3>1. e.agent \in StoreAgents
      BY RowParts
    <3>2. /\ log' \in Seq(Rows) /\ Len(log') <= commands' /\ cache' \in [StoreAgents -> AgentInfo \cup {NoInfo}]
          /\ counter' \in 0..commands' /\ commands' \in 0..MaxCommands /\ restarts' \in 0..MaxRestarts
          /\ fresh' \in BOOLEAN /\ overlapped' \subseteq StoreAgents
      BY <2>1, <3>1, <1>0
    <3> QED BY <2>1, <3>2, <1>T, <1>S, CommandTypes DEF StoreTyped
  <2> QED BY <2>4, <2>5 DEF StoreTyped
<1>3. ASSUME NEW c \in StoreClients, CommandToEvent(c)
      PROVE  StoreTyped'
  <2>1. /\ step[c] = "validated" /\ counter' = counter + 1
        /\ step' = [step EXCEPT ![c] = "sequenced"]
        /\ command' = [command EXCEPT ![c].sequence = counter + 1]
        /\ UNCHANGED <<log, cache, commands, restarts, fresh, overlapped>>
    BY <1>3 DEF CommandToEvent
  <2>2. v' = v - 1 /\ vs' = vs /\ vsp' = vsp /\ v \in Nat /\ v' \in Nat /\ vs \in Nat /\ vsp \in Nat
    BY <2>1, <1>M, <1>S
  <2>4. StoreNumbers'
    <3>1. counter' + v' <= commands' /\ Len(log') + vs' <= commands' /\ vsp' <= commands'
      BY <2>1, <2>2, <1>0, <1>1
    <3>2. \A a \in StoreAgents : CountedTo(cache'[a], commands' - vsp')
      BY <2>1, <2>2, <1>1
    <3> QED BY <3>1, <3>2, <1>N
  <2>5. StoreTypes'
    <3>1. counter + 1 \in 1..MaxCommands /\ counter' \in 0..commands'
      BY <2>1, <2>2, <1>0, <1>1
    <3>2. /\ log' \in Seq(Rows) /\ Len(log') <= commands' /\ cache' \in [StoreAgents -> AgentInfo \cup {NoInfo}]
          /\ commands' \in 0..MaxCommands /\ restarts' \in 0..MaxRestarts
          /\ fresh' \in BOOLEAN /\ overlapped' \subseteq StoreAgents
      BY <2>1, <1>0
    <3>3. PICK e : e = [command[c] EXCEPT !.sequence = counter + 1]
      OBVIOUS
    <3>4. command' = [command EXCEPT ![c] = e]
      BY <2>1, <3>3
    <3>5. e \in Rows
      <4>1. command[c] \in CommandsOf
        BY <2>1, <1>0
      <4> QED BY <4>1, <3>1, <3>3, NumberedCommand
    <3> QED BY <2>1, <3>1, <3>2, <3>4, <3>5, <1>T, <1>S, CommandTypes DEF StoreTyped
  <2> QED BY <2>4, <2>5 DEF StoreTyped
<1>4. ASSUME NEW c \in StoreClients, PersistEvent(c)
      PROVE  StoreTyped'
  <2>1. /\ step[c] = "sequenced" /\ log' = Append(log, command[c])
        /\ step' = [step EXCEPT ![c] = "persisted"] /\ fresh' = FALSE
        /\ UNCHANGED <<cache, counter, command, commands, restarts, overlapped>>
    BY <1>4 DEF PersistEvent
  <2>2. v' = v /\ vs' = vs - 1 /\ vsp' = vsp /\ v \in Nat /\ vs \in Nat /\ vs' \in Nat /\ vsp \in Nat
    BY <2>1, <1>M, <1>S
  <2>3. command[c] \in Rows
    BY <2>1, <1>0
  <2>3a. log' \in Seq(Rows) /\ Len(log') = Len(log) + 1
    BY <2>1, <2>3, <1>0
  <2>4. StoreNumbers'
    <3>1. counter' + v' <= commands' /\ Len(log') + vs' <= commands' /\ vsp' <= commands'
      BY <2>1, <2>2, <2>3a, <1>0, <1>1
    <3>2. \A a \in StoreAgents : CountedTo(cache'[a], commands' - vsp')
      BY <2>1, <2>2, <1>1
    <3> QED BY <3>1, <3>2, <1>N
  <2>5. StoreTypes'
    <3>1. Len(log') <= commands'
      BY <2>1, <2>2, <2>3a, <1>0, <1>1
    <3>2. /\ cache' \in [StoreAgents -> AgentInfo \cup {NoInfo}]
          /\ counter' \in 0..commands' /\ commands' \in 0..MaxCommands /\ restarts' \in 0..MaxRestarts
          /\ overlapped' \subseteq StoreAgents
      BY <2>1, <1>0
    <3>3. fresh' \in BOOLEAN
      BY <2>1
    <3>4. command' = [command EXCEPT ![c] = command[c]]
      BY <2>1, <1>0
    <3> QED BY <2>1, <2>3, <2>3a, <3>1, <3>2, <3>3, <3>4, <1>T, <1>S, CommandTypes DEF StoreTyped
  <2> QED BY <2>4, <2>5 DEF StoreTyped
<1>5. ASSUME NEW c \in StoreClients, PersistFails(c)
      PROVE  StoreTyped'
  <2>1. /\ step[c] = "sequenced"
        /\ step' = [step EXCEPT ![c] = "idle"] /\ command' = [command EXCEPT ![c] = NoCommand]
        /\ UNCHANGED <<log, cache, counter, commands, restarts, fresh, overlapped>>
    BY <1>5 DEF PersistFails
  <2>2. v' = v /\ vs' = vs - 1 /\ vsp' = vsp - 1
        /\ v \in Nat /\ vs \in Nat /\ vs' \in Nat /\ vsp \in Nat /\ vsp' \in Nat
    BY <2>1, <1>M, <1>S
  <2>4. StoreNumbers'
    <3>1. counter' + v' <= commands' /\ Len(log') + vs' <= commands' /\ vsp' <= commands'
      BY <2>1, <2>2, <1>0, <1>1
    <3>2. commands' - vsp' \in Int /\ commands - vsp \in Int /\ commands - vsp <= commands' - vsp'
      BY <2>1, <2>2, <1>0
    <3>3. ASSUME NEW a \in StoreAgents PROVE CountedTo(cache'[a], commands' - vsp')
      <4>1. cache[a] \in AgentInfo \cup {NoInfo} /\ cache'[a] = cache[a]
        BY <1>0, <2>1
      <4> QED BY <4>1, <3>2, <1>1, CountedFurther
    <3> QED BY <3>1, <3>3, <1>N
  <2>5. StoreTypes'
    <3>2. /\ log' \in Seq(Rows) /\ Len(log') <= commands' /\ cache' \in [StoreAgents -> AgentInfo \cup {NoInfo}]
          /\ counter' \in 0..commands' /\ commands' \in 0..MaxCommands /\ restarts' \in 0..MaxRestarts
          /\ fresh' \in BOOLEAN /\ overlapped' \subseteq StoreAgents
      BY <2>1, <1>0
    <3> QED BY <2>1, <3>2, <1>T, <1>S, CommandTypes DEF StoreTyped
  <2> QED BY <2>4, <2>5 DEF StoreTyped
<1>6. ASSUME NEW c \in StoreClients, ApplyEvent(c)
      PROVE  StoreTyped'
  <2> DEFINE e == command[c]
  <2>1. /\ step[c] = "persisted"
        /\ step' = [step EXCEPT ![c] = "idle"] /\ command' = [command EXCEPT ![c] = NoCommand]
        /\ cache' = [cache EXCEPT ![e.agent] = Apply(cache[e.agent], e)]
        /\ UNCHANGED <<log, counter, commands, restarts, fresh, overlapped>>
    BY <1>6 DEF ApplyEvent
  <2>2. v' = v /\ vs' = vs /\ vsp' = vsp - 1
        /\ v \in Nat /\ vs \in Nat /\ vsp \in Nat /\ vsp' \in Nat
    BY <2>1, <1>M, <1>S
  <2>3. e \in Rows /\ e.agent \in StoreAgents
    BY <2>1, <1>0, RowParts
  <2>6. PICK n : n = commands - vsp
    OBVIOUS
  <2>7. n \in Nat /\ n + 1 = commands' - vsp' /\ n + 1 <= MaxCommands
    BY <2>1, <2>2, <2>6, <1>0, <1>1
  <2>8. ASSUME NEW a \in StoreAgents
        PROVE /\ cache'[a] \in AgentInfo \cup {NoInfo}
              /\ CountedTo(cache'[a], commands' - vsp')
    <3>1. cache[a] \in AgentInfo \cup {NoInfo} /\ CountedTo(cache[a], n)
      BY <1>0, <1>1, <2>6
    <3>2. cache'[a] = IF a = e.agent THEN Apply(cache[a], e) ELSE cache[a]
      BY <2>1, <2>3, <1>0
    <3>3. n \in Int /\ n + 1 \in Int /\ n <= n + 1
      BY <2>7
    <3> HIDE DEF e
    <3>4. CASE a = e.agent
      <4>1. Apply(cache[a], e) \in AgentInfo \cup {NoInfo} /\ CountedTo(Apply(cache[a], e), n + 1)
        BY <3>1, <2>3, <2>7, ApplyType
      <4> QED BY <4>1, <3>2, <3>4, <2>7
    <3>5. CASE a # e.agent
      BY <3>1, <3>2, <3>3, <3>5, <2>7, CountedFurther
    <3> QED BY <3>4, <3>5
  <2>4. StoreNumbers'
    <3>1. counter' + v' <= commands' /\ Len(log') + vs' <= commands' /\ vsp' <= commands'
      BY <2>1, <2>2, <1>0, <1>1
    <3> QED BY <3>1, <2>8, <1>N
  <2>5. StoreTypes'
    <3>1. cache' \in [StoreAgents -> AgentInfo \cup {NoInfo}]
      <4>1. DOMAIN cache' = StoreAgents /\ cache' = [a \in StoreAgents |-> cache'[a]]
        BY <2>1, <1>0
      <4> QED BY <4>1, <2>8
    <3>2. /\ log' \in Seq(Rows) /\ Len(log') <= commands'
          /\ counter' \in 0..commands' /\ commands' \in 0..MaxCommands /\ restarts' \in 0..MaxRestarts
          /\ fresh' \in BOOLEAN /\ overlapped' \subseteq StoreAgents
      BY <2>1, <1>0
    <3> QED BY <2>1, <3>1, <3>2, <1>T, <1>S, CommandTypes DEF StoreTyped
  <2> QED BY <2>4, <2>5 DEF StoreTyped
<1>7. ASSUME Restart
      PROVE  StoreTyped'
  <2>1. /\ restarts < MaxRestarts /\ restarts' = restarts + 1 /\ counter' = 0
        /\ step' = [c \in StoreClients |-> "idle"] /\ fresh' = TRUE
        /\ command' = [c \in StoreClients |-> NoCommand]
        /\ UNCHANGED <<log, commands, overlapped>>
    BY <1>7 DEF Restart
  <2>2. DOMAIN cache' = StoreAgents /\ cache' = [a \in StoreAgents |-> cache'[a]]
        /\ \A a \in StoreAgents : cache'[a] \in Loaded(a)
    BY <1>7 DEF Restart
  <2>3. ASSUME NEW a \in StoreAgents, NEW n \in Nat
        PROVE  cache'[a] \in AgentInfo \cup {NoInfo} /\ CountedTo(cache'[a], n)
    <3>1. cache'[a] = NoInfo \/ \E e \in LatestRows(a) : cache'[a] = Registered(e)
      BY <2>2 DEF Loaded
    <3>2. LatestRows(a) \subseteq Rows
      BY <1>0 DEF LatestRows, ToSet
    <3>3. CASE cache'[a] = NoInfo
      BY <3>3 DEF CountedTo
    <3>4. CASE \E e \in LatestRows(a) : cache'[a] = Registered(e)
      BY <3>2, <3>4, RegisteredType
    <3> QED BY <3>1, <3>3, <3>4
  <2>4. v' = 0 /\ vs' = 0 /\ vsp' = 0
    <3>1. \A c \in StoreClients : step'[c] = "idle"
      BY <2>1
    <3>2. Within(V)' = {} /\ Within(VS)' = {} /\ Within(VSP)' = {}
      BY <3>1 DEF Within
    <3> QED BY <3>2, FS_EmptySet DEF v, vs, vsp
  <2>5. StoreNumbers'
    <3>1. counter' + v' <= commands' /\ Len(log') + vs' <= commands' /\ vsp' <= commands'
      BY <2>1, <2>4, <1>0
    <3>2. commands' - vsp' \in Nat
      BY <2>1, <2>4, <1>0
    <3> QED BY <3>1, <3>2, <2>3, <1>N
  <2>6. StoreTypes'
    <3>1. cache' \in [StoreAgents -> AgentInfo \cup {NoInfo}]
      <4>1. \A a \in StoreAgents : cache'[a] \in AgentInfo \cup {NoInfo}
        <5>1. 0 \in Nat
          OBVIOUS
        <5> QED BY <5>1, <2>3
      <4> QED BY <4>1, <2>2
    <3>2. /\ log' \in Seq(Rows) /\ Len(log') <= commands'
          /\ counter' \in 0..commands' /\ commands' \in 0..MaxCommands /\ restarts' \in 0..MaxRestarts
          /\ fresh' \in BOOLEAN /\ overlapped' \subseteq StoreAgents
      BY <2>1, <1>0
    <3>3. step' \in [StoreClients -> Steps] /\ command' \in [StoreClients -> {NoCommand} \cup CommandsOf \cup Rows]
      BY <2>1, <1>S
    <3>4. \A c \in StoreClients : step'[c] = "idle" /\ command'[c] \in {NoCommand}
      BY <2>1
    <3> QED BY <3>1, <3>2, <3>3, <3>4, <1>T
  <2> QED BY <2>5, <2>6 DEF StoreTyped
<1>8. CASE UNCHANGED storeVars
  <2>1. /\ UNCHANGED <<log, cache, counter, step, command, commands, restarts, fresh, overlapped>>
    BY <1>8 DEF storeVars
  <2>2. \A S : Within(S)' = Within(S)
    BY <2>1 DEF Within
  <2>3. v' = v /\ vs' = vs /\ vsp' = vsp
    BY <2>2 DEF v, vs, vsp
  <2>4. StoreNumbers'
    BY <2>1, <2>3, <1>1, <1>N
  <2>5. StoreTypes'
    BY <2>1 DEF StoreTyped, StoreTypes, StoreTypeOK
  <2> QED BY <2>4, <2>5 DEF StoreTyped
<1> QED BY <1>2, <1>3, <1>4, <1>5, <1>6, <1>7, <1>8 DEF StoreNext

(***************************************************************************)
(* The state store: what is true of an agent that never had two commands   *)
(* under way at a time                                                     *)
(***************************************************************************)
OneAtATime ==
  \A c, d \in StoreClients :
    step[c] # "idle" /\ step[d] # "idle" /\ command[c].agent = command[d].agent
      /\ command[c].agent \notin overlapped => c = d

AppliedFirst == fresh => \A c \in StoreClients : step[c] # "persisted"

\* Its cache entry is what the log adds up to, or nothing; between the insert
\* and its application, it becomes so. What was valid when it was looked at
\* still is.
Mirrors(a) ==
  /\ (\A c \in StoreClients : ~(step[c] = "persisted" /\ command[c].agent = a))
       => cache[a] \in {NoInfo, Replay(log, a)}
  /\ \A c \in StoreClients : step[c] = "persisted" /\ command[c].agent = a
       => Apply(cache[a], command[c]) \in {NoInfo, Replay(log, a)}
  /\ \A c \in StoreClients : step[c] \in {"validated", "sequenced"} /\ command[c].agent = a
       => Valid(command[c].change, cache[a])

\* Its rows are in the order of their numbers, and the last one says whether
\* there is something to load. Only before the first restart.
InOrder(a) ==
  /\ \A e \in ToSet(log) : e.agent = a => e.sequence <= counter
  /\ \A c \in StoreClients : step[c] = "sequenced" /\ command[c].agent = a
       => /\ command[c].sequence <= counter
          /\ \A e \in ToSet(log) : e.agent = a => e.sequence < command[c].sequence
  /\ \A e \in LatestRows(a) : e.change.type = "AgentRegistered" => Replay(log, a) = Registered(e)

Lawful(change, before) ==
  /\ change.type = "StateTransitioned" => before.state = change.from
  /\ change.type = "TaskAssigned" => before.state = "Idle"

LawfulRows(a) ==
  \A k \in DOMAIN log : log[k].agent = a =>
    Lawful(log[k].change, Replay(SubSeq(log, 1, k - 1), a))

Recorded(a) ==
  /\ restarts <= 1 => Mirrors(a) /\ LawfulRows(a)
  /\ restarts = 0 => InOrder(a)

StoreIInv ==
  /\ StoreTyped
  /\ OneAtATime /\ AppliedFirst
  /\ \A a \in StoreAgents \ overlapped : Recorded(a)

LEMMA RowsAppended ==
  ASSUME NEW rows \in Seq(Rows), NEW e \in Rows
  PROVE  /\ Append(rows, e) \in Seq(Rows)
         /\ ToSet(Append(rows, e)) = ToSet(rows) \cup {e}
         /\ DOMAIN Append(rows, e) = DOMAIN rows \cup {Len(rows) + 1}
         /\ \A k \in DOMAIN rows : /\ Append(rows, e)[k] = rows[k]
                                   /\ SubSeq(Append(rows, e), 1, k - 1) = SubSeq(rows, 1, k - 1)
         /\ Append(rows, e)[Len(rows) + 1] = e
         /\ SubSeq(Append(rows, e), 1, Len(rows)) = rows
<1> DEFINE more == Append(rows, e)
<1>1. more \in Seq(Rows) /\ Len(more) = Len(rows) + 1 /\ Len(rows) \in Nat
      /\ DOMAIN more = 1..(Len(rows) + 1) /\ DOMAIN rows = 1..Len(rows)
  OBVIOUS
<1>2. (\A k \in 1..Len(rows) : more[k] = rows[k]) /\ more[Len(rows) + 1] = e
  OBVIOUS
<1> HIDE DEF more
<1>3. ToSet(more) = ToSet(rows) \cup {e}
  BY <1>1, <1>2 DEF ToSet
<1>4. ASSUME NEW k \in 0..Len(rows) PROVE SubSeq(more, 1, k) = SubSeq(rows, 1, k)
  <2>1. k \in 1 - 1..Len(more) /\ k \in 1 - 1..Len(rows) /\ 1 \in 1..Len(more) + 1 /\ 1 \in 1..Len(rows) + 1
    BY <1>1
  <2>2. /\ SubSeq(more, 1, k) \in Seq(Rows) /\ Len(SubSeq(more, 1, k)) = k
        /\ \A i \in 1..k : SubSeq(more, 1, k)[i] = more[i]
    BY <1>1, <2>1, SubSeqProperties
  <2>3. /\ SubSeq(rows, 1, k) \in Seq(Rows) /\ Len(SubSeq(rows, 1, k)) = k
        /\ \A i \in 1..k : SubSeq(rows, 1, k)[i] = rows[i]
    BY <1>1, <2>1, SubSeqProperties
  <2>4. \A i \in 1..k : more[i] = rows[i]
    BY <1>1, <1>2
  <2> QED BY <2>2, <2>3, <2>4, SeqEqual
<1>5. SubSeq(rows, 1, Len(rows)) = rows
  BY SubSeqFull
<1>6. \A k \in DOMAIN rows : SubSeq(more, 1, k - 1) = SubSeq(rows, 1, k - 1)
  <2>1. \A k \in DOMAIN rows : k - 1 \in 0..Len(rows)
    BY <1>1
  <2> QED BY <2>1, <1>4
<1>7. SubSeq(more, 1, Len(rows)) = rows
  <2>1. Len(rows) \in 0..Len(rows)
    BY <1>1
  <2> QED BY <2>1, <1>4, <1>5
<1>8. DOMAIN more = DOMAIN rows \cup {Len(rows) + 1}
  BY <1>1
<1> QED BY <1>1, <1>2, <1>3, <1>6, <1>7, <1>8 DEF more

LEMMA ReplayAppendOther ==
  ASSUME NEW rows \in Seq(Rows), NEW e \in Rows, NEW a
  PROVE  /\ e.agent # a => Replay(Append(rows, e), a) = Replay(rows, a)
         /\ e.agent = a => Replay(Append(rows, e), a) = Apply(Replay(rows, a), e)
BY ReplayAppend DEF Next1

LEMMA LawfulAppended ==
  ASSUME StoreTyped, NEW a, NEW e \in Rows, log' = Append(log, e), LawfulRows(a),
         e.agent = a => Lawful(e.change, Replay(log, a))
  PROVE  LawfulRows(a)'
<1>1. PICK more : more = log'
  OBVIOUS
<1>2. log \in Seq(Rows)
  BY StoreTypeParts DEF StoreTyped
<1>3. more = Append(log, e)
  BY <1>1
<1>4. /\ DOMAIN more = DOMAIN log \cup {Len(log) + 1}
      /\ \A k \in DOMAIN log : more[k] = log[k] /\ SubSeq(more, 1, k - 1) = SubSeq(log, 1, k - 1)
      /\ more[Len(log) + 1] = e /\ SubSeq(more, 1, Len(log)) = log
  BY <1>2, <1>3, RowsAppended
<1>5. ASSUME NEW k \in DOMAIN more, more[k].agent = a
      PROVE  Lawful(more[k].change, Replay(SubSeq(more, 1, k - 1), a))
  <2>1. CASE k \in DOMAIN log
    BY <2>1, <1>4, <1>5 DEF LawfulRows
  <2>2. CASE k = Len(log) + 1
    <3>1. k - 1 = Len(log)
      BY <2>2, <1>2
    <3> QED BY <2>2, <3>1, <1>4, <1>5
  <2> QED BY <2>1, <2>2, <1>4
<1> QED BY <1>1, <1>5 DEF LawfulRows

LEMMA LatestAppended ==
  ASSUME StoreTyped, NEW a, NEW e \in Rows, log' = Append(log, e)
  PROVE  /\ e.agent # a => LatestRows(a)' = LatestRows(a)
         /\ e.agent = a /\ (\A f \in ToSet(log) : f.agent = a => f.sequence < e.sequence)
              => LatestRows(a)' = {e}
<1>1. PICK all : all = ToSet(log)
  OBVIOUS
<1>2. log \in Seq(Rows)
  BY StoreTypeParts DEF StoreTyped
<1>3. ToSet(log') = all \cup {e}
  BY <1>1, <1>2, RowsAppended
<1>4. \A f \in all \cup {e} : f.sequence \in Nat
  BY <1>1, <1>2, RowParts, StoreConstants DEF ToSet
<1>5. LatestRows(a)' = {g \in all \cup {e} : g.agent = a /\ \A f \in all \cup {e} : f.agent = a => f.sequence <= g.sequence}
  BY <1>3 DEF LatestRows
<1>6. LatestRows(a) = {g \in all : g.agent = a /\ \A f \in all : f.agent = a => f.sequence <= g.sequence}
  BY <1>1 DEF LatestRows
<1>7. CASE e.agent # a
  <2>1. {g \in all \cup {e} : g.agent = a /\ \A f \in all \cup {e} : f.agent = a => f.sequence <= g.sequence}
          = {g \in all : g.agent = a /\ \A f \in all : f.agent = a => f.sequence <= g.sequence}
    BY <1>7
  <2> QED BY <1>5, <1>6, <1>7, <2>1
<1>8. CASE e.agent = a /\ (\A f \in ToSet(log) : f.agent = a => f.sequence < e.sequence)
  <2>1. {g \in all \cup {e} : g.agent = a /\ \A f \in all \cup {e} : f.agent = a => f.sequence <= g.sequence} = {e}
    BY <1>1, <1>4, <1>8
  <2> QED BY <1>5, <1>8, <2>1
<1> QED BY <1>7, <1>8

\* What happens to the commands and the rows of others is nothing to a.
LEMMA OtherAgents ==
  ASSUME StoreTyped, NEW a \in StoreAgents,
         \/ log' = log
         \/ \E e \in Rows : log' = Append(log, e) /\ e.agent # a,
         cache'[a] = cache[a], counter' \in Nat, counter' >= counter,
         \A c \in StoreClients :
            \/ step'[c] = step[c] /\ command'[c] = command[c]
            \/ /\ step[c] = "idle" \/ command[c].agent # a
               /\ step'[c] = "idle" \/ command'[c].agent # a
  PROVE  /\ Mirrors(a) => Mirrors(a)'
         /\ LawfulRows(a) => LawfulRows(a)'
         /\ InOrder(a) => InOrder(a)'
<1>0. log \in Seq(Rows) /\ counter \in Nat
  BY StoreTypeParts DEF StoreTyped
<1>1. Replay(log', a) = Replay(log, a)
  BY <1>0, ReplayAppendOther
<1>2. LatestRows(a)' = LatestRows(a)
  <2>1. CASE log' = log
    BY <2>1 DEF LatestRows
  <2>2. CASE \E e \in Rows : log' = Append(log, e) /\ e.agent # a
    BY <2>2, LatestAppended
  <2> QED BY <2>1, <2>2
<1>3. {e \in ToSet(log') : e.agent = a} = {e \in ToSet(log) : e.agent = a}
  <2>1. CASE log' = log
    BY <2>1
  <2>2. CASE \E e \in Rows : log' = Append(log, e) /\ e.agent # a
    <3>1. PICK e \in Rows : log' = Append(log, e) /\ e.agent # a
      BY <2>2
    <3>2. ToSet(log') = ToSet(log) \cup {e}
      BY <1>0, <3>1, RowsAppended
    <3> QED BY <3>1, <3>2
  <2> QED BY <2>1, <2>2
<1>4. LawfulRows(a) => LawfulRows(a)'
  <2>1. CASE log' = log
    BY <2>1 DEF LawfulRows
  <2>2. CASE \E e \in Rows : log' = Append(log, e) /\ e.agent # a
    BY <2>2, LawfulAppended
  <2> QED BY <2>1, <2>2
<1>5. ASSUME NEW c \in StoreClients, step[c] # "idle" \/ step'[c] # "idle",
             (step[c] # "idle" /\ command[c].agent = a) \/ (step'[c] # "idle" /\ command'[c].agent = a)
      PROVE  step'[c] = step[c] /\ command'[c] = command[c]
  BY <1>5
<1>6. Mirrors(a) => Mirrors(a)'
  <2> SUFFICES ASSUME Mirrors(a) PROVE Mirrors(a)'
    OBVIOUS
  <2>1. (\A c \in StoreClients : ~(step'[c] = "persisted" /\ command'[c].agent = a))
          => cache'[a] \in {NoInfo, Replay(log', a)}
    BY <1>1, <1>5 DEF Mirrors
  <2>2. ASSUME NEW c \in StoreClients, step'[c] = "persisted" /\ command'[c].agent = a
        PROVE  Apply(cache'[a], command'[c]) \in {NoInfo, Replay(log', a)}
    <3>1. step'[c] = step[c] /\ command'[c] = command[c]
      BY <1>5, <2>2
    <3> QED BY <3>1, <1>1, <2>2 DEF Mirrors
  <2>3. ASSUME NEW c \in StoreClients, step'[c] \in {"validated", "sequenced"} /\ command'[c].agent = a
        PROVE  Valid(command'[c].change, cache'[a])
    <3>1. step'[c] = step[c] /\ command'[c] = command[c]
      BY <1>5, <2>3
    <3> QED BY <3>1, <2>3 DEF Mirrors
  <2> QED BY <2>1, <2>2, <2>3 DEF Mirrors
<1>7. InOrder(a) => InOrder(a)'
  <2> SUFFICES ASSUME InOrder(a) PROVE InOrder(a)'
    OBVIOUS
  <2>0. \A e \in ToSet(log') : e.agent = a => e \in ToSet(log) /\ e.sequence \in Nat
    <3>1. \A e \in ToSet(log) : e.sequence \in Nat
      BY <1>0, RowParts, StoreConstants DEF ToSet
    <3> QED BY <3>1, <1>3
  <2>1. \A e \in ToSet(log') : e.agent = a => e.sequence <= counter'
    BY <1>0, <2>0 DEF InOrder
  <2>2. ASSUME NEW c \in StoreClients, step'[c] = "sequenced" /\ command'[c].agent = a
        PROVE  /\ command'[c].sequence <= counter'
               /\ \A e \in ToSet(log') : e.agent = a => e.sequence < command'[c].sequence
    <3>1. step'[c] = step[c] /\ command'[c] = command[c]
      BY <1>5, <2>2
    <3>2. command[c] \in Rows
      BY <3>1, <2>2, StoreTypeParts DEF StoreTyped
    <3>3. command[c].sequence \in Nat
      BY <3>2, RowParts, StoreConstants
    <3>4. /\ command[c].sequence <= counter
          /\ \A e \in ToSet(log) : e.agent = a => e.sequence < command[c].sequence
      BY <3>1, <2>2 DEF InOrder
    <3> QED BY <3>1, <3>3, <3>4, <2>0, <1>0
  <2>3. \A e \in LatestRows(a)' : e.change.type = "AgentRegistered" => Replay(log', a) = Registered(e)
    BY <1>1, <1>2 DEF InOrder
  <2> QED BY <2>1, <2>2, <2>3 DEF InOrder
<1> QED BY <1>4, <1>6, <1>7

LEMMA ApplyToNothing ==
  ASSUME NEW e, NEW info
  PROVE  Apply(NoInfo, e) \in {NoInfo, Apply(info, e)}
BY DEF Apply

LEMMA ValidIsLawful ==
  ASSUME NEW change \in Changes, NEW info, Valid(change, info)
  PROVE  info # NoInfo \/ change.type \notin {"StateTransitioned", "TaskAssigned"}
<1>1. NoInfo.state = "none" /\ "none" \notin StoreStates
  BY StoreConstants DEF NoInfo
<1>2. change.type = "StateTransitioned" => change.from \in StoreStates
  BY ChangeTypes
<1> QED BY <1>1, <1>2 DEF Valid

\* One client's command is the only one of its agent.
LEMMA OnlyCommand ==
  ASSUME OneAtATime, NEW c \in StoreClients, step[c] # "idle", command[c].agent \notin overlapped
  PROVE  \A d \in StoreClients \ {c} : step[d] = "idle" \/ command[d].agent # command[c].agent
BY DEF OneAtATime

LEMMA ExecuteRecords ==
  ASSUME StoreIInv, NEW c \in StoreClients, NEW e \in CommandsOf, Execute(c, e),
         NEW a \in StoreAgents \ overlapped'
  PROVE  Recorded(a)'
<1>1. /\ step[c] = "idle" /\ Valid(e.change, cache[e.agent])
      /\ step' = [step EXCEPT ![c] = "validated"] /\ command' = [command EXCEPT ![c] = e]
      /\ overlapped' = IF UnderWay(e.agent) THEN overlapped \cup {e.agent} ELSE overlapped
      /\ log' = log /\ cache' = cache /\ counter' = counter /\ restarts' = restarts
  BY DEF Execute
<1>2. /\ step \in [StoreClients -> Steps] /\ counter \in Nat
      /\ command \in [StoreClients -> {NoCommand} \cup CommandsOf \cup Rows]
  BY StoreTypeParts DEF StoreIInv, StoreTyped
<1>3. a \notin overlapped /\ Recorded(a)
  BY <1>1 DEF StoreIInv
<1>4. \A d \in StoreClients \ {c} : step'[d] = step[d] /\ command'[d] = command[d]
  BY <1>1, <1>2
<1>5. step'[c] = "validated" /\ command'[c] = e
  BY <1>1, <1>2
<1>6. CASE e.agent # a
  <2>1. \A d \in StoreClients :
            \/ step'[d] = step[d] /\ command'[d] = command[d]
            \/ /\ step[d] = "idle" \/ command[d].agent # a
               /\ step'[d] = "idle" \/ command'[d].agent # a
    BY <1>1, <1>4, <1>5, <1>6
  <2>2. counter' \in Nat /\ counter' >= counter
    BY <1>1, <1>2
  <2>3. StoreTyped
    BY DEF StoreIInv
  <2> QED BY <2>1, <2>2, <2>3, <1>1, <1>3, OtherAgents DEF Recorded
<1>7. CASE e.agent = a
  <2>1. ~UnderWay(a)
    BY <1>1, <1>7
  <2>2. \A d \in StoreClients : step[d] = "idle" \/ command[d].agent # a
    BY <2>1 DEF UnderWay
  <2>3. Mirrors(a) => Mirrors(a)'
    <3>1. Mirrors(a) => cache[a] \in {NoInfo, Replay(log, a)}
      BY <2>2 DEF Mirrors
    <3>2. \A d \in StoreClients : step'[d] = "persisted" => command'[d].agent # a
      BY <2>2, <1>4, <1>5
    <3>3. \A d \in StoreClients : step'[d] \in {"validated", "sequenced"} /\ command'[d].agent = a => d = c
      BY <2>2, <1>4
    <3> QED BY <3>1, <3>2, <3>3, <1>1, <1>5, <1>7 DEF Mirrors
  <2>4. LawfulRows(a) => LawfulRows(a)'
    BY <1>1 DEF LawfulRows
  <2>5. InOrder(a) => InOrder(a)'
    <3>1. \A d \in StoreClients : step'[d] = "sequenced" => command'[d].agent # a
      BY <2>2, <1>4, <1>5
    <3> QED BY <3>1, <1>1 DEF InOrder, LatestRows
  <2> QED BY <2>3, <2>4, <2>5, <1>1, <1>3 DEF Recorded
<1> QED BY <1>6, <1>7

LEMMA CommandRecords ==
  ASSUME StoreIInv, NEW c \in StoreClients, CommandToEvent(c),
         NEW a \in StoreAgents \ overlapped'
  PROVE  Recorded(a)'
<1>0. StoreTyped
  BY DEF StoreIInv
<1>1. /\ step[c] = "validated" /\ counter' = counter + 1
      /\ step' = [step EXCEPT ![c] = "sequenced"]
      /\ command' = [command EXCEPT ![c].sequence = counter + 1]
      /\ log' = log /\ cache' = cache /\ overlapped' = overlapped /\ restarts' = restarts
  BY DEF CommandToEvent
<1>2. /\ step \in [StoreClients -> Steps] /\ counter \in Nat /\ command[c] \in CommandsOf
      /\ command \in [StoreClients -> {NoCommand} \cup CommandsOf \cup Rows] /\ log \in Seq(Rows)
  BY <1>0, <1>1, StoreTypeParts DEF StoreTyped
<1>3. a \notin overlapped /\ Recorded(a)
  BY <1>1 DEF StoreIInv
<1>4. \A d \in StoreClients \ {c} : step'[d] = step[d] /\ command'[d] = command[d]
  BY <1>1, <1>2
<1>5. PICK e : e = command'[c]
  OBVIOUS
<1>6. step'[c] = "sequenced" /\ e.agent = command[c].agent /\ e.change = command[c].change
      /\ e.sequence = counter + 1
  BY <1>1, <1>2, <1>5 DEF CommandsOf
<1>7. CASE command[c].agent # a
  <2>1. \A d \in StoreClients :
            \/ step'[d] = step[d] /\ command'[d] = command[d]
            \/ /\ step[d] = "idle" \/ command[d].agent # a
               /\ step'[d] = "idle" \/ command'[d].agent # a
    BY <1>4, <1>5, <1>6, <1>7
  <2>2. counter' \in Nat /\ counter' >= counter
    BY <1>1, <1>2
  <2> QED BY <2>1, <2>2, <1>0, <1>1, <1>3, OtherAgents DEF Recorded
<1>8. CASE command[c].agent = a
  <2>1. \A d \in StoreClients \ {c} : step[d] = "idle" \/ command[d].agent # a
    BY <1>1, <1>3, <1>8, OnlyCommand DEF StoreIInv
  <2>2. \A d \in StoreClients : step[d] = "persisted" => command[d].agent # a
    BY <2>1, <1>1
  <2>3. Mirrors(a) => Mirrors(a)'
    <3> SUFFICES ASSUME Mirrors(a) PROVE Mirrors(a)'
      OBVIOUS
    <3>1. cache[a] \in {NoInfo, Replay(log, a)} /\ Valid(command[c].change, cache[a])
      BY <2>2, <1>1, <1>8 DEF Mirrors
    <3>2. \A d \in StoreClients : step'[d] = "persisted" => command'[d].agent # a
      BY <2>1, <1>4, <1>6
    <3>3. \A d \in StoreClients : step'[d] \in {"validated", "sequenced"} /\ command'[d].agent = a => d = c
      BY <2>1, <1>4
    <3> QED BY <3>1, <3>2, <3>3, <1>1, <1>5, <1>6 DEF Mirrors
  <2>4. LawfulRows(a) => LawfulRows(a)'
    BY <1>1 DEF LawfulRows
  <2>5. InOrder(a) => InOrder(a)'
    <3> SUFFICES ASSUME InOrder(a) PROVE InOrder(a)'
      OBVIOUS
    <3>0. \A f \in ToSet(log) : f.sequence \in Nat
      BY <1>2, RowParts, StoreConstants DEF ToSet
    <3>1. \A d \in StoreClients : step'[d] = "sequenced" /\ command'[d].agent = a => d = c
      BY <2>1, <1>4
    <3>2. \A f \in ToSet(log) : f.agent = a => f.sequence <= counter' /\ f.sequence < e.sequence
      BY <3>0, <1>1, <1>2, <1>6 DEF InOrder
    <3>3. e.sequence <= counter'
      BY <1>1, <1>2, <1>6
    <3>4. \A f \in LatestRows(a)' : f.change.type = "AgentRegistered" => Replay(log', a) = Registered(f)
      BY <1>1 DEF InOrder, LatestRows
    <3> QED BY <3>1, <3>2, <3>3, <3>4, <1>1, <1>5 DEF InOrder
  <2> QED BY <2>3, <2>4, <2>5, <1>1, <1>3 DEF Recorded
<1> QED BY <1>7, <1>8

LEMMA PersistRecords ==
  ASSUME StoreIInv, NEW c \in StoreClients, PersistEvent(c),
         NEW a \in StoreAgents \ overlapped'
  PROVE  Recorded(a)'
<1>0. StoreTyped
  BY DEF StoreIInv
<1>1. /\ step[c] = "sequenced" /\ log' = Append(log, command[c])
      /\ step' = [step EXCEPT ![c] = "persisted"]
      /\ command' = command /\ counter' = counter
      /\ cache' = cache /\ overlapped' = overlapped /\ restarts' = restarts
  BY DEF PersistEvent
<1>2. /\ step \in [StoreClients -> Steps] /\ counter \in Nat /\ command[c] \in Rows
      /\ log \in Seq(Rows)
  BY <1>0, <1>1, StoreTypeParts DEF StoreTyped
<1>3. a \notin overlapped /\ Recorded(a)
  BY <1>1 DEF StoreIInv
<1>4. \A d \in StoreClients \ {c} : step'[d] = step[d]
  BY <1>1, <1>2
<1>5. PICK e \in Rows : e = command[c]
  BY <1>2
<1>6. step'[c] = "persisted" /\ log' = Append(log, e)
  BY <1>1, <1>2, <1>5
<1>7. CASE e.agent # a
  <2>1. \A d \in StoreClients :
            \/ step'[d] = step[d] /\ command'[d] = command[d]
            \/ /\ step[d] = "idle" \/ command[d].agent # a
               /\ step'[d] = "idle" \/ command'[d].agent # a
    BY <1>1, <1>4, <1>5, <1>7
  <2>2. counter' \in Nat /\ counter' >= counter
    BY <1>1, <1>2
  <2> QED BY <2>1, <2>2, <1>0, <1>1, <1>3, <1>6, <1>7, OtherAgents DEF Recorded
<1>8. CASE e.agent = a
  <2>1. \A d \in StoreClients \ {c} : step[d] = "idle" \/ command[d].agent # a
    BY <1>1, <1>3, <1>5, <1>8, OnlyCommand DEF StoreIInv
  <2>2. \A d \in StoreClients : step[d] = "persisted" => command[d].agent # a
    BY <2>1, <1>1
  <2>3. Replay(log', a) = Apply(Replay(log, a), e)
    BY <1>2, <1>6, <1>8, ReplayAppendOther
  <2>4. Mirrors(a) => cache[a] \in {NoInfo, Replay(log, a)} /\ Valid(e.change, cache[a])
    BY <2>2, <1>1, <1>5, <1>8 DEF Mirrors
  <2>5. Mirrors(a) => Mirrors(a)'
    <3> SUFFICES ASSUME Mirrors(a) PROVE Mirrors(a)'
      OBVIOUS
    <3>1. Apply(cache[a], e) \in {NoInfo, Replay(log', a)}
      BY <2>3, <2>4, ApplyToNothing
    <3>2. \A d \in StoreClients : step'[d] = "persisted" /\ command'[d].agent = a => d = c
      BY <2>1, <1>1, <1>4
    <3>3. \A d \in StoreClients : step'[d] \in {"validated", "sequenced"} => command'[d].agent # a
      BY <2>1, <1>1, <1>4, <1>6
    <3> QED BY <3>1, <3>2, <3>3, <1>1, <1>5, <1>6, <1>8 DEF Mirrors
  <2>6. Mirrors(a) /\ LawfulRows(a) => LawfulRows(a)'
    <3> SUFFICES ASSUME Mirrors(a), LawfulRows(a) PROVE LawfulRows(a)'
      OBVIOUS
    <3>1. e.change \in Changes
      BY RowParts
    <3>2. cache[a] # NoInfo \/ e.change.type \notin {"StateTransitioned", "TaskAssigned"}
      BY <3>1, <2>4, ValidIsLawful
    <3>3. Lawful(e.change, Replay(log, a))
      BY <3>2, <2>4 DEF Lawful, Valid
    <3> QED BY <3>3, <1>0, <1>6, LawfulAppended
  <2>7. InOrder(a) => InOrder(a)'
    <3> SUFFICES ASSUME InOrder(a) PROVE InOrder(a)'
      OBVIOUS
    <3>1. /\ e.sequence <= counter
          /\ \A f \in ToSet(log) : f.agent = a => f.sequence < e.sequence /\ f.sequence <= counter
      BY <1>1, <1>5, <1>8 DEF InOrder
    <3>2. LatestRows(a)' = {e}
      BY <3>1, <1>0, <1>6, <1>8, LatestAppended
    <3>3. ToSet(log') = ToSet(log) \cup {e}
      BY <1>2, <1>6, RowsAppended
    <3>4. e.change.type = "AgentRegistered" => Replay(log', a) = Registered(e)
      BY <2>3 DEF Apply
    <3>5. \A d \in StoreClients : step'[d] = "sequenced" => command'[d].agent # a
      BY <2>1, <1>1, <1>4, <1>6
    <3>6. \A f \in ToSet(log') : f.agent = a => f.sequence <= counter'
      BY <3>1, <3>3, <1>1
    <3> QED BY <3>2, <3>4, <3>5, <3>6 DEF InOrder
  <2> QED BY <2>5, <2>6, <2>7, <1>1, <1>3 DEF Recorded
<1> QED BY <1>7, <1>8

LEMMA SettleRecords ==
  ASSUME StoreIInv, NEW c \in StoreClients, PersistFails(c) \/ ApplyEvent(c),
         NEW a \in StoreAgents \ overlapped'
  PROVE  Recorded(a)'
<1>0. StoreTyped
  BY DEF StoreIInv
<1>1. /\ step' = [step EXCEPT ![c] = "idle"]
      /\ command' = [command EXCEPT ![c] = NoCommand]
      /\ log' = log /\ counter' = counter /\ overlapped' = overlapped /\ restarts' = restarts
      /\ \/ step[c] = "sequenced" /\ cache' = cache
         \/ /\ step[c] = "persisted"
            /\ cache' = [cache EXCEPT ![command[c].agent] = Apply(cache[command[c].agent], command[c])]
  BY DEF PersistFails, ApplyEvent
<1>2. /\ step \in [StoreClients -> Steps] /\ counter \in Nat /\ command[c] \in Rows
      /\ command \in [StoreClients -> {NoCommand} \cup CommandsOf \cup Rows]
      /\ cache \in [StoreAgents -> AgentInfo \cup {NoInfo}]
  BY <1>0, <1>1, StoreTypeParts DEF StoreTyped
<1>3. a \notin overlapped /\ Recorded(a)
  BY <1>1 DEF StoreIInv
<1>4. \A d \in StoreClients \ {c} : step'[d] = step[d] /\ command'[d] = command[d]
  BY <1>1, <1>2
<1>5. PICK e \in Rows : e = command[c]
  BY <1>2
<1>6. step'[c] = "idle"
  BY <1>1, <1>2
<1>7. CASE e.agent # a
  <2>1. \A d \in StoreClients :
            \/ step'[d] = step[d] /\ command'[d] = command[d]
            \/ /\ step[d] = "idle" \/ command[d].agent # a
               /\ step'[d] = "idle" \/ command'[d].agent # a
    BY <1>4, <1>5, <1>6, <1>7
  <2>2. counter' \in Nat /\ counter' >= counter
    BY <1>1, <1>2
  <2>3. cache'[a] = cache[a]
    BY <1>1, <1>2, <1>5, <1>7
  <2> QED BY <2>1, <2>2, <2>3, <1>0, <1>1, <1>3, OtherAgents DEF Recorded
<1>8. CASE e.agent = a
  <2>1. \A d \in StoreClients \ {c} : step[d] = "idle" \/ command[d].agent # a
    BY <1>1, <1>3, <1>5, <1>8, OnlyCommand DEF StoreIInv
  <2>2. \A d \in StoreClients : step'[d] # "idle" => command'[d].agent # a
    BY <2>1, <1>4, <1>6
  <2>3. Mirrors(a) => Mirrors(a)'
    <3> SUFFICES ASSUME Mirrors(a) PROVE Mirrors(a)'
      OBVIOUS
    <3>1. cache'[a] \in {NoInfo, Replay(log, a)}
      <4>1. CASE step[c] = "sequenced" /\ cache' = cache
        <5>1. \A d \in StoreClients : step[d] = "persisted" => command[d].agent # a
          BY <2>1, <4>1
        <5> QED BY <5>1, <4>1 DEF Mirrors
      <4>2. CASE /\ step[c] = "persisted"
                 /\ cache' = [cache EXCEPT ![command[c].agent] = Apply(cache[command[c].agent], command[c])]
        <5>1. cache'[a] = Apply(cache[a], e)
          BY <4>2, <1>2, <1>5, <1>8
        <5> QED BY <5>1, <4>2, <1>5, <1>8 DEF Mirrors
      <4> QED BY <4>1, <4>2, <1>1
    <3>2. \A d \in StoreClients : step'[d] \in {"persisted", "validated", "sequenced"} => command'[d].agent # a
      BY <2>2
    <3> QED BY <3>1, <3>2, <1>1 DEF Mirrors
  <2>4. LawfulRows(a) => LawfulRows(a)'
    BY <1>1 DEF LawfulRows
  <2>5. InOrder(a) => InOrder(a)'
    <3>1. \A d \in StoreClients : step'[d] = "sequenced" => command'[d].agent # a
      BY <2>2
    <3> QED BY <3>1, <1>1 DEF InOrder, LatestRows
  <2> QED BY <2>3, <2>4, <2>5, <1>1, <1>3 DEF Recorded
<1> QED BY <1>7, <1>8

LEMMA RestartRecords ==
  ASSUME StoreIInv, Restart, NEW a \in StoreAgents \ overlapped'
  PROVE  Recorded(a)'
<1>1. /\ restarts' = restarts + 1 /\ step' = [c \in StoreClients |-> "idle"]
      /\ log' = log /\ overlapped' = overlapped
  BY DEF Restart
<1>2. restarts \in Nat
  BY StoreTypeParts, StoreConstants DEF StoreIInv, StoreTyped
<1>3. a \notin overlapped /\ Recorded(a)
  BY <1>1 DEF StoreIInv
<1>4. CASE restarts # 0
  <2>1. ~(restarts' <= 1) /\ restarts' # 0
    BY <1>1, <1>2, <1>4
  <2> QED BY <2>1 DEF Recorded
<1>5. CASE restarts = 0
  <2>1. restarts' = 1 /\ Mirrors(a) /\ LawfulRows(a) /\ InOrder(a)
    BY <1>1, <1>3, <1>5 DEF Recorded
  <2>2. cache'[a] \in Loaded(a)
    BY DEF Restart
  <2>3. Loaded(a) \subseteq {NoInfo, Replay(log, a)}
    BY <2>1 DEF Loaded, InOrder
  <2>4. \A c \in StoreClients : step'[c] \notin {"persisted", "validated", "sequenced"}
    BY <1>1
  <2>5. Mirrors(a)'
    BY <2>2, <2>3, <2>4, <1>1 DEF Mirrors
  <2>6. LawfulRows(a)'
    BY <2>1, <1>1 DEF LawfulRows
  <2> QED BY <2>1, <2>5, <2>6 DEF Recorded
<1> QED BY <1>4, <1>5

LEMMA StoreActors ==
  ASSUME StoreIInv, StoreNext
  PROVE  OneAtATime' /\ AppliedFirst'
<1>0. StoreTyped /\ OneAtATime /\ AppliedFirst
  BY DEF StoreIInv
<1>1. /\ step \in [StoreClients -> Steps]
      /\ command \in [StoreClients -> {NoCommand} \cup CommandsOf \cup Rows]
      /\ \A c \in StoreClients : step[c] = "validated" => command[c] \in CommandsOf
  BY <1>0, StoreTypeParts DEF StoreTyped
<1>2. ASSUME NEW c \in StoreClients, NEW e \in CommandsOf, Execute(c, e)
      PROVE  OneAtATime' /\ AppliedFirst'
  <2>1. /\ step' = [step EXCEPT ![c] = "validated"] /\ command' = [command EXCEPT ![c] = e]
        /\ overlapped' = IF UnderWay(e.agent) THEN overlapped \cup {e.agent} ELSE overlapped
        /\ fresh' = fresh
    BY <1>2 DEF Execute
  <2>2. /\ step'[c] = "validated" /\ command'[c] = e
        /\ \A d \in StoreClients \ {c} : step'[d] = step[d] /\ command'[d] = command[d]
    BY <2>1, <1>1
  <2>3. e.agent \notin overlapped' => \A d \in StoreClients : step[d] = "idle" \/ command[d].agent # e.agent
    BY <2>1 DEF UnderWay
  <2>4. OneAtATime'
    <3> SUFFICES ASSUME NEW d1 \in StoreClients, NEW d2 \in StoreClients, d1 # d2,
                        step'[d1] # "idle", step'[d2] # "idle",
                        command'[d1].agent = command'[d2].agent,
                        command'[d1].agent \notin overlapped'
                 PROVE  FALSE
      BY DEF OneAtATime
    <3>1. CASE d1 # c /\ d2 # c
      <4>1. command[d1].agent \notin overlapped
        BY <3>1, <2>1, <2>2
      <4> QED BY <3>1, <4>1, <2>2, <1>0 DEF OneAtATime
    <3>2. CASE d1 = c \/ d2 = c
      BY <3>2, <2>2, <2>3
    <3> QED BY <3>1, <3>2
  <2>5. AppliedFirst'
    BY <2>1, <2>2, <1>0 DEF AppliedFirst
  <2> QED BY <2>4, <2>5
<1>3. ASSUME NEW c \in StoreClients, CommandToEvent(c) \/ PersistEvent(c)
      PROVE  OneAtATime' /\ AppliedFirst'
  <2>1. /\ step[c] # "idle" /\ overlapped' = overlapped
        /\ \A d \in StoreClients \ {c} : step'[d] = step[d] /\ command'[d] = command[d]
    BY <1>1, <1>3 DEF CommandToEvent, PersistEvent
  <2>2. command'[c].agent = command[c].agent
    <3>1. CASE CommandToEvent(c)
      <4>1. command[c] \in CommandsOf /\ command'[c] = [command[c] EXCEPT !.sequence = counter + 1]
        BY <3>1, <1>1 DEF CommandToEvent
      <4> QED BY <4>1 DEF CommandsOf
    <3>2. CASE PersistEvent(c)
      BY <3>2 DEF PersistEvent
    <3> QED BY <3>1, <3>2, <1>3
  <2>3. OneAtATime'
    <3> SUFFICES ASSUME NEW d1 \in StoreClients, NEW d2 \in StoreClients,
                        step'[d1] # "idle", step'[d2] # "idle",
                        command'[d1].agent = command'[d2].agent,
                        command'[d1].agent \notin overlapped'
                 PROVE  d1 = d2
      BY DEF OneAtATime
    <3>1. \A d \in StoreClients : step'[d] # "idle" => step[d] # "idle"
      BY <2>1
    <3>2. \A d \in StoreClients : command'[d].agent = command[d].agent
      BY <2>1, <2>2
    <3> QED BY <3>1, <3>2, <2>1, <1>0 DEF OneAtATime
  <2>4. AppliedFirst'
    <3>1. CASE CommandToEvent(c)
      <4>1. fresh' = fresh /\ step'[c] = "sequenced"
        BY <3>1, <1>1 DEF CommandToEvent
      <4> QED BY <4>1, <2>1, <1>0 DEF AppliedFirst
    <3>2. CASE PersistEvent(c)
      BY <3>2 DEF PersistEvent, AppliedFirst
    <3> QED BY <3>1, <3>2, <1>3
  <2> QED BY <2>3, <2>4
<1>4. ASSUME NEW c \in StoreClients, PersistFails(c) \/ ApplyEvent(c)
      PROVE  OneAtATime' /\ AppliedFirst'
  <2>1. /\ step'[c] = "idle" /\ overlapped' = overlapped /\ fresh' = fresh
        /\ \A d \in StoreClients \ {c} : step'[d] = step[d] /\ command'[d] = command[d]
    BY <1>1, <1>4 DEF PersistFails, ApplyEvent
  <2> QED BY <2>1, <1>0 DEF OneAtATime, AppliedFirst
<1>5. ASSUME Restart
      PROVE  OneAtATime' /\ AppliedFirst'
  <2>1. \A d \in StoreClients : step'[d] = "idle"
    BY <1>5 DEF Restart
  <2> QED BY <2>1 DEF OneAtATime, AppliedFirst
<1> QED BY <1>2, <1>3, <1>4, <1>5 DEF StoreNext

LEMMA StoreStarts == StoreInit => StoreIInv
<1> SUFFICES ASSUME StoreInit PROVE StoreIInv
  OBVIOUS
<1>1. StoreTyped
  BY StoreTypedStart
<1>2. /\ \A c \in StoreClients : step[c] = "idle"
      /\ log = <<>> /\ cache = [a \in StoreAgents |-> NoInfo]
  BY DEF StoreInit
<1>3. OneAtATime /\ AppliedFirst
  BY <1>2 DEF OneAtATime, AppliedFirst
<1>4. ASSUME NEW a \in StoreAgents PROVE Recorded(a)
  <2>1. Replay(log, a) = NoInfo
    BY <1>2, ReplayEmpty
  <2>2. Mirrors(a)
    BY <1>2, <2>1 DEF Mirrors
  <2>3. ToSet(log) = {} /\ DOMAIN log = {}
    BY <1>2 DEF ToSet
  <2>4. LatestRows(a) = {}
    BY <2>3 DEF LatestRows
  <2> QED BY <1>2, <2>2, <2>3, <2>4 DEF Recorded, LawfulRows, InOrder
<1> QED BY <1>1, <1>3, <1>4 DEF StoreIInv

LEMMA StoreSteps == StoreIInv /\ [StoreNext]_storeVars => StoreIInv'
<1> SUFFICES ASSUME StoreIInv, [StoreNext]_storeVars PROVE StoreIInv'
  OBVIOUS
<1>1. StoreTyped'
  BY StoreTypedStep DEF StoreIInv
<1>2. CASE StoreNext
  <2>1. OneAtATime' /\ AppliedFirst'
    BY <1>2, StoreActors
  <2>2. \A a \in StoreAgents \ overlapped' : Recorded(a)'
    BY <1>2, ExecuteRecords, CommandRecords, PersistRecords, SettleRecords, RestartRecords
       DEF StoreNext
  <2> QED BY <1>1, <2>1, <2>2 DEF StoreIInv
<1>3. CASE UNCHANGED storeVars
  <2>1. UNCHANGED <<log, cache, counter, step, command, commands, restarts, fresh, overlapped>>
    BY <1>3 DEF storeVars
  <2>2. \A a : Recorded(a)' <=> Recorded(a)
    BY <2>1 DEF Recorded, Mirrors, LawfulRows, InOrder, LatestRows
  <2>3. OneAtATime' /\ AppliedFirst'
    BY <2>1 DEF StoreIInv, OneAtATime, AppliedFirst
  <2>4. overlapped' = overlapped
    BY <2>1
  <2> QED BY <1>1, <2>2, <2>3, <2>4 DEF StoreIInv
<1> QED BY <1>2, <1>3

LEMMA StoreInvariance == StoreSpec => []StoreIInv
<1>1. StoreInit => StoreIInv
  BY StoreStarts
<1>2. StoreIInv /\ [StoreNext]_storeVars => StoreIInv'
  BY StoreSteps
<1> QED BY <1>1, <1>2, PTL DEF StoreSpec

\* Every variable of the store has its type: no count exceeds the commands
\* there have been, whatever failed and however often the gateway restarted.
THEOREM StoreTyping == StoreSpec => []StoreTypeOK
<1>1. StoreIInv => StoreTypeOK
  BY DEF StoreIInv, StoreTyped, StoreTypes
<1> QED BY <1>1, StoreInvariance, PTL

\* The log of an agent that never had two commands under way at a time is a
\* history that could have happened, for any number of agents, clients,
\* commands and states (state_store.rs:424-436).
THEOREM HistoryIsLegal == StoreSpec => []LegalHistory
<1>1. StoreIInv => LegalHistory
  <2> SUFFICES ASSUME StoreIInv, restarts <= 1, NEW k \in DOMAIN log,
                      log[k].agent \notin overlapped
               PROVE  Lawful(log[k].change, Replay(SubSeq(log, 1, k - 1), log[k].agent))
    BY DEF LegalHistory, Lawful
  <2>1. log \in Seq(Rows)
    BY StoreTypeParts DEF StoreIInv, StoreTyped
  <2>2. log[k] \in Rows
    BY <2>1
  <2>3. log[k].agent \in StoreAgents \ overlapped
    BY <2>2, RowParts
  <2>4. LawfulRows(log[k].agent)
    BY <2>3 DEF StoreIInv, Recorded
  <2> QED BY <2>4 DEF LawfulRows
<1> QED BY <1>1, StoreInvariance, PTL

\* What the first restart loads for such an agent is what the log adds up to,
\* or nothing (state_store.rs:383-414).
THEOREM RecoveryIsNeverStale == StoreSpec => []RecoveredIsReplay
<1>1. StoreIInv => RecoveredIsReplay
  <2> SUFFICES ASSUME StoreIInv, restarts = 1, fresh, NEW a \in StoreAgents \ overlapped
               PROVE  cache[a] \in {NoInfo, Replay(log, a)}
    BY DEF RecoveredIsReplay
  <2>1. Mirrors(a)
    BY DEF StoreIInv, Recorded
  <2>2. \A c \in StoreClients : step[c] # "persisted"
    BY DEF StoreIInv, AppliedFirst
  <2> QED BY <2>1, <2>2 DEF Mirrors
<1> QED BY <1>1, StoreInvariance, PTL

(***************************************************************************)
(* The session pool: who uses a session                                    *)
(***************************************************************************)
\* Who has a session, and who is in the queue of requests or taken from it.
TasksPlaced ==
  /\ \A t \in PoolTasks : tPlace[t] \in {"matched", "holding"} => tSession[t] \in Sessions
  /\ \A i \in DOMAIN requests :
        /\ tPlace[requests[i]] \in {"waiting", "gaveUp"} /\ requests[i] # served
        /\ \A j \in DOMAIN requests : requests[i] = requests[j] => i = j
  /\ served # Nobody => tPlace[served] \in {"waiting", "gaveUp"}
  /\ match # Nobody => served # Nobody

HeldBy(s, t) == tPlace[t] = "holding" /\ tSession[t] = s

\* A session that no late look disturbed has at most one holder, none when it
\* could be given away, and, when it is busy, its task.
Undivided(s) ==
  /\ \A t, u \in PoolTasks : HeldBy(s, t) /\ HeldBy(s, u) => t = u
  /\ sState[s] \in {"None", "Idle", "Hibernating"} => \A t \in PoolTasks : ~HeldBy(s, t)
  /\ sState[s] = "Busy" =>
        /\ sTask[s] \in PoolTasks
        /\ HeldBy(s, sTask[s]) \/ tPlace[sTask[s]] = "gaveUp"

PoolIInv ==
  /\ PoolTypeOK
  /\ TasksPlaced
  /\ \A s \in Sessions \ tainted : Undivided(s)
  /\ IdleIsFindable

LEMMA PoolConstants ==
  /\ IsFiniteSet(Sessions) /\ IsFiniteSet(PoolTasks)
  /\ Nobody \notin Sessions /\ Nobody \notin PoolTasks
  /\ MinPoolSize \in Nat /\ MaxPoolSize \in Nat /\ MaxPoolEvents \in Nat
  /\ MinPoolSize <= MaxPoolSize
BY PoolAssumption DEF Nobody

LEMMA LiveFinite ==
  /\ IsFiniteSet(Live) /\ Cardinality(Live) \in Nat /\ Live \subseteq Sessions
<1>1. Live \subseteq Sessions
  BY DEF Live
<1> QED BY <1>1, PoolConstants, FS_Subset, FS_CardinalityType

\* The types of the variables one by one.
PoolTypes ==
  /\ sState \in [Sessions -> SessionStates]
  /\ sAvailable \subseteq Sessions
  /\ sTask \in [Sessions -> PoolTasks \cup {Nobody}]
  /\ sPushing \subseteq Sessions /\ sRemoving \subseteq Sessions
  /\ tPlace \in [PoolTasks -> TaskPlaces]
  /\ tSession \in [PoolTasks -> Sessions \cup {Nobody}]
  /\ requests \in Seq(PoolTasks)
  /\ served \in PoolTasks \cup {Nobody}
  /\ match \in Sessions \cup {Nobody}
  /\ doomed \in [hibernate : SUBSET Sessions, terminate : SUBSET Sessions]
  /\ tainted \subseteq Sessions /\ hidden \subseteq Sessions
  /\ poolEvents \in 0..MaxPoolEvents

LEMMA PoolTypeParts == PoolTypeOK <=> PoolTypes /\ Cardinality(Live) <= MaxPoolSize
BY DEF PoolTypeOK, PoolTypes

\* A step that makes nothing live leaves the pool within its size.
LEMMA LiveShrinks ==
  ASSUME PoolTypeOK, PoolTypes',
         \A s \in Sessions : sState'[s] \notin {"None", "Gone"} => sState[s] \notin {"None", "Gone"}
  PROVE  PoolTypeOK'
<1>1. PICK L : L = Live'
  OBVIOUS
<1>2. L \subseteq Live
  BY <1>1 DEF Live
<1>3. Cardinality(L) <= Cardinality(Live) /\ Cardinality(L) \in Nat
  BY <1>2, LiveFinite, FS_Subset, FS_CardinalityType
<1>4. Cardinality(Live) <= MaxPoolSize
  BY PoolTypeParts
<1>5. Cardinality(L) <= MaxPoolSize
  BY <1>3, <1>4, LiveFinite, PoolConstants
<1>6. Cardinality(Live)' = Cardinality(L)
  BY <1>1
<1> QED BY <1>5, <1>6 DEF PoolTypeOK, PoolTypes

LEMMA UndividedSame ==
  ASSUME NEW s, Undivided(s), tPlace' = tPlace, tSession' = tSession, sTask'[s] = sTask[s],
         sState'[s] = "Busy" => sState[s] = "Busy",
         sState'[s] \in {"None", "Idle", "Hibernating"}
           => sState[s] \in {"None", "Idle", "Hibernating"}
  PROVE  Undivided(s)'
BY DEF Undivided, HeldBy

LEMMA TasksStay ==
  ASSUME TasksPlaced, UNCHANGED <<poolClientVars, poolProcessorVars>>
  PROVE  TasksPlaced'
BY DEF TasksPlaced, poolClientVars, poolProcessorVars

\* The pattern of the steps that no task takes part in: they make nothing
\* live, busy, or fit to be given away, that was not.
LEMMA SessionsMove ==
  ASSUME PoolIInv, PoolTypes', UNCHANGED <<poolClientVars, poolProcessorVars>>,
         sTask' = sTask, tainted \subseteq tainted',
         \A s \in Sessions :
            /\ sState'[s] \notin {"None", "Gone"} => sState[s] \notin {"None", "Gone"}
            /\ sState'[s] = "Busy" => sState[s] = "Busy"
            /\ s \notin tainted' /\ sState'[s] \in {"None", "Idle", "Hibernating"}
                 => sState[s] \in {"None", "Idle", "Hibernating"},
         IdleIsFindable'
  PROVE  PoolIInv'
<1>1. PoolTypeOK'
  BY LiveShrinks DEF PoolIInv
<1>2. TasksPlaced'
  BY TasksStay DEF PoolIInv
<1>3. tPlace' = tPlace /\ tSession' = tSession
  BY DEF poolClientVars
<1>4. ASSUME NEW s \in Sessions \ tainted' PROVE Undivided(s)'
  <2>1. Undivided(s)
    BY DEF PoolIInv
  <2> QED BY <2>1, <1>3, UndividedSame
<1> QED BY <1>1, <1>2, <1>4 DEF PoolIInv

LEMMA PoolIInvParts ==
  ASSUME PoolIInv
  PROVE  PoolTypes /\ TasksPlaced /\ IdleIsFindable /\ \A s \in Sessions \ tainted : Undivided(s)
BY PoolTypeParts DEF PoolIInv

LEMMA CreateKeepsPool ==
  ASSUME PoolIInv, NEW s \in Sessions, CreateSession(s)
  PROVE  PoolIInv'
<1>0. PoolTypes /\ TasksPlaced /\ IdleIsFindable /\ \A e \in Sessions \ tainted : Undivided(e)
  BY PoolIInvParts
<1>1. PICK evicted \in SUBSET Live :
        /\ IF Cardinality(Live) >= MaxPoolSize
           THEN Cardinality(evicted) = 1 /\ \A e \in evicted : sState[e] = "Idle"
           ELSE evicted = {}
        /\ sState' = [e \in Sessions |->
              CASE e = s -> "Idle" [] e \in evicted -> "Gone" [] OTHER -> sState[e]]
        /\ sAvailable' = sAvailable \ evicted
  BY DEF CreateSession
<1>2. /\ sState[s] = "None" /\ poolEvents < MaxPoolEvents /\ poolEvents' = poolEvents + 1
      /\ sPushing' = sPushing \cup {s}
      /\ UNCHANGED <<sTask, sRemoving, doomed, poolClientVars, poolProcessorVars, poolHistoryVars>>
  BY DEF CreateSession, PoolEvent
<1>3. s \notin Live /\ s \notin evicted
  BY <1>1, <1>2 DEF Live
<1>4. /\ sState'[s] = "Idle"
      /\ \A e \in Sessions \ {s} : sState'[e] = IF e \in evicted THEN "Gone" ELSE sState[e]
  BY <1>1, <1>3
<1>5. PoolTypes'
  <2>1. sState' \in [Sessions -> SessionStates]
    <3>1. sState' = [e \in Sessions |-> sState'[e]] /\ \A e \in Sessions : sState[e] \in SessionStates
      BY <1>0, <1>1 DEF PoolTypes
    <3>2. \A e \in Sessions : sState'[e] \in SessionStates
      BY <3>1, <1>4 DEF SessionStates
    <3> QED BY <3>1, <3>2
  <2>2. poolEvents' \in 0..MaxPoolEvents
    BY <1>0, <1>2, PoolConstants DEF PoolTypes
  <2> QED BY <2>1, <2>2, <1>0, <1>1, <1>2 DEF PoolTypes, poolClientVars, poolProcessorVars, poolHistoryVars
<1>6. PoolTypeOK'
  <2>1. PICK L : L = Live'
    OBVIOUS
  <2>2. L = (Live \ evicted) \cup {s}
    BY <2>1, <1>1, <1>3, <1>4 DEF Live
  <2>3. PICK R : R = Live \ evicted
    OBVIOUS
  <2>4. /\ IsFiniteSet(Live) /\ Cardinality(Live) \in Nat /\ Cardinality(Live) <= MaxPoolSize
    BY LiveFinite, PoolTypeParts DEF PoolIInv
  <2>5. IsFiniteSet(R) /\ Cardinality(R) \in Nat
    BY <2>3, <2>4, FS_Subset, FS_CardinalityType
  <2>6. Cardinality(R) + 1 <= MaxPoolSize
    <3>1. CASE Cardinality(Live) >= MaxPoolSize
      <4>1. Cardinality(evicted) = 1 /\ evicted \subseteq Live
        BY <3>1, <1>1
      <4>2. IsFiniteSet(evicted)
        BY <4>1, <2>4, FS_Subset
      <4>3. evicted # {}
        BY <4>1, FS_EmptySet
      <4>4. PICK e \in evicted : TRUE
        BY <4>3
      <4>5. PICK E : E = R \cup {e}
        OBVIOUS
      <4>6. E \subseteq Live /\ e \notin R
        BY <4>1, <4>4, <4>5, <2>3
      <4>7. Cardinality(E) = Cardinality(R) + 1
        BY <4>5, <4>6, <2>5, FS_AddElement
      <4>8. Cardinality(E) <= Cardinality(Live)
        BY <4>6, <2>4, FS_Subset
      <4> QED BY <4>7, <4>8, <2>4, <2>5, PoolConstants
    <3>2. CASE ~(Cardinality(Live) >= MaxPoolSize)
      <4>1. R = Live
        BY <3>2, <1>1, <2>3
      <4> QED BY <4>1, <3>2, <2>4, PoolConstants
    <3> QED BY <3>1, <3>2
  <2>7. L = R \cup {s} /\ s \notin R
    BY <2>2, <2>3, <1>3
  <2>8. Cardinality(L) = Cardinality(R) + 1
    BY <2>7, <2>5, FS_AddElement
  <2>9. Cardinality(Live)' = Cardinality(L)
    BY <2>1
  <2> QED BY <2>6, <2>8, <2>9, <1>5 DEF PoolTypeOK, PoolTypes
<1>7. TasksPlaced'
  BY <1>0, <1>2, TasksStay
<1>8. tPlace' = tPlace /\ tSession' = tSession /\ sTask' = sTask /\ tainted' = tainted
  BY <1>2 DEF poolClientVars, poolHistoryVars
<1>9. ASSUME NEW e \in Sessions \ tainted' PROVE Undivided(e)'
  <2>1. Undivided(e)
    BY <1>0, <1>8
  <2> QED BY <2>1, <1>2, <1>4, <1>8, UndividedSame
<1>10. IdleIsFindable'
  BY <1>0, <1>1, <1>2, <1>3, <1>4 DEF IdleIsFindable, poolHistoryVars
<1> QED BY <1>6, <1>7, <1>9, <1>10 DEF PoolIInv

LEMMA QueueingKeepsPool ==
  ASSUME PoolIInv, NEW s \in Sessions, PushAvailable(s) \/ RemoveAvailable(s)
  PROVE  PoolIInv'
<1>0. PoolTypes /\ TasksPlaced /\ IdleIsFindable
  BY PoolIInvParts
<1>1. /\ sState' = sState /\ sTask' = sTask /\ tainted' = tainted /\ poolEvents' = poolEvents
      /\ UNCHANGED <<doomed, poolClientVars, poolProcessorVars>>
  BY DEF PushAvailable, RemoveAvailable, poolHistoryVars
<1>2. PoolTypes' /\ IdleIsFindable'
  <2>1. CASE PushAvailable(s)
    BY <2>1, <1>0, <1>1 DEF PushAvailable, PoolTypes, IdleIsFindable, poolClientVars,
                           poolProcessorVars, poolHistoryVars
  <2>2. CASE RemoveAvailable(s)
    BY <2>2, <1>0, <1>1 DEF RemoveAvailable, PoolTypes, IdleIsFindable, poolClientVars,
                           poolProcessorVars
  <2> QED BY <2>1, <2>2
<1> QED BY <1>1, <1>2, SessionsMove

\* The steps that set the state of one session.
LEMMA StateOfOne ==
  ASSUME PoolIInv, NEW s \in Sessions, NEW new \in SessionStates,
         sState' = [sState EXCEPT ![s] = new],
         new \notin {"None", "Gone"} => sState[s] \notin {"None", "Gone"},
         new # "Busy",
         s \notin tainted' /\ new \in {"None", "Idle", "Hibernating"}
           => sState[s] \in {"None", "Idle", "Hibernating"},
         new = "Idle" => s \in sPushing',
         sAvailable' \in {sAvailable, sAvailable \ {s}},
         sPushing' \in {sPushing, sPushing \cup {s}},
         sRemoving' \subseteq Sessions, sTask' = sTask,
         doomed' \in [hibernate : SUBSET Sessions, terminate : SUBSET Sessions],
         poolEvents' \in 0..MaxPoolEvents,
         tainted' \in {tainted, tainted \cup {s}}, hidden' = hidden,
         UNCHANGED <<poolClientVars, poolProcessorVars>>
  PROVE  PoolIInv'
<1>0. PoolTypes /\ TasksPlaced /\ IdleIsFindable
  BY PoolIInvParts
<1>1. sState \in [Sessions -> SessionStates]
  BY <1>0 DEF PoolTypes
<1>2. sState'[s] = new /\ \A e \in Sessions \ {s} : sState'[e] = sState[e]
  BY <1>1
<1>3. PoolTypes'
  <2>1. sState' \in [Sessions -> SessionStates]
    BY <1>1
  <2>2. sAvailable' \subseteq Sessions /\ sPushing' \subseteq Sessions /\ tainted' \subseteq Sessions
    BY <1>0 DEF PoolTypes
  <2> QED BY <2>1, <2>2, <1>0 DEF PoolTypes, poolClientVars, poolProcessorVars
<1>4. IdleIsFindable'
  BY <1>0, <1>2 DEF IdleIsFindable
<1>5. \A e \in Sessions :
        /\ sState'[e] \notin {"None", "Gone"} => sState[e] \notin {"None", "Gone"}
        /\ sState'[e] = "Busy" => sState[e] = "Busy"
        /\ e \notin tainted' /\ sState'[e] \in {"None", "Idle", "Hibernating"}
             => sState[e] \in {"None", "Idle", "Hibernating"}
  BY <1>2
<1>6. tainted \subseteq tainted'
  OBVIOUS
<1> QED BY <1>3, <1>4, <1>5, <1>6, SessionsMove

LEMMA StateStepsKeepPool ==
  ASSUME PoolIInv, NEW s \in Sessions,
         \/ HibernateSession(s) \/ WakeSession(s) \/ TerminateSession(s) \/ MarkUnhealthy(s)
         \/ MaintenanceHibernates(s) \/ MaintenanceTerminates(s)
  PROVE  PoolIInv'
<1>0. /\ sState \in [Sessions -> SessionStates] /\ sRemoving \subseteq Sessions
      /\ doomed \in [hibernate : SUBSET Sessions, terminate : SUBSET Sessions]
      /\ poolEvents \in 0..MaxPoolEvents /\ MaxPoolEvents \in Nat
  BY PoolIInvParts, PoolConstants DEF PoolTypes
<1>1. CASE HibernateSession(s)
  <2>1. /\ sState[s] = "Idle" /\ sState' = [sState EXCEPT ![s] = "Hibernating"]
        /\ sRemoving' = sRemoving \cup {s}
        /\ poolEvents < MaxPoolEvents /\ poolEvents' = poolEvents + 1
        /\ UNCHANGED <<sAvailable, sTask, sPushing, doomed, poolClientVars, poolProcessorVars,
                       tainted, hidden>>
    BY <1>1 DEF HibernateSession, PoolEvent, poolHistoryVars
  <2>2. sRemoving' \subseteq Sessions /\ poolEvents' \in 0..MaxPoolEvents /\ "Hibernating" \in SessionStates
    BY <2>1, <1>0 DEF SessionStates
  <2> QED BY <2>1, <2>2, <1>0, StateOfOne
<1>2. CASE WakeSession(s)
  <2>1. /\ sState[s] = "Hibernating" /\ sState' = [sState EXCEPT ![s] = "Idle"]
        /\ sPushing' = sPushing \cup {s}
        /\ UNCHANGED <<sAvailable, sTask, sRemoving, doomed, poolClientVars, poolProcessorVars,
                       tainted, hidden, poolEvents>>
    BY <1>2 DEF WakeSession, poolHistoryVars
  <2>2. "Idle" \in SessionStates
    BY DEF SessionStates
  <2> QED BY <2>1, <2>2, <1>0, StateOfOne
<1>3. CASE TerminateSession(s)
  <2>1. /\ sState' = [sState EXCEPT ![s] = "Gone"] /\ sAvailable' = sAvailable \ {s}
        /\ poolEvents < MaxPoolEvents /\ poolEvents' = poolEvents + 1
        /\ UNCHANGED <<sTask, sPushing, sRemoving, doomed, poolClientVars, poolProcessorVars,
                       tainted, hidden>>
    BY <1>3 DEF TerminateSession, PoolEvent, poolHistoryVars
  <2>2. poolEvents' \in 0..MaxPoolEvents /\ "Gone" \in SessionStates
    BY <2>1, <1>0 DEF SessionStates
  <2> QED BY <2>1, <2>2, <1>0, StateOfOne
<1>4. CASE MarkUnhealthy(s)
  <2>1. /\ sState[s] = "Busy" /\ sState' = [sState EXCEPT ![s] = "Unhealthy"]
        /\ poolEvents < MaxPoolEvents /\ poolEvents' = poolEvents + 1
        /\ UNCHANGED <<sAvailable, sTask, sPushing, sRemoving, doomed, poolClientVars,
                       poolProcessorVars, tainted, hidden>>
    BY <1>4 DEF MarkUnhealthy, PoolEvent, poolHistoryVars
  <2>2. poolEvents' \in 0..MaxPoolEvents /\ "Unhealthy" \in SessionStates
    BY <2>1, <1>0 DEF SessionStates
  <2> QED BY <2>1, <2>2, <1>0, StateOfOne
<1>5. CASE MaintenanceHibernates(s)
  <2>1. /\ doomed' = [doomed EXCEPT !.hibernate = @ \ {s}]
        /\ sState' = IF s \in Live THEN [sState EXCEPT ![s] = "Hibernating"] ELSE sState
        /\ sAvailable' = sAvailable \ {s}
        /\ tainted' = IF sState[s] \in {"Busy", "Unhealthy"} THEN tainted \cup {s} ELSE tainted
        /\ UNCHANGED <<sTask, sPushing, sRemoving, hidden, poolClientVars, poolProcessorVars,
                       poolEvents>>
    BY <1>5 DEF MaintenanceHibernates
  <2>2. doomed' \in [hibernate : SUBSET Sessions, terminate : SUBSET Sessions]
    BY <2>1, <1>0
  <2>3. CASE s \in Live
    <3>1. sState[s] \notin {"None", "Gone"} /\ sState[s] \in SessionStates /\ "Hibernating" \in SessionStates
      BY <2>3, <1>0 DEF Live, SessionStates
    <3>2. s \notin tainted' => sState[s] \in {"None", "Idle", "Hibernating"}
      BY <3>1, <2>1 DEF SessionStates
    <3> QED BY <3>1, <3>2, <2>1, <2>2, <2>3, <1>0, StateOfOne
  <2>4. CASE s \notin Live
    <3>1. sState[s] \in {"None", "Gone"} /\ sState[s] \in SessionStates
      BY <2>4, <1>0 DEF Live
    <3>2. sState' = [sState EXCEPT ![s] = sState[s]]
      BY <2>1, <2>4, <1>0
    <3> QED BY <3>1, <3>2, <2>1, <2>2, <1>0, StateOfOne
  <2> QED BY <2>3, <2>4
<1>6. CASE MaintenanceTerminates(s)
  <2>1. /\ doomed' = [doomed EXCEPT !.terminate = @ \ {s}]
        /\ sState' = [sState EXCEPT ![s] = "Gone"]
        /\ UNCHANGED <<sAvailable, sTask, sPushing, sRemoving, poolClientVars,
                       poolProcessorVars, tainted, hidden, poolEvents>>
    BY <1>6 DEF MaintenanceTerminates, poolHistoryVars
  <2>2. doomed' \in [hibernate : SUBSET Sessions, terminate : SUBSET Sessions] /\ "Gone" \in SessionStates
    BY <2>1, <1>0 DEF SessionStates
  <2> QED BY <2>1, <2>2, <1>0, StateOfOne
<1> QED BY <1>1, <1>2, <1>3, <1>4, <1>5, <1>6

LEMMA LooksKeepPool ==
  ASSUME PoolIInv, MaintenanceLooks \/ \E s \in Sessions : ProcessorMatches(s)
  PROVE  PoolIInv'
<1>0. PoolTypes /\ TasksPlaced /\ IdleIsFindable /\ \A s \in Sessions \ tainted : Undivided(s)
  BY PoolIInvParts
<1>1. /\ UNCHANGED <<sState, sAvailable, sTask, sPushing, sRemoving, tPlace, tSession, requests,
                     served, tainted, hidden>>
      /\ poolEvents' \in 0..MaxPoolEvents
  BY <1>0, PoolConstants DEF MaintenanceLooks, ProcessorMatches, PoolEvent, PoolTypes, sessionVars,
     poolClientVars, poolProcessorVars, poolHistoryVars
<1>2. doomed' \in [hibernate : SUBSET Sessions, terminate : SUBSET Sessions]
  <2>1. CASE MaintenanceLooks
    <3>1. PICK h, d \in SUBSET Live : doomed' = [hibernate |-> h, terminate |-> d]
      BY <2>1 DEF MaintenanceLooks
    <3> QED BY <3>1, LiveFinite
  <2>2. CASE \E s \in Sessions : ProcessorMatches(s)
    BY <2>2, <1>0 DEF ProcessorMatches, PoolTypes
  <2> QED BY <2>1, <2>2
<1>3. match' \in Sessions \cup {Nobody} /\ (match' # Nobody => served # Nobody)
  <2>1. CASE MaintenanceLooks
    BY <2>1, <1>0 DEF MaintenanceLooks, PoolTypes, TasksPlaced, poolProcessorVars
  <2>2. CASE \E s \in Sessions : ProcessorMatches(s)
    BY <2>2 DEF ProcessorMatches
  <2> QED BY <2>1, <2>2
<1>4. PoolTypes'
  BY <1>0, <1>1, <1>2, <1>3 DEF PoolTypes
<1>5. PoolTypeOK'
  BY <1>1, <1>4, LiveShrinks DEF PoolIInv
<1>6. TasksPlaced'
  BY <1>0, <1>1, <1>3 DEF TasksPlaced
<1>7. \A s \in Sessions \ tainted' : Undivided(s)'
  BY <1>0, <1>1 DEF Undivided, HeldBy
<1>8. IdleIsFindable'
  BY <1>0, <1>1 DEF IdleIsFindable
<1> QED BY <1>5, <1>6, <1>7, <1>8 DEF PoolIInv

\* A task that holds nothing, and has not given up, goes where it holds nothing.
LEMMA UnheldTaskMoves ==
  ASSUME PoolTypes, NEW s \in Sessions, Undivided(s), NEW t \in PoolTasks, NEW place,
         tPlace[t] \notin {"holding", "gaveUp"}, place # "holding",
         tPlace' = [tPlace EXCEPT ![t] = place],
         \A u \in PoolTasks \ {t} : tSession'[u] = tSession[u],
         sState'[s] = sState[s], sTask'[s] = sTask[s]
  PROVE  Undivided(s)'
<1>1. tPlace'[t] = place /\ \A u \in PoolTasks \ {t} : tPlace'[u] = tPlace[u]
  BY DEF PoolTypes
<1>2. \A u \in PoolTasks : tPlace'[u] = "holding" /\ tSession'[u] = s => tPlace[u] = "holding" /\ tSession[u] = s
  BY <1>1
<1>3. sState[s] = "Busy" => sTask[s] \in PoolTasks \ {t}
  BY DEF Undivided, HeldBy
<1> QED BY <1>1, <1>2, <1>3 DEF Undivided, HeldBy

LEMMA FindMatchKeepsPool ==
  ASSUME PoolIInv, NEW t \in PoolTasks, NEW s \in Sessions, FindMatch(t, s)
  PROVE  PoolIInv'
<1>0. PoolTypes /\ TasksPlaced /\ IdleIsFindable /\ \A e \in Sessions \ tainted : Undivided(e)
  BY PoolIInvParts
<1>1. /\ tPlace[t] = "new" /\ tPlace' = [tPlace EXCEPT ![t] = "matched"]
      /\ tSession' = [tSession EXCEPT ![t] = s]
      /\ UNCHANGED <<sState, sAvailable, sTask, sPushing, sRemoving, requests, doomed, served,
                     match, tainted, hidden, poolEvents>>
  BY DEF FindMatch, sessionVars, poolProcessorVars, poolHistoryVars
<1>2. PoolTypes'
  <2>1. tPlace' \in [PoolTasks -> TaskPlaces] /\ tSession' \in [PoolTasks -> Sessions \cup {Nobody}]
    BY <1>0, <1>1 DEF PoolTypes, TaskPlaces
  <2> QED BY <2>1, <1>0, <1>1 DEF PoolTypes
<1>3. PoolTypeOK'
  BY <1>1, <1>2, LiveShrinks DEF PoolIInv
<1>4. /\ tPlace'[t] = "matched" /\ tSession'[t] = s
      /\ \A u \in PoolTasks \ {t} : tPlace'[u] = tPlace[u] /\ tSession'[u] = tSession[u]
  BY <1>0, <1>1 DEF PoolTypes
<1>5. TasksPlaced'
  <2>1. \A i \in DOMAIN requests : requests[i] \in PoolTasks
    BY <1>0 DEF PoolTypes
  <2>2. served # Nobody => served \in PoolTasks
    BY <1>0 DEF PoolTypes
  <2> QED BY <2>1, <2>2, <1>0, <1>1, <1>4 DEF TasksPlaced
<1>6. \A e \in Sessions \ tainted' : Undivided(e)'
  BY <1>0, <1>1, <1>4, UnheldTaskMoves
<1>7. IdleIsFindable'
  BY <1>0, <1>1 DEF IdleIsFindable
<1> QED BY <1>3, <1>5, <1>6, <1>7 DEF PoolIInv

LEMMA QueueRequestKeepsPool ==
  ASSUME PoolIInv, NEW t \in PoolTasks, QueueRequest(t)
  PROVE  PoolIInv'
<1>0. PoolTypes /\ TasksPlaced /\ IdleIsFindable /\ \A e \in Sessions \ tainted : Undivided(e)
  BY PoolIInvParts
<1>1. /\ tPlace[t] = "new" /\ tPlace' = [tPlace EXCEPT ![t] = "waiting"]
      /\ requests' = Append(requests, t)
      /\ UNCHANGED <<sState, sAvailable, sTask, sPushing, sRemoving, tSession, doomed, served,
                     match, tainted, hidden, poolEvents>>
  BY DEF QueueRequest, sessionVars, poolProcessorVars, poolHistoryVars
<1>1a. requests \in Seq(PoolTasks) /\ served \in PoolTasks \cup {Nobody}
  BY <1>0 DEF PoolTypes
<1>2. PoolTypes'
  <2>1. tPlace' \in [PoolTasks -> TaskPlaces] /\ requests' \in Seq(PoolTasks)
    BY <1>0, <1>1 DEF PoolTypes, TaskPlaces
  <2> QED BY <2>1, <1>0, <1>1 DEF PoolTypes
<1>3. PoolTypeOK'
  BY <1>1, <1>2, LiveShrinks DEF PoolIInv
<1>4. tPlace'[t] = "waiting" /\ \A u \in PoolTasks \ {t} : tPlace'[u] = tPlace[u]
  BY <1>0, <1>1 DEF PoolTypes
<1>5. TasksPlaced'
  <2>1. \A i \in DOMAIN requests : requests[i] \in PoolTasks \ {t}
    BY <1>0, <1>1, <1>1a DEF TasksPlaced
  <2>2. served # Nobody => served \in PoolTasks \ {t}
    BY <1>0, <1>1, <1>1a DEF TasksPlaced
  <2>3. t # Nobody
    BY PoolConstants
  <2>4. /\ DOMAIN requests' = DOMAIN requests \cup {Len(requests) + 1}
        /\ Len(requests) + 1 \notin DOMAIN requests
        /\ \A i \in DOMAIN requests : requests'[i] = requests[i]
        /\ requests'[Len(requests) + 1] = t
    BY <1>1, <1>1a
  <2>5. \A i \in DOMAIN requests' :
           /\ tPlace'[requests'[i]] \in {"waiting", "gaveUp"} /\ requests'[i] # served'
           /\ \A j \in DOMAIN requests' : requests'[i] = requests'[j] => i = j
    BY <2>1, <2>2, <2>3, <2>4, <1>0, <1>1, <1>4 DEF TasksPlaced
  <2>6. \A u \in PoolTasks : tPlace'[u] \in {"matched", "holding"} => tSession'[u] \in Sessions
    BY <1>0, <1>1, <1>4 DEF TasksPlaced
  <2>7. (served' # Nobody => tPlace'[served'] \in {"waiting", "gaveUp"}) /\ (match' # Nobody => served' # Nobody)
    BY <2>2, <1>0, <1>1, <1>4 DEF TasksPlaced
  <2> QED BY <2>5, <2>6, <2>7 DEF TasksPlaced
<1>6. \A e \in Sessions \ tainted' : Undivided(e)'
  BY <1>0, <1>1, UnheldTaskMoves
<1>7. IdleIsFindable'
  BY <1>0, <1>1 DEF IdleIsFindable
<1> QED BY <1>3, <1>5, <1>6, <1>7 DEF PoolIInv

LEMMA TimeoutKeepsPool ==
  ASSUME PoolIInv, NEW t \in PoolTasks, RequestTimesOut(t)
  PROVE  PoolIInv'
<1>0. PoolTypes /\ TasksPlaced /\ IdleIsFindable /\ \A e \in Sessions \ tainted : Undivided(e)
  BY PoolIInvParts
<1>1. /\ tPlace[t] = "waiting" /\ tPlace' = [tPlace EXCEPT ![t] = "gaveUp"]
      /\ UNCHANGED <<sState, sAvailable, sTask, sPushing, sRemoving, tSession, requests, doomed,
                     served, match, tainted, hidden, poolEvents>>
  BY DEF RequestTimesOut, sessionVars, poolProcessorVars, poolHistoryVars
<1>2. PoolTypes'
  <2>1. tPlace' \in [PoolTasks -> TaskPlaces]
    BY <1>0, <1>1 DEF PoolTypes, TaskPlaces
  <2> QED BY <2>1, <1>0, <1>1 DEF PoolTypes
<1>3. PoolTypeOK'
  BY <1>1, <1>2, LiveShrinks DEF PoolIInv
<1>4. tPlace'[t] = "gaveUp" /\ \A u \in PoolTasks \ {t} : tPlace'[u] = tPlace[u]
  BY <1>0, <1>1 DEF PoolTypes
<1>5. TasksPlaced'
  <2>1. \A i \in DOMAIN requests : requests[i] \in PoolTasks
    BY <1>0 DEF PoolTypes
  <2>2. served # Nobody => served \in PoolTasks
    BY <1>0 DEF PoolTypes
  <2> QED BY <2>1, <2>2, <1>0, <1>1, <1>4 DEF TasksPlaced
<1>6. \A e \in Sessions \ tainted' : Undivided(e)'
  BY <1>0, <1>1, UnheldTaskMoves
<1>7. IdleIsFindable'
  BY <1>0, <1>1 DEF IdleIsFindable
<1> QED BY <1>3, <1>5, <1>6, <1>7 DEF PoolIInv

LEMMA ProcessorQueueKeepsPool ==
  ASSUME PoolIInv, ProcessorTakes \/ ProcessorRequeues
  PROVE  PoolIInv'
<1>0. PoolTypes /\ TasksPlaced /\ IdleIsFindable /\ \A e \in Sessions \ tainted : Undivided(e)
  BY PoolIInvParts
<1>1. UNCHANGED <<sState, sAvailable, sTask, sPushing, sRemoving, tPlace, tSession, doomed,
                  match, tainted, hidden, poolEvents>>
  BY DEF ProcessorTakes, ProcessorRequeues, sessionVars, poolHistoryVars
<1>2. requests \in Seq(PoolTasks) /\ served \in PoolTasks \cup {Nobody} /\ Nobody \notin PoolTasks
  BY <1>0, PoolConstants DEF PoolTypes
<1>3. /\ requests' \in Seq(PoolTasks) /\ served' \in PoolTasks \cup {Nobody}
      /\ \A i \in DOMAIN requests' :
            /\ tPlace[requests'[i]] \in {"waiting", "gaveUp"} /\ requests'[i] # served'
            /\ \A j \in DOMAIN requests' : requests'[i] = requests'[j] => i = j
      /\ served' # Nobody => tPlace[served'] \in {"waiting", "gaveUp"}
      /\ match # Nobody => served' # Nobody
  <2>1. CASE ProcessorTakes
    <3>1. served = Nobody /\ requests # <<>> /\ served' = Head(requests) /\ requests' = Tail(requests)
      BY <2>1 DEF ProcessorTakes
    <3>2. /\ Len(requests) \in Nat /\ 1 \in DOMAIN requests /\ served' = requests[1]
          /\ requests' \in Seq(PoolTasks) /\ DOMAIN requests' = 1..(Len(requests) - 1)
          /\ \A i \in 1..(Len(requests) - 1) :
                requests'[i] = requests[i + 1] /\ i + 1 \in DOMAIN requests /\ i + 1 # 1
      BY <3>1, <1>2
    <3>3. \A i \in DOMAIN requests' :
            /\ tPlace[requests'[i]] \in {"waiting", "gaveUp"} /\ requests'[i] # served'
      BY <3>2, <1>0 DEF TasksPlaced
    <3>4. ASSUME NEW i \in DOMAIN requests', NEW j \in DOMAIN requests', requests'[i] = requests'[j]
          PROVE  i = j
      <4>1. i + 1 = j + 1
        BY <3>2, <3>4, <1>0 DEF TasksPlaced
      <4>2. i \in Nat /\ j \in Nat
        BY <3>2
      <4> QED BY <4>1, <4>2
    <3>5. served' \in PoolTasks /\ tPlace[served'] \in {"waiting", "gaveUp"}
      BY <3>2, <1>0, <1>2 DEF TasksPlaced
    <3> QED BY <3>2, <3>3, <3>4, <3>5, <1>2
  <2>2. CASE ProcessorRequeues
    <3>1. served # Nobody /\ match = Nobody /\ served' = Nobody /\ requests' = Append(requests, served)
      BY <2>2 DEF ProcessorRequeues
    <3>2. /\ served \in PoolTasks /\ requests' \in Seq(PoolTasks)
          /\ DOMAIN requests' = DOMAIN requests \cup {Len(requests) + 1}
          /\ Len(requests) + 1 \notin DOMAIN requests
          /\ \A i \in DOMAIN requests : requests'[i] = requests[i]
          /\ requests'[Len(requests) + 1] = served
      BY <3>1, <1>2
    <3>3. \A i \in DOMAIN requests' : requests'[i] \in PoolTasks
      BY <3>2
    <3> QED BY <3>1, <3>2, <3>3, <1>0, <1>2 DEF TasksPlaced
  <2> QED BY <2>1, <2>2
<1>4. PoolTypes'
  BY <1>0, <1>1, <1>3 DEF PoolTypes
<1>5. PoolTypeOK'
  BY <1>1, <1>4, LiveShrinks DEF PoolIInv
<1>6. TasksPlaced'
  BY <1>0, <1>1, <1>3 DEF TasksPlaced
<1>7. \A s \in Sessions \ tainted' : Undivided(s)'
  BY <1>0, <1>1 DEF Undivided, HeldBy
<1>8. IdleIsFindable'
  BY <1>0, <1>1 DEF IdleIsFindable
<1> QED BY <1>5, <1>6, <1>7, <1>8 DEF PoolIInv

LEMMA ReleaseKeepsPool ==
  ASSUME PoolIInv, NEW t \in PoolTasks, ReleaseSession(t)
  PROVE  PoolIInv'
<1>0. PoolTypes /\ TasksPlaced /\ IdleIsFindable /\ \A e \in Sessions \ tainted : Undivided(e)
  BY PoolIInvParts
<1>1. PICK s \in Sessions : s = tSession[t]
  BY <1>0 DEF ReleaseSession, TasksPlaced
<1>2. /\ tPlace[t] = "holding"
      /\ sState' = IF s \in Live THEN [sState EXCEPT ![s] = "Idle"] ELSE sState
      /\ sTask' = IF s \in Live THEN [sTask EXCEPT ![s] = Nobody] ELSE sTask
      /\ sAvailable' = sAvailable \cup {s}
      /\ tPlace' = [tPlace EXCEPT ![t] = "released"]
      /\ tSession' = [tSession EXCEPT ![t] = Nobody]
      /\ UNCHANGED <<sPushing, sRemoving, requests, doomed, served, match, tainted, hidden,
                     poolEvents>>
  BY <1>1 DEF ReleaseSession, poolProcessorVars, poolHistoryVars
<1>3. /\ sState \in [Sessions -> SessionStates] /\ sTask \in [Sessions -> PoolTasks \cup {Nobody}]
      /\ tPlace \in [PoolTasks -> TaskPlaces] /\ tSession \in [PoolTasks -> Sessions \cup {Nobody}]
  BY <1>0 DEF PoolTypes
<1>4. /\ tPlace'[t] = "released" /\ tSession'[t] = Nobody
      /\ \A u \in PoolTasks \ {t} : tPlace'[u] = tPlace[u] /\ tSession'[u] = tSession[u]
      /\ \A e \in Sessions \ {s} : sState'[e] = sState[e] /\ sTask'[e] = sTask[e]
      /\ s \in Live => sState'[s] = "Idle"
      /\ s \notin Live => sState'[s] = sState[s] /\ sState[s] \in {"None", "Gone"}
  BY <1>2, <1>3 DEF Live
<1>5. PoolTypes'
  <2>1. /\ sState' \in [Sessions -> SessionStates] /\ sTask' \in [Sessions -> PoolTasks \cup {Nobody}]
        /\ tPlace' \in [PoolTasks -> TaskPlaces] /\ tSession' \in [PoolTasks -> Sessions \cup {Nobody}]
    BY <1>2, <1>3 DEF SessionStates, TaskPlaces
  <2> QED BY <2>1, <1>0, <1>2 DEF PoolTypes
<1>6. PoolTypeOK'
  <2>1. \A e \in Sessions : sState'[e] \notin {"None", "Gone"} => sState[e] \notin {"None", "Gone"}
    BY <1>4 DEF Live
  <2> QED BY <2>1, <1>5, LiveShrinks DEF PoolIInv
<1>7. TasksPlaced'
  <2>1. \A i \in DOMAIN requests : requests[i] \in PoolTasks \ {t}
    BY <1>0, <1>2 DEF PoolTypes, TasksPlaced
  <2>2. served # Nobody => served \in PoolTasks \ {t}
    BY <1>0, <1>2 DEF PoolTypes, TasksPlaced
  <2> QED BY <2>1, <2>2, <1>0, <1>2, <1>4 DEF TasksPlaced
<1>8. ASSUME NEW e \in Sessions \ tainted' PROVE Undivided(e)'
  <2>0. Undivided(e) /\ s # Nobody
    BY <1>0, <1>2, PoolConstants
  <2>1. \A u \in PoolTasks : tPlace'[u] = "holding" /\ tSession'[u] = e
           => tPlace[u] = "holding" /\ tSession[u] = e /\ u # t
    BY <1>4
  <2>2. CASE e = s
    <3>1. \A u \in PoolTasks : ~(tPlace'[u] = "holding" /\ tSession'[u] = e)
      BY <2>0, <2>1, <2>2, <1>1, <1>2 DEF Undivided, HeldBy
    <3>2. sState'[e] # "Busy"
      BY <2>2, <1>4
    <3> QED BY <3>1, <3>2 DEF Undivided, HeldBy
  <2>3. CASE e # s
    <3>1. sState'[e] = sState[e] /\ sTask'[e] = sTask[e]
      BY <2>3, <1>4
    <3>2. sState[e] = "Busy" => sTask[e] \in PoolTasks \ {t}
      BY <2>0, <2>3, <1>1, <1>2 DEF Undivided, HeldBy
    <3> QED BY <2>0, <2>1, <3>1, <3>2, <1>4 DEF Undivided, HeldBy
  <2> QED BY <2>2, <2>3
<1>9. IdleIsFindable'
  BY <1>0, <1>2, <1>4 DEF IdleIsFindable
<1> QED BY <1>6, <1>7, <1>8, <1>9 DEF PoolIInv

\* A session is given to a task that was to have one, or to one that has
\* given up, and then nobody holds it.
LEMMA AssignKeepsPool ==
  ASSUME PoolIInv, NEW s \in Sessions, NEW t \in PoolTasks, AssignTo(s, t),
         \/ /\ tPlace[t] \in {"matched", "waiting"}
            /\ tPlace' = [tPlace EXCEPT ![t] = "holding"]
            /\ tSession' = [tSession EXCEPT ![t] = s]
         \/ tPlace[t] = "gaveUp" /\ tPlace' = tPlace /\ tSession' = tSession
  PROVE  /\ sState' \in [Sessions -> SessionStates]
         /\ sTask' \in [Sessions -> PoolTasks \cup {Nobody}]
         /\ sAvailable' \subseteq Sessions /\ tainted' \subseteq Sessions
         /\ tPlace' \in [PoolTasks -> TaskPlaces]
         /\ tSession' \in [PoolTasks -> Sessions \cup {Nobody}]
         /\ \A e \in Sessions : sState'[e] \notin {"None", "Gone"} => sState[e] \notin {"None", "Gone"}
         /\ \A e \in Sessions \ tainted' : Undivided(e)'
         /\ sPushing' = sPushing /\ hidden' = hidden => IdleIsFindable'
<1>0. PoolTypes /\ TasksPlaced /\ IdleIsFindable /\ \A e \in Sessions \ tainted : Undivided(e)
  BY PoolIInvParts
<1>1. /\ sState \in [Sessions -> SessionStates] /\ sTask \in [Sessions -> PoolTasks \cup {Nobody}]
      /\ tPlace \in [PoolTasks -> TaskPlaces] /\ tSession \in [PoolTasks -> Sessions \cup {Nobody}]
      /\ sAvailable \subseteq Sessions /\ tainted \subseteq Sessions
  BY <1>0 DEF PoolTypes
<1>2. /\ sState' = IF s \in Live THEN [sState EXCEPT ![s] = "Busy"] ELSE sState
      /\ sTask' = IF s \in Live THEN [sTask EXCEPT ![s] = t] ELSE sTask
      /\ sAvailable' = sAvailable \ {s}
      /\ tainted' = IF sState[s] # "Idle" THEN tainted \cup {s} ELSE tainted
  BY DEF AssignTo
<1>3. /\ \A e \in Sessions \ {s} : sState'[e] = sState[e] /\ sTask'[e] = sTask[e]
      /\ s \in Live => sState'[s] = "Busy" /\ sTask'[s] = t
      /\ s \notin Live => sState'[s] = sState[s] /\ sState[s] \in {"None", "Gone"}
  BY <1>1, <1>2 DEF Live
<1>4. /\ \A u \in PoolTasks \ {t} : tPlace'[u] = tPlace[u] /\ tSession'[u] = tSession[u]
      /\ tPlace[t] # "holding"
      /\ \/ tPlace'[t] = "holding" /\ tSession'[t] = s /\ tPlace[t] # "gaveUp"
         \/ tPlace'[t] = "gaveUp" /\ tPlace[t] = "gaveUp"
  BY <1>1
<1>5. /\ sState' \in [Sessions -> SessionStates] /\ sTask' \in [Sessions -> PoolTasks \cup {Nobody}]
      /\ sAvailable' \subseteq Sessions /\ tainted' \subseteq Sessions
  BY <1>1, <1>2 DEF SessionStates
<1>6. tPlace' \in [PoolTasks -> TaskPlaces] /\ tSession' \in [PoolTasks -> Sessions \cup {Nobody}]
  BY <1>1 DEF TaskPlaces
<1>7. \A e \in Sessions : sState'[e] \notin {"None", "Gone"} => sState[e] \notin {"None", "Gone"}
  BY <1>3 DEF Live
<1>8. ASSUME NEW e \in Sessions \ tainted' PROVE Undivided(e)'
  <2>0. Undivided(e)
    BY <1>0, <1>2
  <2>1. CASE e = s
    <3>1. sState[s] = "Idle" /\ s \in Live
      BY <2>1, <1>2, <1>8 DEF Live
    <3>2. \A u \in PoolTasks : ~(tPlace[u] = "holding" /\ tSession[u] = s)
      BY <3>1, <2>0, <2>1 DEF Undivided, HeldBy
    <3>3. \A u \in PoolTasks : tPlace'[u] = "holding" /\ tSession'[u] = s => u = t
      BY <3>2, <1>4
    <3>4. sState'[s] = "Busy" /\ sTask'[s] = t
      BY <3>1, <1>3
    <3> QED BY <2>1, <3>3, <3>4, <1>4 DEF Undivided, HeldBy
  <2>2. CASE e # s
    <3>1. \A u \in PoolTasks : tPlace'[u] = "holding" /\ tSession'[u] = e
             => tPlace[u] = "holding" /\ tSession[u] = e
      BY <2>2, <1>4
    <3>2. sState'[e] = sState[e] /\ sTask'[e] = sTask[e]
      BY <2>2, <1>3
    <3>3. sState[e] = "Busy" =>
            /\ sTask[e] \in PoolTasks
            /\ \/ tPlace'[sTask[e]] = "holding" /\ tSession'[sTask[e]] = e
               \/ tPlace'[sTask[e]] = "gaveUp"
      BY <2>0, <1>4 DEF Undivided, HeldBy
    <3> QED BY <2>0, <3>1, <3>2, <3>3 DEF Undivided, HeldBy
  <2> QED BY <2>1, <2>2
<1>9. sPushing' = sPushing /\ hidden' = hidden => IdleIsFindable'
  BY <1>0, <1>2, <1>3 DEF IdleIsFindable
<1> QED BY <1>5, <1>6, <1>7, <1>8, <1>9

LEMMA AssignSessionKeepsPool ==
  ASSUME PoolIInv, NEW t \in PoolTasks, AssignSession(t)
  PROVE  PoolIInv'
<1>0. PoolTypes /\ TasksPlaced
  BY PoolIInvParts
<1>1. PICK s \in Sessions : s = tSession[t]
  BY <1>0 DEF AssignSession, TasksPlaced
<1>2. /\ tPlace[t] = "matched" /\ AssignTo(s, t)
      /\ tPlace' = [tPlace EXCEPT ![t] = "holding"] /\ tSession' = tSession
      /\ UNCHANGED <<sPushing, sRemoving, requests, doomed, hidden, served, match, poolEvents>>
  BY <1>1 DEF AssignSession, poolProcessorVars
<1>3. tSession' = [tSession EXCEPT ![t] = s]
  BY <1>0, <1>1, <1>2 DEF PoolTypes
<1>4. /\ sState' \in [Sessions -> SessionStates]
      /\ sTask' \in [Sessions -> PoolTasks \cup {Nobody}]
      /\ sAvailable' \subseteq Sessions /\ tainted' \subseteq Sessions
      /\ tPlace' \in [PoolTasks -> TaskPlaces]
      /\ tSession' \in [PoolTasks -> Sessions \cup {Nobody}]
      /\ \A e \in Sessions : sState'[e] \notin {"None", "Gone"} => sState[e] \notin {"None", "Gone"}
      /\ \A e \in Sessions \ tainted' : Undivided(e)'
      /\ IdleIsFindable'
  BY <1>2, <1>3, AssignKeepsPool
<1>5. PoolTypes'
  BY <1>0, <1>2, <1>4 DEF PoolTypes
<1>6. PoolTypeOK'
  BY <1>4, <1>5, LiveShrinks DEF PoolIInv
<1>7. TasksPlaced'
  <2>1. tPlace'[t] = "holding" /\ \A u \in PoolTasks \ {t} : tPlace'[u] = tPlace[u]
    BY <1>0, <1>2 DEF PoolTypes
  <2>2. \A i \in DOMAIN requests : requests[i] \in PoolTasks \ {t}
    BY <1>0, <1>2 DEF PoolTypes, TasksPlaced
  <2>3. served # Nobody => served \in PoolTasks \ {t}
    BY <1>0, <1>2 DEF PoolTypes, TasksPlaced
  <2> QED BY <2>1, <2>2, <2>3, <1>0, <1>1, <1>2 DEF TasksPlaced
<1> QED BY <1>4, <1>6, <1>7 DEF PoolIInv

LEMMA ProcessorAssignsKeepsPool ==
  ASSUME PoolIInv, ProcessorAssigns
  PROVE  PoolIInv'
<1>0. PoolTypes /\ TasksPlaced
  BY PoolIInvParts
<1>1. PICK s \in Sessions, t \in PoolTasks : s = match /\ t = served
  BY <1>0 DEF ProcessorAssigns, PoolTypes, TasksPlaced
<1>2. /\ AssignTo(s, t)
      /\ IF tPlace[t] = "waiting"
         THEN /\ tPlace' = [tPlace EXCEPT ![t] = "holding"]
              /\ tSession' = [tSession EXCEPT ![t] = s]
         ELSE UNCHANGED <<tPlace, tSession>>
      /\ served' = Nobody /\ match' = Nobody
      /\ UNCHANGED <<sPushing, sRemoving, requests, doomed, hidden, poolEvents>>
  BY <1>1 DEF ProcessorAssigns
<1>3. tPlace[t] \in {"waiting", "gaveUp"}
  BY <1>0, <1>1, PoolConstants DEF TasksPlaced
<1>4. /\ sState' \in [Sessions -> SessionStates]
      /\ sTask' \in [Sessions -> PoolTasks \cup {Nobody}]
      /\ sAvailable' \subseteq Sessions /\ tainted' \subseteq Sessions
      /\ tPlace' \in [PoolTasks -> TaskPlaces]
      /\ tSession' \in [PoolTasks -> Sessions \cup {Nobody}]
      /\ \A e \in Sessions : sState'[e] \notin {"None", "Gone"} => sState[e] \notin {"None", "Gone"}
      /\ \A e \in Sessions \ tainted' : Undivided(e)'
      /\ IdleIsFindable'
  BY <1>2, <1>3, AssignKeepsPool
<1>5. PoolTypes'
  BY <1>0, <1>2, <1>4 DEF PoolTypes
<1>6. PoolTypeOK'
  BY <1>4, <1>5, LiveShrinks DEF PoolIInv
<1>7. TasksPlaced'
  <2>1. /\ \A u \in PoolTasks \ {t} : tPlace'[u] = tPlace[u] /\ tSession'[u] = tSession[u]
        /\ tPlace'[t] \in {"matched", "holding"} => tSession'[t] = s
    BY <1>0, <1>2, <1>3 DEF PoolTypes
  <2>2. \A i \in DOMAIN requests : requests[i] \in PoolTasks \ {t}
    BY <1>0, <1>1 DEF PoolTypes, TasksPlaced
  <2>3. \A i \in DOMAIN requests : requests[i] # Nobody
    BY <2>2, PoolConstants
  <2> QED BY <2>1, <2>2, <2>3, <1>0, <1>2 DEF TasksPlaced
<1> QED BY <1>4, <1>6, <1>7 DEF PoolIInv

LEMMA PoolStarts == PoolInit => PoolIInv
<1> SUFFICES ASSUME PoolInit PROVE PoolIInv
  OBVIOUS
<1>1. PICK warm \in SUBSET Sessions :
        /\ Cardinality(warm) = MinPoolSize
        /\ sState = [s \in Sessions |-> IF s \in warm THEN "Idle" ELSE "None"]
        /\ sAvailable = warm
  BY DEF PoolInit
<1>2. PoolTypes
  <2>1. sState \in [Sessions -> SessionStates]
    BY <1>1 DEF SessionStates
  <2>2. tPlace \in [PoolTasks -> TaskPlaces] /\ tSession \in [PoolTasks -> Sessions \cup {Nobody}]
    BY DEF PoolInit, TaskPlaces
  <2>3. requests \in Seq(PoolTasks) /\ poolEvents \in 0..MaxPoolEvents
    BY PoolConstants DEF PoolInit
  <2> QED BY <2>1, <2>2, <2>3, <1>1 DEF PoolInit, PoolTypes
<1>3. Live = warm
  BY <1>1 DEF Live
<1>4. PoolTypeOK
  BY <1>1, <1>2, <1>3, PoolConstants, PoolTypeParts
<1>5. \A t \in PoolTasks : tPlace[t] = "new"
  BY DEF PoolInit
<1>6. TasksPlaced
  BY <1>5 DEF PoolInit, TasksPlaced
<1>7. \A s \in Sessions : Undivided(s)
  BY <1>1, <1>5 DEF Undivided, HeldBy
<1>8. IdleIsFindable
  BY <1>1 DEF IdleIsFindable
<1> QED BY <1>4, <1>6, <1>7, <1>8 DEF PoolIInv

LEMMA PoolStep == PoolIInv /\ [PoolNext]_poolVars => PoolIInv'
<1> SUFFICES ASSUME PoolIInv, [PoolNext]_poolVars PROVE PoolIInv'
  OBVIOUS
<1>1. ASSUME NEW s \in Sessions,
             \/ CreateSession(s) \/ PushAvailable(s)
             \/ HibernateSession(s) \/ RemoveAvailable(s) \/ WakeSession(s)
             \/ TerminateSession(s) \/ MarkUnhealthy(s)
             \/ MaintenanceHibernates(s) \/ MaintenanceTerminates(s)
             \/ ProcessorMatches(s)
      PROVE  PoolIInv'
  BY <1>1, CreateKeepsPool, QueueingKeepsPool, StateStepsKeepPool, LooksKeepPool
<1>2. ASSUME NEW t \in PoolTasks,
             \/ AssignSession(t) \/ QueueRequest(t) \/ RequestTimesOut(t) \/ ReleaseSession(t)
             \/ \E s \in Sessions : FindMatch(t, s)
      PROVE  PoolIInv'
  BY <1>2, AssignSessionKeepsPool, QueueRequestKeepsPool, TimeoutKeepsPool, ReleaseKeepsPool,
     FindMatchKeepsPool
<1>3. CASE MaintenanceLooks \/ ProcessorTakes \/ ProcessorRequeues \/ ProcessorAssigns
  BY <1>3, LooksKeepPool, ProcessorQueueKeepsPool, ProcessorAssignsKeepsPool
<1>4. CASE UNCHANGED poolVars
  <2>1. /\ UNCHANGED <<sState, sAvailable, sTask, sPushing, sRemoving, tPlace, tSession, requests,
                       served, match, doomed, tainted, hidden, poolEvents>>
    BY <1>4 DEF poolVars
  <2>2. PoolTypes /\ TasksPlaced /\ IdleIsFindable /\ \A e \in Sessions \ tainted : Undivided(e)
    BY PoolIInvParts
  <2>3. PoolTypes' /\ TasksPlaced' /\ IdleIsFindable'
    BY <2>1, <2>2 DEF PoolTypes, TasksPlaced, IdleIsFindable
  <2>4. PoolTypeOK'
    BY <2>1, <2>3, LiveShrinks DEF PoolIInv
  <2>5. \A e \in Sessions \ tainted' : Undivided(e)'
    BY <2>1, <2>2 DEF Undivided, HeldBy
  <2> QED BY <2>3, <2>4, <2>5 DEF PoolIInv
<1> QED BY <1>1, <1>2, <1>3, <1>4 DEF PoolNext

LEMMA PoolInvariance == PoolSpec => []PoolIInv
<1>1. PoolInit => PoolIInv
  BY PoolStarts
<1>2. PoolIInv /\ [PoolNext]_poolVars => PoolIInv'
  BY PoolStep
<1> QED BY <1>1, <1>2, PTL DEF PoolSpec

\* Every variable of the pool has its type, and there are never more than
\* MaxPoolSize sessions: create_session makes room or fails, and nothing else
\* brings a session back (session_pool.rs:655-686).
THEOREM PoolTyping == PoolSpec => []PoolTypeOK
<1>1. PoolIInv => PoolTypeOK
  BY DEF PoolIInv
<1> QED BY <1>1, PoolInvariance, PTL

\* No session is shared but after a late look, busy without a task but for
\* one that stopped waiting, or idle where nobody finds it but after a late
\* hibernation: for any pool, any tasks and any number of events.
THEOREM SessionsAreAccountedFor == PoolSpec => []SessionsAccounted
<1>1. PoolIInv => SessionsAccounted
  <2> SUFFICES ASSUME PoolIInv PROVE SessionsAccounted
    OBVIOUS
  <2>1. SharedOnlyThroughStaleLooks
    <3> SUFFICES ASSUME NEW s \in Sessions, Cardinality(Holders(s)) > 1, s \notin tainted
                 PROVE  FALSE
      BY DEF SharedOnlyThroughStaleLooks
    <3>1. \A t, u \in Holders(s) : t = u
      BY DEF PoolIInv, Undivided, HeldBy, Holders
    <3>2. PICK H : H = Holders(s)
      OBVIOUS
    <3>3. CASE H = {}
      BY <3>2, <3>3, FS_EmptySet
    <3>4. CASE H # {}
      <4>1. PICK t \in H : TRUE
        BY <3>4
      <4>2. H = {t}
        BY <3>1, <3>2, <4>1
      <4>3. Cardinality({t}) = 1
        BY FS_Singleton
      <4> QED BY <3>2, <4>2, <4>3
    <3> QED BY <3>3, <3>4
  <2>2. BusyHasItsTask
    BY DEF BusyHasItsTask, PoolIInv, Undivided, HeldBy
  <2> QED BY <2>1, <2>2 DEF SessionsAccounted, PoolIInv
<1> QED BY <1>1, PoolInvariance, PTL

(***************************************************************************)
(* The plans of an agent                                                   *)
(***************************************************************************)
\* A call works on a plan that was made, and has a status for every step of
\* what it executes; when it reports success none of them is left.
CallFits(c) ==
  pCall[c] # NoPlanCall =>
    /\ planOf[pCall[c].id] # NoPlan
    /\ DOMAIN pCall[c].status = DOMAIN PlanOf(c).steps
    /\ pCall[c].stage = "returned" /\ pCall[c].success =>
          /\ At(c, "waiting") = {} /\ At(c, "running") = {}
          /\ At(c, "failed") # {} => Mode(planOf[pCall[c].id]) = "sequential" /\ PlanOf(c).goOn

\* A plan on the map that nobody kept, and that did not time out, is there
\* for a call that will take it off; and the plan of a call is on the map, or
\* was taken off.
PlansHeld ==
  /\ \A i \in active \ (kept \cup timedOut) :
        \E c \in PlanCallers :
          pCall[c] # NoPlanCall /\ pCall[c].id = i /\ pCall[c].kind # "execution"
  /\ \A c \in PlanCallers : pCall[c] # NoPlanCall => pCall[c].id \in active \cup takenOff

PlansIInv ==
  /\ PlansTypeOK
  /\ \A c \in PlanCallers : CallFits(c)
  /\ PlansHeld

LEMMA PlansConstants ==
  /\ StepCap \in Nat /\ StepCap >= 1
  /\ ChainSizes \subseteq Nat \ {0} /\ HybridSizes \subseteq Nat \ {0}
  /\ CustomPlans \subseteq PlanShapes \ {NoPlan}
BY PlansAssumption

LEMMA ShapeParts ==
  ASSUME NEW p \in PlanShapes
  PROVE  /\ p.steps \in Seq(Nat) /\ p.deps \in Seq(SUBSET Nat) /\ p.parallel \in BOOLEAN
         /\ p.permits \in Nat /\ p.goOn \in BOOLEAN
BY DEF PlanShapes

LEMMA IndependentType == ASSUME NEW n \in Nat PROVE Independent(n) \in Seq(SUBSET Nat)
BY DEF Independent

LEMMA ChainShape ==
  ASSUME NEW n \in Nat
  PROVE  Chain(n) \in PlanShapes /\ Chain(n).permits = 3 /\ Len(Chain(n).steps) = n
<1>1. [i \in 1..n |-> i] \in Seq(Nat) /\ Len([i \in 1..n |-> i]) = n
  <2>1. \A i \in 1..n : i \in Nat
    OBVIOUS
  <2> QED BY <2>1
<1>2. [i \in 1..n |-> IF i = 1 THEN {} ELSE {i - 1}] \in Seq(SUBSET Nat)
  <2>1. \A i \in 1..n : (IF i = 1 THEN {} ELSE {i - 1}) \in SUBSET Nat
    OBVIOUS
  <2> QED BY <2>1
<1>3. PICK s \in Seq(Nat), d \in Seq(SUBSET Nat) :
        s = [i \in 1..n |-> i] /\ d = [i \in 1..n |-> IF i = 1 THEN {} ELSE {i - 1}]
  BY <1>1, <1>2
<1>4. Chain(n) = [steps |-> s, deps |-> d, parallel |-> FALSE, permits |-> 3, goOn |-> FALSE]
  BY <1>3 DEF Chain
<1>5. [steps |-> s, deps |-> d, parallel |-> FALSE, permits |-> 3, goOn |-> FALSE] \in PlanShapes
  BY DEF PlanShapes
<1> QED BY <1>1, <1>3, <1>4, <1>5

LEMMA RebuiltShape ==
  ASSUME NEW p \in PlanShapes, Len(p.steps) >= 1
  PROVE  /\ Rebuilt(p) \in PlanShapes
         /\ Rebuilt(p).steps = p.steps \o Tail(p.steps)
         /\ Rebuilt(p).goOn = p.goOn
<1>1. p.steps \in Seq(Nat) /\ Len(p.steps) \in Nat
  BY ShapeParts
<1>2. PICK n \in Nat : n = Len(p.steps)
  BY <1>1
<1>3. p.steps \o Tail(p.steps) \in Seq(Nat)
  <2>1. p.steps # <<>>
    BY <1>1
  <2>2. Tail(p.steps) \in Seq(Nat)
    BY <1>1, <2>1
  <2> QED BY <1>1, <2>2
<1>4. Independent(n) \o [j \in 1..(n - 1) |-> {j}] \in Seq(SUBSET Nat)
  <2>1. n - 1 \in Nat
    BY <1>2
  <2>2. \A j \in 1..(n - 1) : {j} \in SUBSET Nat
    BY <2>1
  <2>3. [j \in 1..(n - 1) |-> {j}] \in Seq(SUBSET Nat)
    BY <2>1, <2>2
  <2> QED BY <2>3, IndependentType
<1>5. PICK s \in Seq(Nat), d \in Seq(SUBSET Nat) :
        s = p.steps \o Tail(p.steps) /\ d = Independent(n) \o [j \in 1..(n - 1) |-> {j}]
  BY <1>3, <1>4
<1>6. Rebuilt(p) = [p EXCEPT !.steps = s, !.deps = d]
  BY <1>2, <1>5 DEF Rebuilt
<1>7. [p EXCEPT !.steps = s, !.deps = d] \in PlanShapes
      /\ [p EXCEPT !.steps = s, !.deps = d].steps = s
      /\ [p EXCEPT !.steps = s, !.deps = d].goOn = p.goOn
  BY DEF PlanShapes
<1> QED BY <1>5, <1>6, <1>7

LEMMA HybridShape ==
  ASSUME NEW n \in Nat \ {0}
  PROVE  Hybrid(n) \in PlanShapes /\ Hybrid(n).permits = 5
<1>1. Chain(n) \in PlanShapes /\ Len(Chain(n).steps) >= 1
  BY ChainShape
<1>2. PICK p \in PlanShapes : p = Rebuilt(Chain(n))
  BY <1>1, RebuiltShape
<1>3. [p EXCEPT !.parallel = TRUE, !.permits = 5] \in PlanShapes
      /\ [p EXCEPT !.parallel = TRUE, !.permits = 5].permits = 5
  BY DEF PlanShapes
<1> QED BY <1>2, <1>3 DEF Hybrid

LEMMA PlansMade ==
  ASSUME NEW p \in Planned \cup CustomPlans
  PROVE  p \in PlanShapes /\ p # NoPlan
<1>0. NoPlan.permits = 0
  BY DEF NoPlan
<1>1. CASE \E n \in ChainSizes : p = Chain(n)
  BY <1>0, <1>1, PlansConstants, ChainShape
<1>2. CASE \E n \in HybridSizes : p = Hybrid(n)
  BY <1>0, <1>2, PlansConstants, HybridShape
<1>3. CASE p \in CustomPlans
  BY <1>3, PlansConstants
<1> QED BY <1>1, <1>2, <1>3 DEF Planned

\* What is executed of a plan: its steps, or as many as the cap allows, some
\* of them twice.
LEMMA ExecutedSteps ==
  ASSUME NEW p \in PlanShapes
  PROVE  /\ Executed(p).steps \in Seq(Nat) /\ Executed(p).goOn = p.goOn
         /\ {Executed(p).steps[k] : k \in DOMAIN Executed(p).steps}
              = {p.steps[k] : k \in 1..(IF TooLong(p) THEN StepCap ELSE Len(p.steps))}
<1>1. p.steps \in Seq(Nat) /\ Len(p.steps) \in Nat /\ StepCap \in Nat /\ StepCap >= 1
  BY ShapeParts, PlansConstants
<1>2. CASE ~TooLong(p)
  <2>1. Executed(p) = p /\ DOMAIN p.steps = 1..Len(p.steps)
    BY <1>1, <1>2 DEF Executed
  <2> QED BY <2>1, <1>1, <1>2
<1>3. CASE TooLong(p)
  <2>1. StepCap <= Len(p.steps)
    BY <1>1, <1>3 DEF TooLong
  <2>2. PICK s : s = SubSeq(p.steps, 1, StepCap)
    OBVIOUS
  <2>3. s \in Seq(Nat) /\ Len(s) = StepCap /\ \A k \in 1..StepCap : s[k] = p.steps[k]
    <3>1. StepCap \in 1 - 1..Len(p.steps) /\ 1 \in 1..Len(p.steps) + 1
      BY <1>1, <2>1
    <3> QED BY <1>1, <2>2, <3>1, SubSeqProperties
  <2>4. PICK q : q = [p EXCEPT !.steps = s]
    OBVIOUS
  <2>5. q \in PlanShapes /\ q.steps = s /\ q.goOn = p.goOn
    BY <2>3, <2>4 DEF PlanShapes
  <2>6. Executed(p) = Rebuilt(q)
    BY <1>3, <2>2, <2>4 DEF Executed
  <2>7. /\ Rebuilt(q) \in PlanShapes /\ Rebuilt(q).steps = s \o Tail(s) /\ Rebuilt(q).goOn = p.goOn
    BY <1>1, <2>3, <2>5, RebuiltShape
  <2>8. PICK r : r = s \o Tail(s)
    OBVIOUS
  <2>9. /\ Len(s) \in Nat /\ Len(s) >= 1 /\ s # <<>>
        /\ Tail(s) \in Seq(Nat) /\ Len(Tail(s)) = StepCap - 1
        /\ \A k \in 1..(StepCap - 1) : Tail(s)[k] = s[k + 1]
    BY <1>1, <2>3
  <2>10. /\ DOMAIN r = 1..(StepCap + (StepCap - 1))
         /\ \A k \in DOMAIN r : r[k] = IF k <= StepCap THEN s[k] ELSE Tail(s)[k - StepCap]
    <3>1. PICK T \in Seq(Nat) : T = Tail(s)
      BY <2>9
    <3>2. /\ Len(s \o T) = Len(s) + Len(T)
          /\ \A k \in 1..(Len(s) + Len(T)) : (s \o T)[k] = IF k <= Len(s) THEN s[k] ELSE T[k - Len(s)]
          /\ s \o T \in Seq(Nat)
      BY <2>3, ConcatProperties
    <3>3. Len(s) = StepCap /\ Len(T) = StepCap - 1
      BY <3>1, <2>3, <2>9
    <3>4. r \in Seq(Nat) /\ Len(r) = StepCap + (StepCap - 1)
      BY <3>1, <3>2, <3>3, <2>8
    <3>5. DOMAIN r = 1..(StepCap + (StepCap - 1))
      BY <3>4
    <3>6. \A k \in 1..(StepCap + (StepCap - 1)) : r[k] = IF k <= StepCap THEN s[k] ELSE T[k - StepCap]
      BY <3>1, <3>2, <3>3, <2>8
    <3> QED BY <3>1, <3>5, <3>6
  <2>11. \A k \in DOMAIN r : \E j \in 1..StepCap : r[k] = p.steps[j]
    <3> SUFFICES ASSUME NEW k \in DOMAIN r PROVE \E j \in 1..StepCap : r[k] = p.steps[j]
      OBVIOUS
    <3>1. CASE k <= StepCap
      <4>1. k \in 1..StepCap /\ r[k] = s[k]
        BY <3>1, <2>10, <1>1
      <4> QED BY <4>1, <2>3
    <3>2. CASE ~(k <= StepCap)
      <4>0. k \in 1..(StepCap + (StepCap - 1)) /\ r[k] = Tail(s)[k - StepCap]
        BY <3>2, <2>10
      <4>1. k - StepCap \in 1..(StepCap - 1) /\ (k - StepCap) + 1 \in 1..StepCap
            /\ r[k] = Tail(s)[k - StepCap]
        BY <4>0, <3>2, <1>1
      <4> QED BY <4>1, <2>3, <2>9
    <3> QED BY <3>1, <3>2
  <2>12. \A j \in 1..StepCap : j \in DOMAIN r /\ r[j] = p.steps[j]
    BY <2>3, <2>10, <1>1
  <2>13. {r[k] : k \in DOMAIN r} = {p.steps[k] : k \in 1..StepCap}
    BY <2>11, <2>12
  <2>14. Executed(p).steps = r /\ Executed(p).steps \in Seq(Nat)
    BY <2>6, <2>7, <2>8 DEF PlanShapes
  <2> QED BY <2>6, <2>7, <2>13, <2>14, <1>3
<1> QED BY <1>2, <1>3

PlanStatuses == {"waiting", "running", "ok", "failed"}

LEMMA PlanCallParts ==
  ASSUME NEW x \in PlanCalls
  PROVE  /\ x.stage \in {"steps", "returned"} /\ x.kind \in {"planning", "execution", "api"}
         /\ x.id \in PlanIds /\ x.status \in Seq(PlanStatuses) /\ x.success \in BOOLEAN
         /\ x # NoPlanCall
<1>1. NoPlanCall.stage = "idle"
  BY DEF NoPlanCall
<1> QED BY <1>1 DEF PlanCalls, PlanStatuses

LEMMA PlanCallIs ==
  ASSUME NEW x \in PlanCalls \cup {NoPlanCall}
  PROVE  /\ x.stage \in {"idle", "steps", "returned"}
         /\ x.stage = "idle" <=> x = NoPlanCall
         /\ x.stage # "idle" => x \in PlanCalls
BY PlanCallParts DEF NoPlanCall

LEMMA PlansTypeParts ==
  ASSUME PlansTypeOK
  PROVE  /\ planOf \in [PlanIds -> Planned \cup CustomPlans \cup {NoPlan}]
         /\ active \subseteq PlanIds /\ \A i \in active : planOf[i] # NoPlan
         /\ pCall \in [PlanCallers -> PlanCalls \cup {NoPlanCall}]
         /\ kept \subseteq PlanIds /\ timedOut \subseteq PlanIds /\ takenOff \subseteq PlanIds
BY DEF PlansTypeOK, Unmade

LEMMA PlansTypeFrom ==
  ASSUME planOf' \in [PlanIds -> Planned \cup CustomPlans \cup {NoPlan}],
         active' \subseteq PlanIds, \A i \in active' : planOf'[i] # NoPlan,
         pCall' \in [PlanCallers -> PlanCalls \cup {NoPlanCall}],
         kept' \subseteq PlanIds, timedOut' \subseteq PlanIds, takenOff' \subseteq PlanIds
  PROVE  PlansTypeOK'
BY DEF PlansTypeOK, Unmade

\* The call of another, of a plan that stays as it is, is not disturbed.
LEMMA CallKept ==
  ASSUME NEW c \in PlanCallers, CallFits(c), pCall'[c] = pCall[c],
         pCall[c] # NoPlanCall => planOf'[pCall[c].id] = planOf[pCall[c].id]
  PROVE  CallFits(c)'
<1>1. CASE pCall[c] = NoPlanCall
  BY <1>1 DEF CallFits
<1>2. CASE pCall[c] # NoPlanCall
  <2>1. PICK p : p = planOf[pCall[c].id]
    OBVIOUS
  <2>2. planOf'[pCall'[c].id] = p
    BY <2>1, <1>2
  <2> QED BY <2>1, <2>2, <1>2 DEF CallFits, PlanOf, At
<1> QED BY <1>1, <1>2

LEMMA NewCall ==
  ASSUME NEW i \in PlanIds, NEW p \in PlanShapes, NEW kind \in {"planning", "execution", "api"},
         NEW x, x = [stage |-> "steps", kind |-> kind, id |-> i, success |-> FALSE,
                     status |-> [k \in DOMAIN Executed(p).steps |-> "waiting"]]
  PROVE  x \in PlanCalls /\ x.id = i /\ x.kind = kind /\ x.stage = "steps"
         /\ DOMAIN x.status = DOMAIN Executed(p).steps
<1>1. Executed(p).steps \in Seq(Nat)
  BY ExecutedSteps
<1>2. PICK n \in Nat : DOMAIN Executed(p).steps = 1..n
  BY <1>1
<1>3. [k \in 1..n |-> "waiting"] \in Seq({"waiting", "running", "ok", "failed"})
  OBVIOUS
<1>4. PICK st \in Seq({"waiting", "running", "ok", "failed"}) :
        st = [k \in DOMAIN Executed(p).steps |-> "waiting"]
  BY <1>2, <1>3
<1>5. x = [stage |-> "steps", kind |-> kind, id |-> i, success |-> FALSE, status |-> st]
  BY <1>4
<1>6. x \in PlanCalls
  BY <1>5 DEF PlanCalls
<1> QED BY <1>4, <1>5, <1>6

\* A call begins.
LEMMA BeginKeepsPlans ==
  ASSUME PlansIInv, NEW c \in PlanCallers, NEW i \in PlanIds, NEW kind \in {"planning", "execution", "api"},
         NEW p \in Planned \cup CustomPlans, PlanCallBegins(c, kind, i, p),
         planOf' = [planOf EXCEPT ![i] = p], planOf[i] # NoPlan => p = planOf[i],
         active' = active \cup {i},
         takenOff' \in {takenOff, takenOff \ {i}},
         kind = "execution" => i \in active,
         UNCHANGED <<kept, timedOut>>
  PROVE  PlansIInv'
<1>1. /\ planOf \in [PlanIds -> Planned \cup CustomPlans \cup {NoPlan}]
      /\ active \subseteq PlanIds /\ \A j \in active : planOf[j] # NoPlan
      /\ pCall \in [PlanCallers -> PlanCalls \cup {NoPlanCall}]
      /\ kept \subseteq PlanIds /\ timedOut \subseteq PlanIds /\ takenOff \subseteq PlanIds
  BY PlansTypeParts DEF PlansIInv
<1>2. p \in PlanShapes /\ p # NoPlan
  BY PlansMade
<1>3. PICK x : x = [stage |-> "steps", kind |-> kind, id |-> i, success |-> FALSE,
                    status |-> [k \in DOMAIN Executed(p).steps |-> "waiting"]]
  OBVIOUS
<1>4. x \in PlanCalls /\ x.id = i /\ x.kind = kind /\ x.stage = "steps"
      /\ DOMAIN x.status = DOMAIN Executed(p).steps
  BY <1>2, <1>3, NewCall
<1>5. pCall[c] = NoPlanCall /\ pCall' = [pCall EXCEPT ![c] = x]
  BY <1>3 DEF PlanCallBegins
<1>6. /\ pCall'[c] = x /\ \A d \in PlanCallers \ {c} : pCall'[d] = pCall[d]
      /\ planOf'[i] = p /\ \A j \in PlanIds : planOf[j] # NoPlan => planOf'[j] = planOf[j]
      /\ \A j \in PlanIds \ {i} : planOf'[j] = planOf[j]
  BY <1>1, <1>5
<1>7. x # NoPlanCall
  BY <1>4, PlanCallParts
<1>8. PlansTypeOK'
  <2>1. planOf' \in [PlanIds -> Planned \cup CustomPlans \cup {NoPlan}]
        /\ pCall' \in [PlanCallers -> PlanCalls \cup {NoPlanCall}]
    BY <1>1, <1>4, <1>5
  <2>2. active' \subseteq PlanIds /\ (\A j \in active' : planOf'[j] # NoPlan)
        /\ kept' \subseteq PlanIds /\ timedOut' \subseteq PlanIds /\ takenOff' \subseteq PlanIds
    BY <1>1, <1>2, <1>6
  <2> QED BY <2>1, <2>2, PlansTypeFrom
<1>9. ASSUME NEW d \in PlanCallers PROVE CallFits(d)'
  <2>1. CASE d = c
    <3>1. planOf'[pCall'[d].id] = p
      BY <2>1, <1>4, <1>6
    <3> QED BY <2>1, <3>1, <1>2, <1>4, <1>6 DEF CallFits, PlanOf
  <2>2. CASE d # c
    <3>1. CallFits(d) /\ pCall[d] \in PlanCalls \cup {NoPlanCall}
      BY <1>1 DEF PlansIInv
    <3>2. pCall[d] # NoPlanCall => planOf'[pCall[d].id] = planOf[pCall[d].id]
      BY <3>1, <1>6, PlanCallParts DEF CallFits
    <3> QED BY <3>1, <3>2, <2>2, <1>6, CallKept
  <2> QED BY <2>1, <2>2
<1>10. PlansHeld'
  <2>0. PlansHeld
    BY DEF PlansIInv
  <2>1. ASSUME NEW j \in active' \ (kept' \cup timedOut')
        PROVE  \E d \in PlanCallers :
                 pCall'[d] # NoPlanCall /\ pCall'[d].id = j /\ pCall'[d].kind # "execution"
    <3>1. CASE j \in active
      <4>1. PICK d \in PlanCallers :
              pCall[d] # NoPlanCall /\ pCall[d].id = j /\ pCall[d].kind # "execution"
        BY <2>0, <2>1, <3>1 DEF PlansHeld
      <4>2. d # c
        BY <4>1, <1>5
      <4> QED BY <4>1, <4>2, <1>6
    <3>2. CASE j \notin active
      <4>1. j = i /\ kind # "execution"
        BY <2>1, <3>2
      <4> QED BY <4>1, <1>4, <1>6, <1>7
    <3> QED BY <3>1, <3>2
  <2>2. \A d \in PlanCallers : pCall'[d] # NoPlanCall => pCall'[d].id \in active' \cup takenOff'
    BY <2>0, <1>4, <1>6 DEF PlansHeld
  <2> QED BY <2>1, <2>2 DEF PlansHeld
<1> QED BY <1>8, <1>9, <1>10 DEF PlansIInv

LEMMA BeginningsKeepPlans ==
  ASSUME PlansIInv, NEW c \in PlanCallers, NEW i \in PlanIds,
         \/ \E p \in Planned : PlanAndExecute(c, i, p)
         \/ \E p \in CustomPlans \cup {planOf[i]} : ExecutePlan(c, i, p)
         \/ ExecuteActive(c, i)
  PROVE  PlansIInv'
<1>1. /\ planOf \in [PlanIds -> Planned \cup CustomPlans \cup {NoPlan}]
      /\ active \subseteq PlanIds /\ \A j \in active : planOf[j] # NoPlan
  BY PlansTypeParts DEF PlansIInv
<1>2. CASE \E p \in Planned : PlanAndExecute(c, i, p)
  <2>1. PICK p \in Planned : PlanAndExecute(c, i, p)
    BY <1>2
  <2> QED BY <2>1, BeginKeepsPlans DEF PlanAndExecute, Unmade
<1>3. CASE \E p \in CustomPlans \cup {planOf[i]} : ExecutePlan(c, i, p)
  <2>1. PICK p \in CustomPlans \cup {planOf[i]} : ExecutePlan(c, i, p)
    BY <1>3
  <2>2. p \in Planned \cup CustomPlans /\ (planOf[i] # NoPlan => p = planOf[i])
    BY <2>1, <1>1 DEF ExecutePlan, Unmade
  <2> QED BY <2>1, <2>2, BeginKeepsPlans DEF ExecutePlan
<1>4. CASE ExecuteActive(c, i)
  <2>1. i \in active /\ planOf[i] \in Planned \cup CustomPlans
    BY <1>1, <1>4 DEF ExecuteActive
  <2>2. planOf' = [planOf EXCEPT ![i] = planOf[i]] /\ active' = active \cup {i}
    BY <2>1, <1>1, <1>4 DEF ExecuteActive
  <2> QED BY <2>1, <2>2, <1>4, BeginKeepsPlans DEF ExecuteActive
<1> QED BY <1>2, <1>3, <1>4

LEMMA CreateOrCancelKeepsPlans ==
  ASSUME PlansIInv, NEW i \in PlanIds, CancelPlan(i) \/ \E p \in Planned : CreatePlan(i, p)
  PROVE  PlansIInv'
<1>1. /\ planOf \in [PlanIds -> Planned \cup CustomPlans \cup {NoPlan}]
      /\ active \subseteq PlanIds /\ \A j \in active : planOf[j] # NoPlan
      /\ pCall \in [PlanCallers -> PlanCalls \cup {NoPlanCall}]
      /\ kept \subseteq PlanIds /\ timedOut \subseteq PlanIds /\ takenOff \subseteq PlanIds
  BY PlansTypeParts DEF PlansIInv
<1>2. pCall' = pCall /\ timedOut' = timedOut
  BY DEF CancelPlan, CreatePlan
<1>3. /\ planOf' \in [PlanIds -> Planned \cup CustomPlans \cup {NoPlan}]
      /\ \A j \in PlanIds : planOf[j] # NoPlan => planOf'[j] = planOf[j]
      /\ active' \subseteq PlanIds /\ \A j \in active' : planOf'[j] # NoPlan
      /\ kept' \subseteq PlanIds /\ takenOff' \subseteq PlanIds
      /\ active' \ kept' \subseteq active \ kept
      /\ active \cup takenOff \subseteq active' \cup takenOff'
  <2>1. CASE CancelPlan(i)
    BY <2>1, <1>1 DEF CancelPlan
  <2>2. CASE \E p \in Planned : CreatePlan(i, p)
    <3>1. PICK p \in Planned : CreatePlan(i, p)
      BY <2>2
    <3>2. p # NoPlan
      BY PlansMade
    <3> QED BY <3>1, <3>2, <1>1 DEF CreatePlan, Unmade
  <2> QED BY <2>1, <2>2
<1>4. PlansTypeOK'
  BY <1>1, <1>2, <1>3, PlansTypeFrom
<1>5. ASSUME NEW d \in PlanCallers PROVE CallFits(d)'
  <2>1. CallFits(d) /\ pCall[d] \in PlanCalls \cup {NoPlanCall}
    BY <1>1 DEF PlansIInv
  <2>2. pCall[d] # NoPlanCall => planOf'[pCall[d].id] = planOf[pCall[d].id]
    BY <2>1, <1>3, PlanCallParts DEF CallFits
  <2> QED BY <2>1, <2>2, <1>2, CallKept
<1>6. PlansHeld'
  BY <1>2, <1>3 DEF PlansIInv, PlansHeld
<1> QED BY <1>4, <1>5, <1>6 DEF PlansIInv

\* A call goes on: it is the same call, of the same plan, and nothing else
\* changes.
LEMMA CallGoesOn ==
  ASSUME PlansIInv, NEW c \in PlanCallers, pCall[c] # NoPlanCall, NEW y \in PlanCalls,
         y.id = pCall[c].id, y.kind = pCall[c].kind, DOMAIN y.status = DOMAIN pCall[c].status,
         y.stage = "returned" /\ y.success =>
           /\ {k \in DOMAIN y.status : y.status[k] = "waiting"} = {}
           /\ {k \in DOMAIN y.status : y.status[k] = "running"} = {}
           /\ {k \in DOMAIN y.status : y.status[k] = "failed"} # {} =>
                Mode(planOf[pCall[c].id]) = "sequential" /\ PlanOf(c).goOn,
         pCall' = [pCall EXCEPT ![c] = y],
         UNCHANGED <<planOf, active, kept, timedOut, takenOff>>
  PROVE  PlansIInv'
<1>1. /\ planOf \in [PlanIds -> Planned \cup CustomPlans \cup {NoPlan}]
      /\ active \subseteq PlanIds /\ \A j \in active : planOf[j] # NoPlan
      /\ pCall \in [PlanCallers -> PlanCalls \cup {NoPlanCall}]
      /\ kept \subseteq PlanIds /\ timedOut \subseteq PlanIds /\ takenOff \subseteq PlanIds
  BY PlansTypeParts DEF PlansIInv
<1>2. /\ pCall' \in [PlanCallers -> PlanCalls \cup {NoPlanCall}]
      /\ pCall'[c] = y /\ \A d \in PlanCallers \ {c} : pCall'[d] = pCall[d]
  BY <1>1
<1>3. y # NoPlanCall
  BY PlanCallParts
<1>4. PlansTypeOK'
  BY <1>1, <1>2, PlansTypeFrom
<1>5. ASSUME NEW d \in PlanCallers PROVE CallFits(d)'
  <2>1. CallFits(d)
    BY DEF PlansIInv
  <2>2. CASE d # c
    BY <2>1, <2>2, <1>2, CallKept
  <2>3. CASE d = c
    <3>1. PICK p : p = planOf[pCall[c].id]
      OBVIOUS
    <3>2. planOf'[pCall'[d].id] = p
      BY <3>1, <2>3, <1>2
    <3>3. p # NoPlan /\ DOMAIN y.status = DOMAIN Executed(p).steps
      BY <3>1, <2>1, <2>3 DEF CallFits, PlanOf
    <3> QED BY <3>1, <3>2, <3>3, <2>3, <1>2 DEF CallFits, PlanOf, At
  <2> QED BY <2>2, <2>3
<1>6. PlansHeld'
  <2>0. PlansHeld
    BY DEF PlansIInv
  <2>1. \A d \in PlanCallers : /\ pCall'[d] # NoPlanCall <=> pCall[d] # NoPlanCall
                               /\ pCall'[d].id = pCall[d].id /\ pCall'[d].kind = pCall[d].kind
    BY <1>2, <1>3
  <2> QED BY <2>0, <2>1 DEF PlansHeld
<1> QED BY <1>4, <1>5, <1>6 DEF PlansIInv

LEMMA TurnsKeepPlans ==
  ASSUME PlansIInv, NEW c \in PlanCallers, pCall[c].stage = "steps",
         NEW K, NEW s \in PlanStatuses, Turns(c, K, s)
  PROVE  PlansIInv'
<1>1. pCall \in [PlanCallers -> PlanCalls \cup {NoPlanCall}]
  BY PlansTypeParts DEF PlansIInv
<1>2. pCall[c] \in PlanCalls /\ pCall[c] # NoPlanCall
  BY <1>1, PlanCallIs
<1>3. PICK x \in PlanCalls : x = pCall[c]
  BY <1>2
<1>4. x.status \in Seq(PlanStatuses)
  BY PlanCallParts
<1>5. PICK n \in Nat : DOMAIN x.status = 1..n /\ \A k \in 1..n : x.status[k] \in PlanStatuses
  BY <1>4
<1>6. [k \in 1..n |-> IF k \in K THEN s ELSE x.status[k]] \in Seq(PlanStatuses)
  <2>1. \A k \in 1..n : (IF k \in K THEN s ELSE x.status[k]) \in PlanStatuses
    BY <1>5
  <2> QED BY <2>1
<1>7. PICK st \in Seq(PlanStatuses) :
        st = [k \in DOMAIN x.status |-> IF k \in K THEN s ELSE x.status[k]]
  BY <1>5, <1>6
<1>8. PICK y : y = [x EXCEPT !.status = st]
  OBVIOUS
<1>9. /\ y \in PlanCalls /\ y.id = x.id /\ y.kind = x.kind /\ y.stage = x.stage
      /\ y.status = st
  BY <1>8 DEF PlanCalls, PlanStatuses
<1>10. DOMAIN st = DOMAIN x.status
  BY <1>7
<1>11. pCall' = [pCall EXCEPT ![c] = y]
  BY <1>1, <1>3, <1>7, <1>8 DEF Turns
<1> QED BY <1>2, <1>3, <1>9, <1>10, <1>11, CallGoesOn DEF Turns

LEMMA ReturnsKeepPlans ==
  ASSUME PlansIInv, NEW c \in PlanCallers, pCall[c].stage = "steps",
         NEW success \in BOOLEAN, PlanReturns(c, success),
         success => /\ At(c, "waiting") = {} /\ At(c, "running") = {}
                    /\ At(c, "failed") # {} =>
                         Mode(planOf[pCall[c].id]) = "sequential" /\ PlanOf(c).goOn
  PROVE  PlansIInv'
<1>1. pCall \in [PlanCallers -> PlanCalls \cup {NoPlanCall}]
  BY PlansTypeParts DEF PlansIInv
<1>2. pCall[c] \in PlanCalls /\ pCall[c] # NoPlanCall
  BY <1>1, PlanCallIs
<1>3. PICK x \in PlanCalls : x = pCall[c]
  BY <1>2
<1>4. PICK y : y = [x EXCEPT !.stage = "returned", !.success = success]
  OBVIOUS
<1>5. /\ y \in PlanCalls /\ y.id = x.id /\ y.kind = x.kind /\ y.status = x.status
      /\ y.success = success
  BY <1>4 DEF PlanCalls
<1>6. pCall' = [pCall EXCEPT ![c] = y]
  BY <1>1, <1>3, <1>4 DEF PlanReturns
<1>7. y.stage = "returned" /\ y.success =>
           /\ {k \in DOMAIN y.status : y.status[k] = "waiting"} = {}
           /\ {k \in DOMAIN y.status : y.status[k] = "running"} = {}
           /\ {k \in DOMAIN y.status : y.status[k] = "failed"} # {} =>
                Mode(planOf[pCall[c].id]) = "sequential" /\ PlanOf(c).goOn
  BY <1>3, <1>5 DEF At
<1>8. UNCHANGED <<planOf, active, kept, timedOut, takenOff>>
  BY DEF PlanReturns
<1>9. y.id = pCall[c].id /\ y.kind = pCall[c].kind /\ DOMAIN y.status = DOMAIN pCall[c].status
  BY <1>3, <1>5
<1> QED BY <1>2, <1>5, <1>6, <1>7, <1>8, <1>9, CallGoesOn

LEMMA StepsKeepPlans ==
  ASSUME PlansIInv, NEW c \in PlanCallers,
         \/ \E k : StepEnds(c, k)
         \/ WaveStarts(c) \/ WaveRetries(c) \/ SequenceStarts(c) \/ ParallelStarts(c)
  PROVE  PlansIInv'
BY TurnsKeepPlans DEF StepEnds, WaveStarts, WaveRetries, SequenceStarts, ParallelStarts,
     InMode, PlanStatuses

LEMMA ReturnKeepsPlans ==
  ASSUME PlansIInv, NEW c \in PlanCallers, WavesEnd(c) \/ SequenceEnds(c) \/ ParallelEnds(c)
  PROVE  PlansIInv'
<1>1. CASE WavesEnd(c)
  <2>1. PICK b \in BOOLEAN : b = (At(c, "ok") = DOMAIN pCall[c].status)
    OBVIOUS
  <2>2. b => At(c, "waiting") = {} /\ At(c, "running") = {} /\ At(c, "failed") = {}
    BY <2>1 DEF At
  <2> QED BY <1>1, <2>1, <2>2, ReturnsKeepPlans DEF WavesEnd, InMode
<1>2. CASE SequenceEnds(c)
  <2>1. PICK b \in BOOLEAN : b = ~Fatal(c)
    OBVIOUS
  <2>2. b => At(c, "waiting") = {} /\ (At(c, "failed") # {} => PlanOf(c).goOn)
    BY <1>2, <2>1 DEF SequenceEnds, Fatal
  <2> QED BY <1>2, <2>1, <2>2, ReturnsKeepPlans DEF SequenceEnds, InMode
<1>3. CASE ParallelEnds(c)
  <2>1. PICK b \in BOOLEAN : b = (At(c, "failed") = {})
    OBVIOUS
  <2> QED BY <1>3, <2>1, ReturnsKeepPlans DEF ParallelEnds, InMode
<1> QED BY <1>1, <1>2, <1>3

\* A call is over: its plan leaves the map, unless it was only borrowed, or
\* the timeout leaves it there.
LEMMA EndKeepsPlans ==
  ASSUME PlansIInv, NEW c \in PlanCallers, Cleanup(c) \/ PlanTimesOut(c)
  PROVE  PlansIInv'
<1>1. /\ planOf \in [PlanIds -> Planned \cup CustomPlans \cup {NoPlan}]
      /\ active \subseteq PlanIds /\ \A j \in active : planOf[j] # NoPlan
      /\ pCall \in [PlanCallers -> PlanCalls \cup {NoPlanCall}]
      /\ kept \subseteq PlanIds /\ timedOut \subseteq PlanIds /\ takenOff \subseteq PlanIds
  BY PlansTypeParts DEF PlansIInv
<1>2. pCall[c] \in PlanCalls
  BY <1>1, PlanCallIs DEF Cleanup, PlanTimesOut
<1>3. pCall[c].id \in PlanIds
  BY <1>2, PlanCallParts
<1>4. PICK i \in PlanIds : i = pCall[c].id
  BY <1>3
<1>5. /\ pCall' \in [PlanCallers -> PlanCalls \cup {NoPlanCall}]
      /\ pCall'[c] = NoPlanCall /\ \A d \in PlanCallers \ {c} : pCall'[d] = pCall[d]
      /\ planOf' = planOf /\ kept' = kept
  BY <1>1 DEF Cleanup, PlanTimesOut
<1>6. /\ active' \subseteq active /\ timedOut \subseteq timedOut' /\ takenOff \subseteq takenOff'
      /\ active \subseteq active' \cup takenOff'
      /\ timedOut' \subseteq PlanIds /\ takenOff' \subseteq PlanIds
      /\ pCall[c].kind # "execution" => i \notin active' \ timedOut'
  BY <1>1, <1>4 DEF Cleanup, PlanTimesOut
<1>7. PlansTypeOK'
  BY <1>1, <1>5, <1>6, PlansTypeFrom
<1>8. ASSUME NEW d \in PlanCallers PROVE CallFits(d)'
  <2>1. CallFits(d)
    BY DEF PlansIInv
  <2>2. CASE d # c
    BY <2>1, <2>2, <1>5, CallKept
  <2>3. CASE d = c
    BY <2>3, <1>5 DEF CallFits
  <2> QED BY <2>2, <2>3
<1>9. PlansHeld'
  <2>0. PlansHeld
    BY DEF PlansIInv
  <2>1. ASSUME NEW j \in active' \ (kept' \cup timedOut')
        PROVE  \E d \in PlanCallers :
                 pCall'[d] # NoPlanCall /\ pCall'[d].id = j /\ pCall'[d].kind # "execution"
    <3>1. PICK d \in PlanCallers :
            pCall[d] # NoPlanCall /\ pCall[d].id = j /\ pCall[d].kind # "execution"
      BY <2>0, <2>1, <1>5, <1>6 DEF PlansHeld
    <3>2. d # c
      BY <3>1, <2>1, <1>4, <1>6
    <3> QED BY <3>1, <3>2, <1>5
  <2>2. \A d \in PlanCallers : pCall'[d] # NoPlanCall => pCall'[d].id \in active' \cup takenOff'
    BY <2>0, <1>5, <1>6 DEF PlansHeld
  <2> QED BY <2>1, <2>2 DEF PlansHeld
<1> QED BY <1>7, <1>8, <1>9 DEF PlansIInv

LEMMA PlansStarts == PlansInit => PlansIInv
<1> SUFFICES ASSUME PlansInit PROVE PlansIInv
  OBVIOUS
<1>1. PlansTypeOK
  BY DEF PlansInit, PlansTypeOK
<1>2. \A c \in PlanCallers : pCall[c] = NoPlanCall
  BY DEF PlansInit
<1>3. (\A c \in PlanCallers : CallFits(c)) /\ PlansHeld
  BY <1>2 DEF CallFits, PlansHeld, PlansInit
<1> QED BY <1>1, <1>3 DEF PlansIInv

LEMMA PlansStep == PlansIInv /\ [PlansNext]_plansVars => PlansIInv'
<1> SUFFICES ASSUME PlansIInv, [PlansNext]_plansVars PROVE PlansIInv'
  OBVIOUS
<1>1. ASSUME NEW c \in PlanCallers, PlanCallStep(c) PROVE PlansIInv'
  <2>1. CASE \E i \in PlanIds :
               \/ \E p \in Planned : PlanAndExecute(c, i, p)
               \/ \E p \in CustomPlans \cup {planOf[i]} : ExecutePlan(c, i, p)
               \/ ExecuteActive(c, i)
    BY <2>1, BeginningsKeepPlans
  <2>2. CASE pCall[c].stage = "steps" /\ \E k \in DOMAIN pCall[c].status : StepEnds(c, k)
    BY <2>2, StepsKeepPlans
  <2>3. CASE WaveStarts(c) \/ WaveRetries(c) \/ SequenceStarts(c) \/ ParallelStarts(c)
    BY <2>3, StepsKeepPlans
  <2>4. CASE WavesEnd(c) \/ SequenceEnds(c) \/ ParallelEnds(c)
    BY <2>4, ReturnKeepsPlans
  <2>5. CASE Cleanup(c) \/ PlanTimesOut(c)
    BY <2>5, EndKeepsPlans
  <2> QED BY <1>1, <2>1, <2>2, <2>3, <2>4, <2>5 DEF PlanCallStep
<1>2. ASSUME NEW i \in PlanIds, CancelPlan(i) \/ \E p \in Planned : CreatePlan(i, p)
      PROVE  PlansIInv'
  BY <1>2, CreateOrCancelKeepsPlans
<1>3. CASE UNCHANGED plansVars
  BY <1>3 DEF plansVars, PlansIInv, PlansTypeOK, Unmade, CallFits, At, PlanOf, PlansHeld
<1> QED BY <1>1, <1>2, <1>3 DEF PlansNext

LEMMA PlansInvariance == PlansSpec => []PlansIInv
BY PlansStarts, PlansStep, PTL DEF PlansSpec

\* PlansTypeOK, for every set of plans, of agents' calls and any cap
\* (agent_impl.rs:1273-1691).
THEOREM PlansTyping == PlansSpec => []PlansTypeOK
<1>1. PlansIInv => PlansTypeOK
  BY DEF PlansIInv
<1> QED BY <1>1, PlansInvariance, PTL

LEMMA FittingCallsAccountForPlans == PlansIInv => PlansAccounted
<1> SUFFICES ASSUME PlansIInv PROVE PlansAccounted
  OBVIOUS
<1>1. /\ planOf \in [PlanIds -> Planned \cup CustomPlans \cup {NoPlan}]
      /\ pCall \in [PlanCallers -> PlanCalls \cup {NoPlanCall}]
  BY PlansTypeParts DEF PlansIInv
<1>2. \A c \in PlanCallers : pCall[c].stage # "idle" <=> pCall[c] # NoPlanCall
  BY <1>1, PlanCallIs
<1>3. ActivePlansExplained
  <2>0. PlansHeld
    BY DEF PlansIInv
  <2>1. ASSUME NEW i \in active \ (kept \cup timedOut)
        PROVE  \E c \in PlanCallers : pCall[c].stage # "idle" /\ pCall[c].id = i
    BY <2>0, <1>2 DEF PlansHeld
  <2>2. \A c \in PlanCallers : pCall[c].stage # "idle" => pCall[c].id \in active \cup takenOff
    BY <2>0, <1>2 DEF PlansHeld
  <2> QED BY <2>1, <2>2 DEF ActivePlansExplained
<1>4. SuccessIsEarned
  <2> SUFFICES ASSUME NEW c \in PlanCallers, pCall[c].stage = "returned", pCall[c].success
               PROVE  LET p == planOf[pCall[c].id] IN
                      /\ {PlanOf(c).steps[k] : k \in At(c, "ok") \cup At(c, "failed")} =
                           {p.steps[k] : k \in 1..(IF TooLong(p) THEN StepCap ELSE Len(p.steps))}
                      /\ At(c, "failed") # {} => Mode(p) = "sequential" /\ p.goOn
    BY DEF SuccessIsEarned
  <2>1. PICK x \in PlanCalls : x = pCall[c]
    BY <1>1, PlanCallIs
  <2>2. x.id \in PlanIds /\ x.status \in Seq(PlanStatuses) /\ x # NoPlanCall
    BY PlanCallParts
  <2>3. PICK p : p = planOf[pCall[c].id]
    OBVIOUS
  <2>4. /\ p # NoPlan /\ DOMAIN x.status = DOMAIN Executed(p).steps
        /\ At(c, "waiting") = {} /\ At(c, "running") = {}
        /\ At(c, "failed") # {} => Mode(p) = "sequential" /\ Executed(p).goOn
    BY <2>1, <2>2, <2>3 DEF PlansIInv, CallFits, PlanOf
  <2>5. p \in PlanShapes
    BY <1>1, <2>1, <2>2, <2>3, <2>4, PlansMade
  <2>6. /\ Executed(p).goOn = p.goOn
        /\ {Executed(p).steps[k] : k \in DOMAIN Executed(p).steps}
             = {p.steps[k] : k \in 1..(IF TooLong(p) THEN StepCap ELSE Len(p.steps))}
    BY <2>5, ExecutedSteps
  <2>7. At(c, "ok") \cup At(c, "failed") = DOMAIN x.status
    <3>1. \A k \in DOMAIN x.status : x.status[k] \in PlanStatuses
      BY <2>2
    <3> QED BY <3>1, <2>1, <2>4 DEF At, PlanStatuses
  <2>8. PlanOf(c) = Executed(p)
    BY <2>3 DEF PlanOf
  <2>9. PICK b : b = Mode(p)
    OBVIOUS
  <2>10. At(c, "failed") # {} => b = "sequential" /\ p.goOn
    BY <2>4, <2>6, <2>9
  <2>11. PICK e : e = PlanOf(c)
    OBVIOUS
  <2>12. {e.steps[k] : k \in At(c, "ok") \cup At(c, "failed")}
           = {p.steps[k] : k \in 1..(IF TooLong(p) THEN StepCap ELSE Len(p.steps))}
    BY <2>4, <2>6, <2>7, <2>8, <2>11
  <2>13. {PlanOf(c).steps[k] : k \in At(c, "ok") \cup At(c, "failed")}
           = {e.steps[k] : k \in At(c, "ok") \cup At(c, "failed")}
    BY <2>11, Zenon
  <2>14. {p.steps[k] : k \in 1..(IF TooLong(p) THEN StepCap ELSE Len(p.steps))}
           = {planOf[pCall[c].id].steps[k] :
                k \in 1..(IF TooLong(planOf[pCall[c].id]) THEN StepCap
                          ELSE Len(planOf[pCall[c].id].steps))}
    BY <2>3, Zenon
  <2>15. At(c, "failed") # {} =>
           Mode(planOf[pCall[c].id]) = "sequential" /\ planOf[pCall[c].id].goOn
    BY <2>3, <2>9, <2>10
  <2> QED BY <2>12, <2>13, <2>14, <2>15
<1> QED BY <1>3, <1>4 DEF PlansAccounted

\* PlansAccounted: whatever calls run, cancel and time out at the same time, a
\* call that reports success has executed all the steps the cap leaves of its
\* plan, and every plan on the map has its reason to be there.
THEOREM PlansAreAccountedFor == PlansSpec => []PlansAccounted
BY PlansInvariance, FittingCallsAccountForPlans, PTL

(***************************************************************************)
(* The transport: what a pattern matches                                   *)
(***************************************************************************)
\* What the loop says of a segment when it knows what it says of the next.
SegmentMatches(i, p, t, rest) ==
  IF i > Len(p) THEN i > Len(t)
  ELSE p[i] = "#" \/ (i <= Len(t) /\ p[i] \in {"+", t[i]} /\ rest)

IsMatch(f, p, t) == f = [i \in 1..Len(p) + 1 |-> SegmentMatches(i, p, t, f[i + 1])]

LEMMA TopicMatchesIs ==
  ASSUME NEW p, NEW t
  PROVE  TopicMatches(p, t) <=> p # <<>> /\ t # <<>> /\ (CHOOSE f : IsMatch(f, p, t))[1]
BY DEF TopicMatches, IsMatch, SegmentMatches

\* From segment i on, up to a hash or to the end of both.
MatchesFrom(i, p, t) ==
  \E k \in i..Len(p) + 1 :
    /\ IF k > Len(p) THEN k > Len(t) ELSE p[k] = "#"
    /\ \A l \in i..k - 1 : l <= Len(t) /\ p[l] \in {"+", t[l]}

LEMMA MatchExists ==
  ASSUME NEW S, NEW p \in Seq(S), NEW T, NEW t \in Seq(T)
  PROVE  \E f : IsMatch(f, p, t)
<1>1. Len(p) \in Nat /\ Len(t) \in Nat
  OBVIOUS
<1>2. ASSUME NEW i \in 1..Len(p) + 1
      PROVE  MatchesFrom(i, p, t) = SegmentMatches(i, p, t, MatchesFrom(i + 1, p, t))
  <2>1. CASE i > Len(p)
    <3>1. i..Len(p) + 1 = {i} /\ i..i - 1 = {}
      BY <1>1, <1>2, <2>1
    <3>2. MatchesFrom(i, p, t) <=> i > Len(t)
      BY <3>1, <2>1 DEF MatchesFrom
    <3>3. SegmentMatches(i, p, t, MatchesFrom(i + 1, p, t)) <=> i > Len(t)
      BY <2>1 DEF SegmentMatches
    <3>4. MatchesFrom(i, p, t) \in BOOLEAN /\ SegmentMatches(i, p, t, MatchesFrom(i + 1, p, t)) \in BOOLEAN
      BY <1>1, <1>2, <2>1 DEF MatchesFrom, SegmentMatches
    <3> QED BY <3>2, <3>3, <3>4
  <2>2. CASE i <= Len(p) /\ p[i] = "#"
    <3>1. i \in i..Len(p) + 1 /\ i..i - 1 = {} /\ ~(i > Len(p))
      BY <1>1, <1>2, <2>2
    <3>2. MatchesFrom(i, p, t)
      BY <3>1, <2>2 DEF MatchesFrom
    <3>3. SegmentMatches(i, p, t, MatchesFrom(i + 1, p, t))
      BY <3>1, <2>2 DEF SegmentMatches
    <3>4. MatchesFrom(i, p, t) \in BOOLEAN /\ SegmentMatches(i, p, t, MatchesFrom(i + 1, p, t)) \in BOOLEAN
      <4>1. MatchesFrom(i, p, t) \in BOOLEAN
        BY DEF MatchesFrom
      <4>2. SegmentMatches(i, p, t, MatchesFrom(i + 1, p, t)) = TRUE
        BY <3>1, <2>2 DEF SegmentMatches
      <4> QED BY <4>1, <4>2
    <3> QED BY <3>2, <3>3, <3>4
  <2>3. CASE i <= Len(p) /\ p[i] # "#"
    <3>0. i \in Nat /\ ~(i > Len(p))
      BY <1>1, <1>2, <2>3
    <3>1. ASSUME MatchesFrom(i, p, t)
          PROVE  i <= Len(t) /\ p[i] \in {"+", t[i]} /\ MatchesFrom(i + 1, p, t)
      <4>1. PICK k \in i..Len(p) + 1 :
              /\ IF k > Len(p) THEN k > Len(t) ELSE p[k] = "#"
              /\ \A l \in i..k - 1 : l <= Len(t) /\ p[l] \in {"+", t[l]}
        BY <3>1 DEF MatchesFrom
      <4>2. k # i
        BY <4>1, <2>3, <3>0
      <4>3. k \in (i + 1)..Len(p) + 1 /\ i \in i..k - 1 /\ (i + 1)..k - 1 \subseteq i..k - 1
        BY <1>1, <3>0, <4>2
      <4> QED BY <4>1, <4>3 DEF MatchesFrom
    <3>2. ASSUME i <= Len(t), p[i] \in {"+", t[i]}, MatchesFrom(i + 1, p, t)
          PROVE  MatchesFrom(i, p, t)
      <4>1. PICK k \in (i + 1)..Len(p) + 1 :
              /\ IF k > Len(p) THEN k > Len(t) ELSE p[k] = "#"
              /\ \A l \in (i + 1)..k - 1 : l <= Len(t) /\ p[l] \in {"+", t[l]}
        BY <3>2 DEF MatchesFrom
      <4>2. k \in i..Len(p) + 1 /\ \A l \in i..k - 1 : l = i \/ l \in (i + 1)..k - 1
        BY <1>1, <3>0
      <4>3. \A l \in i..k - 1 : l <= Len(t) /\ p[l] \in {"+", t[l]}
        BY <3>2, <4>1, <4>2
      <4> QED BY <4>1, <4>2, <4>3 DEF MatchesFrom
    <3>3. SegmentMatches(i, p, t, MatchesFrom(i + 1, p, t)) <=>
            i <= Len(t) /\ p[i] \in {"+", t[i]} /\ MatchesFrom(i + 1, p, t)
      BY <2>3, <3>0 DEF SegmentMatches
    <3>4. SegmentMatches(i, p, t, MatchesFrom(i + 1, p, t)) \in BOOLEAN
      BY <2>3, <3>0 DEF SegmentMatches
    <3>5. MatchesFrom(i, p, t) \in BOOLEAN
      BY DEF MatchesFrom
    <3> QED BY <3>1, <3>2, <3>3, <3>4, <3>5
  <2> QED BY <1>1, <1>2, <2>1, <2>2, <2>3
<1>3. PICK f : f = [i \in 1..Len(p) + 1 |-> MatchesFrom(i, p, t)]
  OBVIOUS
<1>4. ASSUME NEW i \in 1..Len(p) + 1
      PROVE  f[i] = SegmentMatches(i, p, t, f[i + 1])
  <2>1. f[i] = SegmentMatches(i, p, t, MatchesFrom(i + 1, p, t))
    BY <1>2, <1>3
  <2>2. CASE i > Len(p)
    BY <2>1, <2>2 DEF SegmentMatches
  <2>3. CASE ~(i > Len(p))
    <3>1. i + 1 \in 1..Len(p) + 1
      BY <1>1, <2>3
    <3>2. f[i + 1] = MatchesFrom(i + 1, p, t)
      BY <1>3, <3>1
    <3> QED BY <2>1, <3>2
  <2> QED BY <2>2, <2>3
<1>5. IsMatch(f, p, t)
  <2>1. f = [i \in 1..Len(p) + 1 |-> f[i]]
    BY <1>3
  <2> HIDE DEF SegmentMatches
  <2> QED BY <2>1, <1>4 DEF IsMatch
<1> QED BY <1>5

\* The doc comment's description of a pattern is what the loop computes,
\* however long the pattern and the topic are (memory.rs:86-135).
THEOREM TopicMatchesIsReference ==
  ASSUME NEW S, NEW p \in Seq(S), NEW T, NEW t \in Seq(T)
  PROVE  TopicMatches(p, t) <=> MatchesReference(p, t)
<1>0. DOMAIN p = 1..Len(p)
  OBVIOUS
<1>1. Len(p) \in Nat /\ Len(t) \in Nat
  OBVIOUS
<1>2. PICK f : f = CHOOSE g : IsMatch(g, p, t)
  OBVIOUS
<1>3. \A i \in 1..Len(p) + 1 : f[i] = SegmentMatches(i, p, t, f[i + 1])
  <2>1. IsMatch(f, p, t)
    BY <1>2, MatchExists
  <2> HIDE DEF SegmentMatches
  <2> QED BY <2>1 DEF IsMatch
<1>4. PICK hashes : hashes = {k \in DOMAIN p : p[k] = "#"}
  OBVIOUS
<1>5. PICK fixed : fixed = IF hashes = {} THEN Len(p) ELSE Min(hashes) - 1
  OBVIOUS
<1>6. /\ fixed \in 0..Len(p)
      /\ \A k \in 1..fixed : p[k] # "#"
      /\ hashes = {} => fixed = Len(p)
      /\ hashes # {} => fixed < Len(p) /\ p[fixed + 1] = "#"
  <2>1. CASE hashes = {}
    BY <2>1, <1>0, <1>1, <1>4, <1>5
  <2>2. CASE hashes # {}
    <3>1. hashes \subseteq Nat
      BY <1>0, <1>1, <1>4
    <3>2. PICK n \in hashes : \A m \in hashes : n <= m
      BY <2>2, <3>1, NatMinimum
    <3>3. Min(hashes) \in hashes /\ \A m \in hashes : Min(hashes) <= m
      BY <3>2 DEF Min
    <3>4. PICK h : h = Min(hashes)
      OBVIOUS
    <3>5. h \in 1..Len(p) /\ p[h] = "#" /\ \A k \in 1..Len(p) : p[k] = "#" => h <= k
      BY <1>0, <1>1, <1>4, <3>3, <3>4
    <3>6. fixed = h - 1
      BY <2>2, <1>5, <3>4
    <3> QED BY <3>5, <3>6, <2>2, <1>1
  <2> QED BY <2>1, <2>2
<1>7. fixed + 1 \in 1..Len(p) + 1
  BY <1>1, <1>6
<1>8. f[fixed + 1] <=> hashes # {} \/ fixed + 1 > Len(t)
  <2>1. PICK b : b = f[fixed + 1 + 1]
    OBVIOUS
  <2>2. f[fixed + 1] = SegmentMatches(fixed + 1, p, t, b)
    BY <1>3, <1>7, <2>1
  <2>3. CASE hashes = {}
    <3>1. fixed + 1 > Len(p)
      BY <2>3, <1>1, <1>6
    <3> QED BY <2>2, <2>3, <3>1 DEF SegmentMatches
  <2>4. CASE hashes # {}
    <3>1. ~(fixed + 1 > Len(p)) /\ p[fixed + 1] = "#"
      BY <2>4, <1>1, <1>6
    <3> QED BY <2>2, <2>4, <3>1 DEF SegmentMatches
  <2> QED BY <2>3, <2>4
<1>9. ASSUME NEW i \in 1..fixed
      PROVE  f[i] <=> i <= Len(t) /\ p[i] \in {"+", t[i]} /\ f[i + 1]
  <2>1. i \in 1..Len(p) + 1 /\ ~(i > Len(p)) /\ p[i] # "#"
    BY <1>1, <1>6
  <2> QED BY <2>1, <1>3 DEF SegmentMatches
<1>10. MatchesReference(p, t) <=>
         /\ p # <<>> /\ t # <<>>
         /\ IF hashes = {} THEN Len(t) = fixed ELSE Len(t) >= fixed
         /\ \A k \in 1..fixed : p[k] \in {"+", t[k]}
  BY <1>4, <1>5 DEF MatchesReference
<1>11. ASSUME MatchesReference(p, t) PROVE f[1]
  <2> DEFINE C == {d \in 0..fixed : ~f[fixed + 1 - d]}
  <2>1. SUFFICES ASSUME C # {} PROVE FALSE
    BY <1>6
  <2>2. PICK d \in C : \A e \in C : d <= e
    <3> C \subseteq Nat
      BY <1>6
    <3> HIDE DEF C
    <3> QED BY <2>1, NatMinimum
  <2>3. d \in 0..fixed /\ ~f[fixed + 1 - d]
    BY <2>2
  <2>4. d # 0
    <3>1. hashes # {} \/ fixed + 1 > Len(t)
      BY <1>1, <1>6, <1>10, <1>11
    <3> QED BY <3>1, <2>3, <1>6, <1>8
  <2>5. d - 1 \in 0..fixed /\ ~(d <= d - 1)
    BY <2>3, <2>4, <1>6
  <2>5a. d - 1 \notin C
    <3> HIDE DEF C
    <3> QED BY <2>2, <2>5
  <2>6. f[fixed + 1 - (d - 1)]
    BY <2>5, <2>5a
  <2>7. PICK i \in 1..fixed : i = fixed + 1 - d
    BY <2>3, <2>4, <1>6
  <2>8. fixed + 1 - (d - 1) = i + 1
    BY <2>3, <2>7, <1>6
  <2>9. i <= Len(t)
    BY <1>1, <1>6, <1>10, <1>11
  <2>10. f[i] 
    BY <2>6, <2>8, <2>9, <1>9, <1>10, <1>11
  <2> QED BY <2>3, <2>7, <2>10
<1>12. ASSUME f[1], p # <<>>, t # <<>> PROVE MatchesReference(p, t)
  <2> DEFINE C == {i \in 1..fixed + 1 : ~f[i]}
  <2>1. ASSUME C # {} PROVE FALSE
    <3>1. PICK i \in C : \A e \in C : i <= e
      <4> C \subseteq Nat
        BY <1>6
      <4> HIDE DEF C
      <4> QED BY <2>1, NatMinimum
    <3>2. i \in 1..fixed + 1 /\ ~f[i] /\ i # 1
      BY <3>1, <1>12
    <3>3. i - 1 \in 1..fixed /\ i - 1 \notin C /\ (i - 1) + 1 = i
      BY <3>1, <3>2, <1>6
    <3>4. f[i - 1]
      BY <3>3, <1>6
    <3> QED BY <3>2, <3>3, <3>4, <1>9
  <2>2. \A i \in 1..fixed + 1 : f[i]
    BY <2>1
  <2>3. \A i \in 1..fixed : i <= Len(t) /\ p[i] \in {"+", t[i]}
    <3> TAKE i \in 1..fixed
    <3>1. i \in 1..fixed + 1
      BY <1>6
    <3> QED BY <3>1, <2>2, <1>9
  <2>4. Len(t) >= fixed
    <3>1. CASE fixed = 0
      BY <3>1, <1>1
    <3>2. CASE fixed # 0
      <4>1. fixed \in 1..fixed
        BY <3>2, <1>6
      <4> QED BY <4>1, <2>3, <1>1, <1>6
    <3> QED BY <3>1, <3>2
  <2>5. hashes = {} => Len(t) = fixed
    <3>1. f[fixed + 1]
      BY <2>2, <1>6
    <3> QED BY <3>1, <2>4, <1>1, <1>6, <1>8
  <2> QED BY <2>3, <2>4, <2>5, <1>10, <1>12
<1>13. TopicMatches(p, t) <=> p # <<>> /\ t # <<>> /\ f[1]
  BY <1>2, TopicMatchesIs
<1>14. MatchesReference(p, t) => p # <<>> /\ t # <<>>
  BY <1>10
<1> QED BY <1>11, <1>12, <1>13, <1>14

(***************************************************************************)
(* The transport: who is in the table, and what was sent                   *)
(***************************************************************************)
\* An entry has the subscribers that asked for it, and a subscription that is
\* being made or in place is in its entry, unless it was thrown out with one.
TableFits ==
  /\ \A i \in Subs : subAt[i] = "live" <=> i \in DOMAIN topicOf
  /\ \A p \in DOMAIN table : \A i \in table[p] : wanted[i] = p /\ subAt[i] # "new"
  /\ \A i \in Subs \ orphaned :
        subAt[i] \in {"pushed", "live"} => wanted[i] \in DOMAIN table /\ i \in table[wanted[i]]

\* Message m of inbox i is one its client has published, and not the one it is
\* publishing if the entry of i is still to be visited.
SentBefore(i, m) ==
  /\ m.number <= published[m.from]
  /\ clientAt[m.from] = "publishing" /\ wanted[i] \in unvisited[m.from] =>
       m.number < published[m.from]

MessagesInOrder(s) ==
  \A j, k \in DOMAIN s : j < k /\ s[j].from = s[k].from => s[j].number < s[k].number

InboxFits(i) ==
  /\ subAt[i] = "new" => inbox[i] = <<>>
  /\ \A k \in DOMAIN inbox[i] : SentBefore(i, inbox[i][k])
  /\ MessagesInOrder(inbox[i])

\* A publish has a number, and what it owes a subscription in place is sent or
\* still to be sent.
PublishFits(c) ==
  clientAt[c] = "publishing" =>
    /\ published[c] >= 1
    /\ \A i \in due[c] :
         /\ subAt[i] = "live"
         /\ i \in orphaned \/ wanted[i] \in unvisited[c]
              \/ Contains(inbox[i], [from |-> c, number |-> published[c]])

BusIInv ==
  /\ BusTypeOK
  /\ PublishedInAll <= MaxPublished
  /\ TableFits
  /\ \A i \in Subs : InboxFits(i)
  /\ \A c \in BusClients : PublishFits(c)

LEMMA BusConstants ==
  /\ IsFiniteSet(BusClients) /\ MaxPublished \in Nat
  /\ Patterns \cup Topics \subseteq Seq(Segments) \ {<<>>}
BY BusAssumption

LEMMA BusParts ==
  ASSUME BusTypeOK
  PROVE  /\ DOMAIN table \subseteq AllPatterns /\ \A p \in DOMAIN table : table[p] \subseteq Subs
         /\ DOMAIN topicOf \subseteq Subs /\ \A i \in DOMAIN topicOf : topicOf[i] = wanted[i]
         /\ wanted \in [Subs -> AllPatterns \cup {<<>>}]
         /\ subAt \in [Subs -> SubPlaces]
         /\ inbox \in [Subs -> Seq(BusMessages)]
         /\ clientAt \in [BusClients -> ClientPlaces]
         /\ topic \in [BusClients -> AllTopics \cup {<<>>}]
         /\ published \in [BusClients -> 0..MaxPublished]
         /\ unvisited \in [BusClients -> SUBSET AllPatterns]
         /\ reply \in [BusClients -> Subs \cup {NoReply}]
         /\ due \in [BusClients -> SUBSET Subs]
         /\ orphaned \subseteq Subs
BY DEF BusTypeOK

LEMMA BusIParts ==
  ASSUME BusIInv
  PROVE  /\ BusTypeOK /\ PublishedInAll <= MaxPublished /\ TableFits
         /\ \A i \in Subs : InboxFits(i)
         /\ \A c \in BusClients : PublishFits(c)
BY DEF BusIInv

LEMMA MessageParts ==
  ASSUME NEW s \in Seq(BusMessages), NEW k \in DOMAIN s
  PROVE  s[k].from \in BusClients /\ s[k].number \in 1..MaxPublished
<1>1. s[k] \in BusMessages
  OBVIOUS
<1> QED BY <1>1 DEF BusMessages

LEMMA WithValues ==
  ASSUME NEW map, NEW key, NEW value
  PROVE  /\ DOMAIN With(map, key, value) = DOMAIN map \cup {key}
         /\ With(map, key, value)[key] = value
         /\ \A k \in DOMAIN map \ {key} : With(map, key, value)[k] = map[k]
BY DEF With

LEMMA WithoutValues ==
  ASSUME NEW map, NEW key
  PROVE  /\ DOMAIN Without(map, key) = DOMAIN map \ {key}
         /\ \A k \in DOMAIN map \ {key} : Without(map, key)[k] = map[k]
BY DEF Without

LEMMA PublishedKept ==
  ASSUME published' = published, PublishedInAll <= MaxPublished
  PROVE  PublishedInAll' <= MaxPublished
BY DEF PublishedInAll

\* An inbox nothing is sent to, while no client that has not yet visited the
\* entry of its subscription begins to publish.
LEMMA InboxSame ==
  ASSUME BusTypeOK, NEW i \in Subs, InboxFits(i), inbox'[i] = inbox[i], published' = published,
         subAt'[i] = "new" => subAt[i] = "new",
         \/ inbox[i] = <<>>
         \/ \A c \in BusClients :
              clientAt'[c] = "publishing" /\ wanted'[i] \in unvisited'[c] =>
                clientAt[c] = "publishing" /\ wanted[i] \in unvisited[c]
  PROVE  InboxFits(i)'
<1>1. PICK s \in Seq(BusMessages) : s = inbox[i]
  BY BusParts
<1>2. inbox'[i] = s
  BY <1>1
<1>3. MessagesInOrder(s) /\ (subAt'[i] = "new" => s = <<>>)
  BY <1>1 DEF InboxFits
<1>4. ASSUME NEW k \in DOMAIN s
      PROVE  /\ s[k].number <= published'[s[k].from]
             /\ clientAt'[s[k].from] = "publishing" /\ wanted'[i] \in unvisited'[s[k].from] =>
                  s[k].number < published'[s[k].from]
  <2>1. s[k].from \in BusClients
    BY MessageParts
  <2>2. SentBefore(i, s[k])
    BY <1>1 DEF InboxFits
  <2>3. s # <<>>
    OBVIOUS
  <2> QED BY <2>1, <2>2, <2>3, <1>1 DEF SentBefore
<1>5. \A k \in DOMAIN inbox'[i] :
        /\ inbox'[i][k].number <= published'[inbox'[i][k].from]
        /\ clientAt'[inbox'[i][k].from] = "publishing" /\ wanted'[i] \in unvisited'[inbox'[i][k].from] =>
             inbox'[i][k].number < published'[inbox'[i][k].from]
  BY <1>2, <1>4
<1>6. MessagesInOrder(inbox[i])'
  BY <1>2, <1>3 DEF MessagesInOrder
<1> QED BY <1>2, <1>3, <1>5, <1>6 DEF InboxFits, SentBefore

LEMMA PublishSame ==
  ASSUME NEW c \in BusClients, PublishFits(c), published'[c] = published[c],
         clientAt'[c] = "publishing" => clientAt[c] = "publishing" /\ unvisited'[c] = unvisited[c],
         due'[c] \subseteq due[c], orphaned \subseteq orphaned',
         \A i \in due'[c] : /\ subAt[i] = "live" => subAt'[i] = "live" /\ wanted'[i] = wanted[i]
                            /\ \A m : Contains(inbox[i], m) => Contains(inbox'[i], m)
  PROVE  PublishFits(c)'
<1> SUFFICES ASSUME clientAt'[c] = "publishing"
             PROVE  /\ published'[c] >= 1
                    /\ \A i \in due'[c] :
                         /\ subAt'[i] = "live"
                         /\ i \in orphaned' \/ wanted'[i] \in unvisited'[c]
                              \/ Contains(inbox'[i], [from |-> c, number |-> published'[c]])
  BY DEF PublishFits, Contains
<1>1. PICK m : m = [from |-> c, number |-> published[c]]
  OBVIOUS
<1>2. /\ published[c] >= 1
      /\ \A i \in due[c] : /\ subAt[i] = "live"
                           /\ i \in orphaned \/ wanted[i] \in unvisited[c] \/ Contains(inbox[i], m)
  BY <1>1 DEF PublishFits
<1>3. [from |-> c, number |-> published'[c]] = m
  BY <1>1
<1> QED BY <1>2, <1>3

\* A subscription enters the table: by subscribe, or for a request.
LEMMA SubscribeKeepsBus ==
  ASSUME BusIInv, NEW i \in Subs, NEW p \in AllPatterns, SubscribePushes(i, p), p # <<>>,
         UNCHANGED <<published, unvisited>>,
         clientAt' \in [BusClients -> ClientPlaces],
         topic' \in [BusClients -> AllTopics \cup {<<>>}],
         reply' \in [BusClients -> Subs \cup {NoReply}],
         \A c \in BusClients : clientAt'[c] = "publishing" => clientAt[c] = "publishing"
  PROVE  BusIInv'
<1>1. BusTypeOK /\ PublishedInAll <= MaxPublished /\ TableFits
      /\ (\A j \in Subs : InboxFits(j)) /\ (\A c \in BusClients : PublishFits(c))
  BY BusIParts
<1>2. /\ DOMAIN table \subseteq AllPatterns /\ \A q \in DOMAIN table : table[q] \subseteq Subs
      /\ DOMAIN topicOf \subseteq Subs /\ \A j \in DOMAIN topicOf : topicOf[j] = wanted[j]
      /\ wanted \in [Subs -> AllPatterns \cup {<<>>}]
      /\ subAt \in [Subs -> SubPlaces]
  BY <1>1, BusParts
<1>3. PICK old \in SUBSET Subs : old = IF p \in DOMAIN table THEN table[p] ELSE {}
  BY <1>2
<1>4. table' = With(table, p, {i} \cup old)
  BY <1>3 DEF SubscribePushes, Pushed
<1>5. /\ DOMAIN table' = DOMAIN table \cup {p}
      /\ table'[p] = {i} \cup old /\ \A q \in DOMAIN table \ {p} : table'[q] = table[q]
  BY <1>4 DEF With
<1>6. /\ subAt[i] = "new" /\ subAt' = [subAt EXCEPT ![i] = "pushed"]
      /\ wanted' = [wanted EXCEPT ![i] = p]
      /\ topicOf' = topicOf /\ orphaned' = orphaned /\ inbox' = inbox /\ due' = due
  BY DEF SubscribePushes
<1>7. /\ subAt' \in [Subs -> SubPlaces] /\ wanted' \in [Subs -> AllPatterns \cup {<<>>}]
      /\ subAt'[i] = "pushed" /\ wanted'[i] = p
      /\ \A j \in Subs \ {i} : subAt'[j] = subAt[j] /\ wanted'[j] = wanted[j]
  BY <1>2, <1>6 DEF SubPlaces
<1>8. i \notin DOMAIN topicOf
  BY <1>1, <1>6 DEF TableFits
<1>9. \A q \in DOMAIN table : i \notin table[q]
  BY <1>1, <1>6 DEF TableFits
<1>10. BusTypeOK'
  <2>1. /\ DOMAIN table' \subseteq AllPatterns /\ \A q \in DOMAIN table' : table'[q] \subseteq Subs
        /\ DOMAIN topicOf' \subseteq Subs /\ \A j \in DOMAIN topicOf' : topicOf'[j] = wanted'[j]
    BY <1>2, <1>3, <1>5, <1>6, <1>7, <1>8
  <2> QED BY <1>1, <1>6, <1>7, <2>1 DEF BusTypeOK
<1>11. TableFits'
  <2>1. \A j \in Subs : subAt'[j] = "live" <=> j \in DOMAIN topicOf'
    BY <1>1, <1>6, <1>7, <1>8 DEF TableFits
  <2>2. \A q \in DOMAIN table' : \A j \in table'[q] : wanted'[j] = q /\ subAt'[j] # "new"
    <3> SUFFICES ASSUME NEW q \in DOMAIN table', NEW j \in table'[q]
                 PROVE  wanted'[j] = q /\ subAt'[j] # "new"
      OBVIOUS
    <3>1. CASE j = i
      <4>1. q = p
        BY <3>1, <1>5, <1>9
      <4> QED BY <3>1, <4>1, <1>7
    <3>2. CASE j # i
      <4>1. q \in DOMAIN table /\ j \in table[q]
        BY <3>2, <1>3, <1>5
      <4> QED BY <3>2, <4>1, <1>1, <1>2, <1>7 DEF TableFits
    <3> QED BY <3>1, <3>2
  <2>3. \A j \in Subs \ orphaned' :
          subAt'[j] \in {"pushed", "live"} => wanted'[j] \in DOMAIN table' /\ j \in table'[wanted'[j]]
    <3> SUFFICES ASSUME NEW j \in Subs \ orphaned, subAt'[j] \in {"pushed", "live"}
                 PROVE  wanted'[j] \in DOMAIN table' /\ j \in table'[wanted'[j]]
      BY <1>6
    <3>1. CASE j = i
      BY <3>1, <1>5, <1>7
    <3>2. CASE j # i
      <4>1. wanted[j] \in DOMAIN table /\ j \in table[wanted[j]] /\ wanted'[j] = wanted[j]
        BY <3>2, <1>1, <1>7 DEF TableFits
      <4> QED BY <4>1, <1>3, <1>5
    <3> QED BY <3>1, <3>2
  <2> QED BY <2>1, <2>2, <2>3 DEF TableFits
<1>12. ASSUME NEW j \in Subs PROVE InboxFits(j)'
  <2>1. CASE j = i
    <3>1. inbox[i] = <<>>
      BY <1>1, <1>6 DEF InboxFits
    <3> QED BY <2>1, <3>1, <1>1, <1>6, <1>7, InboxSame
  <2>2. CASE j # i
    BY <2>2, <1>1, <1>6, <1>7, InboxSame
  <2> QED BY <2>1, <2>2
<1>13. ASSUME NEW c \in BusClients PROVE PublishFits(c)'
  <2>1. \A j \in due'[c] : subAt[j] = "live" => subAt'[j] = "live" /\ wanted'[j] = wanted[j]
    <3>1. due'[c] \subseteq Subs
      BY <1>1, <1>6, BusParts
    <3> QED BY <3>1, <1>6, <1>7
  <2> QED BY <2>1, <1>1, <1>6, PublishSame
<1> QED BY <1>1, <1>10, <1>11, <1>12, <1>13, PublishedKept DEF BusIInv

\* Only where the subscription is changes, and what the maps say of it.
LEMMA SubscriberKeepsBus ==
  ASSUME BusIInv, UNCHANGED <<wanted, inbox, busClientVars>>,
         subAt' \in [Subs -> SubPlaces], orphaned \subseteq orphaned', orphaned' \subseteq Subs,
         \A j \in Subs : subAt'[j] = "new" => subAt[j] = "new",
         \A c \in BusClients : due'[c] \subseteq due[c] /\ \A j \in due'[c] :
             subAt[j] = "live" => subAt'[j] = "live",
         due' \in [BusClients -> SUBSET Subs],
         DOMAIN table' \subseteq AllPatterns, \A q \in DOMAIN table' : table'[q] \subseteq Subs,
         DOMAIN topicOf' \subseteq Subs, \A j \in DOMAIN topicOf' : topicOf'[j] = wanted[j],
         TableFits'
  PROVE  BusIInv'
<1>1. BusTypeOK /\ PublishedInAll <= MaxPublished
      /\ (\A j \in Subs : InboxFits(j)) /\ (\A c \in BusClients : PublishFits(c))
  BY BusIParts
<1>2. BusTypeOK'
  BY <1>1 DEF BusTypeOK, busClientVars
<1>3. ASSUME NEW j \in Subs PROVE InboxFits(j)'
  BY <1>1, InboxSame DEF busClientVars
<1>4. ASSUME NEW c \in BusClients PROVE PublishFits(c)'
  BY <1>1, PublishSame DEF busClientVars
<1> QED BY <1>1, <1>2, <1>3, <1>4, PublishedKept DEF BusIInv, busClientVars

LEMMA MapKeepsBus ==
  ASSUME BusIInv, NEW i \in Subs, SubscribeMaps(i) \/ Unsubscribe(i)
  PROVE  BusIInv'
<1>1. BusTypeOK /\ TableFits
  BY BusIParts
<1>2. /\ DOMAIN table \subseteq AllPatterns /\ \A q \in DOMAIN table : table[q] \subseteq Subs
      /\ DOMAIN topicOf \subseteq Subs /\ \A j \in DOMAIN topicOf : topicOf[j] = wanted[j]
      /\ subAt \in [Subs -> SubPlaces] /\ due \in [BusClients -> SUBSET Subs] /\ orphaned \subseteq Subs
  BY <1>1, BusParts
<1>3. /\ table' = table /\ orphaned' = orphaned /\ UNCHANGED <<wanted, inbox, busClientVars>>
  BY DEF SubscribeMaps, Unsubscribe
<1>4. /\ subAt' \in [Subs -> SubPlaces] /\ subAt[i] \in {"pushed", "live"}
      /\ subAt'[i] = IF subAt[i] = "pushed" THEN "live" ELSE "dropped"
      /\ \A j \in Subs \ {i} : subAt'[j] = subAt[j]
      /\ DOMAIN topicOf' = IF subAt[i] = "pushed" THEN DOMAIN topicOf \cup {i} ELSE DOMAIN topicOf \ {i}
      /\ \A j \in DOMAIN topicOf' : topicOf'[j] = wanted[j]
      /\ due' \in [BusClients -> SUBSET Subs]
      /\ \A c \in BusClients :
           due'[c] \subseteq due[c] /\ \A j \in due'[c] : subAt[j] = "live" => subAt'[j] = "live"
  <2>1. CASE SubscribeMaps(i)
    <3>1. topicOf' = With(topicOf, i, wanted[i]) /\ due' = due
          /\ subAt[i] = "pushed" /\ subAt' = [subAt EXCEPT ![i] = "live"]
      BY <2>1 DEF SubscribeMaps
    <3>2. /\ DOMAIN topicOf' = DOMAIN topicOf \cup {i}
          /\ \A j \in DOMAIN topicOf' : topicOf'[j] = wanted[j]
      BY <3>1, <1>2 DEF With
    <3>3. /\ subAt' \in [Subs -> SubPlaces]
          /\ subAt'[i] = "live" /\ \A j \in Subs \ {i} : subAt'[j] = subAt[j]
      BY <3>1, <1>2 DEF SubPlaces
    <3> QED BY <3>1, <3>2, <3>3, <1>2
  <2>2. CASE Unsubscribe(i)
    <3>1. topicOf' = Without(topicOf, i) /\ due' = [c \in BusClients |-> due[c] \ {i}]
          /\ subAt[i] = "live" /\ subAt' = [subAt EXCEPT ![i] = "dropped"]
      BY <2>2 DEF Unsubscribe
    <3>2. /\ DOMAIN topicOf' = DOMAIN topicOf \ {i}
          /\ \A j \in DOMAIN topicOf' : topicOf'[j] = wanted[j]
      BY <3>1, <1>2 DEF Without
    <3>3. /\ subAt' \in [Subs -> SubPlaces]
          /\ subAt'[i] = "dropped" /\ \A j \in Subs \ {i} : subAt'[j] = subAt[j]
      BY <3>1, <1>2 DEF SubPlaces
    <3>4. /\ due' \in [BusClients -> SUBSET Subs]
          /\ \A c \in BusClients : due'[c] = due[c] \ {i}
      BY <3>1, <1>2
    <3> QED BY <3>1, <3>2, <3>3, <3>4, <1>2
  <2> QED BY <2>1, <2>2
<1>5. TableFits'
  BY <1>1, <1>2, <1>3, <1>4 DEF TableFits
<1>6. DOMAIN table' \subseteq AllPatterns /\ (\A q \in DOMAIN table' : table'[q] \subseteq Subs)
      /\ DOMAIN topicOf' \subseteq Subs
  BY <1>2, <1>3, <1>4
<1>7. \A j \in Subs : subAt'[j] = "new" => subAt[j] = "new"
  BY <1>4
<1> QED BY <1>2, <1>3, <1>4, <1>5, <1>6, <1>7, SubscriberKeepsBus

LEMMA RetainKeepsBus ==
  ASSUME BusIInv, NEW i \in Subs, UnsubscribeRetains(i) \/ UnsubscribeCleansUp(i)
  PROVE  BusIInv'
<1>1. BusTypeOK /\ TableFits
  BY BusIParts
<1>2. /\ DOMAIN table \subseteq AllPatterns /\ \A q \in DOMAIN table : table[q] \subseteq Subs
      /\ DOMAIN topicOf \subseteq Subs /\ \A j \in DOMAIN topicOf : topicOf[j] = wanted[j]
      /\ subAt \in [Subs -> SubPlaces] /\ due \in [BusClients -> SUBSET Subs] /\ orphaned \subseteq Subs
  BY <1>1, BusParts
<1>3. /\ topicOf' = topicOf /\ due' = due /\ UNCHANGED <<wanted, inbox, busClientVars>>
  BY DEF UnsubscribeRetains, UnsubscribeCleansUp
<1>4. /\ subAt[i] \in {"dropped", "emptied"} /\ subAt'[i] \in {"emptied", "closed"}
      /\ subAt' \in [Subs -> SubPlaces]
      /\ \A j \in Subs \ {i} : subAt'[j] = subAt[j]
  <2>1. CASE UnsubscribeRetains(i)
    <3>1. subAt[i] = "dropped" /\ \E place \in {"emptied", "closed"} : subAt' = [subAt EXCEPT ![i] = place]
      BY <2>1 DEF UnsubscribeRetains
    <3> QED BY <3>1, <1>2 DEF SubPlaces
  <2>2. CASE UnsubscribeCleansUp(i)
    BY <2>2, <1>2 DEF UnsubscribeCleansUp, SubPlaces
  <2> QED BY <2>1, <2>2
<1>5. /\ DOMAIN table' \subseteq DOMAIN table
      /\ \A q \in DOMAIN table' : table'[q] \subseteq table[q]
      /\ orphaned \subseteq orphaned' /\ orphaned' \subseteq Subs
      /\ \A q \in DOMAIN table : \A j \in table[q] \ orphaned' :
           j # i => q \in DOMAIN table' /\ j \in table'[q]
  <2>0. PICK p : p = wanted[i]
    OBVIOUS
  <2>1. CASE UnsubscribeRetains(i) /\ p \in DOMAIN table
    <3>1. table' = With(table, p, table[p] \ {i}) /\ orphaned' = orphaned
      BY <2>0, <2>1 DEF UnsubscribeRetains
    <3>2. /\ DOMAIN table' = DOMAIN table /\ table'[p] = table[p] \ {i}
          /\ \A q \in DOMAIN table \ {p} : table'[q] = table[q]
      BY <2>1, <3>1 DEF With
    <3> QED BY <3>1, <3>2, <1>2
  <2>2. CASE UnsubscribeRetains(i) /\ p \notin DOMAIN table
    <3>1. table' = table /\ orphaned' = orphaned
      BY <2>0, <2>2 DEF UnsubscribeRetains
    <3> QED BY <3>1, <1>2
  <2>3. CASE UnsubscribeCleansUp(i)
    <3>1. /\ table' = Without(table, p)
          /\ orphaned' = orphaned \cup (IF p \in DOMAIN table THEN table[p] ELSE {})
      BY <2>0, <2>3 DEF UnsubscribeCleansUp
    <3>2. /\ DOMAIN table' = DOMAIN table \ {p}
          /\ \A q \in DOMAIN table \ {p} : table'[q] = table[q]
      BY <3>1, WithoutValues
    <3> QED BY <3>1, <3>2, <1>2
  <2> QED BY <2>1, <2>2, <2>3
<1>6. TableFits'
  <2>1. \A j \in Subs : subAt'[j] = "live" <=> j \in DOMAIN topicOf'
    BY <1>1, <1>3, <1>4 DEF TableFits
  <2>2. \A q \in DOMAIN table' : \A j \in table'[q] : wanted'[j] = q /\ subAt'[j] # "new"
    <3> SUFFICES ASSUME NEW q \in DOMAIN table', NEW j \in table'[q]
                 PROVE  wanted'[j] = q /\ subAt'[j] # "new"
      OBVIOUS
    <3>1. q \in DOMAIN table /\ j \in table[q] /\ j \in Subs
      BY <1>2, <1>5
    <3> QED BY <3>1, <1>1, <1>3, <1>4 DEF TableFits
  <2>3. \A j \in Subs \ orphaned' :
          subAt'[j] \in {"pushed", "live"} => wanted'[j] \in DOMAIN table' /\ j \in table'[wanted'[j]]
    <3> SUFFICES ASSUME NEW j \in Subs \ orphaned', subAt'[j] \in {"pushed", "live"}
                 PROVE  wanted'[j] \in DOMAIN table' /\ j \in table'[wanted'[j]]
      OBVIOUS
    <3>1. j # i /\ subAt'[j] = subAt[j] /\ j \in Subs \ orphaned
      BY <1>4, <1>5
    <3>2. wanted[j] \in DOMAIN table /\ j \in table[wanted[j]]
      BY <3>1, <1>1 DEF TableFits
    <3> QED BY <3>1, <3>2, <1>3, <1>5
  <2> QED BY <2>1, <2>2, <2>3 DEF TableFits
<1>7. \A j \in Subs : subAt'[j] = "new" => subAt[j] = "new"
  BY <1>4
<1>8. \A c \in BusClients : due'[c] \subseteq due[c] /\ \A j \in due'[c] :
          subAt[j] = "live" => subAt'[j] = "live"
  BY <1>2, <1>3, <1>4
<1>9. DOMAIN table' \subseteq AllPatterns /\ (\A q \in DOMAIN table' : table'[q] \subseteq Subs)
      /\ DOMAIN topicOf' \subseteq Subs /\ \A j \in DOMAIN topicOf' : topicOf'[j] = wanted[j]
  BY <1>2, <1>3, <1>5
<1>10. due' \in [BusClients -> SUBSET Subs]
  BY <1>2, <1>3
<1> QED BY <1>3, <1>4, <1>5, <1>6, <1>7, <1>8, <1>9, <1>10, SubscriberKeepsBus

\* What a client does besides publishing.
LEMMA ClientKeepsBus ==
  ASSUME BusIInv, UNCHANGED <<subVars, inbox, topic, published, unvisited>>,
         clientAt' \in [BusClients -> ClientPlaces],
         \A c \in BusClients : clientAt'[c] = "publishing" => clientAt[c] = "publishing",
         reply' \in [BusClients -> Subs \cup {NoReply}],
         due' \in [BusClients -> SUBSET Subs], \A c \in BusClients : due'[c] \subseteq due[c]
  PROVE  BusIInv'
<1>1. BusTypeOK /\ PublishedInAll <= MaxPublished /\ TableFits
      /\ (\A j \in Subs : InboxFits(j)) /\ (\A c \in BusClients : PublishFits(c))
  BY BusIParts
<1>2. UNCHANGED <<table, topicOf, wanted, subAt, orphaned>>
  BY DEF subVars
<1>3. BusTypeOK'
  BY <1>1, <1>2 DEF BusTypeOK
<1>4. TableFits'
  BY <1>1, <1>2 DEF TableFits
<1>5. ASSUME NEW j \in Subs PROVE InboxFits(j)'
  BY <1>1, <1>2, InboxSame
<1>6. ASSUME NEW c \in BusClients PROVE PublishFits(c)'
  BY <1>1, <1>2, PublishSame
<1> QED BY <1>1, <1>3, <1>4, <1>5, <1>6, PublishedKept DEF BusIInv

LEMMA ClientStepsKeepBus ==
  ASSUME BusIInv, NEW c \in BusClients,
         PublishEnds(c) \/ RequestRefused(c) \/ RequestStopsWaiting(c) \/ RequestReturns(c)
  PROVE  BusIInv'
<1>1. BusTypeOK
  BY BusIParts
<1>2. /\ clientAt \in [BusClients -> ClientPlaces] /\ due \in [BusClients -> SUBSET Subs]
      /\ reply \in [BusClients -> Subs \cup {NoReply}]
  BY <1>1, BusParts
<1>3. /\ \E place \in {"idle", "waiting", "leaving"} : clientAt' = [clientAt EXCEPT ![c] = place]
      /\ reply' \in {reply, [reply EXCEPT ![c] = NoReply]}
      /\ due' \in {due, [due EXCEPT ![c] = {}]}
      /\ UNCHANGED <<subVars, inbox, topic, published, unvisited>>
  BY DEF PublishEnds, RequestRefused, RequestStopsWaiting, RequestReturns
<1>4. clientAt' \in [BusClients -> ClientPlaces]
      /\ \A d \in BusClients : clientAt'[d] = "publishing" => clientAt[d] = "publishing"
  BY <1>2, <1>3 DEF ClientPlaces
<1>5. reply' \in [BusClients -> Subs \cup {NoReply}]
  BY <1>2, <1>3
<1>6. due' \in [BusClients -> SUBSET Subs] /\ \A d \in BusClients : due'[d] \subseteq due[d]
  BY <1>2, <1>3
<1> QED BY <1>3, <1>4, <1>5, <1>6, ClientKeepsBus

Names == Segments \cup {"response"} \cup BusClients

LEMMA NamesOfBus ==
  /\ AllPatterns \subseteq Seq(Names) \ {<<>>}
  /\ AllTopics \subseteq Seq(Names)
<1>1. \A s \in Seq(Segments) : s \in Seq(Names)
  BY DEF Names
<1>2. ASSUME NEW t \in Topics, NEW c \in BusClients
      PROVE  ReplyTopic(t, c) \in Seq(Names) /\ ReplyTopic(t, c) # <<>>
  <2>1. t \in Seq(Names) /\ <<"response", c>> \in Seq(Names) /\ Len(<<"response", c>>) = 2
    BY <1>1, BusConstants DEF Names
  <2>2. PICK r \in Seq(Names) : r = <<"response", c>> /\ Len(r) = 2
    BY <2>1
  <2>3. t \o r \in Seq(Names) /\ Len(t \o r) = Len(t) + 2
    BY <2>1, <2>2
  <2>4. t \o r # <<>>
    BY <2>1, <2>3
  <2> QED BY <2>2, <2>3, <2>4 DEF ReplyTopic
<1> QED BY <1>1, <1>2, BusConstants DEF AllPatterns, AllTopics

LEMMA BeginKeepsBus ==
  ASSUME BusIInv, NEW c \in BusClients, NEW t \in AllTopics \cup {<<>>}, PublishBegins(c, t)
  PROVE  BusIInv'
<1>1. BusTypeOK /\ PublishedInAll <= MaxPublished /\ TableFits
      /\ (\A j \in Subs : InboxFits(j)) /\ (\A d \in BusClients : PublishFits(d))
  BY BusIParts
<1>2. /\ wanted \in [Subs -> AllPatterns \cup {<<>>}]
      /\ inbox \in [Subs -> Seq(BusMessages)]
      /\ clientAt \in [BusClients -> ClientPlaces]
      /\ topic \in [BusClients -> AllTopics \cup {<<>>}]
      /\ published \in [BusClients -> 0..MaxPublished]
      /\ unvisited \in [BusClients -> SUBSET AllPatterns]
      /\ due \in [BusClients -> SUBSET Subs]
  BY <1>1, BusParts
<1>3. PICK V \in SUBSET AllPatterns : V = {p \in AllPatterns : TopicMatches(p, t)}
  OBVIOUS
<1>4. PICK D \in SUBSET Subs : D = {i \in Subs : subAt[i] = "live" /\ MatchesReference(wanted[i], t)}
  OBVIOUS
<1>5. /\ UNCHANGED <<table, topicOf, wanted, subAt, orphaned, inbox, reply>>
      /\ PublishedInAll < MaxPublished
      /\ topic' = [topic EXCEPT ![c] = t]
      /\ published' = [published EXCEPT ![c] = published[c] + 1]
      /\ unvisited' = [unvisited EXCEPT ![c] = V]
      /\ clientAt' = [clientAt EXCEPT ![c] = "publishing"]
      /\ due' = [due EXCEPT ![c] = D]
  BY <1>3, <1>4 DEF PublishBegins, subVars
<1>6. MaxPublished \in Nat /\ IsFiniteSet(BusClients)
  BY BusConstants
<1>7. /\ \A d \in BusClients : published[d] \in Nat
      /\ PublishedInAll \in Nat /\ published[c] <= PublishedInAll
  <2>1. \A d \in BusClients : published[d] \in Nat
    BY <1>2, <1>6
  <2> QED BY <2>1, <1>6, SumNat, SumElement DEF PublishedInAll
<1>8. /\ published' \in [BusClients -> 0..MaxPublished]
      /\ published'[c] = published[c] + 1 /\ \A d \in BusClients \ {c} : published'[d] = published[d]
  BY <1>2, <1>5, <1>6, <1>7
<1>9. PublishedInAll' <= MaxPublished
  <2>1. PICK g : g = published'
    OBVIOUS
  <2>2. \A d \in BusClients : published[d] \in Int /\ g[d] \in Int
    BY <2>1, <1>6, <1>7, <1>8
  <2>3. SumFunctionOnSet(g, BusClients) = SumFunctionOnSet(published, BusClients) - published[c] + g[c]
    BY <2>1, <2>2, <1>6, <1>8, SumChange
  <2>4. PublishedInAll' = SumFunctionOnSet(g, BusClients)
    BY <2>1 DEF PublishedInAll
  <2>5. PICK before \in Nat : before = PublishedInAll
    BY <1>7
  <2>6. SumFunctionOnSet(g, BusClients) = before - published[c] + (published[c] + 1)
    BY <2>1, <2>3, <2>5, <1>8 DEF PublishedInAll
  <2>7. published[c] \in Nat /\ before < MaxPublished
    BY <2>5, <1>5, <1>7
  <2> QED BY <2>4, <2>5, <2>6, <2>7, <1>6
<1>10. BusTypeOK'
  <2>1. /\ clientAt' \in [BusClients -> ClientPlaces]
        /\ topic' \in [BusClients -> AllTopics \cup {<<>>}]
    BY <1>2, <1>5 DEF ClientPlaces
  <2>2. /\ unvisited' \in [BusClients -> SUBSET AllPatterns]
        /\ due' \in [BusClients -> SUBSET Subs]
    BY <1>2, <1>5
  <2> QED BY <1>1, <1>5, <1>8, <2>1, <2>2 DEF BusTypeOK
<1>11. TableFits'
  BY <1>1, <1>5 DEF TableFits
<1>12. ASSUME NEW j \in Subs PROVE InboxFits(j)'
  <2>1. PICK s \in Seq(BusMessages) : s = inbox[j]
    BY <1>2
  <2>2. inbox'[j] = s /\ wanted'[j] = wanted[j] /\ subAt'[j] = subAt[j]
    BY <2>1, <1>5
  <2>3. MessagesInOrder(s) /\ (subAt[j] = "new" => s = <<>>)
    BY <2>1, <1>1 DEF InboxFits
  <2>4. ASSUME NEW k \in DOMAIN s
        PROVE  /\ s[k].number <= published'[s[k].from]
               /\ clientAt'[s[k].from] = "publishing" /\ wanted[j] \in unvisited'[s[k].from] =>
                    s[k].number < published'[s[k].from]
    <3>1. s[k].from \in BusClients /\ s[k].number \in Nat
      BY <1>6, MessageParts
    <3>2. SentBefore(j, s[k])
      BY <2>1, <1>1 DEF InboxFits
    <3>3. CASE s[k].from = c
      <4>1. s[k].number <= published[c]
        BY <3>2, <3>3 DEF SentBefore
      <4>2. s[k].number < published'[c]
        BY <3>1, <4>1, <1>7, <1>8
      <4>3. published'[c] \in Nat
        BY <1>7, <1>8
      <4> QED BY <3>1, <3>3, <4>2, <4>3
    <3>4. CASE s[k].from # c
      <4>1. PICK d \in BusClients \ {c} : d = s[k].from
        BY <3>1, <3>4
      <4>2. published'[d] = published[d] /\ clientAt'[d] = clientAt[d] /\ unvisited'[d] = unvisited[d]
        BY <1>2, <1>5, <1>8
      <4> QED BY <3>2, <4>1, <4>2 DEF SentBefore
    <3> QED BY <3>3, <3>4
  <2>5. \A k \in DOMAIN inbox'[j] :
          /\ inbox'[j][k].number <= published'[inbox'[j][k].from]
          /\ clientAt'[inbox'[j][k].from] = "publishing" /\ wanted'[j] \in unvisited'[inbox'[j][k].from] =>
               inbox'[j][k].number < published'[inbox'[j][k].from]
    BY <2>2, <2>4
  <2>6. MessagesInOrder(inbox[j])'
    BY <2>2, <2>3 DEF MessagesInOrder
  <2> QED BY <2>2, <2>3, <2>5, <2>6 DEF InboxFits, SentBefore
<1>13. ASSUME NEW d \in BusClients PROVE PublishFits(d)'
  <2>1. CASE d # c
    <3>1. published'[d] = published[d] /\ clientAt'[d] = clientAt[d] /\ unvisited'[d] = unvisited[d]
          /\ due'[d] = due[d]
      BY <2>1, <1>2, <1>5, <1>8
    <3> QED BY <3>1, <1>1, <1>5, PublishSame
  <2>2. CASE d = c
    <3>1. /\ published'[c] >= 1 /\ due'[c] = D /\ unvisited'[c] = V
      BY <1>2, <1>5, <1>7, <1>8
    <3>2. ASSUME NEW i \in D PROVE subAt[i] = "live" /\ wanted[i] \in V
      <4>1. i \in Subs /\ subAt[i] = "live" /\ MatchesReference(wanted[i], t)
        BY <3>2, <1>4
      <4>2. wanted[i] # <<>>
        BY <4>1 DEF MatchesReference
      <4>3. wanted[i] \in AllPatterns /\ wanted[i] \in Seq(Names) /\ t \in Seq(Names)
        <5>1. <<>> \in Seq(Names)
          OBVIOUS
        <5> QED BY <4>1, <4>2, <5>1, <1>2, NamesOfBus
      <4>4. TopicMatches(wanted[i], t)
        BY <4>1, <4>3, TopicMatchesIsReference
      <4> QED BY <4>1, <4>3, <4>4, <1>3
    <3>3. \A i \in due'[d] :
            /\ subAt'[i] = "live"
            /\ i \in orphaned' \/ wanted'[i] \in unvisited'[d]
                 \/ Contains(inbox'[i], [from |-> d, number |-> published'[d]])
      BY <2>2, <3>1, <3>2, <1>5
    <3> QED BY <2>2, <3>1, <3>3 DEF PublishFits, Contains
  <2> QED BY <2>1, <2>2
<1> QED BY <1>9, <1>10, <1>11, <1>12, <1>13 DEF BusIInv

\* An entry is visited: its subscribers have not had the message yet.
LEMMA VisitKeepsBus ==
  ASSUME BusIInv, NEW c \in BusClients, NEW p \in AllPatterns, PublishVisits(c, p)
  PROVE  BusIInv'
<1>1. BusTypeOK /\ PublishedInAll <= MaxPublished /\ TableFits
      /\ (\A j \in Subs : InboxFits(j)) /\ (\A d \in BusClients : PublishFits(d))
  BY BusIParts
<1>2. /\ \A q \in DOMAIN table : table[q] \subseteq Subs
      /\ inbox \in [Subs -> Seq(BusMessages)]
      /\ published \in [BusClients -> 0..MaxPublished]
      /\ unvisited \in [BusClients -> SUBSET AllPatterns]
  BY <1>1, BusParts
<1>3. PICK reached \in SUBSET Subs : reached = IF p \in DOMAIN table THEN table[p] ELSE {}
  BY <1>2
<1>4. PICK m : m = [from |-> c, number |-> published[c]]
  OBVIOUS
<1>5. /\ UNCHANGED <<table, topicOf, wanted, subAt, orphaned, clientAt, topic, published, reply, due>>
      /\ clientAt[c] = "publishing" /\ p \in unvisited[c]
      /\ unvisited' = [unvisited EXCEPT ![c] = unvisited[c] \ {p}]
      /\ inbox' = [i \in Subs |-> IF i \in reached THEN Append(inbox[i], m) ELSE inbox[i]]
  BY <1>3, <1>4 DEF PublishVisits, subVars
<1>6. m \in BusMessages /\ m.from = c /\ m.number = published[c] /\ published[c] \in Nat
  <2>1. published[c] >= 1 /\ published[c] \in 0..MaxPublished /\ MaxPublished \in Nat
    BY <1>1, <1>2, <1>5, BusConstants DEF PublishFits
  <2>2. published[c] \in 1..MaxPublished /\ published[c] \in Nat
    BY <2>1
  <2> QED BY <1>4, <2>2 DEF BusMessages
<1>7. /\ unvisited' \in [BusClients -> SUBSET AllPatterns]
      /\ unvisited'[c] = unvisited[c] \ {p}
      /\ \A d \in BusClients \ {c} : unvisited'[d] = unvisited[d]
      /\ \A d \in BusClients : unvisited'[d] \subseteq unvisited[d]
  BY <1>2, <1>5
<1>8. ASSUME NEW i \in Subs
      PROVE  /\ inbox'[i] \in Seq(BusMessages)
             /\ i \in reached =>
                  /\ Len(inbox'[i]) = Len(inbox[i]) + 1 /\ inbox'[i][Len(inbox[i]) + 1] = m
                  /\ \A k \in 1..Len(inbox[i]) : inbox'[i][k] = inbox[i][k]
             /\ i \notin reached => inbox'[i] = inbox[i]
             /\ Len(inbox[i]) \in Nat
  <2>1. PICK s \in Seq(BusMessages) : s = inbox[i]
    BY <1>2
  <2>2. /\ Append(s, m) \in Seq(BusMessages)
        /\ Len(Append(s, m)) = Len(s) + 1 /\ Append(s, m)[Len(s) + 1] = m
        /\ \A k \in 1..Len(s) : Append(s, m)[k] = s[k]
        /\ Len(s) \in Nat
    BY <1>6
  <2>3. inbox'[i] = IF i \in reached THEN Append(s, m) ELSE s
    BY <2>1, <1>5
  <2> QED BY <2>1, <2>2, <2>3
<1>9. \A i \in Subs : \A e : Contains(inbox[i], e) => Contains(inbox'[i], e)
  <2> SUFFICES ASSUME NEW i \in Subs, NEW e, Contains(inbox[i], e) PROVE Contains(inbox'[i], e)
    OBVIOUS
  <2>1. PICK k \in 1..Len(inbox[i]) : inbox[i][k] = e
    BY DEF Contains
  <2>2. CASE i \in reached
    <3>1. k \in 1..Len(inbox'[i]) /\ inbox'[i][k] = e
      BY <2>1, <2>2, <1>8
    <3> QED BY <3>1 DEF Contains
  <2>3. CASE i \notin reached
    BY <2>3, <1>8 DEF Contains
  <2> QED BY <2>2, <2>3
<1>10. \A i \in reached : Contains(inbox'[i], m)
  <2> SUFFICES ASSUME NEW i \in reached PROVE Contains(inbox'[i], m)
    OBVIOUS
  <2>1. Len(inbox[i]) + 1 \in 1..Len(inbox'[i]) /\ inbox'[i][Len(inbox[i]) + 1] = m
    BY <1>3, <1>8
  <2> QED BY <2>1 DEF Contains
<1>11. BusTypeOK'
  <2>1. inbox' \in [Subs -> Seq(BusMessages)]
    BY <1>5, <1>8
  <2> QED BY <2>1, <1>1, <1>5, <1>7 DEF BusTypeOK
<1>12. TableFits'
  BY <1>1, <1>5 DEF TableFits
<1>13. \A i \in reached : wanted[i] = p /\ subAt[i] # "new"
  BY <1>1, <1>3 DEF TableFits
<1>14. ASSUME NEW i \in Subs PROVE InboxFits(i)'
  <2>1. CASE i \notin reached
    BY <2>1, <1>1, <1>5, <1>7, <1>8, InboxSame
  <2>2. CASE i \in reached
    <3>1. PICK s \in Seq(BusMessages) : s = inbox[i]
      BY <1>2
    <3>2. PICK r \in Seq(BusMessages) : r = inbox'[i]
      BY <1>8
    <3>3. PICK n \in Nat : n = Len(s)
      OBVIOUS
    <3>4. DOMAIN r = 1..n + 1 /\ r[n + 1] = m /\ \A k \in 1..n : r[k] = s[k]
      BY <2>2, <3>1, <3>2, <3>3, <1>8
    <3>5. DOMAIN s = 1..n
      BY <3>3
    <3>6. ASSUME NEW k \in 1..n
          PROVE  /\ s[k].from \in BusClients /\ s[k].number \in Nat
                 /\ s[k].number <= published[s[k].from]
                 /\ clientAt[s[k].from] = "publishing" /\ wanted[i] \in unvisited[s[k].from] =>
                      s[k].number < published[s[k].from]
      <4>1. SentBefore(i, s[k])
        BY <3>1, <3>5, <1>1 DEF InboxFits
      <4>2. s[k].from \in BusClients /\ s[k].number \in 1..MaxPublished
        BY <3>5, MessageParts
      <4>3. s[k].number \in Nat
        BY <4>2, BusConstants
      <4> QED BY <4>1, <4>2, <4>3 DEF SentBefore
    <3>7. \A k \in 1..n : s[k].from = c => s[k].number < published[c]
      BY <2>2, <3>6, <1>5, <1>13
    <3>8. ASSUME NEW k \in DOMAIN r
          PROVE  /\ r[k].number <= published[r[k].from]
                 /\ clientAt[r[k].from] = "publishing" /\ wanted[i] \in unvisited'[r[k].from] =>
                      r[k].number < published[r[k].from]
      <4>1. CASE k = n + 1
        <5>1. r[k] = m /\ wanted[i] \notin unvisited'[c]
          BY <2>2, <4>1, <3>4, <1>7, <1>13
        <5> QED BY <5>1, <1>6
      <4>2. CASE k # n + 1
        <5>1. k \in 1..n /\ r[k] = s[k]
          BY <4>2, <3>4
        <5> QED BY <5>1, <3>6, <1>7
      <4> QED BY <4>1, <4>2
    <3>9. MessagesInOrder(r)
      <4> SUFFICES ASSUME NEW j \in DOMAIN r, NEW k \in DOMAIN r, j < k, r[j].from = r[k].from
                   PROVE  r[j].number < r[k].number
        BY DEF MessagesInOrder
      <4>1. j \in 1..n /\ r[j] = s[j]
        BY <3>4
      <4>2. CASE k = n + 1
        <5>1. r[k].number = published[c] /\ s[j].from = c
          BY <4>1, <4>2, <3>4, <1>6
        <5> QED BY <5>1, <4>1, <3>7
      <4>3. CASE k # n + 1
        <5>1. k \in 1..n /\ r[k] = s[k]
          BY <4>3, <3>4
        <5>2. MessagesInOrder(s)
          BY <3>1, <1>1 DEF InboxFits
        <5> QED BY <5>1, <5>2, <4>1, <3>5 DEF MessagesInOrder
      <4> QED BY <4>2, <4>3
    <3>10. \A k \in DOMAIN inbox'[i] :
             /\ inbox'[i][k].number <= published'[inbox'[i][k].from]
             /\ clientAt'[inbox'[i][k].from] = "publishing" /\ wanted'[i] \in unvisited'[inbox'[i][k].from] =>
                  inbox'[i][k].number < published'[inbox'[i][k].from]
      BY <3>2, <3>8, <1>5
    <3>11. MessagesInOrder(inbox[i])'
      BY <3>2, <3>9 DEF MessagesInOrder
    <3>12. subAt'[i] # "new"
      BY <2>2, <1>5, <1>13
    <3> QED BY <3>10, <3>11, <3>12 DEF InboxFits, SentBefore
  <2> QED BY <2>1, <2>2
<1>15. ASSUME NEW d \in BusClients PROVE PublishFits(d)'
  <2>0. due[d] \subseteq Subs
    BY <1>1, BusParts
  <2>1. CASE d # c
    <3>1. /\ published'[d] = published[d] /\ due'[d] \subseteq due[d] /\ orphaned \subseteq orphaned'
          /\ clientAt'[d] = "publishing" => clientAt[d] = "publishing" /\ unvisited'[d] = unvisited[d]
      BY <2>1, <1>5, <1>7
    <3>2. \A i \in due'[d] : /\ subAt[i] = "live" => subAt'[i] = "live" /\ wanted'[i] = wanted[i]
                             /\ \A e : Contains(inbox[i], e) => Contains(inbox'[i], e)
      BY <2>0, <1>5, <1>9
    <3> QED BY <3>1, <3>2, <1>1, PublishSame
  <2>2. CASE d = c
    <3>1. /\ published[c] >= 1
          /\ \A i \in due[c] :
               /\ subAt[i] = "live"
               /\ i \in orphaned \/ wanted[i] \in unvisited[c] \/ Contains(inbox[i], m)
      BY <1>1, <1>4, <1>5 DEF PublishFits
    <3>2. ASSUME NEW i \in due[c]
          PROVE  i \in orphaned \/ wanted[i] \in unvisited'[c] \/ Contains(inbox'[i], m)
      <4>1. i \in Subs
        BY <2>0, <2>2
      <4>2. CASE wanted[i] = p /\ i \notin orphaned
        <5>1. i \in reached
          BY <4>1, <4>2, <3>1, <1>1, <1>3 DEF TableFits
        <5> QED BY <5>1, <1>10
      <4>3. CASE wanted[i] # p
        BY <4>1, <4>3, <3>1, <1>7, <1>9
      <4> QED BY <4>2, <4>3
    <3>3. \A i \in due'[d] :
            /\ subAt'[i] = "live"
            /\ i \in orphaned' \/ wanted'[i] \in unvisited'[d]
                 \/ Contains(inbox'[i], [from |-> d, number |-> published'[d]])
      BY <2>2, <3>1, <3>2, <1>4, <1>5
    <3> QED BY <2>2, <3>1, <3>3, <1>5 DEF PublishFits, Contains
  <2> QED BY <2>1, <2>2
<1>16. PublishedInAll' <= MaxPublished
  BY <1>1, <1>5, PublishedKept
<1> QED BY <1>11, <1>12, <1>14, <1>15, <1>16 DEF BusIInv

LEMMA BusStarts == BusInit => BusIInv
<1> SUFFICES ASSUME BusInit PROVE BusIInv
  OBVIOUS
<1>1. MaxPublished \in Nat /\ IsFiniteSet(BusClients)
  BY BusConstants
<1>2. DOMAIN table = {} /\ DOMAIN topicOf = {}
  BY DEF BusInit
<1>3. BusTypeOK
  BY <1>1, <1>2 DEF BusInit, BusTypeOK, SubPlaces, ClientPlaces
<1>4. PublishedInAll <= MaxPublished
  <2>1. \A c \in BusClients : published[c] = 0
    BY DEF BusInit
  <2>2. SumFunctionOnSet(published, BusClients) = 0
    <3>1. PICK g : g = [c \in BusClients |-> 0]
      OBVIOUS
    <3>2. published = g
      BY <3>1 DEF BusInit
    <3>3. {} \in SUBSET BusClients /\ (\A c \in BusClients : g[c] \in Int)
          /\ \A c \in BusClients \ {} : g[c] = 0
      BY <3>1
    <3>4. SumFunctionOnSet(g, BusClients) = SumFunctionOnSet(g, {})
      BY <3>3, <1>1, SumRestrict
    <3> QED BY <3>2, <3>4, SumEmpty
  <2> QED BY <2>2, <1>1 DEF PublishedInAll
<1>5. TableFits
  BY <1>2 DEF BusInit, TableFits
<1>6. ASSUME NEW i \in Subs PROVE InboxFits(i)
  <2>1. inbox[i] = <<>> /\ DOMAIN inbox[i] = {}
    BY DEF BusInit
  <2> QED BY <2>1 DEF InboxFits, MessagesInOrder
<1>7. \A c \in BusClients : PublishFits(c)
  BY DEF BusInit, PublishFits
<1> QED BY <1>3, <1>4, <1>5, <1>6, <1>7 DEF BusIInv

LEMMA BusStep == BusIInv /\ [BusNext]_busVars => BusIInv'
<1> SUFFICES ASSUME BusIInv, [BusNext]_busVars PROVE BusIInv'
  OBVIOUS
<1>0. /\ clientAt \in [BusClients -> ClientPlaces] /\ reply \in [BusClients -> Subs \cup {NoReply}]
      /\ topic \in [BusClients -> AllTopics \cup {<<>>}]
  BY BusParts, BusIParts
<1>1. ASSUME NEW i \in Subs, NEW p \in Patterns, Subscribe(i, p) PROVE BusIInv'
  <2>1. p \in AllPatterns /\ p # <<>>
    BY BusConstants DEF AllPatterns
  <2>2. SubscribePushes(i, p) /\ UNCHANGED <<clientAt, topic, published, unvisited, reply>>
    BY <1>1 DEF Subscribe, busClientVars
  <2> QED BY <2>1, <2>2, <1>0, SubscribeKeepsBus
<1>2. ASSUME NEW i \in Subs,
             SubscribeMaps(i) \/ Unsubscribe(i) \/ UnsubscribeRetains(i) \/ UnsubscribeCleansUp(i)
      PROVE  BusIInv'
  BY <1>2, MapKeepsBus, RetainKeepsBus
<1>3. ASSUME NEW c \in BusClients, NEW t \in AllTopics, Publish(c, t) PROVE BusIInv'
  BY <1>3, BeginKeepsBus DEF Publish
<1>4. ASSUME NEW c \in BusClients, NEW p \in AllPatterns, PublishVisits(c, p) PROVE BusIInv'
  BY <1>4, VisitKeepsBus
<1>5. ASSUME NEW c \in BusClients, NEW i \in Subs, NEW t \in Topics, Request(c, i, t) PROVE BusIInv'
  <2>1. PICK p : p = ReplyTopic(t, c)
    OBVIOUS
  <2>2. p \in AllPatterns /\ p # <<>>
    BY <2>1, NamesOfBus DEF AllPatterns
  <2>3. /\ SubscribePushes(i, p) /\ UNCHANGED <<published, unvisited>>
        /\ clientAt' = [clientAt EXCEPT ![c] = "subscribing"]
        /\ topic' = [topic EXCEPT ![c] = t] /\ reply' = [reply EXCEPT ![c] = i]
    BY <1>5, <2>1 DEF Request
  <2>4. /\ clientAt' \in [BusClients -> ClientPlaces]
        /\ \A d \in BusClients : clientAt'[d] = "publishing" => clientAt[d] = "publishing"
    BY <2>3, <1>0 DEF ClientPlaces
  <2>5. topic' \in [BusClients -> AllTopics \cup {<<>>}]
    BY <2>3, <1>0 DEF AllTopics
  <2>6. reply' \in [BusClients -> Subs \cup {NoReply}]
    BY <2>3, <1>0
  <2> QED BY <2>2, <2>3, <2>4, <2>5, <2>6, SubscribeKeepsBus
<1>6. ASSUME NEW c \in BusClients, RequestPublishes(c) PROVE BusIInv'
  BY <1>0, <1>6, BeginKeepsBus DEF RequestPublishes
<1>7. ASSUME NEW c \in BusClients,
             PublishEnds(c) \/ RequestRefused(c) \/ RequestStopsWaiting(c) \/ RequestReturns(c)
      PROVE  BusIInv'
  BY <1>7, ClientStepsKeepBus
<1>8. CASE UNCHANGED busVars
  BY <1>8 DEF busVars, BusIInv, BusTypeOK, PublishedInAll, TableFits, InboxFits, SentBefore, MessagesInOrder,
              PublishFits, Contains
<1> QED BY <1>1, <1>2, <1>3, <1>4, <1>5, <1>6, <1>7, <1>8 DEF BusNext

LEMMA BusInvariance == BusSpec => []BusIInv
BY BusStarts, BusStep, PTL DEF BusSpec

\* BusTypeOK, for any subscribers, clients and topics
\* (memory.rs:158-421).
THEOREM BusTyping == BusSpec => []BusTypeOK
<1>1. BusIInv => BusTypeOK
  BY BusIParts
<1> QED BY <1>1, BusInvariance, PTL

LEMMA FittingPublishesReach == BusIInv => PublishReachesAll
<1> SUFFICES ASSUME BusIInv PROVE PublishReachesAll
  OBVIOUS
<1>1. \A c \in BusClients : clientAt[c] = "publishing" /\ unvisited[c] = {} =>
        \A i \in due[c] \ orphaned : Contains(inbox[i], [from |-> c, number |-> published[c]])
  BY BusIParts DEF PublishFits
<1>2. \A i \in Subs : MessagesInOrder(inbox[i])
  BY BusIParts DEF InboxFits
<1> QED BY <1>1, <1>2 DEF PublishReachesAll, MessagesInOrder

\* PublishReachesAll: a publish that has visited the table has reached every
\* subscription in place from its beginning, and each inbox has the messages
\* of a client once and in their order, for any number of tasks.
THEOREM PublishesArrive == BusSpec => []PublishReachesAll
BY BusInvariance, FittingPublishesReach, PTL

(***************************************************************************)
(* The run that checks the eight together                                  *)
(***************************************************************************)
\* A step of the run is a step, or a stutter, of each of the eight, so each
\* keeps the types it has on its own.
THEOREM ServicesTyping == ServicesSpec => []TypeOK
<1> DEFINE IInv == /\ PoolIInv /\ PlansIInv /\ BusIInv /\ StoreIInv
                   /\ PaymentIInv /\ VestingIInv /\ EscrowIInv /\ GatewayIInv
<1>1. ServicesInit => IInv
  BY PoolStarts, PlansStarts, BusStarts, StoreStarts, PaymentStarts, VestingStarts, EscrowStarts,
     GatewayStarts DEF ServicesInit
<1>2. IInv /\ [ServicesNext]_servicesVars => IInv'
  <2> SUFFICES ASSUME IInv, [ServicesNext]_servicesVars PROVE IInv'
    OBVIOUS
  <2>1. /\ [PoolNext]_poolVars /\ [PlansNext]_plansVars /\ [BusNext]_busVars /\ [StoreNext]_storeVars
        /\ [PaymentNext]_paymentVars /\ [VestingNext]_vestingVars /\ [EscrowNext]_escrowVars
        /\ [GatewayNext]_gatewayVars
    BY DEF ServicesNext, servicesVars
  <2>2. PoolIInv' /\ PlansIInv' /\ BusIInv' /\ StoreIInv'
    BY <2>1, PoolStep, PlansStep, BusStep, StoreSteps
  <2>3. PaymentIInv' /\ VestingIInv' /\ EscrowIInv' /\ GatewayIInv'
    BY <2>1, PaymentStep, VestingStep, EscrowStep, GatewaySteps
  <2> QED BY <2>2, <2>3
<1>3. IInv => TypeOK
  BY DEF TypeOK, PoolIInv, PlansIInv, BusIInv, StoreIInv, StoreTyped, StoreTypes,
     PaymentIInv, VestingIInv, EscrowIInv, GatewayIInv
<1> HIDE DEF IInv
<1> QED BY <1>1, <1>2, <1>3, PTL DEF ServicesSpec
=============================================================================
