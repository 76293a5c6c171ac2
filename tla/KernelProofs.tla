---------------------------- MODULE KernelProofs ----------------------------
(***************************************************************************)
(* Safety of the kernel's executor, channel and pipe, for any sets of      *)
(* threads, workers and tasks, and any capacities and bounds; and type     *)
(* correctness of the run that checks them together.                       *)
(***************************************************************************)
EXTENDS MCKernel, GatewayAgentsProofs, SequenceTheorems, FiniteSetTheorems, TLAPS

(***************************************************************************)
(* Safety of KernelExecutor for any workers, tasks, priorities and bounds. *)
(*                                                                         *)
(* A task is in a place when a queue holds it, somebody is about to push   *)
(* it, or a worker has popped it and not yet given it up. ExecutorIInv     *)
(* says, apart from types: a task that was not spawned is in no place and  *)
(* nobody can wake or cancel it; a task never woken while it was in a      *)
(* place is in at most one, and in none once its future has completed;     *)
(* why a worker can be dead or stuck; what the cancel under way has done;  *)
(* and that a worker holding a task cancelled cleanly, and once, will see  *)
(* the cancellation.                                                       *)
(***************************************************************************)

OccursIn(q, t) == \E i \in 1 .. Len(q) : q[i] = t
OccursOnce(q, t) == \A i, j \in 1 .. Len(q) : q[i] = t /\ q[j] = t => i = j

PushPending(w, t) == <<t, w>> \in xPushing
Held(w, t) == Holding(w) /\ xTask[w] = t

InPlace(t) ==
  \E w \in Workers : OccursIn(xQueue[w], t) \/ PushPending(w, t) \/ Held(w, t)

OnePlace(t) ==
  /\ \A w \in Workers : OccursOnce(xQueue[w], t)
  /\ \A v, w \in Workers :
       /\ OccursIn(xQueue[v], t) /\ OccursIn(xQueue[w], t) => v = w
       /\ PushPending(v, t) /\ PushPending(w, t) => v = w
       /\ Held(v, t) /\ Held(w, t) => v = w
       /\ ~(OccursIn(xQueue[v], t) /\ PushPending(w, t))
       /\ ~(OccursIn(xQueue[v], t) /\ Held(w, t))
       /\ ~(PushPending(v, t) /\ Held(w, t))

\* The types, with what bounds the versions.
ExecutorTyped ==
  /\ ExecutorTypeOK
  /\ \A t \in KTasks : xVersion[t] <= xCalls
  /\ \A w \in Workers : Holding(w) => xTask[w] \in KTasks

UnspawnedNowhere ==
  \A t \in KTasks : xState[t] = "None" =>
    ~InPlace(t) /\ xPhase[t] = "new" /\ xWakers[t] = {} /\ xHandle[t] = "none" /\ t \notin xClean

OneEntryEach == \A t \in KTasks \ xExtra : OnePlace(t)

DoneIsGone ==
  \A t \in KTasks \ xExtra : xPhase[t] = "done" => xState[t] = "Zombie" /\ ~InPlace(t)

LossExplained ==
  \A w \in Workers :
    /\ xWorker[w] = "dead" => xTask[w] \in xExtra
    /\ xWorker[w] = "stuck" => xTask[w] \in SelfWakers

CancelProgress ==
  xCancel[2] # "no" =>
    /\ xCancel[1] \in KTasks
    /\ xHandle[xCancel[1]] = "stored"
    /\ xVersion[xCancel[1]] >= 1
    /\ xCancel[2] = "flagged" => xCancelled[xCancel[1]]

\* The worker has yet to look at the cancellation, and has not read an older
\* version of it.
Warned(w) == xWorker[w] = "begin" \/ (xWorker[w] = "check" /\ xSeen[w] = 1)

CleanIsSeen ==
  \A t \in xClean :
    /\ xVersion[t] >= 1
    /\ xCancelled[t]
    /\ xVersion[t] = 1 => \A w \in Workers : Held(w, t) => Warned(w)

ExecutorIInv ==
  /\ ExecutorTyped /\ UnspawnedNowhere /\ OneEntryEach /\ DoneIsGone
  /\ LossExplained /\ CancelProgress /\ CleanIsSeen

(***************************************************************************)
(* Queues                                                                  *)
(***************************************************************************)
\* A push goes to a position of the queue or just past its end.
LEMMA PositionsInQueue ==
  ASSUME NEW q \in Seq(KTasks), NEW t \in KTasks, NEW i \in InsertPositions(q, t)
  PROVE  i \in 1 .. Len(q) + 1
<1> DEFINE equal == {j \in DOMAIN q : KPriority[q[j]] = KPriority[t]}
           before == {j \in DOMAIN q : KPriority[q[j]] > KPriority[t]}
<1>1. Len(q) \in Nat /\ DOMAIN q = 1 .. Len(q)
  BY LenProperties
<1>2. CASE i \in equal
  BY <1>1, <1>2
<1>3. CASE i = 1 + Cardinality(before)
  <2>1. IsFiniteSet(1 .. Len(q)) /\ Cardinality(1 .. Len(q)) = Len(q)
    BY <1>1, FS_Interval
  <2>2. before \in SUBSET (1 .. Len(q))
    BY <1>1
  <2>3. IsFiniteSet(before) /\ Cardinality(before) <= Len(q)
    BY <2>1, <2>2, FS_Subset
  <2>4. Cardinality(before) \in Nat
    BY <2>3, FS_CardinalityType
  <2> QED BY <1>1, <1>3, <2>3, <2>4
<1>4. i \in equal \/ i = 1 + Cardinality(before)
  BY DEF InsertPositions
<1> QED BY <1>2, <1>3, <1>4

\* A push makes room for one entry and moves those behind it.
LEMMA InsertedElements ==
  ASSUME NEW q \in Seq(KTasks), NEW t \in KTasks, NEW i \in 1 .. Len(q) + 1
  PROVE  /\ InsertAt(q, i, t) \in Seq(KTasks)
         /\ Len(InsertAt(q, i, t)) = Len(q) + 1
         /\ \A j \in 1 .. Len(q) + 1 : InsertAt(q, i, t)[j] =
               IF j < i THEN q[j] ELSE IF j = i THEN t ELSE q[j - 1]
<1> DEFINE left == SubSeq(q, 1, i - 1)
           right == SubSeq(q, i, Len(q))
           middle == left \o <<t>>
           whole == middle \o right
<1>1. Len(q) \in Nat /\ \A j \in 1 .. Len(q) : q[j] \in KTasks
  BY LenProperties, ElementOfSeq
<1>2. /\ left \in Seq(KTasks) /\ Len(left) = i - 1
      /\ \A j \in 1 .. i - 1 : left[j] = q[j]
  <2>1. \A j \in 1 .. i - 1 : q[j] \in KTasks
    BY <1>1
  <2>2. 1 \in Int /\ i - 1 \in Int
    BY <1>1
  <2>3. /\ left \in Seq(KTasks)
        /\ Len(left) = IF 1 <= i - 1 THEN (i - 1) - 1 + 1 ELSE 0
        /\ \A j \in 1 .. (i - 1) - 1 + 1 : left[j] = q[1 + j - 1]
    BY <2>1, <2>2, SubSeqProperties
  <2> HIDE DEF left
  <2> QED BY <1>1, <2>3
<1>3. /\ right \in Seq(KTasks) /\ Len(right) = Len(q) - i + 1
      /\ \A j \in 1 .. Len(q) - i + 1 : right[j] = q[i + j - 1]
  <2>1. \A j \in i .. Len(q) : q[j] \in KTasks
    BY <1>1
  <2>2. i \in Int /\ Len(q) \in Int
    BY <1>1
  <2>3. /\ right \in Seq(KTasks)
        /\ Len(right) = IF i <= Len(q) THEN Len(q) - i + 1 ELSE 0
        /\ \A j \in 1 .. Len(q) - i + 1 : right[j] = q[i + j - 1]
    BY <2>1, <2>2, SubSeqProperties
  <2> HIDE DEF right
  <2> QED BY <1>1, <2>3
<1>4. <<t>> \in Seq(KTasks) /\ Len(<<t>>) = 1 /\ <<t>>[1] = t
  OBVIOUS
<1> HIDE DEF left, right
<1>5. /\ middle \in Seq(KTasks) /\ Len(middle) = i
      /\ \A j \in 1 .. i : middle[j] = IF j <= i - 1 THEN left[j] ELSE <<t>>[j - (i - 1)]
  <2>1. /\ middle \in Seq(KTasks)
        /\ Len(middle) = Len(left) + Len(<<t>>)
        /\ \A j \in 1 .. Len(left) + Len(<<t>>) :
             middle[j] = IF j <= Len(left) THEN left[j] ELSE <<t>>[j - Len(left)]
    BY <1>2, <1>4, ConcatProperties
  <2> HIDE DEF middle
  <2> QED BY <1>1, <1>2, <1>4, <2>1
<1>6. \A j \in 1 .. i : middle[j] = IF j < i THEN q[j] ELSE t
  <2> HIDE DEF middle
  <2> QED BY <1>1, <1>2, <1>4, <1>5
<1> HIDE DEF middle
<1>7. /\ whole \in Seq(KTasks)
      /\ Len(whole) = i + Len(right)
      /\ \A j \in 1 .. i + Len(right) :
           whole[j] = IF j <= i THEN middle[j] ELSE right[j - i]
  BY <1>3, <1>5, ConcatProperties
<1>8. InsertAt(q, i, t) = whole
  BY DEF InsertAt, left, right, middle
<1> HIDE DEF whole
<1>9. \A j \in 1 .. Len(q) + 1 : j > i => right[j - i] = q[j - 1]
  <2> SUFFICES ASSUME NEW j \in 1 .. Len(q) + 1, j > i PROVE right[j - i] = q[j - 1]
    OBVIOUS
  <2>1. j - i \in 1 .. Len(q) - i + 1 /\ i + (j - i) - 1 = j - 1
    BY <1>1
  <2> QED BY <2>1, <1>3
<1>10. i + Len(right) = Len(q) + 1
  BY <1>1, <1>3
<1>11. ASSUME NEW j \in 1 .. Len(q) + 1
       PROVE  whole[j] = IF j < i THEN q[j] ELSE IF j = i THEN t ELSE q[j - 1]
  <2>1. CASE j <= i
    <3>1. j \in 1 .. i /\ j \in 1 .. i + Len(right)
      BY <1>1, <1>10, <2>1
    <3> QED BY <3>1, <1>1, <1>6, <1>7, <2>1
  <2>2. CASE j > i
    <3>1. j \in 1 .. i + Len(right) /\ ~(j <= i) /\ j # i /\ ~(j < i)
      BY <1>1, <1>10, <2>2
    <3>2. whole[j] = right[j - i] /\ right[j - i] = q[j - 1]
      BY <1>7, <1>9, <2>2, <3>1
    <3> QED BY <3>1, <3>2
  <2> QED BY <1>1, <2>1, <2>2
<1> QED BY <1>7, <1>8, <1>10, <1>11

\* A push of t adds one entry of t and disturbs no other task.
LEMMA InsertedOccurrences ==
  ASSUME NEW q \in Seq(KTasks), NEW t \in KTasks, NEW i \in InsertPositions(q, t)
  PROVE  /\ InsertAt(q, i, t) \in Seq(KTasks)
         /\ ~OccursIn(q, t) => OccursOnce(InsertAt(q, i, t), t)
         /\ \A s \in KTasks \ {t} :
              /\ OccursIn(InsertAt(q, i, t), s) => OccursIn(q, s)
              /\ OccursOnce(q, s) => OccursOnce(InsertAt(q, i, t), s)
<1> DEFINE p == InsertAt(q, i, t)
<1>1. i \in 1 .. Len(q) + 1 /\ Len(q) \in Nat
  BY PositionsInQueue, LenProperties
<1>2. /\ p \in Seq(KTasks) /\ Len(p) = Len(q) + 1
      /\ \A j \in 1 .. Len(q) + 1 : p[j] =
            IF j < i THEN q[j] ELSE IF j = i THEN t ELSE q[j - 1]
  BY <1>1, InsertedElements
<1> HIDE DEF p
<1>3. ASSUME ~OccursIn(q, t) PROVE OccursOnce(p, t)
  <2>1. ASSUME NEW j \in 1 .. Len(p), p[j] = t PROVE j = i
    <3>1. CASE j < i
      BY <1>1, <1>2, <1>3, <2>1, <3>1 DEF OccursIn
    <3>2. CASE j > i
      <4>1. j - 1 \in 1 .. Len(q) /\ q[j - 1] = t
        BY <1>1, <1>2, <2>1, <3>2
      <4> QED BY <4>1, <1>3 DEF OccursIn
    <3> QED BY <1>1, <1>2, <3>1, <3>2
  <2> QED BY <2>1 DEF OccursOnce
<1>4. ASSUME NEW s \in KTasks \ {t}
      PROVE  /\ OccursIn(p, s) => OccursIn(q, s)
             /\ OccursOnce(q, s) => OccursOnce(p, s)
  <2> DEFINE back(j) == IF j < i THEN j ELSE j - 1
  <2>1. ASSUME NEW j \in 1 .. Len(p), p[j] = s
        PROVE  j # i /\ back(j) \in 1 .. Len(q) /\ q[back(j)] = s
    BY <1>1, <1>2, <2>1
  <2>2. OccursIn(p, s) => OccursIn(q, s)
    BY <2>1 DEF OccursIn
  <2>3. ASSUME OccursOnce(q, s), NEW j \in 1 .. Len(p), NEW k \in 1 .. Len(p), p[j] = s, p[k] = s
        PROVE  j = k
    <3>1. back(j) = back(k) /\ j # i /\ k # i
      BY <2>1, <2>3 DEF OccursOnce
    <3> QED BY <3>1, <1>1, <1>2
  <2> QED BY <2>2, <2>3 DEF OccursOnce
<1> QED BY <1>2, <1>3, <1>4 DEF p

\* What is left after a pop is the queue but for its last entry.
LEMMA PoppedElements ==
  ASSUME NEW q \in Seq(KTasks), q # <<>>
  PROVE  /\ Front(q) \in Seq(KTasks) /\ Len(Front(q)) = Len(q) - 1
         /\ \A j \in 1 .. Len(q) - 1 : Front(q)[j] = q[j]
<1> DEFINE p == Front(q)
<1>1. Len(q) \in Nat \ {0} /\ \A j \in 1 .. Len(q) : q[j] \in KTasks
  BY LenProperties, ElementOfSeq, EmptySeq
<1>2. \A j \in 1 .. Len(q) - 1 : q[j] \in KTasks
  BY <1>1
<1>3. 1 \in Int /\ Len(q) - 1 \in Int
  BY <1>1
<1>4. /\ p \in Seq(KTasks)
      /\ Len(p) = IF 1 <= Len(q) - 1 THEN (Len(q) - 1) - 1 + 1 ELSE 0
      /\ \A j \in 1 .. (Len(q) - 1) - 1 + 1 : p[j] = q[1 + j - 1]
  BY <1>2, <1>3, SubSeqProperties DEF Front
<1> HIDE DEF p
<1>5. (Len(q) - 1) - 1 + 1 = Len(q) - 1
  BY <1>1
<1>6. \A j \in 1 .. Len(q) - 1 : 1 + j - 1 = j
  BY <1>1
<1>7. Len(p) = Len(q) - 1
  <2>1. Len(p) = IF 1 <= Len(q) - 1 THEN Len(q) - 1 ELSE 0
    BY <1>4, <1>5
  <2>2. \A n \in Nat : n # 0 => (IF 1 <= n - 1 THEN n - 1 ELSE 0) = n - 1
    OBVIOUS
  <2> QED BY <2>1, <2>2, <1>1
<1>8. \A j \in 1 .. Len(q) - 1 : p[j] = q[j]
  BY <1>4, <1>5, <1>6
<1> QED BY <1>4, <1>7, <1>8 DEF p

\* Popping takes one entry of the last task and disturbs no other.
LEMMA PoppedOccurrences ==
  ASSUME NEW q \in Seq(KTasks), q # <<>>
  PROVE  /\ Front(q) \in Seq(KTasks) /\ Last(q) \in KTasks
         /\ OccursIn(q, Last(q))
         /\ OccursOnce(q, Last(q)) => ~OccursIn(Front(q), Last(q))
         /\ \A s \in KTasks :
              /\ OccursIn(Front(q), s) => OccursIn(q, s)
              /\ OccursOnce(q, s) => OccursOnce(Front(q), s)
<1> DEFINE p == Front(q)
<1>1. Len(q) \in Nat \ {0} /\ \A j \in 1 .. Len(q) : q[j] \in KTasks
  BY LenProperties, ElementOfSeq, EmptySeq
<1>2. /\ p \in Seq(KTasks) /\ Len(p) = Len(q) - 1
      /\ \A j \in 1 .. Len(q) - 1 : p[j] = q[j]
  BY PoppedElements
<1>3. Last(q) \in KTasks /\ OccursIn(q, Last(q))
  BY <1>1 DEF Last, OccursIn
<1> HIDE DEF p
<1>4. ASSUME OccursOnce(q, Last(q)), OccursIn(p, Last(q)) PROVE FALSE
  <2>1. PICK j \in 1 .. Len(p) : p[j] = Last(q)
    BY <1>4 DEF OccursIn
  <2>2. j \in 1 .. Len(q) /\ q[j] = q[Len(q)] /\ j # Len(q) /\ Len(q) \in 1 .. Len(q)
    BY <1>1, <1>2, <2>1 DEF Last
  <2> QED BY <2>2, <1>4 DEF OccursOnce, Last
<1>5. \A j \in 1 .. Len(p) : j \in 1 .. Len(q) /\ p[j] = q[j]
  BY <1>1, <1>2
<1>6. ASSUME NEW s \in KTasks
      PROVE  /\ OccursIn(p, s) => OccursIn(q, s)
             /\ OccursOnce(q, s) => OccursOnce(p, s)
  BY <1>5 DEF OccursIn, OccursOnce
<1> QED BY <1>2, <1>3, <1>4, <1>6 DEF p

(***************************************************************************)
(* Types                                                                   *)
(***************************************************************************)
\* What a step makes of the queues are queues.
LEMMA TypedQueues ==
  ASSUME ExecutorTyped, ExecutorNext
  PROVE  xQueue' \in [Workers -> Seq(KTasks)]
<1> USE DEF ExecutorTyped, ExecutorTypeOK
<1>1. ASSUME NEW w \in Workers, NEW v \in Workers, xQueue[v] # <<>>, KTake(w, v)
      PROVE  xQueue' \in [Workers -> Seq(KTasks)]
  <2>1. Front(xQueue[v]) \in Seq(KTasks)
    BY <1>1, PoppedOccurrences
  <2> QED BY <2>1, <1>1 DEF KTake
<1>2. ASSUME NEW t \in KTasks, NEW w \in Workers, KPush(t, w)
      PROVE  xQueue' \in [Workers -> Seq(KTasks)]
  <2>1. PICK i \in InsertPositions(xQueue[w], t) :
          xQueue' = [xQueue EXCEPT ![w] = InsertAt(@, i, t)]
    BY <1>2 DEF KPush
  <2>2. InsertAt(xQueue[w], i, t) \in Seq(KTasks)
    BY InsertedOccurrences
  <2> QED BY <2>1, <2>2
<1>3. CASE UNCHANGED xQueue
  BY <1>3
<1>4. ASSUME NEW w \in Workers, WorkerStep(w)
      PROVE  xQueue' \in [Workers -> Seq(KTasks)]
  <2>1. CASE PopOwn(w)
    BY <1>1, <2>1 DEF PopOwn
  <2>2. CASE \E v \in Workers : StealFrom(w, v)
    BY <1>1, <2>2 DEF StealFrom
  <2>3. CASE UNCHANGED xQueue
    BY <2>3
  <2> QED
    BY <1>4, <2>1, <2>2, <2>3
    DEF WorkerStep, OwnIsEmpty, NothingToSteal, WorkerStops, WorkerGoes, Begin, CheckCancelled,
        CheckPasses, WorkerPolls, PollTask, PollPanics, PollSelfWakes
<1> QED
  BY <1>2, <1>3, <1>4
  DEF ExecutorNext, KSpawn, StoreHandle, CancelBumps, AwaitTask, KWake, MakeReady, CancelFlags,
      CancelReports, KShutdown

LEMMA TypedStep ==
  ASSUME ExecutorTyped, CancelProgress, ExecutorNext
  PROVE  ExecutorTyped'
<1> USE ExecutorAssumption DEF ExecutorTyped, ExecutorTypeOK, Holding, WorkerPlaces, executorVars, taskVars,
                               cancelVars, workerVars
<1>q. xQueue' \in [Workers -> Seq(KTasks)]
  BY TypedQueues
<1>1. ASSUME NEW t \in KTasks, KSpawn(t)
      PROVE  ExecutorTyped'
  BY <1>q, <1>1 DEF KSpawn
<1>2. ASSUME NEW t \in KTasks, StoreHandle(t)
      PROVE  ExecutorTyped'
  BY <1>q, <1>2 DEF StoreHandle
<1>3. ASSUME NEW t \in KTasks, CancelBumps(t)
      PROVE  ExecutorTyped'
  BY <1>q, <1>3 DEF CancelBumps, CallFromOutside
<1>4. ASSUME NEW t \in KTasks, AwaitTask(t)
      PROVE  ExecutorTyped'
  BY <1>q, <1>4 DEF AwaitTask, CallFromOutside
<1>5. ASSUME NEW t \in KTasks, NEW w \in Workers, KPush(t, w)
      PROVE  ExecutorTyped'
  BY <1>q, <1>5 DEF KPush
<1>6. ASSUME NEW t \in KTasks, NEW w \in Workers, KWake(t, w)
      PROVE  ExecutorTyped'
  <2>1. /\ xCalls' \in 0 .. MaxCalls
        /\ \A s \in KTasks : xVersion[s] <= xCalls'
    BY <1>6 DEF KWake, MakeReady, CallFromOutside
  <2>2. /\ xState' = [xState EXCEPT ![t] = "Ready"]
        /\ xPushing' = xPushing \cup {<<t, w>>}
        /\ xExtra' \subseteq KTasks
        /\ UNCHANGED <<xQueue, xPhase, xLocked, xPolls, xWakers, xInfo, xShutdown, cancelVars, workerVars>>
    BY <1>6 DEF KWake, MakeReady
  <2> QED BY <2>1, <2>2
<1>7. ASSUME NEW w \in Workers, OwnIsEmpty(w)
      PROVE  ExecutorTyped'
  BY <1>q, <1>7 DEF OwnIsEmpty, WorkerGoes
<1>8. ASSUME NEW w \in Workers, NothingToSteal(w)
      PROVE  ExecutorTyped'
  BY <1>q, <1>8 DEF NothingToSteal, WorkerGoes
<1>9. ASSUME NEW w \in Workers, WorkerStops(w)
      PROVE  ExecutorTyped'
  BY <1>q, <1>9 DEF WorkerStops, WorkerGoes
<1>10. ASSUME NEW w \in Workers, Begin(w)
      PROVE  ExecutorTyped'
  BY <1>q, <1>10 DEF Begin
<1>11. ASSUME NEW w \in Workers, CheckCancelled(w)
      PROVE  ExecutorTyped'
  BY <1>q, <1>11 DEF CheckCancelled
<1>12. ASSUME NEW w \in Workers, CheckPasses(w)
      PROVE  ExecutorTyped'
  BY <1>q, <1>12 DEF CheckPasses, WorkerPolls
<1>13. ASSUME NEW w \in Workers, PollTask(w)
      PROVE  ExecutorTyped'
  <2> DEFINE t == xTask[w]
  <2>1. t \in KTasks
    BY <1>13 DEF PollTask
  <2>2. PICK phase \in {"new", "body", "done"} :
          /\ phase # "done" => xPolls < MaxPending
          /\ xPhase' = [xPhase EXCEPT ![t] = phase]
          /\ xState' = IF phase = "done" THEN [xState EXCEPT ![t] = "Zombie"] ELSE xState
          /\ xPolls' = IF phase = "done" THEN xPolls ELSE xPolls + 1
          /\ xWakers' = IF phase = "done" THEN xWakers ELSE [xWakers EXCEPT ![t] = @ \cup {w}]
          /\ xInfo' = [xInfo EXCEPT ![t] =
                CASE phase = xPhase[t] -> @
                  [] phase = "done" -> "Zombie"
                  [] OTHER -> "Running"]
    BY <1>13 DEF PollTask
  <2>3. /\ UNCHANGED <<xQueue, xPushing, xLocked, xCalls, xShutdown, xExtra, xSeen, cancelVars>>
        /\ xWorker' = [xWorker EXCEPT ![w] = "find"]
        /\ xTask' = [xTask EXCEPT ![w] = NoKTask]
    BY <1>13 DEF PollTask
  <2> HIDE DEF t
  <2>4. xPhase' \in [KTasks -> {"new", "body", "done"}] /\ xPolls' \in 0 .. MaxPending
    BY <2>1, <2>2
  <2>5. xState' \in [KTasks -> {"None", "Ready", "Running", "Zombie"}]
    BY <2>1, <2>2
  <2>6. xWakers' \in [KTasks -> SUBSET Workers]
    BY <2>1, <2>2
  <2>7. xInfo' \in [KTasks -> {"None", "Ready", "Running", "Zombie"}]
    <3>1. CASE phase = xPhase[t]
      BY <2>1, <2>2, <3>1
    <3>2. CASE phase # xPhase[t] /\ phase = "done"
      BY <2>1, <2>2, <3>2
    <3>3. CASE phase # xPhase[t] /\ phase # "done"
      BY <2>1, <2>2, <3>3
    <3> QED BY <3>1, <3>2, <3>3
  <2> QED BY <1>q, <2>3, <2>4, <2>5, <2>6, <2>7
<1>14. ASSUME NEW w \in Workers, PollPanics(w)
      PROVE  ExecutorTyped'
  BY <1>q, <1>14 DEF PollPanics, WorkerGoes
<1>15. ASSUME NEW w \in Workers, PollSelfWakes(w)
      PROVE  ExecutorTyped'
  BY <1>q, <1>15 DEF PollSelfWakes
<1>16. ASSUME CancelFlags
      PROVE  ExecutorTyped'
  <2>1. xCancel[1] \in KTasks
    BY <1>16 DEF CancelFlags, CancelProgress
  <2> QED BY <1>q, <2>1, <1>16 DEF CancelFlags
<1>17. ASSUME CancelReports
      PROVE  ExecutorTyped'
  BY <1>q, <1>17 DEF CancelReports
<1>18. ASSUME KShutdown
      PROVE  ExecutorTyped'
  BY <1>q, <1>18 DEF KShutdown, CallFromOutside
<1>19. ASSUME NEW w \in Workers, NEW v \in Workers, xQueue[v] # <<>>, KTake(w, v)
       PROVE  ExecutorTyped'
  <2>1. Last(xQueue[v]) \in KTasks
    BY <1>19, PoppedOccurrences
  <2> QED BY <1>q, <2>1, <1>19 DEF KTake
<1>20. ASSUME NEW w \in Workers, PopOwn(w) \/ \E v \in Workers : StealFrom(w, v)
       PROVE  ExecutorTyped'
  BY <1>19, <1>20, Zenon DEF PopOwn, StealFrom
<1> QED
  BY <1>1, <1>2, <1>3, <1>4, <1>5, <1>6, <1>7, <1>8, <1>9, <1>10, <1>11, <1>12, <1>13, <1>14,
     <1>15, <1>16, <1>17, <1>18, <1>20, Zenon
  DEF ExecutorNext, WorkerStep

(***************************************************************************)
(* Places                                                                  *)
(***************************************************************************)
\* A step that only takes tasks out of places.
LEMMA LeavingPlaces ==
  ASSUME NEW s \in KTasks, UNCHANGED <<xQueue, xPushing>>,
         \A w \in Workers : Held(w, s)' => Held(w, s)
  PROVE  (OnePlace(s) => OnePlace(s)') /\ (InPlace(s)' => InPlace(s))
BY DEF OnePlace, InPlace, PushPending

\* Popping moves a task from its queue into the hands of a worker.
LEMMA TakingPlaces ==
  ASSUME ExecutorTyped, NEW s \in KTasks, NEW w \in Workers, NEW v \in Workers,
         ~Holding(w), xQueue[v] # <<>>, KTake(w, v)
  PROVE  (OnePlace(s) => OnePlace(s)') /\ (InPlace(s)' => InPlace(s))
<1> DEFINE last == Last(xQueue[v])
<1>1. xQueue[v] \in Seq(KTasks) /\ xQueue \in [Workers -> Seq(KTasks)]
  BY DEF ExecutorTyped, ExecutorTypeOK
<1>2. /\ xQueue' = [xQueue EXCEPT ![v] = Front(xQueue[v])]
      /\ xWorker' = [xWorker EXCEPT ![w] = "begin"]
      /\ xTask' = [xTask EXCEPT ![w] = last]
      /\ xPushing' = xPushing
  BY DEF KTake
<1>3. /\ \A x \in Workers \ {v} : xQueue'[x] = xQueue[x]
      /\ xQueue'[v] = Front(xQueue[v])
  BY <1>1, <1>2
<1>4. /\ OccursIn(xQueue[v], last)
      /\ OccursOnce(xQueue[v], last) => ~OccursIn(Front(xQueue[v]), last)
      /\ OccursIn(Front(xQueue[v]), s) => OccursIn(xQueue[v], s)
      /\ OccursOnce(xQueue[v], s) => OccursOnce(Front(xQueue[v]), s)
  BY <1>1, PoppedOccurrences
<1>5. ASSUME NEW x \in Workers
      PROVE  /\ Held(x, s)' <=> IF x = w THEN s = last ELSE Held(x, s)
             /\ x = w => ~Held(x, s)
  BY <1>2 DEF Held, Holding, ExecutorTyped, ExecutorTypeOK
<1>6. ASSUME NEW x \in Workers
      PROVE  /\ OccursIn(xQueue[x], s)' => OccursIn(xQueue[x], s)
             /\ OccursOnce(xQueue[x], s) => OccursOnce(xQueue[x], s)'
             /\ PushPending(x, s)' <=> PushPending(x, s)
  BY <1>2, <1>3, <1>4 DEF OccursIn, OccursOnce, PushPending
<1>7. InPlace(s)' => InPlace(s)
  <2>1. s = last => InPlace(s)
    BY <1>4 DEF InPlace
  <2> HIDE DEF last
  <2> QED BY <2>1, <1>5, <1>6, Zenon DEF InPlace
<1>8. ASSUME OnePlace(s) PROVE OnePlace(s)'
  <2>1. ASSUME s = last, NEW x \in Workers
        PROVE  ~OccursIn(xQueue[x], s)' /\ ~PushPending(x, s)' /\ ~Held(x, s)
    <3>1. OccursIn(xQueue[v], s) /\ OccursOnce(xQueue[v], s)
      BY <1>4, <1>8, <2>1 DEF OnePlace
    <3>2. ~PushPending(x, s) /\ ~Held(x, s) /\ (OccursIn(xQueue[x], s) => x = v)
      BY <3>1, <1>8 DEF OnePlace
    <3>3. CASE x = v
      <4>1. ~OccursIn(xQueue'[v], s)
        BY <1>3, <1>4, <2>1, <3>1
      <4> QED BY <3>2, <3>3, <4>1, <1>6 DEF OccursIn
    <3>4. CASE x # v
      BY <3>2, <3>4, <1>6
    <3> QED BY <3>3, <3>4
  <2>2. \A x \in Workers : OccursOnce(xQueue[x], s)'
    BY <1>6, <1>8 DEF OnePlace
  <2>3. ASSUME NEW x \in Workers, NEW y \in Workers
        PROVE  /\ OccursIn(xQueue[x], s)' /\ OccursIn(xQueue[y], s)' => x = y
               /\ PushPending(x, s)' /\ PushPending(y, s)' => x = y
               /\ Held(x, s)' /\ Held(y, s)' => x = y
               /\ ~(OccursIn(xQueue[x], s)' /\ PushPending(y, s)')
               /\ ~(OccursIn(xQueue[x], s)' /\ Held(y, s)')
               /\ ~(PushPending(x, s)' /\ Held(y, s)')
    <3> HIDE DEF last
    <3>1. CASE s = last
      BY <2>1, <3>1, <1>5
    <3>2. CASE s # last
      BY <3>2, <1>5, <1>6, <1>8, Zenon DEF OnePlace
    <3> QED BY <3>1, <3>2
  <2> QED BY <2>2, <2>3, Zenon DEF OnePlace
<1> QED BY <1>7, <1>8

\* A push moves a task from hands that were about to push it into a queue.
LEMMA PushingPlaces ==
  ASSUME ExecutorTyped, NEW s \in KTasks, NEW t \in KTasks, NEW w \in Workers, KPush(t, w)
  PROVE  (OnePlace(s) => OnePlace(s)') /\ (InPlace(s)' => InPlace(s))
<1>1. xQueue[w] \in Seq(KTasks) /\ xQueue \in [Workers -> Seq(KTasks)]
  BY DEF ExecutorTyped, ExecutorTypeOK
<1>2. PICK i \in InsertPositions(xQueue[w], t) :
        xQueue' = [xQueue EXCEPT ![w] = InsertAt(xQueue[w], i, t)]
  BY DEF KPush
<1> DEFINE longer == InsertAt(xQueue[w], i, t)
<1>3. /\ \A x \in Workers \ {w} : xQueue'[x] = xQueue[x]
      /\ xQueue'[w] = longer
  BY <1>1, <1>2
<1>4. /\ ~OccursIn(xQueue[w], t) => OccursOnce(longer, t)
      /\ s # t => /\ OccursIn(longer, s) => OccursIn(xQueue[w], s)
                  /\ OccursOnce(xQueue[w], s) => OccursOnce(longer, s)
  BY <1>1, InsertedOccurrences
<1> HIDE DEF longer
<1>5. PushPending(w, t) /\ xPushing' = xPushing \ {<<t, w>>}
  BY DEF KPush, PushPending
<1>6. \A x \in Workers :
        /\ Held(x, s)' <=> Held(x, s)
        /\ PushPending(x, s)' <=> PushPending(x, s) /\ ~(x = w /\ s = t)
  BY <1>5 DEF KPush, Held, Holding, PushPending, workerVars
<1>7. \A x \in Workers : x # w \/ s # t =>
        /\ OccursIn(xQueue[x], s)' => OccursIn(xQueue[x], s)
        /\ OccursOnce(xQueue[x], s) => OccursOnce(xQueue[x], s)'
  BY <1>3, <1>4 DEF OccursIn, OccursOnce
<1>8. InPlace(s)' => InPlace(s)
  BY <1>5, <1>6, <1>7, Zenon DEF InPlace
<1>9. ASSUME OnePlace(s) PROVE OnePlace(s)'
  <2>1. CASE s # t
    BY <2>1, <1>6, <1>7, <1>9, Zenon DEF OnePlace
  <2>2. CASE s = t
    <3>1. \A x \in Workers :
            /\ ~OccursIn(xQueue[x], s) /\ ~Held(x, s)'
            /\ ~PushPending(x, s)'
      BY <2>2, <1>5, <1>6, <1>9, Zenon DEF OnePlace
    <3>2. \A x \in Workers : OccursOnce(xQueue[x], s)'
      <4>1. OccursOnce(xQueue[w], s)'
        BY <2>2, <3>1, <1>3, <1>4 DEF OccursOnce
      <4> QED BY <4>1, <1>7, <1>9, Zenon DEF OnePlace
    <3>3. \A x \in Workers : OccursIn(xQueue[x], s)' => x = w
      BY <3>1, <1>7
    <3> QED BY <3>1, <3>2, <3>3, Zenon DEF OnePlace
  <2> QED BY <2>1, <2>2
<1> QED BY <1>8, <1>9

\* A spawn or a wake puts its task into the hands of a pusher.
LEMMA EnteringPlaces ==
  ASSUME NEW s \in KTasks, NEW t \in KTasks, NEW w \in Workers,
         xPushing' = xPushing \cup {<<t, w>>},
         UNCHANGED <<xQueue, xWorker, xTask>>
  PROVE  /\ s # t => (OnePlace(s) => OnePlace(s)') /\ (InPlace(s)' => InPlace(s))
         /\ ~InPlace(s) => OnePlace(s)'
<1>1. \A x \in Workers :
        /\ Held(x, s)' <=> Held(x, s)
        /\ PushPending(x, s)' <=> PushPending(x, s) \/ (s = t /\ x = w)
        /\ OccursIn(xQueue[x], s)' <=> OccursIn(xQueue[x], s)
        /\ OccursOnce(xQueue[x], s)' <=> OccursOnce(xQueue[x], s)
  BY DEF Held, Holding, PushPending
<1>2. ASSUME s # t
      PROVE  (OnePlace(s) => OnePlace(s)') /\ (InPlace(s)' => InPlace(s))
  BY <1>1, <1>2, Zenon DEF OnePlace, InPlace
<1>3. ASSUME ~InPlace(s) PROVE OnePlace(s)'
  <2>1. \A x \in Workers :
          /\ ~OccursIn(xQueue[x], s)' /\ ~Held(x, s)'
          /\ PushPending(x, s)' => x = w
          /\ OccursOnce(xQueue[x], s)'
    BY <1>1, <1>3 DEF InPlace, OccursIn, OccursOnce
  <2> QED BY <2>1, Zenon DEF OnePlace
<1> QED BY <1>2, <1>3

\* A spawn or a wake of t.
Enters(t) == KSpawn(t) \/ \E w \in Workers : KWake(t, w)

\* Every other step than a spawn or a wake of s leaves s in at most as many
\* places as before.
LEMMA PlacesStep ==
  ASSUME ExecutorTyped, ExecutorNext, NEW s \in KTasks
  PROVE  \/ (OnePlace(s) => OnePlace(s)') /\ (InPlace(s)' => InPlace(s))
         \/ Enters(s) /\ (~InPlace(s) => OnePlace(s)')
<1> DEFINE Calm == (OnePlace(s) => OnePlace(s)') /\ (InPlace(s)' => InPlace(s))
<1>1. ASSUME UNCHANGED <<xQueue, xPushing, xWorker, xTask>> PROVE Calm
  BY <1>1, LeavingPlaces DEF Held, Holding
<1>2. ASSUME NEW w \in Workers, UNCHANGED <<xQueue, xPushing>>,
             \A v \in Workers \ {w} : xWorker'[v] = xWorker[v] /\ xTask'[v] = xTask[v],
             Held(w, s)' => Held(w, s)
      PROVE  Calm
  <2>1. \A v \in Workers : Held(v, s)' => Held(v, s)
    BY <1>2 DEF Held, Holding
  <2> QED BY <1>2, <2>1, LeavingPlaces
<1>3. ASSUME NEW w \in Workers, WorkerStep(w) PROVE Calm
  <2> USE DEF ExecutorTyped, ExecutorTypeOK
  <2>1. CASE PopOwn(w)
    BY <2>1, TakingPlaces DEF PopOwn, Holding
  <2>2. CASE \E v \in Workers : StealFrom(w, v)
    BY <2>2, TakingPlaces DEF StealFrom, Holding
  <2>3. CASE OwnIsEmpty(w) \/ NothingToSteal(w) \/ WorkerStops(w) \/ PollPanics(w)
    BY <2>3, <1>2 DEF OwnIsEmpty, NothingToSteal, WorkerStops, PollPanics, WorkerGoes, Held, Holding
  <2>4. CASE Begin(w) \/ CheckPasses(w)
    BY <2>4, <1>2 DEF Begin, CheckPasses, WorkerPolls, Held, Holding
  <2>5. CASE CheckCancelled(w) \/ PollTask(w) \/ PollSelfWakes(w)
    <3>1. /\ UNCHANGED <<xQueue, xPushing>>
          /\ \E place \in {"find", "stuck"} : xWorker' = [xWorker EXCEPT ![w] = place]
          /\ xTask' = [xTask EXCEPT ![w] = NoKTask] \/ xTask' = xTask
      BY <2>5 DEF CheckCancelled, PollTask, PollSelfWakes
    <3>2. /\ xWorker'[w] \in {"find", "stuck"}
          /\ \A v \in Workers \ {w} : xWorker'[v] = xWorker[v] /\ xTask'[v] = xTask[v]
      BY <3>1
    <3>3. ~Held(w, s)'
      BY <3>2 DEF Held, Holding
    <3> QED BY <3>1, <3>2, <3>3, <1>2
  <2> HIDE DEF Calm
  <2> QED BY <1>3, <2>1, <2>2, <2>3, <2>4, <2>5, Zenon DEF WorkerStep
<1>4. ASSUME NEW t \in KTasks, NEW w \in Workers, KPush(t, w) PROVE Calm
  BY <1>4, PushingPlaces
<1>5. ASSUME NEW t \in KTasks, Enters(t)
      PROVE  Calm \/ (Enters(s) /\ (~InPlace(s) => OnePlace(s)'))
  <2>1. PICK w \in Workers : /\ xPushing' = xPushing \cup {<<t, w>>}
                             /\ UNCHANGED <<xQueue, xWorker, xTask>>
    <3>1. CASE KSpawn(t)
      <4>1. KHome[t] \in Workers
        BY ExecutorAssumption
      <4> QED BY <3>1, <4>1 DEF KSpawn, workerVars
    <3>2. CASE \E w \in Workers : KWake(t, w)
      BY <3>2 DEF KWake, MakeReady, workerVars
    <3> QED BY <1>5, <3>1, <3>2 DEF Enters
  <2> QED BY <1>5, <2>1, EnteringPlaces
<1>6. ASSUME NEW t \in KTasks, StoreHandle(t) \/ CancelBumps(t) \/ AwaitTask(t) PROVE Calm
  BY <1>1, <1>6 DEF StoreHandle, CancelBumps, AwaitTask, workerVars
<1>7. ASSUME CancelFlags \/ CancelReports \/ KShutdown PROVE Calm
  BY <1>1, <1>7 DEF CancelFlags, CancelReports, KShutdown, workerVars
<1> HIDE DEF Calm
<1> DEFINE Done == Calm \/ (Enters(s) /\ (~InPlace(s) => OnePlace(s)'))
<1>8. ASSUME NEW t \in KTasks,
             \/ KSpawn(t) \/ StoreHandle(t) \/ CancelBumps(t) \/ AwaitTask(t)
             \/ \E w \in Workers : KPush(t, w) \/ KWake(t, w)
      PROVE  Done
  <2>1. CASE StoreHandle(t) \/ CancelBumps(t) \/ AwaitTask(t)
    BY <1>6, <2>1, Zenon
  <2>2. CASE Enters(t)
    BY <1>5, <2>2, Zenon
  <2>3. CASE \E w \in Workers : KPush(t, w)
    BY <1>4, <2>3, Zenon
  <2> HIDE DEF Done
  <2> QED BY <1>8, <2>1, <2>2, <2>3, Zenon DEF Enters
<1>9. (\E w \in Workers : WorkerStep(w)) => Done
  BY <1>3, Zenon
<1>10. CancelFlags \/ CancelReports \/ KShutdown => Done
  BY <1>7, Zenon
<1> HIDE DEF Done
<1>11. Done
  BY <1>8, <1>9, <1>10, Zenon DEF ExecutorNext
<1> QED BY <1>11, Zenon DEF Done, Calm

\* A task that somebody holds is in a place.
LEMMA HeldIsInPlace ==
  ASSUME NEW w \in Workers, Holding(w)
  PROVE  InPlace(xTask[w])
BY DEF InPlace, Held

\* Runnable is being in a place.
LEMMA RunnableIsInPlace ==
  ASSUME ExecutorTyped, NEW t \in KTasks
  PROVE  InPlace(t) => Runnable(t)
BY DEF InPlace, Runnable, Queued, Contains, OccursIn, PushPending, Held

\* The history only grows, and a wake of a task in a place enters it.
LEMMA ExtraGrows ==
  ASSUME ExecutorTyped, ExecutorNext
  PROVE  /\ xExtra \subseteq xExtra'
         /\ \A t \in KTasks, w \in Workers :
              KWake(t, w) /\ t \notin xExtra' => ~InPlace(t)
<1>1. ASSUME NEW t \in KTasks, NEW w \in Workers, MakeReady(t, w)
      PROVE  xExtra \subseteq xExtra' /\ (t \notin xExtra' => ~InPlace(t))
  BY <1>1, RunnableIsInPlace DEF MakeReady
<1>2. CASE UNCHANGED xExtra
  BY <1>1, <1>2 DEF KWake
<1>3. CASE \E t \in KTasks, w \in Workers : KWake(t, w)
  BY <1>1, <1>3 DEF KWake
<1> QED
  BY <1>2, <1>3
  DEF ExecutorNext, KSpawn, StoreHandle, CancelBumps, AwaitTask, KPush, CancelFlags, CancelReports,
      KShutdown, WorkerStep, PopOwn, StealFrom, KTake, OwnIsEmpty, NothingToSteal, WorkerStops,
      WorkerGoes, Begin, CheckCancelled, CheckPasses, WorkerPolls, PollTask, PollPanics,
      PollSelfWakes

LEMMA OneEntryStep ==
  ASSUME ExecutorTyped, UnspawnedNowhere, OneEntryEach, ExecutorNext
  PROVE  OneEntryEach'
<1> SUFFICES ASSUME NEW s \in KTasks, s \notin xExtra' PROVE OnePlace(s)'
  BY DEF OneEntryEach
<1>1. OnePlace(s)
  BY ExtraGrows DEF OneEntryEach
<1>2. Enters(s) => ~InPlace(s)
  BY ExtraGrows DEF Enters, KSpawn, UnspawnedNowhere
<1> QED BY <1>1, <1>2, PlacesStep

(***************************************************************************)
(* The rest of the invariant                                               *)
(***************************************************************************)
\* What a poll does to the task and to the worker.
LEMMA PollEffect ==
  ASSUME ExecutorTyped, NEW w \in Workers, PollTask(w)
  PROVE  /\ Held(w, xTask[w]) /\ xTask[w] \in KTasks
         /\ xPhase[xTask[w]] # "done" /\ xWorker[w] = "poll"
         /\ \A s \in KTasks \ {xTask[w]} :
               /\ xPhase'[s] = xPhase[s] /\ xState'[s] = xState[s]
               /\ xWakers'[s] = xWakers[s] /\ xInfo'[s] = xInfo[s]
         /\ xState'[xTask[w]] \in {xState[xTask[w]], "Zombie"}
         /\ xPhase'[xTask[w]] = "done" => xState'[xTask[w]] = "Zombie"
         /\ xWorker' = [xWorker EXCEPT ![w] = "find"]
         /\ \A v \in Workers \ {w} : xTask'[v] = xTask[v]
         /\ UNCHANGED <<xQueue, xPushing, xExtra, xSeen, xCalls, cancelVars>>
<1> DEFINE t == xTask[w]
<1>1. t \in KTasks /\ Held(w, t)
  BY DEF PollTask, ExecutorTyped, Held, Holding
<1>2. PICK phase \in {"new", "body", "done"} :
        /\ xPhase' = [xPhase EXCEPT ![t] = phase]
        /\ xState' = IF phase = "done" THEN [xState EXCEPT ![t] = "Zombie"] ELSE xState
        /\ xWakers' = IF phase = "done" THEN xWakers ELSE [xWakers EXCEPT ![t] = @ \cup {w}]
        /\ xInfo' = [xInfo EXCEPT ![t] =
              CASE phase = xPhase[t] -> @
                [] phase = "done" -> "Zombie"
                [] OTHER -> "Running"]
  BY DEF PollTask
<1>3. /\ xPhase[t] # "done" /\ xWorker[w] = "poll"
      /\ xWorker' = [xWorker EXCEPT ![w] = "find"]
      /\ xTask' = [xTask EXCEPT ![w] = NoKTask]
      /\ UNCHANGED <<xQueue, xPushing, xExtra, xSeen, xCalls, cancelVars>>
  BY DEF PollTask
<1> HIDE DEF t
<1>4. /\ xPhase \in [KTasks -> {"new", "body", "done"}]
      /\ xState \in [KTasks -> {"None", "Ready", "Running", "Zombie"}]
      /\ xWakers \in [KTasks -> SUBSET Workers]
      /\ xInfo \in [KTasks -> {"None", "Ready", "Running", "Zombie"}]
      /\ xTask \in [Workers -> KTasks \cup {NoKTask}]
  BY DEF ExecutorTyped, ExecutorTypeOK
<1>5. ASSUME NEW s \in KTasks \ {t}
      PROVE  /\ xPhase'[s] = xPhase[s] /\ xState'[s] = xState[s]
             /\ xWakers'[s] = xWakers[s]
  BY <1>1, <1>2, <1>4
<1>6. ASSUME NEW s \in KTasks \ {t} PROVE xInfo'[s] = xInfo[s]
  BY <1>2, <1>4
<1>7. /\ xState'[t] \in {xState[t], "Zombie"}
      /\ xPhase'[t] = "done" => xState'[t] = "Zombie"
  BY <1>1, <1>2, <1>4
<1>8. \A v \in Workers \ {w} : xTask'[v] = xTask[v]
  BY <1>3, <1>4
<1> QED BY <1>1, <1>3, <1>5, <1>6, <1>7, <1>8 DEF t

\* What a task in no place keeps through a step.
LEMMA TaskFrame ==
  ASSUME ExecutorTyped, ExecutorNext, NEW s \in KTasks
  PROVE  /\ xState'[s] = "None" => xState[s] = "None" /\ ~Enters(s)
         /\ ~InPlace(s) => xState'[s] = xState[s] \/ Enters(s)
         /\ ~InPlace(s) => xPhase'[s] = xPhase[s] /\ xWakers'[s] = xWakers[s]
         /\ xPhase'[s] # xPhase[s] => \E w \in Workers : PollTask(w) /\ xTask[w] = s
         /\ xState[s] = "None" /\ xHandle[s] = "none" => xHandle'[s] = "none"
<1> DEFINE Kept ==
       /\ xState'[s] = "None" => xState[s] = "None" /\ ~Enters(s)
       /\ ~InPlace(s) => xState'[s] = xState[s] \/ Enters(s)
       /\ ~InPlace(s) => xPhase'[s] = xPhase[s] /\ xWakers'[s] = xWakers[s]
       /\ xPhase'[s] # xPhase[s] => \E w \in Workers : PollTask(w) /\ xTask[w] = s
       /\ xState[s] = "None" /\ xHandle[s] = "none" => xHandle'[s] = "none"
<1>1. Enters(s) => xState'[s] = "Ready"
  BY DEF Enters, KSpawn, KWake, MakeReady, ExecutorTyped, ExecutorTypeOK
<1>2. ASSUME UNCHANGED <<xState, xPhase, xWakers, xHandle>> PROVE Kept
  BY <1>1, <1>2
<1>3. ASSUME NEW t \in KTasks, Enters(t) PROVE Kept
  <2>1. /\ UNCHANGED <<xPhase, xWakers, xHandle>>
        /\ xState' = [xState EXCEPT ![t] = "Ready"]
    BY <1>3 DEF Enters, KSpawn, KWake, MakeReady, cancelVars
  <2>2. s # t => xState'[s] = xState[s]
    BY <2>1 DEF ExecutorTyped, ExecutorTypeOK
  <2> HIDE DEF Enters
  <2> QED BY <1>1, <1>3, <2>1, <2>2
<1>4. ASSUME NEW t \in KTasks, StoreHandle(t) \/ AwaitTask(t) PROVE Kept
  <2>1. UNCHANGED <<xState, xPhase, xWakers>>
    BY <1>4 DEF StoreHandle, AwaitTask, taskVars
  <2>2. xState[s] = "None" /\ xHandle[s] = "none" => xHandle'[s] = "none"
    BY <1>4 DEF StoreHandle, AwaitTask, ExecutorTyped, ExecutorTypeOK
  <2> QED BY <1>1, <2>1, <2>2
<1>5. ASSUME NEW w \in Workers, Begin(w) \/ CheckCancelled(w) PROVE Kept
  <2>1. /\ UNCHANGED <<xPhase, xWakers, xHandle>>
        /\ \E state \in {"Running", "Zombie"} : xState' = [xState EXCEPT ![xTask[w]] = state]
        /\ Holding(w)
    BY <1>5 DEF Begin, CheckCancelled, cancelVars, Holding
  <2>2. xState'[s] # "None" \/ xState'[s] = xState[s]
    BY <2>1 DEF ExecutorTyped, ExecutorTypeOK
  <2>3. ~InPlace(s) => xTask[w] # s
    BY <2>1, HeldIsInPlace
  <2>4. xTask[w] # s => xState'[s] = xState[s]
    BY <2>1 DEF ExecutorTyped, ExecutorTypeOK
  <2> QED BY <1>1, <2>1, <2>2, <2>3, <2>4
<1>6. ASSUME NEW w \in Workers, PollTask(w) PROVE Kept
  <2>1. xHandle' = xHandle
    BY <1>6, PollEffect DEF cancelVars
  <2>2. CASE xTask[w] = s
    <3>1. InPlace(s)
      BY <1>6, <2>2, PollEffect DEF InPlace
    <3>2. xState'[s] \in {xState[s], "Zombie"}
      BY <1>6, <2>2, PollEffect
    <3> QED BY <1>1, <1>6, <2>1, <2>2, <3>1, <3>2
  <2>3. CASE xTask[w] # s
    <3>1. /\ xPhase'[s] = xPhase[s] /\ xState'[s] = xState[s]
          /\ xWakers'[s] = xWakers[s]
      BY <1>6, <2>3, PollEffect
    <3> QED BY <1>1, <2>1, <3>1
  <2> QED BY <2>2, <2>3
<1>7. ASSUME NEW w \in Workers, WorkerStep(w) PROVE Kept
  <2>1. \/ UNCHANGED <<xState, xPhase, xWakers, xHandle>>
        \/ Begin(w) \/ CheckCancelled(w) \/ PollTask(w)
    BY <1>7
    DEF WorkerStep, PopOwn, StealFrom, KTake, OwnIsEmpty, NothingToSteal, WorkerStops, WorkerGoes,
        CheckPasses, WorkerPolls, PollPanics, PollSelfWakes, taskVars, cancelVars
  <2> HIDE DEF Kept
  <2> QED BY <2>1, <1>2, <1>5, <1>6
<1>8. ASSUME \/ \E t \in KTasks : CancelBumps(t) \/ \E w \in Workers : KPush(t, w)
             \/ CancelFlags \/ CancelReports \/ KShutdown
      PROVE  Kept
  BY <1>2, <1>8
  DEF CancelBumps, KPush, CancelFlags, CancelReports, KShutdown, taskVars, cancelVars
<1> HIDE DEF Kept
<1>9. ASSUME NEW t \in KTasks,
             \/ KSpawn(t) \/ StoreHandle(t) \/ CancelBumps(t) \/ AwaitTask(t)
             \/ \E w \in Workers : KPush(t, w) \/ KWake(t, w)
      PROVE  Kept
  BY <1>9, <1>3, <1>4, <1>8, Zenon DEF Enters
<1>10. Kept
  BY <1>7, <1>8, <1>9, Zenon DEF ExecutorNext
<1> QED BY <1>10, Zenon DEF Kept

LEMMA UnspawnedStep ==
  ASSUME ExecutorTyped, UnspawnedNowhere, CancelProgress, ExecutorNext
  PROVE  UnspawnedNowhere'
<1> SUFFICES ASSUME NEW s \in KTasks, xState'[s] = "None"
             PROVE  /\ ~InPlace(s)' /\ xPhase'[s] = "new" /\ xWakers'[s] = {}
                    /\ xHandle'[s] = "none" /\ s \notin xClean'
  BY DEF UnspawnedNowhere
<1>1. xState[s] = "None" /\ ~Enters(s)
  BY TaskFrame
<1>2. /\ ~InPlace(s) /\ xPhase[s] = "new" /\ xWakers[s] = {}
      /\ xHandle[s] = "none" /\ s \notin xClean
  BY <1>1 DEF UnspawnedNowhere
<1>3. ~InPlace(s)'
  BY <1>1, <1>2, PlacesStep
<1>4. xPhase'[s] = "new" /\ xWakers'[s] = {} /\ xHandle'[s] = "none"
  BY <1>1, <1>2, TaskFrame
<1>5. s \notin xClean'
  <2>1. CASE CancelFlags
    <3>1. xCancel[1] # s
      BY <2>1, <1>2 DEF CancelFlags, CancelProgress
    <3> QED BY <2>1, <3>1, <1>2 DEF CancelFlags
  <2>2. CASE UNCHANGED xClean
    BY <2>2, <1>2
  <2> QED
    BY <2>1, <2>2
    DEF ExecutorNext, KSpawn, StoreHandle, CancelBumps, AwaitTask, KPush, KWake, MakeReady,
        CancelReports, KShutdown, WorkerStep, PopOwn, StealFrom, KTake, OwnIsEmpty,
        NothingToSteal, WorkerStops, WorkerGoes, Begin, CheckCancelled, CheckPasses, WorkerPolls,
        PollTask, PollPanics, PollSelfWakes, cancelVars
<1> QED BY <1>3, <1>4, <1>5

LEMMA DoneStep ==
  ASSUME ExecutorTyped, OneEntryEach, DoneIsGone, ExecutorNext
  PROVE  DoneIsGone'
<1> SUFFICES ASSUME NEW s \in KTasks, s \notin xExtra', xPhase'[s] = "done"
             PROVE  xState'[s] = "Zombie" /\ ~InPlace(s)'
  BY DEF DoneIsGone
<1>1. s \notin xExtra
  BY ExtraGrows
<1>2. CASE xPhase[s] = "done"
  <2>1. xState[s] = "Zombie" /\ ~InPlace(s)
    BY <1>1, <1>2 DEF DoneIsGone
  <2>2. ~Enters(s)
    BY <2>1 DEF Enters, KSpawn, KWake
  <2> QED BY <2>1, <2>2, TaskFrame, PlacesStep
<1>3. CASE xPhase[s] # "done"
  <2>1. PICK w \in Workers : PollTask(w) /\ xTask[w] = s
    BY <1>3, TaskFrame
  <2>2. Held(w, s) /\ xState'[s] = "Zombie"
    BY <2>1, PollEffect
  <2>3. \A v \in Workers : /\ ~OccursIn(xQueue[v], s) /\ ~PushPending(v, s)
                           /\ Held(v, s) => v = w
    BY <2>2, <1>1, Zenon DEF OneEntryEach, OnePlace
  <2>4. /\ xWorker' = [xWorker EXCEPT ![w] = "find"]
        /\ \A v \in Workers \ {w} : xTask'[v] = xTask[v]
        /\ UNCHANGED <<xQueue, xPushing>>
    BY <2>1, PollEffect
  <2>5. \A v \in Workers : ~Held(v, s)'
    BY <2>3, <2>4 DEF Held, Holding, ExecutorTyped, ExecutorTypeOK
  <2>6. \A v \in Workers : ~OccursIn(xQueue[v], s)' /\ ~PushPending(v, s)'
    BY <2>3, <2>4 DEF OccursIn, PushPending
  <2> QED BY <2>2, <2>5, <2>6, Zenon DEF InPlace
<1> QED BY <1>2, <1>3

LEMMA LossStep ==
  ASSUME ExecutorTyped, DoneIsGone, LossExplained, ExecutorNext
  PROVE  LossExplained'
<1> USE DEF ExecutorTyped, ExecutorTypeOK
<1>1. xExtra \subseteq xExtra'
  BY ExtraGrows
<1> SUFFICES ASSUME NEW v \in Workers
             PROVE  /\ xWorker'[v] = "dead" => xTask'[v] \in xExtra'
                    /\ xWorker'[v] = "stuck" => xTask'[v] \in SelfWakers
  BY DEF LossExplained
<1>2. ASSUME xWorker'[v] = xWorker[v], xTask'[v] = xTask[v]
      PROVE  /\ xWorker'[v] = "dead" => xTask'[v] \in xExtra'
             /\ xWorker'[v] = "stuck" => xTask'[v] \in SelfWakers
  BY <1>1, <1>2 DEF LossExplained
<1>3. ASSUME xWorker'[v] \notin {"dead", "stuck"}
      PROVE  /\ xWorker'[v] = "dead" => xTask'[v] \in xExtra'
             /\ xWorker'[v] = "stuck" => xTask'[v] \in SelfWakers
  BY <1>3
<1>4. ASSUME NEW w \in Workers, WorkerStep(w)
      PROVE  /\ xWorker'[v] = "dead" => xTask'[v] \in xExtra'
             /\ xWorker'[v] = "stuck" => xTask'[v] \in SelfWakers
  <2>1. CASE PollPanics(w)
    <3>1. Held(w, xTask[w]) /\ xTask[w] \in KTasks /\ InPlace(xTask[w])
      BY <2>1, HeldIsInPlace DEF PollPanics, Held, Holding
    <3>2. xTask[w] \in xExtra
      BY <2>1, <3>1 DEF DoneIsGone, PollPanics
    <3> QED BY <2>1, <3>2, <1>1 DEF PollPanics, WorkerGoes, LossExplained
  <2>2. CASE PollSelfWakes(w)
    BY <2>2, <1>1 DEF PollSelfWakes, LossExplained
  <2>3. CASE PollTask(w)
    <3>1. /\ xWorker' = [xWorker EXCEPT ![w] = "find"]
          /\ \A x \in Workers \ {w} : xTask'[x] = xTask[x]
      BY <2>3, PollEffect
    <3>2. xWorker'[v] = "find" \/ (xWorker'[v] = xWorker[v] /\ xTask'[v] = xTask[v])
      BY <3>1
    <3> QED BY <3>2, <1>2, <1>3
  <2>4. CASE \/ PopOwn(w) \/ OwnIsEmpty(w) \/ NothingToSteal(w) \/ WorkerStops(w)
             \/ Begin(w) \/ CheckCancelled(w) \/ CheckPasses(w)
             \/ \E x \in Workers : StealFrom(w, x)
    <3>1. \/ xWorker'[v] \notin {"dead", "stuck"}
          \/ xWorker'[v] = xWorker[v] /\ xTask'[v] = xTask[v]
      BY <2>4
      DEF PopOwn, StealFrom, KTake, OwnIsEmpty, NothingToSteal, WorkerStops, WorkerGoes, Begin,
          CheckCancelled, CheckPasses, WorkerPolls
    <3> QED BY <3>1, <1>2, <1>3
  <2> QED BY <1>4, <2>1, <2>2, <2>3, <2>4, Zenon DEF WorkerStep
<1>5. (\E w \in Workers : WorkerStep(w)) \/ (xWorker' = xWorker /\ xTask' = xTask)
  BY DEF ExecutorNext, KSpawn, StoreHandle, CancelBumps, AwaitTask, KPush, KWake, MakeReady,
         CancelFlags, CancelReports, KShutdown, workerVars
<1> QED BY <1>2, <1>4, <1>5

LEMMA CancelStep ==
  ASSUME ExecutorTyped, UnspawnedNowhere, CancelProgress, ExecutorNext
  PROVE  CancelProgress'
<1> USE DEF ExecutorTyped, ExecutorTypeOK, CancelProgress
<1>1. CASE UNCHANGED <<xCancel, xHandle, xVersion, xCancelled>>
  BY <1>1
<1>2. ASSUME NEW t \in KTasks, CancelBumps(t) PROVE CancelProgress'
  BY <1>2 DEF CancelBumps, CallFromOutside
<1>3. ASSUME NEW t \in KTasks, StoreHandle(t) \/ AwaitTask(t) PROVE CancelProgress'
  BY <1>3 DEF StoreHandle, AwaitTask
<1>4. CASE CancelFlags
  BY <1>4 DEF CancelFlags
<1>5. CASE CancelReports
  BY <1>5 DEF CancelReports
<1>6. \/ \E t \in KTasks : CancelBumps(t) \/ StoreHandle(t) \/ AwaitTask(t)
      \/ CancelFlags \/ CancelReports
      \/ UNCHANGED <<xCancel, xHandle, xVersion, xCancelled>>
  BY DEF ExecutorNext, KSpawn, KPush, KWake, MakeReady, KShutdown, WorkerStep, PopOwn, StealFrom,
         KTake, OwnIsEmpty, NothingToSteal, WorkerStops, WorkerGoes, Begin, CheckCancelled,
         CheckPasses, WorkerPolls, PollTask, PollPanics, PollSelfWakes, cancelVars
<1> QED BY <1>1, <1>2, <1>3, <1>4, <1>5, <1>6

\* How the cancellation of a task moves on.
LEMMA CancelFrame ==
  ASSUME ExecutorTyped, CancelProgress, ExecutorNext, NEW t \in KTasks
  PROVE  /\ xVersion'[t] >= xVersion[t]
         /\ xCancelled[t] => xCancelled'[t]
         /\ t \in xClean' =>
              \/ t \in xClean
              \/ /\ xVersion[t] >= 1 /\ xCancelled'[t]
                 /\ UNCHANGED <<xVersion, xWorker, xTask, xSeen>>
                 /\ \A w \in Workers : ~Held(w, t)
<1> DEFINE Kept == /\ xVersion'[t] >= xVersion[t]
                   /\ xCancelled[t] => xCancelled'[t]
           Joins == /\ xVersion[t] >= 1 /\ xCancelled'[t]
                    /\ UNCHANGED <<xVersion, xWorker, xTask, xSeen>>
                    /\ \A w \in Workers : ~Held(w, t)
<1>0. xVersion[t] \in Nat
  BY DEF ExecutorTyped, ExecutorTypeOK
<1>1. ASSUME UNCHANGED <<xVersion, xCancelled, xClean>> PROVE Kept /\ xClean' = xClean
  BY <1>0, <1>1
<1>2. ASSUME NEW s \in KTasks, CancelBumps(s) PROVE Kept /\ xClean' = xClean
  <2>1. xVersion' = [xVersion EXCEPT ![s] = @ + 1] /\ UNCHANGED <<xCancelled, xClean>>
    BY <1>2 DEF CancelBumps
  <2>2. xVersion'[t] >= xVersion[t]
    BY <1>0, <2>1 DEF ExecutorTyped, ExecutorTypeOK
  <2> QED BY <2>1, <2>2
<1>3. ASSUME CancelFlags PROVE Kept /\ (t \in xClean' => t \in xClean \/ Joins)
  <2> DEFINE c == xCancel[1]
  <2>1. c \in KTasks /\ xVersion[c] >= 1
    BY <1>3 DEF CancelFlags, CancelProgress
  <2>2. /\ xCancelled' = [xCancelled EXCEPT ![c] = TRUE]
        /\ UNCHANGED <<xVersion, xWorker, xTask, xSeen>>
        /\ xClean' = IF \E w \in Workers : xTask[w] = c /\ Holding(w)
                     THEN xClean ELSE xClean \cup {c}
    BY <1>3 DEF CancelFlags, workerVars
  <2> HIDE DEF c
  <2>3. xCancelled[t] \/ t = c => xCancelled'[t]
    BY <2>1, <2>2, Zenon DEF ExecutorTyped, ExecutorTypeOK
  <2>4. Kept
    BY <1>0, <2>2, <2>3
  <2>5. t \in xClean' => t \in xClean \/ Joins
    BY <2>1, <2>2, <2>3 DEF Held
  <2> QED BY <2>4, <2>5
<1>4. \/ UNCHANGED <<xVersion, xCancelled, xClean>>
      \/ \E s \in KTasks : CancelBumps(s)
      \/ CancelFlags
  BY DEF ExecutorNext, KSpawn, StoreHandle, AwaitTask, KPush, KWake, MakeReady, CancelReports,
         KShutdown, WorkerStep, PopOwn, StealFrom, KTake, OwnIsEmpty, NothingToSteal,
         WorkerStops, WorkerGoes, Begin, CheckCancelled, CheckPasses, WorkerPolls, PollTask,
         PollPanics, PollSelfWakes, cancelVars
<1> HIDE DEF Kept, Joins
<1>5. Kept /\ (t \in xClean' => t \in xClean \/ Joins)
  BY <1>1, <1>2, <1>3, <1>4
<1> QED BY <1>5, Zenon DEF Kept, Joins

\* A warned worker stays warned until it gives the task up.
LEMMA WarnedStep ==
  ASSUME ExecutorTyped, ExecutorNext, NEW t \in KTasks, NEW w \in Workers,
         xCancelled[t], xVersion[t] = 1, Held(w, t) => Warned(w), Held(w, t)'
  PROVE  Warned(w)'
<1> USE DEF ExecutorTyped, ExecutorTypeOK
<1>1. ASSUME xWorker'[w] = xWorker[w], xTask'[w] = xTask[w], xSeen'[w] = xSeen[w]
      PROVE  Warned(w)'
  BY <1>1 DEF Held, Holding, Warned
<1>2. ASSUME NEW v \in Workers, WorkerStep(v) PROVE Warned(w)'
  <2>1. CASE PopOwn(v) \/ \E x \in Workers : StealFrom(v, x)
    <3>1. \/ xWorker'[w] = "begin"
          \/ xWorker'[w] = xWorker[w] /\ xTask'[w] = xTask[w] /\ xSeen'[w] = xSeen[w]
      BY <2>1 DEF PopOwn, StealFrom, KTake
    <3> QED BY <3>1, <1>1 DEF Warned
  <2>2. CASE Begin(v)
    <3>1. CASE v = w
      <4>1. xTask[w] = t /\ xWorker'[w] = "check" /\ xSeen'[w] = 1
        BY <2>2, <3>1 DEF Begin, Held
      <4> QED BY <4>1 DEF Warned
    <3>2. CASE v # w
      BY <2>2, <3>2, <1>1 DEF Begin
    <3> QED BY <3>1, <3>2
  <2>3. CASE CheckPasses(v)
    <3>1. CASE v = w
      <4>1. xTask[w] = t /\ xWorker[w] = "check" /\ Held(w, t)
        BY <2>3, <3>1 DEF CheckPasses, WorkerPolls, Held, Holding
      <4>2. xSeen[w] = 1
        BY <4>1 DEF Warned
      <4> QED BY <2>3, <3>1, <4>1, <4>2 DEF CheckPasses, SeenCancelled
    <3>2. CASE v # w
      BY <2>3, <3>2, <1>1 DEF CheckPasses, WorkerPolls
    <3> QED BY <3>1, <3>2
  <2>4. CASE OwnIsEmpty(v) \/ NothingToSteal(v) \/ WorkerStops(v) \/ PollPanics(v)
    <3>1. /\ \E place \in {"steal", "find", "stopped", "dead"} :
               xWorker' = [xWorker EXCEPT ![v] = place]
          /\ UNCHANGED <<xTask, xSeen>>
      BY <2>4 DEF OwnIsEmpty, NothingToSteal, WorkerStops, PollPanics, WorkerGoes
    <3> QED BY <3>1, <1>1 DEF Held, Holding
  <2>5. CASE PollSelfWakes(v) \/ CheckCancelled(v)
    BY <2>5, <1>1 DEF PollSelfWakes, CheckCancelled, Held, Holding
  <2>6. CASE PollTask(v)
    <3>1. /\ xWorker' = [xWorker EXCEPT ![v] = "find"]
          /\ \A x \in Workers \ {v} : xTask'[x] = xTask[x]
          /\ xSeen' = xSeen
      BY <2>6, PollEffect
    <3> QED BY <3>1, <1>1 DEF Held, Holding
  <2> QED BY <1>2, <2>1, <2>2, <2>3, <2>4, <2>5, <2>6, Zenon DEF WorkerStep
<1>3. (\E v \in Workers : WorkerStep(v)) \/ UNCHANGED workerVars
  BY DEF ExecutorNext, KSpawn, StoreHandle, CancelBumps, AwaitTask, KPush, KWake, MakeReady,
         CancelFlags, CancelReports, KShutdown
<1> QED BY <1>1, <1>2, <1>3 DEF workerVars

LEMMA CleanStep ==
  ASSUME ExecutorTyped, CancelProgress, CleanIsSeen, ExecutorNext, ExecutorTyped'
  PROVE  CleanIsSeen'
<1> SUFFICES ASSUME NEW t \in KTasks, t \in xClean'
             PROVE  /\ xVersion'[t] >= 1 /\ xCancelled'[t]
                    /\ xVersion'[t] = 1 =>
                         \A w \in Workers : Held(w, t)' => Warned(w)'
  BY DEF CleanIsSeen, Warned, ExecutorTyped, ExecutorTypeOK
<1>1. xVersion[t] \in Nat /\ xVersion'[t] \in Nat
  BY DEF ExecutorTyped, ExecutorTypeOK
<1>2. CASE t \in xClean
  <2>1. /\ xVersion[t] >= 1 /\ xCancelled[t]
        /\ xVersion[t] = 1 => \A w \in Workers : Held(w, t) => Warned(w)
    BY <1>2 DEF CleanIsSeen, Warned
  <2>2. xVersion'[t] >= xVersion[t] /\ xCancelled'[t]
    BY <2>1, CancelFrame
  <2>3. xVersion'[t] >= 1 /\ (xVersion'[t] = 1 => xVersion[t] = 1)
    BY <1>1, <2>1, <2>2
  <2>4. xVersion[t] = 1 => \A w \in Workers : Held(w, t)' => Warned(w)'
    BY <2>1, WarnedStep
  <2> QED BY <2>2, <2>3, <2>4
<1>3. CASE t \notin xClean
  <2>1. /\ xVersion[t] >= 1 /\ xCancelled'[t]
        /\ UNCHANGED <<xVersion, xWorker, xTask, xSeen>>
        /\ \A w \in Workers : ~Held(w, t)
    BY <1>3, CancelFrame
  <2> QED BY <2>1 DEF Held, Holding
<1> QED BY <1>2, <1>3

(***************************************************************************)
(* The theorems                                                            *)
(***************************************************************************)
LEMMA ExecutorInitInv == ExecutorInit => ExecutorIInv
<1> SUFFICES ASSUME ExecutorInit PROVE ExecutorIInv
  OBVIOUS
<1> USE ExecutorAssumption DEF ExecutorInit
<1>1. ExecutorTyped
  <2>1. xQueue \in [Workers -> Seq(KTasks)]
    BY EmptySeq
  <2>2. /\ xVersion \in [KTasks -> 0 .. MaxCalls] /\ xSeen \in [Workers -> 0 .. MaxCalls]
        /\ xPolls \in 0 .. MaxPending /\ xCalls \in 0 .. MaxCalls
        /\ \A t \in KTasks : xVersion[t] <= xCalls
    OBVIOUS
  <2>3. /\ xCancelled \in [KTasks -> BOOLEAN] /\ xShutdown \in BOOLEAN
        /\ xWakers \in [KTasks -> SUBSET Workers]
    OBVIOUS
  <2>4. /\ xState \in [KTasks -> {"None", "Ready", "Running", "Zombie"}]
        /\ xInfo \in [KTasks -> {"None", "Ready", "Running", "Zombie"}]
        /\ xPhase \in [KTasks -> {"new", "body", "done"}]
        /\ xHandle \in [KTasks -> {"none", "stored", "taken"}]
        /\ xCancel \in (KTasks \cup {NoKTask}) \X {"no", "bumped", "flagged"}
    OBVIOUS
  <2>5. /\ xWorker \in [Workers -> WorkerPlaces]
        /\ xTask \in [Workers -> KTasks \cup {NoKTask}]
        /\ \A w \in Workers : ~Holding(w)
    BY DEF WorkerPlaces, Holding
  <2>6. xPushing = {} /\ xLocked = {} /\ xExtra = {} /\ xClean = {}
    OBVIOUS
  <2> HIDE DEF ExecutorInit
  <2> QED BY <2>1, <2>2, <2>3, <2>4, <2>5, <2>6 DEF ExecutorTyped, ExecutorTypeOK
<1>2. ASSUME NEW t \in KTasks, NEW w \in Workers
      PROVE  /\ ~OccursIn(xQueue[w], t) /\ OccursOnce(xQueue[w], t)
             /\ ~PushPending(w, t) /\ ~Held(w, t)
  <2>1. Len(xQueue[w]) = 0
    OBVIOUS
  <2> QED BY <2>1 DEF OccursIn, OccursOnce, PushPending, Held, Holding
<1>3. \A t \in KTasks : ~InPlace(t)
  BY <1>2, Zenon DEF InPlace
<1>4. OneEntryEach
  BY <1>2, Zenon DEF OneEntryEach, OnePlace
<1>5. UnspawnedNowhere /\ DoneIsGone
  BY <1>3 DEF UnspawnedNowhere, DoneIsGone
<1>6. LossExplained /\ CancelProgress /\ CleanIsSeen
  BY DEF LossExplained, CancelProgress, CleanIsSeen
<1> QED BY <1>1, <1>4, <1>5, <1>6 DEF ExecutorIInv

LEMMA ExecutorStepInv ==
  ASSUME ExecutorIInv, ExecutorNext
  PROVE  ExecutorIInv'
<1> USE DEF ExecutorIInv
<1>1. ExecutorTyped'
  BY TypedStep
<1>2. UnspawnedNowhere' /\ OneEntryEach' /\ DoneIsGone'
  BY UnspawnedStep, OneEntryStep, DoneStep
<1>3. LossExplained' /\ CancelProgress' /\ CleanIsSeen'
  BY <1>1, LossStep, CancelStep, CleanStep
<1> QED BY <1>1, <1>2, <1>3

LEMMA ExecutorStutterInv ==
  ASSUME ExecutorIInv, UNCHANGED executorVars
  PROVE  ExecutorIInv'
<1> USE DEF ExecutorIInv, executorVars
<1>1. \A t \in KTasks, w \in Workers : Held(w, t)' => Held(w, t)
  BY DEF Held, Holding
<1>2. \A t \in KTasks : (OnePlace(t) => OnePlace(t)') /\ (InPlace(t)' => InPlace(t))
  BY <1>1, LeavingPlaces
<1>3. ExecutorTyped'
  BY DEF ExecutorTyped, ExecutorTypeOK, Holding
<1>4. UnspawnedNowhere' /\ OneEntryEach' /\ DoneIsGone'
  BY <1>2 DEF UnspawnedNowhere, OneEntryEach, DoneIsGone
<1>5. LossExplained' /\ CancelProgress'
  BY DEF LossExplained, CancelProgress
<1>6. CleanIsSeen'
  BY DEF CleanIsSeen, Warned, Held, Holding
<1> QED BY <1>3, <1>4, <1>5, <1>6

LEMMA ExecutorInvariant == ExecutorSpec => []ExecutorIInv
<1>1. ExecutorIInv /\ [ExecutorNext]_executorVars => ExecutorIInv'
  BY ExecutorStepInv, ExecutorStutterInv
<1> QED BY <1>1, ExecutorInitInv, PTL DEF ExecutorSpec

\* The state of the scheduler, its workers and its wakers keeps its types.
THEOREM ExecutorTyping == ExecutorSpec => []ExecutorTypeOK
<1>1. ExecutorIInv => ExecutorTypeOK
  BY DEF ExecutorIInv, ExecutorTyped
<1> QED BY <1>1, ExecutorInvariant, PTL

\* A worker dies only of a task woken while it was runnable, blocks only on
\* one that wakes itself, and no other task is ever in two pairs of hands.
THEOREM WorkersAreLostOnlyToWakes == ExecutorSpec => []WorkersLostOnlyToWakes
<1>1. ExecutorIInv => WorkersLostOnlyToWakes
  <2> SUFFICES ASSUME ExecutorIInv PROVE WorkersLostOnlyToWakes
    OBVIOUS
  <2>1. ASSUME NEW v \in Workers, NEW w \in Workers, v # w,
               Holding(v), Holding(w), xTask[v] = xTask[w], xTask[v] \notin xExtra
        PROVE  FALSE
    <3>1. xTask[v] \in KTasks /\ Held(v, xTask[v]) /\ Held(w, xTask[v])
      BY <2>1 DEF ExecutorIInv, ExecutorTyped, Held
    <3> QED BY <2>1, <3>1, Zenon DEF ExecutorIInv, OneEntryEach, OnePlace
  <2> QED BY <2>1 DEF ExecutorIInv, LossExplained, WorkersLostOnlyToWakes
<1> QED BY <1>1, ExecutorInvariant, PTL

\* A task cancelled once, while no worker had it, makes no further step, and
\* what the Scheduler reports of it stays.
THEOREM CleanCancelsAreFinal == ExecutorSpec => CleanCancelIsFinal
<1> DEFINE Final == \A t \in xClean : xVersion'[t] = 1 =>
                      /\ xPhase'[t] = xPhase[t]
                      /\ xInfo[t] = "Zombie" => xInfo'[t] = "Zombie"
<1>1. ExecutorIInv /\ [ExecutorNext]_executorVars => [Final]_executorVars
  <2> SUFFICES ASSUME ExecutorIInv, ExecutorNext, NEW t \in xClean, xVersion'[t] = 1
               PROVE  /\ xPhase'[t] = xPhase[t]
                      /\ xInfo[t] = "Zombie" => xInfo'[t] = "Zombie"
    OBVIOUS
  <2> USE DEF ExecutorIInv
  <2>1. t \in KTasks /\ xVersion[t] \in Nat
    BY DEF ExecutorTyped, ExecutorTypeOK
  <2>2. xVersion[t] = 1
    <3>1. xVersion[t] >= 1 /\ 1 >= xVersion[t]
      BY <2>1, CancelFrame DEF CleanIsSeen
    <3> QED BY <2>1, <3>1
  <2>3. ASSUME NEW w \in Workers, PollTask(w) PROVE xTask[w] # t
    <3>1. Held(w, xTask[w]) /\ xWorker[w] = "poll"
      BY <2>3, PollEffect
    <3> QED BY <2>2, <3>1 DEF CleanIsSeen, Warned
  <2>4. xPhase'[t] = xPhase[t]
    BY <2>1, <2>3, TaskFrame
  <2>5. ASSUME xInfo[t] = "Zombie" PROVE xInfo'[t] = "Zombie"
    <3>1. CASE UNCHANGED xInfo
      BY <2>5, <3>1
    <3>2. CASE \E s \in KTasks : KSpawn(s)
      <4>1. xState[t] # "None"
        BY <2>1 DEF UnspawnedNowhere
      <4> QED BY <2>5, <3>2, <4>1 DEF KSpawn, ExecutorTyped, ExecutorTypeOK
    <3>3. CASE CancelReports
      BY <2>1, <2>5, <3>3 DEF CancelReports, ExecutorTyped, ExecutorTypeOK
    <3>4. CASE \E w \in Workers : PollTask(w)
      BY <2>1, <2>3, <2>5, <3>4, PollEffect
    <3> QED
      BY <3>1, <3>2, <3>3, <3>4
      DEF ExecutorNext, StoreHandle, CancelBumps, AwaitTask, KPush, KWake, MakeReady, CancelFlags,
          KShutdown, WorkerStep, PopOwn, StealFrom, KTake, OwnIsEmpty, NothingToSteal,
          WorkerStops, WorkerGoes, Begin, CheckCancelled, CheckPasses, WorkerPolls, PollPanics,
          PollSelfWakes
  <2> QED BY <2>4, <2>5
<1> QED BY <1>1, ExecutorInvariant, PTL DEF ExecutorSpec, CleanCancelIsFinal

(***************************************************************************)
(* The safety half of ReadyIsServed                                        *)
(***************************************************************************)
\* A task that no worker has begun since it became Ready.
AwaitsItsTurn(t) ==
  \E w \in Workers : \/ OccursIn(xQueue[w], t) \/ PushPending(w, t)
                     \/ xTask[w] = t /\ xWorker[w] = "begin"

\* A Ready task is in a queue, about to be pushed, or popped by a worker that has
\* not begun it: no wake is lost between a push and a poll.
ReadyAwaitsItsTurn == \A t \in KTasks : xState[t] = "Ready" => AwaitsItsTurn(t)

\* A push keeps every entry and adds one of t; a pop keeps all but the last.
LEMMA EntriesKept ==
  ASSUME NEW q \in Seq(KTasks), NEW s \in KTasks
  PROVE  /\ \A t \in KTasks : \A i \in InsertPositions(q, t) :
              s = t \/ OccursIn(q, s) => OccursIn(InsertAt(q, i, t), s)
         /\ q # <<>> /\ OccursIn(q, s) => s = Last(q) \/ OccursIn(Front(q), s)
<1>1. Len(q) \in Nat /\ \A j \in 1 .. Len(q) : q[j] \in KTasks
  BY LenProperties, ElementOfSeq
<1>2. ASSUME NEW t \in KTasks, NEW i \in InsertPositions(q, t), s = t \/ OccursIn(q, s)
      PROVE  OccursIn(InsertAt(q, i, t), s)
  <2> DEFINE p == InsertAt(q, i, t)
  <2>1. i \in 1 .. Len(q) + 1
    BY PositionsInQueue
  <2>2. /\ Len(p) = Len(q) + 1
        /\ \A j \in 1 .. Len(q) + 1 : p[j] =
              IF j < i THEN q[j] ELSE IF j = i THEN t ELSE q[j - 1]
    BY <2>1, InsertedElements
  <2> HIDE DEF p
  <2>3. CASE s = t
    <3>1. p[i] = s /\ i \in 1 .. Len(p)
      BY <1>1, <2>1, <2>2, <2>3
    <3> QED BY <3>1 DEF OccursIn, p
  <2>4. CASE OccursIn(q, s)
    <3>1. PICK j \in 1 .. Len(q) : q[j] = s
      BY <2>4 DEF OccursIn
    <3>2. CASE j < i
      <4>1. j \in 1 .. Len(p) /\ p[j] = s
        BY <1>1, <2>1, <2>2, <3>1, <3>2
      <4> QED BY <4>1 DEF OccursIn, p
    <3>3. CASE ~(j < i)
      <4>1. /\ j + 1 \in 1 .. Len(q) + 1 /\ ~(j + 1 < i) /\ j + 1 # i
            /\ (j + 1) - 1 = j
        BY <1>1, <2>1, <3>1, <3>3
      <4>2. p[j + 1] = s /\ j + 1 \in 1 .. Len(p)
        BY <2>2, <3>1, <4>1
      <4> QED BY <4>2 DEF OccursIn, p
    <3> QED BY <3>2, <3>3
  <2> QED BY <1>2, <2>3, <2>4
<1>3. ASSUME q # <<>>, OccursIn(q, s), s # Last(q) PROVE OccursIn(Front(q), s)
  <2>1. PICK j \in 1 .. Len(q) : q[j] = s
    BY <1>3 DEF OccursIn
  <2>2. j # Len(q)
    BY <1>3, <2>1 DEF Last
  <2>3. j \in 1 .. Len(q) - 1
    BY <1>1, <2>1, <2>2
  <2>4. Len(Front(q)) = Len(q) - 1 /\ \A k \in 1 .. Len(q) - 1 : Front(q)[k] = q[k]
    BY <1>3, PoppedElements
  <2> QED BY <2>1, <2>3, <2>4 DEF OccursIn
<1> QED BY <1>2, <1>3

\* A step that takes no task back.
LEMMA TurnKept ==
  ASSUME ReadyAwaitsItsTurn, NEW s \in KTasks, xState[s] = "Ready",
         UNCHANGED xQueue, xPushing \subseteq xPushing',
         \A w \in Workers : xTask[w] = s /\ xWorker[w] = "begin" =>
                              xTask'[w] = s /\ xWorker'[w] = "begin"
  PROVE  AwaitsItsTurn(s)'
BY DEF ReadyAwaitsItsTurn, AwaitsItsTurn, PushPending, OccursIn

\* A push and a pop hand the task on.
LEMMA TurnHandedOn ==
  ASSUME ExecutorTyped, ReadyAwaitsItsTurn, NEW s \in KTasks, xState[s] = "Ready",
         NEW w \in Workers,
         \/ \E t \in KTasks : KPush(t, w)
         \/ \E v \in Workers : xQueue[v] # <<>> /\ xWorker[w] # "begin" /\ KTake(w, v)
  PROVE  AwaitsItsTurn(s)'
<1>1. /\ xQueue \in [Workers -> Seq(KTasks)] /\ xTask \in [Workers -> KTasks \cup {NoKTask}]
      /\ xWorker \in [Workers -> WorkerPlaces]
  BY DEF ExecutorTyped, ExecutorTypeOK
<1>2. PICK x \in Workers : \/ OccursIn(xQueue[x], s) \/ PushPending(x, s)
                           \/ xTask[x] = s /\ xWorker[x] = "begin"
  BY DEF ReadyAwaitsItsTurn, AwaitsItsTurn
<1>3. ASSUME NEW t \in KTasks, KPush(t, w) PROVE AwaitsItsTurn(s)'
  <2>1. PICK i \in InsertPositions(xQueue[w], t) :
          xQueue' = [xQueue EXCEPT ![w] = InsertAt(xQueue[w], i, t)]
    BY <1>3 DEF KPush
  <2>2. /\ xPushing' = xPushing \ {<<t, w>>}
        /\ xTask' = xTask /\ xWorker' = xWorker
    BY <1>3 DEF KPush, workerVars
  <2>3. s = t \/ OccursIn(xQueue[w], s) => OccursIn(InsertAt(xQueue[w], i, t), s)
    BY <1>1, EntriesKept
  <2>4. \A v \in Workers : xQueue'[v] = IF v = w THEN InsertAt(xQueue[w], i, t) ELSE xQueue[v]
    BY <1>1, <2>1
  <2>5. OccursIn(xQueue[x], s) => OccursIn(xQueue'[x], s)
    BY <2>3, <2>4
  <2>6. PushPending(x, s) => PushPending(x, s)' \/ OccursIn(xQueue'[w], s)
    BY <2>2, <2>3, <2>4 DEF PushPending
  <2> QED BY <1>2, <2>2, <2>5, <2>6, Zenon DEF AwaitsItsTurn, OccursIn
<1>4. ASSUME NEW v \in Workers, xQueue[v] # <<>>, xWorker[w] # "begin", KTake(w, v)
      PROVE  AwaitsItsTurn(s)'
  <2>1. /\ xQueue' = [xQueue EXCEPT ![v] = Front(xQueue[v])]
        /\ xTask' = [xTask EXCEPT ![w] = Last(xQueue[v])]
        /\ xWorker' = [xWorker EXCEPT ![w] = "begin"]
        /\ xPushing' = xPushing
    BY <1>4 DEF KTake
  <2>2. OccursIn(xQueue[v], s) => s = Last(xQueue[v]) \/ OccursIn(Front(xQueue[v]), s)
    BY <1>1, <1>4, EntriesKept
  <2>3. \A y \in Workers : xQueue'[y] = IF y = v THEN Front(xQueue[v]) ELSE xQueue[y]
    BY <1>1, <2>1
  <2>4. xTask'[w] = Last(xQueue[v]) /\ xWorker'[w] = "begin"
    BY <1>1, <2>1
  <2>5. xTask[x] = s /\ xWorker[x] = "begin" => xTask'[x] = s /\ xWorker'[x] = "begin"
    BY <1>1, <1>4, <2>1
  <2>6. OccursIn(xQueue[x], s) =>
          OccursIn(xQueue'[x], s) \/ (xTask'[w] = s /\ xWorker'[w] = "begin")
    BY <2>2, <2>3, <2>4
  <2>7. PushPending(x, s) => PushPending(x, s)'
    BY <2>1 DEF PushPending
  <2> QED BY <1>2, <2>5, <2>6, <2>7, Zenon DEF AwaitsItsTurn, OccursIn
<1> QED BY <1>3, <1>4

LEMMA TurnStep ==
  ASSUME ExecutorIInv, ReadyAwaitsItsTurn, ExecutorNext
  PROVE  ReadyAwaitsItsTurn'
<1> SUFFICES ASSUME NEW s \in KTasks, xState'[s] = "Ready"
             PROVE  AwaitsItsTurn(s)'
  BY DEF ReadyAwaitsItsTurn
<1>t. /\ ExecutorTyped /\ xState \in [KTasks -> {"None", "Ready", "Running", "Zombie"}]
      /\ xTask \in [Workers -> KTasks \cup {NoKTask}] /\ xWorker \in [Workers -> WorkerPlaces]
  BY DEF ExecutorIInv, ExecutorTyped, ExecutorTypeOK
<1>1. ASSUME UNCHANGED <<xQueue, xPushing, xState, xTask, xWorker>>
      PROVE  AwaitsItsTurn(s)'
  BY <1>1, TurnKept
<1>2. ASSUME NEW t \in KTasks, Enters(t) PROVE AwaitsItsTurn(s)'
  <2>1. PICK w \in Workers : xPushing' = xPushing \cup {<<t, w>>}
    BY <1>2, ExecutorAssumption DEF Enters, KSpawn, KWake, MakeReady
  <2>2. xState' = [xState EXCEPT ![t] = "Ready"] /\ UNCHANGED <<xQueue, xTask, xWorker>>
    BY <1>2 DEF Enters, KSpawn, KWake, MakeReady, workerVars
  <2>3. CASE s = t
    BY <2>1, <2>3 DEF AwaitsItsTurn, PushPending
  <2>4. CASE s # t
    <3>1. xState[s] = "Ready"
      BY <1>t, <2>2, <2>4
    <3> QED BY <2>1, <2>2, <3>1, TurnKept
  <2> QED BY <2>3, <2>4
<1>3. ASSUME NEW w \in Workers, WorkerStep(w) PROVE AwaitsItsTurn(s)'
  <2>1. CASE PopOwn(w) \/ \E v \in Workers : StealFrom(w, v)
    <3>1. PICK v \in Workers : xQueue[v] # <<>> /\ xWorker[w] # "begin" /\ KTake(w, v)
      BY <2>1 DEF PopOwn, StealFrom
    <3>2. xState' = xState
      BY <3>1 DEF KTake, taskVars
    <3> QED BY <1>t, <3>1, <3>2, TurnHandedOn
  <2>2. CASE Begin(w)
    <3>1. /\ UNCHANGED <<xQueue, xPushing, xTask>>
          /\ xState' = [xState EXCEPT ![xTask[w]] = "Running"]
          /\ xWorker' = [xWorker EXCEPT ![w] = "check"]
      BY <2>2 DEF Begin
    <3>2. xTask[w] # s /\ xState[s] = "Ready"
      BY <1>t, <3>1
    <3>3. \A v \in Workers \ {w} : xWorker'[v] = xWorker[v]
      BY <1>t, <3>1
    <3> QED BY <3>1, <3>2, <3>3, TurnKept
  <2>3. CASE CheckCancelled(w) \/ PollTask(w)
    <3>1. /\ UNCHANGED <<xQueue, xPushing>> /\ xWorker[w] # "begin"
          /\ xWorker' = [xWorker EXCEPT ![w] = "find"]
          /\ xTask' = [xTask EXCEPT ![w] = NoKTask]
      BY <2>3 DEF CheckCancelled, PollTask
    <3>2. xState[s] = "Ready"
      <4>1. CASE CheckCancelled(w)
        BY <1>t, <4>1 DEF CheckCancelled
      <4>2. CASE PollTask(w)
        BY <1>t, <4>2, PollEffect
      <4> QED BY <2>3, <4>1, <4>2
    <3>3. \A v \in Workers \ {w} : xWorker'[v] = xWorker[v] /\ xTask'[v] = xTask[v]
      BY <1>t, <3>1
    <3> QED BY <3>1, <3>2, <3>3, TurnKept
  <2>4. CASE \/ OwnIsEmpty(w) \/ NothingToSteal(w) \/ WorkerStops(w)
             \/ CheckPasses(w) \/ PollPanics(w) \/ PollSelfWakes(w)
    <3>1. /\ UNCHANGED <<xQueue, xPushing, xState, xTask>> /\ xWorker[w] # "begin"
          /\ \E place \in WorkerPlaces : xWorker' = [xWorker EXCEPT ![w] = place]
      BY <2>4 DEF OwnIsEmpty, NothingToSteal, WorkerStops, CheckPasses, PollPanics,
         PollSelfWakes, WorkerGoes, WorkerPolls, WorkerPlaces, taskVars
    <3>2. \A v \in Workers \ {w} : xWorker'[v] = xWorker[v]
      BY <1>t, <3>1
    <3> QED BY <3>1, <3>2, TurnKept
  <2> QED BY <1>3, <2>1, <2>2, <2>3, <2>4 DEF WorkerStep
<1>4. ASSUME NEW t \in KTasks, NEW w \in Workers, KPush(t, w) PROVE AwaitsItsTurn(s)'
  <2>1. xState' = xState
    BY <1>4 DEF KPush, taskVars
  <2> QED BY <1>t, <1>4, <2>1, TurnHandedOn
<1>5. ASSUME \/ \E t \in KTasks : StoreHandle(t) \/ CancelBumps(t) \/ AwaitTask(t)
             \/ CancelFlags \/ CancelReports \/ KShutdown
      PROVE  AwaitsItsTurn(s)'
  BY <1>1, <1>5 DEF StoreHandle, CancelBumps, AwaitTask, CancelFlags, CancelReports, KShutdown,
     taskVars, workerVars
<1> QED BY <1>2, <1>3, <1>4, <1>5, Zenon DEF ExecutorNext, Enters

\* No Ready task is lost, whichever workers die, block or steal, and however often
\* tasks are woken or cancelled (executor.rs:163-185, 273-293): what ReadyIsServed
\* leaves to fairness is that some worker gets to it.
THEOREM ReadyTasksAreNotLost == ExecutorSpec => []ReadyAwaitsItsTurn
<1>1. ExecutorInit => ReadyAwaitsItsTurn
  BY DEF ExecutorInit, ReadyAwaitsItsTurn
<1>2. ExecutorIInv /\ ReadyAwaitsItsTurn /\ [ExecutorNext]_executorVars => ReadyAwaitsItsTurn'
  <2>1. ASSUME ReadyAwaitsItsTurn, UNCHANGED executorVars PROVE ReadyAwaitsItsTurn'
    BY <2>1 DEF executorVars, ReadyAwaitsItsTurn, AwaitsItsTurn, OccursIn, PushPending
  <2> QED BY <2>1, TurnStep
<1> QED BY <1>1, <1>2, ExecutorInvariant, PTL DEF ExecutorSpec

(***************************************************************************)
(* Safety of IpcChannel for every finite set of senders and receivers and  *)
(* every capacity.                                                         *)
(*                                                                         *)
(* ChannelNoLostWakeup says that one thread is on its way to a sleeper     *)
(* that could go on. That is not inductive: two messages may be in the     *)
(* buffer with one notifier left, which then wakes a thread that takes     *)
(* only one of them. What every step keeps is a count: while a receiver    *)
(* sleeps there are at least as many threads on their way as messages, and *)
(* while a sender sleeps at least as many as free places.                  *)
(***************************************************************************)

Threads == Senders \cup Receivers

\* The threads on their way to a sleeper of the group "to": those of the other
\* group that are about to notify, and those of the group already woken.
OnTheWay(from, to) ==
  {t \in Threads : \/ t \in from /\ chThread[t] = "notify"
                   \/ t \in to /\ chThread[t] = "woken"}

Stirring == OnTheWay(Senders, Receivers)
Draining == OnTheWay(Receivers, Senders)

MessagesCovered ==
  ChannelAsleep(Receivers) # {} => Cardinality(Stirring) >= Len(chBuffer)

RoomCovered ==
  ChannelAsleep(Senders) # {} =>
    Cardinality(Draining) >= ChannelCapacity - Len(chBuffer)

\* What has come out and what is in the buffer is what has gone in.
NothingLost == chAccepted = chDelivered \o chBuffer

\* The end is announced only when nothing can go in any more.
EndIsFinal == chOver => AllSendersDropped

ChannelIInv ==
  ChannelTypeOK /\ MessagesCovered /\ RoomCovered /\ NothingLost /\ EndIsFinal

\* The threads on their way are finitely many, and none when nobody is.
LEMMA OnTheWayIsFinite ==
  ASSUME NEW from, NEW to
  PROVE  /\ IsFiniteSet(OnTheWay(from, to))
         /\ Cardinality(OnTheWay(from, to)) \in Nat
         /\ Cardinality(OnTheWay(from, to)) > 0 => OnTheWay(from, to) # {}
<1>1. IsFiniteSet(Threads)
  BY ChannelAssumption, FS_Union DEF Threads
<1>2. OnTheWay(from, to) \in SUBSET Threads
  BY DEF OnTheWay
<1>3. IsFiniteSet(OnTheWay(from, to))
  BY <1>1, <1>2, FS_Subset
<1>4. Cardinality(OnTheWay(from, to)) \in Nat
  BY <1>3, FS_CardinalityType
<1>5. OnTheWay(from, to) = {} => Cardinality(OnTheWay(from, to)) = 0
  BY FS_EmptySet
<1> QED BY <1>3, <1>4, <1>5

\* A thread that joins those on their way makes them one more, one that leaves
\* them one fewer, and one that takes the place of another as many as before.
LEMMA OneMoreOrFewer ==
  ASSUME NEW S, IsFiniteSet(S), NEW t, NEW u
  PROVE  /\ t \notin S => Cardinality(S \cup {t}) = Cardinality(S) + 1
         /\ Cardinality(S \ {t}) >= Cardinality(S) - 1
         /\ t \in S /\ u \notin S =>
              Cardinality((S \ {t}) \cup {u}) = Cardinality(S)
<1>1. Cardinality(S) \in Nat
  BY FS_CardinalityType
<1>2. t \notin S => Cardinality(S \cup {t}) = Cardinality(S) + 1
  BY FS_AddElement
<1>3. /\ IsFiniteSet(S \ {t})
      /\ Cardinality(S \ {t}) = IF t \in S THEN Cardinality(S) - 1 ELSE Cardinality(S)
  BY FS_RemoveElement, Zenon
<1>4. u \notin S =>
        Cardinality((S \ {t}) \cup {u}) = Cardinality(S \ {t}) + 1
  BY <1>3, FS_AddElement
<1> QED BY <1>1, <1>2, <1>3, <1>4

\* A push puts the message behind all the others, and its sender among those
\* on their way to a receiver.
LEMMA SendStep ==
  ASSUME ChannelIInv, NEW s \in Senders, Send(s)
  PROVE  ChannelIInv'
<1> USE DEF ChannelGoes
<1> DEFINE m == Len(chAccepted) + 1
<1>1. /\ s \in Threads /\ s \notin Receivers
      /\ chThread \in [Threads -> ChannelPlaces] /\ chThread[s] \in {"idle", "woken"}
      /\ chThread' = [chThread EXCEPT ![s] = "notify"]
  BY ChannelAssumption DEF ChannelIInv, ChannelTypeOK, Send, ChannelPush, Threads
<1>2. /\ chBuffer \in Seq(ChannelMessages) /\ chAccepted \in Seq(ChannelMessages)
      /\ chDelivered \in Seq(ChannelMessages)
      /\ Len(chBuffer) \in Nat /\ Len(chAccepted) \in Nat /\ ChannelCapacity \in Nat
      /\ Len(chBuffer) < ChannelCapacity
  BY ChannelAssumption, LenProperties
     DEF ChannelIInv, ChannelTypeOK, Send, ChannelPush, ChannelFull
<1>3. m \in ChannelMessages
  BY <1>2, ChannelAssumption DEF Send, ChannelPush, ChannelMessages
<1>4. /\ chBuffer' = Append(chBuffer, m) /\ chAccepted' = Append(chAccepted, m)
      /\ UNCHANGED <<chDelivered, chOver>>
  BY DEF Send, ChannelPush
<1>5. /\ chBuffer' \in Seq(ChannelMessages) /\ chAccepted' \in Seq(ChannelMessages)
      /\ Len(chBuffer') = Len(chBuffer) + 1
  BY <1>2, <1>3, <1>4, AppendProperties
<1>6. ChannelTypeOK'
  BY <1>1, <1>2, <1>4, <1>5 DEF ChannelIInv, ChannelTypeOK, ChannelPlaces, Threads
<1>7. MessagesCovered'
  <2>1. Stirring' = Stirring \cup {s} /\ s \notin Stirring
    BY <1>1 DEF Stirring, OnTheWay
  <2>2. ChannelAsleep(Receivers)' = ChannelAsleep(Receivers)
    BY <1>1 DEF ChannelAsleep, Threads
  <2>3. IsFiniteSet(Stirring) /\ Cardinality(Stirring) \in Nat
    BY OnTheWayIsFinite DEF Stirring
  <2>4. Cardinality(Stirring') = Cardinality(Stirring) + 1
    BY <2>1, <2>3, OneMoreOrFewer
  <2> QED BY <1>2, <1>5, <2>2, <2>3, <2>4 DEF ChannelIInv, MessagesCovered
<1>8. RoomCovered'
  <2>1. Draining' = Draining \ {s}
    BY <1>1 DEF Draining, OnTheWay
  <2>2. ChannelAsleep(Senders)' = ChannelAsleep(Senders)
    BY <1>1 DEF ChannelAsleep, Threads
  <2>3. IsFiniteSet(Draining) /\ Cardinality(Draining) \in Nat
    BY OnTheWayIsFinite DEF Draining
  <2>4. IsFiniteSet(Draining \ {s}) /\ Cardinality(Draining \ {s}) \in Nat
    BY <2>3, FS_RemoveElement, FS_CardinalityType
  <2>5. Cardinality(Draining') >= Cardinality(Draining) - 1
    BY <2>1, <2>3, OneMoreOrFewer
  <2> QED BY <1>2, <1>5, <2>1, <2>2, <2>3, <2>4, <2>5 DEF ChannelIInv, RoomCovered
<1>9. NothingLost'
  <2>1. /\ chBuffer' = chBuffer \o <<m>>
        /\ chAccepted' = chAccepted \o <<m>>
    BY <1>2, <1>3, <1>4, AppendIsConcat
  <2>2. <<m>> \in Seq(ChannelMessages)
    BY <1>3
  <2>3. (chDelivered \o chBuffer) \o <<m>> = chDelivered \o (chBuffer \o <<m>>)
    BY <1>2, <2>2, ConcatAssociative
  <2> QED BY <1>4, <2>1, <2>3 DEF ChannelIInv, NothingLost
<1>10. EndIsFinal'
  BY <1>1, <1>4 DEF ChannelIInv, EndIsFinal, AllSendersDropped
<1> QED BY <1>6, <1>7, <1>8, <1>9, <1>10 DEF ChannelIInv

\* A pop takes the oldest message, and puts its receiver among those on their
\* way to a sender.
LEMMA RecvStep ==
  ASSUME ChannelIInv, NEW r \in Receivers, Recv(r)
  PROVE  ChannelIInv'
<1> USE DEF ChannelGoes
<1>1. /\ r \in Threads /\ r \notin Senders
      /\ chThread \in [Threads -> ChannelPlaces] /\ chThread[r] \in {"idle", "woken"}
      /\ chThread' = [chThread EXCEPT ![r] = "notify"]
  BY ChannelAssumption DEF ChannelIInv, ChannelTypeOK, Recv, Threads
<1>2. /\ chBuffer \in Seq(ChannelMessages) /\ chAccepted \in Seq(ChannelMessages)
      /\ chDelivered \in Seq(ChannelMessages) /\ chBuffer # <<>>
      /\ Len(chBuffer) \in Nat /\ ChannelCapacity \in Nat
      /\ Len(chBuffer) <= ChannelCapacity
  BY ChannelAssumption, LenProperties DEF ChannelIInv, ChannelTypeOK, Recv
<1>3. /\ chBuffer' = Tail(chBuffer) /\ chDelivered' = Append(chDelivered, Head(chBuffer))
      /\ UNCHANGED <<chAccepted, chOver>>
  BY DEF Recv
<1>4. /\ Head(chBuffer) \in ChannelMessages /\ Tail(chBuffer) \in Seq(ChannelMessages)
      /\ Len(Tail(chBuffer)) = Len(chBuffer) - 1
  BY <1>2, HeadTailProperties
<1>5. chDelivered' \in Seq(ChannelMessages)
  BY <1>2, <1>3, <1>4, AppendProperties
<1>6. ChannelTypeOK'
  BY <1>1, <1>2, <1>3, <1>4, <1>5 DEF ChannelIInv, ChannelTypeOK, ChannelPlaces, Threads
<1>7. MessagesCovered'
  <2>1. Stirring' = Stirring \ {r}
    BY <1>1 DEF Stirring, OnTheWay
  <2>2. ChannelAsleep(Receivers)' = ChannelAsleep(Receivers)
    BY <1>1 DEF ChannelAsleep, Threads
  <2>3. IsFiniteSet(Stirring) /\ Cardinality(Stirring) \in Nat
    BY OnTheWayIsFinite DEF Stirring
  <2>4. IsFiniteSet(Stirring \ {r}) /\ Cardinality(Stirring \ {r}) \in Nat
    BY <2>3, FS_RemoveElement, FS_CardinalityType
  <2>5. Cardinality(Stirring') >= Cardinality(Stirring) - 1
    BY <2>1, <2>3, OneMoreOrFewer
  <2> QED BY <1>2, <1>3, <1>4, <2>1, <2>2, <2>3, <2>4, <2>5
             DEF ChannelIInv, MessagesCovered
<1>8. RoomCovered'
  <2>1. Draining' = Draining \cup {r} /\ r \notin Draining
    BY <1>1 DEF Draining, OnTheWay
  <2>2. ChannelAsleep(Senders)' = ChannelAsleep(Senders)
    BY <1>1 DEF ChannelAsleep, Threads
  <2>3. IsFiniteSet(Draining) /\ Cardinality(Draining) \in Nat
    BY OnTheWayIsFinite DEF Draining
  <2>4. Cardinality(Draining') = Cardinality(Draining) + 1
    BY <2>1, <2>3, OneMoreOrFewer
  <2> QED BY <1>2, <1>3, <1>4, <2>2, <2>3, <2>4 DEF ChannelIInv, RoomCovered
<1>9. NothingLost'
  <2>1. /\ chDelivered' = chDelivered \o <<Head(chBuffer)>>
        /\ <<Head(chBuffer)>> \in Seq(ChannelMessages)
    BY <1>2, <1>3, <1>4, AppendIsConcat
  <2>2. chBuffer = <<Head(chBuffer)>> \o Tail(chBuffer)
    <3>1. Len(chBuffer) \in 1 .. Len(chBuffer) /\ 1 \in 1 .. Len(chBuffer)
      BY <1>2, EmptySeq
    <3>2. SubSeq(chBuffer, 1, Len(chBuffer))
            = <<chBuffer[1]>> \o SubSeq(chBuffer, 1 + 1, Len(chBuffer))
      BY <1>2, <3>1, SubSeqRecursiveFirst
    <3>3. SubSeq(chBuffer, 1, Len(chBuffer)) = chBuffer
      BY <1>2, SubSeqFull
    <3>4. Tail(chBuffer) = SubSeq(chBuffer, 2, Len(chBuffer))
      BY <1>2, TailIsSubSeq
    <3>5. Head(chBuffer) = chBuffer[1]
      BY <1>2, <3>1, <3>3, HeadTailOfSubSeq
    <3> QED BY <3>2, <3>3, <3>4, <3>5
  <2>3. chDelivered \o (<<Head(chBuffer)>> \o Tail(chBuffer))
          = (chDelivered \o <<Head(chBuffer)>>) \o Tail(chBuffer)
    BY <1>2, <1>4, <2>1, ConcatAssociative
  <2> QED BY <1>3, <2>1, <2>2, <2>3 DEF ChannelIInv, NothingLost
<1>10. EndIsFinal'
  BY <1>1, <1>3 DEF ChannelIInv, EndIsFinal, AllSendersDropped, Threads
<1> QED BY <1>6, <1>7, <1>8, <1>9, <1>10 DEF ChannelIInv

\* A sender sleeps only when there is no room to cover.
LEMMA SendWaitsStep ==
  ASSUME ChannelIInv, NEW s \in Senders, SendWaits(s)
  PROVE  ChannelIInv'
<1> USE DEF ChannelGoes
<1>1. /\ s \in Threads /\ s \notin Receivers
      /\ chThread \in [Threads -> ChannelPlaces] /\ chThread[s] \in {"idle", "woken"}
      /\ chThread' = [chThread EXCEPT ![s] = "asleep"]
      /\ UNCHANGED <<chBuffer, chAccepted, chDelivered, chOver>>
  BY ChannelAssumption DEF ChannelIInv, ChannelTypeOK, SendWaits, Threads
<1>2. Stirring' = Stirring /\ ChannelAsleep(Receivers)' = ChannelAsleep(Receivers)
  BY <1>1 DEF Stirring, OnTheWay, ChannelAsleep, Threads
<1>3. RoomCovered'
  <2>1. Cardinality(Draining)' \in Nat
    <3>1. Draining' \in SUBSET Threads /\ IsFiniteSet(Threads)
      BY ChannelAssumption, FS_Union DEF Draining, OnTheWay, Threads
    <3> QED BY <3>1, FS_Subset, FS_CardinalityType
  <2>2. /\ ChannelCapacity \in Nat /\ Len(chBuffer) \in Nat
        /\ Len(chBuffer) >= ChannelCapacity
    BY ChannelAssumption, LenProperties
       DEF ChannelIInv, ChannelTypeOK, SendWaits, ChannelFull
  <2> QED BY <1>1, <2>1, <2>2 DEF RoomCovered
<1>4. ChannelTypeOK' /\ NothingLost'
  BY <1>1 DEF ChannelIInv, ChannelTypeOK, NothingLost, ChannelPlaces, Threads
<1>5. MessagesCovered'
  BY <1>1, <1>2 DEF ChannelIInv, MessagesCovered
<1>6. EndIsFinal'
  BY <1>1 DEF ChannelIInv, EndIsFinal, AllSendersDropped
<1> QED BY <1>3, <1>4, <1>5, <1>6 DEF ChannelIInv

\* The Sender that goes was in no call: nobody on the way changes.
LEMMA DropSenderStep ==
  ASSUME ChannelIInv, NEW s \in Senders, DropSender(s)
  PROVE  ChannelIInv'
<1> USE DEF ChannelGoes
<1>1. /\ s \in Threads /\ s \notin Receivers
      /\ chThread \in [Threads -> ChannelPlaces] /\ chThread[s] = "idle"
      /\ chThread' = [chThread EXCEPT ![s] = "dropped"]
      /\ UNCHANGED <<chBuffer, chAccepted, chDelivered, chOver>>
  BY ChannelAssumption DEF ChannelIInv, ChannelTypeOK, DropSender, Threads
<1>2. Stirring' = Stirring /\ Draining' = Draining
  BY <1>1 DEF Stirring, Draining, OnTheWay
<1>3. /\ ChannelAsleep(Receivers)' = ChannelAsleep(Receivers)
      /\ ChannelAsleep(Senders)' = ChannelAsleep(Senders)
  BY <1>1 DEF ChannelAsleep, Threads
<1>4. ChannelTypeOK' /\ NothingLost'
  BY <1>1 DEF ChannelIInv, ChannelTypeOK, NothingLost, ChannelPlaces, Threads
<1>5. MessagesCovered' /\ RoomCovered'
  BY <1>1, <1>2, <1>3 DEF ChannelIInv, MessagesCovered, RoomCovered
<1>6. EndIsFinal'
  BY <1>1 DEF ChannelIInv, EndIsFinal, AllSendersDropped, Threads
<1> QED BY <1>4, <1>5, <1>6 DEF ChannelIInv

\* A receiver that finds no message, whether it sleeps or gives up, leaves no
\* message to cover and is on the way to no sender.
LEMMA EmptyRecvStep ==
  ASSUME ChannelIInv, NEW r \in Receivers, RecvClosed(r) \/ RecvWaits(r)
  PROVE  ChannelIInv'
<1> USE DEF ChannelGoes
<1> DEFINE place == IF AllSendersDropped THEN "idle" ELSE "asleep"
<1>1. /\ r \in Threads /\ r \notin Senders /\ chBuffer = <<>>
      /\ chThread \in [Threads -> ChannelPlaces] /\ chThread[r] \in {"idle", "woken"}
      /\ chThread' = [chThread EXCEPT ![r] = place]
      /\ UNCHANGED <<chBuffer, chAccepted, chDelivered>>
      /\ chOver' \in {chOver, TRUE} /\ (chOver' # chOver => AllSendersDropped)
  BY ChannelAssumption
     DEF ChannelIInv, ChannelTypeOK, RecvClosed, RecvWaits, Threads
<1>2. Draining' = Draining /\ ChannelAsleep(Senders)' = ChannelAsleep(Senders)
  BY <1>1 DEF Draining, OnTheWay, ChannelAsleep, Threads
<1>3. MessagesCovered'
  <2>1. Cardinality(Stirring)' \in Nat
    <3>1. Stirring' \in SUBSET Threads /\ IsFiniteSet(Threads)
      BY ChannelAssumption, FS_Union DEF Stirring, OnTheWay, Threads
    <3> QED BY <3>1, FS_Subset, FS_CardinalityType
  <2>2. Len(chBuffer) = 0
    BY <1>1, EmptySeq
  <2> QED BY <1>1, <2>1, <2>2 DEF MessagesCovered
<1>4. ChannelTypeOK' /\ NothingLost'
  BY <1>1 DEF ChannelIInv, ChannelTypeOK, NothingLost, ChannelPlaces, Threads
<1>5. RoomCovered'
  BY <1>1, <1>2 DEF ChannelIInv, RoomCovered
<1>6. EndIsFinal'
  <2>1. AllSendersDropped' <=> AllSendersDropped
    BY <1>1 DEF AllSendersDropped, Threads
  <2> QED BY <1>1, <2>1 DEF ChannelIInv, EndIsFinal
<1> QED BY <1>3, <1>4, <1>5, <1>6 DEF ChannelIInv

\* A notification hands the notifier's place on the way to the thread it
\* wakes, or finds nobody asleep. Both directions are the same argument.
LEMMA NotifyKeepsTheCount ==
  ASSUME ChannelIInv, NEW from, NEW to,
         \/ from = Senders /\ to = Receivers
         \/ from = Receivers /\ to = Senders,
         NEW t \in from, chThread[t] = "notify", ChannelNotifyOne(t, to)
  PROVE  /\ \/ ChannelAsleep(to)' = {}
            \/ Cardinality(OnTheWay(from, to))' = Cardinality(OnTheWay(from, to))
         /\ ChannelAsleep(to)' # {} => ChannelAsleep(to) # {}
         /\ ChannelAsleep(from)' = ChannelAsleep(from)
         /\ OnTheWay(to, from)' = OnTheWay(to, from)
         /\ chThread' \in [Threads -> ChannelPlaces]
         /\ AllSendersDropped => AllSendersDropped'
<1>1. /\ chThread \in [Threads -> ChannelPlaces] /\ t \in Threads /\ t \notin to
      /\ from \cap to = {} /\ Threads = from \cup to /\ Senders \subseteq Threads
  BY ChannelAssumption DEF ChannelIInv, ChannelTypeOK, Threads
<1>2. CASE ChannelAsleep(to) = {}
  <2>1. chThread' = [chThread EXCEPT ![t] = "idle"]
    BY <1>2 DEF ChannelNotifyOne, ChannelGoes
  <2>2. chThread' \in [Threads -> ChannelPlaces]
    BY <1>1, <2>1 DEF ChannelPlaces
  <2>3. ChannelAsleep(to)' = {} /\ ChannelAsleep(from)' = ChannelAsleep(from)
    BY <1>1, <1>2, <2>1 DEF ChannelAsleep
  <2>4. OnTheWay(to, from)' = OnTheWay(to, from)
    BY <1>1, <2>1 DEF OnTheWay
  <2>5. AllSendersDropped => AllSendersDropped'
    BY <1>1, <2>1 DEF AllSendersDropped
  <2> QED BY <2>2, <2>3, <2>4, <2>5
<1>3. CASE ChannelAsleep(to) # {}
  <2>1. PICK u \in ChannelAsleep(to) :
               chThread' = [chThread EXCEPT ![t] = "idle", ![u] = "woken"]
    BY <1>3 DEF ChannelNotifyOne
  <2>2. u \in to /\ u \in Threads /\ u # t /\ chThread[u] = "asleep"
    BY <1>1, <2>1 DEF ChannelAsleep
  <2>3. chThread' \in [Threads -> ChannelPlaces]
    BY <1>1, <2>1, <2>2 DEF ChannelPlaces
  <2>4. ChannelAsleep(from)' = ChannelAsleep(from)
    BY <1>1, <2>1, <2>2 DEF ChannelAsleep
  <2>5. OnTheWay(to, from)' = OnTheWay(to, from)
    BY <1>1, <2>1, <2>2 DEF OnTheWay
  <2>6. AllSendersDropped => AllSendersDropped'
    BY <1>1, <2>1, <2>2 DEF AllSendersDropped
  <2>7. /\ OnTheWay(from, to)' = (OnTheWay(from, to) \ {t}) \cup {u}
        /\ t \in OnTheWay(from, to) /\ u \notin OnTheWay(from, to)
    BY <1>1, <2>1, <2>2 DEF OnTheWay
  <2>8. Cardinality(OnTheWay(from, to))' = Cardinality(OnTheWay(from, to))
    <3>1. IsFiniteSet(OnTheWay(from, to))
      BY OnTheWayIsFinite
    <3>2. \A S : IsFiniteSet(S) /\ t \in S /\ u \notin S =>
                   Cardinality((S \ {t}) \cup {u}) = Cardinality(S)
      BY OneMoreOrFewer
    <3> QED BY <2>7, <3>1, <3>2
  <2> QED BY <1>3, <2>3, <2>4, <2>5, <2>6, <2>8
<1> QED BY <1>2, <1>3

\* notify_one, from either side.
LEMMA ChannelNotifyStep ==
  ASSUME ChannelIInv, NEW t \in Threads, ChannelNotify(t)
  PROVE  ChannelIInv'
<1>1. UNCHANGED <<chBuffer, chAccepted, chDelivered, chOver>> /\ chThread[t] = "notify"
  BY DEF ChannelNotify
<1>2. /\ chThread' \in [Threads -> ChannelPlaces]
      /\ AllSendersDropped => AllSendersDropped'
      /\ MessagesCovered' /\ RoomCovered'
  <2>1. CASE t \in Senders
    <3>1. ChannelNotifyOne(t, Receivers)
      BY <2>1 DEF ChannelNotify
    <3> QED BY <1>1, <2>1, <3>1, NotifyKeepsTheCount
            DEF ChannelIInv, MessagesCovered, RoomCovered, Stirring, Draining
  <2>2. CASE t \in Receivers
    <3>1. ChannelNotifyOne(t, Senders)
      BY <2>2, ChannelAssumption DEF ChannelNotify
    <3> QED BY <1>1, <2>2, <3>1, NotifyKeepsTheCount
            DEF ChannelIInv, MessagesCovered, RoomCovered, Stirring, Draining
  <2> QED BY <2>1, <2>2 DEF Threads
<1> QED BY <1>1, <1>2 DEF ChannelIInv, ChannelTypeOK, NothingLost, EndIsFinal, Threads

\* A sleeper that wakes by itself is one more thread on the way.
LEMMA ChannelSpuriousWakeStep ==
  ASSUME ChannelIInv, NEW t \in Threads, ChannelSpuriousWake(t)
  PROVE  ChannelIInv'
<1>1. /\ chThread \in [Threads -> ChannelPlaces] /\ chThread[t] = "asleep"
      /\ chThread' = [chThread EXCEPT ![t] = "woken"]
      /\ UNCHANGED <<chBuffer, chAccepted, chDelivered, chOver>>
      /\ Senders \cap Receivers = {}
      /\ Len(chBuffer) \in Nat /\ ChannelCapacity \in Nat
  BY ChannelAssumption, LenProperties
     DEF ChannelIInv, ChannelTypeOK, ChannelSpuriousWake, ChannelGoes, Threads
<1>2. /\ IsFiniteSet(Stirring) /\ Cardinality(Stirring) \in Nat
      /\ IsFiniteSet(Draining) /\ Cardinality(Draining) \in Nat
  BY OnTheWayIsFinite DEF Stirring, Draining
<1>3. /\ ChannelAsleep(Receivers)' \subseteq ChannelAsleep(Receivers)
      /\ ChannelAsleep(Senders)' \subseteq ChannelAsleep(Senders)
  BY <1>1 DEF ChannelAsleep, Threads
<1>4. MessagesCovered' /\ RoomCovered'
  <2>1. CASE t \in Senders
    <3>1. /\ Draining' = Draining \cup {t} /\ t \notin Draining
          /\ Stirring' = Stirring
      BY <1>1, <2>1 DEF Stirring, Draining, OnTheWay
    <3>2. Cardinality(Draining') = Cardinality(Draining) + 1
      BY <1>2, <3>1, OneMoreOrFewer
    <3> QED BY <1>1, <1>2, <1>3, <3>1, <3>2
            DEF ChannelIInv, MessagesCovered, RoomCovered
  <2>2. CASE t \in Receivers
    <3>1. /\ Stirring' = Stirring \cup {t} /\ t \notin Stirring
          /\ Draining' = Draining
      BY <1>1, <2>2 DEF Stirring, Draining, OnTheWay
    <3>2. Cardinality(Stirring') = Cardinality(Stirring) + 1
      BY <1>2, <3>1, OneMoreOrFewer
    <3> QED BY <1>1, <1>2, <1>3, <3>1, <3>2
            DEF ChannelIInv, MessagesCovered, RoomCovered
  <2> QED BY <2>1, <2>2 DEF Threads
<1>5. ChannelTypeOK' /\ NothingLost' /\ EndIsFinal'
  BY <1>1 DEF ChannelIInv, ChannelTypeOK, NothingLost, EndIsFinal,
     AllSendersDropped, ChannelPlaces, Threads
<1> QED BY <1>4, <1>5 DEF ChannelIInv

\* In the beginning the buffer is empty and nobody sleeps.
LEMMA ChannelInitially ==
  ASSUME ChannelInit
  PROVE  ChannelIInv
<1>1. ChannelAsleep(Senders) = {} /\ ChannelAsleep(Receivers) = {}
  BY DEF ChannelInit, ChannelAsleep
<1>2. /\ <<>> \in Seq(ChannelMessages) /\ Len(<<>>) = 0
      /\ <<>> \o <<>> = <<>>
  BY EmptySeq, ConcatEmptySeq
<1>3. ChannelTypeOK
  <2>1. chBuffer \in Seq(ChannelMessages) /\ Len(chBuffer) <= ChannelCapacity
    BY <1>2, ChannelAssumption DEF ChannelInit
  <2>2. chThread \in [Senders \cup Receivers -> ChannelPlaces]
    BY DEF ChannelInit, ChannelPlaces
  <2> QED BY <1>2, <2>1, <2>2 DEF ChannelInit, ChannelTypeOK
<1> QED BY <1>1, <1>2, <1>3
        DEF ChannelInit, ChannelIInv, MessagesCovered, RoomCovered, NothingLost,
            EndIsFinal

\* Every step of every thread keeps the strengthened invariant.
LEMMA ChannelInductive ==
  ASSUME ChannelIInv, [ChannelNext]_channelVars
  PROVE  ChannelIInv'
<1>1. CASE UNCHANGED channelVars
  BY <1>1 DEF channelVars, ChannelIInv, ChannelTypeOK, MessagesCovered,
     RoomCovered, NothingLost, EndIsFinal, AllSendersDropped, ChannelAsleep,
     Stirring, Draining, OnTheWay
<1>2. ASSUME NEW s \in Senders, Send(s) \/ SendWaits(s) \/ DropSender(s)
      PROVE  ChannelIInv'
  BY <1>2, SendStep, SendWaitsStep, DropSenderStep
<1>3. ASSUME NEW r \in Receivers, Recv(r) \/ RecvClosed(r) \/ RecvWaits(r)
      PROVE  ChannelIInv'
  BY <1>3, RecvStep, EmptyRecvStep
<1>4. ASSUME NEW t \in Senders \cup Receivers,
             ChannelNotify(t) \/ ChannelSpuriousWake(t)
      PROVE  ChannelIInv'
  BY <1>4, ChannelNotifyStep, ChannelSpuriousWakeStep DEF Threads
<1> QED BY <1>1, <1>2, <1>3, <1>4 DEF ChannelNext

\* The strengthened invariant of the channel (channel.rs:21-109).
THEOREM ChannelIsInductive == ChannelSpec => []ChannelIInv
<1>1. ChannelInit => ChannelIInv
  BY ChannelInitially
<1>2. ChannelIInv /\ [ChannelNext]_channelVars => ChannelIInv'
  BY ChannelInductive
<1> QED BY <1>1, <1>2, PTL DEF ChannelSpec

\* Every variable keeps its type; in particular the deque never holds more
\* than the capacity given to channel().
THEOREM ChannelTyping == ChannelSpec => []ChannelTypeOK
<1>1. ChannelIInv => ChannelTypeOK
  BY DEF ChannelIInv
<1> QED BY <1>1, ChannelIsInductive, PTL

\* The counts imply that a thread is on its way to every sleeper that could
\* go on: the notify_one after the unlock loses no wakeup, whoever else pushes,
\* pops, sleeps or wakes in between (channel.rs:38-41, 89-91).
THEOREM NoLostWakeup == ChannelSpec => []ChannelNoLostWakeup
<1>1. ASSUME ChannelIInv
      PROVE  ChannelNoLostWakeup
  <2>1. /\ Len(chBuffer) \in Nat /\ ChannelCapacity \in Nat
        /\ chBuffer # <<>> => Len(chBuffer) > 0
    BY <1>1, ChannelAssumption, LenProperties, EmptySeq DEF ChannelIInv, ChannelTypeOK
  <2>2. /\ Cardinality(Stirring) \in Nat
        /\ Cardinality(Stirring) > 0 => Stirring # {}
        /\ Cardinality(Draining) \in Nat
        /\ Cardinality(Draining) > 0 => Draining # {}
    BY OnTheWayIsFinite DEF Stirring, Draining
  <2>3. chBuffer # <<>> /\ ChannelAsleep(Receivers) # {} => Stirring # {}
    BY <1>1, <2>1, <2>2 DEF ChannelIInv, MessagesCovered
  <2>4. ~ChannelFull /\ ChannelAsleep(Senders) # {} => Draining # {}
    BY <1>1, <2>1, <2>2 DEF ChannelIInv, RoomCovered, ChannelFull
  <2> QED BY <2>3, <2>4 DEF ChannelNoLostWakeup, Stirring, Draining, OnTheWay
<1> QED BY <1>1, ChannelIsInductive, PTL

\* A push is an Accept of one message.
LEMMA SendAccepts ==
  ASSUME ChannelIInv, NEW s \in Senders, Send(s)
  PROVE  ChannelFifo!Accept
<1> DEFINE m == Len(chAccepted) + 1
<1>1. /\ chBuffer \in Seq(ChannelMessages) /\ chAccepted \in Seq(ChannelMessages)
      /\ chDelivered \in Seq(ChannelMessages) /\ ChannelCapacity \in Nat
      /\ Len(chBuffer) \in Nat /\ Len(chAccepted) \in Nat /\ Len(chDelivered) \in Nat
      /\ Len(chBuffer) < ChannelCapacity
  BY ChannelAssumption, LenProperties
     DEF ChannelIInv, ChannelTypeOK, Send, ChannelPush, ChannelFull
<1>2. /\ m \in ChannelMessages /\ chAccepted' = Append(chAccepted, m)
      /\ UNCHANGED <<chDelivered, chOver>>
  BY <1>1, ChannelAssumption DEF Send, ChannelPush, ChannelMessages
<1>3. Len(chAccepted) = Len(chDelivered) + Len(chBuffer)
  BY <1>1, ConcatProperties DEF ChannelIInv, NothingLost
<1>4. 1 \in 1 .. ChannelCapacity - (Len(chAccepted) - Len(chDelivered))
  BY <1>1, <1>3
<1>5. Len(chAccepted') = Len(chAccepted) + 1
  BY <1>1, <1>2, AppendProperties
<1>6. IsPrefix(chAccepted, chAccepted')
  <2>1. <<m>> \in Seq(ChannelMessages) /\ chAccepted' = chAccepted \o <<m>>
    BY <1>1, <1>2, AppendIsConcat
  <2>2. CASE Len(chAccepted) = 0
    BY <1>1, <1>5, <2>2, SubSeqEmpty DEF IsPrefix
  <2>3. CASE Len(chAccepted) # 0
    <3>1. 1 \in 1 .. Len(chAccepted) /\ Len(chAccepted) \in 1 .. Len(chAccepted)
      BY <1>1, <2>3
    <3>2. SubSeq(chAccepted', 1, Len(chAccepted)) = SubSeq(chAccepted, 1, Len(chAccepted))
      BY <1>1, <2>1, <3>1, SubSeqOfConcat1
    <3> QED BY <1>1, <1>5, <3>2 DEF IsPrefix
  <2> QED BY <2>2, <2>3
<1>7. ~chOver
  BY DEF ChannelIInv, EndIsFinal, AllSendersDropped, Send
<1> QED BY <1>2, <1>4, <1>5, <1>6, <1>7 DEF ChannelFifo!Accept, ChannelFifo!IsPrefix, IsPrefix

\* A pop is a Deliver of one message: the oldest that has not come out.
LEMMA RecvDelivers ==
  ASSUME ChannelIInv, NEW r \in Receivers, Recv(r)
  PROVE  ChannelFifo!Deliver
<1>1. /\ chBuffer \in Seq(ChannelMessages) /\ chAccepted \in Seq(ChannelMessages)
      /\ chDelivered \in Seq(ChannelMessages)
      /\ Len(chBuffer) \in Nat \ {0} /\ Len(chDelivered) \in Nat
  BY LenProperties, EmptySeq DEF ChannelIInv, ChannelTypeOK, Recv
<1>2. /\ chDelivered' = Append(chDelivered, Head(chBuffer))
      /\ Head(chBuffer) \in ChannelMessages
      /\ UNCHANGED <<chAccepted, chOver>>
  BY <1>1, HeadTailProperties DEF Recv
<1>3. /\ chDelivered' \in Seq(ChannelMessages) /\ chBuffer' \in Seq(ChannelMessages)
      /\ Len(chDelivered') = Len(chDelivered) + 1
      /\ chAccepted = chDelivered' \o chBuffer'
  <2>1. ChannelIInv'
    BY RecvStep
  <2> QED BY <1>1, <1>2, <2>1, AppendProperties
          DEF ChannelIInv, ChannelTypeOK, NothingLost
<1>4. Len(chAccepted) = Len(chDelivered) + Len(chBuffer)
  BY <1>1, ConcatProperties DEF ChannelIInv, NothingLost
<1>5. 1 \in 1 .. Len(chAccepted) - Len(chDelivered)
  BY <1>1, <1>4
<1>6. SubSeq(chAccepted, 1, Len(chDelivered')) = chDelivered'
  <2>1. /\ 1 \in 1 .. Len(chDelivered')
        /\ Len(chDelivered') \in 1 .. Len(chDelivered')
    BY <1>1, <1>3
  <2>2. SubSeq(chDelivered' \o chBuffer', 1, Len(chDelivered'))
          = SubSeq(chDelivered', 1, Len(chDelivered'))
    BY <1>3, <2>1, SubSeqOfConcat1
  <2> QED BY <1>3, <2>2, SubSeqFull
<1>7. chDelivered' = SubSeq(chAccepted, 1, Len(chDelivered) + 1)
  BY <1>3, <1>6
<1> QED BY <1>2, <1>5, <1>7 DEF ChannelFifo!Deliver

\* Every step of the channel is a step of the FIFO or changes nothing an
\* observer of the calls can see.
LEMMA ChannelStepRefines ==
  ASSUME ChannelIInv, [ChannelNext]_channelVars
  PROVE  [ChannelFifo!FifoNext]_(ChannelFifo!fifoVars)
<1> USE DEF ChannelFifo!FifoNext, ChannelFifo!fifoVars
<1>1. CASE UNCHANGED channelVars
  BY <1>1 DEF channelVars
<1>2. ASSUME NEW s \in Senders, Send(s)
      PROVE  ChannelFifo!FifoNext
  BY <1>2, SendAccepts
<1>3. ASSUME NEW r \in Receivers, Recv(r)
      PROVE  ChannelFifo!FifoNext
  BY <1>3, RecvDelivers
<1>4. ASSUME NEW r \in Receivers, RecvClosed(r)
      PROVE  ChannelFifo!EndOfStream
  <2>1. chDelivered \o <<>> = chDelivered
    BY ConcatEmptySeq DEF ChannelIInv, ChannelTypeOK
  <2> QED BY <1>4, <2>1 DEF ChannelIInv, NothingLost, RecvClosed, ChannelFifo!EndOfStream
<1>5. ASSUME NEW s \in Senders, SendWaits(s) \/ DropSender(s)
      PROVE  UNCHANGED ChannelFifo!fifoVars
  BY <1>5 DEF SendWaits, DropSender
<1>6. ASSUME NEW r \in Receivers, RecvWaits(r)
      PROVE  UNCHANGED ChannelFifo!fifoVars
  BY <1>6 DEF RecvWaits
<1>7. ASSUME NEW t \in Senders \cup Receivers,
             ChannelNotify(t) \/ ChannelSpuriousWake(t)
      PROVE  UNCHANGED ChannelFifo!fifoVars
  BY <1>7 DEF ChannelNotify, ChannelSpuriousWake
<1> QED BY <1>1, <1>2, <1>3, <1>4, <1>5, <1>6, <1>7 DEF ChannelNext

\* Whatever senders and receivers do to the deque, to an observer of the calls
\* the channel is a bounded FIFO whose end is final (channel.rs:21-109).
THEOREM ChannelIsFifo == ChannelSpec => ChannelImplementsFifo
<1>1. ChannelInit => ChannelFifo!FifoInit
  BY DEF ChannelInit, ChannelFifo!FifoInit
<1>2. ChannelIInv /\ [ChannelNext]_channelVars
        => [ChannelFifo!FifoNext]_(ChannelFifo!fifoVars)
  BY ChannelStepRefines
<1> QED BY <1>1, <1>2, ChannelIsInductive, PTL
        DEF ChannelSpec, ChannelImplementsFifo, ChannelFifo!FifoSpec

(***************************************************************************)
(* Safety of Pipe for any finite sets of readers and writers, any capacity *)
(* and any lengths of the calls.                                           *)
(*                                                                         *)
(* PipeIInv says, apart from types: who holds the mutex; that a write that *)
(* waits is not finished; that what came out followed by the buffer is     *)
(* what went in; that after the end was announced no writer is in its      *)
(* loop; who is on the way to a sleeping writer when the buffer is empty   *)
(* and to the only reader when it is not; and that close_pipe, which does  *)
(* not take the buffer's mutex, can miss only the thread that holds it.    *)
(***************************************************************************)

\* The types, but for the bound on bytes (PipeBounded).
PipeTyped ==
  /\ pBuffer \in Seq(Nat) /\ Len(pBuffer) <= PipeCapacity
  /\ pIn \in Seq(Nat) /\ pOut \in Seq(Nat)
  /\ pClosed \in BOOLEAN /\ pOver \in BOOLEAN
  /\ pHolder \in PipeThreads \cup {NoThread}
  /\ pThread \in [PipeThreads -> PipePlaces]
  /\ pSize \in [PipeThreads -> Nat]
  /\ pWritten \in [PipeWriters -> Nat]
  /\ pClosing \in {"no", "set", "half", "done"}

\* The thread that keeps the mutex is the one in its loop or at its look.
HolderIsInside ==
  /\ \A w \in PipeWriters : /\ pThread[w] # "checked"
                            /\ pThread[w] = "filling" <=> pHolder = w
  /\ \A r \in PipeReaders : /\ pThread[r] # "filling"
                            /\ pThread[r] = "checked" <=> pHolder = r

\* A call that waits has bytes left to move.
CallsUnfinished ==
  /\ \A w \in PipeWriters :
       pThread[w] \in {"filling", "asleep", "woken"} => pWritten[w] < pSize[w]
  /\ \A r \in PipeReaders :
       pThread[r] \in {"checked", "asleep", "woken"} => pSize[r] > 0

BytesInOrder == pIn = pOut \o pBuffer

EndStays == pOver => pClosed /\ \A w \in PipeWriters : pThread[w] # "filling"

\* Somebody is on the way to the writers that sleep before an empty buffer.
WritersServed ==
  ~pClosed /\ pBuffer = <<>> /\ PipeAsleep(PipeWriters) # {} =>
    \/ \E r \in PipeReaders : pThread[r] = "notify"
    \/ \E w \in PipeWriters : pThread[w] \in {"woken", "filling"}

\* Somebody is on the way to an only reader that sleeps before a full buffer,
\* or a write longer than the capacity is under way.
ReaderServed ==
  \A r \in PipeReaders :
    /\ pThread[r] = "checked" => pBuffer = <<>>
    /\ PipeReaders = {r} /\ ~pClosed /\ pBuffer # <<>> /\ pThread[r] = "asleep" =>
         \E w \in PipeWriters :
            \/ pThread[w] = "notify"
            \/ pThread[w] \in {"asleep", "woken", "filling"} /\ pSize[w] > PipeCapacity

\* The threads that may yet sleep after close_pipe has notified their side.
ClosingMissesOne ==
  /\ pClosed <=> pClosing # "no"
  /\ pClosing \in {"half", "done"} =>
       \A r, s \in PipeReaders :
          pThread[r] \in {"asleep", "checked"} /\ pThread[s] \in {"asleep", "checked"} => r = s
  /\ pClosing = "done" =>
       \A w, v \in PipeWriters :
          pThread[w] \in {"asleep", "filling"} /\ pThread[v] \in {"asleep", "filling"} => w = v

PipeIInv ==
  /\ PipeTyped /\ HolderIsInside /\ CallsUnfinished /\ BytesInOrder /\ EndStays
  /\ WritersServed /\ ReaderServed /\ ClosingMissesOne

(***************************************************************************)
(* Sequences                                                               *)
(***************************************************************************)
\* The smaller of two naturals.
LEMMA MinOfTwo ==
  ASSUME NEW a \in Nat, NEW b \in Nat
  PROVE  /\ Min({a, b}) \in {a, b}
         /\ Min({a, b}) <= a /\ Min({a, b}) <= b
<1>1. \E x \in {a, b} : \A y \in {a, b} : x <= y
  <2>1. CASE a <= b BY <2>1
  <2>2. CASE b <= a BY <2>2
  <2> QED BY <2>1, <2>2
<1>2. Min({a, b}) \in {a, b} /\ \A y \in {a, b} : Min({a, b}) <= y
  BY <1>1, Zenon DEF Min
<1> QED BY <1>2

\* A function on 1 .. n is a sequence of length n.
LEMMA FunctionIsSequence ==
  ASSUME NEW S, NEW n \in Nat, NEW f \in [1 .. n -> S]
  PROVE  f \in Seq(S) /\ Len(f) = n
<1>1. f \in Seq(S)
  BY SeqDef
<1>2. Len(f) \in Nat /\ DOMAIN f = 1 .. Len(f)
  BY <1>1, LenProperties
<1>3. DOMAIN f = 1 .. n
  OBVIOUS
<1>4. 1 .. n = 1 .. Len(f) => n = Len(f)
  BY <1>2
<1> QED BY <1>1, <1>2, <1>3, <1>4

\* A sequence is a prefix of what is appended to it.
LEMMA ConcatExtends ==
  ASSUME NEW S, NEW s \in Seq(S), NEW t \in Seq(S)
  PROVE  SubSeq(s, 1, Len(s)) = SubSeq(s \o t, 1, Len(s))
<1>1. Len(s) \in Nat
  BY LenProperties
<1>2. CASE Len(s) = 0
  BY <1>2, SubSeqEmpty
<1>3. CASE Len(s) # 0
  <2>1. 1 \in 1 .. Len(s) /\ Len(s) \in 1 .. Len(s)
    BY <1>1, <1>3
  <2> QED BY <2>1, SubSeqOfConcat1
<1> QED BY <1>1, <1>2, <1>3

(***************************************************************************)
(* Bytes                                                                   *)
(***************************************************************************)
\* Pushing n bytes that fit lengthens the buffer and what went in by n, in
\* the same order, and to an observer it is an Accept.
LEMMA PushBytesInOrder ==
  ASSUME PipeTyped, BytesInOrder, NEW n \in Nat, n <= PipeRoom, PushBytes(n),
         pOut' = pOut
  PROVE  /\ pBuffer' \in Seq(Nat) /\ Len(pBuffer') = Len(pBuffer) + n
         /\ Len(pBuffer') <= PipeCapacity
         /\ pIn' \in Seq(Nat)
         /\ BytesInOrder'
         /\ n = 0 => pBuffer' = pBuffer /\ pIn' = pIn
         /\ n > 0 => pBuffer' # <<>>
         /\ n > 0 /\ ~pOver /\ pOver' = pOver => PipeFifo!Accept
<1> DEFINE bytes == [i \in 1 .. n |-> Len(pIn) + i]
<1>1. /\ pBuffer \in Seq(Nat) /\ pIn \in Seq(Nat) /\ pOut \in Seq(Nat)
      /\ Len(pBuffer) \in Nat /\ Len(pIn) \in Nat /\ Len(pOut) \in Nat
      /\ PipeCapacity \in Nat
  BY PipeAssumption, LenProperties DEF PipeTyped
<1>2. bytes \in Seq(Nat) /\ Len(bytes) = n
  <2>1. bytes \in [1 .. n -> Nat]
    BY <1>1
  <2> QED BY <2>1, FunctionIsSequence
<1>3. pBuffer' = pBuffer \o bytes /\ pIn' = pIn \o bytes
  BY DEF PushBytes
<1> HIDE DEF bytes
<1>4. /\ pBuffer' \in Seq(Nat) /\ Len(pBuffer') = Len(pBuffer) + n
      /\ pIn' \in Seq(Nat) /\ Len(pIn') = Len(pIn) + n
  BY <1>1, <1>2, <1>3, ConcatProperties
<1>5. Len(pBuffer') <= PipeCapacity
  BY <1>1, <1>4 DEF PipeRoom
<1>6. BytesInOrder'
  <2>1. (pOut \o pBuffer) \o bytes = pOut \o (pBuffer \o bytes)
    BY <1>1, <1>2, ConcatAssociative
  <2> QED BY <1>3, <2>1 DEF BytesInOrder
<1>7. n = 0 => pBuffer' = pBuffer /\ pIn' = pIn
  <2>1. n = 0 => bytes = <<>>
    BY <1>2, EmptySeq
  <2> QED BY <1>1, <1>3, <2>1, ConcatEmptySeq
<1>8. n > 0 => pBuffer' # <<>>
  BY <1>1, <1>4, EmptySeq
<1>9. ASSUME n > 0, ~pOver, pOver' = pOver
      PROVE  PipeFifo!Accept
  <2>1. Len(pIn) = Len(pOut) + Len(pBuffer)
    BY <1>1, ConcatProperties DEF BytesInOrder
  <2>2. n \in 1 .. PipeCapacity - (Len(pIn) - Len(pOut))
    BY <1>1, <1>9, <2>1 DEF PipeRoom
  <2>3. SubSeq(pIn, 1, Len(pIn)) = SubSeq(pIn', 1, Len(pIn))
    BY <1>1, <1>2, <1>3, ConcatExtends
  <2>4. Len(pIn) <= Len(pIn')
    BY <1>1, <1>4
  <2> QED BY <1>4, <1>9, <2>2, <2>3, <2>4
          DEF PipeFifo!Accept, PipeFifo!IsPrefix
<1> QED BY <1>4, <1>5, <1>6, <1>7, <1>8, <1>9

\* Popping the oldest n bytes hands them out in order, and to an observer it
\* is a Deliver; popping none changes nothing.
LEMMA PopBytesInOrder ==
  ASSUME PipeTyped, BytesInOrder, NEW n \in Nat, n <= Len(pBuffer), PopBytes(n),
         pIn' = pIn
  PROVE  /\ pBuffer' \in Seq(Nat) /\ Len(pBuffer') <= PipeCapacity
         /\ pOut' \in Seq(Nat)
         /\ BytesInOrder'
         /\ pBuffer = <<>> => pBuffer' = <<>> /\ pOut' = pOut
         /\ n > 0 /\ pOver' = pOver => PipeFifo!Deliver
<1> DEFINE bytes == SubSeq(pBuffer, 1, n)
<1>1. /\ pBuffer \in Seq(Nat) /\ pIn \in Seq(Nat) /\ pOut \in Seq(Nat)
      /\ Len(pBuffer) \in Nat /\ Len(pIn) \in Nat /\ Len(pOut) \in Nat
      /\ Len(pBuffer) <= PipeCapacity /\ PipeCapacity \in Nat
      /\ \A i \in 1 .. Len(pBuffer) : pBuffer[i] \in Nat
  BY PipeAssumption, LenProperties DEF PipeTyped
<1>2. bytes \in Seq(Nat) /\ Len(bytes) = n
  <2>1. \A i \in 1 .. n : pBuffer[i] \in Nat
    BY <1>1
  <2>2. bytes \in Seq(Nat) /\ Len(bytes) = IF 1 <= n THEN n - 1 + 1 ELSE 0
    BY <2>1, SubSeqProperties
  <2> QED BY <2>2
<1>3. pOut' = pOut \o bytes /\ pBuffer' = SubSeq(pBuffer, n + 1, Len(pBuffer))
  BY DEF PopBytes
<1>4. pBuffer' \in Seq(Nat) /\ Len(pBuffer') = Len(pBuffer) - n
  <2>1. \A i \in n + 1 .. Len(pBuffer) : pBuffer[i] \in Nat
    BY <1>1
  <2>2. /\ pBuffer' \in Seq(Nat)
        /\ Len(pBuffer') = IF n + 1 <= Len(pBuffer) THEN Len(pBuffer) - (n + 1) + 1 ELSE 0
    BY <1>1, <1>3, <2>1, SubSeqProperties
  <2> QED BY <1>1, <2>2
<1>5. bytes \o pBuffer' = pBuffer
  <2>1. /\ 1 \in 1 .. Len(pBuffer) + 1 /\ n \in 1 - 1 .. Len(pBuffer)
        /\ Len(pBuffer) \in n .. Len(pBuffer)
    BY <1>1
  <2>2. bytes \o pBuffer' = SubSeq(pBuffer, 1, Len(pBuffer))
    BY <1>1, <1>3, <2>1, ConcatAdjacentSubSeq
  <2> QED BY <1>1, <2>2, SubSeqFull
<1> HIDE DEF bytes
<1>6. pOut' \in Seq(Nat) /\ Len(pOut') = Len(pOut) + n
  BY <1>1, <1>2, <1>3, ConcatProperties
<1>7. BytesInOrder'
  <2>1. pOut \in Seq(Nat) /\ bytes \in Seq(Nat) /\ pBuffer' \in Seq(Nat)
    BY <1>1, <1>2, <1>4
  <2>2. \A s, t, u \in Seq(Nat) : (s \o t) \o u = s \o (t \o u)
    BY ConcatAssociative
  <2>3. (pOut \o bytes) \o pBuffer' = pOut \o (bytes \o pBuffer')
    BY <2>1, <2>2, Zenon
  <2> QED BY <1>3, <1>5, <2>3 DEF BytesInOrder
<1>8. pBuffer = <<>> => pBuffer' = <<>> /\ pOut' = pOut
  <2>1. SUFFICES ASSUME pBuffer = <<>>
                 PROVE  pBuffer' = <<>> /\ pOut' = pOut
    OBVIOUS
  <2>2. n = 0 /\ Len(pBuffer') = 0
    BY <1>1, <1>4, <2>1, EmptySeq
  <2>3. bytes = <<>> /\ pBuffer' = <<>>
    BY <1>2, <1>4, <2>2, EmptySeq
  <2> QED BY <1>1, <1>3, <2>3, ConcatEmptySeq
<1>9. ASSUME n > 0, pOver' = pOver
      PROVE  PipeFifo!Deliver
  <2>1. Len(pIn) = Len(pOut) + Len(pBuffer)
    BY <1>1, ConcatProperties DEF BytesInOrder
  <2>2. n \in 1 .. Len(pIn) - Len(pOut)
    BY <1>1, <1>9, <2>1
  <2>3. pIn = pOut' \o pBuffer'
    BY <1>7 DEF BytesInOrder
  <2>4. pOut' = SubSeq(pIn, 1, Len(pOut) + n)
    BY <1>4, <1>6, <2>3, ConcatExtends, SubSeqFull
  <2> QED BY <1>9, <2>2, <2>4 DEF PipeFifo!Deliver
<1>10. Len(pBuffer') <= PipeCapacity
  BY <1>1, <1>4
<1> QED BY <1>4, <1>6, <1>7, <1>8, <1>9, <1>10

(***************************************************************************)
(* Writers                                                                 *)
(***************************************************************************)
\* Facts about the group of a thread that every step needs.
LEMMA Groups ==
  /\ \A w \in PipeWriters : w \in PipeThreads /\ w \notin PipeReaders /\ w # NoThread
  /\ \A r \in PipeReaders : r \in PipeThreads /\ r \notin PipeWriters /\ r # NoThread
  /\ PipeThreads = PipeReaders \cup PipeWriters
  /\ PipeCapacity \in Nat \ {0}
BY PipeAssumption DEF PipeThreads

\* write begins on an open pipe with at least one byte to push.
LEMMA WriteBeginsStep ==
  ASSUME PipeIInv, NEW w \in PipeWriters, WriteBegins(w)
  PROVE  PipeIInv'
<1> USE Groups DEF PipeIInv
<1>1. /\ pThread[w] = "idle" /\ pHolder = NoThread /\ ~pClosed
      /\ pThread' = [pThread EXCEPT ![w] = "filling"] /\ pHolder' = w
      /\ UNCHANGED <<pBuffer, pClosed, pClosing, pIn, pOut, pOver>>
  BY DEF WriteBegins, PipeGoes
<1>2. PICK n \in Nat \ {0} : pSize' = [pSize EXCEPT ![w] = n]
  BY PipeAssumption DEF WriteBegins
<1>3. pWritten' = [pWritten EXCEPT ![w] = 0]
  BY DEF WriteBegins
<1>4. PipeTyped'
  BY <1>1, <1>2, <1>3 DEF PipeTyped, PipePlaces
<1>5. HolderIsInside'
  BY <1>1 DEF PipeTyped, HolderIsInside
<1>6. CallsUnfinished'
  BY <1>1, <1>2, <1>3 DEF PipeTyped, CallsUnfinished
<1>7. BytesInOrder' /\ EndStays'
  BY <1>1 DEF BytesInOrder, EndStays
<1>8. WritersServed'
  BY <1>1 DEF PipeTyped, WritersServed
<1>9. ReaderServed'
  BY <1>1, <1>2 DEF PipeTyped, ReaderServed
<1>10. ClosingMissesOne'
  BY <1>1 DEF PipeTyped, ClosingMissesOne
<1> QED BY <1>4, <1>5, <1>6, <1>7, <1>8, <1>9, <1>10

\* What one turn of the loop of write does: it pushes as much as fits, and
\* sleeps only when that was not all.
LEMMA WriteFillsFacts ==
  ASSUME PipeIInv, NEW w \in PipeWriters, WriteFills(w)
  PROVE  \E n \in Nat, place \in {"notify", "asleep"} :
           /\ n <= PipeRoom /\ PushBytes(n)
           /\ n = 0 => PipeRoom = 0
           /\ pThread' = [pThread EXCEPT ![w] = place]
           /\ pWritten' = [pWritten EXCEPT ![w] = @ + n]
           /\ pWritten[w] + n <= pSize[w]
           /\ place = "asleep" => /\ pWritten[w] + n < pSize[w]
                                  /\ pBuffer = <<>> => pSize[w] > PipeCapacity
<1> USE Groups DEF PipeIInv
<1> DEFINE left == pSize[w] - pWritten[w]
           n == Min({left, PipeRoom})
           place == IF n = left THEN "notify" ELSE "asleep"
<1>1. /\ pSize[w] \in Nat /\ pWritten[w] \in Nat /\ pWritten[w] < pSize[w]
      /\ pBuffer \in Seq(Nat) /\ Len(pBuffer) \in Nat /\ Len(pBuffer) <= PipeCapacity
  BY LenProperties DEF PipeTyped, CallsUnfinished, WriteFills
<1>2. left \in Nat \ {0} /\ PipeRoom \in Nat
  BY <1>1 DEF PipeRoom
<1>3. n \in {left, PipeRoom} /\ n <= left /\ n <= PipeRoom
  BY <1>2, MinOfTwo
<1>4. /\ PushBytes(n) /\ pThread' = [pThread EXCEPT ![w] = place]
      /\ pWritten' = [pWritten EXCEPT ![w] = @ + n]
  BY DEF WriteFills, PipeGoes
<1> HIDE DEF n
<1>5. n \in Nat /\ (n = 0 => PipeRoom = 0)
  BY <1>2, <1>3
<1>6. pWritten[w] + n <= pSize[w]
  BY <1>1, <1>2, <1>3
<1>7. ASSUME place = "asleep"
      PROVE  /\ pWritten[w] + n < pSize[w]
             /\ pBuffer = <<>> => pSize[w] > PipeCapacity
  <2>1. n # left /\ n = PipeRoom /\ n < left
    BY <1>2, <1>3, <1>7
  <2>2. pBuffer = <<>> => PipeRoom = PipeCapacity
    BY EmptySeq DEF PipeRoom
  <2> QED BY <1>1, <1>2, <2>1, <2>2
<1> QED BY <1>3, <1>4, <1>5, <1>6, <1>7

\* A turn of the loop either ends in a notification or leaves a writer that is
\* not finished; if the buffer was empty, its write is longer than the pipe.
LEMMA WriteFillsStep ==
  ASSUME PipeIInv, NEW w \in PipeWriters, WriteFills(w)
  PROVE  PipeIInv'
<1> USE Groups DEF PipeIInv
<1>1. PICK n \in Nat, place \in {"notify", "asleep"} :
           /\ n <= PipeRoom /\ PushBytes(n)
           /\ n = 0 => PipeRoom = 0
           /\ pThread' = [pThread EXCEPT ![w] = place]
           /\ pWritten' = [pWritten EXCEPT ![w] = @ + n]
           /\ pWritten[w] + n <= pSize[w]
           /\ place = "asleep" => /\ pWritten[w] + n < pSize[w]
                                  /\ pBuffer = <<>> => pSize[w] > PipeCapacity
  BY WriteFillsFacts
<1>2. /\ pThread[w] = "filling" /\ pHolder = w /\ pHolder' = NoThread
      /\ UNCHANGED <<pClosed, pSize, pClosing, pOut, pOver>>
  BY DEF WriteFills, HolderIsInside
<1>3. /\ pBuffer' \in Seq(Nat) /\ Len(pBuffer') <= PipeCapacity /\ pIn' \in Seq(Nat)
      /\ BytesInOrder'
      /\ n = 0 => pBuffer' = pBuffer
      /\ n > 0 => pBuffer' # <<>>
  BY <1>1, <1>2, PushBytesInOrder
<1>4. pBuffer' # <<>>
  <2>1. n = 0 => pBuffer # <<>>
    BY <1>1, EmptySeq DEF PipeRoom
  <2> QED BY <1>3, <2>1
<1>5. PipeTyped'
  BY <1>1, <1>2, <1>3 DEF PipeTyped, PipePlaces
<1>6. HolderIsInside'
  BY <1>1, <1>2 DEF PipeTyped, HolderIsInside
<1>7. CallsUnfinished'
  BY <1>1, <1>2 DEF PipeTyped, CallsUnfinished
<1>8. EndStays'
  BY <1>1, <1>2 DEF PipeTyped, EndStays
<1>9. WritersServed'
  BY <1>4 DEF WritersServed
<1>10. ReaderServed'
  <2> SUFFICES ASSUME NEW r \in PipeReaders
               PROVE  /\ pThread'[r] # "checked"
                      /\ PipeReaders = {r} /\ ~pClosed' /\ pThread'[r] = "asleep" =>
                           \E v \in PipeWriters :
                             \/ pThread'[v] = "notify"
                             \/ /\ pThread'[v] \in {"asleep", "woken", "filling"}
                                /\ pSize'[v] > PipeCapacity
    BY DEF ReaderServed
  <2>1. pThread'[r] = pThread[r] /\ pThread[r] # "checked"
    BY <1>1, <1>2 DEF PipeTyped, HolderIsInside
  <2>2. CASE place = "notify"
    BY <1>1, <2>1, <2>2 DEF PipeTyped
  <2>3. CASE place = "asleep" /\ pBuffer = <<>>
    BY <1>1, <1>2, <2>1, <2>3 DEF PipeTyped
  <2>4. CASE place = "asleep" /\ pBuffer # <<>>
    BY <1>1, <1>2, <2>1, <2>4 DEF PipeTyped, ReaderServed
  <2> QED BY <2>2, <2>3, <2>4
<1>11. ClosingMissesOne'
  BY <1>1, <1>2 DEF PipeTyped, ClosingMissesOne
<1> QED BY <1>3, <1>5, <1>6, <1>7, <1>8, <1>9, <1>10, <1>11

\* After a wait a writer goes on in its loop, unless the pipe was closed.
LEMMA WriteResumesStep ==
  ASSUME PipeIInv, NEW w \in PipeWriters, WriteResumes(w)
  PROVE  PipeIInv'
<1> USE Groups DEF PipeIInv
<1> DEFINE place == IF pClosed THEN "idle" ELSE "filling"
<1>1. /\ pThread[w] = "woken" /\ pHolder = NoThread
      /\ pThread' = [pThread EXCEPT ![w] = place]
      /\ pHolder' = IF pClosed THEN NoThread ELSE w
      /\ UNCHANGED <<pBuffer, pClosed, pSize, pWritten, pClosing, pIn, pOut, pOver>>
  BY DEF WriteResumes, PipeGoes
<1>2. PipeTyped' /\ HolderIsInside'
  BY <1>1 DEF PipeTyped, HolderIsInside, PipePlaces
<1>3. CallsUnfinished' /\ BytesInOrder' /\ EndStays'
  BY <1>1 DEF PipeTyped, CallsUnfinished, BytesInOrder, EndStays
<1>4. WritersServed'
  BY <1>1 DEF PipeTyped, WritersServed, PipeAsleep
<1>5. ReaderServed'
  BY <1>1 DEF PipeTyped, ReaderServed
<1>6. ClosingMissesOne'
  BY <1>1 DEF PipeTyped, ClosingMissesOne
<1> QED BY <1>2, <1>3, <1>4, <1>5, <1>6

\* try_write notifies whenever it has pushed anything.
LEMMA TryWriteStep ==
  ASSUME PipeIInv, NEW w \in PipeWriters, TryWrite(w)
  PROVE  PipeIInv'
<1> USE Groups DEF PipeIInv
<1> DEFINE place == IF PipeRoom > 0 THEN "notify" ELSE "idle"
<1>1. /\ pThread[w] = "idle" /\ pHolder = NoThread /\ ~pClosed
      /\ pThread' = [pThread EXCEPT ![w] = place]
      /\ UNCHANGED <<pClosed, pHolder, pSize, pWritten, pClosing, pOut, pOver>>
  BY DEF TryWrite, PipeGoes
<1>2. PipeRoom \in Nat
  BY LenProperties DEF PipeTyped, PipeRoom
<1>3. PICK size \in Nat \ {0} : PushBytes(Min({size, PipeRoom}))
  BY PipeAssumption DEF TryWrite
<1> DEFINE n == Min({size, PipeRoom})
<1>4. n \in Nat /\ n <= PipeRoom /\ (n = 0 => PipeRoom = 0)
  BY <1>2, <1>3, MinOfTwo
<1>5. PushBytes(n)
  BY <1>3
<1> HIDE DEF n
<1>6. /\ pBuffer' \in Seq(Nat) /\ Len(pBuffer') <= PipeCapacity /\ pIn' \in Seq(Nat)
      /\ BytesInOrder'
      /\ n = 0 => pBuffer' = pBuffer
      /\ n > 0 => pBuffer' # <<>>
  BY <1>1, <1>4, <1>5, PushBytesInOrder
<1>7. pBuffer' # <<>>
  <2>1. n = 0 => pBuffer # <<>>
    BY <1>4, EmptySeq DEF PipeRoom
  <2> QED BY <1>4, <1>6, <2>1
<1>8. place = "idle" => pBuffer' = pBuffer
  BY <1>2, <1>4, <1>6
<1>9. PipeTyped' /\ HolderIsInside'
  BY <1>1, <1>6 DEF PipeTyped, HolderIsInside, PipePlaces
<1>10. CallsUnfinished' /\ EndStays'
  BY <1>1 DEF PipeTyped, CallsUnfinished, EndStays
<1>11. WritersServed'
  BY <1>7 DEF WritersServed
<1>12. ReaderServed'
  <2>1. \A r \in PipeReaders : pThread'[r] = pThread[r] /\ pThread[r] # "checked"
    BY <1>1 DEF PipeTyped, HolderIsInside
  <2>2. CASE place = "notify"
    BY <1>1, <2>1, <2>2 DEF PipeTyped, ReaderServed
  <2>3. CASE place = "idle"
    BY <1>1, <1>8, <2>1, <2>3 DEF PipeTyped, ReaderServed
  <2> QED BY <2>2, <2>3
<1>13. ClosingMissesOne'
  BY <1>1 DEF PipeTyped, ClosingMissesOne
<1> QED BY <1>6, <1>9, <1>10, <1>11, <1>12, <1>13

(***************************************************************************)
(* Readers                                                                 *)
(***************************************************************************)
\* A read asks for at least one byte, when it begins and after a wait.
LEMMA ReadersWantBytes ==
  ASSUME PipeIInv, NEW r \in PipeReaders, pThread[r] \in {"idle", "woken"}
  PROVE  (IF pThread[r] = "idle" THEN ReadSizes ELSE {pSize[r]}) \subseteq Nat \ {0}
<1>1. pSize[r] \in Nat
  BY Groups DEF PipeIInv, PipeTyped
<1>2. pThread[r] = "woken" => pSize[r] > 0
  BY DEF PipeIInv, CallsUnfinished
<1>3. CASE pThread[r] = "idle"
  BY <1>3, PipeAssumption
<1>4. CASE pThread[r] = "woken"
  <2>1. pSize[r] \in Nat \ {0}
    BY <1>1, <1>2, <1>4
  <2> QED BY <1>4, <2>1
<1> QED BY <1>3, <1>4

\* A reader that takes what there is, or the end, is about to notify.
LEMMA ReadTakesStep ==
  ASSUME PipeIInv, NEW r \in PipeReaders, ReadTakes(r)
  PROVE  PipeIInv'
<1> USE Groups DEF PipeIInv
<1>1. /\ pThread[r] \in {"idle", "woken"} /\ pHolder = NoThread
      /\ pBuffer # <<>> \/ pClosed
      /\ pThread' = [pThread EXCEPT ![r] = "notify"]
      /\ pOver' = (pOver \/ pBuffer = <<>>)
      /\ UNCHANGED <<pClosed, pHolder, pWritten, pClosing, pIn>>
  BY DEF ReadTakes, PipeGoes
<1>2. PICK size \in Nat : /\ PopBytes(Min({size, Len(pBuffer)}))
                          /\ pSize' = [pSize EXCEPT ![r] = size]
  BY PipeAssumption DEF ReadTakes, PipeTyped
<1> DEFINE n == Min({size, Len(pBuffer)})
<1>3. n \in Nat /\ n <= Len(pBuffer)
  <2>1. Len(pBuffer) \in Nat
    BY LenProperties DEF PipeTyped
  <2> QED BY <1>2, <2>1, MinOfTwo
<1>4. PopBytes(n)
  BY <1>2
<1> HIDE DEF n
<1>5. /\ pBuffer' \in Seq(Nat) /\ Len(pBuffer') <= PipeCapacity
      /\ pOut' \in Seq(Nat) /\ BytesInOrder'
      /\ pBuffer = <<>> => pBuffer' = <<>>
  BY <1>1, <1>3, <1>4, PopBytesInOrder
<1>6. PipeTyped' /\ HolderIsInside'
  <2>1. (pOver \/ pBuffer = <<>>) \in BOOLEAN
    OBVIOUS
  <2> QED BY <1>1, <1>2, <1>5, <2>1 DEF PipeTyped, HolderIsInside, PipePlaces
<1>7. CallsUnfinished'
  BY <1>1, <1>2 DEF PipeTyped, CallsUnfinished
<1>8. EndStays'
  BY <1>1 DEF PipeTyped, EndStays, HolderIsInside
<1>9. WritersServed'
  BY <1>1 DEF PipeTyped, WritersServed
<1>10. ReaderServed'
  <2>1. \A q \in PipeReaders : pThread'[q] # "checked"
    BY <1>1 DEF PipeTyped, HolderIsInside
  <2>2. \A q \in PipeReaders : PipeReaders = {q} => pThread'[q] # "asleep"
    BY <1>1 DEF PipeTyped
  <2> QED BY <2>1, <2>2 DEF ReaderServed
<1>11. ClosingMissesOne'
  BY <1>1 DEF PipeTyped, ClosingMissesOne
<1> QED BY <1>5, <1>6, <1>7, <1>8, <1>9, <1>10, <1>11

\* A reader that looks at an empty open pipe keeps the mutex.
LEMMA ReadChecksStep ==
  ASSUME PipeIInv, NEW r \in PipeReaders, ReadChecks(r)
  PROVE  PipeIInv'
<1> USE Groups DEF PipeIInv
<1>1. /\ pThread[r] \in {"idle", "woken"} /\ pHolder = NoThread /\ ~pClosed
      /\ pBuffer = <<>>
      /\ pThread' = [pThread EXCEPT ![r] = "checked"] /\ pHolder' = r
      /\ UNCHANGED <<pBuffer, pClosed, pWritten, pClosing, pIn, pOut, pOver>>
  BY DEF ReadChecks, PipeGoes
<1>2. PICK size \in Nat \ {0} : pSize' = [pSize EXCEPT ![r] = size]
  BY <1>1, ReadersWantBytes DEF ReadChecks
<1>3. PipeTyped' /\ HolderIsInside'
  BY <1>1, <1>2 DEF PipeTyped, HolderIsInside, PipePlaces
<1>4. CallsUnfinished' /\ BytesInOrder' /\ EndStays'
  BY <1>1, <1>2 DEF PipeTyped, CallsUnfinished, BytesInOrder, EndStays
<1>5. WritersServed'
  BY <1>1 DEF PipeTyped, WritersServed, PipeAsleep
<1>6. ReaderServed'
  BY <1>1, <1>2 DEF PipeTyped, ReaderServed
<1>7. ClosingMissesOne'
  BY <1>1 DEF PipeTyped, ClosingMissesOne
<1> QED BY <1>3, <1>4, <1>5, <1>6, <1>7

\* The reader that looked goes to sleep; the buffer is still empty.
LEMMA ReadWaitsStep ==
  ASSUME PipeIInv, NEW r \in PipeReaders, ReadWaits(r)
  PROVE  PipeIInv'
<1> USE Groups DEF PipeIInv
<1>1. /\ pThread[r] = "checked" /\ pHolder = r /\ pHolder' = NoThread
      /\ pBuffer = <<>>
      /\ pThread' = [pThread EXCEPT ![r] = "asleep"]
      /\ UNCHANGED <<pBuffer, pClosed, pSize, pWritten, pClosing, pIn, pOut, pOver>>
  BY DEF ReadWaits, PipeGoes, HolderIsInside, ReaderServed
<1>2. PipeTyped' /\ HolderIsInside'
  BY <1>1 DEF PipeTyped, HolderIsInside, PipePlaces
<1>3. CallsUnfinished' /\ BytesInOrder' /\ EndStays'
  BY <1>1 DEF PipeTyped, CallsUnfinished, BytesInOrder, EndStays
<1>4. WritersServed'
  BY <1>1 DEF PipeTyped, WritersServed, PipeAsleep
<1>5. ReaderServed'
  BY <1>1 DEF PipeTyped, ReaderServed
<1>6. ClosingMissesOne'
  BY <1>1 DEF PipeTyped, ClosingMissesOne
<1> QED BY <1>2, <1>3, <1>4, <1>5, <1>6

\* try_read is a read that does not begin on an empty buffer.
LEMMA TryReadStep ==
  ASSUME PipeIInv, NEW r \in PipeReaders, TryRead(r)
  PROVE  PipeIInv'
<1> USE Groups DEF PipeIInv
<1>1. /\ pThread[r] = "idle" /\ pHolder = NoThread
      /\ pThread' = [pThread EXCEPT ![r] = "notify"]
      /\ UNCHANGED <<pClosed, pHolder, pSize, pWritten, pClosing, pIn, pOver>>
  BY DEF TryRead, PipeGoes
<1>2. PICK size \in Nat : PopBytes(Min({size, Len(pBuffer)}))
  BY PipeAssumption DEF TryRead
<1> DEFINE n == Min({size, Len(pBuffer)})
<1>3. n \in Nat /\ n <= Len(pBuffer)
  <2>1. Len(pBuffer) \in Nat
    BY LenProperties DEF PipeTyped
  <2> QED BY <1>2, <2>1, MinOfTwo
<1>4. PopBytes(n)
  BY <1>2
<1> HIDE DEF n
<1>5. /\ pBuffer' \in Seq(Nat) /\ Len(pBuffer') <= PipeCapacity
      /\ pOut' \in Seq(Nat) /\ BytesInOrder'
  BY <1>1, <1>3, <1>4, PopBytesInOrder
<1>6. PipeTyped' /\ HolderIsInside'
  BY <1>1, <1>2, <1>5 DEF PipeTyped, HolderIsInside, PipePlaces
<1>7. CallsUnfinished' /\ EndStays'
  BY <1>1, <1>2 DEF PipeTyped, CallsUnfinished, EndStays
<1>8. WritersServed'
  BY <1>1 DEF PipeTyped, WritersServed
<1>9. ReaderServed'
  <2>1. \A q \in PipeReaders : pThread'[q] # "checked"
    BY <1>1 DEF PipeTyped, HolderIsInside
  <2>2. \A q \in PipeReaders : PipeReaders = {q} => pThread'[q] # "asleep"
    BY <1>1 DEF PipeTyped
  <2> QED BY <2>1, <2>2 DEF ReaderServed
<1>10. ClosingMissesOne'
  BY <1>1 DEF PipeTyped, ClosingMissesOne
<1> QED BY <1>5, <1>6, <1>7, <1>8, <1>9, <1>10

(***************************************************************************)
(* Condition variables and closing                                         *)
(***************************************************************************)
\* notify_one: whom it wakes is on the way from then on.
LEMMA PipeNotifyStep ==
  ASSUME PipeIInv, NEW t \in PipeThreads, PipeNotify(t)
  PROVE  PipeIInv'
<1> USE Groups DEF PipeIInv
<1> DEFINE others == IF t \in PipeWriters THEN PipeReaders ELSE PipeWriters
<1>1. /\ pThread[t] = "notify"
      /\ UNCHANGED <<pBuffer, pClosed, pHolder, pSize, pWritten, pClosing, pIn, pOut, pOver>>
  BY DEF PipeNotify
<1>2. \/ /\ PipeAsleep(others) = {}
         /\ pThread' = [pThread EXCEPT ![t] = "idle"]
      \/ \E u \in others : /\ pThread[u] = "asleep"
                           /\ pThread' = [pThread EXCEPT ![t] = "idle", ![u] = "woken"]
  BY DEF PipeNotify, PipeGoes, PipeAsleep
<1>3. PipeTyped' /\ HolderIsInside'
  BY <1>1, <1>2 DEF PipeTyped, HolderIsInside, PipePlaces
<1>4. CallsUnfinished' /\ BytesInOrder' /\ EndStays'
  BY <1>1, <1>2 DEF PipeTyped, CallsUnfinished, BytesInOrder, EndStays
<1>5. WritersServed'
  <2>1. CASE t \in PipeWriters
    BY <1>1, <1>2, <2>1 DEF PipeTyped, WritersServed, PipeAsleep
  <2>2. CASE t \in PipeReaders
    BY <1>1, <1>2, <2>2 DEF PipeTyped, WritersServed, PipeAsleep
  <2> QED BY <2>1, <2>2
<1>6. ReaderServed'
  <2>1. CASE t \in PipeWriters
    <3> SUFFICES ASSUME NEW r \in PipeReaders
                 PROVE  /\ pThread'[r] = "checked" => pThread[r] = "checked"
                        /\ PipeReaders = {r} => pThread'[r] # "asleep"
      BY <1>1 DEF ReaderServed
    <3> QED BY <1>1, <1>2, <2>1 DEF PipeTyped, PipeAsleep
  <2>2. CASE t \in PipeReaders
    BY <1>1, <1>2, <2>2 DEF PipeTyped, ReaderServed
  <2> QED BY <2>1, <2>2
<1>7. ClosingMissesOne'
  BY <1>1, <1>2 DEF PipeTyped, ClosingMissesOne
<1> QED BY <1>3, <1>4, <1>5, <1>6, <1>7

\* A sleeper that wakes by itself is on the way.
LEMMA PipeSpuriousWakeStep ==
  ASSUME PipeIInv, NEW t \in PipeThreads, PipeSpuriousWake(t)
  PROVE  PipeIInv'
<1> USE Groups DEF PipeIInv
<1>1. /\ pThread[t] = "asleep" /\ pThread' = [pThread EXCEPT ![t] = "woken"]
      /\ UNCHANGED <<pBuffer, pClosed, pHolder, pSize, pWritten, pClosing, pIn, pOut, pOver>>
  BY DEF PipeSpuriousWake, PipeGoes
<1>2. PipeTyped' /\ HolderIsInside'
  BY <1>1 DEF PipeTyped, HolderIsInside, PipePlaces
<1>3. CallsUnfinished' /\ BytesInOrder' /\ EndStays'
  BY <1>1 DEF PipeTyped, CallsUnfinished, BytesInOrder, EndStays
<1>4. WritersServed' /\ ReaderServed'
  BY <1>1 DEF PipeTyped, WritersServed, ReaderServed, PipeAsleep
<1>5. ClosingMissesOne'
  BY <1>1 DEF PipeTyped, ClosingMissesOne
<1> QED BY <1>2, <1>3, <1>4, <1>5

\* The flag is set whatever the holder of the mutex is doing.
LEMMA ClosePipeStep ==
  ASSUME PipeIInv, ClosePipe
  PROVE  PipeIInv'
<1> USE Groups DEF PipeIInv
<1>1. /\ pClosed' = TRUE /\ pClosing' = "set"
      /\ UNCHANGED <<pBuffer, pHolder, pThread, pSize, pWritten, pIn, pOut, pOver>>
  BY DEF ClosePipe
<1> QED BY <1>1
        DEF PipeTyped, HolderIsInside, CallsUnfinished, BytesInOrder, EndStays,
            WritersServed, ReaderServed, ClosingMissesOne

\* After a side was woken only the holder of the mutex can still go to sleep.
LEMMA CloseNotifiesStep ==
  ASSUME PipeIInv, CloseNotifies
  PROVE  PipeIInv'
<1> USE Groups DEF PipeIInv
<1>1. PICK ts \in {PipeReaders, PipeWriters} :
        /\ pThread' = [t \in PipeThreads |->
                         IF t \in PipeAsleep(ts) THEN "woken" ELSE pThread[t]]
        /\ \/ pClosing = "set" /\ pClosing' = "half" /\ ts = PipeReaders
           \/ pClosing = "half" /\ pClosing' = "done" /\ ts = PipeWriters
  BY DEF CloseNotifies, PipeWakesAll
<1>2. UNCHANGED <<pBuffer, pClosed, pHolder, pSize, pWritten, pIn, pOut, pOver>>
  BY DEF CloseNotifies
<1>3. pClosed
  BY <1>1 DEF ClosingMissesOne
<1>4. \A t \in PipeThreads :
        /\ pThread'[t] \in PipePlaces
        /\ pThread'[t] = pThread[t] \/ (pThread[t] = "asleep" /\ pThread'[t] = "woken")
        /\ t \in ts => pThread'[t] # "asleep"
  BY <1>1 DEF PipeTyped, PipeAsleep, PipePlaces
<1>5. PipeTyped'
  BY <1>1, <1>2, <1>4 DEF PipeTyped
<1>6. HolderIsInside' /\ CallsUnfinished' /\ EndStays'
  BY <1>2, <1>4 DEF HolderIsInside, CallsUnfinished, EndStays
<1>7. BytesInOrder' /\ WritersServed'
  BY <1>2, <1>3 DEF BytesInOrder, WritersServed
<1>8. ReaderServed'
  BY <1>2, <1>3, <1>4 DEF ReaderServed
<1>9. ClosingMissesOne'
  BY <1>1, <1>2, <1>4 DEF ClosingMissesOne, HolderIsInside
<1> QED BY <1>5, <1>6, <1>7, <1>8, <1>9

(***************************************************************************)
(* Theorems                                                                *)
(***************************************************************************)
\* In the beginning nobody is in a call.
LEMMA PipeInitially ==
  ASSUME PipeInit
  PROVE  PipeIInv
<1>1. /\ <<>> \in Seq(Nat) /\ Len(<<>>) = 0 /\ <<>> \o <<>> = <<>>
      /\ PipeCapacity \in Nat
  BY EmptySeq, ConcatEmptySeq, PipeAssumption
<1>2. \A t \in PipeThreads : pThread[t] = "idle"
  BY DEF PipeInit
<1>3. PipeTyped
  <2>1. pBuffer \in Seq(Nat) /\ Len(pBuffer) <= PipeCapacity
    BY <1>1 DEF PipeInit
  <2> QED BY <1>1, <2>1 DEF PipeInit, PipeTyped, PipePlaces
<1>4. HolderIsInside
  BY <1>2, Groups DEF PipeInit, HolderIsInside
<1> QED BY <1>1, <1>2, <1>3, <1>4, Groups
        DEF PipeInit, PipeIInv, CallsUnfinished, BytesInOrder, EndStays,
            WritersServed, ReaderServed, ClosingMissesOne, PipeAsleep

\* Every step keeps the strengthened invariant.
LEMMA PipeInductive ==
  ASSUME PipeIInv, [PipeNext]_pipeVars
  PROVE  PipeIInv'
<1>1. CASE UNCHANGED pipeVars
  BY <1>1
     DEF pipeVars, PipeIInv, PipeTyped, HolderIsInside, CallsUnfinished,
         BytesInOrder, EndStays, WritersServed, ReaderServed, ClosingMissesOne,
         PipeAsleep
<1>2. ASSUME NEW w \in PipeWriters,
             WriteBegins(w) \/ WriteFills(w) \/ WriteResumes(w) \/ TryWrite(w)
      PROVE  PipeIInv'
  BY <1>2, WriteBeginsStep, WriteFillsStep, WriteResumesStep, TryWriteStep
<1>3. ASSUME NEW r \in PipeReaders,
             ReadTakes(r) \/ ReadChecks(r) \/ ReadWaits(r) \/ TryRead(r)
      PROVE  PipeIInv'
  BY <1>3, ReadTakesStep, ReadChecksStep, ReadWaitsStep, TryReadStep
<1>4. ASSUME NEW t \in PipeThreads, PipeNotify(t) \/ PipeSpuriousWake(t)
      PROVE  PipeIInv'
  BY <1>4, PipeNotifyStep, PipeSpuriousWakeStep
<1> QED BY <1>1, <1>2, <1>3, <1>4, ClosePipeStep, CloseNotifiesStep DEF PipeNext

\* The strengthened invariant of the pipe (pipe.rs:80-230).
THEOREM PipeIsInductive == PipeSpec => []PipeIInv
<1>1. PipeInit => PipeIInv
  BY PipeInitially
<1>2. PipeIInv /\ [PipeNext]_pipeVars => PipeIInv'
  BY PipeInductive
<1> QED BY <1>1, <1>2, PTL DEF PipeSpec

\* A set in which any two members are equal has at most one.
LEMMA AtMostOne ==
  ASSUME NEW S, \A x, y \in S : x = y
  PROVE  Cardinality(S) <= 1
<1>1. CASE S = {}
  BY <1>1, FS_EmptySet
<1>2. CASE S # {}
  <2>1. PICK x \in S : S = {x}
    BY <1>2
  <2> QED BY <2>1, FS_Singleton
<1> QED BY <1>1, <1>2

\* A write that fits never deadlocks with the reader, and close_pipe leaves at
\* most one thread of each side asleep (pipe.rs:117-143, 216-230).
THEOREM StallsExplained == PipeSpec => []PipeStallsExplained
<1>1. ASSUME PipeIInv
      PROVE  PipeStallsExplained
  <2> USE <1>1 DEF PipeIInv
  <2>1. ASSUME Cardinality(PipeReaders) = 1, ~pClosed, PipeQuiet,
               PipeAsleep(PipeReaders) # {},
               pBuffer # <<>> \/ PipeAsleep(PipeWriters) # {}
        PROVE  \E w \in PipeAsleep(PipeWriters) : pSize[w] > PipeCapacity
    <3>1. PICK r : PipeReaders = {r}
      BY <2>1, PipeAssumption, FS_Singleton
    <3>2. pThread[r] = "asleep"
      BY <2>1, <3>1 DEF PipeAsleep
    <3>3. \A t \in PipeThreads : pThread[t] \in {"idle", "asleep"}
      BY <2>1 DEF PipeQuiet
    <3>4. pBuffer # <<>>
      BY <2>1, <3>3, Groups DEF WritersServed
    <3>5. PICK w \in PipeWriters :
            \/ pThread[w] = "notify"
            \/ pThread[w] \in {"asleep", "woken", "filling"} /\ pSize[w] > PipeCapacity
      BY <2>1, <3>1, <3>2, <3>4 DEF ReaderServed
    <3> QED BY <3>3, <3>5, Groups DEF PipeAsleep
  <2>2. ASSUME pClosing = "done"
        PROVE  /\ Cardinality(PipeAsleep(PipeReaders)) <= 1
               /\ Cardinality(PipeAsleep(PipeWriters)) <= 1
    <3>1. /\ \A r, s \in PipeAsleep(PipeReaders) : r = s
          /\ \A w, v \in PipeAsleep(PipeWriters) : w = v
      BY <2>2 DEF ClosingMissesOne, PipeAsleep
    <3> QED BY <3>1, AtMostOne
  <2> QED BY <2>1, <2>2 DEF PipeStallsExplained
<1> QED BY <1>1, PipeIsInductive, PTL

\* A push of some bytes is an Accept, a push of none changes nothing.
LEMMA PushRefines ==
  ASSUME PipeIInv, NEW n \in Nat, n <= PipeRoom, PushBytes(n), ~pOver,
         UNCHANGED <<pOut, pOver>>
  PROVE  [PipeFifo!FifoNext]_(PipeFifo!fifoVars)
<1>1. /\ n = 0 => pIn' = pIn
      /\ n > 0 => PipeFifo!Accept
  BY PushBytesInOrder DEF PipeIInv
<1> QED BY <1>1 DEF PipeFifo!FifoNext, PipeFifo!fifoVars

\* Every step of the pipe is a step of the FIFO or changes nothing an observer
\* of the calls can see.
LEMMA PipeStepRefines ==
  ASSUME PipeIInv, [PipeNext]_pipeVars
  PROVE  [PipeFifo!FifoNext]_(PipeFifo!fifoVars)
<1>1. CASE UNCHANGED pipeVars
  BY <1>1 DEF pipeVars, PipeFifo!fifoVars
<1>2. ASSUME NEW w \in PipeWriters, WriteFills(w)
      PROVE  [PipeFifo!FifoNext]_(PipeFifo!fifoVars)
  <2>1. \E n \in Nat : n <= PipeRoom /\ PushBytes(n)
    BY <1>2, WriteFillsFacts
  <2>2. ~pOver /\ UNCHANGED <<pOut, pOver>>
    BY <1>2 DEF WriteFills, PipeIInv, EndStays
  <2> QED BY <2>1, <2>2, PushRefines
<1>3. ASSUME NEW w \in PipeWriters, TryWrite(w)
      PROVE  [PipeFifo!FifoNext]_(PipeFifo!fifoVars)
  <2>1. PICK size \in Nat : PushBytes(Min({size, PipeRoom}))
    BY <1>3, PipeAssumption DEF TryWrite
  <2>2. PipeRoom \in Nat
    BY LenProperties, PipeAssumption DEF PipeIInv, PipeTyped, PipeRoom
  <2>3. Min({size, PipeRoom}) \in Nat /\ Min({size, PipeRoom}) <= PipeRoom
    BY <2>2, MinOfTwo
  <2>4. ~pOver /\ UNCHANGED <<pOut, pOver>>
    BY <1>3 DEF TryWrite, PipeIInv, EndStays
  <2> QED BY <2>1, <2>3, <2>4, PushRefines
<1>4. ASSUME NEW r \in PipeReaders, ReadTakes(r) \/ TryRead(r)
      PROVE  [PipeFifo!FifoNext]_(PipeFifo!fifoVars)
  <2>1. pBuffer \in Seq(Nat) /\ Len(pBuffer) \in Nat
    BY LenProperties DEF PipeIInv, PipeTyped
  <2>2. CASE pBuffer # <<>>
    <3>1. PICK size \in Nat \ {0} : PopBytes(Min({size, Len(pBuffer)}))
      <4>1. CASE TryRead(r)
        BY <4>1, PipeAssumption DEF TryRead
      <4>2. CASE ReadTakes(r)
        BY <4>2, ReadersWantBytes DEF ReadTakes
      <4> QED BY <1>4, <4>1, <4>2
    <3>2. Len(pBuffer) > 0
      BY <2>1, <2>2, EmptySeq
    <3>3. /\ Min({size, Len(pBuffer)}) \in Nat
          /\ Min({size, Len(pBuffer)}) <= Len(pBuffer)
          /\ Min({size, Len(pBuffer)}) > 0
      BY <2>1, <3>2, MinOfTwo
    <3>4. pIn' = pIn /\ pOver' = pOver
      BY <1>4, <2>2 DEF TryRead, ReadTakes, PipeIInv, PipeTyped
    <3>5. PipeFifo!Deliver
      BY <3>1, <3>3, <3>4, PopBytesInOrder DEF PipeIInv
    <3> QED BY <3>5 DEF PipeFifo!FifoNext
  <2>3. CASE pBuffer = <<>>
    <3>1. ReadTakes(r) /\ pIn' = pIn /\ pOver' = TRUE
      BY <1>4, <2>3 DEF TryRead, ReadTakes
    <3>2. PICK size \in Nat : PopBytes(Min({size, Len(pBuffer)}))
      BY <3>1, PipeAssumption DEF ReadTakes, PipeIInv, PipeTyped, PipeThreads
    <3>3. /\ Min({size, Len(pBuffer)}) \in Nat
          /\ Min({size, Len(pBuffer)}) <= Len(pBuffer)
      BY <2>1, MinOfTwo
    <3>4. pOut' = pOut
      BY <2>3, <3>1, <3>2, <3>3, PopBytesInOrder DEF PipeIInv
    <3>5. pIn = pOut
      BY <2>3, ConcatEmptySeq DEF PipeIInv, PipeTyped, BytesInOrder
    <3> QED BY <3>1, <3>4, <3>5 DEF PipeFifo!FifoNext, PipeFifo!EndOfStream
  <2> QED BY <2>2, <2>3
<1>5. ASSUME NEW w \in PipeWriters, WriteBegins(w) \/ WriteResumes(w)
      PROVE  UNCHANGED PipeFifo!fifoVars
  BY <1>5 DEF WriteBegins, WriteResumes, PipeFifo!fifoVars
<1>6. ASSUME NEW r \in PipeReaders, ReadChecks(r) \/ ReadWaits(r)
      PROVE  UNCHANGED PipeFifo!fifoVars
  BY <1>6 DEF ReadChecks, ReadWaits, PipeFifo!fifoVars
<1>7. ASSUME NEW t \in PipeThreads, PipeNotify(t) \/ PipeSpuriousWake(t)
      PROVE  UNCHANGED PipeFifo!fifoVars
  BY <1>7 DEF PipeNotify, PipeSpuriousWake, PipeFifo!fifoVars
<1>8. ASSUME ClosePipe \/ CloseNotifies
      PROVE  UNCHANGED PipeFifo!fifoVars
  BY <1>8 DEF ClosePipe, CloseNotifies, PipeFifo!fifoVars
<1> QED BY <1>1, <1>2, <1>3, <1>4, <1>5, <1>6, <1>7, <1>8 DEF PipeNext

\* To an observer of the calls the pipe is a bounded FIFO of bytes, and a read
\* that returned 0 is final, although close_pipe does not take the mutex of
\* the buffer (pipe.rs:126-134, 212-215).
THEOREM PipeIsFifo == PipeSpec => PipeImplementsFifo
<1>1. PipeInit => PipeFifo!FifoInit
  BY DEF PipeInit, PipeFifo!FifoInit
<1>2. PipeIInv /\ [PipeNext]_pipeVars => [PipeFifo!FifoNext]_(PipeFifo!fifoVars)
  BY PipeStepRefines
<1> QED BY <1>1, <1>2, PipeIsInductive, PTL
        DEF PipeSpec, PipeImplementsFifo, PipeFifo!FifoSpec


(***************************************************************************)
(* The bytes of the pipe are numbered by their pushes, and a run offers    *)
(* MaxBytes of them: those pushed and those that calls under way have      *)
(* still to push are among those offered.                                  *)
(***************************************************************************)
InWrite(w) == pThread[w] \in {"filling", "asleep", "woken"}

\* A pair for each byte that a write under way has still to push.
StillToPush ==
  {p \in PipeWriters \X Nat : InWrite(p[1]) /\ pWritten[p[1]] < p[2] /\ p[2] <= pSize[p[1]]}

PipeBounded ==
  /\ pOffered \in 0 .. MaxBytes
  /\ \A i \in 1 .. Len(pIn) : pIn[i] = i
  /\ IsFiniteSet(StillToPush)
  /\ Len(pIn) + Cardinality(StillToPush) <= pOffered

\* The n bytes from a + 1 on of writer w.
Chunk(w, a, n) == {w} \X (a + 1 .. a + n)

LEMMA ChunkSize ==
  ASSUME NEW w, NEW a \in Nat, NEW n \in Nat
  PROVE  IsFiniteSet(Chunk(w, a, n)) /\ Cardinality(Chunk(w, a, n)) = n
<1>1. /\ IsFiniteSet(a + 1 .. a + n)
      /\ Cardinality(a + 1 .. a + n) = IF a + 1 > a + n THEN 0 ELSE (a + n) - (a + 1) + 1
  BY FS_Interval
<1>2. Cardinality(a + 1 .. a + n) = n
  BY <1>1
<1>3. IsFiniteSet({w}) /\ Cardinality({w}) = 1
  BY FS_Singleton
<1> QED BY <1>1, <1>2, <1>3, FS_Product DEF Chunk

\* Bytes are numbered in the order of their pushes.
LEMMA PushNumbers ==
  ASSUME PipeTyped, PipeBounded, NEW n \in Nat, PushBytes(n)
  PROVE  Len(pIn') = Len(pIn) + n /\ \A i \in 1 .. Len(pIn') : pIn'[i] = i
<1> DEFINE bytes == [i \in 1 .. n |-> Len(pIn) + i]
<1>1. pIn \in Seq(Nat) /\ Len(pIn) \in Nat
  BY LenProperties DEF PipeTyped
<1>2. bytes \in Seq(Nat) /\ Len(bytes) = n
  <2>1. bytes \in [1 .. n -> Nat]
    BY <1>1
  <2> QED BY <2>1, FunctionIsSequence
<1>3. \A i \in 1 .. n : bytes[i] = Len(pIn) + i
  OBVIOUS
<1>4. pIn' = pIn \o bytes
  BY DEF PushBytes
<1> HIDE DEF bytes
<1>5. /\ Len(pIn') = Len(pIn) + n
      /\ \A i \in 1 .. Len(pIn) + n :
            pIn'[i] = IF i <= Len(pIn) THEN pIn[i] ELSE bytes[i - Len(pIn)]
  BY <1>1, <1>2, <1>4, ConcatProperties
<1>6. ASSUME NEW i \in 1 .. Len(pIn) + n PROVE pIn'[i] = i
  <2>1. CASE i <= Len(pIn)
    BY <1>1, <1>5, <2>1 DEF PipeBounded
  <2>2. CASE ~ (i <= Len(pIn))
    <3>1. i - Len(pIn) \in 1 .. n
      BY <1>1, <2>2
    <3> QED BY <1>1, <1>3, <1>5, <2>2, <3>1
  <2> QED BY <2>1, <2>2
<1> QED BY <1>5, <1>6

\* A step that pushes nothing and begins no write.
LEMMA NothingPushed ==
  ASSUME PipeBounded, PipeTyped, UNCHANGED <<pIn, pOffered>>, StillToPush' \subseteq StillToPush
  PROVE  PipeBounded'
<1>1. /\ IsFiniteSet(StillToPush') /\ Cardinality(StillToPush') <= Cardinality(StillToPush)
      /\ Cardinality(StillToPush') \in Nat /\ Cardinality(StillToPush) \in Nat
  BY FS_Subset, FS_CardinalityType DEF PipeBounded
<1>2. Len(pIn) \in Nat /\ pOffered \in Nat
  BY PipeAssumption, LenProperties DEF PipeTyped, PipeBounded
<1>3. Len(pIn') + Cardinality(StillToPush') <= pOffered'
  BY <1>1, <1>2 DEF PipeBounded
<1> QED BY <1>1, <1>3 DEF PipeBounded

LEMMA PipeBoundedStep ==
  ASSUME PipeIInv, PipeBounded, [PipeNext]_pipeVars
  PROVE  PipeBounded'
<1> USE Groups
<1>1. /\ PipeTyped /\ Len(pIn) \in Nat /\ pOffered \in Nat /\ MaxBytes \in Nat
      /\ pThread \in [PipeThreads -> PipePlaces]
      /\ pSize \in [PipeThreads -> Nat] /\ pWritten \in [PipeWriters -> Nat]
      /\ IsFiniteSet(StillToPush) /\ Cardinality(StillToPush) \in Nat
      /\ pOffered <= MaxBytes /\ Len(pIn) + Cardinality(StillToPush) <= pOffered
  BY PipeAssumption, LenProperties, FS_CardinalityType DEF PipeIInv, PipeTyped, PipeBounded
<1>2. ASSUME NEW w \in PipeWriters, WriteBegins(w) PROVE PipeBounded'
  <2>1. PICK n \in Nat \ {0} : /\ pOffered + n <= MaxBytes /\ pOffered' = pOffered + n
                               /\ pSize' = [pSize EXCEPT ![w] = n]
    BY <1>2, PipeAssumption DEF WriteBegins
  <2>2. /\ pThread[w] = "idle" /\ pThread' = [pThread EXCEPT ![w] = "filling"]
        /\ pWritten' = [pWritten EXCEPT ![w] = 0] /\ pIn' = pIn
    BY <1>2 DEF WriteBegins, PipeGoes
  <2>3. StillToPush' = StillToPush \cup Chunk(w, 0, n)
    <3>1. ASSUME NEW v \in PipeWriters, NEW i \in Nat
          PROVE  <<v, i>> \in StillToPush' <=> <<v, i>> \in StillToPush \cup Chunk(w, 0, n)
      <4>1. CASE v = w
        BY <1>1, <2>1, <2>2, <4>1 DEF StillToPush, Chunk, InWrite
      <4>2. CASE v # w
        BY <1>1, <2>1, <2>2, <4>2 DEF StillToPush, Chunk, InWrite
      <4> QED BY <4>1, <4>2
    <3>2. /\ StillToPush' \subseteq PipeWriters \X Nat /\ StillToPush \subseteq PipeWriters \X Nat
          /\ Chunk(w, 0, n) \subseteq PipeWriters \X Nat
      BY DEF StillToPush, Chunk
    <3> QED BY <3>1, <3>2
  <2>4. StillToPush \cap Chunk(w, 0, n) = {}
    BY <2>2 DEF StillToPush, Chunk, InWrite
  <2>5. IsFiniteSet(StillToPush') /\ Cardinality(StillToPush') = Cardinality(StillToPush) + n
    <3>1. IsFiniteSet(Chunk(w, 0, n)) /\ Cardinality(Chunk(w, 0, n)) = n
      BY <2>1, ChunkSize
    <3>2. Cardinality(StillToPush \cap Chunk(w, 0, n)) = 0
      BY <2>4, FS_EmptySet
    <3>3. /\ IsFiniteSet(StillToPush \cup Chunk(w, 0, n))
          /\ Cardinality(StillToPush \cup Chunk(w, 0, n))
             = Cardinality(StillToPush) + Cardinality(Chunk(w, 0, n))
               - Cardinality(StillToPush \cap Chunk(w, 0, n))
      BY <1>1, <3>1, FS_Union
    <3> QED BY <1>1, <2>1, <2>3, <3>1, <3>2, <3>3
  <2>6. pOffered' \in 0 .. MaxBytes /\ Len(pIn') + Cardinality(StillToPush') <= pOffered'
    BY <1>1, <2>1, <2>2, <2>5
  <2> QED BY <2>2, <2>5, <2>6 DEF PipeBounded
<1>3. ASSUME NEW w \in PipeWriters, WriteFills(w) PROVE PipeBounded'
  <2>1. PICK n \in Nat, place \in {"notify", "asleep"} :
           /\ PushBytes(n)
           /\ pThread' = [pThread EXCEPT ![w] = place]
           /\ pWritten' = [pWritten EXCEPT ![w] = @ + n]
           /\ pWritten[w] + n <= pSize[w]
    BY <1>3, WriteFillsFacts
  <2>2. pOffered' = pOffered /\ pSize' = pSize /\ pThread[w] = "filling"
    BY <1>3 DEF WriteFills
  <2>3. PICK a \in Nat : a = pWritten[w]
    BY <1>1
  <2>4. Chunk(w, a, n) \subseteq StillToPush
    BY <1>1, <2>1, <2>2, <2>3 DEF Chunk, StillToPush, InWrite
  <2>5. StillToPush' \subseteq StillToPush \ Chunk(w, a, n)
    <3>1. ASSUME NEW v \in PipeWriters, NEW i \in Nat, <<v, i>> \in StillToPush'
          PROVE  <<v, i>> \in StillToPush \ Chunk(w, a, n)
      <4>1. CASE v = w
        BY <1>1, <2>1, <2>2, <2>3, <3>1, <4>1 DEF StillToPush, Chunk, InWrite
      <4>2. CASE v # w
        BY <1>1, <2>1, <2>2, <3>1, <4>2 DEF StillToPush, Chunk, InWrite
      <4> QED BY <4>1, <4>2
    <3>2. StillToPush' \subseteq PipeWriters \X Nat
      BY DEF StillToPush
    <3> QED BY <3>1, <3>2
  <2>6. /\ IsFiniteSet(StillToPush \ Chunk(w, a, n))
        /\ Cardinality(StillToPush \ Chunk(w, a, n)) = Cardinality(StillToPush) - n
    <3>1. StillToPush \cap Chunk(w, a, n) = Chunk(w, a, n)
      BY <2>4
    <3>2. Cardinality(Chunk(w, a, n)) = n
      BY ChunkSize
    <3>3. /\ IsFiniteSet(StillToPush \ Chunk(w, a, n))
          /\ Cardinality(StillToPush \ Chunk(w, a, n))
             = Cardinality(StillToPush) - Cardinality(StillToPush \cap Chunk(w, a, n))
      BY <1>1, FS_Difference
    <3> QED BY <3>1, <3>2, <3>3
  <2>7. /\ IsFiniteSet(StillToPush') /\ Cardinality(StillToPush') \in Nat
        /\ Cardinality(StillToPush') <= Cardinality(StillToPush) - n
    BY <2>5, <2>6, FS_Subset, FS_CardinalityType
  <2>8. Len(pIn') = Len(pIn) + n /\ \A i \in 1 .. Len(pIn') : pIn'[i] = i
    BY <1>1, <2>1, PushNumbers
  <2>9. Len(pIn') + Cardinality(StillToPush') <= pOffered'
    BY <1>1, <2>2, <2>7, <2>8
  <2> QED BY <2>2, <2>7, <2>8, <2>9 DEF PipeBounded
<1>4. ASSUME NEW w \in PipeWriters, TryWrite(w) PROVE PipeBounded'
  <2>1. PICK size \in Nat \ {0} : /\ pOffered + size <= MaxBytes /\ pOffered' = pOffered + size
                                  /\ PushBytes(Min({size, PipeRoom}))
    BY <1>4, PipeAssumption DEF TryWrite
  <2>2. PICK n : n = Min({size, PipeRoom})
    OBVIOUS
  <2>3. n \in Nat /\ n <= size
    <3>1. PipeRoom \in Nat
      BY LenProperties DEF PipeIInv, PipeTyped, PipeRoom
    <3> QED BY <2>2, <3>1, MinOfTwo
  <2>4. PushBytes(n)
    BY <2>1, <2>2
  <2>5. PICK place \in {"notify", "idle"} : pThread' = [pThread EXCEPT ![w] = place]
    BY <1>4 DEF TryWrite, PipeGoes
  <2>6. StillToPush' \subseteq StillToPush
    <3>1. UNCHANGED <<pSize, pWritten>>
      BY <1>4 DEF TryWrite
    <3> QED BY <1>1, <2>5, <3>1 DEF StillToPush, InWrite
  <2>7. /\ IsFiniteSet(StillToPush') /\ Cardinality(StillToPush') \in Nat
        /\ Cardinality(StillToPush') <= Cardinality(StillToPush)
    BY <1>1, <2>6, FS_Subset, FS_CardinalityType
  <2>8. Len(pIn') = Len(pIn) + n /\ \A i \in 1 .. Len(pIn') : pIn'[i] = i
    BY <1>1, <2>3, <2>4, PushNumbers
  <2>9. pOffered' \in 0 .. MaxBytes /\ Len(pIn') + Cardinality(StillToPush') <= pOffered'
    BY <1>1, <2>1, <2>3, <2>7, <2>8
  <2> QED BY <2>7, <2>8, <2>9 DEF PipeBounded
<1>5. ASSUME NEW w \in PipeWriters, WriteResumes(w) PROVE PipeBounded'
  <2>1. /\ pThread[w] = "woken" /\ UNCHANGED <<pIn, pOffered, pSize, pWritten>>
        /\ pThread' = [pThread EXCEPT ![w] = "idle"] \/ pThread' = [pThread EXCEPT ![w] = "filling"]
    BY <1>5 DEF WriteResumes, PipeGoes
  <2>2. StillToPush' \subseteq StillToPush
    BY <1>1, <2>1 DEF StillToPush, InWrite
  <2> QED BY <1>1, <2>1, <2>2, NothingPushed
<1>6. ASSUME NEW r \in PipeReaders,
             ReadTakes(r) \/ ReadChecks(r) \/ ReadWaits(r) \/ TryRead(r)
      PROVE  PipeBounded'
  <2>1. UNCHANGED <<pIn, pOffered, pWritten>>
    BY <1>6 DEF ReadTakes, ReadChecks, ReadWaits, TryRead
  <2>2. \A w \in PipeWriters : pThread'[w] = pThread[w] /\ pSize'[w] = pSize[w]
    BY <1>1, <1>6 DEF ReadTakes, ReadChecks, ReadWaits, TryRead, PipeGoes
  <2>3. StillToPush' \subseteq StillToPush
    BY <2>1, <2>2 DEF StillToPush, InWrite
  <2> QED BY <1>1, <2>1, <2>3, NothingPushed
<1>7. ASSUME NEW t \in PipeThreads, PipeNotify(t) \/ PipeSpuriousWake(t) PROVE PipeBounded'
  <2>1. UNCHANGED <<pIn, pOffered, pSize, pWritten>>
    BY <1>7 DEF PipeNotify, PipeSpuriousWake
  <2>2. \A w \in PipeWriters : InWrite(w)' => InWrite(w)
    <3>1. CASE PipeNotify(t)
      <4>1. /\ pThread[t] = "notify"
            /\ \/ pThread' = [pThread EXCEPT ![t] = "idle"]
               \/ \E u \in PipeThreads : /\ pThread[u] = "asleep"
                                         /\ pThread' = [pThread EXCEPT ![t] = "idle", ![u] = "woken"]
        BY <3>1 DEF PipeNotify, PipeGoes, PipeAsleep
      <4> QED BY <1>1, <4>1 DEF InWrite
    <3>2. CASE PipeSpuriousWake(t)
      BY <1>1, <3>2 DEF PipeSpuriousWake, PipeGoes, InWrite
    <3> QED BY <1>7, <3>1, <3>2
  <2>3. StillToPush' \subseteq StillToPush
    BY <2>1, <2>2 DEF StillToPush
  <2> QED BY <1>1, <2>1, <2>3, NothingPushed
<1>8. CASE ClosePipe \/ CloseNotifies
  <2>1. UNCHANGED <<pIn, pOffered, pSize, pWritten>>
    BY <1>8 DEF ClosePipe, CloseNotifies
  <2>2. \A w \in PipeWriters : InWrite(w)' => InWrite(w)
    BY <1>1, <1>8 DEF ClosePipe, CloseNotifies, PipeWakesAll, PipeAsleep, InWrite
  <2>3. StillToPush' \subseteq StillToPush
    BY <2>1, <2>2 DEF StillToPush
  <2> QED BY <1>1, <2>1, <2>3, NothingPushed
<1>9. CASE UNCHANGED pipeVars
  <2>1. UNCHANGED <<pIn, pOffered, pSize, pWritten, pThread>>
    BY <1>9 DEF pipeVars
  <2>2. StillToPush' \subseteq StillToPush
    BY <2>1 DEF StillToPush, InWrite
  <2> QED BY <1>1, <2>1, <2>2, NothingPushed
<1> QED BY <1>2, <1>3, <1>4, <1>5, <1>6, <1>7, <1>8, <1>9 DEF PipeNext

LEMMA PipeBoundedInitially == PipeInit => PipeBounded
<1> SUFFICES ASSUME PipeInit PROVE PipeBounded
  OBVIOUS
<1>1. StillToPush = {}
  <2>1. \A w \in PipeWriters : pThread[w] = "idle"
    BY Groups DEF PipeInit
  <2> QED BY <2>1 DEF StillToPush, InWrite
<1>2. Len(pIn) = 0 /\ pOffered = 0
  BY EmptySeq DEF PipeInit
<1> QED BY <1>1, <1>2, FS_EmptySet, PipeAssumption DEF PipeBounded

\* What came out, and what is in the buffer, has the numbers of what went in.
LEMMA PipeTypes ==
  ASSUME PipeIInv, PipeBounded
  PROVE  PipeTypeOK
<1>1. /\ pBuffer \in Seq(Nat) /\ pIn \in Seq(Nat) /\ pOut \in Seq(Nat)
      /\ Len(pBuffer) \in Nat /\ Len(pIn) \in Nat /\ Len(pOut) \in Nat
      /\ pIn = pOut \o pBuffer
  BY LenProperties DEF PipeIInv, PipeTyped, BytesInOrder
<1>2. Len(pIn) <= MaxBytes /\ MaxBytes \in Nat
  <2>1. Cardinality(StillToPush) \in Nat /\ pOffered \in Nat /\ pOffered <= MaxBytes /\ MaxBytes \in Nat
        /\ Len(pIn) + Cardinality(StillToPush) <= pOffered
    BY FS_CardinalityType, PipeAssumption DEF PipeBounded
  <2> QED BY <1>1, <2>1
<1>3. /\ Len(pIn) = Len(pOut) + Len(pBuffer)
      /\ \A i \in 1 .. Len(pOut) + Len(pBuffer) :
            pIn[i] = IF i <= Len(pOut) THEN pOut[i] ELSE pBuffer[i - Len(pOut)]
  BY <1>1, ConcatProperties
<1>4. ASSUME NEW i \in 1 .. Len(pIn) PROVE pIn[i] \in PipeBytes
  BY <1>1, <1>2 DEF PipeBounded, PipeBytes
<1>5. ASSUME NEW i \in 1 .. Len(pOut) PROVE pOut[i] \in PipeBytes
  <2>1. i \in 1 .. Len(pIn) /\ pIn[i] = pOut[i]
    BY <1>1, <1>3
  <2> QED BY <1>4, <2>1
<1>6. ASSUME NEW i \in 1 .. Len(pBuffer) PROVE pBuffer[i] \in PipeBytes
  <2>1. PICK k \in 1 .. Len(pIn) : k = Len(pOut) + i
    BY <1>1, <1>3
  <2>2. ~ (k <= Len(pOut)) /\ k - Len(pOut) = i
    BY <1>1, <2>1
  <2>3. pIn[k] = pBuffer[i]
    BY <1>1, <1>3, <2>1, <2>2
  <2> QED BY <1>4, <2>3
<1>7. \A s \in Seq(Nat) : (\A i \in 1 .. Len(s) : s[i] \in PipeBytes) => s \in Seq(PipeBytes)
  <2> TAKE s \in Seq(Nat)
  <2> HAVE \A i \in 1 .. Len(s) : s[i] \in PipeBytes
  <2>1. s \in [1 .. Len(s) -> Nat] /\ Len(s) \in Nat
    BY LenProperties
  <2>2. s \in [1 .. Len(s) -> PipeBytes]
    BY <2>1
  <2> QED BY <2>1, <2>2, FunctionIsSequence
<1>8. pIn \in Seq(PipeBytes) /\ pOut \in Seq(PipeBytes) /\ pBuffer \in Seq(PipeBytes)
  BY <1>1, <1>4, <1>5, <1>6, <1>7
<1> QED BY <1>8 DEF PipeIInv, PipeTyped, PipeBounded, PipeTypeOK

\* In every reachable state the pipe has its types, and no more bytes are in it
\* or came out of it than the calls of write and try_write offered
\* (pipe.rs:80-143).
THEOREM PipeTyping == PipeSpec => []PipeTypeOK
<1>1. PipeInit => PipeIInv /\ PipeBounded
  BY PipeInitially, PipeBoundedInitially
<1>2. PipeIInv /\ PipeBounded /\ [PipeNext]_pipeVars => (PipeIInv /\ PipeBounded)'
  BY PipeInductive, PipeBoundedStep
<1>3. PipeIInv /\ PipeBounded => PipeTypeOK
  BY PipeTypes
<1> QED BY <1>1, <1>2, <1>3, PTL DEF PipeSpec

(***************************************************************************)
(* The run that checks the executor, the channel, the pipe and the agents  *)
(* of the gateway together.                                                *)
(***************************************************************************)
\* A step of the run is a step, or a stutter, of each of the four, so each
\* keeps the types it has on its own.
THEOREM KernelTyping == KernelSpec => []TypeOK
<1> DEFINE IInv == ExecutorIInv /\ ChannelIInv /\ PipeIInv /\ PipeBounded /\ GatewayIInv
<1>1. KernelInit => IInv
  BY ExecutorInitInv, ChannelInitially, PipeInitially, PipeBoundedInitially, GatewayStarts
     DEF KernelInit
<1>2. IInv /\ [KernelNext]_kernelVars => IInv'
  <2> SUFFICES ASSUME IInv, [KernelNext]_kernelVars PROVE IInv'
    OBVIOUS
  <2>1. /\ [ExecutorNext]_executorVars /\ [ChannelNext]_channelVars
        /\ [PipeNext]_pipeVars /\ [GatewayNext]_gatewayVars
    BY DEF KernelNext, kernelVars
  <2>2. ExecutorIInv'
    BY <2>1, ExecutorStepInv, ExecutorStutterInv
  <2>3. ChannelIInv' /\ GatewayIInv'
    BY <2>1, ChannelInductive, GatewaySteps
  <2>4. PipeIInv' /\ PipeBounded'
    BY <2>1, PipeInductive, PipeBoundedStep
  <2> QED BY <2>2, <2>3, <2>4
<1>3. IInv => TypeOK
  BY PipeTypes DEF TypeOK, ExecutorIInv, ExecutorTyped, ChannelIInv, GatewayIInv
<1> HIDE DEF IInv
<1> QED BY <1>1, <1>2, <1>3, PTL DEF KernelSpec
=============================================================================
