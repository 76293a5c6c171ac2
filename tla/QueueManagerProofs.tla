------------------------- MODULE QueueManagerProofs -------------------------
(***************************************************************************)
(* What TLAPS proves of QueueManager, for any finite set of tasks and any  *)
(* pool, capacities and limits: Typing, CountersAlwaysAccount,             *)
(* SequentialStaysSequential, QueuesStayServed and NobodyIsForgotten.      *)
(*                                                                         *)
(* QueueIInv adds to the types and the counters that a task is in one      *)
(* place, that the two vectors of the pool are paired as long as the       *)
(* supervisor met no half-done push, that every restart was paid for by a  *)
(* panic, and that whoever is left after a signal nobody missed is         *)
(* listening and woken.                                                    *)
(***************************************************************************)
EXTENDS QueueManager, SequenceTheorems, FiniteSetTheorems, TLAPS

\* What a worker has in its hands between two selects.
Busy == {"count", "acquire", "enter", "process"}
Holders == {w \in Slots : pc[w] \in Busy}

\* A task is new, in its queue, or was taken; a taken one is with one worker.
TasksInOnePlace ==
  /\ \A k \in Kinds : \A i \in DOMAIN queue[k] :
       /\ KindOf[queue[k][i]] = k /\ fate[queue[k][i]] = "none"
       /\ submit[queue[k][i]] \in {"sent", "accepted"}
       /\ \A j \in DOMAIN queue[k] : queue[k][i] = queue[k][j] => i = j
  /\ \A w \in Holders :
       /\ task[w] \in Tasks /\ KindOf[task[w]] = kind[w] /\ fate[task[w]] = "taken"
       /\ \A v \in Holders : task[v] = task[w] => v = w
  /\ \A t \in Tasks : fate[t] # "none" => submit[t] \in {"sent", "accepted"}

\* Only subagent workers count and acquire, only nested ones enter a session.
StepsFitKinds ==
  /\ \A w \in Slots : /\ pc[w] \in {"count", "acquire"} => kind[w] = "Subagent"
                      /\ pc[w] = "enter" => kind[w] = "Nested"
  /\ \A t \in Tasks : /\ submit[t] = "sent" => KindOf[t] = "Subagent"
                      /\ submit[t] = "checked" => KindOf[t] = "Nested"

InitialKind(w) == IF w \in DOMAIN Pool THEN Pool[w] ELSE "Subagent"

\* A handle and the info at its index are of one worker; the auto-scaler is
\* ahead with one handle between its pushes.
Paired ==
  ~raced /\ shutdown # "done" =>
    /\ \A w \in Slots : kind[w] = InitialKind(w)
    /\ Len(workers) = Len(infos) + (IF scaler = "info" THEN 1 ELSE 0)
    /\ \A i \in DOMAIN infos : infos[i].kind = kind[workers[i]]
    /\ scaler = "handle" => fresh \notin DOMAIN Pool
    /\ scaler = "info" => workers[Len(workers)] \notin DOMAIN Pool

\* Every restart was paid for by a panic, and so is the one due to a finished
\* worker; a worker of the pool is gone only when its restarts are used up.
RestartsPaid ==
  shutdown = "no" /\ ~raced =>
    /\ \A i \in DOMAIN infos :
         infos[i].restarts + (IF pc[workers[i]] = "finished" THEN 1 ELSE 0)
           <= PanicsOf(infos[i].kind)
    /\ \A p \in DOMAIN Pool :
         IF pc[p] = "free" THEN PanicsOf(Pool[p]) > MaxRestarts
         ELSE \E i \in DOMAIN workers : workers[i] = p
    /\ \A w \in Slots : pc[w] = "finished" => PanicsOf(kind[w]) > 0

\* Whoever is still there when nobody missed the signal listens and is woken.
SignalStands ==
  /\ shutdown = "no" => woken = {}
  /\ shutdown # "no" /\ ~missed =>
       /\ \A w \in Slots : pc[w] \in {"free", "finished"} \/ (pc[w] = "select" /\ w \in woken)
       /\ sup = "exited" \/ (sup = "select" /\ Supervisor \in woken)
       /\ scaler = "exited" \/ (scaler = "select" /\ Scaler \in woken)

QueueIInv ==
  /\ TypeOK /\ TasksInOnePlace /\ StepsFitKinds /\ CountersAccountForWork
  /\ Paired /\ RestartsPaid /\ SignalStands

(***************************************************************************)
(* Sequences, sets, remainders                                             *)
(***************************************************************************)
\* Removing an element shifts those behind it.
LEMMA RemoveAtProperties ==
  ASSUME NEW S, NEW s \in Seq(S), NEW i \in 1 .. Len(s)
  PROVE  /\ RemoveAt(s, i) \in Seq(S)
         /\ Len(RemoveAt(s, i)) = Len(s) - 1
         /\ \A j \in 1 .. Len(s) - 1 :
              RemoveAt(s, i)[j] = IF j < i THEN s[j] ELSE s[j + 1]
<1> DEFINE front == SubSeq(s, 1, i - 1)
           back == SubSeq(s, i + 1, Len(s))
<1>1. Len(s) \in Nat /\ i \in Int /\ 1 <= i /\ i <= Len(s)
  BY LenProperties
<1>2. \A j \in 1 .. Len(s) : s[j] \in S
  BY ElementOfSeq
<1>3. /\ front \in Seq(S) /\ Len(front) = i - 1
      /\ \A j \in 1 .. i - 1 : front[j] = s[j]
  <2>1. \A j \in 1 .. i - 1 : s[j] \in S
    BY <1>1, <1>2
  <2>2. /\ front \in Seq(S)
        /\ Len(front) = IF 1 <= i - 1 THEN (i - 1) - 1 + 1 ELSE 0
        /\ \A j \in 1 .. (i - 1) - 1 + 1 : front[j] = s[1 + j - 1]
    BY <1>1, <2>1, SubSeqProperties
  <2> QED BY <1>1, <2>2
<1>4. /\ back \in Seq(S) /\ Len(back) = Len(s) - i
      /\ \A j \in 1 .. Len(s) - i : back[j] = s[i + j]
  <2>1. \A j \in i + 1 .. Len(s) : s[j] \in S
    BY <1>1, <1>2
  <2>2. /\ back \in Seq(S)
        /\ Len(back) = IF i + 1 <= Len(s) THEN Len(s) - (i + 1) + 1 ELSE 0
        /\ \A j \in 1 .. Len(s) - (i + 1) + 1 : back[j] = s[(i + 1) + j - 1]
    BY <1>1, <2>1, SubSeqProperties
  <2> QED BY <1>1, <2>2
<1> HIDE DEF front, back
<1>5. /\ front \o back \in Seq(S)
      /\ Len(front \o back) = Len(front) + Len(back)
      /\ \A j \in 1 .. Len(front) + Len(back) :
           (front \o back)[j] = IF j <= Len(front) THEN front[j] ELSE back[j - Len(front)]
  BY <1>3, <1>4, ConcatProperties
<1>6. ASSUME NEW j \in 1 .. Len(s) - 1
      PROVE  (front \o back)[j] = IF j < i THEN s[j] ELSE s[j + 1]
  <2>1. CASE j < i
    BY <1>1, <1>3, <1>4, <1>5, <2>1
  <2>2. CASE ~(j < i)
    <3>1. (front \o back)[j] = back[j - (i - 1)]
      BY <1>1, <1>3, <1>4, <1>5, <2>2
    <3>2. j - (i - 1) \in 1 .. Len(s) - i /\ i + (j - (i - 1)) = j + 1
      BY <1>1, <2>2
    <3> QED BY <1>4, <2>2, <3>1, <3>2
  <2> QED BY <2>1, <2>2
<1>7. RemoveAt(s, i) = front \o back
  BY DEF RemoveAt, front, back
<1> QED BY <1>1, <1>3, <1>4, <1>5, <1>6, <1>7

\* What removing one element does to the places before it and after it.
LEMMA RemovedAnywhere ==
  \A S : \A s \in Seq(S) : \A i \in 1 .. Len(s) :
    /\ RemoveAt(s, i) \in Seq(S) /\ Len(RemoveAt(s, i)) = Len(s) - 1
    /\ \A j \in 1 .. i - 1 : RemoveAt(s, i)[j] = s[j]
    /\ \A j \in i .. Len(s) - 1 : RemoveAt(s, i)[j] = s[j + 1]
<1> TAKE S
<1> TAKE s \in Seq(S)
<1> TAKE i \in 1 .. Len(s)
<1> DEFINE r == RemoveAt(s, i)
<1>1. /\ r \in Seq(S) /\ Len(r) = Len(s) - 1
      /\ \A j \in 1 .. Len(s) - 1 : r[j] = IF j < i THEN s[j] ELSE s[j + 1]
  BY RemoveAtProperties
<1>2. Len(s) \in Nat
  BY LenProperties
<1> HIDE DEF r
<1>3. \A j \in 1 .. i - 1 : j \in 1 .. Len(s) - 1 /\ j < i
  BY <1>2
<1>4. \A j \in i .. Len(s) - 1 : j \in 1 .. Len(s) - 1 /\ ~(j < i)
  BY <1>2
<1> QED BY <1>1, <1>3, <1>4 DEF r

\* r is s with what stood at place i gone and x at the end.
MovedToTheEnd(r, s, i, x) ==
  /\ Len(r) = Len(s)
  /\ r[Len(s)] = x
  /\ \A j \in 1 .. i - 1 : r[j] = s[j]
  /\ \A j \in i .. Len(s) - 1 : r[j] = s[j + 1]

LEMMA ReplacedAnywhere ==
  \A S : \A s \in Seq(S) : \A i \in 1 .. Len(s) : \A x \in S :
    Replaced(s, i, x) \in Seq(S) /\ MovedToTheEnd(Replaced(s, i, x), s, i, x)
<1> TAKE S
<1> TAKE s \in Seq(S)
<1> TAKE i \in 1 .. Len(s)
<1> TAKE x \in S
<1> DEFINE r == RemoveAt(s, i)
<1>1. /\ r \in Seq(S) /\ Len(r) = Len(s) - 1
      /\ \A j \in 1 .. i - 1 : r[j] = s[j]
      /\ \A j \in i .. Len(s) - 1 : r[j] = s[j + 1]
  BY RemovedAnywhere, Zenon
<1>2. Len(s) \in Nat
  BY LenProperties
<1>3. Replaced(s, i, x) = Append(r, x)
  BY DEF Replaced
<1> HIDE DEF r
<1>4. /\ Append(r, x) \in Seq(S)
      /\ Len(Append(r, x)) = Len(r) + 1
      /\ \A j \in 1 .. Len(r) : Append(r, x)[j] = r[j]
      /\ Append(r, x)[Len(r) + 1] = x
  BY <1>1, AppendProperties
<1>5. Len(r) + 1 = Len(s)
  BY <1>1, <1>2
<1>6. \A j \in 1 .. i - 1 : j \in 1 .. Len(r)
  BY <1>1, <1>2
<1>7. \A j \in i .. Len(s) - 1 : j \in 1 .. Len(r)
  BY <1>1, <1>2
<1> QED BY <1>1, <1>3, <1>4, <1>5, <1>6, <1>7 DEF MovedToTheEnd

\* The slots are positive, finitely many, and the pool has the first of them.
LEMMA SlotsProperties ==
  /\ Len(Pool) \in Nat \ {0} /\ DOMAIN Pool = 1 .. Len(Pool)
  /\ \A p \in DOMAIN Pool : Pool[p] \in Kinds
  /\ Slots \subseteq Nat \ {0} /\ DOMAIN Pool \subseteq Slots /\ 1 \in Slots
  /\ Scaler \notin Slots /\ Supervisor \notin Slots /\ Scaler # Supervisor
  /\ IsFiniteSet(Slots)
<1>1. Len(Pool) \in Nat /\ DOMAIN Pool = 1 .. Len(Pool)
  BY QueueAssumption, LenProperties
<1>2. Len(Pool) # 0
  BY QueueAssumption, EmptySeq
<1>3. \A p \in DOMAIN Pool : Pool[p] \in Kinds
  BY <1>1, QueueAssumption, ElementOfSeq
<1>4. ExtraWorkers \in Nat
  BY QueueAssumption
<1>5. IsFiniteSet(Slots)
  BY <1>1, <1>4, FS_Interval DEF Slots
<1> QED BY <1>1, <1>2, <1>3, <1>4, <1>5 DEF Slots, Scaler, Supervisor

\* Sets of slots and of tasks can be counted.
LEMMA Countable ==
  /\ \A T \in SUBSET Slots : IsFiniteSet(T) /\ Cardinality(T) \in Nat
  /\ \A T \in SUBSET Tasks : IsFiniteSet(T) /\ Cardinality(T) \in Nat
<1>1. \A T \in SUBSET Slots : IsFiniteSet(T)
  BY SlotsProperties, FS_Subset
<1>2. \A T \in SUBSET Tasks : IsFiniteSet(T)
  BY QueueAssumption, FS_Subset
<1>3. \A T : IsFiniteSet(T) => Cardinality(T) \in Nat
  BY FS_CardinalityType
<1> QED BY <1>1, <1>2, <1>3

\* A set that gains or loses one element.
LEMMA OneMore ==
  ASSUME NEW S, IsFiniteSet(S), NEW x, x \notin S, NEW T, T = S \cup {x}
  PROVE  Cardinality(T) = Cardinality(S) + 1
BY FS_AddElement

LEMMA OneLess ==
  ASSUME NEW S, IsFiniteSet(S), NEW x, x \in S, NEW T, T = S \ {x}
  PROVE  Cardinality(T) = Cardinality(S) - 1
BY FS_RemoveElement

\* What determines a remainder.
LEMMA ModUnique ==
  ASSUME NEW w \in Nat \ {0}, NEW a \in Int, NEW q \in Int, NEW r \in Int,
         a = w * q + r, 0 <= r, r < w
  PROVE  a % w = r
OBVIOUS

LEMMA ModRange ==
  ASSUME NEW w \in Nat \ {0}, NEW a \in Int
  PROVE  a % w \in Int /\ 0 <= a % w /\ a % w < w
OBVIOUS

LEMMA ModQuotient ==
  ASSUME NEW w \in Nat \ {0}, NEW a \in Int
  PROVE  a \div w \in Int /\ a = w * (a \div w) + (a % w)
OBVIOUS

\* One step up and one step down of a wrapping counter.
LEMMA ModUp ==
  ASSUME NEW w \in Nat \ {0}, NEW a \in Int
  PROVE  ((a % w) + 1) % w = (a + 1) % w
<1> DEFINE r == a % w
           q == a \div w
<1>1. r \in Int /\ 0 <= r /\ r < w /\ q \in Int /\ a = w * q + r
  BY ModRange, ModQuotient
<1> HIDE DEF r, q
<1>2. CASE r + 1 < w
  <2>1. (r + 1) % w = r + 1
    <3>1. r + 1 = w * 0 + (r + 1)
      BY <1>1
    <3> QED BY <1>1, <1>2, <3>1, ModUnique
  <2>2. a + 1 = w * q + (r + 1)
    BY <1>1
  <2>3. (a + 1) % w = r + 1
    BY <1>1, <1>2, <2>2, ModUnique
  <2> QED BY <2>1, <2>3 DEF r
<1>3. CASE r + 1 = w
  <2>1. (r + 1) % w = 0
    <3>1. r + 1 = w * 1 + 0
      BY <1>1, <1>3
    <3> QED BY <1>1, <1>3, <3>1, ModUnique
  <2>2. a + 1 = w * (q + 1) + 0
    BY <1>1, <1>3
  <2>3. (a + 1) % w = 0
    BY <1>1, <1>3, <2>2, ModUnique
  <2> QED BY <2>1, <2>3 DEF r
<1> QED BY <1>1, <1>2, <1>3

LEMMA ModDown ==
  ASSUME NEW w \in Nat \ {0}, NEW a \in Int
  PROVE  ((a % w) - 1) % w = (a - 1) % w
<1> DEFINE r == a % w
           q == a \div w
<1>1. r \in Int /\ 0 <= r /\ r < w /\ q \in Int /\ a = w * q + r
  BY ModRange, ModQuotient
<1> HIDE DEF r, q
<1>2. CASE r >= 1
  <2>1. (r - 1) % w = r - 1
    <3>1. r - 1 = w * 0 + (r - 1)
      BY <1>1
    <3> QED BY <1>1, <1>2, <3>1, ModUnique
  <2>2. a - 1 = w * q + (r - 1)
    BY <1>1
  <2>3. (a - 1) % w = r - 1
    BY <1>1, <1>2, <2>2, ModUnique
  <2> QED BY <2>1, <2>3 DEF r
<1>3. CASE r = 0
  <2>1. (r - 1) % w = w - 1
    <3>1. r - 1 = w * (-1) + (w - 1)
      BY <1>1, <1>3
    <3> QED BY <1>1, <1>3, <3>1, ModUnique
  <2>2. a - 1 = w * (q - 1) + (w - 1)
    BY <1>1, <1>3
  <2>3. (a - 1) % w = w - 1
    BY <1>1, <1>3, <2>2, ModUnique
  <2> QED BY <2>1, <2>3 DEF r
<1> QED BY <1>1, <1>2, <1>3

(***************************************************************************)
(* What a step leaves alone                                                *)
(***************************************************************************)
Sent == {t \in Tasks : submit[t] = "sent"}
Leaked == {t \in Tasks : KindOf[t] = "Nested" /\ fate[t] = "panicked"}
Processing(k) == {w \in In("process") : kind[w] = k}
Panicked(k) == {t \in Tasks : KindOf[t] = k /\ fate[t] = "panicked"}

\* The conjuncts about tasks and counters survive a step of somebody else, in
\* which no worker takes up or puts down a task.
LEMMA WorkStays ==
  ASSUME TasksInOnePlace, StepsFitKinds, CountersAccountForWork,
         UNCHANGED <<queue, depth, permits, active, submit, fate, task>>,
         \A w \in Slots : pc[w] \in Busy \/ pc'[w] \in Busy =>
                            pc'[w] = pc[w] /\ kind'[w] = kind[w]
  PROVE  TasksInOnePlace' /\ StepsFitKinds' /\ CountersAccountForWork'
<1>1. \A w \in Slots : /\ w \in Holders' <=> w \in Holders
                       /\ w \in Holders => kind'[w] = kind[w]
  BY DEF Holders
<1>2. TasksInOnePlace'
  BY <1>1 DEF TasksInOnePlace, Holders
<1>3. StepsFitKinds'
  BY DEF StepsFitKinds, Busy
<1>4. In("count")' = In("count") /\ In("process")' = In("process")
  BY DEF In, Busy
<1>5. /\ Processing("Subagent")' = Processing("Subagent")
      /\ Processing("Nested")' = Processing("Nested")
  BY <1>4 DEF Processing, In, Busy
<1>6. CountersAccountForWork'
  BY <1>4, <1>5
     DEF CountersAccountForWork, DepthTracksQueue, PermitsConserved, NestingAccounted, Processing
<1> QED BY <1>2, <1>3, <1>6

\* The two vectors of the pool, element by element.
LEMMA PoolTypes ==
  ASSUME TypeOK
  PROVE  /\ Len(workers) \in Nat /\ DOMAIN workers = 1 .. Len(workers)
         /\ Len(infos) \in Nat /\ DOMAIN infos = 1 .. Len(infos)
         /\ \A i \in DOMAIN workers : workers[i] \in Slots
         /\ \A i \in DOMAIN infos : infos[i].kind \in Kinds /\ infos[i].restarts \in 0 .. MaxRestarts
         /\ MaxRestarts \in Nat
<1>1. workers \in Seq(Slots) /\ infos \in Seq([kind : Kinds, restarts : 0 .. MaxRestarts])
  BY DEF TypeOK
<1>2. /\ Len(workers) \in Nat /\ DOMAIN workers = 1 .. Len(workers)
      /\ Len(infos) \in Nat /\ DOMAIN infos = 1 .. Len(infos)
  BY <1>1, LenProperties
<1>3. \A i \in DOMAIN workers : workers[i] \in Slots
  BY <1>1, <1>2, ElementOfSeq
<1>4. \A i \in DOMAIN infos : infos[i] \in [kind : Kinds, restarts : 0 .. MaxRestarts]
  BY <1>1, <1>2, ElementOfSeq
<1> QED BY <1>2, <1>3, <1>4, QueueAssumption

\* The conjuncts about the pool survive a step in which nobody finishes,
\* panics or is dropped.
LEMMA PoolStays ==
  ASSUME TypeOK, Paired, RestartsPaid,
         UNCHANGED <<workers, infos, raced, kind, scaler, fresh, shutdown>>,
         \A t \in Tasks : fate'[t] = "panicked" <=> fate[t] = "panicked",
         \A w \in Slots : /\ pc'[w] = "free" <=> pc[w] = "free"
                          /\ pc'[w] = "finished" => pc[w] = "finished"
  PROVE  Paired' /\ RestartsPaid'
<1>1. Paired'
  BY DEF Paired, InitialKind
<1>2. ASSUME NEW k
      PROVE  PanicsOf(k)' = PanicsOf(k)
  BY DEF PanicsOf
<1>3. CASE ~(shutdown = "no" /\ ~raced)
  <2>1. ~(shutdown' = "no" /\ ~raced')
    BY <1>3
  <2> QED BY <1>1, <2>1, Zenon DEF RestartsPaid
<1>4. CASE shutdown = "no" /\ ~raced
  <2>1. ASSUME NEW i \in DOMAIN infos
        PROVE  infos[i].restarts + (IF pc'[workers[i]] = "finished" THEN 1 ELSE 0)
                 <= PanicsOf(infos[i].kind)
    <3>1. infos[i].restarts + (IF pc[workers[i]] = "finished" THEN 1 ELSE 0)
            <= PanicsOf(infos[i].kind)
      BY <1>4, <2>1 DEF RestartsPaid
    <3>2. workers[i] \in Slots
      <4>1. Len(workers) = Len(infos) + (IF scaler = "info" THEN 1 ELSE 0)
        BY <1>4 DEF Paired
      <4>2. i \in DOMAIN workers
        BY <2>1, <4>1, PoolTypes
      <4> QED BY <4>2, PoolTypes
    <3>3. infos[i].restarts \in Int
      BY <2>1, PoolTypes
    <3>4. PanicsOf(infos[i].kind) \in Nat
      BY Countable DEF PanicsOf
    <3> QED BY <3>1, <3>2, <3>3, <3>4
  <2>2. ASSUME NEW p \in DOMAIN Pool
        PROVE  IF pc'[p] = "free" THEN PanicsOf(Pool[p]) > MaxRestarts
               ELSE \E i \in DOMAIN workers : workers[i] = p
    BY <1>4, <2>2, SlotsProperties DEF RestartsPaid
  <2>3. \A w \in Slots : pc'[w] = "finished" => PanicsOf(kind[w]) > 0
    BY <1>4 DEF RestartsPaid
  <2>4. infos' = infos /\ workers' = workers /\ kind' = kind
    OBVIOUS
  <2> QED BY <1>1, <1>2, <2>1, <2>2, <2>3, <2>4 DEF RestartsPaid
<1> QED BY <1>1, <1>3, <1>4

\* Before the signal nobody is woken; after one that nobody missed, a step of
\* somebody who is not listening, or who overlooks it, contradicts the invariant.
LEMMA OverlookedIsMissed ==
  ASSUME SignalStands, NEW x, Overlooks(x)
  PROVE  /\ shutdown = "no" => woken' = {}
         /\ ~missed' => ~missed /\ x \notin woken /\ woken' = woken
BY DEF SignalStands, Overlooks

(***************************************************************************)
(* Submitters                                                              *)
(***************************************************************************)
\* A task that fits goes behind its queue, one that does not is rejected.
LEMMA SubmissionKeeps ==
  ASSUME QueueIInv, NEW t \in Tasks, NEW l \in {"sent", "accepted"}, SubmitsTo(t, l),
         submit[t] \in {"new", "checked"}, KindOf[t] = "Subagent" <=> l = "sent"
  PROVE  QueueIInv'
<1> USE DEF QueueIInv
<1> DEFINE k == KindOf[t]
<1>1. k \in Kinds /\ queue[k] \in Seq(Tasks)
  BY QueueAssumption DEF TypeOK
<1>2. UNCHANGED <<depth, permits, active, fate, panics, workers, infos, raced, shutdown, woken,
                  missed, kind, pc, task, sup, scan, scaler, fresh>>
  BY DEF SubmitsTo, pools, signal
<1>3. Paired' /\ RestartsPaid'
  BY <1>2, PoolStays
<1>4. SignalStands'
  BY <1>2 DEF SignalStands
<1>5. In("count")' = In("count") /\ In("process")' = In("process")
  BY <1>2 DEF In
<1>6. PermitsConserved' /\ NestingAccounted'
  BY <1>2, <1>5 DEF CountersAccountForWork, PermitsConserved, NestingAccounted
<1>7. fate[t] = "none" /\ t \notin {task[w] : w \in Holders}
  BY DEF TasksInOnePlace
<1>8. \A w \in Slots : w \in Holders' <=> w \in Holders
  BY <1>2 DEF Holders
<1>9. Sent \in SUBSET Tasks /\ IsFiniteSet(Sent) /\ Cardinality(Sent) \in Nat
  BY Countable DEF Sent
<1>10. Cardinality(In("count")) \in Nat /\ Len(queue["Subagent"]) \in Nat
  BY Countable, LenProperties DEF In, TypeOK, Kinds
<1>11. CASE queue' = [queue EXCEPT ![k] = Append(@, t)] /\ submit' = [submit EXCEPT ![t] = l]
  <2>1. queue'[k] = Append(queue[k], t) /\ \A m \in Kinds \ {k} : queue'[m] = queue[m]
    BY <1>1, <1>11 DEF TypeOK
  <2>2. /\ Append(queue[k], t) \in Seq(Tasks) /\ Len(Append(queue[k], t)) = Len(queue[k]) + 1
        /\ \A i \in 1 .. Len(queue[k]) : Append(queue[k], t)[i] = queue[k][i]
        /\ Append(queue[k], t)[Len(queue[k]) + 1] = t
    BY <1>1, AppendProperties
  <2>3. submit'[t] = l /\ \A u \in Tasks \ {t} : submit'[u] = submit[u]
    BY <1>11 DEF TypeOK
  <2>4. TypeOK'
    <3>1. queue' \in [Kinds -> Seq(Tasks)]
      BY <1>1, <1>11, <2>2 DEF TypeOK
    <3>2. submit' \in [Tasks -> {"new", "checked", "sent", "accepted", "rejected"}]
      BY <1>11 DEF TypeOK
    <3> QED BY <1>2, <3>1, <3>2 DEF TypeOK
  <2>5. TasksInOnePlace'
    <3>1. ASSUME NEW m \in Kinds, NEW i \in DOMAIN queue'[m]
          PROVE  /\ KindOf[queue'[m][i]] = m /\ fate[queue'[m][i]] = "none"
                 /\ submit'[queue'[m][i]] \in {"sent", "accepted"}
                 /\ \A j \in DOMAIN queue'[m] : queue'[m][i] = queue'[m][j] => i = j
      <4>1. CASE m # k
        <5>1. queue'[m] = queue[m] /\ queue[m] \in Seq(Tasks) /\ queue[m][i] \in Tasks
          BY <2>1, <4>1, <3>1, ElementOfSeq, LenProperties DEF TypeOK
        <5> QED BY <2>3, <5>1, <3>1 DEF TasksInOnePlace
      <4>2. CASE m = k
        <5>1. /\ DOMAIN queue[k] = 1 .. Len(queue[k]) /\ Len(queue[k]) \in Nat
              /\ DOMAIN queue'[k] = 1 .. Len(queue[k]) + 1
          BY <1>1, <2>1, <2>2, LenProperties
        <5>2. \A j \in 1 .. Len(queue[k]) :
                /\ queue[k][j] \in Tasks /\ queue[k][j] # t
                /\ KindOf[queue[k][j]] = k /\ fate[queue[k][j]] = "none"
                /\ submit[queue[k][j]] \in {"sent", "accepted"}
          BY <1>1, <5>1, ElementOfSeq DEF TasksInOnePlace
        <5>3. CASE i = Len(queue[k]) + 1
          <6>1. queue'[m][i] = t
            BY <2>1, <2>2, <4>2, <5>3
          <6>2. \A j \in 1 .. Len(queue[k]) : queue'[m][j] # t
            BY <2>1, <2>2, <4>2, <5>2
          <6>3. \A j \in DOMAIN queue'[m] : queue'[m][i] = queue'[m][j] => i = j
            <7>1. \A j \in DOMAIN queue'[m] : j \in 1 .. Len(queue[k]) \/ j = i
              BY <4>2, <5>1, <5>3
            <7> QED BY <6>1, <6>2, <7>1
          <6> QED BY <1>7, <2>3, <4>2, <6>1, <6>3
        <5>4. CASE i \in 1 .. Len(queue[k])
          <6>1. queue'[k][i] = queue[k][i]
            BY <2>1, <2>2, <5>4
          <6>2. \A j \in DOMAIN queue'[k] : queue[k][i] = queue'[k][j] => i = j
            BY <1>1, <2>1, <2>2, <5>1, <5>2, <5>4 DEF TasksInOnePlace
          <6> QED BY <2>3, <4>2, <5>2, <5>4, <6>1, <6>2
        <5> QED BY <3>1, <4>2, <5>1, <5>3, <5>4
      <4> QED BY <4>1, <4>2
    <3>2. \A u \in Tasks : fate[u] # "none" => submit'[u] \in {"sent", "accepted"}
      BY <2>3 DEF TasksInOnePlace
    <3> QED BY <1>2, <1>8, <3>1, <3>2 DEF TasksInOnePlace, Holders
  <2>6. StepsFitKinds'
    BY <1>2, <2>3 DEF StepsFitKinds
  <2>7. DepthTracksQueue'
    <3>1. CASE l = "sent"
      <4>1. Sent' = Sent \cup {t} /\ t \notin Sent
        BY <2>3, <3>1 DEF Sent
      <4>2. Cardinality(Sent') = Cardinality(Sent) + 1
        BY <1>9, <4>1, OneMore
      <4>3. Len(queue'["Subagent"]) = Len(queue["Subagent"]) + 1
        BY <2>1, <2>2, <3>1
      <4>4. Len(queue'["Subagent"]) + Cardinality(In("count")) - Cardinality(Sent')
              = Len(queue["Subagent"]) + Cardinality(In("count")) - Cardinality(Sent)
        BY <1>9, <1>10, <4>2, <4>3
      <4> QED BY <1>2, <1>5, <4>4 DEF CountersAccountForWork, DepthTracksQueue, Sent
    <3>2. CASE l # "sent"
      <4>1. Sent' = Sent
        BY <2>3, <3>2 DEF Sent
      <4>2. queue'["Subagent"] = queue["Subagent"]
        BY <2>1, <3>2 DEF Kinds
      <4> QED BY <1>2, <1>5, <4>1, <4>2 DEF CountersAccountForWork, DepthTracksQueue, Sent
    <3> QED BY <3>1, <3>2
  <2> QED BY <1>3, <1>4, <1>6, <2>4, <2>5, <2>6, <2>7 DEF CountersAccountForWork
<1>12. CASE submit' = [submit EXCEPT ![t] = "rejected"] /\ queue' = queue
  <2>1. submit'[t] = "rejected" /\ \A u \in Tasks \ {t} : submit'[u] = submit[u]
    BY <1>12 DEF TypeOK
  <2>2. TypeOK'
    BY <1>2, <1>12 DEF TypeOK
  <2>3. TasksInOnePlace'
    <3>1. \A m \in Kinds : \A i \in DOMAIN queue[m] : queue[m][i] \in Tasks \ {t}
      <4> TAKE m \in Kinds
      <4> TAKE i \in DOMAIN queue[m]
      <4>1. queue[m] \in Seq(Tasks)
        BY DEF TypeOK
      <4>2. queue[m][i] \in Tasks
        BY <4>1, ElementOfSeq, LenProperties
      <4>3. submit[queue[m][i]] \in {"sent", "accepted"}
        BY DEF TasksInOnePlace
      <4> QED BY <4>2, <4>3
    <3> QED BY <1>2, <1>7, <1>8, <1>12, <2>1, <3>1 DEF TasksInOnePlace, Holders
  <2>4. StepsFitKinds'
    BY <1>2, <2>1 DEF StepsFitKinds
  <2>5. Sent' = Sent
    BY <2>1 DEF Sent
  <2>6. DepthTracksQueue'
    BY <1>2, <1>5, <1>12, <2>5 DEF CountersAccountForWork, DepthTracksQueue, Sent
  <2> QED BY <1>3, <1>4, <1>6, <2>2, <2>3, <2>4, <2>6 DEF CountersAccountForWork
<1> QED BY <1>11, <1>12 DEF SubmitsTo

\* The depth counter follows the count of what it stands for, modulo W.
LEMMA DepthFollows ==
  ASSUME TypeOK, DepthTracksQueue
  PROVE  /\ Cardinality(In("count")) \in Nat /\ Cardinality(Sent) \in Nat
         /\ Len(queue["Subagent"]) \in Nat
         /\ LET x == Len(queue["Subagent"]) + Cardinality(In("count")) - Cardinality(Sent)
            IN  /\ depth = x % W
                /\ (depth + 1) % W = (x + 1) % W /\ (depth - 1) % W = (x - 1) % W
                /\ (x + 1) % W \in 0 .. W - 1 /\ (x - 1) % W \in 0 .. W - 1
<1> DEFINE x == Len(queue["Subagent"]) + Cardinality(In("count")) - Cardinality(Sent)
<1>1. Cardinality(In("count")) \in Nat /\ Cardinality(Sent) \in Nat
  BY Countable DEF In, Sent
<1>2. Len(queue["Subagent"]) \in Nat
  BY LenProperties DEF TypeOK, Kinds
<1>3. x \in Int /\ W \in Nat \ {0}
  BY <1>1, <1>2, QueueAssumption
<1>4. depth = x % W
  BY DEF DepthTracksQueue, Sent
<1> HIDE DEF x
<1>5. (depth + 1) % W = (x + 1) % W /\ (depth - 1) % W = (x - 1) % W
  BY <1>3, <1>4, ModUp, ModDown
<1>6. (x + 1) % W \in 0 .. W - 1 /\ (x - 1) % W \in 0 .. W - 1
  <2>1. x + 1 \in Int /\ x - 1 \in Int
    BY <1>3
  <2>2. /\ (x + 1) % W \in Int /\ 0 <= (x + 1) % W /\ (x + 1) % W < W
        /\ (x - 1) % W \in Int /\ 0 <= (x - 1) % W /\ (x - 1) % W < W
    BY <1>3, <2>1, ModRange
  <2> QED BY <1>3, <2>2
<1> QED BY <1>1, <1>2, <1>4, <1>5, <1>6 DEF x

LEMMA CountSubagentKeeps ==
  ASSUME QueueIInv, NEW t \in Tasks, CountSubagent(t)
  PROVE  QueueIInv'
<1> USE DEF QueueIInv
<1>1. /\ submit[t] = "sent" /\ depth' = (depth + 1) % W
      /\ submit' = [submit EXCEPT ![t] = "accepted"]
      /\ UNCHANGED <<queue, permits, active, fate, panics, workers, infos, raced, shutdown,
                     woken, missed, kind, pc, task, sup, scan, scaler, fresh>>
  BY DEF CountSubagent, pools, signal
<1>2. submit'[t] = "accepted" /\ \A u \in Tasks \ {t} : submit'[u] = submit[u]
  BY <1>1 DEF TypeOK
<1>3. Paired' /\ RestartsPaid'
  BY <1>1, PoolStays
<1>4. SignalStands'
  BY <1>1 DEF SignalStands
<1>5. In("count")' = In("count") /\ In("process")' = In("process")
  BY <1>1 DEF In
<1>6. PermitsConserved' /\ NestingAccounted'
  BY <1>1, <1>5 DEF CountersAccountForWork, PermitsConserved, NestingAccounted
<1>7. depth' \in 0 .. W - 1 /\ DepthTracksQueue'
  <2>1. Sent \in SUBSET Tasks /\ t \in Sent /\ Sent' = Sent \ {t}
    BY <1>1, <1>2 DEF Sent
  <2>2. Cardinality(Sent') = Cardinality(Sent) - 1
    BY <2>1, Countable, OneLess
  <2>3. /\ depth' = (Len(queue["Subagent"]) + Cardinality(In("count")) - Cardinality(Sent) + 1) % W
        /\ depth' \in 0 .. W - 1
    BY <1>1, DepthFollows DEF CountersAccountForWork
  <2>4. Len(queue["Subagent"]) + Cardinality(In("count")) - Cardinality(Sent) + 1
          = Len(queue["Subagent"]) + Cardinality(In("count")) - Cardinality(Sent')
    BY <2>2, DepthFollows DEF CountersAccountForWork
  <2>5. depth' = (Len(queue["Subagent"]) + Cardinality(In("count")) - Cardinality(Sent')) % W
    BY <2>3, <2>4
  <2> QED BY <1>1, <1>5, <2>3, <2>5 DEF DepthTracksQueue, Sent
<1>8. TypeOK'
  BY <1>1, <1>7 DEF TypeOK
<1>9. TasksInOnePlace'
  <2>1. \A m \in Kinds : \A i \in DOMAIN queue[m] : queue[m][i] \in Tasks
    BY ElementOfSeq, LenProperties DEF TypeOK
  <2> QED BY <1>1, <1>2, <2>1 DEF TasksInOnePlace, Holders
<1>10. StepsFitKinds'
  BY <1>1, <1>2 DEF StepsFitKinds
<1> QED BY <1>3, <1>4, <1>6, <1>7, <1>8, <1>9, <1>10 DEF CountersAccountForWork

LEMMA CheckNestingKeeps ==
  ASSUME QueueIInv, NEW t \in Tasks, CheckNesting(t)
  PROVE  QueueIInv'
<1> USE DEF QueueIInv
<1>1. /\ submit[t] = "new" /\ KindOf[t] = "Nested"
      /\ UNCHANGED <<queue, depth, permits, active, fate, panics, workers, infos, raced,
                     shutdown, woken, missed, kind, pc, task, sup, scan, scaler, fresh>>
  BY DEF CheckNesting, pools, signal
<1>2. PICK l \in {"rejected", "checked"} : submit' = [submit EXCEPT ![t] = l]
  BY DEF CheckNesting
<1>3. submit'[t] = l /\ \A u \in Tasks \ {t} : submit'[u] = submit[u]
  BY <1>2 DEF TypeOK
<1>4. Paired' /\ RestartsPaid'
  BY <1>1, PoolStays
<1>5. SignalStands'
  BY <1>1 DEF SignalStands
<1>6. In("count")' = In("count") /\ In("process")' = In("process") /\ Sent' = Sent
  BY <1>1, <1>3 DEF In, Sent
<1>7. CountersAccountForWork'
  BY <1>1, <1>6
     DEF CountersAccountForWork, DepthTracksQueue, PermitsConserved, NestingAccounted, Sent
<1>8. TypeOK'
  BY <1>1, <1>2 DEF TypeOK
<1>9. TasksInOnePlace'
  <2>1. fate[t] = "none"
    BY <1>1 DEF TasksInOnePlace
  <2>2. ASSUME NEW m \in Kinds, NEW i \in DOMAIN queue[m]
        PROVE  queue[m][i] \in Tasks \ {t}
    <3>1. queue[m] \in Seq(Tasks)
      BY DEF TypeOK
    <3>2. queue[m][i] \in Tasks
      BY <3>1, ElementOfSeq, LenProperties
    <3>3. submit[queue[m][i]] \in {"sent", "accepted"}
      BY DEF TasksInOnePlace
    <3> QED BY <1>1, <3>2, <3>3
  <2> QED BY <1>1, <1>3, <2>1, <2>2 DEF TasksInOnePlace, Holders
<1>10. StepsFitKinds'
  BY <1>1, <1>3 DEF StepsFitKinds
<1> QED BY <1>4, <1>5, <1>7, <1>8, <1>9, <1>10

LEMMA SubmitterKeeps ==
  ASSUME QueueIInv, NEW t \in Tasks, SubmitterStep(t)
  PROVE  QueueIInv'
<1>1. CASE Submit(t)
  BY <1>1, SubmissionKeeps DEF Submit
<1>2. CASE SubmitNested(t)
  <2>1. KindOf[t] = "Nested"
    BY <1>2 DEF SubmitNested, QueueIInv, StepsFitKinds
  <2> QED BY <1>2, <2>1, SubmissionKeeps DEF SubmitNested
<1> QED BY <1>1, <1>2, CountSubagentKeeps, CheckNestingKeeps DEF SubmitterStep

(***************************************************************************)
(* Workers                                                                 *)
(***************************************************************************)
\* Somebody who is not listening: then the signal has not been given or has
\* been missed.
LEMMA DeafStep ==
  ASSUME SignalStands, Deaf # {}, UNCHANGED signal
  PROVE  SignalStands'
<1>1. shutdown # "no" => missed
  BY DEF SignalStands, Deaf
<1> QED BY <1>1 DEF SignalStands, signal

\* A worker that goes elsewhere changes the counts by one.
LEMMA MovingCounts ==
  ASSUME TypeOK, NEW w \in Slots, NEW b, pc' = [pc EXCEPT ![w] = b], pc[w] # b, kind' = kind
  PROVE  /\ \A l : Cardinality(In(l)) \in Nat
         /\ b = "count" => Cardinality(In("count")') = Cardinality(In("count")) + 1
         /\ pc[w] = "count" => Cardinality(In("count")') = Cardinality(In("count")) - 1
         /\ b # "count" /\ pc[w] # "count" => In("count")' = In("count")
         /\ \A k : /\ Cardinality(Processing(k)) \in Nat
                   /\ Cardinality(Processing(k)') \in Nat
                   /\ b = "process" /\ kind[w] = k =>
                        Cardinality(Processing(k)') = Cardinality(Processing(k)) + 1
                   /\ pc[w] = "process" /\ kind[w] = k =>
                        Cardinality(Processing(k)') = Cardinality(Processing(k)) - 1
                   /\ kind[w] # k \/ (b # "process" /\ pc[w] # "process") =>
                        Processing(k)' = Processing(k)
<1>1. pc'[w] = b /\ \A v \in Slots \ {w} : pc'[v] = pc[v]
  BY DEF TypeOK
<1>2. ASSUME NEW l
      PROVE  /\ In(l) \in SUBSET Slots
             /\ l = b => w \notin In(l) /\ In(l)' = In(l) \cup {w}
             /\ l = pc[w] => w \in In(l) /\ In(l)' = In(l) \ {w}
             /\ l # b /\ l # pc[w] => In(l)' = In(l)
  BY <1>1 DEF In
<1>3. ASSUME NEW k
      PROVE  /\ Processing(k) \in SUBSET Slots /\ Processing(k)' \in SUBSET Slots
             /\ b = "process" /\ kind[w] = k =>
                  w \notin Processing(k) /\ Processing(k)' = Processing(k) \cup {w}
             /\ pc[w] = "process" /\ kind[w] = k =>
                  w \in Processing(k) /\ Processing(k)' = Processing(k) \ {w}
             /\ kind[w] # k \/ (b # "process" /\ pc[w] # "process") =>
                  Processing(k)' = Processing(k)
  BY <1>1 DEF Processing, In
<1>4. \A S, T : IsFiniteSet(S) /\ w \notin S /\ T = S \cup {w} =>
                  Cardinality(T) = Cardinality(S) + 1
  BY OneMore
<1>5. \A S, T : IsFiniteSet(S) /\ w \in S /\ T = S \ {w} =>
                  Cardinality(T) = Cardinality(S) - 1
  BY OneLess
<1>6. /\ \A l : IsFiniteSet(In(l)) /\ Cardinality(In(l)) \in Nat
      /\ \A k : /\ IsFiniteSet(Processing(k)) /\ Cardinality(Processing(k)) \in Nat
                /\ Cardinality(Processing(k)') \in Nat
  BY <1>2, <1>3, Countable
<1>7. /\ b = "count" => Cardinality(In("count")') = Cardinality(In("count")) + 1
      /\ pc[w] = "count" => Cardinality(In("count")') = Cardinality(In("count")) - 1
      /\ b # "count" /\ pc[w] # "count" => In("count")' = In("count")
  BY <1>2, <1>4, <1>5, <1>6
<1>8. ASSUME NEW k
      PROVE  /\ b = "process" /\ kind[w] = k =>
                  Cardinality(Processing(k)') = Cardinality(Processing(k)) + 1
             /\ pc[w] = "process" /\ kind[w] = k =>
                  Cardinality(Processing(k)') = Cardinality(Processing(k)) - 1
             /\ kind[w] # k \/ (b # "process" /\ pc[w] # "process") =>
                  Processing(k)' = Processing(k)
  BY <1>3, <1>4, <1>5, <1>6
<1> QED BY <1>6, <1>7, <1>8

\* Nobody takes a task up; who keeps one finds it as it was.
LEMMA TasksStay ==
  ASSUME TypeOK, TasksInOnePlace, UNCHANGED <<queue, submit, kind>>,
         \A v \in Slots : pc'[v] \in Busy => pc[v] \in Busy /\ task'[v] = task[v],
         \A v \in Holders' : fate'[task[v]] = fate[task[v]],
         \A t \in Tasks : fate'[t] = "none" <=> fate[t] = "none"
  PROVE  TasksInOnePlace'
<1>1. ASSUME NEW k \in Kinds, NEW i \in DOMAIN queue[k]
      PROVE  /\ KindOf[queue[k][i]] = k /\ fate'[queue[k][i]] = "none"
             /\ submit[queue[k][i]] \in {"sent", "accepted"}
             /\ \A j \in DOMAIN queue[k] : queue[k][i] = queue[k][j] => i = j
  <2>1. queue[k] \in Seq(Tasks)
    BY DEF TypeOK
  <2>2. queue[k][i] \in Tasks
    BY <2>1, ElementOfSeq, LenProperties
  <2> QED BY <2>2 DEF TasksInOnePlace
<1>2. ASSUME NEW w \in Holders'
      PROVE  /\ task'[w] \in Tasks /\ KindOf[task'[w]] = kind'[w] /\ fate'[task'[w]] = "taken"
             /\ \A v \in Holders' : task'[v] = task'[w] => v = w
  BY DEF TasksInOnePlace, Holders
<1>3. \A t \in Tasks : fate'[t] # "none" => submit[t] \in {"sent", "accepted"}
  BY DEF TasksInOnePlace
<1> QED BY <1>1, <1>2, <1>3 DEF TasksInOnePlace

LEMMA StartKeeps ==
  ASSUME QueueIInv, NEW w \in Slots, Start(w)
  PROVE  QueueIInv'
<1> USE DEF QueueIInv
<1>1. /\ pc[w] = "spawned" /\ pc' = [pc EXCEPT ![w] = "select"]
      /\ UNCHANGED <<queue, depth, permits, active, submit, fate, panics, workers, infos,
                     raced, shutdown, woken, missed, kind, task, sup, scan, scaler, fresh>>
  BY DEF Start, WMoves, WUnchanged, signal, pools
<1>2. pc'[w] = "select" /\ \A v \in Slots \ {w} : pc'[v] = pc[v]
  BY <1>1 DEF TypeOK
<1>3. TypeOK'
  BY <1>1 DEF TypeOK
<1>4. TasksInOnePlace' /\ StepsFitKinds' /\ CountersAccountForWork'
  BY <1>1, <1>2, WorkStays DEF Busy
<1>5. Paired' /\ RestartsPaid'
  BY <1>1, <1>2, PoolStays
<1>6. SignalStands'
  BY <1>1, DeafStep DEF Deaf, signal
<1> QED BY <1>3, <1>4, <1>5, <1>6

\* A worker that listens takes the head of its queue.
LEMMA ReceiveKeeps ==
  ASSUME QueueIInv, NEW w \in Slots, Receive(w)
  PROVE  QueueIInv'
<1> USE DEF QueueIInv
<1> DEFINE k == kind[w]
           t == Head(queue[k])
           b == FirstStep(k)
<1>1. /\ pc[w] = "select" /\ queue[k] # <<>>
      /\ queue' = [queue EXCEPT ![k] = Tail(@)] /\ task' = [task EXCEPT ![w] = t]
      /\ fate' = [fate EXCEPT ![t] = "taken"] /\ pc' = [pc EXCEPT ![w] = b]
      /\ Overlooks(w)
      /\ UNCHANGED <<depth, permits, active, submit, panics, workers, infos,
                     raced, shutdown, kind, sup, scan, scaler, fresh>>
  BY DEF Receive, WMoves, WUnchanged, pools, Overlooks
<1>2. k \in Kinds /\ queue[k] \in Seq(Tasks)
  BY DEF TypeOK
<1>3. /\ t \in Tasks /\ t = queue[k][1]
      /\ Tail(queue[k]) \in Seq(Tasks) /\ Len(Tail(queue[k])) = Len(queue[k]) - 1
      /\ \A i \in 1 .. Len(Tail(queue[k])) : Tail(queue[k])[i] = queue[k][i + 1]
      /\ Len(queue[k]) \in Nat /\ Len(queue[k]) >= 1 /\ DOMAIN queue[k] = 1 .. Len(queue[k])
      /\ DOMAIN Tail(queue[k]) = 1 .. Len(queue[k]) - 1
  BY <1>1, <1>2, HeadTailProperties, LenProperties, EmptySeq
<1>4. queue'[k] = Tail(queue[k]) /\ \A m \in Kinds \ {k} : queue'[m] = queue[m]
  BY <1>1, <1>2 DEF TypeOK
<1>5. KindOf[t] = k /\ fate[t] = "none" /\ submit[t] \in {"sent", "accepted"}
  BY <1>2, <1>3 DEF TasksInOnePlace
<1>6. fate'[t] = "taken" /\ \A u \in Tasks \ {t} : fate'[u] = fate[u]
  BY <1>1, <1>3 DEF TypeOK
<1>7. task'[w] = t /\ \A v \in Slots \ {w} : task'[v] = task[v]
  BY <1>1 DEF TypeOK
<1>8. pc'[w] = b /\ \A v \in Slots \ {w} : pc'[v] = pc[v]
  BY <1>1 DEF TypeOK
<1>9. /\ b \in Busy \ {"acquire"} /\ pc[w] # b
      /\ b = "count" <=> k = "Subagent"
      /\ b = "enter" <=> k = "Nested"
      /\ b = "process" <=> k \notin {"Subagent", "Nested"}
  BY <1>1, <1>2 DEF FirstStep, Busy
<1> HIDE DEF k, t, b
<1>10. TypeOK'
  <2>1. queue' \in [Kinds -> Seq(Tasks)]
    BY <1>1, <1>2, <1>3 DEF TypeOK
  <2>2. /\ pc' \in [Slots -> {"free", "spawned", "select", "count", "acquire", "enter",
                              "process", "finished"}]
        /\ task' \in [Slots -> Tasks \cup {NoTask}]
        /\ fate' \in [Tasks -> {"none", "taken", "panicked"}]
    BY <1>1, <1>3, <1>9 DEF TypeOK, Busy
  <2>3. woken' \in SUBSET (Slots \cup {Scaler, Supervisor}) /\ missed' \in BOOLEAN
    BY <1>1 DEF TypeOK, Overlooks
  <2> QED BY <1>1, <2>1, <2>2, <2>3 DEF TypeOK
<1>11. \A v \in Slots : v \in Holders' <=> v \in Holders \/ v = w
  BY <1>8, <1>9 DEF Holders
<1>12. w \notin Holders /\ \A v \in Holders : task[v] \in Tasks \ {t}
  BY <1>1, <1>5 DEF Holders, Busy, TasksInOnePlace
<1>13. TasksInOnePlace'
  <2>1. ASSUME NEW m \in Kinds, NEW i \in DOMAIN queue'[m]
        PROVE  /\ KindOf[queue'[m][i]] = m /\ fate'[queue'[m][i]] = "none"
               /\ submit[queue'[m][i]] \in {"sent", "accepted"}
               /\ \A j \in DOMAIN queue'[m] : queue'[m][i] = queue'[m][j] => i = j
    <3>1. CASE m # k
      <4>1. queue'[m] = queue[m] /\ queue[m] \in Seq(Tasks)
        BY <1>4, <3>1 DEF TypeOK
      <4>2. queue[m][i] \in Tasks
        BY <2>1, <4>1, ElementOfSeq, LenProperties
      <4>3. /\ KindOf[queue[m][i]] = m /\ fate[queue[m][i]] = "none"
            /\ submit[queue[m][i]] \in {"sent", "accepted"}
            /\ \A j \in DOMAIN queue[m] : queue[m][i] = queue[m][j] => i = j
        BY <2>1, <4>1 DEF TasksInOnePlace
      <4> QED BY <1>5, <1>6, <3>1, <4>1, <4>2, <4>3
    <3>2. CASE m = k
      <4>1. \A j \in DOMAIN queue'[k] : queue'[k][j] = queue[k][j + 1] /\ j + 1 \in DOMAIN queue[k]
        BY <1>3, <1>4
      <4>2. \A j \in DOMAIN queue[k] :
              /\ queue[k][j] \in Tasks /\ KindOf[queue[k][j]] = k
              /\ fate[queue[k][j]] = "none" /\ submit[queue[k][j]] \in {"sent", "accepted"}
        BY <1>2, <1>3, ElementOfSeq DEF TasksInOnePlace
      <4>3. \A j, l \in DOMAIN queue[k] : queue[k][j] = queue[k][l] => j = l
        BY <1>2 DEF TasksInOnePlace
      <4>4. \A j \in DOMAIN queue'[k] : queue'[k][j] # t
        BY <1>3, <1>4, <4>1, <4>3
      <4>5. \A j, l \in DOMAIN queue'[k] : queue'[k][j] = queue'[k][l] => j = l
        BY <1>3, <1>4, <4>1, <4>3
      <4>6. /\ KindOf[queue'[k][i]] = k /\ fate'[queue'[k][i]] = "none"
            /\ submit[queue'[k][i]] \in {"sent", "accepted"}
        BY <1>6, <2>1, <3>2, <4>1, <4>2, <4>4
      <4> QED BY <2>1, <3>2, <4>5, <4>6
    <3> QED BY <3>1, <3>2
  <2>2. ASSUME NEW v \in Holders'
        PROVE  /\ task'[v] \in Tasks /\ KindOf[task'[v]] = kind[v] /\ fate'[task'[v]] = "taken"
               /\ \A x \in Holders' : task'[x] = task'[v] => x = v
    <3>1. \A x \in Holders' : x \in Slots /\ (x = w \/ x \in Holders)
      BY <1>11 DEF Holders
    <3>2. \A x \in Holders : /\ x # w /\ x \in Slots /\ task'[x] = task[x] /\ task[x] # t
                             /\ task[x] \in Tasks
      BY <1>7, <1>12 DEF Holders
    <3>3. CASE v = w
      BY <1>3, <1>5, <1>6, <1>7, <3>1, <3>2, <3>3 DEF k
    <3>4. CASE v \in Holders
      <4>1. /\ KindOf[task[v]] = kind[v] /\ fate[task[v]] = "taken"
            /\ \A x \in Holders : task[x] = task[v] => x = v
        BY <3>4 DEF TasksInOnePlace
      <4> QED BY <1>6, <1>7, <3>1, <3>2, <3>4, <4>1
    <3> QED BY <2>2, <3>1, <3>3, <3>4
  <2>3. \A u \in Tasks : fate'[u] # "none" => submit[u] \in {"sent", "accepted"}
    BY <1>5, <1>6 DEF TasksInOnePlace
  <2> QED BY <1>1, <2>1, <2>2, <2>3 DEF TasksInOnePlace
<1>14. StepsFitKinds'
  BY <1>1, <1>8, <1>9 DEF StepsFitKinds, k
<1>15. CountersAccountForWork'
  <2>1. /\ Processing("Subagent")' = Processing("Subagent")
        /\ Processing("Nested")' = Processing("Nested")
    <3>1. kind[w] = k
      BY DEF k
    <3>2. b # "process" \/ k \notin {"Subagent", "Nested"}
      BY <1>9
    <3>3. \A m : kind[w] # m \/ (b # "process" /\ pc[w] # "process") =>
                   Processing(m)' = Processing(m)
      BY <1>1, <1>9, MovingCounts
    <3> QED BY <1>1, <3>1, <3>2, <3>3
  <2>2. Leaked' = Leaked
    BY <1>5, <1>6 DEF Leaked
  <2>3. PermitsConserved' /\ NestingAccounted'
    BY <1>1, <2>1, <2>2
       DEF CountersAccountForWork, PermitsConserved, NestingAccounted, Processing, Leaked
  <2>4. DepthTracksQueue'
    <3>1. CASE k = "Subagent"
      <4>1. Cardinality(In("count")') = Cardinality(In("count")) + 1
        BY <1>1, <1>9, <3>1, MovingCounts
      <4>2. Len(queue'["Subagent"]) = Len(queue["Subagent"]) - 1
        BY <1>3, <1>4, <3>1
      <4>3. Cardinality(In("count")) \in Nat /\ Cardinality(Sent) \in Nat
            /\ Len(queue["Subagent"]) \in Nat
        BY DepthFollows DEF CountersAccountForWork
      <4>4. Len(queue'["Subagent"]) + Cardinality(In("count")') - Cardinality(Sent)
              = Len(queue["Subagent"]) + Cardinality(In("count")) - Cardinality(Sent)
        BY <4>1, <4>2, <4>3
      <4>5. Sent' = Sent
        BY <1>1 DEF Sent
      <4> QED BY <1>1, <4>4, <4>5 DEF CountersAccountForWork, DepthTracksQueue, Sent
    <3>2. CASE k # "Subagent"
      <4>1. In("count")' = In("count")
        BY <1>1, <1>9, <3>2, MovingCounts
      <4>2. queue'["Subagent"] = queue["Subagent"]
        BY <1>4, <3>2 DEF Kinds
      <4> QED BY <1>1, <4>1, <4>2 DEF CountersAccountForWork, DepthTracksQueue
    <3> QED BY <3>1, <3>2
  <2> QED BY <2>3, <2>4 DEF CountersAccountForWork
<1>16. Paired' /\ RestartsPaid'
  <2>1. \A u \in Tasks : fate'[u] = "panicked" <=> fate[u] = "panicked"
    BY <1>5, <1>6
  <2>2. \A v \in Slots : /\ pc'[v] = "free" <=> pc[v] = "free"
                         /\ pc'[v] = "finished" => pc[v] = "finished"
    BY <1>1, <1>8, <1>9 DEF Busy
  <2> QED BY <1>1, <2>1, <2>2, PoolStays
<1>17. SignalStands'
  <2>1. /\ shutdown = "no" => woken' = {}
        /\ ~missed' => ~missed /\ w \notin woken /\ woken' = woken
    BY <1>1, OverlookedIsMissed
  <2>2. shutdown # "no" => missed'
    BY <1>1, <2>1 DEF SignalStands
  <2> QED BY <1>1, <2>1, <2>2 DEF SignalStands
<1> QED BY <1>10, <1>13, <1>14, <1>15, <1>16, <1>17

LEMMA UncountKeeps ==
  ASSUME QueueIInv, NEW w \in Slots, Uncount(w)
  PROVE  QueueIInv'
<1> USE DEF QueueIInv
<1>1. /\ pc[w] = "count" /\ pc' = [pc EXCEPT ![w] = "acquire"] /\ depth' = (depth - 1) % W
      /\ UNCHANGED <<queue, permits, active, submit, fate, panics, workers, infos,
                     raced, shutdown, woken, missed, kind, task, sup, scan, scaler, fresh>>
  BY DEF Uncount, WMoves, WUnchanged, signal, pools
<1>2. pc'[w] = "acquire" /\ \A v \in Slots \ {w} : pc'[v] = pc[v]
  BY <1>1 DEF TypeOK
<1>3. \A m : Processing(m)' = Processing(m)
  <2>1. "count" # "acquire" /\ "acquire" # "process" /\ "count" # "process" /\ kind' = kind
    BY <1>1
  <2> QED BY <1>1, <2>1, MovingCounts, Zenon
<1>4. depth' \in 0 .. W - 1 /\ DepthTracksQueue'
  <2>1. Cardinality(In("count")') = Cardinality(In("count")) - 1
    BY <1>1, MovingCounts
  <2>2. /\ depth' = (Len(queue["Subagent"]) + Cardinality(In("count")) - Cardinality(Sent) - 1) % W
        /\ depth' \in 0 .. W - 1
    BY <1>1, DepthFollows DEF CountersAccountForWork
  <2>3. Len(queue["Subagent"]) + Cardinality(In("count")) - Cardinality(Sent) - 1
          = Len(queue["Subagent"]) + Cardinality(In("count")') - Cardinality(Sent)
    BY <2>1, DepthFollows DEF CountersAccountForWork
  <2>4. depth' = (Len(queue["Subagent"]) + Cardinality(In("count")') - Cardinality(Sent)) % W
    BY <2>2, <2>3
  <2>5. Sent' = Sent
    BY <1>1 DEF Sent
  <2> QED BY <1>1, <2>2, <2>4, <2>5 DEF DepthTracksQueue, Sent
<1>5. PermitsConserved' /\ NestingAccounted'
  BY <1>1, <1>3 DEF CountersAccountForWork, PermitsConserved, NestingAccounted, Processing
<1>6. TypeOK'
  BY <1>1, <1>4 DEF TypeOK
<1>7. TasksInOnePlace'
  BY <1>1, <1>2, TasksStay DEF Busy
<1>8. StepsFitKinds'
  BY <1>1, <1>2 DEF StepsFitKinds
<1>9. Paired' /\ RestartsPaid'
  BY <1>1, <1>2, PoolStays
<1>10. SignalStands'
  BY <1>1, DeafStep DEF Deaf, signal
<1> QED BY <1>4, <1>5, <1>6, <1>7, <1>8, <1>9, <1>10 DEF CountersAccountForWork

LEMMA AcquireKeeps ==
  ASSUME QueueIInv, NEW w \in Slots, Acquire(w)
  PROVE  QueueIInv'
<1> USE DEF QueueIInv
<1>1. /\ pc[w] = "acquire" /\ pc' = [pc EXCEPT ![w] = "process"]
      /\ permits > 0 /\ permits' = permits - 1
      /\ UNCHANGED <<queue, depth, active, submit, fate, panics, workers, infos,
                     raced, shutdown, woken, missed, kind, task, sup, scan, scaler, fresh>>
  BY DEF Acquire, WMoves, WUnchanged, signal, pools
<1>2. pc'[w] = "process" /\ \A v \in Slots \ {w} : pc'[v] = pc[v]
  BY <1>1 DEF TypeOK
<1>3. kind[w] = "Subagent"
  BY <1>1 DEF StepsFitKinds
<1>4. In("count")' = In("count") /\ Processing("Nested")' = Processing("Nested")
  <2>1. /\ "count" # "acquire" /\ "process" # "acquire" /\ "process" # "count"
        /\ kind[w] # "Nested" /\ kind' = kind
    BY <1>1, <1>3
  <2> QED BY <1>1, <2>1, MovingCounts, Zenon
<1>5. DepthTracksQueue' /\ NestingAccounted'
  BY <1>1, <1>4 DEF CountersAccountForWork, DepthTracksQueue, NestingAccounted, Processing
<1>6. PermitsConserved'
  <2>1. /\ Cardinality(Processing("Subagent")') = Cardinality(Processing("Subagent")) + 1
        /\ Cardinality(Processing("Subagent")) \in Nat
    BY <1>1, <1>3, MovingCounts
  <2>2. permits + Cardinality(Processing("Subagent")) = MaxConcurrent /\ permits \in Int
    BY QueueAssumption DEF CountersAccountForWork, PermitsConserved, Processing, TypeOK
  <2>3. permits' + Cardinality(Processing("Subagent")') = MaxConcurrent
    BY <1>1, <2>1, <2>2
  <2> QED BY <2>3 DEF PermitsConserved, Processing
<1>7. TypeOK'
  <2>1. permits \in 0 .. MaxConcurrent /\ MaxConcurrent \in Nat
    BY QueueAssumption DEF TypeOK
  <2>2. permits' \in 0 .. MaxConcurrent
    BY <1>1, <2>1
  <2> QED BY <1>1, <2>2 DEF TypeOK
<1>8. TasksInOnePlace'
  BY <1>1, <1>2, TasksStay DEF Busy
<1>9. StepsFitKinds'
  BY <1>1, <1>2 DEF StepsFitKinds
<1>10. Paired' /\ RestartsPaid'
  BY <1>1, <1>2, PoolStays
<1>11. SignalStands'
  BY <1>1, DeafStep DEF Deaf, signal
<1> QED BY <1>5, <1>6, <1>7, <1>8, <1>9, <1>10, <1>11 DEF CountersAccountForWork

\* Putting down a task: it is nobody's any more.
LEMMA EnterNestedKeeps ==
  ASSUME QueueIInv, NEW w \in Slots, EnterNested(w)
  PROVE  QueueIInv'
<1> USE DEF QueueIInv
<1>1. /\ pc[w] = "enter"
      /\ UNCHANGED <<queue, depth, permits, submit, fate, panics, workers, infos,
                     raced, shutdown, woken, missed, kind, sup, scan, scaler, fresh>>
  BY DEF EnterNested, WUnchanged, signal, pools
<1>2. kind[w] = "Nested"
  BY <1>1 DEF StepsFitKinds
<1>3. SignalStands'
  BY <1>1, DeafStep DEF Deaf, signal
<1>4. CASE /\ active >= NestingLimit /\ task' = [task EXCEPT ![w] = NoTask]
           /\ pc' = [pc EXCEPT ![w] = "select"] /\ active' = active
  <2>1. /\ pc'[w] = "select" /\ \A v \in Slots \ {w} : pc'[v] = pc[v]
        /\ \A v \in Slots \ {w} : task'[v] = task[v]
    BY <1>4 DEF TypeOK
  <2>2. In("count")' = In("count") /\ \A m : Processing(m)' = Processing(m)
    <3>1. /\ "enter" # "count" /\ "enter" # "process" /\ "enter" # "select"
          /\ "select" # "count" /\ "select" # "process" /\ kind' = kind
      BY <1>1
    <3> QED BY <1>1, <1>4, <3>1, MovingCounts, Zenon
  <2>3. CountersAccountForWork'
    BY <1>1, <1>4, <2>2
       DEF CountersAccountForWork, DepthTracksQueue, PermitsConserved, NestingAccounted, Processing
  <2>4. TypeOK'
    BY <1>1, <1>4 DEF TypeOK
  <2>5. TasksInOnePlace'
    BY <1>1, <2>1, TasksStay DEF Busy
  <2>6. StepsFitKinds'
    BY <1>1, <2>1 DEF StepsFitKinds
  <2>7. Paired' /\ RestartsPaid'
    BY <1>1, <2>1, PoolStays
  <2> QED BY <1>3, <2>3, <2>4, <2>5, <2>6, <2>7
<1>5. CASE /\ ~(active >= NestingLimit) /\ active' = active + 1
           /\ pc' = [pc EXCEPT ![w] = "process"] /\ task' = task
  <2>1. pc'[w] = "process" /\ \A v \in Slots \ {w} : pc'[v] = pc[v]
    BY <1>5 DEF TypeOK
  <2>2. In("count")' = In("count") /\ Processing("Subagent")' = Processing("Subagent")
    <3>1. /\ "enter" # "count" /\ "enter" # "process" /\ "process" # "count"
          /\ kind[w] # "Subagent" /\ kind' = kind
      BY <1>1, <1>2
    <3> QED BY <1>1, <1>5, <3>1, MovingCounts, Zenon
  <2>3. DepthTracksQueue' /\ PermitsConserved'
    BY <1>1, <1>5, <2>2 DEF CountersAccountForWork, DepthTracksQueue, PermitsConserved, Processing
  <2>4. NestingAccounted'
    <3>1. /\ Cardinality(Processing("Nested")') = Cardinality(Processing("Nested")) + 1
          /\ Cardinality(Processing("Nested")) \in Nat
      BY <1>1, <1>2, <1>5, MovingCounts
    <3>2. Cardinality(Leaked) \in Nat
      BY Countable DEF Leaked
    <3>3. active = Cardinality(Processing("Nested")) + Cardinality(Leaked)
      BY DEF CountersAccountForWork, NestingAccounted, Processing, Leaked
    <3>4. active' = Cardinality(Processing("Nested")') + Cardinality(Leaked)
      BY <1>5, <3>1, <3>2, <3>3
    <3>5. Leaked' = Leaked
      BY <1>1 DEF Leaked
    <3> QED BY <3>4, <3>5 DEF NestingAccounted, Processing, Leaked
  <2>5. TypeOK'
    <3>1. active \in 0 .. NestingLimit /\ NestingLimit \in Nat
      BY QueueAssumption DEF TypeOK
    <3>2. active' \in 0 .. NestingLimit
      BY <1>5, <3>1
    <3> QED BY <1>1, <1>5, <3>2 DEF TypeOK
  <2>6. TasksInOnePlace'
    BY <1>1, <1>5, <2>1, TasksStay DEF Busy
  <2>7. StepsFitKinds'
    BY <1>1, <2>1 DEF StepsFitKinds
  <2>8. Paired' /\ RestartsPaid'
    BY <1>1, <1>5, <2>1, PoolStays
  <2> QED BY <1>3, <2>3, <2>4, <2>5, <2>6, <2>7, <2>8 DEF CountersAccountForWork
<1> QED BY <1>4, <1>5 DEF EnterNested, WMoves

LEMMA ProcessedKeeps ==
  ASSUME QueueIInv, NEW w \in Slots, Processed(w)
  PROVE  QueueIInv'
<1> USE DEF QueueIInv
<1>1. /\ pc[w] = "process" /\ pc' = [pc EXCEPT ![w] = "select"]
      /\ permits' = IF kind[w] = "Subagent" THEN permits + 1 ELSE permits
      /\ active' = IF kind[w] = "Nested" THEN active - 1 ELSE active
      /\ task' = [task EXCEPT ![w] = NoTask]
      /\ UNCHANGED <<queue, depth, submit, fate, panics, workers, infos,
                     raced, shutdown, woken, missed, kind, sup, scan, scaler, fresh>>
  BY DEF Processed, WMoves, WUnchanged, signal, pools
<1>2. /\ pc'[w] = "select" /\ \A v \in Slots \ {w} : pc'[v] = pc[v]
      /\ \A v \in Slots \ {w} : task'[v] = task[v]
  BY <1>1 DEF TypeOK
<1>3. In("count")' = In("count")
  <2>1. "process" # "count" /\ "select" # "count" /\ "process" # "select" /\ kind' = kind
    BY <1>1
  <2> QED BY <1>1, <2>1, MovingCounts, Zenon
<1>4. \A m : /\ Cardinality(Processing(m)) \in Nat /\ Cardinality(Processing(m)') \in Nat
             /\ kind[w] = m => Cardinality(Processing(m)') = Cardinality(Processing(m)) - 1
             /\ kind[w] # m => Processing(m)' = Processing(m)
  <2>1. "process" # "select" /\ kind' = kind
    BY <1>1
  <2> QED BY <1>1, <2>1, MovingCounts, Zenon
<1>5. DepthTracksQueue'
  BY <1>1, <1>3 DEF CountersAccountForWork, DepthTracksQueue
<1>6. PermitsConserved' /\ permits' \in 0 .. MaxConcurrent
  <2>1. permits + Cardinality(Processing("Subagent")) = MaxConcurrent
    BY DEF CountersAccountForWork, PermitsConserved, Processing
  <2>2. permits \in 0 .. MaxConcurrent /\ MaxConcurrent \in Nat
    BY QueueAssumption DEF TypeOK
  <2>3. permits' + Cardinality(Processing("Subagent")') = MaxConcurrent
    BY <1>1, <1>4, <2>1, <2>2
  <2>4. permits' \in 0 .. MaxConcurrent
    BY <1>1, <1>4, <2>2, <2>3
  <2> QED BY <2>3, <2>4 DEF PermitsConserved, Processing
<1>7. NestingAccounted' /\ active' \in 0 .. NestingLimit
  <2>1. active = Cardinality(Processing("Nested")) + Cardinality(Leaked)
    BY DEF CountersAccountForWork, NestingAccounted, Processing, Leaked
  <2>2. Cardinality(Leaked) \in Nat
    BY Countable DEF Leaked
  <2>3. active \in 0 .. NestingLimit /\ NestingLimit \in Nat
    BY QueueAssumption DEF TypeOK
  <2>4. active' = Cardinality(Processing("Nested")') + Cardinality(Leaked)
    BY <1>1, <1>4, <2>1, <2>2, <2>3
  <2>5. active' \in 0 .. NestingLimit
    BY <1>1, <1>4, <2>2, <2>3, <2>4
  <2>6. Leaked' = Leaked
    BY <1>1 DEF Leaked
  <2> QED BY <2>4, <2>5, <2>6 DEF NestingAccounted, Processing, Leaked
<1>8. TypeOK'
  BY <1>1, <1>6, <1>7 DEF TypeOK
<1>9. TasksInOnePlace'
  BY <1>1, <1>2, TasksStay DEF Busy
<1>10. StepsFitKinds'
  BY <1>1, <1>2 DEF StepsFitKinds
<1>11. Paired' /\ RestartsPaid'
  BY <1>1, <1>2, PoolStays
<1>12. SignalStands'
  BY <1>1, DeafStep DEF Deaf, signal
<1> QED BY <1>5, <1>6, <1>7, <1>8, <1>9, <1>10, <1>11, <1>12 DEF CountersAccountForWork

\* A panic pays for the restart of its worker and, in a nested task, leaks a level.
LEMMA PanicsKeeps ==
  ASSUME QueueIInv, NEW w \in Slots, Panics(w)
  PROVE  QueueIInv'
<1> USE DEF QueueIInv
<1> DEFINE t == task[w]
<1>1. /\ pc[w] = "process" /\ pc' = [pc EXCEPT ![w] = "finished"]
      /\ panics < MaxPanics /\ panics' = panics + 1
      /\ permits' = IF kind[w] = "Subagent" THEN permits + 1 ELSE permits
      /\ fate' = [fate EXCEPT ![t] = "panicked"]
      /\ task' = [task EXCEPT ![w] = NoTask]
      /\ UNCHANGED <<queue, depth, active, submit, workers, infos,
                     raced, shutdown, woken, missed, kind, sup, scan, scaler, fresh>>
  BY DEF Panics, WMoves, WUnchanged, signal, pools
<1>2. /\ pc'[w] = "finished" /\ \A v \in Slots \ {w} : pc'[v] = pc[v]
      /\ \A v \in Slots \ {w} : task'[v] = task[v]
  BY <1>1 DEF TypeOK
<1>3. /\ w \in Holders /\ t \in Tasks /\ KindOf[t] = kind[w] /\ fate[t] = "taken"
      /\ \A v \in Holders : task[v] = t => v = w
  BY <1>1 DEF Holders, Busy, TasksInOnePlace
<1>4. fate'[t] = "panicked" /\ \A u \in Tasks \ {t} : fate'[u] = fate[u]
  BY <1>1, <1>3 DEF TypeOK
<1>5. In("count")' = In("count")
  <2>1. "process" # "count" /\ "finished" # "count" /\ "process" # "finished" /\ kind' = kind
    BY <1>1
  <2> QED BY <1>1, <2>1, MovingCounts, Zenon
<1>6. \A m : /\ Cardinality(Processing(m)) \in Nat /\ Cardinality(Processing(m)') \in Nat
             /\ kind[w] = m => Cardinality(Processing(m)') = Cardinality(Processing(m)) - 1
             /\ kind[w] # m => Processing(m)' = Processing(m)
  <2>1. "process" # "finished" /\ kind' = kind
    BY <1>1
  <2> QED BY <1>1, <2>1, MovingCounts, Zenon
<1>7. ASSUME NEW k
      PROVE  /\ Panicked(k) \in SUBSET Tasks /\ Cardinality(Panicked(k)) \in Nat
             /\ k = kind[w] => Cardinality(Panicked(k)') = Cardinality(Panicked(k)) + 1
             /\ k # kind[w] => Panicked(k)' = Panicked(k)
  <2>1. Panicked(k) \in SUBSET Tasks
    BY DEF Panicked
  <2>2. IsFiniteSet(Panicked(k)) /\ Cardinality(Panicked(k)) \in Nat
    BY <2>1, Countable
  <2>3. CASE k = kind[w]
    <3>1. t \notin Panicked(k) /\ Panicked(k)' = Panicked(k) \cup {t}
      BY <1>3, <1>4, <2>3 DEF Panicked
    <3>2. Cardinality(Panicked(k)') = Cardinality(Panicked(k)) + 1
      BY <2>2, <3>1, OneMore
    <3> QED BY <2>1, <2>2, <2>3, <3>2
  <2>4. CASE k # kind[w]
    <3>1. Panicked(k)' = Panicked(k)
      BY <1>3, <1>4, <2>4 DEF Panicked
    <3> QED BY <2>1, <2>2, <2>4, <3>1
  <2> QED BY <2>3, <2>4
<1>8. DepthTracksQueue'
  BY <1>1, <1>5 DEF CountersAccountForWork, DepthTracksQueue
<1>9. PermitsConserved' /\ permits' \in 0 .. MaxConcurrent
  <2>1. permits + Cardinality(Processing("Subagent")) = MaxConcurrent
    BY DEF CountersAccountForWork, PermitsConserved, Processing
  <2>2. permits \in 0 .. MaxConcurrent /\ MaxConcurrent \in Nat
    BY QueueAssumption DEF TypeOK
  <2>3. permits' + Cardinality(Processing("Subagent")') = MaxConcurrent
    BY <1>1, <1>6, <2>1, <2>2
  <2>4. permits' \in 0 .. MaxConcurrent
    BY <1>1, <1>6, <2>2, <2>3
  <2> QED BY <2>3, <2>4 DEF PermitsConserved, Processing
<1>10. NestingAccounted'
  <2>1. active = Cardinality(Processing("Nested")) + Cardinality(Panicked("Nested"))
    BY DEF CountersAccountForWork, NestingAccounted, Processing, Panicked
  <2>2. CASE kind[w] = "Nested"
    <3>1. /\ Cardinality(Processing("Nested")') = Cardinality(Processing("Nested")) - 1
          /\ Cardinality(Panicked("Nested")') = Cardinality(Panicked("Nested")) + 1
          /\ Cardinality(Processing("Nested")) \in Nat /\ Cardinality(Panicked("Nested")) \in Nat
      BY <1>6, <1>7, <2>2
    <3>2. active' = Cardinality(Processing("Nested")') + Cardinality(Panicked("Nested")')
      BY <1>1, <2>1, <3>1
    <3> QED BY <3>2 DEF NestingAccounted, Processing, Panicked
  <2>3. CASE kind[w] # "Nested"
    <3>1. Processing("Nested")' = Processing("Nested") /\ Panicked("Nested")' = Panicked("Nested")
      BY <1>6, <1>7, <2>3
    <3>2. active' = Cardinality(Processing("Nested")') + Cardinality(Panicked("Nested")')
      BY <1>1, <2>1, <3>1
    <3> QED BY <3>2 DEF NestingAccounted, Processing, Panicked
  <2> QED BY <2>2, <2>3
<1>11. TypeOK'
  <2>1. panics' \in 0 .. MaxPanics
    <3>1. panics \in 0 .. MaxPanics /\ MaxPanics \in Nat
      BY QueueAssumption DEF TypeOK
    <3> QED BY <1>1, <3>1
  <2>2. /\ fate' \in [Tasks -> {"none", "taken", "panicked"}]
        /\ task' \in [Slots -> Tasks \cup {NoTask}]
    BY <1>1 DEF TypeOK
  <2> QED BY <1>1, <1>9, <2>1, <2>2 DEF TypeOK
<1>12. TasksInOnePlace'
  <2>1. \A v \in Holders' : v # w /\ v \in Holders
    BY <1>2 DEF Holders, Busy
  <2>2. \A v \in Holders' : fate'[task[v]] = fate[task[v]]
    <3> TAKE v \in Holders'
    <3>1. task[v] # t /\ task[v] \in Tasks
      BY <1>3, <2>1 DEF TasksInOnePlace
    <3> QED BY <1>4, <3>1
  <2>3. \A u \in Tasks : fate'[u] = "none" <=> fate[u] = "none"
    BY <1>3, <1>4
  <2>4. \A v \in Slots : pc'[v] \in Busy => pc[v] \in Busy /\ task'[v] = task[v]
    BY <1>2 DEF Busy
  <2> QED BY <1>1, <2>2, <2>3, <2>4, TasksStay
<1>13. StepsFitKinds'
  BY <1>1, <1>2 DEF StepsFitKinds
<1>14. Paired'
  BY <1>1 DEF Paired, InitialKind
<1>15. RestartsPaid'
  <2>1. \A k : PanicsOf(k) = Cardinality(Panicked(k)) /\ PanicsOf(k)' = Cardinality(Panicked(k)')
    BY DEF PanicsOf, Panicked
  <2>2. \A k : /\ PanicsOf(k) \in Nat /\ PanicsOf(k)' \in Nat /\ PanicsOf(k)' >= PanicsOf(k)
               /\ k = kind[w] => PanicsOf(k)' = PanicsOf(k) + 1
    BY <1>7, <2>1
  <2>3. CASE ~(shutdown = "no" /\ ~raced)
    <3>1. ~(shutdown' = "no" /\ ~raced')
      BY <1>1, <2>3
    <3> QED BY <3>1, Zenon DEF RestartsPaid
  <2>4. CASE shutdown = "no" /\ ~raced
    <3>1. ASSUME NEW i \in DOMAIN infos
          PROVE  infos[i].restarts + (IF pc'[workers[i]] = "finished" THEN 1 ELSE 0)
                   <= PanicsOf(infos[i].kind)'
      <4>1. infos[i].restarts + (IF pc[workers[i]] = "finished" THEN 1 ELSE 0)
              <= PanicsOf(infos[i].kind)
        BY <2>4, <3>1 DEF RestartsPaid
      <4>2. infos[i].kind = kind[workers[i]] /\ workers[i] \in Slots
        <5>1. Len(workers) = Len(infos) + (IF scaler = "info" THEN 1 ELSE 0)
          BY <2>4 DEF Paired
        <5>2. i \in DOMAIN workers
          BY <3>1, <5>1, PoolTypes
        <5> QED BY <2>4, <3>1, <5>2, PoolTypes DEF Paired
      <4>3. infos[i].restarts \in Int
        BY <3>1, PoolTypes
      <4>4. CASE workers[i] = w
        <5>1. PanicsOf(infos[i].kind)' = PanicsOf(infos[i].kind) + 1
              /\ PanicsOf(infos[i].kind) \in Nat
          BY <1>1, <2>2, <4>2, <4>4
        <5> QED BY <1>1, <1>2, <4>1, <4>3, <4>4, <5>1
      <4>5. CASE workers[i] # w
        <5>1. pc'[workers[i]] = pc[workers[i]]
          BY <1>2, <4>2, <4>5
        <5>2. PanicsOf(infos[i].kind)' >= PanicsOf(infos[i].kind)
              /\ PanicsOf(infos[i].kind)' \in Nat /\ PanicsOf(infos[i].kind) \in Nat
          BY <1>1, <2>2
        <5> QED BY <4>1, <4>3, <5>1, <5>2
      <4> QED BY <4>4, <4>5
    <3>2. ASSUME NEW p \in DOMAIN Pool
          PROVE  IF pc'[p] = "free" THEN PanicsOf(Pool[p])' > MaxRestarts
                 ELSE \E i \in DOMAIN workers : workers[i] = p
      <4>1. pc'[p] = "free" <=> pc[p] = "free"
        BY <1>1, <1>2, <3>2, SlotsProperties
      <4>2. IF pc[p] = "free" THEN PanicsOf(Pool[p]) > MaxRestarts
            ELSE \E i \in DOMAIN workers : workers[i] = p
        BY <2>4, <3>2 DEF RestartsPaid
      <4>3. PanicsOf(Pool[p])' >= PanicsOf(Pool[p]) /\ MaxRestarts \in Nat
            /\ PanicsOf(Pool[p])' \in Nat /\ PanicsOf(Pool[p]) \in Nat
        BY <2>2, QueueAssumption
      <4> QED BY <4>1, <4>2, <4>3
    <3>3. ASSUME NEW v \in Slots, pc'[v] = "finished"
          PROVE  PanicsOf(kind[v])' > 0
      <4>1. CASE v = w
        BY <1>1, <2>2, <4>1
      <4>2. CASE v # w
        <5>1. PanicsOf(kind[v]) > 0
          BY <1>2, <2>4, <3>3, <4>2 DEF RestartsPaid
        <5>2. PanicsOf(kind[v])' >= PanicsOf(kind[v])
              /\ PanicsOf(kind[v])' \in Nat /\ PanicsOf(kind[v]) \in Nat
          BY <1>1, <2>2
        <5> QED BY <5>1, <5>2
      <4> QED BY <4>1, <4>2
    <3>4. infos' = infos /\ workers' = workers /\ kind' = kind
      BY <1>1
    <3> QED BY <3>1, <3>2, <3>3, <3>4 DEF RestartsPaid
  <2> QED BY <2>3, <2>4
<1>16. SignalStands'
  BY <1>1, DeafStep DEF Deaf, signal
<1> QED BY <1>8, <1>9, <1>10, <1>11, <1>12, <1>13, <1>14, <1>15, <1>16 DEF CountersAccountForWork

LEMMA WorkerExitsKeeps ==
  ASSUME QueueIInv, NEW w \in Slots, WorkerExits(w)
  PROVE  QueueIInv'
<1> USE DEF QueueIInv
<1>1. /\ pc[w] = "select" /\ w \in woken /\ woken' = woken \ {w}
      /\ pc' = [pc EXCEPT ![w] = "finished"]
      /\ UNCHANGED <<queue, depth, permits, active, submit, fate, panics, workers, infos,
                     raced, shutdown, missed, kind, task, sup, scan, scaler, fresh>>
  BY DEF WorkerExits, WMoves, WUnchanged, pools
<1>2. pc'[w] = "finished" /\ \A v \in Slots \ {w} : pc'[v] = pc[v]
  BY <1>1 DEF TypeOK
<1>3. TypeOK'
  BY <1>1 DEF TypeOK
<1>4. TasksInOnePlace' /\ StepsFitKinds' /\ CountersAccountForWork'
  BY <1>1, <1>2, WorkStays DEF Busy
<1>5. shutdown' # "no"
  BY <1>1 DEF SignalStands
<1>6. Paired'
  BY <1>1 DEF Paired, InitialKind
<1>7. RestartsPaid'
  BY <1>5, Zenon DEF RestartsPaid
<1>8. SignalStands'
  BY <1>1, <1>2, <1>5, SlotsProperties DEF SignalStands
<1> QED BY <1>3, <1>4, <1>6, <1>7, <1>8

LEMMA WorkerKeeps ==
  ASSUME QueueIInv, NEW w \in Slots, WorkerStep(w) \/ Acquire(w) \/ Panics(w)
  PROVE  QueueIInv'
BY StartKeeps, ReceiveKeeps, UncountKeeps, EnterNestedKeeps, ProcessedKeeps, WorkerExitsKeeps,
   AcquireKeeps, PanicsKeeps
   DEF WorkerStep

(***************************************************************************)
(* The supervisor                                                          *)
(***************************************************************************)
LEMMA TicksKeeps ==
  ASSUME QueueIInv, SupervisorTicks
  PROVE  QueueIInv'
<1> USE DEF QueueIInv
<1>1. /\ sup = "select" /\ sup' = "scan" /\ Overlooks(Supervisor)
      /\ UNCHANGED <<queue, depth, permits, active, submit, fate, panics, workers, infos,
                     raced, shutdown, kind, pc, task, scan, scaler, fresh>>
  BY DEF SupervisorTicks, SupUnchanged, queues, pools, Overlooks
<1>2. woken' \in SUBSET (Slots \cup {Scaler, Supervisor}) /\ missed' \in BOOLEAN
  BY <1>1 DEF TypeOK, Overlooks
<1>3. TypeOK'
  BY <1>1, <1>2 DEF TypeOK
<1>4. TasksInOnePlace' /\ StepsFitKinds' /\ CountersAccountForWork'
  BY <1>1, WorkStays
<1>5. Paired' /\ RestartsPaid'
  BY <1>1, PoolStays
<1>6. SignalStands'
  <2>1. /\ shutdown = "no" => woken' = {}
        /\ ~missed' => ~missed /\ Supervisor \notin woken /\ woken' = woken
    BY <1>1, OverlookedIsMissed
  <2>2. shutdown # "no" => missed'
    BY <1>1, <2>1 DEF SignalStands
  <2> QED BY <1>1, <2>1, <2>2 DEF SignalStands
<1> QED BY <1>3, <1>4, <1>5, <1>6

\* The first finished handle is replaced or dropped, and the info at its index
\* with it.
LEMMA HandlesKeeps ==
  ASSUME QueueIInv, SupervisorHandles
  PROVE  QueueIInv'
<1> USE DEF QueueIInv
<1>1. PICK i \in Finished : HandleFinished(i) /\ scan' = i
  BY DEF SupervisorHandles
<1>2. /\ sup = "scan" /\ raced' = (raced \/ scaler = "info")
      /\ UNCHANGED <<queue, depth, permits, active, submit, fate, panics, shutdown, woken,
                     missed, task, sup, scaler, fresh>>
  BY DEF SupervisorHandles, SupUnchanged, queues, signal
<1> DEFINE w == workers[i]
           n == Len(workers)
           Info == [kind : Kinds, restarts : 0 .. MaxRestarts]
<1>3. /\ i \in 1 .. n /\ n \in Nat /\ w \in Slots /\ pc[w] = "finished"
      /\ workers \in Seq(Slots) /\ infos \in Seq(Info)
  BY PoolTypes DEF Finished, TypeOK
<1>4. PICK l \in {"spawned", "free"} : pc' = [pc EXCEPT ![w] = l]
  BY <1>1 DEF HandleFinished
<1>5. pc'[w] = l /\ \A v \in Slots \ {w} : pc'[v] = pc[v]
  BY <1>3, <1>4 DEF TypeOK
<1>6. Restarts(i) => /\ i \in 1 .. Len(infos) /\ infos[i] \in Info
                     /\ Again(infos[i]) \in Info /\ Again(infos[i]).kind = infos[i].kind
                     /\ Again(infos[i]).restarts = infos[i].restarts + 1
                     /\ infos[i].kind \in Kinds
  <2>1. SUFFICES ASSUME Restarts(i)
                 PROVE  /\ i \in 1 .. Len(infos) /\ infos[i] \in Info
                        /\ Again(infos[i]) \in Info /\ Again(infos[i]).kind = infos[i].kind
                        /\ Again(infos[i]).restarts = infos[i].restarts + 1
                        /\ infos[i].kind \in Kinds
    OBVIOUS
  <2>2. i \in 1 .. Len(infos) /\ infos[i].restarts < MaxRestarts
    BY <1>3, <2>1, PoolTypes DEF Restarts
  <2>3. infos[i] \in Info
    BY <1>3, <2>2, ElementOfSeq
  <2>4. infos[i].restarts + 1 \in 0 .. MaxRestarts
    BY <2>2, <2>3, QueueAssumption
  <2> QED BY <2>2, <2>3, <2>4 DEF Again
<1>7. Restarts(i) =>
        /\ workers' = Replaced(workers, i, w) /\ infos' = Replaced(infos, i, Again(infos[i]))
        /\ kind' = [kind EXCEPT ![w] = infos[i].kind] /\ pc'[w] = "spawned"
  BY <1>1, <1>3 DEF HandleFinished, TypeOK
<1>8. ~Restarts(i) =>
        /\ workers' = RemoveAt(workers, i) /\ kind' = kind /\ pc'[w] = "free"
        /\ infos' = IF i <= Len(infos) THEN RemoveAt(infos, i) ELSE infos
  BY <1>1, <1>3 DEF HandleFinished, TypeOK
<1>9. /\ workers' \in Seq(Slots)
      /\ \A j \in 1 .. i - 1 : workers'[j] = workers[j]
      /\ \A j \in i .. n - 1 : workers'[j] = workers[j + 1]
      /\ Len(workers') \in Nat /\ Len(workers') >= n - 1
      /\ Restarts(i) => Len(workers') = n /\ workers'[n] = w
      /\ ~Restarts(i) => Len(workers') = n - 1
  <2>1. CASE Restarts(i)
    <3>1. /\ Replaced(workers, i, w) \in Seq(Slots)
          /\ MovedToTheEnd(Replaced(workers, i, w), workers, i, w)
      BY <1>3, ReplacedAnywhere, Zenon
    <3>2. workers' = Replaced(workers, i, w)
      BY <1>7, <2>1
    <3>3. n >= n - 1
      BY <1>3
    <3>4. /\ workers' \in Seq(Slots) /\ MovedToTheEnd(workers', workers, i, w)
      BY <3>1, <3>2
    <3> HIDE DEF w
    <3> QED BY <1>3, <2>1, <3>3, <3>4 DEF MovedToTheEnd
  <2>2. CASE ~Restarts(i)
    <3>1. /\ RemoveAt(workers, i) \in Seq(Slots) /\ Len(RemoveAt(workers, i)) = n - 1
          /\ \A j \in 1 .. i - 1 : RemoveAt(workers, i)[j] = workers[j]
          /\ \A j \in i .. n - 1 : RemoveAt(workers, i)[j] = workers[j + 1]
      BY <1>3, RemovedAnywhere, Zenon
    <3>2. workers' = RemoveAt(workers, i)
      BY <1>8, <2>2
    <3>3. n - 1 \in Nat
      BY <1>3
    <3> QED BY <1>3, <2>2, <3>1, <3>2, <3>3
  <2> QED BY <2>1, <2>2
<1>10. /\ infos' \in Seq(Info)
       /\ i \in 1 .. Len(infos) =>
            /\ \A j \in 1 .. i - 1 : infos'[j] = infos[j]
            /\ \A j \in i .. Len(infos) - 1 : infos'[j] = infos[j + 1]
       /\ Restarts(i) => Len(infos') = Len(infos) /\ infos'[Len(infos)] = Again(infos[i])
       /\ ~Restarts(i) /\ i \in 1 .. Len(infos) => Len(infos') = Len(infos) - 1
  <2> HIDE DEF Info, w, n
  <2>1. CASE Restarts(i)
    <3>1. Again(infos[i]) \in Info /\ i \in 1 .. Len(infos)
      BY <1>6, <2>1
    <3>2. /\ Replaced(infos, i, Again(infos[i])) \in Seq(Info)
          /\ MovedToTheEnd(Replaced(infos, i, Again(infos[i])), infos, i, Again(infos[i]))
      BY <1>3, <3>1, ReplacedAnywhere, Zenon
    <3>3. infos' = Replaced(infos, i, Again(infos[i]))
      BY <1>7, <2>1
    <3>4. infos' \in Seq(Info) /\ MovedToTheEnd(infos', infos, i, Again(infos[i]))
      BY <3>2, <3>3
    <3> QED BY <2>1, <3>4 DEF MovedToTheEnd
  <2>2. CASE ~Restarts(i) /\ i \in 1 .. Len(infos)
    <3>1. /\ RemoveAt(infos, i) \in Seq(Info) /\ Len(RemoveAt(infos, i)) = Len(infos) - 1
          /\ \A j \in 1 .. i - 1 : RemoveAt(infos, i)[j] = infos[j]
          /\ \A j \in i .. Len(infos) - 1 : RemoveAt(infos, i)[j] = infos[j + 1]
      BY <1>3, <2>2, RemovedAnywhere, Zenon
    <3>2. infos' = RemoveAt(infos, i)
      BY <1>8, <2>2
    <3> QED BY <2>2, <3>1, <3>2
  <2>3. CASE ~Restarts(i) /\ i \notin 1 .. Len(infos)
    <3>1. ~(i <= Len(infos))
      BY <1>3, <2>3, PoolTypes
    <3> QED BY <1>3, <1>8, <2>3, <3>1
  <2> QED BY <2>1, <2>2, <2>3
<1> HIDE DEF w, n
<1>11. /\ kind' \in [Slots -> Kinds] /\ \A v \in Slots \ {w} : kind'[v] = kind[v]
  <2>1. CASE Restarts(i)
    BY <1>3, <1>6, <1>7, <2>1 DEF TypeOK
  <2>2. CASE ~Restarts(i)
    BY <1>8, <2>2 DEF TypeOK
  <2> QED BY <2>1, <2>2
<1>12. TypeOK'
  <2>1. workers' \in Seq(Slots) /\ infos' \in Seq([kind : Kinds, restarts : 0 .. MaxRestarts])
    BY <1>9, <1>10
  <2>2. /\ pc' \in [Slots -> {"free", "spawned", "select", "count", "acquire", "enter",
                              "process", "finished"}]
        /\ scan' \in Nat \ {0} /\ raced' \in BOOLEAN
    BY <1>1, <1>2, <1>3, <1>4 DEF TypeOK
  <2> QED BY <1>2, <1>11, <2>1, <2>2 DEF TypeOK
<1>13. TasksInOnePlace' /\ StepsFitKinds' /\ CountersAccountForWork'
  <2>1. \A v \in Slots : pc[v] \in Busy \/ pc'[v] \in Busy => pc'[v] = pc[v] /\ kind'[v] = kind[v]
    BY <1>3, <1>5, <1>11 DEF Busy
  <2> QED BY <1>2, <2>1, WorkStays
<1>14. SignalStands'
  BY <1>2, DeafStep DEF Deaf, signal
<1>15. ASSUME ~raced', shutdown # "done"
       PROVE  /\ kind' = kind /\ Len(infos) = n /\ i \in 1 .. Len(infos) /\ infos[i].kind = kind[w]
              /\ Len(infos') = Len(workers')
              /\ \A j \in 1 .. Len(workers') :
                   \/ /\ Restarts(i) /\ j = n /\ workers'[j] = w
                      /\ infos'[j].kind = infos[i].kind /\ infos'[j].restarts = infos[i].restarts + 1
                   \/ \E m \in 1 .. n : workers'[j] = workers[m] /\ infos'[j] = infos[m]
  <2>1. ~raced /\ scaler # "info"
    BY <1>2, <1>15
  <2>2. /\ Len(workers) = Len(infos) + (IF scaler = "info" THEN 1 ELSE 0)
        /\ \A m \in DOMAIN infos : infos[m].kind = kind[workers[m]]
    BY <1>15, <2>1 DEF Paired
  <2>3. Len(infos) = n /\ i \in 1 .. Len(infos) /\ infos[i].kind = kind[w]
    BY <1>3, <2>1, <2>2, PoolTypes DEF n, w
  <2>4. kind' = kind
    BY <1>3, <1>7, <1>8, <2>3 DEF TypeOK
  <2>5. Len(infos') = Len(workers')
    BY <1>9, <1>10, <2>3
  <2>6. ASSUME NEW j \in 1 .. Len(workers')
        PROVE  \/ /\ Restarts(i) /\ j = n /\ workers'[j] = w
                  /\ infos'[j].kind = infos[i].kind /\ infos'[j].restarts = infos[i].restarts + 1
               \/ \E m \in 1 .. n : workers'[j] = workers[m] /\ infos'[j] = infos[m]
    <3>1. CASE j \in 1 .. n - 1
      <4>1. CASE j < i
        <5>1. workers'[j] = workers[j] /\ infos'[j] = infos[j] /\ j \in 1 .. n
          BY <1>3, <1>9, <1>10, <2>3, <3>1, <4>1
        <5> QED BY <5>1
      <4>2. CASE ~(j < i)
        <5>1. workers'[j] = workers[j + 1] /\ infos'[j] = infos[j + 1] /\ j + 1 \in 1 .. n
          BY <1>3, <1>9, <1>10, <2>3, <3>1, <4>2
        <5> QED BY <5>1
      <4> QED BY <4>1, <4>2
    <3>2. CASE j \notin 1 .. n - 1
      <4>1. Restarts(i) /\ j = n
        BY <1>3, <1>9, <2>6, <3>2
      <4> QED BY <1>6, <1>9, <1>10, <2>3, <4>1
    <3> QED BY <3>1, <3>2
  <2> QED BY <2>3, <2>4, <2>5, <2>6
<1>16. workers' \in Seq(Slots) /\ DOMAIN workers' = 1 .. Len(workers')
       /\ DOMAIN infos' = 1 .. Len(infos') /\ Len(workers') \in Nat /\ Len(infos') \in Nat
  BY <1>9, <1>10, LenProperties
<1>17. Paired'
  <2>1. SUFFICES ASSUME ~raced', shutdown # "done"
                 PROVE  /\ \A v \in Slots : kind'[v] = InitialKind(v)
                        /\ Len(workers') = Len(infos') + (IF scaler = "info" THEN 1 ELSE 0)
                        /\ \A j \in DOMAIN infos' : infos'[j].kind = kind'[workers'[j]]
                        /\ scaler = "handle" => fresh \notin DOMAIN Pool
                        /\ scaler = "info" => workers'[Len(workers')] \notin DOMAIN Pool
    BY <1>2, Zenon DEF Paired, InitialKind
  <2>2. ~raced /\ scaler # "info"
    BY <1>2, <2>1
  <2>3. /\ \A v \in Slots : kind[v] = InitialKind(v)
        /\ \A m \in DOMAIN infos : infos[m].kind = kind[workers[m]]
        /\ scaler = "handle" => fresh \notin DOMAIN Pool
    BY <2>1, <2>2 DEF Paired
  <2>4. ASSUME NEW j \in DOMAIN infos'
        PROVE  infos'[j].kind = kind[workers'[j]]
    <3>1. j \in 1 .. Len(workers')
      BY <1>15, <1>16, <2>1, <2>4
    <3>2. CASE workers'[j] = w /\ infos'[j].kind = infos[i].kind
      BY <1>15, <2>1, <3>2
    <3>3. ASSUME NEW m \in 1 .. n, workers'[j] = workers[m], infos'[j] = infos[m]
          PROVE  infos'[j].kind = kind[workers'[j]]
      <4>1. m \in DOMAIN infos
        BY <1>15, <2>1, PoolTypes
      <4> QED BY <2>3, <3>3, <4>1
    <3> QED BY <1>15, <2>1, <3>1, <3>2, <3>3
  <2> QED BY <1>15, <1>16, <2>1, <2>2, <2>3, <2>4
<1>18. ASSUME NEW k
       PROVE  PanicsOf(k)' = PanicsOf(k) /\ PanicsOf(k) \in Nat
  BY <1>2, Countable DEF PanicsOf
<1>19. RestartsPaid'
  <2>1. CASE ~(shutdown = "no" /\ ~raced')
    <3>1. ~(shutdown' = "no" /\ ~raced')
      BY <1>2, <2>1
    <3> QED BY <3>1, Zenon DEF RestartsPaid
  <2>2. CASE shutdown = "no" /\ ~raced'
    <3>1. shutdown # "done" /\ ~raced
      BY <1>2, <2>2
    <3>2. /\ \A m \in 1 .. n :
               /\ infos[m].restarts + (IF pc[workers[m]] = "finished" THEN 1 ELSE 0)
                    <= PanicsOf(infos[m].kind)
               /\ infos[m].restarts \in Nat /\ workers[m] \in Slots
          /\ \A p \in DOMAIN Pool :
               IF pc[p] = "free" THEN PanicsOf(Pool[p]) > MaxRestarts
               ELSE \E m \in 1 .. n : workers[m] = p
          /\ \A v \in Slots : pc[v] = "finished" => PanicsOf(kind[v]) > 0
      <4>1. DOMAIN infos = 1 .. n /\ DOMAIN workers = 1 .. n
        BY <1>15, <2>2, <3>1, PoolTypes DEF n
      <4>2. \A m \in 1 .. n : infos[m].restarts \in Nat /\ workers[m] \in Slots
        BY <4>1, PoolTypes
      <4>3. /\ \A m \in 1 .. n :
                 infos[m].restarts + (IF pc[workers[m]] = "finished" THEN 1 ELSE 0)
                   <= PanicsOf(infos[m].kind)
            /\ \A p \in DOMAIN Pool :
                 IF pc[p] = "free" THEN PanicsOf(Pool[p]) > MaxRestarts
                 ELSE \E m \in 1 .. n : workers[m] = p
            /\ \A v \in Slots : pc[v] = "finished" => PanicsOf(kind[v]) > 0
        BY <2>2, <3>1, <4>1 DEF RestartsPaid
      <4> QED BY <4>2, <4>3
    <3>3. infos[i].restarts + 1 <= PanicsOf(infos[i].kind) /\ infos[i].restarts \in Nat
      BY <1>3, <3>2 DEF w
    <3>4. ASSUME NEW j \in 1 .. Len(workers')
          PROVE  infos'[j].restarts + (IF pc'[workers'[j]] = "finished" THEN 1 ELSE 0)
                   <= PanicsOf(infos'[j].kind)
      <4>1. CASE /\ Restarts(i) /\ j = n /\ workers'[j] = w
                 /\ infos'[j].kind = infos[i].kind /\ infos'[j].restarts = infos[i].restarts + 1
        <5>1. pc'[workers'[j]] # "finished"
          BY <1>5, <4>1
        <5> QED BY <1>18, <3>3, <4>1, <5>1
      <4>2. ASSUME NEW m \in 1 .. n, workers'[j] = workers[m], infos'[j] = infos[m]
            PROVE  infos'[j].restarts + (IF pc'[workers'[j]] = "finished" THEN 1 ELSE 0)
                     <= PanicsOf(infos'[j].kind)
        <5>1. /\ infos[m].restarts + (IF pc[workers[m]] = "finished" THEN 1 ELSE 0)
                   <= PanicsOf(infos[m].kind)
              /\ infos[m].restarts \in Nat /\ workers[m] \in Slots
          BY <3>2
        <5>2. pc'[workers[m]] = "finished" => pc[workers[m]] = "finished"
          BY <1>5, <5>1
        <5>3. PanicsOf(infos[m].kind) \in Nat
          BY <1>18
        <5> QED BY <4>2, <5>1, <5>2, <5>3
      <4> QED BY <1>15, <2>2, <3>1, <3>4, <4>1, <4>2
    <3>5. ASSUME NEW p \in DOMAIN Pool
          PROVE  IF pc'[p] = "free" THEN PanicsOf(Pool[p]) > MaxRestarts
                 ELSE \E j \in DOMAIN workers' : workers'[j] = p
      <4>0. p \in Slots
        BY SlotsProperties
      <4>1. CASE p = w
        <5>1. CASE Restarts(i)
          <6>1. workers'[n] = p /\ n \in DOMAIN workers' /\ pc'[p] = "spawned"
            BY <1>3, <1>7, <1>9, <1>16, <4>1, <5>1 DEF w
          <6> QED BY <6>1
        <5>2. CASE ~Restarts(i)
          <6>1. infos[i].restarts >= MaxRestarts
            BY <1>3, <1>15, <2>2, <3>1, <5>2, PoolTypes DEF Restarts
          <6>2. infos[i].kind = Pool[p]
            BY <1>15, <2>2, <3>1, <4>0, <4>1 DEF Paired, InitialKind
          <6>3. PanicsOf(Pool[p]) > MaxRestarts
            BY <1>18, <3>3, <6>1, <6>2, QueueAssumption
          <6> QED BY <1>8, <4>1, <5>2, <6>3 DEF w
        <5> QED BY <5>1, <5>2
      <4>2. CASE p # w
        <5>1. pc'[p] = pc[p]
          BY <1>5, <4>0, <4>2
        <5>2. CASE pc[p] = "free"
          BY <3>2, <5>1, <5>2
        <5>3. CASE pc[p] # "free"
          <6>1. PICK m \in 1 .. n : workers[m] = p
            BY <3>2, <5>3
          <6>2. m # i
            BY <4>2, <6>1 DEF w
          <6>3. CASE m < i
            <7>1. m \in 1 .. n - 1 /\ m \in DOMAIN workers' /\ workers'[m] = p
              BY <1>3, <1>9, <1>16, <6>1, <6>3
            <7> QED BY <5>1, <5>3, <7>1
          <6>4. CASE m > i
            <7>1. m - 1 \in 1 .. n - 1 /\ m - 1 \in DOMAIN workers' /\ workers'[m - 1] = p
              <8>1. m - 1 \in 1 .. n - 1 /\ ~(m - 1 < i) /\ (m - 1) + 1 = m
                BY <1>3, <6>1, <6>4
              <8>2. workers'[m - 1] = workers[(m - 1) + 1]
                <9>1. m - 1 \in i .. n - 1
                  BY <1>3, <8>1
                <9> QED BY <1>9, <9>1
              <8>3. Len(workers') >= n - 1 /\ Len(workers') \in Nat
                BY <1>9
              <8>4. m - 1 \in DOMAIN workers'
                BY <1>3, <1>16, <8>1, <8>3
              <8> QED BY <6>1, <8>1, <8>2, <8>4
            <7> QED BY <5>1, <5>3, <7>1
          <6> QED BY <1>3, <6>1, <6>2, <6>3, <6>4
        <5> QED BY <5>2, <5>3
      <4> QED BY <4>1, <4>2
    <3>6. \A v \in Slots : pc'[v] = "finished" => PanicsOf(kind[v]) > 0
      BY <1>5, <3>2
    <3>7. kind' = kind /\ DOMAIN infos' = 1 .. Len(workers')
      BY <1>15, <1>16, <2>2, <3>1
    <3> QED BY <1>18, <3>4, <3>5, <3>6, <3>7 DEF RestartsPaid
  <2> QED BY <2>1, <2>2
<1> QED BY <1>12, <1>13, <1>14, <1>17, <1>19

LEMMA SupervisorKeeps ==
  ASSUME QueueIInv, SupervisorStep
  PROVE  QueueIInv'
<1> USE DEF QueueIInv
<1>1. CASE SupervisorEnds
  <2>1. /\ sup = "scan" /\ sup' = "select" /\ scan' = 1
        /\ UNCHANGED <<queue, depth, permits, active, submit, fate, panics, workers, infos,
                       raced, shutdown, woken, missed, kind, pc, task, scaler, fresh>>
    BY <1>1 DEF SupervisorEnds, SupUnchanged, queues, pools, signal
  <2>2. TypeOK'
    BY <2>1 DEF TypeOK
  <2>3. TasksInOnePlace' /\ StepsFitKinds' /\ CountersAccountForWork'
    BY <2>1, WorkStays
  <2>4. Paired' /\ RestartsPaid'
    BY <2>1, PoolStays
  <2>5. SignalStands'
    BY <2>1, DeafStep DEF Deaf, signal
  <2> QED BY <2>2, <2>3, <2>4, <2>5
<1>2. CASE SupervisorExits
  <2>1. /\ sup = "select" /\ Supervisor \in woken /\ sup' = "exited"
        /\ woken' = woken \ {Supervisor}
        /\ UNCHANGED <<queue, depth, permits, active, submit, fate, panics, workers, infos,
                       raced, shutdown, missed, kind, pc, task, scan, scaler, fresh>>
    BY <1>2 DEF SupervisorExits, SupUnchanged, queues, pools
  <2>2. TypeOK'
    BY <2>1 DEF TypeOK
  <2>3. TasksInOnePlace' /\ StepsFitKinds' /\ CountersAccountForWork'
    BY <2>1, WorkStays
  <2>4. Paired' /\ RestartsPaid'
    BY <2>1, PoolStays
  <2>5. SignalStands'
    BY <2>1, SlotsProperties DEF SignalStands
  <2> QED BY <2>2, <2>3, <2>4, <2>5
<1> QED BY <1>1, <1>2, TicksKeeps, HandlesKeeps DEF SupervisorStep

(***************************************************************************)
(* The auto-scaler                                                         *)
(***************************************************************************)
\* It spawns a subagent worker in a slot outside the pool.
LEMMA ScalerSpawnsKeeps ==
  ASSUME QueueIInv, NEW w \in Slots, ScalerSpawns(w)
  PROVE  QueueIInv'
<1> USE DEF QueueIInv
<1>1. /\ scaler = "select" /\ scaler' = "handle" /\ w > Len(Pool) /\ pc[w] = "free"
      /\ pc' = [pc EXCEPT ![w] = "spawned"] /\ kind' = [kind EXCEPT ![w] = "Subagent"]
      /\ fresh' = w /\ Overlooks(Scaler)
      /\ UNCHANGED <<queue, depth, permits, active, submit, fate, panics, workers, infos,
                     raced, shutdown, task, sup, scan>>
  BY DEF ScalerSpawns, queues, pools, Overlooks
<1>2. /\ pc'[w] = "spawned" /\ kind'[w] = "Subagent"
      /\ \A v \in Slots \ {w} : pc'[v] = pc[v] /\ kind'[v] = kind[v]
  BY <1>1 DEF TypeOK
<1>3. TypeOK'
  <2>1. woken' \in SUBSET (Slots \cup {Scaler, Supervisor}) /\ missed' \in BOOLEAN
    BY <1>1 DEF TypeOK, Overlooks
  <2>2. kind' \in [Slots -> Kinds]
    BY <1>1 DEF TypeOK, Kinds
  <2> QED BY <1>1, <2>1, <2>2 DEF TypeOK
<1>4. TasksInOnePlace' /\ StepsFitKinds' /\ CountersAccountForWork'
  BY <1>1, <1>2, WorkStays DEF Busy
<1>5. w \notin DOMAIN Pool
  BY <1>1, SlotsProperties
<1>6. ~raced /\ shutdown # "done" => kind' = kind
  <2>1. ~raced /\ shutdown # "done" => kind[w] = "Subagent"
    BY <1>5 DEF Paired, InitialKind
  <2> QED BY <1>1, <2>1 DEF TypeOK
<1>7. Paired'
  BY <1>1, <1>5, <1>6 DEF Paired, InitialKind
<1>8. ASSUME NEW k
      PROVE  PanicsOf(k)' = PanicsOf(k) /\ PanicsOf(k) \in Nat
  BY <1>1, Countable DEF PanicsOf
<1>9. RestartsPaid'
  <2>1. CASE ~(shutdown = "no" /\ ~raced)
    <3>1. ~(shutdown' = "no" /\ ~raced')
      BY <1>1, <2>1
    <3> QED BY <3>1, Zenon DEF RestartsPaid
  <2>2. CASE shutdown = "no" /\ ~raced
    <3>1. ASSUME NEW i \in DOMAIN infos
          PROVE  infos[i].restarts + (IF pc'[workers[i]] = "finished" THEN 1 ELSE 0)
                   <= PanicsOf(infos[i].kind)
      <4>1. infos[i].restarts + (IF pc[workers[i]] = "finished" THEN 1 ELSE 0)
              <= PanicsOf(infos[i].kind)
        BY <2>2, <3>1 DEF RestartsPaid
      <4>2. Len(workers) = Len(infos)
        BY <1>1, <2>2, PoolTypes DEF Paired
      <4>3. workers[i] \in Slots /\ infos[i].restarts \in Int
        BY <3>1, <4>2, PoolTypes
      <4>4. pc'[workers[i]] = "finished" => pc[workers[i]] = "finished"
        BY <1>2, <4>3
      <4>5. PanicsOf(infos[i].kind) \in Nat
        BY <1>8
      <4> QED BY <4>1, <4>3, <4>4, <4>5
    <3>2. ASSUME NEW p \in DOMAIN Pool
          PROVE  IF pc'[p] = "free" THEN PanicsOf(Pool[p]) > MaxRestarts
                 ELSE \E i \in DOMAIN workers : workers[i] = p
      <4>1. pc'[p] = pc[p]
        BY <1>2, <1>5, <3>2, SlotsProperties
      <4> QED BY <2>2, <3>2, <4>1 DEF RestartsPaid
    <3>3. ASSUME NEW v \in Slots, pc'[v] = "finished"
          PROVE  PanicsOf(kind[v]) > 0
      BY <1>2, <2>2, <3>3 DEF RestartsPaid
    <3>4. infos' = infos /\ workers' = workers /\ kind' = kind
      BY <1>1, <1>6, <2>2
    <3> QED BY <1>8, <3>1, <3>2, <3>3, <3>4 DEF RestartsPaid
  <2> QED BY <2>1, <2>2
<1>10. SignalStands'
  <2>1. /\ shutdown = "no" => woken' = {}
        /\ ~missed' => ~missed /\ Scaler \notin woken /\ woken' = woken
    BY <1>1, OverlookedIsMissed
  <2>2. shutdown # "no" => missed'
    BY <1>1, <2>1 DEF SignalStands
  <2> QED BY <1>1, <2>1, <2>2 DEF SignalStands
<1> QED BY <1>3, <1>4, <1>7, <1>9, <1>10

\* One vector gets ahead of the other ...
LEMMA PushesHandleKeeps ==
  ASSUME QueueIInv, ScalerPushesHandle
  PROVE  QueueIInv'
<1> USE DEF QueueIInv
<1>1. /\ scaler = "handle" /\ scaler' = "info" /\ workers' = Append(workers, fresh) /\ fresh' = 1
      /\ UNCHANGED <<queue, depth, permits, active, submit, fate, panics, infos, kind, pc,
                     raced, shutdown, woken, missed, task, sup, scan>>
  BY DEF ScalerPushesHandle, queues, signal
<1> DEFINE n == Len(workers)
<1>2. fresh \in Slots /\ workers \in Seq(Slots) /\ n \in Nat /\ DOMAIN workers = 1 .. n
  BY PoolTypes DEF TypeOK
<1>3. /\ workers' \in Seq(Slots) /\ Len(workers') = n + 1 /\ workers'[n + 1] = fresh
      /\ \A i \in 1 .. n : workers'[i] = workers[i]
      /\ DOMAIN workers' = 1 .. n + 1
  BY <1>1, <1>2, AppendProperties, LenProperties
<1> HIDE DEF n
<1>4. TypeOK'
  BY <1>1, <1>3, SlotsProperties DEF TypeOK
<1>5. TasksInOnePlace' /\ StepsFitKinds' /\ CountersAccountForWork'
  BY <1>1, WorkStays
<1>6. SignalStands'
  BY <1>1, DeafStep DEF Deaf, signal
<1>7. ~raced /\ shutdown # "done" => n = Len(infos) /\ DOMAIN infos = 1 .. n
  <2>1. ~raced /\ shutdown # "done" => n = Len(infos)
    BY <1>1, PoolTypes DEF Paired, n
  <2> QED BY <2>1, PoolTypes
<1>8. Paired'
  <2>1. CASE raced \/ shutdown = "done"
    <3>1. raced' \/ shutdown' = "done"
      BY <1>1, <2>1
    <3> QED BY <3>1, Zenon DEF Paired
  <2>2. CASE ~raced /\ shutdown # "done"
    <3>1. \A i \in DOMAIN infos : infos[i].kind = kind[workers'[i]]
      BY <1>3, <1>7, <2>2 DEF Paired
    <3>2. workers'[Len(workers')] \notin DOMAIN Pool
      BY <1>1, <1>3, <2>2 DEF Paired
    <3>3. Len(workers') = Len(infos) + 1 /\ \A w \in Slots : kind[w] = InitialKind(w)
      BY <1>3, <1>7, <2>2 DEF Paired
    <3>4. /\ infos' = infos /\ kind' = kind /\ scaler' = "info"
      BY <1>1
    <3> QED BY <3>1, <3>2, <3>3, <3>4 DEF Paired, InitialKind
  <2> QED BY <2>1, <2>2
<1>9. RestartsPaid'
  <2>1. CASE ~(shutdown = "no" /\ ~raced)
    <3>1. ~(shutdown' = "no" /\ ~raced')
      BY <1>1, <2>1
    <3> QED BY <3>1, Zenon DEF RestartsPaid
  <2>2. CASE shutdown = "no" /\ ~raced
    <3>1. \A i \in DOMAIN infos : workers'[i] = workers[i]
      BY <1>3, <1>7, <2>2
    <3>2. \A p : (\E i \in DOMAIN workers : workers[i] = p) => \E i \in DOMAIN workers' : workers'[i] = p
      BY <1>2, <1>3
    <3>3. ASSUME NEW k
          PROVE  PanicsOf(k)' = PanicsOf(k)
      BY <1>1 DEF PanicsOf
    <3>4. infos' = infos /\ kind' = kind /\ pc' = pc
      BY <1>1
    <3> QED BY <2>2, <3>1, <3>2, <3>3, <3>4 DEF RestartsPaid
  <2> QED BY <2>1, <2>2
<1> QED BY <1>4, <1>5, <1>6, <1>8, <1>9

\* ... and the other catches up.
LEMMA PushesInfoKeeps ==
  ASSUME QueueIInv, ScalerPushesInfo
  PROVE  QueueIInv'
<1> USE DEF QueueIInv
<1> DEFINE info == [kind |-> "Subagent", restarts |-> 0]
           Info == [kind : Kinds, restarts : 0 .. MaxRestarts]
           n == Len(infos)
<1>1. /\ scaler = "info" /\ scaler' = "select" /\ infos' = Append(infos, info)
      /\ UNCHANGED <<queue, depth, permits, active, submit, fate, panics, workers, kind, pc,
                     raced, shutdown, woken, missed, task, sup, scan, fresh>>
  BY DEF ScalerPushesInfo, ScalerUnchanged, queues, signal
<1>2. info \in Info /\ infos \in Seq(Info) /\ n \in Nat /\ DOMAIN infos = 1 .. n
  BY PoolTypes, QueueAssumption DEF TypeOK, Kinds
<1>3. /\ infos' \in Seq(Info) /\ Len(infos') = n + 1 /\ infos'[n + 1] = info
      /\ \A i \in 1 .. n : infos'[i] = infos[i]
      /\ DOMAIN infos' = 1 .. n + 1
  <2> HIDE DEF info, Info
  <2> QED BY <1>1, <1>2, AppendProperties, LenProperties
<1>4. TypeOK'
  BY <1>1, <1>3 DEF TypeOK
<1>5. TasksInOnePlace' /\ StepsFitKinds' /\ CountersAccountForWork'
  BY <1>1, WorkStays
<1>6. SignalStands'
  BY <1>1, DeafStep DEF Deaf, signal
<1> HIDE DEF n
<1>7. CASE raced \/ shutdown = "done"
  <2>1. raced' \/ shutdown' = "done"
    BY <1>1, <1>7
  <2>2. Paired'
    BY <2>1, Zenon DEF Paired
  <2>3. ~(shutdown' = "no" /\ ~raced')
    BY <2>1
  <2>4. RestartsPaid'
    BY <2>3, Zenon DEF RestartsPaid
  <2> QED BY <1>4, <1>5, <1>6, <2>2, <2>4
<1>8. CASE ~raced /\ shutdown # "done"
  <2>1. /\ Len(workers) = n + 1 /\ \A w \in Slots : kind[w] = InitialKind(w)
        /\ \A i \in 1 .. n : infos[i].kind = kind[workers[i]]
        /\ workers[n + 1] \notin DOMAIN Pool
    BY <1>1, <1>2, <1>8 DEF Paired, n
  <2>2. workers[n + 1] \in Slots
    BY <1>2, <2>1, PoolTypes
  <2>3. kind[workers[n + 1]] = "Subagent"
    BY <2>1, <2>2 DEF InitialKind
  <2>4. Paired'
    <3>1. \A i \in 1 .. n + 1 : infos'[i].kind = kind[workers[i]]
      BY <1>2, <1>3, <2>1, <2>3
    <3> QED BY <1>1, <1>3, <2>1, <3>1 DEF Paired, InitialKind
  <2>5. RestartsPaid'
    <3>1. CASE shutdown # "no"
      <4>1. ~(shutdown' = "no" /\ ~raced')
        BY <1>1, <3>1
      <4> QED BY <4>1, Zenon DEF RestartsPaid
    <3>2. CASE shutdown = "no"
      <4>1. ASSUME NEW k
            PROVE  PanicsOf(k)' = PanicsOf(k) /\ PanicsOf(k) \in Nat
        BY <1>1, Countable DEF PanicsOf
      <4>2. ASSUME NEW i \in 1 .. n + 1
            PROVE  infos'[i].restarts + (IF pc[workers[i]] = "finished" THEN 1 ELSE 0)
                     <= PanicsOf(infos'[i].kind)
        <5>1. CASE i \in 1 .. n
          BY <1>2, <1>3, <1>8, <3>2, <5>1 DEF RestartsPaid
        <5>2. CASE i = n + 1
          <6>1. infos'[i].restarts = 0 /\ infos'[i].kind = "Subagent"
            BY <1>3, <5>2
          <6>2. pc[workers[i]] = "finished" => PanicsOf("Subagent") > 0
            BY <1>8, <2>2, <2>3, <3>2, <5>2 DEF RestartsPaid
          <6>3. PanicsOf("Subagent") \in Nat
            BY <4>1
          <6> QED BY <6>1, <6>2, <6>3
        <5> QED BY <1>2, <4>2, <5>1, <5>2
      <4>3. workers' = workers /\ kind' = kind /\ pc' = pc
        BY <1>1
      <4> QED BY <1>3, <1>8, <3>2, <4>1, <4>2, <4>3 DEF RestartsPaid
    <3> QED BY <3>1, <3>2
  <2> QED BY <1>4, <1>5, <1>6, <2>4, <2>5
<1> QED BY <1>7, <1>8

LEMMA ScalerKeeps ==
  ASSUME QueueIInv, ScalerStep
  PROVE  QueueIInv'
<1> USE DEF QueueIInv
<1>1. CASE ScalerSkips \/ ScalerExits
  <2>1. /\ scaler = "select" /\ Scaler \in woken /\ woken' = woken \ {Scaler}
        /\ \/ scaler' = "exited" /\ missed' = missed
           \/ scaler' = "select" /\ missed' = TRUE
        /\ UNCHANGED <<queue, depth, permits, active, submit, fate, panics, workers, infos, kind,
                       pc, raced, shutdown, task, sup, scan, fresh>>
    BY <1>1 DEF ScalerSkips, ScalerExits, ScalerUnchanged, Overlooks, queues, TypeOK
  <2>2. TypeOK'
    BY <2>1 DEF TypeOK
  <2>3. TasksInOnePlace' /\ StepsFitKinds' /\ CountersAccountForWork'
    BY <2>1, WorkStays
  <2>4. shutdown' # "no" /\ shutdown' = shutdown
    BY <2>1 DEF SignalStands
  <2>5. Paired'
    BY <2>1 DEF Paired, InitialKind
  <2>6. RestartsPaid'
    BY <2>4, Zenon DEF RestartsPaid
  <2>7. SignalStands'
    BY <2>1, <2>4, SlotsProperties DEF SignalStands
  <2> QED BY <2>2, <2>3, <2>5, <2>6, <2>7
<1> QED BY <1>1, ScalerSpawnsKeeps, PushesHandleKeeps, PushesInfoKeeps DEF ScalerStep

(***************************************************************************)
(* shutdown                                                                *)
(***************************************************************************)
LEMMA ShutdownKeeps ==
  ASSUME QueueIInv, Notify \/ ShutdownLocks \/ ShutdownEnds
  PROVE  QueueIInv'
<1> USE DEF QueueIInv
<1>1. UNCHANGED <<queue, depth, permits, active, submit, fate, panics, infos, kind, pc, raced,
                  task, sup, scan, scaler, fresh>>
  BY DEF Notify, ShutdownLocks, ShutdownEnds, ShutdownUnchanged, queues
<1>2. TasksInOnePlace' /\ StepsFitKinds' /\ CountersAccountForWork'
  BY <1>1, WorkStays
<1>3. shutdown' # "no"
  BY DEF Notify, ShutdownLocks, ShutdownEnds
<1>4. RestartsPaid'
  BY <1>3, Zenon DEF RestartsPaid
<1>5. CASE Notify
  <2>1. /\ shutdown = "no" /\ shutdown' = "notified" /\ woken' = Listeners
        /\ missed' = (Deaf # {}) /\ workers' = workers
    BY <1>5 DEF Notify
  <2>2. TypeOK'
    BY <1>1, <2>1 DEF TypeOK, Listeners
  <2>3. Paired'
    BY <1>1, <2>1 DEF Paired, InitialKind
  <2>4. SignalStands'
    <3>1. SUFFICES ASSUME Deaf = {}
                   PROVE  /\ \A w \in Slots : \/ pc[w] \in {"free", "finished"}
                                              \/ pc[w] = "select" /\ w \in Listeners
                          /\ sup = "exited" \/ (sup = "select" /\ Supervisor \in Listeners)
                          /\ scaler = "exited" \/ (scaler = "select" /\ Scaler \in Listeners)
      BY <1>1, <1>3, <2>1 DEF SignalStands
    <3>2. \A w \in Slots : pc[w] \in {"free", "finished", "select"}
      BY <3>1 DEF Deaf
    <3>3. sup # "scan" /\ scaler \notin {"handle", "info"}
      BY <3>1 DEF Deaf
    <3> QED BY <3>2, <3>3 DEF Listeners, TypeOK
  <2> QED BY <1>2, <1>4, <2>2, <2>3, <2>4
<1>6. CASE ShutdownLocks
  <2>1. /\ shutdown = "notified" /\ shutdown' = "draining"
        /\ UNCHANGED <<workers, woken, missed>>
    BY <1>6 DEF ShutdownLocks
  <2>2. TypeOK'
    BY <1>1, <2>1 DEF TypeOK
  <2>3. Paired'
    BY <1>1, <2>1 DEF Paired, InitialKind
  <2>4. SignalStands'
    BY <1>1, <2>1 DEF SignalStands
  <2> QED BY <1>2, <1>4, <2>2, <2>3, <2>4
<1>7. CASE ShutdownEnds
  <2>1. /\ shutdown = "draining" /\ shutdown' = "done" /\ workers' = <<>>
        /\ UNCHANGED <<woken, missed>>
    BY <1>7 DEF ShutdownEnds
  <2>2. TypeOK'
    <3>1. workers' \in Seq(Slots)
      BY <2>1, EmptySeq
    <3> QED BY <1>1, <2>1, <3>1 DEF TypeOK
  <2>3. Paired'
    BY <2>1, Zenon DEF Paired
  <2>4. SignalStands'
    BY <1>1, <2>1 DEF SignalStands
  <2> QED BY <1>2, <1>4, <2>2, <2>3, <2>4
<1> QED BY <1>5, <1>6, <1>7

(***************************************************************************)
(* The theorems                                                            *)
(***************************************************************************)
LEMMA InitialState ==
  ASSUME Init
  PROVE  QueueIInv
<1>1. \A w \in Slots : pc[w] \in {"spawned", "free"} /\ (pc[w] = "free" <=> w \notin DOMAIN Pool)
  BY DEF Init
<1>2. Cardinality({}) = 0
  BY FS_EmptySet
<1>3. /\ workers \in Seq(Slots) /\ Len(workers) = Len(Pool)
      /\ infos \in Seq([kind : Kinds, restarts : 0 .. MaxRestarts]) /\ Len(infos) = Len(Pool)
      /\ DOMAIN workers = DOMAIN Pool /\ DOMAIN infos = DOMAIN Pool
      /\ \A i \in DOMAIN Pool : /\ workers[i] = i
                                /\ infos[i].kind = Pool[i] /\ infos[i].restarts = 0
  <2>1. Len(Pool) \in Nat /\ DOMAIN Pool = 1 .. Len(Pool)
    BY SlotsProperties
  <2>2. \A S : \A f \in [1 .. Len(Pool) -> S] : f \in Seq(S) /\ Len(f) = Len(Pool)
    <3> TAKE S
    <3> TAKE f \in [1 .. Len(Pool) -> S]
    <3>1. f \in Seq(S)
      BY <2>1, SeqDef
    <3>2. Len(f) \in Nat /\ DOMAIN f = 1 .. Len(f) /\ DOMAIN f = 1 .. Len(Pool)
      BY <3>1, LenProperties
    <3>3. 1 .. Len(f) = 1 .. Len(Pool) => Len(f) = Len(Pool)
      BY <2>1, <3>2
    <3> QED BY <3>1, <3>2, <3>3
  <2>3. workers \in [1 .. Len(Pool) -> Slots]
    BY <2>1, SlotsProperties DEF Init
  <2>4. infos \in [1 .. Len(Pool) -> [kind : Kinds, restarts : 0 .. MaxRestarts]]
    BY <2>1, SlotsProperties, QueueAssumption DEF Init
  <2>5. \A i \in DOMAIN Pool : /\ workers[i] = i
                               /\ infos[i].kind = Pool[i] /\ infos[i].restarts = 0
    BY DEF Init
  <2> QED BY <2>1, <2>2, <2>3, <2>4, <2>5
<1>4. TypeOK
  <2>1. /\ depth \in 0 .. W - 1 /\ permits \in 0 .. MaxConcurrent /\ active \in 0 .. NestingLimit
        /\ panics \in 0 .. MaxPanics
    BY QueueAssumption DEF Init
  <2>2. queue \in [Kinds -> Seq(Tasks)]
    BY EmptySeq DEF Init
  <2>3. /\ kind \in [Slots -> Kinds]
        /\ pc \in [Slots -> {"free", "spawned", "select", "count", "acquire", "enter",
                             "process", "finished"}]
        /\ task \in [Slots -> Tasks \cup {NoTask}] /\ fresh \in Slots
    BY SlotsProperties DEF Init, Kinds
  <2>4. /\ submit \in [Tasks -> {"new", "checked", "sent", "accepted", "rejected"}]
        /\ fate \in [Tasks -> {"none", "taken", "panicked"}]
    BY DEF Init
  <2>5. /\ sup \in {"select", "scan", "exited"} /\ scan \in Nat \ {0}
        /\ scaler \in {"select", "handle", "info", "exited"}
        /\ shutdown \in {"no", "notified", "draining", "done"}
        /\ woken \in SUBSET (Slots \cup {Scaler, Supervisor})
        /\ missed \in BOOLEAN /\ raced \in BOOLEAN
    <3>1. /\ sup = "select" /\ scan = 1 /\ shutdown = "no" /\ woken = {}
          /\ missed = FALSE /\ raced = FALSE
      BY Zenon DEF Init
    <3>2. scaler \in {"select", "exited"}
      BY DEF Init
    <3>3. missed \in BOOLEAN /\ raced \in BOOLEAN
      BY <3>1, Zenon
    <3>4. woken \in SUBSET (Slots \cup {Scaler, Supervisor})
      BY <3>1, Zenon
    <3> QED BY <3>1, <3>2, <3>3, <3>4
  <2> QED BY <1>3, <2>1, <2>2, <2>3, <2>4, <2>5 DEF TypeOK
<1>5. TasksInOnePlace /\ StepsFitKinds
  <2>1. \A k \in Kinds : DOMAIN queue[k] = {}
    BY DEF Init
  <2>2. Holders = {}
    BY <1>1 DEF Holders, Busy
  <2>3. StepsFitKinds
    BY <1>1 DEF Init, StepsFitKinds
  <2> QED BY <2>1, <2>2, <2>3 DEF TasksInOnePlace, Init
<1>6. CountersAccountForWork
  <2>1. In("count") = {} /\ In("process") = {}
    BY <1>1 DEF In
  <2>2. Sent = {} /\ Leaked = {}
    BY DEF Init, Sent, Leaked
  <2>3. Processing("Subagent") = {} /\ Processing("Nested") = {}
    BY <2>1 DEF Processing
  <2>4. DepthTracksQueue
    <3>1. Len(queue["Subagent"]) = 0 /\ depth = 0
      BY DEF Init, Kinds
    <3>2. 0 % W = 0
      <4>1. W \in Nat \ {0} /\ 0 = W * 0 + 0 /\ 0 < W
        BY QueueAssumption
      <4> QED BY <4>1, ModUnique
    <3>3. 0 = (0 + 0 - 0) % W
      BY <3>2
    <3> QED BY <1>2, <2>1, <2>2, <3>1, <3>3 DEF DepthTracksQueue, Sent
  <2>5. PermitsConserved /\ NestingAccounted
    <3>1. permits = MaxConcurrent /\ active = 0 /\ MaxConcurrent \in Nat
      BY QueueAssumption DEF Init
    <3>2. /\ permits + Cardinality(Processing("Subagent")) = MaxConcurrent
          /\ active = Cardinality(Processing("Nested")) + Cardinality(Leaked)
      BY <1>2, <2>2, <2>3, <3>1
    <3> QED BY <3>2 DEF PermitsConserved, NestingAccounted, Processing, Leaked
  <2> QED BY <2>4, <2>5 DEF CountersAccountForWork
<1>7. Paired
  <2>1. \A w \in Slots : kind[w] = InitialKind(w)
    BY DEF Init, InitialKind
  <2>2. \A i \in DOMAIN infos : infos[i].kind = kind[workers[i]]
    BY <1>3, <2>1, SlotsProperties DEF InitialKind
  <2>3. scaler \notin {"handle", "info"}
    BY DEF Init
  <2>4. Len(workers) = Len(infos) + 0
    BY <1>3, SlotsProperties
  <2> QED BY <2>1, <2>2, <2>3, <2>4 DEF Paired
<1>8. RestartsPaid
  <2>1. \A k : PanicsOf(k) = 0
    <3> TAKE k
    <3>1. {t \in Tasks : KindOf[t] = k /\ fate[t] = "panicked"} = {}
      BY DEF Init
    <3> QED BY <1>2, <3>1 DEF PanicsOf
  <2>2. \A i \in DOMAIN infos :
          infos[i].restarts + (IF pc[workers[i]] = "finished" THEN 1 ELSE 0)
            <= PanicsOf(infos[i].kind)
    BY <1>1, <1>3, <2>1, SlotsProperties
  <2>3. \A p \in DOMAIN Pool : pc[p] # "free" /\ p \in DOMAIN workers /\ workers[p] = p
    BY <1>1, <1>3, SlotsProperties
  <2>4. \A w \in Slots : pc[w] # "finished"
    BY <1>1
  <2> QED BY <2>2, <2>3, <2>4 DEF RestartsPaid
<1>9. SignalStands
  BY DEF Init, SignalStands
<1> QED BY <1>4, <1>5, <1>6, <1>7, <1>8, <1>9 DEF QueueIInv

LEMMA StutterKeeps ==
  ASSUME QueueIInv, UNCHANGED vars
  PROVE  QueueIInv'
<1> USE DEF QueueIInv
<1>1. UNCHANGED <<queue, depth, permits, active, submit, fate, panics, workers, infos, kind, pc,
                  raced, shutdown, woken, missed, task, sup, scan, scaler, fresh>>
  BY DEF vars, queues, pools, signal
<1>2. TypeOK'
  BY <1>1 DEF TypeOK
<1>3. TasksInOnePlace' /\ StepsFitKinds' /\ CountersAccountForWork'
  BY <1>1, WorkStays
<1>4. Paired' /\ RestartsPaid'
  BY <1>1, PoolStays
<1>5. SignalStands'
  BY <1>1 DEF SignalStands
<1> QED BY <1>2, <1>3, <1>4, <1>5

\* The inductive invariant holds in every reachable state.
THEOREM QueueIsInductive == Spec => []QueueIInv
<1>1. QueueIInv /\ [Next]_vars => QueueIInv'
  <2>1. SUFFICES ASSUME QueueIInv, [Next]_vars
                 PROVE  QueueIInv'
    OBVIOUS
  <2>2. CASE Next
    BY <2>1, <2>2, SubmitterKeeps, WorkerKeeps, SupervisorKeeps, ScalerKeeps, ShutdownKeeps
       DEF Next
  <2> QED BY <2>1, <2>2, StutterKeeps
<1> QED BY <1>1, InitialState, PTL DEF Spec

\* Every variable has its type.
THEOREM Typing == Spec => []TypeOK
<1>1. QueueIInv => TypeOK
  BY DEF QueueIInv
<1> QED BY <1>1, QueueIsInductive, PTL

\* subagent_queue_depth, the permits and the nesting depth (manager.rs:694,
\* worker_tasks.rs:331) say what the work is.
THEOREM CountersAlwaysAccount == Spec => []CountersAccountForWork
<1>1. QueueIInv => CountersAccountForWork
  BY DEF QueueIInv
<1> QED BY <1>1, QueueIsInductive, PTL

\* A sequential queue never has two workers (manager.rs:280), unless the
\* supervisor met a half-done push or shutdown has emptied the handles.
THEOREM SequentialStaysSequential == Spec => []OneSequentialWorker
<1>1. ASSUME QueueIInv, ~raced, shutdown # "done", NEW k \in Sequential
      PROVE  Cardinality(Live(k)) <= 1
  <2>1. \A w \in Live(k) : w \in DOMAIN Pool /\ Pool[w] = k
    BY <1>1 DEF QueueIInv, Paired, InitialKind, Live, Sequential
  <2>2. \A v, w \in Live(k) : v = w
    BY <2>1, QueueAssumption
  <2>3. CASE Live(k) = {}
    BY <2>3, FS_EmptySet
  <2>4. CASE Live(k) # {}
    <3>1. PICK w : w \in Live(k)
      BY <2>4
    <3>2. Live(k) = {w}
      BY <2>2, <3>1
    <3>3. Cardinality({w}) = 1
      BY FS_Singleton
    <3> QED BY <3>2, <3>3
  <2> QED BY <2>3, <2>4
<1>2. QueueIInv => OneSequentialWorker
  BY <1>1 DEF OneSequentialWorker
<1> QED BY <1>2, QueueIsInductive, PTL

\* A queue of the pool keeps a worker or gets one back, until it has panicked
\* more often than max_restarts allows (manager.rs:410).
THEOREM QueuesStayServed == Spec => []EveryQueueIsServed
<1>1. ASSUME QueueIInv, shutdown = "no", ~raced, NEW k \in ToSet(Pool)
      PROVE  PanicsOf(k) > MaxRestarts \/ Live(k) # {} \/ Restartable(k)
  <2>1. PICK p \in DOMAIN Pool : Pool[p] = k
    BY DEF ToSet
  <2>2. p \in Slots /\ kind[p] = k
    BY <1>1, <2>1, SlotsProperties DEF QueueIInv, Paired, InitialKind
  <2>3. CASE pc[p] = "free"
    BY <1>1, <2>1, <2>3 DEF QueueIInv, RestartsPaid
  <2>4. CASE pc[p] \notin {"free", "finished"}
    BY <2>2, <2>4 DEF Live
  <2>5. CASE pc[p] = "finished"
    <3>1. PICK i \in DOMAIN workers : workers[i] = p
      BY <1>1, <2>1, <2>5 DEF QueueIInv, RestartsPaid
    <3>2. i \in DOMAIN infos /\ i \in 1 .. Len(infos)
      <4>1. /\ Len(workers) = Len(infos) + (IF scaler = "info" THEN 1 ELSE 0)
            /\ scaler = "info" => workers[Len(workers)] \notin DOMAIN Pool
        BY <1>1 DEF QueueIInv, Paired
      <4>2. TypeOK
        BY <1>1 DEF QueueIInv
      <4>3. scaler = "info" => i # Len(workers)
        BY <2>1, <3>1, <4>1
      <4> QED BY <3>1, <4>1, <4>2, <4>3, PoolTypes
    <3>3. infos[i].kind = k
      BY <1>1, <2>2, <3>1, <3>2 DEF QueueIInv, Paired
    <3>4. infos[i].restarts + 1 <= PanicsOf(k)
      BY <1>1, <2>5, <3>1, <3>2, <3>3 DEF QueueIInv, RestartsPaid
    <3>5. infos[i].restarts \in Nat /\ MaxRestarts \in Nat
      BY <1>1, <3>2, PoolTypes DEF QueueIInv
    <3>6. PanicsOf(k) \in Nat
      BY Countable DEF PanicsOf
    <3>7. CASE infos[i].restarts < MaxRestarts
      <4>1. Restarts(i)
        BY <3>2, <3>7 DEF Restarts
      <4> QED BY <2>5, <3>1, <3>3, <4>1 DEF Restartable
    <3>8. CASE ~(infos[i].restarts < MaxRestarts)
      BY <3>4, <3>5, <3>6, <3>8
    <3> QED BY <3>7, <3>8
  <2> QED BY <2>3, <2>4, <2>5
<1>2. QueueIInv => EveryQueueIsServed
  BY <1>1 DEF EveryQueueIsServed
<1> QED BY <1>2, QueueIsInductive, PTL

\* notify_waiters (manager.rs:741) is enough when everyone was listening and
\* nobody took another branch.
THEOREM NobodyIsForgotten == Spec => []SignalReachesAll
<1>1. QueueIInv => SignalReachesAll
  BY DEF QueueIInv, SignalStands, SignalReachesAll
<1> QED BY <1>1, QueueIsInductive, PTL
=============================================================================
