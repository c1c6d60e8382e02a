------------------------- MODULE ThreadPool_proofs --------------------------
(***************************************************************************)
(* The thread pool for any number of threads, any queue size and any       *)
(* number of tasks: it is well typed, no wake-up is lost, it is freed only *)
(* when all its threads are gone, and it implements TaskPool.              *)
(***************************************************************************)
EXTENDS ThreadPool, FiniteSetTheorems, SequenceTheorems, TLAPS

Alive == {w \in Workers : status[w] \in {"lock", "wait", "run"}}

\* Where the ring holds the i-th task in line.
Slot(i) == IF head + i - 1 < QueueSize THEN head + i - 1 ELSE head + i - 1 - QueueSize

\* The threads: created in order, counted in started while they live, joined in
\* order when gone; none leaves before the shutdown.
ThreadsInv ==
    /\ \A w \in Workers : status[w] = "none" <=> w > threadCount
    /\ joined <= threadCount
    /\ \A w \in Workers : w <= joined => status[w] = "gone"
    /\ started = Cardinality(Alive)
    /\ shutdown = "no" <=> phase \in {"new", "create", "ready", "null"}
    /\ shutdown = "no" => \A w \in Workers : status[w] # "gone"
    /\ phase = "ready" \/ shutdown = "graceful" => threadCount = NThreads
    /\ phase = "freed" => joined = threadCount
    /\ phase # "leaked"

\* The ring: tail is count slots after head, and what lies between are tasks; a
\* worker has a task exactly while it runs it; who left gracefully left no task.
RingInv ==
    /\ tail = Slot(count + 1)
    /\ \A i \in 1..count : queue[Slot(i)] \in Task
    /\ \A w \in Workers : task[w] # NoTask <=> status[w] = "run"
    /\ shutdown = "graceful" /\ (\E w \in Workers : status[w] = "gone") => count = 0

PoolInv == TypeOK /\ ThreadsInv /\ RingInv /\ WakeUpsCover
-----------------------------------------------------------------------------
LEMMA WorkerSets ==
    ASSUME NEW S \in SUBSET Workers
    PROVE  IsFiniteSet(S) /\ Cardinality(S) \in 0..NThreads
<1>1. IsFiniteSet(Workers) /\ Cardinality(Workers) = NThreads
  BY PoolAssumption, FS_Interval DEF Workers
<1>2. IsFiniteSet(S) /\ Cardinality(S) <= NThreads
  BY <1>1, FS_Subset
<1>3. Cardinality(S) \in Nat
  BY <1>2, FS_CardinalityType
<1> QED  BY <1>2, <1>3, PoolAssumption

LEMMA PoolInitInv == Init => PoolInv
<1> SUFFICES ASSUME Init PROVE PoolInv
  OBVIOUS
<1>1. Alive = {}
  BY DEF Init, Alive
<1>2. Waiting = {}
  BY DEF Init, Waiting
<1>3. Cardinality(Alive) = 0
  BY <1>1, FS_EmptySet
<1>4. TypeOK
  BY PoolAssumption DEF Init, TypeOK, Slots, Workers
<1>5. ThreadsInv
  BY <1>3, PoolAssumption DEF Init, ThreadsInv, Workers
<1>6. RingInv
  BY PoolAssumption DEF Init, RingInv, Slot
<1> QED  BY <1>2, <1>4, <1>5, <1>6 DEF PoolInv, WakeUpsCover

\* The types, but for the number of started threads, which ThreadsInv bounds.
TypeButStarted ==
    /\ phase \in {"new", "create", "ready", "join", "freed", "leaked", "null"}
    /\ threadCount \in 0..NThreads /\ joined \in 0..NThreads
    /\ status \in [Workers -> {"none", "lock", "wait", "run", "gone"}]
    /\ task \in [Workers -> Task \cup {NoTask}]
    /\ queue \in [Slots -> Task \cup {NoTask}]
    /\ head \in Slots /\ tail \in Slots /\ count \in 0..QueueSize
    /\ shutdown \in {"no", "immediate", "graceful"}
    /\ accepted \in 0..MaxAdds

LEMMA TypeStep ==
    ASSUME PoolInv, [Next]_vars
    PROVE  TypeButStarted'
<1> USE PoolAssumption DEF PoolInv, TypeOK, TypeButStarted
<1>1. CASE Allocate
  BY <1>1 DEF Allocate, pool
<1>2. CASE CreateThread
  BY <1>2 DEF CreateThread, pool, Workers
<1>3. CASE Created
  BY <1>3 DEF Created, pool
<1>4. CASE CreateFails \/ Destroy
  BY <1>4 DEF CreateFails, Destroy, BeginDestroy
<1>5. CASE JoinThread
  BY <1>5 DEF JoinThread, pool
<1>6. CASE Free
  BY <1>6 DEF Free, pool
<1>7. CASE Add
  <2>1. status' \in [Workers -> {"none", "lock", "wait", "run", "gone"}]
    BY <1>7 DEF Add, Signal
  <2>2. accepted' \in Task /\ accepted' \in 0..MaxAdds
    BY <1>7 DEF Add, Task
  <2>3. queue' \in [Slots -> Task \cup {NoTask}]
    BY <1>7, <2>2 DEF Add
  <2>4. tail' \in Slots
    BY <1>7 DEF Add, Wrap, Slots
  <2> QED  BY <1>7, <2>1, <2>2, <2>3, <2>4 DEF Add
<1>8. CASE AddRefused \/ Over \/ UNCHANGED vars
  BY <1>8 DEF AddRefused, Over, vars
<1>9. ASSUME NEW w \in Workers, Wait(w) \/ Leave(w) \/ FinishTask(w) \/ WakeUp(w)
      PROVE  TypeButStarted'
  BY <1>9 DEF Wait, Leave, FinishTask, WakeUp, pool
<1>10. ASSUME NEW w \in Workers, Take(w)
       PROVE  TypeButStarted'
  <2>1. head' \in Slots
    BY <1>10 DEF Take, Wrap, Slots
  <2>2. count # 0
    BY <1>10 DEF Take, MustWait, MustLeave
  <2> QED  BY <1>10, <2>1, <2>2 DEF Take
<1> QED  BY <1>1, <1>2, <1>3, <1>4, <1>5, <1>6, <1>7, <1>8, <1>9, <1>10
            DEF Next, Owner, Worker

LEMMA ThreadsStep ==
    ASSUME PoolInv, [Next]_vars
    PROVE  ThreadsInv'
<1> USE PoolAssumption DEF PoolInv, TypeOK, ThreadsInv
<1>a. IsFiniteSet(Alive)
  BY WorkerSets DEF Alive
<1>1. CASE Allocate
  <2>1. Alive' = Alive
    BY <1>1 DEF Allocate, Alive
  <2> QED  BY <1>1, <2>1 DEF Allocate, pool
<1>2. CASE CreateThread
  <2>1. threadCount + 1 \in Workers /\ threadCount + 1 \notin Alive
    BY <1>2 DEF CreateThread, Workers, Alive
  <2>2. Alive' = Alive \cup {threadCount + 1}
    BY <1>2, <2>1 DEF CreateThread, Alive
  <2>3. started' = Cardinality(Alive')
    BY <1>2, <1>a, <2>1, <2>2, FS_AddElement DEF CreateThread
  <2>4. \A w \in Workers : status'[w] = "none" <=> w > threadCount'
    BY <1>2, <2>1 DEF CreateThread, Workers
  <2> QED  BY <1>2, <2>1, <2>3, <2>4 DEF CreateThread, pool, Workers
<1>3. CASE Created
  <2>1. Alive' = Alive
    BY <1>3 DEF Created, Alive
  <2> QED  BY <1>3, <2>1 DEF Created, pool
<1>4. CASE CreateFails \/ Destroy
  <2>1. Alive' = Alive
    BY <1>4 DEF CreateFails, Destroy, BeginDestroy, Alive
  <2> QED  BY <1>4, <2>1 DEF CreateFails, Destroy, BeginDestroy, Workers
<1>5. CASE JoinThread
  <2>1. Alive' = Alive
    BY <1>5 DEF JoinThread, Alive
  <2>2. \A w \in Workers : w <= joined + 1 => w <= joined \/ w = joined + 1
    BY DEF Workers
  <2> QED  BY <1>5, <2>1, <2>2 DEF JoinThread, pool
<1>6. CASE Free
  <2>1. Alive' = Alive
    BY <1>6 DEF Free, Alive
  <2>2. Alive = {}
    BY <1>6 DEF Free, Alive, Workers
  <2>3. started = 0
    BY <2>2, FS_EmptySet
  <2> QED  BY <1>6, <2>1, <2>3 DEF Free, pool
<1>7. CASE Add
  <2>1. \A w \in Workers : \/ status'[w] = status[w]
                            \/ (status[w] = "wait" /\ status'[w] = "lock")
    BY <1>7 DEF Add, Signal, Waiting
  <2>2. Alive' = Alive
    BY <2>1 DEF Alive
  <2>3. \A w \in Workers : (status'[w] = "none" <=> status[w] = "none")
                            /\ (status'[w] = "gone" <=> status[w] = "gone")
    BY <2>1
  <2> QED  BY <1>7, <2>2, <2>3 DEF Add
<1>8. CASE AddRefused \/ Over \/ UNCHANGED vars
  <2>1. Alive' = Alive
    BY <1>8 DEF AddRefused, Over, vars, Alive
  <2> QED  BY <1>8, <2>1 DEF AddRefused, Over, vars
<1>9. ASSUME NEW w \in Workers, Wait(w) \/ FinishTask(w) \/ WakeUp(w) \/ Take(w)
      PROVE  ThreadsInv'
  <2>1. Alive' = Alive
    BY <1>9 DEF Wait, FinishTask, WakeUp, Take, Alive
  <2> QED  BY <1>9, <2>1 DEF Wait, FinishTask, WakeUp, Take, pool
<1>10. ASSUME NEW w \in Workers, Leave(w)
       PROVE  ThreadsInv'
  <2>1. w \in Alive /\ Alive' = Alive \ {w}
    BY <1>10 DEF Leave, Alive
  <2>2. started' = Cardinality(Alive')
    BY <1>10, <1>a, <2>1, FS_RemoveElement DEF Leave
  <2>3. shutdown # "no"
    BY <1>10 DEF Leave, MustLeave
  <2> QED  BY <1>10, <2>2, <2>3 DEF Leave, pool
<1> QED  BY <1>1, <1>2, <1>3, <1>4, <1>5, <1>6, <1>7, <1>8, <1>9, <1>10
            DEF Next, Owner, Worker

LEMMA RingStep ==
    ASSUME PoolInv, [Next]_vars
    PROVE  RingInv'
<1> USE PoolAssumption DEF PoolInv, TypeOK, RingInv
<1>1. CASE Allocate \/ Created \/ JoinThread \/ Free
  BY <1>1 DEF Allocate, Created, JoinThread, Free, pool, Slot
<1>2. CASE CreateThread
  <2>1. task[threadCount + 1] = NoTask
    BY <1>2 DEF CreateThread, ThreadsInv, Workers
  <2> QED  BY <1>2, <2>1 DEF CreateThread, pool, Slot, ThreadsInv
<1>4. CASE CreateFails \/ Destroy
  <2>1. \A w \in Workers : status'[w] # "gone"
    BY <1>4 DEF CreateFails, Destroy, BeginDestroy, ThreadsInv
  <2> QED  BY <1>4, <2>1 DEF CreateFails, Destroy, BeginDestroy, Slot
<1>7. CASE Add
  <2>1. accepted' \in Task
    BY <1>7 DEF Add, Task
  <2>2. \A i \in 1..count : Slot(i) # tail
    BY <1>7 DEF Add, Slot, Slots
  <2>3. \A i \in 1..count' : queue'[Slot(i)] \in Task
    <3>1. \A i \in 1..count : Slot(i) \in Slots /\ queue[Slot(i)] \in Task
      <4>1. \A i \in 1..count : Slot(i) \in Slots
        BY DEF Slot, Slots
      <4> QED  BY <4>1
    <3>3. \A i \in 1..count : queue'[Slot(i)] \in Task
      BY <1>7, <2>2, <3>1 DEF Add
    <3>2. queue'[Slot(count + 1)] \in Task
      BY <1>7, <2>1 DEF Add
    <3> QED  BY <1>7, <3>2, <3>3 DEF Add
  <2>4. tail' = Slot(count' + 1)
    BY <1>7 DEF Add, Slot, Slots, Wrap
  <2>5. \A w \in Workers : (status'[w] = "run" <=> status[w] = "run")
                            /\ status'[w] # "gone"
    BY <1>7 DEF Add, Signal, Waiting, ThreadsInv
  <2>6. head' = head /\ \A i \in 1..count' : Slot(i)' = Slot(i)
    BY <1>7 DEF Add, Slot
  <2> QED  BY <1>7, <2>3, <2>4, <2>5, <2>6 DEF Add, Slot
<1>8. CASE AddRefused \/ Over \/ UNCHANGED vars
  BY <1>8 DEF AddRefused, Over, vars, Slot
<1>9. ASSUME NEW w \in Workers, Wait(w) \/ FinishTask(w) \/ WakeUp(w) \/ Leave(w)
      PROVE  RingInv'
  BY <1>9 DEF Wait, FinishTask, WakeUp, Leave, MustWait, MustLeave, pool, Slot
<1>10. ASSUME NEW w \in Workers, Take(w)
       PROVE  RingInv'
  <2>1. count \in 1..QueueSize /\ shutdown # "immediate"
    BY <1>10 DEF Take, MustWait, MustLeave
  <2>2. queue[head] \in Task
    BY <2>1 DEF Slot, Slots
  <2>3. \A i \in 1..count' : queue'[Slot(i)'] \in Task
    <3> SUFFICES ASSUME NEW i \in 1..(count - 1) PROVE queue[Slot(i)'] \in Task
      BY <1>10 DEF Take
    <3>1. Slot(i)' = Slot(i + 1)
      BY <1>10, <2>1 DEF Take, Slot, Slots, Wrap
    <3> QED  BY <3>1
  <2>4. tail' = Slot(count + 1)'
    BY <1>10, <2>1 DEF Take, Slot, Slots, Wrap
  <2>5. \A v \in Workers : task'[v] # NoTask <=> status'[v] = "run"
    BY <1>10, <2>2 DEF Take, Task
  <2>6. shutdown' = "graceful" /\ (\E v \in Workers : status'[v] = "gone") => count' = 0
    BY <1>10, <2>1 DEF Take
  <2> QED  BY <2>3, <2>4, <2>5, <2>6
<1> QED  BY <1>1, <1>2, <1>4, <1>7, <1>8, <1>9, <1>10 DEF Next, Owner, Worker

\* The argument for the wake-ups: a task that is added while somebody waits brings
\* one waiter back before the mutex, one that is taken takes one worker away from
\* there, and a worker only starts to wait when nothing is queued.
LEMMA WakeStep ==
    ASSUME PoolInv, [Next]_vars
    PROVE  WakeUpsCover'
<1> USE PoolAssumption DEF PoolInv, TypeOK, WakeUpsCover
<1>a. IsFiniteSet(Awake) /\ Cardinality(Awake) \in Nat
  BY WorkerSets DEF Awake
<1>1. CASE Allocate \/ Created \/ JoinThread \/ Free \/ AddRefused \/ Over \/ UNCHANGED vars
  <2>1. Waiting' = Waiting /\ Awake' = Awake
    BY <1>1 DEF Allocate, Created, JoinThread, Free, AddRefused, Over, vars, Waiting, Awake
  <2> QED  BY <1>1, <2>1 DEF Allocate, Created, JoinThread, Free, AddRefused, Over, vars, pool
<1>2. CASE CreateThread
  <2>1. threadCount + 1 \in Workers /\ threadCount + 1 \notin Awake
    BY <1>2 DEF CreateThread, Workers, ThreadsInv, Awake
  <2>2. Waiting' = Waiting
    BY <1>2, <2>1 DEF CreateThread, Waiting, ThreadsInv, Workers
  <2>3. Awake' = Awake \cup {threadCount + 1}
    BY <1>2, <2>1 DEF CreateThread, Awake
  <2>4. Cardinality(Awake') = Cardinality(Awake) + 1
    BY <1>a, <2>1, <2>3, FS_AddElement
  <2> QED  BY <1>2, <1>a, <2>2, <2>4 DEF CreateThread, pool
<1>3. CASE CreateFails \/ Destroy
  <2>1. Waiting' = {}
    BY <1>3 DEF CreateFails, Destroy, BeginDestroy, Waiting
  <2> QED  BY <2>1
<1>4. CASE Add /\ Waiting = {}
  <2>1. Waiting' = {}
    BY <1>4 DEF Add, Signal, Waiting
  <2> QED  BY <2>1
<1>5. CASE Add /\ Waiting # {}
  <2>1. PICK w \in Waiting : status' = [status EXCEPT ![w] = "lock"]
    BY <1>5 DEF Add, Signal
  <2>2. w \notin Awake /\ Awake' = Awake \cup {w}
    BY <2>1 DEF Waiting, Awake
  <2>3. Cardinality(Awake') = Cardinality(Awake) + 1
    BY <1>a, <2>2, FS_AddElement
  <2> QED  BY <1>5, <1>a, <2>3 DEF Add
<1>6. ASSUME NEW w \in Workers, FinishTask(w) \/ WakeUp(w)
      PROVE  WakeUpsCover'
  <2>1. Awake' = Awake \cup {w} /\ w \notin Awake
    BY <1>6 DEF FinishTask, WakeUp, Awake
  <2>2. Waiting' \subseteq Waiting
    BY <1>6 DEF FinishTask, WakeUp, Waiting
  <2>3. Cardinality(Awake') = Cardinality(Awake) + 1
    BY <1>a, <2>1, FS_AddElement
  <2> QED  BY <1>6, <1>a, <2>2, <2>3 DEF FinishTask, WakeUp, pool
<1>7. ASSUME NEW w \in Workers, Wait(w)
      PROVE  WakeUpsCover'
  <2>1. Cardinality(Awake') \in Nat
    <3>1. Awake' = Awake \ {w}
      BY <1>7 DEF Wait, Awake
    <3> QED  BY <3>1, WorkerSets DEF Awake
  <2> QED  BY <1>7, <2>1 DEF Wait, MustWait, pool
<1>8. ASSUME NEW w \in Workers, Leave(w)
      PROVE  WakeUpsCover'
  BY <1>8 DEF Leave, MustLeave, Waiting
<1>9. ASSUME NEW w \in Workers, Take(w)
      PROVE  WakeUpsCover'
  <2>1. w \in Awake /\ Awake' = Awake \ {w}
    BY <1>9 DEF Take, Awake
  <2>2. Waiting' = Waiting
    BY <1>9 DEF Take, Waiting
  <2>3. Cardinality(Awake') = Cardinality(Awake) - 1
    BY <1>a, <2>1, FS_RemoveElement
  <2> QED  BY <1>9, <1>a, <2>2, <2>3 DEF Take
<1> QED  BY <1>1, <1>2, <1>3, <1>4, <1>5, <1>6, <1>7, <1>8, <1>9
            DEF Next, Owner, Worker

LEMMA PoolStep ==
    ASSUME PoolInv, [Next]_vars
    PROVE  PoolInv'
<1>1. TypeButStarted' /\ ThreadsInv' /\ RingInv' /\ WakeUpsCover'
  BY TypeStep, ThreadsStep, RingStep, WakeStep
<1>2. Alive' \in SUBSET Workers
  BY DEF Alive
<1>3. started' \in 0..NThreads
  BY <1>1, <1>2, WorkerSets DEF ThreadsInv
<1> QED  BY <1>1, <1>3 DEF PoolInv, TypeOK, TypeButStarted

\* The pool is well typed and its inductive invariant holds, for every number of
\* threads, size of the queue and number of tasks.
THEOREM PoolInvariant == Spec => []PoolInv
<1>1. PoolInv /\ [Next]_vars => PoolInv'
  BY PoolStep
<1> QED  BY PoolInitInv, <1>1, PTL DEF Spec

\* threadpool_add signals one thread only, and still no task waits for a worker
\* that sleeps.
THEOREM NoLostWakeUp == Spec => []WakeUpsCover
<1>1. PoolInv => WakeUpsCover
  BY DEF PoolInv
<1> QED  BY PoolInvariant, <1>1, PTL

\* threadpool_destroy always frees the pool it has joined, and only then.
THEOREM PoolFreedWhenGone == Spec => []FreedWhenGone
<1>1. PoolInv => FreedWhenGone
  BY DEF PoolInv, TypeOK, ThreadsInv, FreedWhenGone, Workers
<1> QED  BY PoolInvariant, <1>1, PTL
-----------------------------------------------------------------------------
(* The refinement: the ring is the line, the flags are the mode. *)

LEMMA LineIsSlots == Line = [i \in 1..count |-> queue[Slot(i)]]
BY DEF Line, Slot

LEMMA LineType ==
    ASSUME PoolInv
    PROVE  Line \in Seq(Task) /\ Len(Line) = count
BY LineIsSlots DEF PoolInv, TypeOK, RingInv

LEMMA NextLineType ==
    ASSUME PoolInv, [Next]_vars
    PROVE  Line' \in Seq(Task) /\ Len(Line') = count'
<1>1. PoolInv'
  BY PoolStep
<1>2. Line' = [i \in 1..count' |-> queue'[Slot(i)']]
  BY DEF Line, Slot
<1> QED  BY <1>1, <1>2 DEF PoolInv, TypeOK, RingInv

LEMMA Stutters ==
    ASSUME PoolInv, UNCHANGED <<queue, head, count, accepted, task>>, Mode' = Mode
    PROVE  UNCHANGED Promise!vars
BY DEF Line, Promise!vars

LEMMA RefineInit ==
    ASSUME Init
    PROVE  Promise!Init
<1>1. Line = << >>
  BY DEF Init, Line
<1> QED  BY <1>1 DEF Init, Promise!Init, Mode

LEMMA RefineAdd ==
    ASSUME PoolInv, Add
    PROVE  Promise!Accept
<1> USE PoolAssumption DEF PoolInv, TypeOK
<1>1. Mode = "open" /\ Mode' = "open"
  BY DEF Add, Mode, ThreadsInv
<1>2. Line' = Append(Line, accepted')
  <2>1. \A i \in 1..count : Slot(i) \in Slots /\ Slot(i) # tail /\ Slot(i)' = Slot(i)
    BY DEF Add, Slot, Slots, RingInv
  <2>2. \A i \in 1..count : queue'[Slot(i)'] = queue[Slot(i)]
    BY <2>1 DEF Add
  <2>3. Line' \in Seq(Task) /\ Len(Line') = count + 1
    BY NextLineType DEF Next, Add
  <2>4. accepted' \in Task
    BY DEF Add, Task
  <2>5. \A i \in 1..count : Line'[i] = Line[i]
    <3>1. \A i \in 1..count : i \in 1..count' /\ Line'[i] = queue'[Slot(i)']
      BY DEF Add, Line, Slot
    <3> QED  BY <2>2, <3>1, LineIsSlots
  <2>6. Line'[count + 1] = accepted'
    <3>1. Slot(count + 1) = tail
      BY DEF RingInv
    <3>2. \A i \in 1..count' : Line'[i] = queue'[Slot(i)']
      BY DEF Line, Slot
    <3>3. \A i \in 1..count' : Slot(i)' = Slot(i)
      BY DEF Add, Slot
    <3>4. queue'[tail] = accepted'
      BY DEF Add
    <3> QED  BY <3>1, <3>2, <3>3, <3>4 DEF Add
  <2>7. /\ Append(Line, accepted') \in Seq(Task)
        /\ Len(Append(Line, accepted')) = count + 1
        /\ \A i \in 1..count : Append(Line, accepted')[i] = Line[i]
        /\ Append(Line, accepted')[count + 1] = accepted'
    BY <2>4, LineType, AppendProperties
  <2>8. \A i \in 1..(count + 1) : Line'[i] = Append(Line, accepted')[i]
    BY <2>5, <2>6, <2>7
  <2> QED  BY <2>3, <2>7, <2>8, SeqEqual
<1>3. Len(Line) < QueueSize
  BY LineType DEF Add
<1> QED  BY <1>1, <1>2, <1>3 DEF Promise!Accept, Add

LEMMA RefineTake ==
    ASSUME PoolInv, NEW w \in Workers, Take(w)
    PROVE  Promise!Start(w)
<1> USE PoolAssumption DEF PoolInv, TypeOK
<1>1. count \in 1..QueueSize /\ shutdown # "immediate"
  BY DEF Take, MustWait, MustLeave
<1>2. phase # "freed"
  <2>1. w <= threadCount
    BY DEF Take, ThreadsInv, Workers
  <2> QED  BY <2>1 DEF Take, ThreadsInv
<1>3. Mode \in {"open", "graceful"} /\ Mode' = Mode
  BY <1>1, <1>2 DEF Take, Mode, ThreadsInv
<1>4. task[w] = NoTask
  BY DEF Take, RingInv
<1>5. Line # << >> /\ Head(Line) = queue[head]
  <2>1. Slot(1) = head
    BY DEF Slot, Slots
  <2> QED  BY <1>1, <2>1, LineType, LineIsSlots
<1>6. Line' = Tail(Line)
  <2>1. \A i \in 1..(count - 1) : Slot(i)' = Slot(i + 1)
    BY <1>1 DEF Take, Slot, Slots, Wrap
  <2>2. Line' \in Seq(Task) /\ Len(Line') = count - 1
    BY NextLineType DEF Next, Worker, Take
  <2>3. \A i \in 1..(count - 1) : Line'[i] = queue[Slot(i)']
    BY DEF Take, Line, Slot
  <2>4. \A i \in 1..(count - 1) : Line[i + 1] = queue[Slot(i + 1)]
    BY <1>1, LineIsSlots
  <2>5. /\ Tail(Line) \in Seq(Task) /\ Len(Tail(Line)) = count - 1
        /\ \A i \in 1..(count - 1) : Tail(Line)[i] = Line[i + 1]
    BY <1>5, LineType, HeadTailProperties
  <2>6. \A i \in 1..(count - 1) : Line'[i] = Tail(Line)[i]
    BY <2>1, <2>3, <2>4, <2>5
  <2> QED  BY <2>2, <2>5, <2>6, SeqEqual
<1> QED  BY <1>3, <1>4, <1>5, <1>6 DEF Promise!Start, Take

LEMMA RefineFree ==
    ASSUME PoolInv, Free
    PROVE  Promise!Release
<1> USE PoolAssumption DEF PoolInv, TypeOK
<1>1. \A w \in Workers : status[w] = (IF w <= threadCount THEN "gone" ELSE "none")
  BY DEF Free, ThreadsInv, Workers
<1>2. \A w \in Workers : task[w] = NoTask
  BY <1>1 DEF RingInv
<1>3. Mode = shutdown /\ Mode \in {"graceful", "immediate"}
  BY DEF Free, Mode, ThreadsInv
<1>4. ASSUME Mode = "graceful"
      PROVE  Line = << >>
  <2>1. 1 \in Workers /\ 1 <= threadCount
    BY <1>3, <1>4 DEF ThreadsInv, Workers
  <2>2. count = 0
    BY <1>1, <1>3, <1>4, <2>1 DEF RingInv
  <2> QED  BY <2>2 DEF Line
<1>5. Mode' = "released" /\ Line' = Line
  <2>1. phase' \in {"freed", "leaked"}
    BY DEF Free
  <2>2. Mode' = "released"
    BY <2>1, <1>3 DEF Mode, Free, pool, ThreadsInv
  <2> QED  BY <2>2 DEF Free, Line, pool
<1> QED  BY <1>2, <1>3, <1>4, <1>5 DEF Promise!Release, Free, pool

LEMMA RefineStep ==
    ASSUME PoolInv, [Next]_vars
    PROVE  [Promise!Next]_(Promise!vars)
<1> USE DEF Promise!Next
<1>1. CASE Allocate \/ CreateThread \/ Created \/ JoinThread
  <2>1. Mode' = Mode
    BY <1>1 DEF Allocate, CreateThread, Created, JoinThread, Mode, pool,
                PoolInv, ThreadsInv
  <2> QED  BY <1>1, <2>1, Stutters DEF Allocate, CreateThread, Created, JoinThread, pool
<1>2. CASE AddRefused \/ Over \/ UNCHANGED vars
  <2>1. Mode' = Mode
    BY <1>2 DEF AddRefused, Over, vars, Mode
  <2> QED  BY <1>2, <2>1, Stutters DEF AddRefused, Over, vars
<1>3. ASSUME NEW m \in {"graceful", "immediate"}, phase \in {"create", "ready"},
             BeginDestroy(m)
      PROVE  Promise!Close(m)
  <2>1. Mode = "open" /\ Mode' = m /\ Line' = Line
    BY <1>3 DEF BeginDestroy, Mode, Line, PoolInv, ThreadsInv
  <2> QED  BY <1>3, <2>1 DEF Promise!Close, BeginDestroy
<1>4. CASE CreateFails \/ Destroy
  BY <1>3, <1>4 DEF CreateFails, Destroy
<1>5. CASE Free
  BY <1>5, RefineFree
<1>6. CASE Add
  BY <1>6, RefineAdd
<1>7. ASSUME NEW w \in Workers, Take(w)
      PROVE  Promise!Start(w)
  BY <1>7, RefineTake
<1>8. ASSUME NEW w \in Workers, FinishTask(w)
      PROVE  Promise!Finish(w)
  <2>1. Mode' = Mode /\ Line' = Line
    BY <1>8 DEF FinishTask, Mode, Line, pool
  <2>2. task[w] # NoTask
    BY <1>8 DEF FinishTask, PoolInv, RingInv
  <2> QED  BY <1>8, <2>1, <2>2 DEF Promise!Finish, FinishTask, pool
<1>9. ASSUME NEW w \in Workers, Wait(w) \/ Leave(w) \/ WakeUp(w)
      PROVE  UNCHANGED Promise!vars
  <2>1. Mode' = Mode
    BY <1>9 DEF Wait, Leave, WakeUp, Mode, pool
  <2> QED  BY <1>9, <2>1, Stutters DEF Wait, Leave, WakeUp, pool
<1> QED  BY <1>1, <1>2, <1>4, <1>5, <1>6, <1>7, <1>8, <1>9 DEF Next, Owner, Worker

\* threadpool.c implements the task pool that threadpool.h promises: first in first
\* out, each accepted task started once, all of them before a graceful shutdown is
\* over, none after an immediate one, nothing running when the pool is freed.
THEOREM PoolRefinement == Spec => ImplementsTaskPool
<1>1. Init => Promise!Init
  BY RefineInit
<1>2. PoolInv /\ [Next]_vars => [Promise!Next]_(Promise!vars)
  BY RefineStep
<1> QED  BY PoolInvariant, <1>1, <1>2, PTL DEF Spec, ImplementsTaskPool, Promise!Spec
=============================================================================
