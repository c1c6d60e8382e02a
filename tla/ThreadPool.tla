----------------------------- MODULE ThreadPool -----------------------------
(***************************************************************************)
(* threadpool.c: a ring of tasks, a mutex, a condition variable and        *)
(* thread_count workers.  Every section that holds the mutex is one step;  *)
(* what can come between two sections is a step of another thread.  A      *)
(* worker that waits on the condition variable has given the mutex back,   *)
(* and when it is signalled, or wakes for no reason, it is back before     *)
(* the mutex, where another worker may be faster.                          *)
(*                                                                         *)
(* The client is the one threadpool.h describes: one thread, the owner,    *)
(* creates the pool, adds tasks and destroys it once; a running task may   *)
(* add further tasks.                                                      *)
(***************************************************************************)
EXTENDS Naturals, Sequences, FiniteSets

CONSTANTS NThreads,    \* the thread_count asked for
          QueueSize,   \* queue_size
          MaxAdds,     \* bound: tasks accepted in a behaviour
          NoTask       \* no task: a worker that runs none, a slot never written

ASSUME PoolAssumption ==
    /\ NThreads \in Nat \ {0} /\ QueueSize \in Nat \ {0} /\ MaxAdds \in Nat
    /\ NoTask \notin Nat

Workers == 1..NThreads
Slots == 0..(QueueSize - 1)
Task == 1..MaxAdds      \* a task is the number of its acceptance

VARIABLES
    phase,      \* where the owner is: "new", "create", "ready", "join", and the
                \* ends "freed", "leaked" (threadpool_free refused), "null"
    threadCount,\* thread_count: the workers 1..threadCount have been created
    started,    \* how many threads are counted as started
    joined,     \* the threads the owner has joined
    status,     \* per worker: "none", "lock", "wait", "run", "gone"
    task,       \* the task a worker runs
    queue, head, tail, count,
    shutdown,   \* "no", "immediate" or "graceful"
    accepted    \* history: the tasks accepted so far

pool == <<queue, head, tail, count, shutdown, accepted>>
vars == <<phase, threadCount, started, joined, status, task,
          queue, head, tail, count, shutdown, accepted>>

Wrap(i) == IF i = QueueSize THEN 0 ELSE i

Waiting == {w \in Workers : status[w] = "wait"}
Awake   == {w \in Workers : status[w] = "lock"}

Init ==
    /\ phase = "new" /\ threadCount = 0 /\ started = 0 /\ joined = 0
    /\ status = [w \in Workers |-> "none"]
    /\ task = [w \in Workers |-> NoTask]
    /\ queue = [s \in Slots |-> NoTask]
    /\ head = 0 /\ tail = 0 /\ count = 0
    /\ shutdown = "no" /\ accepted = 0
-----------------------------------------------------------------------------
(* threadpool_create *)

\* The allocations; if one fails nothing has been started and NULL is returned.
Allocate ==
    /\ phase = "new"
    /\ phase' \in {"create", "null"}
    /\ UNCHANGED <<threadCount, started, joined, status, task, pool>>

\* One turn of the loop: pthread_create succeeds and the thread is counted.
CreateThread ==
    /\ phase = "create" /\ threadCount < NThreads
    /\ threadCount' = threadCount + 1
    /\ started' = started + 1
    /\ status' = [status EXCEPT ![threadCount'] = "lock"]
    /\ UNCHANGED <<phase, joined, task, pool>>

Created ==
    /\ phase = "create" /\ threadCount = NThreads
    /\ phase' = "ready"
    /\ UNCHANGED <<threadCount, started, joined, status, task, pool>>
-----------------------------------------------------------------------------
(* threadpool_add: by the owner, or by a task that is running *)

MayAdd == phase = "ready" \/ \E w \in Workers : status[w] = "run"

\* Variants that signal only for the first task in the ring, and never.
SignalFirst ==
    IF Waiting = {} \/ count # 0 THEN UNCHANGED status
    ELSE \E w \in Waiting : status' = [status EXCEPT ![w] = "lock"]
SignalNobody == UNCHANGED status

\* pthread_cond_signal: one waiter, if there is one, is back before the mutex.
Signal ==
    IF Waiting = {} THEN UNCHANGED status
    ELSE \E w \in Waiting : status' = [status EXCEPT ![w] = "lock"]

Add ==
    /\ MayAdd /\ accepted < MaxAdds
    /\ count # QueueSize
    /\ shutdown = "no"
    /\ accepted' = accepted + 1
    /\ queue' = [queue EXCEPT ![tail] = accepted']
    /\ tail' = Wrap(tail + 1)
    /\ count' = count + 1
    /\ Signal
    /\ UNCHANGED <<phase, threadCount, started, joined, task, head, shutdown>>

\* queue_full and shutdown: the call returns an error and changes nothing.
AddRefused ==
    /\ MayAdd
    /\ count = QueueSize \/ shutdown # "no"
    /\ UNCHANGED vars
-----------------------------------------------------------------------------
(* threadpool_destroy and threadpool_free *)

\* A variant without the broadcast.
BeginDestroyQuietly(flag) ==
    /\ shutdown' = flag
    /\ phase' = "join"
    /\ UNCHANGED <<threadCount, started, joined, status, task, queue, head, tail, count, accepted>>

\* Broadcast: everyone who waits is back before the mutex.
BeginDestroy(flag) ==
    /\ shutdown' = flag
    /\ status' = [w \in Workers |-> IF status[w] = "wait" THEN "lock" ELSE status[w]]
    /\ phase' = "join"
    /\ UNCHANGED <<threadCount, started, joined, task, queue, head, tail, count, accepted>>

Destroy == phase = "ready" /\ \E flag \in {"immediate", "graceful"} : BeginDestroy(flag)

\* pthread_create failed in the loop: threadpool_destroy(pool, 0).
CreateFails ==
    /\ phase = "create" /\ threadCount < NThreads
    /\ BeginDestroy("immediate")

JoinThread ==
    /\ phase = "join" /\ joined < threadCount
    /\ status[joined + 1] = "gone"
    /\ joined' = joined + 1
    /\ UNCHANGED <<phase, threadCount, started, status, task, pool>>

\* threadpool_free refuses while threads are counted as started; threadpool_destroy
\* does not look at its answer.
Free ==
    /\ phase = "join" /\ joined = threadCount
    /\ phase' = IF started > 0 THEN "leaked" ELSE "freed"
    /\ UNCHANGED <<threadCount, started, joined, status, task, pool>>
-----------------------------------------------------------------------------
(* threadpool_thread *)

MustWait  == count = 0 /\ shutdown = "no"
\* A variant that leaves tasks behind on a graceful shutdown.
MustLeaveEarly == shutdown # "no"

MustLeave == shutdown = "immediate" \/ (shutdown = "graceful" /\ count = 0)

Wait(w) ==
    /\ status[w] = "lock" /\ MustWait
    /\ status' = [status EXCEPT ![w] = "wait"]
    /\ UNCHANGED <<phase, threadCount, started, joined, task, pool>>

\* A variant that does not count itself out.
LeaveUncounted(w) ==
    /\ status[w] = "lock" /\ ~MustWait /\ MustLeave
    /\ status' = [status EXCEPT ![w] = "gone"]
    /\ UNCHANGED <<phase, threadCount, started, joined, task, pool>>

Leave(w) ==
    /\ status[w] = "lock" /\ ~MustWait /\ MustLeave
    /\ started' = started - 1
    /\ status' = [status EXCEPT ![w] = "gone"]
    /\ UNCHANGED <<phase, threadCount, joined, task, pool>>

Take(w) ==
    /\ status[w] = "lock" /\ ~MustWait /\ ~MustLeave
    /\ task' = [task EXCEPT ![w] = queue[head]]
    /\ head' = Wrap(head + 1)
    /\ count' = count - 1
    /\ status' = [status EXCEPT ![w] = "run"]
    /\ UNCHANGED <<phase, threadCount, started, joined, queue, tail, shutdown, accepted>>

FinishTask(w) ==
    /\ status[w] = "run"
    /\ status' = [status EXCEPT ![w] = "lock"]
    /\ task' = [task EXCEPT ![w] = NoTask]
    /\ UNCHANGED <<phase, threadCount, started, joined, pool>>

\* pthread_cond_wait may return although nobody signalled.
WakeUp(w) ==
    /\ status[w] = "wait"
    /\ status' = [status EXCEPT ![w] = "lock"]
    /\ UNCHANGED <<phase, threadCount, started, joined, task, pool>>
-----------------------------------------------------------------------------
\* The owner is done: the pool is no more.
Over == phase \in {"freed", "leaked", "null"} /\ UNCHANGED vars

Owner == Allocate \/ CreateThread \/ Created \/ CreateFails \/ JoinThread \/ Free
Worker(w) == Wait(w) \/ Leave(w) \/ Take(w) \/ FinishTask(w)

Next == \/ Owner \/ Add \/ AddRefused \/ Destroy \/ Over
        \/ \E w \in Workers : Worker(w) \/ WakeUp(w)

\* The scheduler runs every thread, the mutex is handed out without starving
\* anyone, and tasks end.  Nothing obliges the client to add or to destroy, or
\* a waiting thread to wake by itself.
Fairness == WF_vars(Owner) /\ \A w \in Workers : WF_vars(Worker(w))

Spec == Init /\ [][Next]_vars /\ Fairness
-----------------------------------------------------------------------------
TypeOK ==
    /\ phase \in {"new", "create", "ready", "join", "freed", "leaked", "null"}
    /\ threadCount \in 0..NThreads /\ started \in 0..NThreads /\ joined \in 0..NThreads
    /\ status \in [Workers -> {"none", "lock", "wait", "run", "gone"}]
    /\ task \in [Workers -> Task \cup {NoTask}]
    /\ queue \in [Slots -> Task \cup {NoTask}]
    /\ head \in Slots /\ tail \in Slots /\ count \in 0..QueueSize
    /\ shutdown \in {"no", "immediate", "graceful"}
    /\ accepted \in 0..MaxAdds

\* No wake-up is lost: as long as some worker waits, at least as many workers are
\* on their way to the mutex as tasks are queued, although threadpool_add signals
\* one thread only and a worker that comes from a task may take the task a woken
\* one was woken for; once the pool is shutting down nobody waits.
WakeUpsCover ==
    Waiting # {} => shutdown = "no" /\ Cardinality(Awake) >= count

\* threadpool_free gives the pool back, and only when every thread that was created
\* has left: its test of started never stops it, also when threadpool_create failed
\* half way and destroyed what it had made.
FreedWhenGone ==
    /\ phase # "leaked"
    /\ phase = "freed" => \A w \in Workers : status[w] = (IF w <= threadCount THEN "gone" ELSE "none")

\* The tasks in line: what the ring holds between head and tail.
Line == [i \in 1..count |->
            queue[IF head + i - 1 < QueueSize THEN head + i - 1 ELSE head + i - 1 - QueueSize]]

\* What a client sees of the shutdown.
Mode == CASE phase \in {"freed", "leaked"} -> "released"
          [] shutdown = "no" -> "open"
          [] OTHER -> shutdown

Promise == INSTANCE TaskPool WITH line <- Line, accepted <- accepted, running <- task,
                                  mode <- Mode

\* The ring, the flags and the workers together are a task pool as threadpool.h
\* promises it: first in first out, each task once, all of them on a graceful
\* shutdown, none after an immediate one, nothing running when the pool is freed.
ImplementsTaskPool == Promise!Spec

InLine(t) == \E i \in 1..count : Line[i] = t

\* Every accepted task is started, unless the pool is shut down at once.
TasksStart ==
    \A t \in Task : InLine(t) ~> (\E w \in Workers : task[w] = t) \/ shutdown = "immediate"

\* threadpool_destroy returns: the threads see the flag, leave and are joined.
DestroyReturns == phase = "join" ~> phase = "freed"
=============================================================================
