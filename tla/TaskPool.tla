------------------------------ MODULE TaskPool ------------------------------
(***************************************************************************)
(* What a thread pool promises its client (threadpool.h): a task that is   *)
(* accepted waits in line, the line never holds more than its size, the    *)
(* tasks start in the order they were accepted and each at most once.      *)
(* After a graceful shutdown nothing more is accepted and the tasks in     *)
(* line still run; after an immediate one nothing more is started.  The    *)
(* pool is given back only when no task is running, and after a graceful   *)
(* shutdown only when none is left in line.                                *)
(***************************************************************************)
EXTENDS Naturals, Sequences

CONSTANTS Workers,    \* who runs tasks
          QueueSize,  \* the most tasks in line
          NoTask

VARIABLES line,       \* the tasks in line, the oldest first
          accepted,   \* how many tasks were accepted so far: a task is its number
          running,    \* the task each worker runs, or NoTask
          mode        \* "open", then "graceful" or "immediate", then "released"

vars == <<line, accepted, running, mode>>

Init == line = << >> /\ accepted = 0 /\ running = [w \in Workers |-> NoTask]
        /\ mode = "open"

Accept ==
    /\ mode = "open"
    /\ Len(line) < QueueSize
    /\ accepted' = accepted + 1
    /\ line' = Append(line, accepted')
    /\ UNCHANGED <<running, mode>>

Start(w) ==
    /\ mode \in {"open", "graceful"}
    /\ running[w] = NoTask
    /\ line # << >>
    /\ running' = [running EXCEPT ![w] = Head(line)]
    /\ line' = Tail(line)
    /\ UNCHANGED <<accepted, mode>>

Finish(w) ==
    /\ running[w] # NoTask
    /\ running' = [running EXCEPT ![w] = NoTask]
    /\ UNCHANGED <<line, accepted, mode>>

Close(m) ==
    /\ mode = "open"
    /\ mode' = m
    /\ UNCHANGED <<line, accepted, running>>

Release ==
    /\ mode \in {"graceful", "immediate"}
    /\ \A w \in Workers : running[w] = NoTask
    /\ mode = "graceful" => line = << >>
    /\ mode' = "released"
    /\ UNCHANGED <<line, accepted, running>>

Next == \/ Accept \/ Release
        \/ \E w \in Workers : Start(w) \/ Finish(w)
        \/ \E m \in {"graceful", "immediate"} : Close(m)

Spec == Init /\ [][Next]_vars
=============================================================================
