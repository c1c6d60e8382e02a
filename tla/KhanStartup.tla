----------------------------- MODULE KhanStartup -----------------------------
(***************************************************************************)
(* How net_recv starts and ends (main and cleanup_handler of sink.cpp,     *)
(* initializing_khan of khan.cpp, process_transducers of                   *)
(* fileprocessor.cpp).                                                     *)
(* Three threads race: main mounts the file system, the init thread        *)
(* connects to redis and loads the transducers once and for all, and the   *)
(* EVPath communication thread hands over the files net_send sends.  What  *)
(* was stored in redis survives the process; a call of database_setval is  *)
(* one step here (RedisStore takes it apart).  SIGINT makes the main       *)
(* thread close everything down, step by step, while the others go on.     *)
(***************************************************************************)
EXTENDS Naturals

CONSTANTS
    Servers,      \* how many servers stores.txt lists, none of them "cloud"
    Lines,        \* how many registrations transducers.txt holds
    FileInRoot,   \* is there a transducers.txt in servers[0] as well
    MaxLaunches   \* bound: times net_recv is started

ASSUME StartupAssumption ==
    /\ Servers \in Nat \ {0}
    /\ Lines \in Nat \ {0}
    /\ FileInRoot \in BOOLEAN
    /\ MaxLaunches \in Nat

VARIABLES
    setup,        \* redis: the text of "setup" "value"
    registered,   \* redis: how often each registration is listed
    main,         \* how far main has come
    init,         \* how far the init thread has come
    conn,         \* redisContext* c
    cwd,          \* the working directory; khan_init changes it to servers[0]
    server, line, \* the init thread's place in process_transducers
    fault,        \* the thread that made the process die, if one did
    launches,
    closing,      \* how far cleanup_handler has come, "no" before SIGINT
    execute_once, \* whether a file was processed, which sets Python up
    interrupted   \* history: loads in the middle of which the process ended

vars == <<setup, registered, main, init, conn, cwd, server, line, fault, launches,
          closing, execute_once, interrupted>>
stored == <<setup, registered>>
place == <<server, line>>
ending == <<closing, execute_once, interrupted>>

TypeOK ==
    /\ setup \in {"null", "true"}
    /\ registered \in [1..Lines -> Nat]
    /\ main \in {"down", "listening", "ready", "spawned", "mounted"}
    /\ init \in {"none", "connect", "check", "mark", "open", "load", "done"}
    /\ conn \in {"null", "error", "ok", "freed"}
    /\ cwd \in {"start", "servers[0]"}
    /\ server \in 0..Servers
    /\ line \in 0..Lines
    /\ fault \in {"none", "init", "comm", "fuse", "main"}
    /\ launches \in 0..MaxLaunches
    /\ closing \in {"no", "measurements", "cm", "python", "thread", "redis", "exit"}
    /\ execute_once \in {0, 1} /\ interrupted \in Nat

Init ==
    /\ setup = "null"
    /\ registered = [i \in 1..Lines |-> 0]
    /\ main = "down"
    /\ init = "none"
    /\ conn = "null"
    /\ cwd = "start"
    /\ server = 0 /\ line = 0
    /\ fault = "none"
    /\ launches = 0
    /\ closing = "no" /\ execute_once = 0 /\ interrupted = 0
------------------------------------------------------------------------------
\* Communication thread forked, contact list printed: net_send can be started.
Launch ==
    /\ main = "down"
    /\ launches < MaxLaunches
    /\ main' = "listening"
    /\ fault' = "none"
    /\ launches' = launches + 1
    /\ UNCHANGED <<stored, init, conn, cwd, place, ending>>

\* Py_Initialize, the FUSE operations, the options and stores.txt.
Prepare ==
    /\ main = "listening" /\ closing = "no"
    /\ main' = "ready"
    /\ UNCHANGED <<stored, init, conn, cwd, place, fault, launches, ending>>

\* pthread_create of initializing_khan; "Initialized Khan" is logged at once.
SpawnInit ==
    /\ main = "ready" /\ closing = "no"
    /\ main' = "spawned"
    /\ init' = "connect"
    /\ UNCHANGED <<stored, conn, cwd, place, fault, launches, ending>>

\* fuse_main calls khan_init, which changes the working directory.
Mount ==
    /\ main = "spawned" /\ closing = "no"
    /\ main' = "mounted"
    /\ cwd' = "servers[0]"
    /\ UNCHANGED <<stored, init, conn, place, fault, launches, ending>>
------------------------------------------------------------------------------
MidLoad == init \in {"open", "load"}

\* The process is gone; what it stored in redis stays.
Down ==
    /\ main' = "down" /\ init' = "none" /\ conn' = "null" /\ cwd' = "start"
    /\ server' = 0 /\ line' = 0
    /\ closing' = "no" /\ execute_once' = 0
    /\ interrupted' = IF MidLoad THEN interrupted + 1 ELSE interrupted
    /\ UNCHANGED <<stored, launches>>

\* A command on a connection that is not there dereferences a null pointer.
Fault(thread) ==
    /\ conn # "ok"
    /\ fault' = thread
    /\ Down

\* init_database: the result of redis_init is not looked at.
Connect ==
    /\ init = "connect"
    /\ conn' \in {"ok", "error"}
    /\ init' = "check"
    /\ UNCHANGED <<stored, main, cwd, place, fault, launches, ending>>

\* A variant that takes a failed look-up for "null".
CheckSetupBlindly ==
    /\ init = "check"
    /\ init' = IF conn = "ok" /\ setup = "true" THEN "done" ELSE "mark"
    /\ UNCHANGED <<stored, main, conn, cwd, place, fault, launches, ending>>

CheckSetup ==
    /\ init = "check"
    /\ \/ Fault("init")
       \/ /\ conn = "ok"
          /\ init' = IF setup = "true" THEN "done" ELSE "mark"
          /\ UNCHANGED <<stored, main, conn, cwd, place, fault, launches, ending>>

\* A variant that loads and never stores that it did.
MarkNothing ==
    /\ init = "mark"
    /\ server' = 1
    /\ init' = "open"
    /\ UNCHANGED <<stored, main, conn, cwd, line, fault, launches, ending>>

MarkSetup ==
    /\ init = "mark"
    /\ setup' = "true"
    /\ server' = 1
    /\ init' = "open"
    /\ UNCHANGED <<registered, main, conn, cwd, line, fault, launches, ending>>

\* A variant that loses the first line of the file.
OpenPastFirst ==
    /\ init = "open"
    /\ line' = 1
    /\ init' = "load"
    /\ UNCHANGED <<stored, main, conn, cwd, server, fault, launches, ending>>

\* process_transducers opens transducers.txt in whatever directory it is in.
OpenTransducers ==
    /\ init = "open"
    /\ line' = IF cwd = "servers[0]" /\ ~FileInRoot THEN Lines ELSE 0
    /\ init' = "load"
    /\ UNCHANGED <<stored, main, conn, cwd, server, fault, launches, ending>>

\* One registration: database_setval of a type or of an attribute of a type.
Register ==
    /\ init = "load"
    /\ line < Lines
    /\ line' = line + 1
    /\ registered' = [registered EXCEPT ![line + 1] = @ + 1]
    /\ UNCHANGED <<setup, main, init, conn, cwd, server, fault, launches, ending>>

NextServer ==
    /\ init = "load"
    /\ line = Lines
    /\ init' = IF server < Servers THEN "open" ELSE "done"
    /\ server' = IF server < Servers THEN server + 1 ELSE server
    /\ UNCHANGED <<stored, main, conn, cwd, line, fault, launches, ending>>

InitThread ==
    Connect \/ CheckSetup \/ MarkSetup \/ OpenTransducers \/ Register \/ NextServer
------------------------------------------------------------------------------
\* The communication thread runs until the CManager is closed.
Receiving == main # "down" /\ closing \in {"no", "measurements", "cm"}

\* file_receive runs the script on a file and stores what it learns.
FileProcessed ==
    /\ Receiving
    /\ conn = "ok"
    /\ execute_once' = 1
    /\ UNCHANGED <<stored, main, init, conn, cwd, place, fault, launches, closing, interrupted>>

\* It does so before there is a connection, or with the stopwatch freed and its
\* file closed.
FileEvent ==
    /\ Receiving
    /\ \/ Fault("comm")
       \/ closing = "cm" /\ fault' = "comm" /\ Down

\* khan_getattr and the other FUSE operations go on to the very end; those that
\* process a file need the stopwatch and Python.
FuseRequest ==
    /\ main = "mounted"
    /\ \/ Fault("fuse")
       \/ closing \notin {"no", "measurements"} /\ fault' = "fuse" /\ Down

Killed ==
    /\ main # "down"
    /\ UNCHANGED fault
    /\ Down
------------------------------------------------------------------------------
(* cleanup_handler, in the main thread *)

\* SIGINT; the stone and the contact list go first.
Interrupt ==
    /\ main # "down" /\ closing = "no"
    /\ closing' = "measurements"
    /\ UNCHANGED <<stored, main, init, conn, cwd, place, fault, launches, execute_once, interrupted>>

\* measurements_cleanup, then CManager_close.
Close(this, after) ==
    /\ closing = this
    /\ closing' = after
    /\ UNCHANGED <<stored, main, init, conn, cwd, place, fault, launches, execute_once, interrupted>>

CloseMeasurements == Close("measurements", "cm")
CloseCM == Close("cm", "python")

\* cleanup_python releases objects that only the first processed file makes.
ClosePython ==
    /\ closing = "python"
    /\ IF execute_once = 1
       THEN /\ closing' = "thread"
            /\ UNCHANGED <<stored, main, init, conn, cwd, place, fault, launches,
                           execute_once, interrupted>>
       ELSE fault' = "main" /\ Down

\* A variant that does not wait for the thread to go.
CancelInit ==
    /\ closing = "thread"
    /\ closing' = "redis"
    /\ UNCHANGED <<stored, main, init, conn, cwd, place, fault, launches, execute_once, interrupted>>

\* pthread_cancel and pthread_join of the init thread, wherever it is.
JoinInit ==
    /\ closing = "thread"
    /\ closing' = "redis"
    /\ init' = IF init = "done" THEN "done" ELSE "none"
    /\ interrupted' = IF MidLoad THEN interrupted + 1 ELSE interrupted
    /\ UNCHANGED <<stored, main, conn, cwd, place, fault, launches, execute_once>>

CloseRedis ==
    /\ closing = "redis"
    /\ closing' = "exit"
    /\ conn' = "freed"
    /\ UNCHANGED <<stored, main, init, cwd, place, fault, launches, execute_once, interrupted>>

\* fusermount and exit.
Exit == closing = "exit" /\ UNCHANGED fault /\ Down

Closing ==
    CloseMeasurements \/ CloseCM \/ ClosePython \/ JoinInit \/ CloseRedis \/ Exit

MainThread == Prepare \/ SpawnInit \/ Mount

Next ==
    \/ Launch \/ MainThread \/ InitThread
    \/ FileProcessed \/ FileEvent \/ FuseRequest \/ Killed
    \/ Interrupt \/ Closing

Spec == Init /\ [][Next]_vars

\* main and the init thread wait for nothing but redis, the closing sequence for
\* nothing but the init thread to meet a cancellation point.
FairSpec ==
    Spec /\ WF_vars(MainThread) /\ WF_vars(InitThread) /\ WF_vars(Closing)
------------------------------------------------------------------------------
(***************************************************************************)
(* However often net_recv is killed and started again, the transducers are *)
(* registered at most once for each server: nothing is loaded twice.       *)
(***************************************************************************)
LoadedOnce == \A i \in 1..Lines : registered[i] <= Servers

(***************************************************************************)
(* A load that gets the transducers at all comes to its end, unless the    *)
(* process dies: every registration is then listed once for each server.   *)
(***************************************************************************)
Loaded == \A i \in 1..Lines : registered[i] = Servers
LoadCompletes == init = "mark" ~> Loaded \/ main = "down"

(***************************************************************************)
(* "check if we've loaded metadata before" (khan.cpp): when "setup" is     *)
(* "true" and no init thread is at work, the metadata has been loaded,     *)
(* unless a process ended, killed or by its own closing sequence, between  *)
(* storing the flag and the end of the load; then it never will be.        *)
(***************************************************************************)
SetupMeansLoaded ==
    setup = "true" /\ init \in {"none", "done"} => Loaded \/ interrupted > 0

(***************************************************************************)
(* init_database's result is ignored, and files and FUSE requests may come *)
(* before the connection.  A thread that dies of the missing connection    *)
(* takes the process down, but never in the middle of a load: until SIGINT *)
(* only a kill leaves a half-loaded database behind.                       *)
(***************************************************************************)
FaultsInterruptNothing ==
    [][fault' \notin {"none", fault} /\ closing = "no"
          => init \notin {"mark", "open", "load"}]_vars

(***************************************************************************)
(* The closing sequence frees the connection while other threads run: the  *)
(* init thread, which uses it without looking, is never among them.        *)
(***************************************************************************)
ConnectionOutlivesLoad == conn = "freed" => init \in {"none", "done"}
------------------------------------------------------------------------------
(***************************************************************************)
(* The inductive invariant behind LoadedOnce: nothing is registered before *)
(* the flag is set, the init thread is about to set it only while it is    *)
(* not, and a load in progress has registered each line once for every     *)
(* server it is done with, and once more only up to the line it has        *)
(* reached.                                                                *)
(***************************************************************************)
NothingBeforeSetup ==
    setup = "null" => /\ \A i \in 1..Lines : registered[i] = 0
              /\ init \notin {"open", "load"}

MarkedOnce == init = "mark" => setup = "null"

LoadInPlace ==
    /\ init = "open" => \A i \in 1..Lines : registered[i] < server
    /\ init = "load" => \A i \in 1..Lines :
            registered[i] <= IF i <= line THEN server ELSE server - 1

\* The init thread is made once.
NoInitBeforeSpawn == main \in {"down", "listening", "ready"} => init = "none"

\* While it loads the init thread has a connection.
ConnectedPastCheck == init \in {"mark", "open", "load"} => conn = "ok"

\* Only the last steps of the closing sequence are without the init thread.
ClosedBehind ==
    /\ closing \in {"redis", "exit"} => init \in {"none", "done"}
    /\ conn = "freed" => closing = "exit"

LoadInv ==
    /\ TypeOK /\ NothingBeforeSetup /\ MarkedOnce /\ LoadInPlace /\ LoadedOnce
    /\ NoInitBeforeSpawn /\ ConnectedPastCheck /\ ClosedBehind

(***************************************************************************)
(* What SetupMeansLoaded needs on top of it: with transducers.txt wherever *)
(* it is opened, a load in progress is exact, and once the flag is set no  *)
(* other state of the init thread is without a whole load behind it.       *)
(***************************************************************************)
LoadExact ==
    /\ init = "open" => \A i \in 1..Lines : registered[i] = server - 1
    /\ init = "load" => \A i \in 1..Lines :
            registered[i] = IF i <= line THEN server ELSE server - 1
    /\ setup = "true" /\ init \notin {"open", "load"} => Loaded \/ interrupted > 0

ExactInv == LoadInv /\ LoadExact
==============================================================================
