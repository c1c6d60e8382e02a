--------------------------- MODULE KhanStartup_proofs -------------------------
(***************************************************************************)
(* However often net_recv is killed, closed and started again, and         *)
(* whichever way its threads race, nothing is registered twice for one     *)
(* server, a missing connection never interrupts a load, the connection    *)
(* is freed only when the init thread is gone, and the flag that says that *)
(* the transducers are loaded is true unless a process ended in between.   *)
(***************************************************************************)
EXTENDS KhanStartup, TLAPS

LEMMA StartupInit == Init => LoadInv
  BY StartupAssumption
     DEF Init, LoadInv, TypeOK, NothingBeforeSetup, MarkedOnce, LoadInPlace,
         LoadedOnce, NoInitBeforeSpawn, ConnectedPastCheck,
          ClosedBehind

\* The steps that leave redis and the load alone.
LEMMA StartupElsewhere ==
    ASSUME LoadInv, Launch \/ MainThread \/ Connect \/ FileProcessed
    PROVE  LoadInv'
  <1> USE StartupAssumption
      DEF LoadInv, TypeOK, NothingBeforeSetup, MarkedOnce, LoadInPlace,
          LoadedOnce, NoInitBeforeSpawn, ConnectedPastCheck,
          ClosedBehind, stored, place, ending
  <1>1. CASE Launch
    BY <1>1 DEF Launch
  <1>2. CASE Prepare
    BY <1>2 DEF Prepare
  <1>3. CASE SpawnInit
    BY <1>3 DEF SpawnInit
  <1>4. CASE Mount
    BY <1>4 DEF Mount
  <1>5. CASE Connect
    BY <1>5 DEF Connect
  <1>6. CASE FileProcessed
    BY <1>6 DEF FileProcessed
  <1> QED  BY <1>1, <1>2, <1>3, <1>4, <1>5, <1>6 DEF MainThread

\* A process that dies leaves no load in progress.
LEMMA StartupDown ==
    ASSUME LoadInv, Down, fault' \in {"none", "init", "comm", "fuse", "main"}
    PROVE  LoadInv'
  BY StartupAssumption
     DEF LoadInv, TypeOK, NothingBeforeSetup, MarkedOnce, LoadInPlace,
         LoadedOnce, NoInitBeforeSpawn, ConnectedPastCheck,
          ClosedBehind, stored, place, Down

LEMMA StartupFault ==
    ASSUME LoadInv, NEW t \in {"init", "comm", "fuse"}, Fault(t)
    PROVE  LoadInv'
  BY StartupDown DEF Fault

\* The steps that load.
LEMMA StartupLoads ==
    ASSUME LoadInv,
           CheckSetup \/ MarkSetup \/ OpenTransducers \/ Register \/ NextServer
    PROVE  LoadInv'
  <1>1. CASE CheckSetup
    <2>1. CASE Fault("init")
      BY <2>1, StartupFault
    <2>2. CASE init = "check" /\ ~Fault("init")
      BY <1>1, <2>2, StartupAssumption
         DEF CheckSetup, LoadInv, TypeOK, NothingBeforeSetup, MarkedOnce,
             LoadInPlace, LoadedOnce, NoInitBeforeSpawn, ConnectedPastCheck,
          ClosedBehind, stored,
             place, ending
    <2> QED  BY <1>1, <2>1, <2>2 DEF CheckSetup
  <1> USE StartupAssumption
      DEF LoadInv, TypeOK, NothingBeforeSetup, MarkedOnce, LoadInPlace,
          LoadedOnce, NoInitBeforeSpawn, ConnectedPastCheck,
          ClosedBehind, stored, place, ending
  <1>2. CASE MarkSetup
    BY <1>2 DEF MarkSetup
  <1>3. CASE OpenTransducers
    BY <1>3 DEF OpenTransducers
  <1>4. CASE Register
    BY <1>4 DEF Register
  <1>5. CASE NextServer
    BY <1>5 DEF NextServer
  <1> QED  BY <1>1, <1>2, <1>3, <1>4, <1>5

\* The closing sequence.
LEMMA StartupCloses ==
    ASSUME LoadInv, Interrupt \/ Closing
    PROVE  LoadInv'
  <1>1. CASE Exit
    BY <1>1, StartupDown DEF Exit, LoadInv, TypeOK
  <1>2. CASE ClosePython /\ execute_once # 1
    BY <1>2, StartupDown DEF ClosePython
  <1> USE StartupAssumption
      DEF LoadInv, TypeOK, NothingBeforeSetup, MarkedOnce, LoadInPlace,
          LoadedOnce, NoInitBeforeSpawn, ConnectedPastCheck,
          ClosedBehind, stored, place
  <1>3. CASE Interrupt
    BY <1>3 DEF Interrupt
  <1>4. CASE CloseMeasurements \/ CloseCM
    BY <1>4 DEF CloseMeasurements, CloseCM, Close
  <1>5. CASE ClosePython /\ execute_once = 1
    BY <1>5 DEF ClosePython
  <1>6. CASE JoinInit
    BY <1>6 DEF JoinInit
  <1>7. CASE CloseRedis
    BY <1>7 DEF CloseRedis
  <1> QED  BY <1>1, <1>2, <1>3, <1>4, <1>5, <1>6, <1>7 DEF Closing

LEMMA StartupStep == LoadInv /\ [Next]_vars => LoadInv'
  <1> SUFFICES ASSUME LoadInv, [Next]_vars
               PROVE  LoadInv'
    OBVIOUS
  <1>1. CASE Launch \/ MainThread \/ Connect \/ FileProcessed
    BY <1>1, StartupElsewhere
  <1>2. CASE CheckSetup \/ MarkSetup \/ OpenTransducers \/ Register \/ NextServer
    BY <1>2, StartupLoads
  <1>3. CASE FileEvent \/ FuseRequest
    BY <1>3, StartupFault, StartupDown DEF FileEvent, FuseRequest
  <1>4. CASE Killed
    BY <1>4, StartupDown DEF Killed, LoadInv, TypeOK
  <1>5. CASE Interrupt \/ Closing
    BY <1>5, StartupCloses
  <1>6. CASE UNCHANGED vars
    BY <1>6 DEF vars, LoadInv, TypeOK, NothingBeforeSetup, MarkedOnce,
                LoadInPlace, LoadedOnce, NoInitBeforeSpawn, ConnectedPastCheck,
          ClosedBehind
  <1> QED  BY <1>1, <1>2, <1>3, <1>4, <1>5, <1>6 DEF Next, InitThread

\* The inductive invariant holds in every state.
LEMMA StartupInvariant == Spec => []LoadInv
  BY StartupInit, StartupStep, PTL DEF Spec

(***************************************************************************)
(* For every number of servers, lines and restarts: no registration of     *)
(* transducers.txt is listed more often than there are servers.            *)
(***************************************************************************)
THEOREM StartupLoadsOnce == Spec => []LoadedOnce
  <1>1. LoadInv => LoadedOnce
    BY DEF LoadInv
  <1> QED  BY <1>1, StartupInvariant, PTL

(***************************************************************************)
(* For every number of servers, lines and restarts: the closing sequence   *)
(* frees the connection when the init thread is gone or has finished.      *)
(***************************************************************************)
THEOREM StartupConnectionOutlives == Spec => []ConnectionOutlivesLoad
  <1>1. LoadInv => ConnectionOutlivesLoad
    BY DEF LoadInv, ClosedBehind, ConnectionOutlivesLoad
  <1> QED  BY <1>1, StartupInvariant, PTL

(***************************************************************************)
(* For every number of servers, lines and restarts: before SIGINT a thread *)
(* that dies of the missing connection never does so while the init thread *)
(* loads.                                                                  *)
(***************************************************************************)
THEOREM StartupFaultsOutsideLoad == Spec => FaultsInterruptNothing
  <1>1. ASSUME LoadInv, [Next]_vars, fault' \notin {"none", fault}, closing = "no"
        PROVE  init \notin {"mark", "open", "load"}
    <2>1. CASE \E t \in {"init", "comm", "fuse"} : Fault(t)
      BY <1>1, <2>1 DEF Fault, LoadInv, ConnectedPastCheck
    <2>2. CASE Launch
      BY <1>1, <2>2 DEF Launch
    <2>3. CASE MainThread
      BY <1>1, <2>3 DEF MainThread, Prepare, SpawnInit, Mount
    <2>4. CASE InitThread
      BY <1>1, <2>4, <2>1 DEF InitThread, Connect, CheckSetup, MarkSetup,
                              OpenTransducers, Register, NextServer
    <2>5. CASE Killed \/ FileProcessed \/ Interrupt \/ UNCHANGED vars
      BY <1>1, <2>5 DEF Killed, FileProcessed, Interrupt, vars
    <2>6. CASE FileEvent \/ FuseRequest
      BY <1>1, <2>1, <2>6 DEF FileEvent, FuseRequest
    <2>7. CASE Closing
      BY <1>1, <2>7 DEF Closing, CloseMeasurements, CloseCM, Close, ClosePython,
                        JoinInit, CloseRedis, Exit
    <2> QED  BY <1>1, <2>2, <2>3, <2>4, <2>5, <2>6, <2>7 DEF Next
  <1>2. ASSUME LoadInv, [Next]_vars
        PROVE  [fault' \notin {"none", fault} /\ closing = "no"
                    => init \notin {"mark", "open", "load"}]_vars
    BY <1>1, <1>2
  <1> QED  BY <1>2, StartupInvariant, PTL DEF Spec, FaultsInterruptNothing

(***************************************************************************)
(* Every variable of the start-up keeps its type; in particular the place  *)
(* in the loop over the servers never passes their number.                 *)
(***************************************************************************)
THEOREM StartupTypeCorrect == Spec => []TypeOK
  <1>1. LoadInv => TypeOK
    BY DEF LoadInv
  <1> QED  BY <1>1, StartupInvariant, PTL
-------------------------------------------------------------------------------
(* From here on there is a transducers.txt in servers[0] as well. *)

LEMMA ExactInit == Init => ExactInv
  BY StartupInit, StartupAssumption DEF Init, ExactInv, LoadExact

\* The steps that end a load before its end.
LEMMA ExactEnds == ASSUME ExactInv, Down \/ JoinInit PROVE LoadExact'
  BY StartupAssumption
     DEF ExactInv, LoadExact, LoadInv, TypeOK, Loaded, MarkedOnce, MidLoad, stored,
         place, Down, JoinInit

\* The steps away from the load.
Apart ==
    /\ UNCHANGED <<setup, registered, server, line, interrupted>>
    /\ init' = init \/ (init \in {"none", "connect"} /\ init' \in {"connect", "check"})

LEMMA ExactApart == ASSUME ExactInv, Apart PROVE LoadExact'
  BY StartupAssumption
     DEF Apart, ExactInv, LoadExact, LoadInv, TypeOK, Loaded, MarkedOnce

LEMMA ExactLoads ==
    ASSUME FileInRoot, ExactInv,
           CheckSetup \/ MarkSetup \/ OpenTransducers \/ Register \/ NextServer
    PROVE  LoadExact'
  <1> USE StartupAssumption
      DEF ExactInv, LoadExact, LoadInv, TypeOK, Loaded, MarkedOnce, NothingBeforeSetup,
          LoadedOnce, stored, place, ending
  <1>1. CASE CheckSetup
    <2>1. CASE Fault("init")
      BY <2>1, ExactEnds DEF Fault
    <2>2. CASE ~Fault("init")
      BY <1>1, <2>2 DEF CheckSetup
    <2> QED  BY <2>1, <2>2
  <1>2. CASE MarkSetup
    BY <1>2 DEF MarkSetup
  <1>3. CASE OpenTransducers
    BY <1>3 DEF OpenTransducers
  <1>4. CASE Register
    BY <1>4 DEF Register
  <1>5. CASE NextServer
    BY <1>5 DEF NextServer
  <1> QED  BY <1>1, <1>2, <1>3, <1>4, <1>5

LEMMA ExactStep == ASSUME FileInRoot PROVE ExactInv /\ [Next]_vars => ExactInv'
  <1> SUFFICES ASSUME ExactInv, [Next]_vars
               PROVE  LoadExact'
    BY StartupStep DEF ExactInv
  <1>1. CASE CheckSetup \/ MarkSetup \/ OpenTransducers \/ Register \/ NextServer
    BY <1>1, ExactLoads
  <1>2. CASE Launch \/ MainThread \/ Connect
    <2>1. CASE SpawnInit
      <3>1. init = "none"
        BY <2>1 DEF SpawnInit, ExactInv, LoadInv, NoInitBeforeSpawn
      <3> QED  BY <2>1, <3>1, ExactApart DEF SpawnInit, Apart, stored, place, ending
    <2>2. CASE Launch \/ Prepare \/ Mount
      BY <2>2, ExactApart DEF Launch, Prepare, Mount, Apart, stored, place, ending
    <2>3. CASE Connect
      BY <2>3, ExactApart DEF Connect, Apart, stored, place, ending
    <2> QED  BY <1>2, <2>1, <2>2, <2>3 DEF MainThread
  <1>3. CASE FileProcessed \/ Interrupt \/ UNCHANGED vars
    BY <1>3, ExactApart DEF FileProcessed, Interrupt, vars, Apart, stored, place
  <1>4. CASE FileEvent \/ FuseRequest \/ Killed
    BY <1>4, ExactEnds DEF FileEvent, FuseRequest, Killed, Fault
  <1>5. CASE Closing
    <2>1. CASE CloseMeasurements \/ CloseCM \/ CloseRedis
      BY <2>1, ExactApart DEF CloseMeasurements, CloseCM, Close, CloseRedis, Apart,
                              stored, place
    <2>2. CASE ClosePython /\ execute_once = 1
      BY <2>2, ExactApart DEF ClosePython, Apart, stored, place
    <2>3. CASE Exit \/ JoinInit \/ (ClosePython /\ execute_once # 1)
      BY <2>3, ExactEnds DEF Exit, ClosePython
    <2> QED  BY <1>5, <2>1, <2>2, <2>3 DEF Closing
  <1> QED  BY <1>1, <1>2, <1>3, <1>4, <1>5 DEF Next, InitThread

(***************************************************************************)
(* For every number of servers, lines and restarts, with a transducers.txt *)
(* wherever it is opened: the flag "setup" tells the truth, unless a       *)
(* process ended between storing it and the end of the load.               *)
(***************************************************************************)
THEOREM StartupSetupTrue == ASSUME FileInRoot PROVE Spec => []SetupMeansLoaded
  <1>1. ExactInv => SetupMeansLoaded
    BY DEF ExactInv, LoadExact, SetupMeansLoaded
  <1>2. ExactInv /\ [Next]_vars => ExactInv'
    BY ExactStep
  <1> QED  BY <1>1, <1>2, ExactInit, PTL DEF Spec
===============================================================================
