---------------------------- MODULE RunDevService ----------------------------
(***************************************************************************)
(* txstratum/cli.py, RunDevService: the manager and the block miner of the *)
(* dev mode on one event loop, and the shutdown that a signal starts.  Each *)
(* signal starts one of its own.                                           *)
(***************************************************************************)
EXTENDS DevMiningManager, BlockMiner

CONSTANT Signals   \* the signals that arrive

VARIABLES
    shutdown,      \* where the _shutdown of each signal is
    loop_running   \* the event loop runs

serviceVars == <<devVars, blockVars, shutdown, loop_running>>

ServiceInit ==
    /\ DevInit /\ MinerInit
    /\ shutdown = [s \in Signals |-> "none"]
    /\ loop_running = TRUE
-----------------------------------------------------------------------------
\* What the manager does by itself, and the loop of the block miner.
ManagerStep ==
    /\ \E j \in Jobs : JobStep(j)
    /\ UNCHANGED <<blockVars, shutdown, loop_running>>

BlockStep ==
    /\ LoopStep
    /\ UNCHANGED <<devVars, shutdown, loop_running>>

\* await manager.stop(): it returns at once when the manager is stopped.
AwaitManagerStop(s) ==
    IF started = "stopped"
    THEN shutdown' = [shutdown EXCEPT ![s] = "backend"] /\ UNCHANGED devVars
    ELSE shutdown' = [shutdown EXCEPT ![s] = "manager"] /\ Stop

\* Mutant of Signal: the block miner is stopped again.
SignalStopsAgain(s) ==
    /\ shutdown[s] = "none"
    /\ ManagerShutdown
    /\ StopMiner
    /\ shutdown' = [shutdown EXCEPT ![s] = "miner"]
    /\ UNCHANGED loop_running

\* The signal arrives and _shutdown starts.  A second one finds the block
\* miner not running, although the first may still await its end.
Signal(s) ==
    /\ shutdown[s] = "none"
    /\ \/ /\ running
          /\ ManagerShutdown
          /\ StopMiner
          /\ shutdown' = [shutdown EXCEPT ![s] = "miner"]
       \/ /\ ~running
          /\ AwaitManagerStop(s)
          /\ UNCHANGED blockVars
    /\ UNCHANGED loop_running

\* Mutant of MinerStopped: the task is not waited for.
MinerStoppedAtOnce(s) ==
    /\ shutdown[s] = "miner"
    /\ AwaitManagerStop(s)
    /\ UNCHANGED <<blockVars, loop_running>>

\* The task of the block miner is over; if it died, stop raises its exception
\* and _shutdown ends here.
MinerStopped(s) ==
    /\ shutdown[s] = "miner"
    /\ \/ loop = "ended" /\ AwaitManagerStop(s)
       \/ /\ loop = "died"
          /\ shutdown' = [shutdown EXCEPT ![s] = "raised"]
          /\ UNCHANGED devVars
    /\ UNCHANGED <<blockVars, loop_running>>

\* The gather of manager.stop ends.
ManagerStopped(s) ==
    /\ shutdown[s] = "manager"
    /\ StopEnds \/ (started = "stopped" /\ UNCHANGED devVars)
    /\ shutdown' = [shutdown EXCEPT ![s] = "backend"]
    /\ UNCHANGED <<blockVars, loop_running>>

\* backend.stop ends, and the event loop stops.
BackendStopped(s) ==
    /\ shutdown[s] = "backend"
    /\ shutdown' = [shutdown EXCEPT ![s] = "over"]
    /\ loop_running' = FALSE
    /\ UNCHANGED <<devVars, blockVars>>

ShutdownStep(s) == Signal(s) \/ MinerStopped(s) \/ ManagerStopped(s) \/ BackendStopped(s)

ServiceNext ==
    /\ loop_running
    /\ ManagerStep \/ BlockStep \/ (\E s \in Signals : ShutdownStep(s))

ServiceSpec == ServiceInit /\ [][ServiceNext]_serviceVars

\* The event loop runs what is ready, the thread ends (MAX_NONCE bounds it),
\* requests to the full node end, timers fire, shutdowns go on.
InLoop(A) == loop_running /\ A /\ UNCHANGED <<blockVars, shutdown, loop_running>>

JobFairness(j) ==
    /\ WF_serviceVars(InLoop(TaskStarts(j))) /\ WF_serviceVars(InLoop(ParentsArrive(j)))
    /\ WF_serviceVars(InLoop(SolveEnds(j))) /\ WF_serviceVars(InLoop(PushEnds(j)))
    /\ WF_serviceVars(InLoop(TaskCancelled(j))) /\ WF_serviceVars(InLoop(DoneCallback(j)))
    /\ WF_serviceVars(InLoop(CleanUp(j)))

FairServiceSpec ==
    /\ ServiceSpec
    /\ WF_serviceVars(loop_running /\ LoopCancelled /\ UNCHANGED <<devVars, shutdown, loop_running>>)
    /\ \A j \in Jobs : JobFairness(j)
    /\ \A s \in Signals : WF_serviceVars(loop_running /\ shutdown[s] # "none" /\ ShutdownStep(s))
-----------------------------------------------------------------------------
(* Properties.                                                             *)

\* The state space.
ServiceTypeOK ==
    /\ DevTypeOK /\ MinerTypeOK
    /\ shutdown \in [Signals -> {"none", "miner", "manager", "backend", "over", "raised"}]
    /\ loop_running \in BOOLEAN

\* The service implements the manager's specification, whatever the order of
\* the signals and the ends of their awaits.
DevManagerSpec == DevSpec

\* A shutdown by one signal cuts nothing off: when the event loop stops, no
\* block is being made and every task of the manager ended that it knew of.
OneSignalIsClean ==
    ~loop_running /\ (\E s \in Signals : \A r \in Signals \ {s} : shutdown[r] = "none")
      => /\ loop \notin Alive
         /\ \A j \in gathered : task[j] \notin Active

\* A signal ends the service, unless the block miner died; two signals end it
\* even then.
SignalEndsService ==
    /\ (\E s \in Signals : shutdown[s] # "none") ~> ~loop_running \/ loop = "died"
    /\ (\E s, r \in Signals : s # r /\ shutdown[s] # "none" /\ shutdown[r] # "none")
         ~> ~loop_running
=============================================================================
