----------------------------- MODULE RunService -----------------------------
(***************************************************************************)
(* The production service of txstratum/cli.py: the mining manager, its     *)
(* stratum connections, and the graceful shutdown that SIGINT and SIGTERM  *)
(* each start as a task of its own.  A connection exists before its miner  *)
(* subscribes; one that was made while the service refuses jobs can never  *)
(* subscribe.                                                              *)
(***************************************************************************)
EXTENDS TxMiningManager

CONSTANTS Signals,         \* the signals that may arrive, each one once
          WaitClosedWaits  \* does Server.wait_closed wait for connections?
                           \* (it does not in Python 3.11, it does since 3.12)

ASSUME WaitClosedAssumption == WaitClosedWaits \in BOOLEAN

VARIABLES
    shutdown,           \* where the _shutdown task of each signal is
    connected,          \* open stratum connections (manager.connections)
    refuse_new_miners,  \* connections that refuse to subscribe
    closing             \* connections whose transport was told to close

serviceVars == <<shutdown, connected, refuse_new_miners, closing>>
allVars == <<vars, serviceVars>>

ServiceInit ==
    /\ Init
    /\ shutdown = [s \in Signals |-> "none"]
    /\ connected = {}
    /\ refuse_new_miners = {}
    /\ closing = {}

Drained(s) == shutdown[s] \in {"drained", "closed", "stopped"}

\* loop.stop() ends run_forever, and the process with it.
LoopRuns == \A s \in Signals : shutdown[s] # "stopped"
Listening == \A s \in Signals : shutdown[s] \notin {"closed", "stopped"}
-----------------------------------------------------------------------------
\* A step of the manager that the service has no part in.  A closing
\* transport delivers nothing more, so its miner submits nothing.
ManagerStep ==
    /\ \/ \E j \in Jobs : JobStep(j)
       \/ \E m \in Miners : RefreshJob(m) \/ UpdateMinerJob(m)
       \/ \E m \in Miners \ closing, j \in Jobs : SubmitSolution(m, j)
       \/ TemplateArrives
       \/ TemplateLost
    /\ UNCHANGED serviceVars

\* A connection is made: manager.__call__ builds its protocol.
ConnectionMade(m) ==
    /\ Listening
    /\ m \notin connected
    /\ connected' = connected \cup {m}
    /\ refuse_new_miners' = IF refuse_new_jobs THEN refuse_new_miners \cup {m}
                            ELSE refuse_new_miners
    /\ UNCHANGED <<vars, shutdown, closing>>

\* method_subscribe, unless the connection refuses it.
Subscribe(m) ==
    /\ m \in connected \ (refuse_new_miners \cup closing)
    /\ MinerReady(m)
    /\ UNCHANGED serviceVars

\* The peer goes away, or the transport finishes closing.
ConnectionLost(m) ==
    /\ m \in connected
    /\ connected' = connected \ {m}
    /\ refuse_new_miners' = refuse_new_miners \ {m}
    /\ closing' = closing \ {m}
    /\ IF m \in miners THEN MinerLost(m) ELSE UNCHANGED vars
    /\ UNCHANGED shutdown
-----------------------------------------------------------------------------
\* Mutant of ManagerShutdown: it forgets its miners before they are closed.
ManagerShutdownForgets(s) ==
    /\ shutdown' = [shutdown EXCEPT ![s] = "drained"]
    /\ refuse_new_jobs' = TRUE
    /\ refuse_new_miners' = refuse_new_miners \cup miners
    /\ closing' = closing \cup miners
    /\ miners' = {} /\ refresh_task' = {}
    /\ current_job' = [m \in Miners |-> None] /\ miner_jobs' = [m \in Miners |-> {}]
    /\ UNCHANGED <<jobVars, timerVars, coroVars, block_template, eventVars, connected>>

\* manager.shutdown(), when the drain of s is over: the miners that are ready
\* are asked to reconnect and their transports close.
ManagerShutdown(s) ==
    /\ shutdown' = [shutdown EXCEPT ![s] = "drained"]
    /\ RefuseNewJobs
    /\ refuse_new_miners' = refuse_new_miners \cup miners
    /\ closing' = closing \cup miners
    /\ UNCHANGED connected

\* A signal arrives and its _graceful_shutdown runs to its first sleep, or
\* through when no transaction is queued.
SignalArrives(s) ==
    /\ shutdown[s] = "none"
    /\ \/ /\ tx_queue # <<>>
          /\ shutdown' = [shutdown EXCEPT ![s] = "draining"]
          /\ RefuseNewJobs
          /\ UNCHANGED <<connected, refuse_new_miners, closing>>
       \/ /\ tx_queue = <<>>
          /\ ManagerShutdown(s)

\* Mutant of DrainEnds: the queue is not waited for.
DrainEndsEarly(s) ==
    /\ shutdown[s] = "draining"
    /\ ManagerShutdown(s)

\* The sleep of the drain ends and the queue is empty.
DrainEnds(s) ==
    /\ shutdown[s] = "draining"
    /\ tx_queue = <<>>
    /\ ManagerShutdown(s)

\* The filters are closed and the server stops to listen.
CloseServer(s) ==
    /\ shutdown[s] = "drained"
    /\ shutdown' = [shutdown EXCEPT ![s] = "closed"]
    /\ UNCHANGED <<vars, connected, refuse_new_miners, closing>>

\* wait_closed, backend.stop and manager.stop are over: the loop stops.
StopLoop(s) ==
    /\ shutdown[s] = "closed"
    /\ WaitClosedWaits => connected = {}
    /\ shutdown' = [shutdown EXCEPT ![s] = "stopped"]
    /\ UNCHANGED <<vars, connected, refuse_new_miners, closing>>

ServiceNext ==
    /\ LoopRuns
    /\ \/ ManagerStep
       \/ \E m \in Miners : ConnectionMade(m) \/ Subscribe(m) \/ ConnectionLost(m)
       \/ \E s \in Signals : \/ SignalArrives(s) \/ DrainEnds(s)
                             \/ CloseServer(s) \/ StopLoop(s)

ServiceSpec == ServiceInit /\ [][ServiceNext]_allVars

\* While the loop runs it fires timers and resumes what is ready, the full
\* node answers requests for parents, and a closing transport gets closed.
\* Signals, miners and pushes are under no obligation.
ServiceFairness ==
    /\ \A j \in Jobs :
         /\ WF_allVars(LoopRuns /\ AddParentsStart(j) /\ UNCHANGED serviceVars)
         /\ WF_allVars(LoopRuns /\ (AddParentsOk(j) \/ AddParentsFail(j)) /\ UNCHANGED serviceVars)
         /\ WF_allVars(LoopRuns /\ JobTimeout(j) /\ UNCHANGED serviceVars)
    /\ \A s \in Signals : /\ WF_allVars(LoopRuns /\ DrainEnds(s))
                          /\ WF_allVars(LoopRuns /\ CloseServer(s))
                          /\ WF_allVars(LoopRuns /\ StopLoop(s))
    /\ \A m \in Miners : WF_allVars(LoopRuns /\ m \in closing /\ ConnectionLost(m))

FairServiceSpec == ServiceSpec /\ ServiceFairness
-----------------------------------------------------------------------------
(* Properties.                                                             *)

\* The state of the service.
ServiceTypeOK ==
    /\ TypeOK
    /\ shutdown \in [Signals -> {"none", "draining", "drained", "closed", "stopped"}]
    /\ miners \subseteq connected
    /\ connected \subseteq Miners
    /\ refuse_new_miners \subseteq connected
    /\ closing \subseteq refuse_new_miners

\* To the manager the service is only an environment: connections, drains
\* and closing transports make it do nothing that it would not do anyway.
ManagerSpec == Spec

\* Once a drain is over, the jobs still queued are those whose parents came
\* late: a shutdown never leaves behind a job that was in the queue when it
\* began, also when two signals drain at the same time.
OnlyLateParentsAreLeft ==
    (\E s \in Signals : Drained(s)) => Range(tx_queue) \subseteq AddParents

\* A shutdown ends, although miners may stop answering, jobs may be waiting
\* for their parents and the miners that leave cannot come back: whatever is
\* queued is solved, cancelled or times out.
ShutdownEnds ==
    \A s \in Signals : shutdown[s] # "none" ~> ~LoopRuns
=============================================================================
