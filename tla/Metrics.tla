------------------------------- MODULE Metrics -------------------------------
(***************************************************************************)
(* The series that txstratum/prometheus.py exports for each miner, driven  *)
(* by the events of its connection.  The handlers have no await, so that   *)
(* they run one after another in the order of the events, but later: they  *)
(* read the address and the type that the connection has by then.          *)
(***************************************************************************)
EXTENDS MinerConnection

VARIABLES
    up,         \* labels of the series miner_up,
    completed,  \*   miner_completed_jobs
    rtt         \*   and miner_rtt

seriesVars == <<up, completed, rtt>>
vars == <<connVars, seriesVars>>

Init ==
    /\ ConnectionInit
    /\ up = {} /\ completed = {} /\ rtt = {}
-----------------------------------------------------------------------------
(* Handlers of the exporter.                                               *)

ById(m) == <<address[m], m>>
ByType(m) == <<type[m], address[m], m>>

HandleMinerSubscribed(m) ==
    /\ up' = up \cup {ById(m)}
    /\ rtt' = rtt \cup {ById(m)}
    /\ UNCHANGED completed

HandleJobCompleted(m) ==
    /\ completed' = completed \cup {ByType(m)}
    /\ UNCHANGED <<up, rtt>>

\* Series that do not exist are passed over (suppress(KeyError)).
HandleMinerDisconnected(m) ==
    /\ up' = up \ {ById(m)}
    /\ completed' = completed \ {ByType(m)}
    /\ rtt' = rtt \ {ById(m)}

\* The next task runs.
Handle ==
    /\ pending # <<>>
    /\ pending' = Tail(pending)
    /\ LET what == Head(pending).what
           m == Head(pending).miner
       IN /\ RunTask(what, m)
          /\ \/ what = "subscribed" /\ HandleMinerSubscribed(m)
             \/ what = "completed" /\ HandleJobCompleted(m)
             \/ what = "disconnected" /\ HandleMinerDisconnected(m)
             \/ what \notin Events /\ UNCHANGED seriesVars
    /\ UNCHANGED <<peerVars, minerVars, created>>

\* update_metrics
UpdateMetrics ==
    /\ rtt' = rtt \cup {ById(m) : m \in ready}
    /\ UNCHANGED <<connVars, up, completed>>

Next ==
    \/ ConnectionStep /\ UNCHANGED seriesVars
    \/ Handle
    \/ UpdateMetrics

Spec == Init /\ [][Next]_vars
-----------------------------------------------------------------------------
(* Properties.                                                             *)

\* The state space.
TypeOK ==
    /\ ConnectionTypeOK
    /\ up \subseteq (Addresses \cup {Unknown}) \X Miners
    /\ rtt \subseteq (Addresses \cup {Unknown}) \X Miners
    /\ completed \subseteq (Types \cup {Unknown}) \X (Addresses \cup {Unknown}) \X Miners

\* "Alert rules detect a disconnected miner by the absence of these series":
\* under the labels a miner ends with nothing outlives it, although jobs it
\* completed, its subscription and the periodic update may be handled late;
\* and a miner that is up is exported.
UpMeansConnected ==
    \A m \in Miners : ~Waiting(m) =>
      /\ m \in subscribed \cap Connections => ById(m) \in up \cap rtt
      /\ link[m] = "lost" => ById(m) \notin up \cup rtt /\ ByType(m) \notin completed
=============================================================================
