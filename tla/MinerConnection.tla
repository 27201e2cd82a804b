--------------------------- MODULE MinerConnection ---------------------------
(***************************************************************************)
(* The life of a stratum connection (StratumProtocol of                    *)
(* txstratum/protocol.py on JSONRPCProtocol of txstratum/utils.py): it is  *)
(* made, its miner subscribes and authorizes in any order, its lines may   *)
(* raise, its transport is closed by either side, and it is lost.          *)
(*                                                                         *)
(* What it starts does not run at once: the periodic tasks are started and *)
(* stopped by tasks of their own, and an event of txstratum/pubsub.py is   *)
(* handled by a task too.  The event loop runs them in the order in which  *)
(* they were created.  The jobs of a miner are in StratumProtocol, and the *)
(* requests sent to it in RequestTracking.                                 *)
(***************************************************************************)
EXTENDS Naturals, Sequences, FiniteSets, Functions

CONSTANTS Miners,    \* connections: each has a miner_id of its own
          Addresses, \* addresses a miner may subscribe with
          Types,     \* types of its get_version answers
          Unknown,   \* the type before the first answer, and no address
          MaxTasks   \* bound: tasks that wait for the event loop

ASSUME ConnectionAssumption ==
    /\ Unknown \notin Types \cup Addresses
    /\ MaxTasks \in Nat

VARIABLES
    link,       \* "none", "open", "closing" or "lost"
    shutting_down, \* the manager refuses new jobs
    refusing,   \* connections with refuse_new_miners
    subscribed, \* _subscribed
    ready,      \* manager.miners
    working,    \* connections with a current_job
    address,    \* miner_address_str
    asked,      \* connections that were sent client.get_version
    type,       \* miner_type
    created,    \* connections whose Periodic objects exist
    alive,      \* the periodic tasks of each connection that run
    pending     \* tasks created and not run yet, the oldest first

peerVars == <<link, shutting_down, refusing>>
minerVars == <<subscribed, ready, working, address, asked, type>>
taskVars == <<created, alive, pending>>
connVars == <<peerVars, minerVars, taskVars>>

PeriodicTasks == {"estimator", "refresh_job", "messages_timeout", "rtt_estimator"}
Events == {"subscribed", "completed", "disconnected"}

Connections == {m \in Miners : link[m] \in {"open", "closing"}}

ConnectionInit ==
    /\ link = [m \in Miners |-> "none"]
    /\ shutting_down = FALSE
    /\ refusing = {} /\ subscribed = {} /\ ready = {} /\ working = {} /\ asked = {}
    /\ address = [m \in Miners |-> Unknown]
    /\ type = [m \in Miners |-> Unknown]
    /\ created = {}
    /\ alive = [m \in Miners |-> {}]
    /\ pending = <<>>
-----------------------------------------------------------------------------
(* The event loop.                                                         *)

\* Mutant of CreateTasks: the newest tasks run first.
CreateTasksFirst(whats, m) ==
    /\ Len(pending) + Len(whats) <= MaxTasks
    /\ pending' = [i \in DOMAIN whats |-> [what |-> whats[i], miner |-> m]] \o pending

\* PubSubManager.emit creates a task for the handler of an event,
\* asyncio.ensure_future one for Periodic.start and one for Periodic.stop.
CreateTasks(whats, m) ==
    /\ Len(pending) + Len(whats) <= MaxTasks
    /\ pending' = pending \o [i \in DOMAIN whats |-> [what |-> whats[i], miner |-> m]]

\* The tasks of a connection are created together, so that one entry stands
\* for the four: start makes them run, stop cancels those that still do.
RunTask(what, m) ==
    alive' = CASE what = "start" -> [alive EXCEPT ![m] = PeriodicTasks]
               [] what = "stop"  -> [alive EXCEPT ![m] = {}]
               [] OTHER          -> alive

\* A periodic task ends for good at its first exception: refresh_job asserts
\* that there is a job, estimator_loop takes the logarithm of a time that need
\* not be positive.
PeriodicDies(m) ==
    /\ \E t \in alive[m] :
         /\ (t = "refresh_job" /\ m \notin working) \/ (t = "estimator" /\ m \in working)
         /\ alive' = [alive EXCEPT ![m] = @ \ {t}]
    /\ UNCHANGED <<peerVars, minerVars, created, pending>>
-----------------------------------------------------------------------------
(* Connections.                                                            *)

\* manager.__call__ and connection_made
ConnectionMade(m) ==
    /\ link[m] = "none"
    /\ link' = [link EXCEPT ![m] = "open"]
    /\ refusing' = IF shutting_down THEN refusing \cup {m} ELSE refusing
    /\ UNCHANGED <<shutting_down, minerVars, taskVars>>

\* A line is only received from a transport that is not closing: the lines
\* after the one that closed it, in the same packet too, are disregarded.
Receives(m) == link[m] = "open"

Close(m) == link' = [link EXCEPT ![m] = "closing"]

\* The transport begins to close: by its peer, or because the handling of a
\* line raises, which is fatal (an answer that is an error, for handle_error is
\* not implemented, or parameters that a method cannot take).  Every other
\* line that is no known request or result changes nothing here.
TransportCloses(m) ==
    /\ Receives(m)
    /\ Close(m)
    /\ UNCHANGED <<shutting_down, refusing, minerVars, taskVars>>

\* Mutant of IsReady: a miner that authorized is ready.
IsReadyAuthorized(m, subs) == TRUE

\* is_ready
IsReady(m, subs) == m \in subs

\* start_if_ready: the miner is asked for its version; if it is ready and has no
\* job it gets its tasks and becomes one of the manager's miners, which may have
\* a job for it.  `events' are what the caller emitted before.
StartIfReady(m, subs, events) ==
    /\ asked' = asked \cup {m}
    /\ IF IsReady(m, subs) /\ m \notin working
       THEN /\ CreateTasks(IF m \in created THEN events ELSE Append(events, "start"), m)
            /\ created' = created \cup {m}
            /\ ready' = ready \cup {m}
            /\ working' \in {working, working \cup {m}}
       ELSE /\ CreateTasks(events, m)
            /\ UNCHANGED <<created, ready, working>>

\* method_subscribe: refused when the service is shutting down (and then
\* nothing changes); with an address, valid or not, or without one.
Subscribe(m) ==
    /\ Receives(m)
    /\ m \notin refusing
    /\ \E a \in Addresses \cup {address[m]} : address' = [address EXCEPT ![m] = a]
    /\ subscribed' = subscribed \cup {m}
    /\ StartIfReady(m, subscribed', <<"subscribed">>)
    /\ UNCHANGED <<peerVars, type, alive>>

\* The address is invalid: the miner is told so and its transport closes.
SubscribeInvalid(m) ==
    /\ Receives(m)
    /\ m \notin refusing
    /\ Close(m)
    /\ UNCHANGED <<shutting_down, refusing, minerVars, taskVars>>

\* method_authorize, which nothing refuses.
Authorize(m) ==
    /\ Receives(m)
    /\ StartIfReady(m, subscribed, <<>>)
    /\ UNCHANGED <<peerVars, subscribed, address, type, alive>>

\* method_submit of a valid share
JobCompleted(m) ==
    /\ Receives(m)
    /\ m \in working
    /\ CreateTasks(<<"completed">>, m)
    /\ UNCHANGED <<peerVars, minerVars, created, alive>>

\* handle_result of client.get_version.  An answer to what was not asked changes
\* nothing; how often it may be answered is in RequestTracking.
VersionArrives(m) ==
    /\ Receives(m)
    /\ m \in asked
    /\ \E t \in Types : type' = [type EXCEPT ![m] = t]
    /\ UNCHANGED <<peerVars, subscribed, ready, working, address, asked, taskVars>>

\* The manager finds a job for a miner that had none.
JobArrives(m) ==
    /\ m \in ready \ working
    /\ working' = working \cup {m}
    /\ UNCHANGED <<peerVars, subscribed, ready, address, asked, type, taskVars>>

\* Mutant of ConnectionLost: tasks that do not run yet are not stopped.
ConnectionLostHasty(m) ==
    /\ m \in Connections
    /\ link' = [link EXCEPT ![m] = "lost"]
    /\ ready' = ready \ {m}
    /\ CreateTasks((IF m \in subscribed THEN <<"disconnected">> ELSE <<>>)
                     \o (IF alive[m] # {} THEN <<"stop">> ELSE <<>>), m)
    /\ UNCHANGED <<shutting_down, refusing, subscribed, working, address, asked, type, created, alive>>

\* connection_lost.  A transport calls it for a connection that was closed by
\* either side, some time later.
ConnectionLost(m) ==
    /\ m \in Connections
    /\ link' = [link EXCEPT ![m] = "lost"]
    /\ ready' = ready \ {m}
    /\ CreateTasks((IF m \in subscribed THEN <<"disconnected">> ELSE <<>>)
                     \o (IF m \in created THEN <<"stop">> ELSE <<>>), m)
    /\ UNCHANGED <<shutting_down, refusing, subscribed, working, address, asked, type, created, alive>>

\* The drain of the shutdown begins: connections made from now on are refused.
RefuseNewJobs ==
    /\ ~shutting_down
    /\ shutting_down' = TRUE
    /\ UNCHANGED <<link, refusing, minerVars, taskVars>>

\* manager.shutdown: the miners are refused and asked to reconnect.
ManagerShutdown ==
    /\ shutting_down
    /\ refusing' = refusing \cup ready
    /\ link' = [m \in Miners |-> IF m \in ready THEN "closing" ELSE link[m]]
    /\ UNCHANGED <<shutting_down, minerVars, taskVars>>

ConnectionStep ==
    \/ \E m \in Miners :
         \/ ConnectionMade(m) \/ TransportCloses(m)
         \/ Subscribe(m) \/ SubscribeInvalid(m) \/ Authorize(m)
         \/ JobCompleted(m) \/ VersionArrives(m) \/ JobArrives(m)
         \/ PeriodicDies(m) \/ ConnectionLost(m)
    \/ RefuseNewJobs
    \/ ManagerShutdown
-----------------------------------------------------------------------------
(* Properties.                                                             *)

\* The state space.
ConnectionTypeOK ==
    /\ link \in [Miners -> {"none", "open", "closing", "lost"}]
    /\ shutting_down \in BOOLEAN
    /\ refusing \subseteq Miners /\ subscribed \subseteq Miners /\ created \subseteq Miners
    /\ ready \subseteq subscribed \cap Connections
    /\ working \subseteq subscribed /\ asked \subseteq Miners
    /\ address \in [Miners -> Addresses \cup {Unknown}]
    /\ type \in [Miners -> Types \cup {Unknown}]
    /\ alive \in [Miners -> SUBSET PeriodicTasks]
    /\ pending \in Seq([what : Events \cup {"start", "stop"}, miner : Miners])

Waiting(m) == \E i \in DOMAIN pending : pending[i].miner = m

\* The periodic tasks of a connection end with it, however soon after its
\* subscription it is lost: once nothing of it waits for the event loop, none
\* of them runs.
TasksEndWithConnection ==
    \A m \in Miners : link[m] = "lost" /\ ~Waiting(m) => alive[m] = {}

\* A connection that is refused, or being closed (for an invalid address, an
\* exception, a shutdown), does not become a miner of the manager, whatever it
\* sends, authorize included, and in whatever order.
OutsidersStayOut ==
    [][\A m \in ready' \ ready : link[m] = "open" /\ m \notin refusing]_connVars
=============================================================================
