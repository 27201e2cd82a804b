------------------------------- MODULE HttpApi -------------------------------
(***************************************************************************)
(* txstratum/api.py with the filters of txstratum/filters.py, on top of    *)
(* the registry of either manager and beside the health check.  A POST     *)
(* /submit-job passes its checks in two pieces: those before the answer of *)
(* the TOI service is awaited, and, when it has arrived, the timestamp and *)
(* the registration.  Between them the clock runs, other requests come in, *)
(* and the service may begin to shut down.                                 *)
(*                                                                         *)
(* A transaction is a body and a timestamp, which its hash covers.  The    *)
(* refusals that depend on the request alone (its form, weight, scripts,   *)
(* timeout, wallet version) come before anything changes and leave no      *)
(* trace: requests that would get one are not in the model.                *)
(***************************************************************************)
EXTENDS HealthCheck

CONSTANTS Bodies,             \* transactions but for their timestamp
          BannedBodies,       \* those with an input or address in the ban files
          MaxTime,            \* bound: the clock stops there
          MaxTimestampDelta,
          FixInvalidTimestamp,
          ToiFailBlock,
          Requests            \* POST /submit-job requests under way

Times == 0..MaxTime

ASSUME ApiAssumption ==
    /\ Txs = Bodies \X Times
    /\ BannedBodies \subseteq Bodies
    /\ MaxTime \in Nat /\ MaxTimestampDelta \in Nat
    /\ FixInvalidTimestamp \in BOOLEAN /\ ToiFailBlock \in BOOLEAN

VARIABLES
    now,              \* txstratum.time.time()
    refuse_new_jobs,  \* the manager's, set when the service is shutting down
    request           \* each request: None, or its transaction and what TOI says

apiVars == <<healthVars, now, refuse_new_jobs, request>>

ToiAnswers == {"clean", "blacklisted", "error", "exception"}

ApiInit ==
    /\ HealthInit
    /\ now = 0
    /\ refuse_new_jobs = FALSE
    /\ request = [r \in Requests |-> None]
-----------------------------------------------------------------------------
\* Mutant of FileFilterPasses: the filter is not asked.
FileFilterPassesAll(tx) == TRUE

\* FileFilter.check_tx has no await: the ban files are looked up at once.
FileFilterPasses(tx) == tx[1] \notin BannedBodies

\* Up to the request to the TOI service.
SubmitArrives(r) ==
    /\ request[r] = None
    /\ \E tx \in Txs :
         /\ FileFilterPasses(tx)
         /\ request' = [request EXCEPT ![r] = [tx |-> tx, toi |-> "awaited"]]
    /\ UNCHANGED <<healthVars, now, refuse_new_jobs>>

\* The TOI service answers: 200, another status, or not at all (the client
\* raises, as it does when its session has been closed by a shutdown).
ToiReplies(r) ==
    /\ request[r] # None /\ request[r].toi = "awaited"
    /\ \E answer \in ToiAnswers : request' = [request EXCEPT ![r].toi = answer]
    /\ UNCHANGED <<healthVars, now, refuse_new_jobs>>

\* TOIFilter.check_tx catches TOIError only; any other exception is the end of
\* the request.
ToiFilterPasses(toi) == toi = "clean" \/ (toi = "error" /\ ~ToiFailBlock)

Near(time) == now - time <= MaxTimestampDelta /\ time - now <= MaxTimestampDelta

\* The transaction to mine: with its own timestamp if that is near, or fixed.
Dated(tx) == IF Near(tx[2]) THEN tx ELSE <<tx[1], now>>

Timely(tx) == Near(tx[2]) \/ FixInvalidTimestamp

\* Mutant of Accepts: the shutdown is only looked at before the filters.
AcceptsLate(tx) == visible[tx] \in {None, "TIMEOUT"}

\* add_job of either manager: not while shutting down, and over a job of the
\* same hash only if that timed out.
Accepts(tx) == ~refuse_new_jobs /\ visible[tx] \in {None, "TIMEOUT"}

Admitted(r) ==
    /\ ToiFilterPasses(request[r].toi)
    /\ Timely(request[r].tx)
    /\ Accepts(Dated(request[r].tx))

\* The rest of submit_job, in one piece: a job is added, or the request is
\* answered with the job there is or with an error.
SubmitEnds(r) ==
    /\ request[r] # None /\ request[r].toi # "awaited"
    /\ request' = [request EXCEPT ![r] = None]
    /\ \/ /\ Admitted(r)
          /\ \E s \in Fresh : visible' = [visible EXCEPT ![Dated(request[r].tx)] = s]
          /\ JobsStep
       \/ /\ ~Admitted(r)
          /\ UNCHANGED healthVars
    /\ UNCHANGED <<now, refuse_new_jobs>>

\* POST /cancel-job of a job that has not finished: it is forgotten at once.
CancelJob(t) ==
    /\ visible[t] \in Live
    /\ visible' = [visible EXCEPT ![t] = None]
    /\ JobsStep
    /\ UNCHANGED <<now, refuse_new_jobs, request>>

Tick ==
    /\ now < MaxTime
    /\ now' = now + 1
    /\ UNCHANGED <<healthVars, refuse_new_jobs, request>>

RefuseNewJobs ==
    /\ ~refuse_new_jobs
    /\ refuse_new_jobs' = TRUE
    /\ UNCHANGED <<healthVars, now, request>>

ApiNext ==
    \/ \E r \in Requests : SubmitArrives(r) \/ ToiReplies(r) \/ SubmitEnds(r)
    \/ \E t \in Txs : CancelJob(t)
    \/ HealthStep /\ UNCHANGED <<now, refuse_new_jobs, request>>
    \/ Tick
    \/ RefuseNewJobs

ApiSpec == ApiInit /\ [][ApiNext]_apiVars
-----------------------------------------------------------------------------
(* Properties.                                                             *)

\* The state space.
ApiTypeOK ==
    /\ HealthTypeOK
    /\ now \in Times /\ refuse_new_jobs \in BOOLEAN
    /\ request \in [Requests -> {None} \cup [tx : Txs, toi : ToiAnswers \cup {"awaited"}]]

Added(t) == Submitted(visible[t], visible'[t])

\* At the moment a job is added the service takes jobs and the job's timestamp
\* is near the clock, however long the filters were awaited and whatever
\* happened meanwhile.
AdmittedWhenAdded == [][\A t \in Txs : Added(t) => ~refuse_new_jobs /\ Near(t[2])]_apiVars

\* A request of this body ends that the ban files do not name and that TOI found
\* clean, or that TOI failed on where this does not block.
Cleared(body) ==
    /\ body \notin BannedBodies
    /\ \E r \in Requests : /\ request[r] # None /\ request'[r] = None
                           /\ request[r].tx[1] = body
                           /\ request[r].toi \in {"clean"} \cup
                                (IF ToiFailBlock THEN {} ELSE {"error"})

\* Nothing banned is mined: a job is only added for a request that the filters
\* cleared; a fixed timestamp does not detach them.
NoBannedJob == [][\A t \in Txs : Added(t) => Cleared(t[1])]_apiVars
=============================================================================
