----------------------------- MODULE HealthCheck -----------------------------
(***************************************************************************)
(* txstratum/healthcheck/healthcheck.py on top of the registry of either   *)
(* manager.  A GET /health is answered with the worst of two parts, which  *)
(* the healthcheck library runs: the manager's, computed at one instant,   *)
(* and the full node's, which is awaited.  The manager's part may be the   *)
(* object last_response itself, shared by every request and overwritten by *)
(* the next one; the library may read it at any time until it answers.     *)
(***************************************************************************)
EXTENDS JobRegistry

CONSTANT Polls   \* GET /health requests that may be under way

VARIABLES
    slow,           \* hashes whose job is DONE after JOB_MINING_TIME_THRESHOLD
    submitting,     \* is a miner connected that submitted within the last hour?
    last_response,  \* the status in the shared object last_response
    poll,           \* each request: None, "shared", or a status of its own
    seen,           \* history: the verdicts there were since its part was computed
    observed        \* history: what jobs have given cause for so far

jobVars == <<visible, slow>>
cacheVars == <<last_response, observed>>
pollVars == <<poll, seen>>
healthVars == <<jobVars, submitting, cacheVars, pollVars>>

Health == {"pass", "warn", "fail"}

ASSUME NoneIsNoStatus == None \notin Visible \cup Health \cup {"shared"}

Failed == {t \in Txs : visible[t] \in Unhappy}
Registered == {t \in Txs : visible[t] # None}

HealthInit ==
    /\ Init
    /\ slow = {}
    /\ submitting = FALSE
    /\ last_response = "pass"
    /\ poll = [p \in Polls |-> None]
    /\ seen = [p \in Polls |-> {}]
    /\ observed = {"pass"}
-----------------------------------------------------------------------------
(* The manager's part.                                                     *)

\* What the registered jobs amount to.
Judgement(failed, late) ==
    IF failed # {} THEN "fail" ELSE IF late # {} THEN "warn" ELSE "pass"

\* What the manager's part would answer now.
Verdict == IF ~submitting THEN "fail"
           ELSE IF Registered = {} THEN last_response
           ELSE Judgement(Failed, slow)

\* Whatever happens, each request under way has seen the verdict after it too.
Witness == seen' = [p \in Polls |-> IF poll'[p] = None THEN {}
                                    ELSE seen[p] \cup {Verdict'}]

\* Mutant of MiningChecked: an outage of the miners is remembered.
MiningCheckedSticky(p) ==
    /\ poll[p] = None
    /\ last_response' = Verdict
    /\ poll' = [poll EXCEPT ![p] = "shared"]

\* Mutant of MiningChecked: the answer is taken before it is updated.
MiningCheckedStale(p) ==
    /\ poll[p] = None
    /\ IF submitting /\ Registered # {}
       THEN /\ last_response' = Verdict
            /\ poll' = [poll EXCEPT ![p] = last_response]
       ELSE /\ poll' = [poll EXCEPT ![p] = Verdict]
            /\ UNCHANGED last_response

\* get_health_check of the manager's part.  The early returns, for the miners
\* and without jobs, answer with an object of their own; the others with the
\* shared one.
MiningChecked(p) ==
    /\ poll[p] = None
    /\ IF submitting /\ Registered # {}
       THEN /\ last_response' = Verdict
            /\ poll' = [poll EXCEPT ![p] = "shared"]
       ELSE /\ poll' = [poll EXCEPT ![p] = Verdict]
            /\ UNCHANGED last_response
-----------------------------------------------------------------------------
(* The full node's part, and the answer.                                   *)

\* Its reply: a status, a status nobody knows, or an exception.
Replies == Health \cup {"unknown", "exception"}

FullnodeVerdict(reply) == IF reply \in Health THEN reply ELSE "fail"

Worst(a, b) == IF "fail" \in {a, b} THEN "fail" ELSE IF "warn" \in {a, b} THEN "warn" ELSE "pass"

ManagerPart(p) == IF poll[p] = "shared" THEN last_response ELSE poll[p]

Answer(p, reply) == Worst(ManagerPart(p), FullnodeVerdict(reply))

\* GET /health: the manager's part is computed, the full node's is awaited.
HealthRequested(p) ==
    /\ MiningChecked(p)
    /\ UNCHANGED <<jobVars, submitting, observed>>
    /\ Witness

\* The full node has replied, with any of Replies, and the answer is sent.
HealthAnswered(p) ==
    /\ poll[p] # None
    /\ poll' = [poll EXCEPT ![p] = None]
    /\ UNCHANGED <<jobVars, submitting, cacheVars>>
    /\ Witness
-----------------------------------------------------------------------------
(* What the health check looks at.                                         *)

\* The registry takes the step it was given; a job that is done stays as slow
\* as it was.
JobsStep ==
    /\ \E late \in SUBSET {t \in Txs : visible'[t] = "DONE" /\ visible[t] # "DONE"} :
         slow' = late \cup {t \in slow : visible'[t] = "DONE"}
    /\ observed' = observed \cup {Judgement(Failed', slow')}
    /\ UNCHANGED <<submitting, last_response, poll>>
    /\ Witness

\* A job advances, or a job is cleaned up.  Where a step of the manager moves
\* two jobs at once, only the first move is one the health check can tell.
JobMoves(t) ==
    /\ \E s \in Visible \cup {None} :
         /\ Advanced(visible[t], s) \/ (visible[t] # None /\ Forgotten(visible[t], s))
         /\ visible' = [visible EXCEPT ![t] = s]
    /\ JobsStep

\* A miner submits, or the last one that did so within the hour leaves or
\* falls silent.
MinersChange ==
    /\ submitting' = ~submitting
    /\ UNCHANGED <<jobVars, cacheVars, poll>>
    /\ Witness

HealthStep ==
    \/ \E p \in Polls : HealthRequested(p) \/ HealthAnswered(p)
    \/ \E t \in Txs : JobMoves(t)
    \/ MinersChange
-----------------------------------------------------------------------------
(* Properties.                                                             *)

\* The state space.
HealthTypeOK ==
    /\ visible \in [Txs -> Visible \cup {None}]
    /\ slow \subseteq {t \in Txs : visible[t] = "DONE"}
    /\ submitting \in BOOLEAN
    /\ last_response \in Health
    /\ poll \in [Polls -> Health \cup {None, "shared"}]
    /\ seen \in [Polls -> SUBSET Health]
    /\ observed \subseteq Health

\* An answer was true at some moment since it was computed, whenever the
\* library reads the shared object and although other requests overwrite it
\* meanwhile; the full node can only make it worse.
AnswerWasTrue ==
    \A p \in Polls, reply \in Replies :
      poll[p] # None
        => \E v \in seen[p] : Answer(p, reply) = Worst(v, FullnodeVerdict(reply))

\* What is remembered for times without jobs is what jobs gave cause for:
\* "fail" is never remembered because miners were missing, nor "warn" without
\* a slow job.
VerdictHasCause == last_response \in observed
=============================================================================
