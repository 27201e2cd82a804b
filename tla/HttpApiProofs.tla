---------------------------- MODULE HttpApiProofs ----------------------------
(***************************************************************************)
(* Proofs about HttpApi and the health check below it, for any bodies, ban *)
(* files, clock, tolerance, requests and polls.                            *)
(*                                                                         *)
(* The inductive invariant ApiInv adds to the types that a request under   *)
(* way passed the ban files, that what the jobs amount to now was noted,   *)
(* and that the part of each poll is among the verdicts it has seen.  At   *)
(* the end, the API is an implementation of the registry it is built on.   *)
(***************************************************************************)
EXTENDS HttpApi, TLAPS

\* A submission that waits for its other filters has passed the ban files.
RequestsPassed == \A r \in Requests : request[r] # None => FileFilterPasses(request[r].tx)

\* What jobs give cause for now is on record, and so is what is remembered.
CausesNoted == Judgement(Failed, slow) \in observed /\ VerdictHasCause

\* What a poll will be answered with is a verdict it has seen.
PartsSeen == \A p \in Polls : poll[p] # None => ManagerPart(p) \in seen[p]

ApiInv == ApiTypeOK /\ RequestsPassed /\ CausesNoted /\ PartsSeen

\* A step that leaves the answer the health check keeps and the polls alone.
PollsKept == UNCHANGED <<last_response, poll>> /\ Witness
-----------------------------------------------------------------------------
(* The operators the actions are built from.                               *)

\* A verdict is a health.
LEMMA JudgementIsHealth == \A f, l : Judgement(f, l) \in Health
  BY DEF Judgement, Health

\* A hash that a submission may be mined under is a hash.
LEMMA DatedIsTx ==
    ASSUME NEW tx \in Txs, now \in Times
    PROVE  Dated(tx) \in Txs /\ Dated(tx)[1] = tx[1] /\ (Timely(tx) => Near(Dated(tx)[2]))
  <1>1. Txs = Bodies \X Times /\ MaxTimestampDelta \in Nat /\ MaxTime \in Nat
    BY ApiAssumption
  <1>2. PICK b \in Bodies, t \in Times : tx = <<b, t>>
    BY <1>1
  <1>3. now \in Nat
    BY <1>1 DEF Times
  <1>4. Near(now)
    BY <1>1, <1>3 DEF Near
  <1>5. CASE Near(t)
    BY <1>2, <1>5 DEF Dated, Timely
  <1>6. CASE ~Near(t)
    BY <1>1, <1>2, <1>4, <1>6 DEF Dated, Timely
  <1> QED BY <1>5, <1>6

\* Whoever sees the verdict stays well typed.
LEMMA WitnessIsTyped ==
    ASSUME HealthTypeOK, Witness, last_response' \in Health
    PROVE  seen' \in [Polls -> SUBSET Health]
  <1>1. Verdict' \in Health
    <2>1. Judgement(Failed', slow') \in Health
      BY JudgementIsHealth
    <2> QED BY <2>1 DEF Verdict, Health
  <1> QED BY <1>1 DEF HealthTypeOK, Witness

\* Polls that are left alone keep a part that they have seen.
LEMMA KeptPartsAreSeen ==
    ASSUME HealthTypeOK, PartsSeen, PollsKept
    PROVE  /\ seen' \in [Polls -> SUBSET Health]
           /\ PartsSeen'
  <1>1. seen' \in [Polls -> SUBSET Health]
    BY WitnessIsTyped DEF PollsKept, HealthTypeOK
  <1>2. ASSUME NEW p \in Polls, poll'[p] # None PROVE ManagerPart(p)' \in seen'[p]
    <2>1. ManagerPart(p)' = ManagerPart(p) /\ ManagerPart(p) \in seen[p]
      BY <1>2 DEF PollsKept, PartsSeen, ManagerPart
    <2> QED BY <1>2, <2>1 DEF PollsKept, Witness
  <1> QED BY <1>1, <1>2 DEF PartsSeen
-----------------------------------------------------------------------------
(* One lemma per kind of step.                                             *)

\* A step of the jobs, whichever it is.
LEMMA JobsStepKeeps ==
    ASSUME HealthTypeOK, CausesNoted, PartsSeen, JobsStep,
           visible' \in [Txs -> Visible \cup {None}]
    PROVE  HealthTypeOK' /\ CausesNoted' /\ PartsSeen'
  <1>1. PollsKept /\ UNCHANGED <<submitting, last_response, poll>>
    BY DEF JobsStep, PollsKept
  <1>2. seen' \in [Polls -> SUBSET Health] /\ PartsSeen'
    BY <1>1, KeptPartsAreSeen
  <1>3. slow' \subseteq {t \in Txs : visible'[t] = "DONE"}
    BY DEF JobsStep, HealthTypeOK
  <1>4. observed' = observed \cup {Judgement(Failed', slow')}
    BY DEF JobsStep
  <1>5. observed' \subseteq Health
    BY <1>4, JudgementIsHealth DEF HealthTypeOK
  <1>6. HealthTypeOK'
    BY <1>1, <1>2, <1>3, <1>5 DEF HealthTypeOK
  <1>7. CausesNoted'
    BY <1>1, <1>4 DEF CausesNoted, VerdictHasCause
  <1> QED BY <1>2, <1>6, <1>7

\* A step that has nothing to do with health.
LEMMA HealthUntouched ==
    ASSUME HealthTypeOK, CausesNoted, PartsSeen, UNCHANGED healthVars
    PROVE  HealthTypeOK' /\ CausesNoted' /\ PartsSeen'
  BY DEF healthVars, jobVars, cacheVars, pollVars, HealthTypeOK, CausesNoted, PartsSeen,
         VerdictHasCause, ManagerPart, Failed

\* A health request is answered by what holds now, and so are those that share
\* its answer.
LEMMA HealthRequestedKeeps ==
    ASSUME HealthTypeOK, CausesNoted, PartsSeen, NEW p \in Polls, HealthRequested(p)
    PROVE  HealthTypeOK' /\ CausesNoted' /\ PartsSeen'
  <1>1. /\ UNCHANGED <<jobVars, submitting, observed>> /\ Witness /\ MiningChecked(p)
        /\ UNCHANGED <<visible, slow>>
    BY DEF HealthRequested, jobVars
  <1>2. Failed' = Failed /\ Registered' = Registered
    BY <1>1 DEF Failed, Registered
  <1>3. Verdict \in Health
    <2>1. Judgement(Failed, slow) \in Health
      BY JudgementIsHealth
    <2> QED BY <2>1 DEF Verdict, Health, HealthTypeOK
  <1>4. CASE submitting /\ Registered # {}
    <2>1. /\ last_response' = Verdict
          /\ poll' = [poll EXCEPT ![p] = "shared"]
      BY <1>1, <1>4 DEF MiningChecked
    <2>2. Verdict = Judgement(Failed, slow) /\ Verdict' = Verdict
      BY <1>1, <1>2, <1>4 DEF Verdict
    <2>3. seen' \in [Polls -> SUBSET Health]
      BY <1>1, <1>3, <2>1, WitnessIsTyped
    <2>4. HealthTypeOK'
      BY <1>1, <1>3, <2>1, <2>3 DEF HealthTypeOK
    <2>5. CausesNoted'
      BY <1>1, <1>2, <2>1, <2>2 DEF CausesNoted, VerdictHasCause
    <2>6. ASSUME NEW q \in Polls, poll'[q] # None PROVE ManagerPart(q)' \in seen'[q]
      <3>1. seen'[q] = seen[q] \cup {Verdict}
        BY <1>1, <2>2, <2>6 DEF Witness
      <3>2. CASE poll'[q] = "shared"
        BY <2>1, <3>1, <3>2 DEF ManagerPart
      <3>3. CASE poll'[q] # "shared"
        <4>1. q # p /\ poll'[q] = poll[q]
          BY <2>1, <3>3 DEF HealthTypeOK
        <4> QED BY <2>6, <3>1, <3>3, <4>1 DEF ManagerPart, PartsSeen
      <3> QED BY <3>2, <3>3
    <2> QED BY <2>4, <2>5, <2>6 DEF PartsSeen
  <1>5. CASE ~(submitting /\ Registered # {})
    <2>1. /\ UNCHANGED last_response
          /\ poll' = [poll EXCEPT ![p] = Verdict]
      BY <1>1, <1>5 DEF MiningChecked
    <2>2. Verdict' = Verdict
      BY <1>1, <1>2, <2>1 DEF Verdict
    <2>3. seen' \in [Polls -> SUBSET Health]
      BY <1>1, <2>1, WitnessIsTyped DEF HealthTypeOK
    <2>4. HealthTypeOK'
      BY <1>1, <1>3, <2>1, <2>3 DEF HealthTypeOK
    <2>5. CausesNoted'
      BY <1>1, <1>2, <2>1 DEF CausesNoted, VerdictHasCause
    <2>6. ASSUME NEW q \in Polls, poll'[q] # None PROVE ManagerPart(q)' \in seen'[q]
      <3>1. seen'[q] = seen[q] \cup {Verdict}
        BY <1>1, <2>2, <2>6 DEF Witness
      <3>2. CASE q = p
        <4>1. poll'[q] = Verdict /\ Verdict # "shared"
          BY <1>3, <2>1, <3>2 DEF HealthTypeOK, Health
        <4> QED BY <3>1, <4>1 DEF ManagerPart
      <3>3. CASE q # p
        <4>1. poll'[q] = poll[q] /\ ManagerPart(q)' = ManagerPart(q)
          BY <2>1, <3>3 DEF HealthTypeOK, ManagerPart
        <4> QED BY <2>6, <3>1, <4>1 DEF PartsSeen
      <3> QED BY <3>2, <3>3
    <2> QED BY <2>4, <2>5, <2>6 DEF PartsSeen
  <1> QED BY <1>4, <1>5

\* A health request is over, or the miners change.
LEMMA HealthAnsweredKeeps ==
    ASSUME HealthTypeOK, CausesNoted, PartsSeen, NEW p \in Polls, HealthAnswered(p)
    PROVE  HealthTypeOK' /\ CausesNoted' /\ PartsSeen'
  <1>1. /\ poll' = [poll EXCEPT ![p] = None] /\ Witness
        /\ UNCHANGED <<visible, slow, submitting, last_response, observed>>
    BY DEF HealthAnswered, jobVars, cacheVars
  <1>2. seen' \in [Polls -> SUBSET Health]
    BY <1>1, WitnessIsTyped DEF HealthTypeOK
  <1>3. HealthTypeOK' /\ CausesNoted'
    BY <1>1, <1>2 DEF HealthTypeOK, CausesNoted, VerdictHasCause, Failed
  <1>4. ASSUME NEW q \in Polls, poll'[q] # None PROVE ManagerPart(q)' \in seen'[q]
    <2>1. q # p /\ poll'[q] = poll[q] /\ ManagerPart(q)' = ManagerPart(q)
      BY <1>1, <1>4 DEF HealthTypeOK, ManagerPart
    <2> QED BY <1>1, <1>4, <2>1 DEF PartsSeen, Witness
  <1> QED BY <1>3, <1>4 DEF PartsSeen

\* Every step of the health check and of what it looks at keeps the invariant.
LEMMA HealthStepKeeps ==
    ASSUME HealthTypeOK, CausesNoted, PartsSeen, HealthStep
    PROVE  HealthTypeOK' /\ CausesNoted' /\ PartsSeen'
  <1>1. ASSUME NEW t \in Txs, JobMoves(t) PROVE HealthTypeOK' /\ CausesNoted' /\ PartsSeen'
    <2>1. visible' \in [Txs -> Visible \cup {None}] /\ JobsStep
      BY <1>1 DEF JobMoves, HealthTypeOK
    <2> QED BY <2>1, JobsStepKeeps
  <1>2. ASSUME MinersChange PROVE HealthTypeOK' /\ CausesNoted' /\ PartsSeen'
    <2>1. PollsKept /\ submitting' \in BOOLEAN /\ UNCHANGED <<visible, slow, last_response, observed, poll>>
      BY <1>2 DEF MinersChange, PollsKept, HealthTypeOK, jobVars, cacheVars
    <2>2. seen' \in [Polls -> SUBSET Health] /\ PartsSeen'
      BY <2>1, KeptPartsAreSeen
    <2> QED BY <2>1, <2>2 DEF HealthTypeOK, CausesNoted, VerdictHasCause, Failed
  <1> QED BY <1>1, <1>2, HealthRequestedKeeps, HealthAnsweredKeeps DEF HealthStep
-----------------------------------------------------------------------------
(* The invariant.                                                          *)

\* It holds at the start.
LEMMA ApiInvInit == ApiInit => ApiInv
  <1> SUFFICES ASSUME ApiInit PROVE ApiInv
    OBVIOUS
  <1>1. /\ visible = [t \in Txs |-> None] /\ slow = {} /\ submitting = FALSE
        /\ last_response = "pass" /\ observed = {"pass"}
        /\ poll = [p \in Polls |-> None] /\ seen = [p \in Polls |-> {}]
        /\ now = 0 /\ refuse_new_jobs = FALSE /\ request = [r \in Requests |-> None]
    BY DEF ApiInit, HealthInit, Init
  <1>2. 0 \in Times
    BY ApiAssumption DEF Times
  <1>3. ApiTypeOK
    BY <1>1, <1>2 DEF ApiTypeOK, HealthTypeOK, Health
  <1>4. Failed = {}
    BY <1>1, NoneIsNoStatus DEF Failed, Visible
  <1>5. CausesNoted
    BY <1>1, <1>4 DEF CausesNoted, VerdictHasCause, Judgement
  <1> QED BY <1>1, <1>3, <1>5 DEF ApiInv, RequestsPassed, PartsSeen

\* Every step keeps it.
LEMMA ApiInvStep == ApiInv /\ [ApiNext]_apiVars => ApiInv'
  <1> SUFFICES ASSUME ApiInv, [ApiNext]_apiVars PROVE ApiInv'
    OBVIOUS
  <1> DEFINE Healthy == HealthTypeOK' /\ CausesNoted' /\ PartsSeen'
             Rest == /\ now' \in Times /\ refuse_new_jobs' \in BOOLEAN
                     /\ request' \in [Requests -> {None} \cup
                                        [tx : Txs, toi : ToiAnswers \cup {"awaited"}]]
                     /\ RequestsPassed'
  <1>1. /\ HealthTypeOK /\ CausesNoted /\ PartsSeen /\ RequestsPassed
        /\ now \in Times /\ refuse_new_jobs \in BOOLEAN
        /\ request \in [Requests -> {None} \cup [tx : Txs, toi : ToiAnswers \cup {"awaited"}]]
    BY DEF ApiInv, ApiTypeOK
  <1>2. UNCHANGED healthVars => Healthy
    BY <1>1, HealthUntouched
  <1>3. UNCHANGED <<now, refuse_new_jobs, request>> => Rest
    BY <1>1 DEF RequestsPassed
  <1>4. ASSUME NEW r \in Requests, SubmitArrives(r) PROVE Healthy /\ Rest
    <2>1. PICK tx \in Txs : /\ FileFilterPasses(tx)
                            /\ request' = [request EXCEPT ![r] = [tx |-> tx, toi |-> "awaited"]]
      BY <1>4 DEF SubmitArrives
    <2>2. UNCHANGED healthVars /\ now' = now /\ refuse_new_jobs' = refuse_new_jobs
      BY <1>4 DEF SubmitArrives
    <2>3. ASSUME NEW q \in Requests, request'[q] # None PROVE FileFilterPasses(request'[q].tx)
      BY <1>1, <2>1, <2>3 DEF RequestsPassed
    <2> QED BY <1>1, <1>2, <2>1, <2>2, <2>3 DEF RequestsPassed
  <1>5. ASSUME NEW r \in Requests, ToiReplies(r) PROVE Healthy /\ Rest
    <2>1. PICK answer \in ToiAnswers : request' = [request EXCEPT ![r].toi = answer]
      BY <1>5 DEF ToiReplies
    <2>2. /\ UNCHANGED healthVars /\ now' = now /\ refuse_new_jobs' = refuse_new_jobs
          /\ request[r] # None
      BY <1>5 DEF ToiReplies
    <2>3. request[r] \in [tx : Txs, toi : ToiAnswers \cup {"awaited"}]
      BY <1>1, <2>2
    <2>4. /\ request'[r] \in [tx : Txs, toi : ToiAnswers \cup {"awaited"}]
          /\ request'[r].tx = request[r].tx
          /\ \A q \in Requests \ {r} : request'[q] = request[q]
          /\ request' \in [Requests -> {None} \cup [tx : Txs, toi : ToiAnswers \cup {"awaited"}]]
      BY <1>1, <2>1, <2>3
    <2>5. RequestsPassed'
      BY <1>1, <2>2, <2>4 DEF RequestsPassed
    <2> QED BY <1>1, <1>2, <2>2, <2>4, <2>5
  <1>6. ASSUME NEW r \in Requests, SubmitEnds(r) PROVE Healthy /\ Rest
    <2>1. /\ request[r] # None /\ request' = [request EXCEPT ![r] = None]
          /\ now' = now /\ refuse_new_jobs' = refuse_new_jobs
      BY <1>6 DEF SubmitEnds
    <2>2. Rest
      BY <1>1, <2>1 DEF RequestsPassed
    <2>3. ASSUME NEW s \in Fresh, JobsStep,
                 visible' = [visible EXCEPT ![Dated(request[r].tx)] = s]
          PROVE  Healthy
      <3>1. visible' \in [Txs -> Visible \cup {None}]
        BY <1>1, <2>3 DEF HealthTypeOK, Fresh, Visible, Live
      <3> QED BY <1>1, <2>3, <3>1, JobsStepKeeps
    <2> QED BY <1>2, <1>6, <2>2, <2>3 DEF SubmitEnds
  <1>7. ASSUME NEW t \in Txs, CancelJob(t) PROVE Healthy /\ Rest
    <2>1. visible' \in [Txs -> Visible \cup {None}] /\ JobsStep
      BY <1>1, <1>7 DEF CancelJob, HealthTypeOK
    <2> QED BY <1>1, <1>3, <1>7, <2>1, JobsStepKeeps DEF CancelJob
  <1>8. ASSUME HealthStep, UNCHANGED <<now, refuse_new_jobs, request>> PROVE Healthy /\ Rest
    BY <1>1, <1>3, <1>8, HealthStepKeeps
  <1>9. ASSUME Tick \/ RefuseNewJobs PROVE Healthy /\ Rest
    <2>1. MaxTime \in Nat
      BY ApiAssumption
    <2>2. CASE Tick
      <3>1. now' \in Times /\ UNCHANGED <<healthVars, refuse_new_jobs, request>>
        BY <1>1, <2>1, <2>2 DEF Tick, Times
      <3> QED BY <1>1, <1>2, <3>1 DEF RequestsPassed
    <2>3. CASE RefuseNewJobs
      BY <1>1, <1>2, <2>3 DEF RefuseNewJobs, RequestsPassed
    <2> QED BY <1>9, <2>2, <2>3
  <1>10. ASSUME UNCHANGED apiVars PROVE Healthy /\ Rest
    BY <1>2, <1>3, <1>10 DEF apiVars
  <1>11. Healthy /\ Rest
    BY <1>4, <1>5, <1>6, <1>7, <1>8, <1>9, <1>10 DEF ApiNext
  <1> QED BY <1>11 DEF ApiInv, ApiTypeOK

\* The invariant holds always.
THEOREM ApiInvHolds == ApiSpec => []ApiInv
  BY ApiInvInit, ApiInvStep, PTL DEF ApiSpec

\* The state stays in its types.
THEOREM ApiTypesHold == ApiSpec => []ApiTypeOK
  BY ApiInvHolds, PTL DEF ApiInv
-----------------------------------------------------------------------------
(* Health.                                                                 *)

\* "fail" is never remembered for want of miners, nor "warn" without a slow
\* job.
THEOREM VerdictsHaveCause == ApiSpec => []VerdictHasCause
  <1>1. ApiInv => VerdictHasCause
    BY DEF ApiInv, CausesNoted
  <1> QED BY <1>1, ApiInvHolds, PTL

\* Each health answer was true at a moment since it was computed.
THEOREM AnswersWereTrue == ApiSpec => []AnswerWasTrue
  <1>1. ApiInv => AnswerWasTrue
    BY DEF ApiInv, PartsSeen, AnswerWasTrue, Answer
  <1> QED BY <1>1, ApiInvHolds, PTL
-----------------------------------------------------------------------------
(* Admission.                                                              *)

\* A job is added by the end of a submission only.
LEMMA OnlySubmissionsAdd ==
    ASSUME ApiInv, [ApiNext]_apiVars, NEW t \in Txs, Added(t)
    PROVE  \E r \in Requests : /\ SubmitEnds(r) /\ Admitted(r)
                               /\ request[r].tx \in Txs
                               /\ t = Dated(request[r].tx)
  <1>1. /\ visible \in [Txs -> Visible \cup {None}] /\ now \in Times
        /\ visible[t] \in {None, "TIMEOUT"} /\ visible'[t] \in Fresh
        /\ request \in [Requests -> {None} \cup [tx : Txs, toi : ToiAnswers \cup {"awaited"}]]
    BY DEF ApiInv, ApiTypeOK, HealthTypeOK, Added, Submitted
  <1>2. /\ visible'[t] # visible[t] /\ None \notin Visible /\ Fresh \subseteq Visible
        /\ "TIMEOUT" \notin Fresh
    BY <1>1, NoneIsNoStatus DEF Fresh, Visible, Live, Unhappy
  <1>3. ASSUME NEW x \in Txs, JobMoves(x) PROVE FALSE
    <2>1. PICK s \in Visible \cup {None} :
            /\ Advanced(visible[x], s) \/ Forgotten(visible[x], s)
            /\ visible' = [visible EXCEPT ![x] = s]
      BY <1>3 DEF JobMoves
    <2>2. x = t /\ s = visible'[t]
      BY <1>1, <1>2, <2>1
    <2>3. visible[t] = "TIMEOUT" /\ Rank["TIMEOUT"] < Rank[visible'[t]]
      BY <1>1, <1>2, <2>1, <2>2 DEF Advanced, Forgotten
    <2>4. /\ Rank["TIMEOUT"] = 4 /\ Rank["PENDING"] = 0 /\ Rank["ENQUEUED"] = 2
          /\ Rank["MINING"] = 3
      BY DEF Rank, Visible, Live, Unhappy
    <2> QED BY <1>1, <2>3, <2>4 DEF Fresh
  <1>4. ASSUME NEW x \in Txs, CancelJob(x) PROVE FALSE
    BY <1>1, <1>2, <1>4 DEF CancelJob
  <1>5. visible' # visible
    BY <1>2
  <1>6. ASSUME \/ \E r \in Requests : SubmitArrives(r) \/ ToiReplies(r)
               \/ \E p \in Polls : HealthRequested(p) \/ HealthAnswered(p)
               \/ MinersChange \/ Tick \/ RefuseNewJobs \/ UNCHANGED apiVars
        PROVE  FALSE
    BY <1>5, <1>6 DEF SubmitArrives, ToiReplies, HealthRequested, HealthAnswered, MinersChange,
                      Tick, RefuseNewJobs, apiVars, healthVars, jobVars
  <1>7. PICK r \in Requests : SubmitEnds(r)
    BY <1>3, <1>4, <1>6 DEF ApiNext, HealthStep
  <1>8. request[r].tx \in Txs
    BY <1>1, <1>7 DEF SubmitEnds
  <1>9. Admitted(r) /\ t = Dated(request[r].tx)
    <2>1. ASSUME ~Admitted(r) PROVE FALSE
      BY <1>5, <1>7, <2>1 DEF SubmitEnds, healthVars, jobVars
    <2>2. PICK s \in Fresh : visible' = [visible EXCEPT ![Dated(request[r].tx)] = s]
      BY <1>7, <2>1 DEF SubmitEnds
    <2> QED BY <1>1, <1>2, <2>1, <2>2
  <1> QED BY <1>7, <1>8, <1>9

\* However long its filters were awaited, a job is added while the service
\* takes jobs and with a timestamp near the clock.
THEOREM JobsAreAdmittedWhenAdded == ApiSpec => AdmittedWhenAdded
  <1>1. ApiInv /\ [ApiNext]_apiVars
          => [\A t \in Txs : Added(t) => ~refuse_new_jobs /\ Near(t[2])]_apiVars
    <2> SUFFICES ASSUME ApiInv, [ApiNext]_apiVars, NEW t \in Txs, Added(t)
                 PROVE  ~refuse_new_jobs /\ Near(t[2])
      OBVIOUS
    <2>1. PICK r \in Requests : /\ Admitted(r) /\ request[r].tx \in Txs
                                /\ t = Dated(request[r].tx)
      BY OnlySubmissionsAdd
    <2>2. now \in Times
      BY DEF ApiInv, ApiTypeOK
    <2> QED BY <2>1, <2>2, DatedIsTx DEF Admitted, Accepts
  <1> QED BY <1>1, ApiInvHolds, PTL DEF ApiSpec, AdmittedWhenAdded

\* A job is only added for a request that the ban files and TOI let pass.
THEOREM NoJobIsBanned == ApiSpec => NoBannedJob
  <1>1. ApiInv /\ [ApiNext]_apiVars => [\A t \in Txs : Added(t) => Cleared(t[1])]_apiVars
    <2> SUFFICES ASSUME ApiInv, [ApiNext]_apiVars, NEW t \in Txs, Added(t) PROVE Cleared(t[1])
      OBVIOUS
    <2>1. PICK r \in Requests : /\ SubmitEnds(r) /\ Admitted(r) /\ request[r].tx \in Txs
                                /\ t = Dated(request[r].tx)
      BY OnlySubmissionsAdd
    <2>2. now \in Times /\ RequestsPassed
          /\ request \in [Requests -> {None} \cup [tx : Txs, toi : ToiAnswers \cup {"awaited"}]]
      BY DEF ApiInv, ApiTypeOK
    <2>3. t[1] = request[r].tx[1]
      BY <2>1, <2>2, DatedIsTx
    <2>4. request[r] # None /\ request'[r] = None
      BY <2>1, <2>2 DEF SubmitEnds
    <2>5. request[r].tx[1] \notin BannedBodies
      BY <2>2, <2>4 DEF RequestsPassed, FileFilterPasses
    <2>6. request[r].toi \in {"clean"} \cup (IF ToiFailBlock THEN {} ELSE {"error"})
      BY <2>1 DEF Admitted, ToiFilterPasses
    <2> QED BY <2>3, <2>4, <2>5, <2>6 DEF Cleared
  <1> QED BY <1>1, ApiInvHolds, PTL DEF ApiSpec, NoBannedJob
-----------------------------------------------------------------------------
(* The registry.                                                           *)

\* What a step does to the visible statuses is a step of the registry.
LEMMA ApiStepsAreRegistrySteps ==
    ASSUME ApiInv, [ApiNext]_apiVars
    PROVE  [Next]_visible
  <1>1. /\ visible \in [Txs -> Visible \cup {None}] /\ now \in Times
        /\ request \in [Requests -> {None} \cup [tx : Txs, toi : ToiAnswers \cup {"awaited"}]]
    BY DEF ApiInv, ApiTypeOK, HealthTypeOK
  <1>2. ASSUME NEW t \in Txs, NEW s \in Visible \cup {None}, Moves(visible[t], s),
               visible' = [visible EXCEPT ![t] = s]
        PROVE  Next
    <2>1. visible' \in [Txs -> Visible \cup {None}]
      BY <1>1, <1>2
    <2>2. ASSUME NEW x \in Txs PROVE Moves(visible[x], visible'[x])
      <3>1. CASE x = t
        BY <1>1, <1>2, <3>1
      <3>2. CASE x # t
        BY <1>1, <1>2, <3>2 DEF Moves
      <3> QED BY <3>1, <3>2
    <2> QED BY <2>1, <2>2 DEF Next
  <1>3. ASSUME NEW r \in Requests, SubmitEnds(r), Admitted(r) PROVE Next
    <2>1. request[r].tx \in Txs
      BY <1>1, <1>3 DEF SubmitEnds
    <2>2. Dated(request[r].tx) \in Txs
      BY <1>1, <2>1, DatedIsTx
    <2>3. PICK s \in Fresh : visible' = [visible EXCEPT ![Dated(request[r].tx)] = s]
      BY <1>3 DEF SubmitEnds
    <2>4. Moves(visible[Dated(request[r].tx)], s)
      BY <1>3, <2>3 DEF Admitted, Accepts, Moves, Submitted
    <2>5. s \in Visible \cup {None}
      BY <2>3 DEF Fresh, Visible, Live
    <2> QED BY <1>2, <2>2, <2>3, <2>4, <2>5
  <1>4. ASSUME NEW t \in Txs, CancelJob(t) PROVE Next
    BY <1>2, <1>4 DEF CancelJob, Moves, Forgotten
  <1>5. ASSUME NEW t \in Txs, JobMoves(t) PROVE Next
    <2>1. PICK s \in Visible \cup {None} :
            /\ Advanced(visible[t], s) \/ (visible[t] # None /\ Forgotten(visible[t], s))
            /\ visible' = [visible EXCEPT ![t] = s]
      BY <1>5 DEF JobMoves
    <2> QED BY <1>2, <2>1 DEF Moves
  <1>6. ASSUME \/ \E r \in Requests : SubmitArrives(r) \/ ToiReplies(r)
               \/ \E r \in Requests : SubmitEnds(r) /\ ~Admitted(r)
               \/ \E p \in Polls : HealthRequested(p) \/ HealthAnswered(p)
               \/ MinersChange \/ Tick \/ RefuseNewJobs \/ UNCHANGED apiVars
        PROVE  UNCHANGED visible
    BY <1>6 DEF SubmitArrives, ToiReplies, SubmitEnds, HealthRequested, HealthAnswered,
                MinersChange, Tick, RefuseNewJobs, apiVars, healthVars, jobVars
  <1> QED BY <1>3, <1>4, <1>5, <1>6 DEF ApiNext, HealthStep

\* The API with its health check implements the registry that its clients see:
\* whatever requests, polls, clock and shutdown do, a hash is only submitted
\* anew over nothing or a timeout, advances in rank, or is forgotten.
THEOREM ApiImplementsRegistry == ApiSpec => Spec
  <1>1. ApiInit => Init
    BY DEF ApiInit, HealthInit
  <1>2. ApiInv /\ [ApiNext]_apiVars => [Next]_visible
    BY ApiStepsAreRegistrySteps
  <1> QED BY <1>1, <1>2, ApiInvHolds, PTL DEF ApiSpec, Spec
=============================================================================
