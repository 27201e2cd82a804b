------------------------ MODULE StratumProtocolProofs ------------------------
(***************************************************************************)
(* Proofs about StratumProtocol: for any transactions and weights, any     *)
(* limits, and any answers of the miner and the estimator.                 *)
(*                                                                         *)
(* The invariant is stated of the record of fields that a handler threads  *)
(* through the jobs it sends, so that one lemma on UpdateMinerJob serves   *)
(* all handlers, those that send two jobs included.                        *)
(***************************************************************************)
EXTENDS StratumProtocol, FiniteSetTheorems, SequenceTheorems, TLAPS

MadeJob == [work : Work, clean : BOOLEAN, submitted : BOOLEAN, share_weight : Nat]

\* The jobs known are the last MaxJobs of the n that were made.
Latest(known, n) ==
    /\ known \in Seq(Nat)
    /\ Len(known) = MinOf(MaxJobs, n)
    /\ \A i \in 1..Len(known) : known[i] = n - Len(known) + i

FieldsType(f) == f \in [made : Seq(MadeJob), jobs : Seq(Nat), weight : Nat]

SharesFair(f) ==
    \A id \in 1..Len(f.made) :
      /\ f.made[id].share_weight <= Weight[f.made[id].work]
      /\ f.made[id].share_weight >= MinOf(MinWeight, Weight[f.made[id].work])

NewIsClean(f) ==
    \A id \in 1..Len(f.made) :
      f.made[id].work \in TxJobs /\ (id = 1 \/ f.made[id - 1].work # f.made[id].work)
        => f.made[id].clean

\* The invariant of the fields.
FieldsOK(f) ==
    /\ FieldsType(f)
    /\ Latest(f.jobs, Len(f.made))
    /\ f.weight >= MinWeight
    /\ SharesFair(f)
    /\ NewIsClean(f)

Answered(f) == {id \in 1..Len(f.made) : f.made[id].submitted}

Counted ==
    /\ completed_jobs = Cardinality(Answered(Fields))
    /\ solutions \in Nat /\ completed_jobs \in Nat /\ solutions <= completed_jobs

\* The rest of the state.
RestType ==
    /\ open \in BOOLEAN /\ subscribed \in BOOLEAN
    /\ best \in Work \cup {None}
    /\ recent \in Nat /\ work \in Nat
    /\ tasks \subseteq {"estimator", "refresh"}

ProtocolInv == FieldsOK(Fields) /\ Counted /\ RestType
-----------------------------------------------------------------------------
(* The operators the handlers are built from.                              *)

\* A job that is remembered takes the place of the oldest one.
LEMMA RememberLatest ==
    ASSUME NEW known, NEW n \in Nat, Latest(known, n)
    PROVE  Latest(Remember(known, n + 1), n + 1)
  <1>1. /\ known \in Seq(Nat) /\ Len(known) = MinOf(MaxJobs, n) /\ MaxJobs \in Nat /\ MaxJobs > 0
        /\ \A i \in 1..Len(known) : known[i] = n - Len(known) + i
    BY ProtocolAssumption DEF Latest
  <1> DEFINE more == Append(known, n + 1)
  <1>2. /\ more \in Seq(Nat) /\ Len(more) = Len(known) + 1
        /\ \A i \in 1..Len(known) : more[i] = known[i]
        /\ more[Len(known) + 1] = n + 1
    BY <1>1, AppendProperties
  <1>3. \A i \in 1..Len(more) : more[i] = (n + 1) - Len(more) + i
    BY <1>1, <1>2
  <1> HIDE DEF more
  <1>4. CASE Len(known) < MaxJobs
    <2>1. Len(more) = MinOf(MaxJobs, n + 1)
      BY <1>1, <1>2, <1>4 DEF MinOf
    <2> QED BY <1>2, <1>3, <1>4, <2>1 DEF Latest, Remember, more
  <1>5. CASE ~(Len(known) < MaxJobs)
    <2>1. Len(known) = MaxJobs /\ n >= MaxJobs
      BY <1>1, <1>5 DEF MinOf
    <2>2. more # <<>>
      BY <1>1, <1>2
    <2>3. /\ Tail(more) \in Seq(Nat) /\ Len(Tail(more)) = Len(more) - 1
          /\ \A i \in 1..(Len(more) - 1) : Tail(more)[i] = more[i + 1]
      BY <1>2, <2>2
    <2>4. Len(Tail(more)) = MinOf(MaxJobs, n + 1)
      BY <1>1, <1>2, <2>1, <2>3 DEF MinOf
    <2>5. ASSUME NEW i \in 1..Len(Tail(more))
          PROVE  Tail(more)[i] = (n + 1) - Len(Tail(more)) + i
      <3>1. Len(more) \in Nat /\ i \in 1..(Len(more) - 1) /\ i + 1 \in 1..Len(more)
        BY <1>1, <1>2, <2>3
      <3>2. Tail(more)[i] = more[i + 1] /\ more[i + 1] = (n + 1) - Len(more) + (i + 1)
        BY <1>3, <2>3, <3>1
      <3> QED BY <2>3, <3>1, <3>2
    <2> QED BY <1>5, <2>3, <2>4, <2>5 DEF Latest, Remember, more
  <1> QED BY <1>4, <1>5

\* A job sent keeps the fields right, if it is clean where it has to be.
LEMMA UpdateJobKeeps ==
    ASSUME NEW f, FieldsOK(f), NEW w \in Work, NEW clean \in BOOLEAN,
           w \in TxJobs /\ (f.made = <<>> \/ f.made[Len(f.made)].work # w) => clean
    PROVE  FieldsOK(UpdateJob(f, w, clean)) /\ Answered(UpdateJob(f, w, clean)) = Answered(f)
  <1> DEFINE job == [work |-> w, clean |-> clean, submitted |-> FALSE,
                     share_weight |-> ShareWeight(w, f.weight)]
             made2 == Append(f.made, job)
             n == Len(f.made)
  <1>1. /\ f.made \in Seq(MadeJob) /\ n \in Nat /\ f.weight \in Nat /\ f.weight >= MinWeight
        /\ Weight[w] \in Nat /\ MinWeight \in Nat
    BY ProtocolAssumption DEF FieldsOK, FieldsType, Work
  <1>2. /\ job \in MadeJob
        /\ job.share_weight <= Weight[w] /\ job.share_weight >= MinOf(MinWeight, Weight[w])
    BY <1>1 DEF MadeJob, ShareWeight, MinOf
  <1>3. UpdateJob(f, w, clean) = [made |-> made2, jobs |-> Remember(f.jobs, n + 1), weight |-> f.weight]
    <2>1. UpdateJob(f, w, clean) = [f EXCEPT !.made = made2, !.jobs = Remember(f.jobs, n + 1)]
      BY DEF UpdateJob
    <2> HIDE DEF made2, n
    <2> QED BY <2>1 DEF FieldsOK, FieldsType
  <1>4. job.work = w /\ job.clean = clean /\ job.submitted = FALSE
    OBVIOUS
  <1> HIDE DEF job
  <1>5. /\ made2 \in Seq(MadeJob) /\ Len(made2) = n + 1
        /\ \A i \in 1..n : made2[i] = f.made[i]
        /\ made2[n + 1] = job
    BY <1>1, <1>2, AppendProperties
  <1> HIDE DEF made2
  <1> DEFINE g == UpdateJob(f, w, clean)
  <1>6. g.made = made2 /\ g.jobs = Remember(f.jobs, n + 1) /\ g.weight = f.weight
        /\ g = [made |-> made2, jobs |-> Remember(f.jobs, n + 1), weight |-> f.weight]
    BY <1>3
  <1> HIDE DEF g
  <1>7. Latest(g.jobs, Len(g.made))
    BY <1>1, <1>5, <1>6, RememberLatest DEF FieldsOK
  <1>8. FieldsType(g) /\ g.weight >= MinWeight
    BY <1>1, <1>5, <1>6, <1>7 DEF FieldsType, Latest
  <1>9. \A id \in 1..(n + 1) : id \in 1..n \/ id = n + 1
    BY <1>1
  <1>10. SharesFair(g)
    BY <1>2, <1>4, <1>5, <1>6, <1>9 DEF SharesFair, FieldsOK
  <1>11. NewIsClean(g)
    <2> SUFFICES ASSUME NEW id \in 1..(n + 1), made2[id].work \in TxJobs,
                        id = 1 \/ made2[id - 1].work # made2[id].work
                 PROVE  made2[id].clean
      BY <1>5, <1>6 DEF NewIsClean
    <2>1. CASE id \in 1..n
      <3>1. id = 1 \/ id - 1 \in 1..n
        BY <1>1, <2>1
      <3> QED BY <1>5, <2>1, <3>1 DEF FieldsOK, NewIsClean
    <2>2. CASE id = n + 1
      <3>1. CASE n = 0
        <4>1. f.made = <<>>
          BY <1>1, <3>1, EmptySeq
        <4> QED BY <1>4, <1>5, <2>2, <4>1
      <3>2. CASE n # 0
        <4>1. id # 1 /\ id - 1 = n /\ n \in 1..n
          BY <1>1, <2>2, <3>2
        <4> QED BY <1>4, <1>5, <2>2, <4>1
      <3> QED BY <3>1, <3>2
    <2> QED BY <1>9, <2>1, <2>2
  <1>12. Answered(g) = Answered(f)
    <2>1. \A id \in 1..(n + 1) : made2[id].submitted <=> id \in 1..n /\ f.made[id].submitted
      <3>1. n + 1 \notin 1..n
        BY <1>1
      <3> QED BY <1>4, <1>5, <1>9, <3>1
    <2>2. 1..n \subseteq 1..(n + 1)
      BY <1>1
    <2> QED BY <1>5, <1>6, <2>1, <2>2 DEF Answered
  <1> QED BY <1>7, <1>8, <1>10, <1>11, <1>12 DEF FieldsOK, g

\* Whatever the manager has for the miner, it is sent as it should be.
LEMMA UpdateMinerJobKeeps ==
    ASSUME NEW f, FieldsOK(f), NEW b \in Work \cup {None}, NEW clean \in BOOLEAN
    PROVE  /\ FieldsOK(UpdateMinerJob(f, b, clean))
           /\ Answered(UpdateMinerJob(f, b, clean)) = Answered(f)
  <1>1. CASE b = None
    BY <1>1 DEF UpdateMinerJob
  <1>2. CASE b # None
    <2> DEFINE same == f.made # <<>> /\ f.made[Len(f.made)].work = b
               forced == clean \/ (b \in TxJobs /\ ~same)
    <2>1. UpdateMinerJob(f, b, clean) = UpdateJob(f, b, forced)
      BY <1>2 DEF UpdateMinerJob
    <2>2. forced \in BOOLEAN /\ b \in Work
      BY <1>2
    <2>3. b \in TxJobs /\ (f.made = <<>> \/ f.made[Len(f.made)].work # b) => forced
      OBVIOUS
    <2> HIDE DEF forced
    <2> QED BY <2>1, <2>2, <2>3, UpdateJobKeeps
  <1> QED BY <1>1, <1>2

\* A weight that is set stays above the least one.
LEMMA SetWeightKeeps ==
    ASSUME NEW f, FieldsOK(f), best \in Work \cup {None}, NEW weight \in Int
    PROVE  /\ FieldsOK(SetCurrentWeight(f, weight))
           /\ Answered(SetCurrentWeight(f, weight)) = Answered(f)
  <1> DEFINE g == [f EXCEPT !.weight = MaxOf(MinWeight, weight)]
  <1>1. MaxOf(MinWeight, weight) \in Nat /\ MaxOf(MinWeight, weight) >= MinWeight
    BY ProtocolAssumption DEF MaxOf
  <1>2. /\ g.made = f.made /\ g.jobs = f.jobs /\ g.weight = MaxOf(MinWeight, weight)
        /\ g = [made |-> f.made, jobs |-> f.jobs, weight |-> MaxOf(MinWeight, weight)]
    BY DEF FieldsOK, FieldsType
  <1> HIDE DEF g
  <1>3. FieldsOK(g) /\ Answered(g) = Answered(f)
    BY <1>1, <1>2 DEF FieldsOK, FieldsType, SharesFair, NewIsClean, Answered
  <1>4. SetCurrentWeight(f, weight) = UpdateMinerJob(g, best, FALSE)
    BY DEF SetCurrentWeight, g
  <1> QED BY <1>3, <1>4, UpdateMinerJobKeeps

\* A job that is answered is marked, and nothing else is.
LEMMA AnswerMarks ==
    ASSUME NEW f, FieldsOK(f), NEW id \in 1..Len(f.made)
    PROVE  /\ FieldsOK([f EXCEPT !.made[id].submitted = TRUE])
           /\ Answered([f EXCEPT !.made[id].submitted = TRUE]) = Answered(f) \cup {id}
  <1> DEFINE entry == [f.made[id] EXCEPT !.submitted = TRUE]
             made2 == [f.made EXCEPT ![id] = entry]
             g == [f EXCEPT !.made[id].submitted = TRUE]
  <1>1. f \in [made : Seq(MadeJob), jobs : Seq(Nat), weight : Nat] /\ f.made \in Seq(MadeJob)
        /\ f.made[id] \in MadeJob
    BY DEF FieldsOK, FieldsType
  <1>2. g = [made |-> made2, jobs |-> f.jobs, weight |-> f.weight]
    <2>1. g = [f EXCEPT !.made = made2]
      BY <1>1
    <2> HIDE DEF made2, g
    <2> QED BY <1>1, <2>1
  <1>3. /\ entry \in MadeJob /\ entry.submitted = TRUE
        /\ entry.work = f.made[id].work /\ entry.clean = f.made[id].clean
        /\ entry.share_weight = f.made[id].share_weight
    BY <1>1 DEF MadeJob
  <1> HIDE DEF entry
  <1>4. /\ made2 \in Seq(MadeJob) /\ Len(made2) = Len(f.made)
        /\ made2[id] = entry
        /\ \A k \in 1..Len(f.made) : k # id => made2[k] = f.made[k]
    BY <1>1, <1>3, ExceptSeq
  <1> HIDE DEF made2, g
  <1>5. \A k \in 1..Len(f.made) : /\ made2[k].work = f.made[k].work
                                  /\ made2[k].clean = f.made[k].clean
                                  /\ made2[k].share_weight = f.made[k].share_weight
                                  /\ made2[k].submitted <=> f.made[k].submitted \/ k = id
    BY <1>3, <1>4
  <1>6. FieldsType(g)
    BY <1>1, <1>2, <1>4 DEF FieldsType
  <1>7. /\ g.made = made2 /\ g.jobs = f.jobs /\ g.weight = f.weight
        /\ Len(made2) = Len(f.made)
    BY <1>2, <1>4
  <1>8. SharesFair(g)
    BY <1>5, <1>7 DEF SharesFair, FieldsOK
  <1>9. NewIsClean(g)
    <2> SUFFICES ASSUME NEW k \in 1..Len(f.made), made2[k].work \in TxJobs,
                        k = 1 \/ made2[k - 1].work # made2[k].work
                 PROVE  made2[k].clean
      BY <1>7 DEF NewIsClean
    <2>1. k = 1 \/ k - 1 \in 1..Len(f.made)
      BY <1>1
    <2> QED BY <1>5, <2>1 DEF FieldsOK, NewIsClean
  <1>10. Answered(g) = Answered(f) \cup {id}
    BY <1>5, <1>7 DEF Answered
  <1> QED BY <1>6, <1>7, <1>8, <1>9, <1>10 DEF FieldsOK, g

\* What is sent is what the fields are next.
LEMMA SendGives ==
    ASSUME NEW f, FieldsOK(f), Send(f)
    PROVE  Fields' = f
  <1>1. f \in [made : Seq(MadeJob), jobs : Seq(Nat), weight : Nat]
    BY DEF FieldsOK, FieldsType
  <1> QED BY <1>1 DEF Send, Fields

\* A step that sends what the manager has, or changes no field, and counts
\* nothing.
LEMMA SendingKeeps ==
    ASSUME ProtocolInv, UNCHANGED <<completed_jobs, solutions>>, RestType',
           \/ \E b \in Work \cup {None}, clean \in BOOLEAN : Send(UpdateMinerJob(Fields, b, clean))
           \/ \E weight \in Int : Send(SetCurrentWeight(Fields, weight))
           \/ UNCHANGED <<made, jobs, current_weight>>
    PROVE  ProtocolInv'
  <1>1. FieldsOK(Fields) /\ Counted /\ best \in Work \cup {None}
    BY DEF ProtocolInv, RestType
  <1>2. ASSUME NEW b \in Work \cup {None}, NEW clean \in BOOLEAN,
               Send(UpdateMinerJob(Fields, b, clean))
        PROVE  FieldsOK(Fields)' /\ Answered(Fields)' = Answered(Fields)
    <2> DEFINE g == UpdateMinerJob(Fields, b, clean)
    <2>1. FieldsOK(g) /\ Answered(g) = Answered(Fields)
      BY <1>1, UpdateMinerJobKeeps
    <2> HIDE DEF g
    <2>2. Fields' = g
      BY <1>2, <2>1, SendGives DEF g
    <2> QED BY <2>1, <2>2 DEF FieldsOK, FieldsType, Latest, SharesFair, NewIsClean, Answered
  <1>3. ASSUME NEW weight \in Int, Send(SetCurrentWeight(Fields, weight))
        PROVE  FieldsOK(Fields)' /\ Answered(Fields)' = Answered(Fields)
    <2> DEFINE g == SetCurrentWeight(Fields, weight)
    <2>1. FieldsOK(g) /\ Answered(g) = Answered(Fields)
      BY <1>1, SetWeightKeeps
    <2> HIDE DEF g
    <2>2. Fields' = g
      BY <1>3, <2>1, SendGives DEF g
    <2> QED BY <2>1, <2>2 DEF FieldsOK, FieldsType, Latest, SharesFair, NewIsClean, Answered
  <1>4. ASSUME UNCHANGED <<made, jobs, current_weight>>
        PROVE  FieldsOK(Fields)' /\ Answered(Fields)' = Answered(Fields)
    <2>1. Fields' = Fields
      BY <1>4 DEF Fields
    <2> QED BY <1>1, <2>1 DEF FieldsOK, FieldsType, Latest, SharesFair, NewIsClean, Answered
  <1>5. FieldsOK(Fields)' /\ Answered(Fields)' = Answered(Fields)
    BY <1>2, <1>3, <1>4
  <1>6. Counted'
    BY <1>1, <1>5 DEF Counted
  <1> QED BY <1>5, <1>6 DEF ProtocolInv

\* The jobs that were answered are finitely many.
LEMMA AnsweredIsFinite ==
    ASSUME NEW f, FieldsOK(f)
    PROVE  IsFiniteSet(Answered(f))
  <1>1. Len(f.made) \in Nat
    BY DEF FieldsOK, FieldsType
  <1>2. IsFiniteSet(1..Len(f.made))
    BY <1>1, FS_Interval
  <1> QED BY <1>2, FS_Subset DEF Answered
-----------------------------------------------------------------------------
(* The invariant.                                                          *)

\* It holds at the start.
LEMMA ProtocolInvInit == Init => ProtocolInv
  <1> SUFFICES ASSUME Init PROVE ProtocolInv
    OBVIOUS
  <1>1. /\ made = <<>> /\ jobs = <<>> /\ current_weight = InitialWeight
        /\ completed_jobs = 0 /\ solutions = 0
    BY DEF Init
  <1>2. /\ InitialWeight \in Nat /\ InitialWeight >= MinWeight /\ MaxJobs \in Nat /\ MinWeight \in Nat
    BY ProtocolAssumption
  <1>3. FieldsType(Fields)
    BY <1>1, <1>2 DEF FieldsType, Fields
  <1>4. Latest(Fields.jobs, Len(Fields.made))
    BY <1>1, <1>2 DEF Latest, Fields, MinOf
  <1>5. SharesFair(Fields) /\ NewIsClean(Fields) /\ Fields.weight >= MinWeight
    BY <1>1, <1>2 DEF SharesFair, NewIsClean, Fields
  <1>6. Answered(Fields) = {}
    BY <1>1 DEF Answered, Fields
  <1>7. Counted
    BY <1>1, <1>6, FS_EmptySet DEF Counted
  <1>8. RestType
    BY DEF Init, RestType
  <1> QED BY <1>3, <1>4, <1>5, <1>7, <1>8 DEF ProtocolInv, FieldsOK

\* An accepted answer keeps it: it is counted once, and what it makes the
\* protocol send is right.
LEMMA SubmitKeeps ==
    ASSUME ProtocolInv, NEW id \in 1..Len(made), NEW full \in BOOLEAN, Submit(id, full)
    PROVE  ProtocolInv'
  <1> DEFINE answered == [Fields EXCEPT !.made[id].submitted = TRUE]
             raised == IF recent' > Burst THEN SetCurrentWeight(answered, current_weight + 2)
                       ELSE answered
             last == IF full THEN raised ELSE UpdateMinerJob(raised, best, TRUE)
  <1>1. FieldsOK(Fields) /\ Counted /\ RestType /\ best \in Work \cup {None}
    BY DEF ProtocolInv, RestType
  <1>2. Fields.made = made /\ Fields.weight = current_weight /\ current_weight \in Nat
    BY <1>1 DEF Fields, FieldsOK, FieldsType
  <1>3. /\ ~made[id].submitted /\ Send(last)
        /\ completed_jobs' = completed_jobs + 1
        /\ solutions' \in {solutions, solutions + 1}
    BY DEF Submit, Accepted
  <1>4. FieldsOK(answered) /\ Answered(answered) = Answered(Fields) \cup {id}
    BY <1>1, <1>2, AnswerMarks
  <1> HIDE DEF answered
  <1>5. FieldsOK(raised) /\ Answered(raised) = Answered(answered)
    <2>1. current_weight + 2 \in Int
      BY <1>2
    <2> QED BY <1>1, <1>4, <2>1, SetWeightKeeps
  <1> HIDE DEF raised
  <1>6. FieldsOK(last) /\ Answered(last) = Answered(raised)
    BY <1>1, <1>5, UpdateMinerJobKeeps
  <1> HIDE DEF last
  <1>7. Fields' = last
    BY <1>3, <1>6, SendGives
  <1>8. FieldsOK(Fields)' /\ Answered(Fields)' = Answered(Fields) \cup {id}
    BY <1>4, <1>5, <1>6, <1>7 DEF FieldsOK, FieldsType, Latest, SharesFair, NewIsClean, Answered
  <1>9. id \notin Answered(Fields)
    BY <1>2, <1>3 DEF Answered
  <1>10. Cardinality(Answered(Fields) \cup {id}) = Cardinality(Answered(Fields)) + 1
    BY <1>1, <1>9, AnsweredIsFinite, FS_AddElement
  <1>11. Counted'
    BY <1>1, <1>3, <1>8, <1>10 DEF Counted
  <1>12. RestType'
    BY <1>1 DEF Submit, RestType
  <1> QED BY <1>8, <1>11, <1>12 DEF ProtocolInv

\* A miner that subscribes or authorizes, and its periodic tasks.
LEMMA MinerKeeps ==
    ASSUME ProtocolInv, Subscribe \/ Authorize \/ RefreshJob \/ EstimatorLoop
    PROVE  ProtocolInv'
  <1>1. RestType /\ best \in Work \cup {None} /\ FALSE \in BOOLEAN
    BY DEF ProtocolInv, RestType
  <1>2. current_weight - 1 \in Int /\ Estimates \subseteq Int
    BY ProtocolAssumption DEF ProtocolInv, FieldsOK, FieldsType, Fields
  <1>3. UNCHANGED <<completed_jobs, solutions, best>> /\ RestType'
    <2>1. CASE Subscribe
      BY <1>1, <2>1 DEF Subscribe, StartIfReady, RestType
    <2>2. CASE Authorize
      BY <1>1, <2>2 DEF Authorize, StartIfReady, RestType
    <2>3. CASE RefreshJob
      BY <1>1, <2>3 DEF RefreshJob, RestType
    <2>4. CASE EstimatorLoop
      <3>1. work' \in Nat
        BY <1>1, <2>4 DEF EstimatorLoop, RestType
      <3> QED BY <1>1, <2>4, <3>1 DEF EstimatorLoop, RestType
    <2> QED BY <2>1, <2>2, <2>3, <2>4
  <1>4. \/ Send(UpdateMinerJob(Fields, best, FALSE))
        \/ \E weight \in Int : Send(SetCurrentWeight(Fields, weight))
        \/ UNCHANGED <<made, jobs, current_weight>>
    <2>1. CASE Subscribe \/ Authorize
      BY <2>1 DEF Subscribe, Authorize, StartIfReady
    <2>2. CASE RefreshJob
      BY <2>2 DEF RefreshJob
    <2>3. CASE EstimatorLoop
      BY <1>2, <2>3 DEF EstimatorLoop
    <2> QED BY <2>1, <2>2, <2>3
  <1> QED BY <1>1, <1>3, <1>4, SendingKeeps

\* The manager, the clock and the end of the connection.
LEMMA ManagerKeeps ==
    ASSUME ProtocolInv,
           \/ \E b \in Work \cup {None} : HeadChanges(b)
           \/ TemplateArrives \/ TemplateLost \/ TimePasses \/ ConnectionLost
    PROVE  ProtocolInv'
  <1>1. RestType /\ best \in Work \cup {None}
    BY DEF ProtocolInv, RestType
  <1>2. ASSUME NEW b \in Work \cup {None}, HeadChanges(b) PROVE ProtocolInv'
    <2>1. (CurrentWork \in TxJobs) \in BOOLEAN
      OBVIOUS
    <2>2. RestType' /\ UNCHANGED <<completed_jobs, solutions>>
      BY <1>1, <1>2 DEF HeadChanges, RestType
    <2>3. \/ Send(UpdateMinerJob(Fields, b, CurrentWork \in TxJobs))
          \/ UNCHANGED <<made, jobs, current_weight>>
      BY <1>2 DEF HeadChanges
    <2> QED BY <2>1, <2>2, <2>3, SendingKeeps
  <1>3. ASSUME TemplateArrives PROVE ProtocolInv'
    <2>1. best' \in Work \cup {None} /\ RestType' /\ UNCHANGED <<completed_jobs, solutions>>
      BY <1>1, <1>3 DEF TemplateArrives, RestType, Work
    <2>2. \/ Send(UpdateMinerJob(Fields, best', FALSE))
          \/ UNCHANGED <<made, jobs, current_weight>>
      BY <1>3 DEF TemplateArrives
    <2> QED BY <2>1, <2>2, SendingKeeps
  <1>4. ASSUME TemplateLost \/ TimePasses \/ ConnectionLost PROVE ProtocolInv'
    <2>1. UNCHANGED <<completed_jobs, solutions, made, jobs, current_weight>>
      BY <1>4 DEF TemplateLost, TimePasses, ConnectionLost
    <2>2. RestType'
      <3>1. recent' \in Nat
        BY <1>1, <1>4 DEF TemplateLost, TimePasses, ConnectionLost, RestType
      <3> QED BY <1>1, <1>4, <3>1 DEF TemplateLost, TimePasses, ConnectionLost, RestType
    <2> QED BY <2>1, <2>2, SendingKeeps
  <1> QED BY <1>2, <1>3, <1>4

\* The invariant holds always.
THEOREM ProtocolInvHolds == Spec => []ProtocolInv
  <1>1. ProtocolInv /\ [Next]_vars => ProtocolInv'
    <2> SUFFICES ASSUME ProtocolInv, [Next]_vars PROVE ProtocolInv'
      OBVIOUS
    <2>1. CASE UNCHANGED vars
      <3>1. RestType' /\ UNCHANGED <<completed_jobs, solutions, made, jobs, current_weight>>
        BY <2>1 DEF vars, ProtocolInv, RestType
      <3> QED BY <3>1, SendingKeeps
    <2>2. CASE Next
      BY <2>2, SubmitKeeps, MinerKeeps, ManagerKeeps DEF Next
    <2> QED BY <2>1, <2>2
  <1> QED BY <1>1, ProtocolInvInit, PTL DEF Spec
-----------------------------------------------------------------------------
(* Theorems.                                                               *)

\* What the invariant of the fields says of the state.
LEMMA KnownJobs ==
    ASSUME ProtocolInv
    PROVE  /\ made \in Seq(MadeJob) /\ jobs \in Seq(Nat) /\ current_weight \in Nat
           /\ Len(made) \in Nat /\ Latest(jobs, Len(made))
  <1>1. FieldsType(Fields) /\ Latest(Fields.jobs, Len(Fields.made))
    BY DEF ProtocolInv, FieldsOK
  <1>2. Fields.made = made /\ Fields.jobs = jobs /\ Fields.weight = current_weight
    BY DEF Fields
  <1>3. made \in Seq(MadeJob) /\ jobs \in Seq(Nat) /\ current_weight \in Nat
    BY <1>1, <1>2 DEF FieldsType
  <1> QED BY <1>1, <1>2, <1>3

\* The state keeps its types.
THEOREM ProtocolTypesHold == Spec => []TypeOK
  <1>1. ProtocolInv => TypeOK
    <2> SUFFICES ASSUME ProtocolInv PROVE TypeOK
      OBVIOUS
    <2>1. /\ made \in Seq(MadeJob) /\ jobs \in Seq(Nat) /\ current_weight \in Nat
          /\ Latest(jobs, Len(made))
      BY KnownJobs
    <2>2. jobs \in Seq(1..Len(made))
      <3>1. /\ Len(made) \in Nat /\ Len(jobs) \in Nat /\ Len(jobs) <= Len(made)
            /\ \A i \in 1..Len(jobs) : jobs[i] = Len(made) - Len(jobs) + i
        BY <2>1, ProtocolAssumption DEF Latest, MinOf
      <3>2. \A i \in 1..Len(jobs) : jobs[i] \in 1..Len(made)
        BY <3>1
      <3>3. jobs = [i \in 1..Len(jobs) |-> jobs[i]]
        BY <2>1
      <3> QED BY <3>1, <3>2, <3>3
    <2> QED BY <2>1, <2>2 DEF ProtocolInv, Counted, RestType, TypeOK, MadeJob
  <1> QED BY <1>1, ProtocolInvHolds, PTL

\* The range of a sequence.
LEMMA InRange ==
    ASSUME NEW S, NEW q \in Seq(S), NEW x
    PROVE  x \in Range(q) <=> \E i \in 1..Len(q) : q[i] = x
  BY DEF Range

\* The miner's latest MaxJobs jobs are known, and no other.
THEOREM LatestJobsStayKnown == Spec => []LatestJobsAreKnown
  <1>1. ProtocolInv => LatestJobsAreKnown
    <2> SUFFICES ASSUME ProtocolInv, NEW id \in 1..Len(made)
                 PROVE  id + MaxJobs > Len(made) <=> id \in Range(jobs)
      BY DEF LatestJobsAreKnown
    <2> DEFINE n == Len(made)
    <2>1. /\ n \in Nat /\ jobs \in Seq(Nat) /\ Len(jobs) = MinOf(MaxJobs, n)
          /\ \A i \in 1..Len(jobs) : jobs[i] = n - Len(jobs) + i
          /\ MaxJobs \in Nat
      BY KnownJobs, ProtocolAssumption DEF Latest
    <2>2. id \in Range(jobs) <=> \E i \in 1..Len(jobs) : jobs[i] = id
      BY <2>1, InRange
    <2> HIDE DEF n
    <2>3. ASSUME id + MaxJobs > n PROVE \E i \in 1..Len(jobs) : jobs[i] = id
      <3>1. id \in 1..n
        BY DEF n
      <3>2. id - n + Len(jobs) \in 1..Len(jobs)
        BY <2>1, <2>3, <3>1 DEF MinOf
      <3>3. jobs[id - n + Len(jobs)] = id
        BY <2>1, <3>1, <3>2
      <3> QED BY <3>2, <3>3
    <2>4. ASSUME NEW i \in 1..Len(jobs), jobs[i] = id PROVE id + MaxJobs > n
      BY <2>1, <2>4 DEF MinOf
    <2> QED BY <2>2, <2>3, <2>4 DEF n
  <1> QED BY <1>1, ProtocolInvHolds, PTL

\* Each job is answered once and yields at most one solution.
THEOREM JobsAreAnsweredOnce == Spec => []AnsweredOnce
  <1>1. ProtocolInv => AnsweredOnce
    BY DEF ProtocolInv, Counted, Answered, Fields, AnsweredOnce
  <1> QED BY <1>1, ProtocolInvHolds, PTL

\* No share weight is above the weight of its job, or below the least.
THEOREM SharesStayWithinWeight == Spec => []SharesWithinWeight
  <1>1. ProtocolInv => SharesWithinWeight
    BY DEF ProtocolInv, FieldsOK, SharesFair, Fields, SharesWithinWeight
  <1> QED BY <1>1, ProtocolInvHolds, PTL

\* Another transaction is sent with the order to abandon what is mined.
THEOREM NewTransactionsAreClean == Spec => []NewTransactionIsClean
  <1>1. ProtocolInv => NewTransactionIsClean
    BY DEF ProtocolInv, FieldsOK, NewIsClean, Fields, NewTransactionIsClean
  <1> QED BY <1>1, ProtocolInvHolds, PTL
=============================================================================
