--------------------------- MODULE ConnectionProofs ---------------------------
(***************************************************************************)
(* Proofs about MinerConnection and the exporter that listens to it,       *)
(* Metrics: for any miners, addresses, types, and however many tasks wait  *)
(* for the event loop.                                                     *)
(*                                                                         *)
(* The inductive invariant MetricsInv says of each entry of the queue of   *)
(* tasks where it came from (Sources) and, for a connection that is lost,  *)
(* that whatever could still start something for it is followed by what    *)
(* ends it (Endings).                                                      *)
(***************************************************************************)
EXTENDS Metrics, SequenceTheorems, TLAPS

Whats == Events \cup {"start", "stop"}
Tasks == [what : Whats, miner : Miners]

\* A task of this kind waits for the connection.
Has(m, what) == \E k \in DOMAIN pending : pending[k] = [what |-> what, miner |-> m]

\* Each task of these kinds has one of the other kind behind it.
Followed(m, whats, by) ==
    \A i \in DOMAIN pending : pending[i].miner = m /\ pending[i].what \in whats
      => \E k \in DOMAIN pending : k > i /\ pending[k] = [what |-> by, miner |-> m]

Exported(m) == ById(m) \in up \cup rtt \/ ByType(m) \in completed

\* Nothing was started or exported for a connection but by a subscription.
Sources ==
    /\ \A i \in DOMAIN pending :
         /\ pending[i].what \in {"start", "stop"} => pending[i].miner \in created
         /\ pending[i].what \in {"subscribed", "completed"} => pending[i].miner \in subscribed
         /\ pending[i].what = "disconnected" => link[pending[i].miner] = "lost"
    /\ \A m \in Miners : alive[m] # {} => m \in created
    /\ \A s \in up \cup rtt : s[2] \in subscribed
    /\ \A s \in completed : s[3] \in subscribed

\* Whatever could still start something for a lost connection, or is left of
\* it, has its end behind it.
Endings ==
    \A m \in Miners : link[m] = "lost" =>
      /\ Followed(m, {"start"}, "stop") /\ (alive[m] # {} => Has(m, "stop"))
      /\ Followed(m, {"subscribed", "completed"}, "disconnected")
      /\ (Exported(m) => Has(m, "disconnected"))

\* A miner is exported, or will be.
Exports ==
    \A m \in subscribed \cap Connections : ById(m) \in up \cap rtt \/ Has(m, "subscribed")

\* A connection subscribes after it is made, and not when it is refused.
Admission ==
    \A m \in subscribed : link[m] # "none" /\ (m \in refusing => link[m] # "open")

MetricsInv == TypeOK /\ Sources /\ Endings /\ Exports /\ Admission
-----------------------------------------------------------------------------
(* The queue of tasks.                                                     *)

\* The queue has grown at its end, by tasks of connections that are not lost.
Grows ==
    /\ pending' \in Seq(Tasks)
    /\ \A i \in DOMAIN pending : i \in DOMAIN pending' /\ pending'[i] = pending[i]
    /\ \A i \in DOMAIN pending' \ DOMAIN pending : link'[pending'[i].miner] # "lost"

\* What waits is a task.
LEMMA EntryIsTask ==
    ASSUME pending \in Seq(Tasks), NEW i \in DOMAIN pending
    PROVE  pending[i] \in Tasks /\ pending[i].what \in Whats /\ pending[i].miner \in Miners
  <1>1. pending[i] \in Tasks
    OBVIOUS
  <1> QED BY <1>1 DEF Tasks

\* What CreateTasks does to the queue.
LEMMA TasksCreated ==
    ASSUME pending \in Seq(Tasks), NEW m \in Miners, NEW whats \in Seq(Whats),
           CreateTasks(whats, m)
    PROVE  /\ pending' \in Seq(Tasks)
           /\ \A i \in DOMAIN pending : i \in DOMAIN pending' /\ pending'[i] = pending[i]
           /\ \A i \in DOMAIN pending' \ DOMAIN pending :
                \E k \in DOMAIN whats : /\ i = Len(pending) + k
                                        /\ pending'[i] = [what |-> whats[k], miner |-> m]
           /\ \A k \in DOMAIN whats : /\ Len(pending) + k \in DOMAIN pending'
                                      /\ pending'[Len(pending) + k] = [what |-> whats[k], miner |-> m]
  <1> DEFINE new == [i \in DOMAIN whats |-> [what |-> whats[i], miner |-> m]]
  <1>1. DOMAIN whats = 1..Len(whats) /\ Len(whats) \in Nat
        /\ DOMAIN pending = 1..Len(pending) /\ Len(pending) \in Nat
    OBVIOUS
  <1>2. \A i \in DOMAIN whats : whats[i] \in Whats
    OBVIOUS
  <1>3. new \in Seq(Tasks)
    BY <1>1, <1>2 DEF Tasks
  <1>4. Len(new) = Len(whats) /\ \A i \in DOMAIN whats : new[i] = [what |-> whats[i], miner |-> m]
    BY <1>1, <1>3
  <1> HIDE DEF new
  <1>5. pending' = pending \o new
    BY DEF CreateTasks, new
  <1>6. pending' \in Seq(Tasks) /\ Len(pending') = Len(pending) + Len(whats)
    <2>1. pending \o new \in Seq(Tasks)
      BY <1>3, ConcatProperties
    <2>2. Len(pending \o new) = Len(pending) + Len(new)
      BY <1>3, ConcatProperties
    <2> QED BY <1>4, <1>5, <2>1, <2>2
  <1>7. \A i \in 1..Len(pending) : pending'[i] = pending[i]
    BY <1>3, <1>5
  <1>8. \A k \in 1..Len(whats) : pending'[Len(pending) + k] = new[k]
    BY <1>3, <1>4, <1>5
  <1>9. DOMAIN pending' = 1..(Len(pending) + Len(whats))
    BY <1>6
  <1>10. \A i \in DOMAIN pending' \ DOMAIN pending :
           i - Len(pending) \in DOMAIN whats /\ i = Len(pending) + (i - Len(pending))
    BY <1>1, <1>9
  <1>11. \A k \in DOMAIN whats : /\ Len(pending) + k \in DOMAIN pending'
                                  /\ pending'[Len(pending) + k] = [what |-> whats[k], miner |-> m]
    <2> SUFFICES ASSUME NEW k \in DOMAIN whats
                 PROVE  /\ Len(pending) + k \in DOMAIN pending'
                        /\ pending'[Len(pending) + k] = [what |-> whats[k], miner |-> m]
      OBVIOUS
    <2>1. k \in 1..Len(whats)
      BY <1>1
    <2>2. Len(pending) + k \in 1..(Len(pending) + Len(whats))
      BY <1>1, <2>1
    <2>3. pending'[Len(pending) + k] = new[k]
      BY <1>8, <2>1
    <2> QED BY <1>4, <1>9, <2>2, <2>3
  <1>12. \A i \in DOMAIN pending' \ DOMAIN pending :
           \E k \in DOMAIN whats : /\ i = Len(pending) + k
                                   /\ pending'[i] = [what |-> whats[k], miner |-> m]
    <2> SUFFICES ASSUME NEW i \in DOMAIN pending' \ DOMAIN pending
                 PROVE  \E k \in DOMAIN whats :
                          i = Len(pending) + k /\ pending'[i] = [what |-> whats[k], miner |-> m]
      OBVIOUS
    <2>1. i - Len(pending) \in DOMAIN whats /\ i = Len(pending) + (i - Len(pending))
      BY <1>10
    <2> QED BY <1>11, <2>1
  <1>13. \A i \in DOMAIN pending : i \in DOMAIN pending' /\ pending'[i] = pending[i]
    BY <1>1, <1>7, <1>9
  <1> QED BY <1>6, <1>11, <1>12, <1>13

\* A queue that grows loses nothing.
LEMMA GrowsKeeps ==
    ASSUME Grows, NEW m \in Miners, NEW what, NEW whats, NEW by
    PROVE  /\ Has(m, what) => Has(m, what)'
           /\ link'[m] = "lost" /\ Followed(m, whats, by) => Followed(m, whats, by)'
  <1>1. Has(m, what) => Has(m, what)'
    BY DEF Grows, Has
  <1>2. ASSUME link'[m] = "lost", Followed(m, whats, by) PROVE Followed(m, whats, by)'
    <2> SUFFICES ASSUME NEW i \in DOMAIN pending', pending'[i].miner = m, pending'[i].what \in whats
                 PROVE  \E k \in DOMAIN pending' : k > i /\ pending'[k] = [what |-> by, miner |-> m]
      BY DEF Followed
    <2>1. i \in DOMAIN pending /\ pending'[i] = pending[i]
      BY <1>2 DEF Grows
    <2> QED BY <1>2, <2>1 DEF Followed, Grows
  <1> QED BY <1>1, <1>2

\* What a lost connection has to come is not disturbed by the others.
LEMMA EndingsKept ==
    ASSUME Endings, Grows,
           \A m \in Miners : link'[m] = "lost" =>
             /\ link[m] = "lost" /\ alive'[m] \subseteq alive[m]
             /\ Exported(m)' => Exported(m)
    PROVE  Endings'
  <1> SUFFICES ASSUME NEW m \in Miners, link'[m] = "lost"
               PROVE  /\ Followed(m, {"start"}, "stop")' /\ (alive'[m] # {} => Has(m, "stop")')
                      /\ Followed(m, {"subscribed", "completed"}, "disconnected")'
                      /\ (Exported(m)' => Has(m, "disconnected")')
    BY DEF Endings
  <1>1. /\ Followed(m, {"start"}, "stop") /\ (alive[m] # {} => Has(m, "stop"))
        /\ Followed(m, {"subscribed", "completed"}, "disconnected")
        /\ (Exported(m) => Has(m, "disconnected"))
    BY DEF Endings
  <1>2. /\ Followed(m, {"start"}, "stop")'
        /\ Followed(m, {"subscribed", "completed"}, "disconnected")'
        /\ (Has(m, "stop") => Has(m, "stop")')
        /\ (Has(m, "disconnected") => Has(m, "disconnected")')
    BY <1>1, GrowsKeeps
  <1>3. (alive'[m] # {} => alive[m] # {}) /\ (Exported(m)' => Exported(m))
    OBVIOUS
  <1> QED BY <1>1, <1>2, <1>3

\* A new task that is not for a lost connection makes the queue grow.
LEMMA CreatedGrows ==
    ASSUME pending \in Seq(Tasks), NEW m \in Miners, NEW whats \in Seq(Whats),
           CreateTasks(whats, m), link'[m] # "lost"
    PROVE  /\ Grows
           /\ \A k \in DOMAIN whats : Has(m, whats[k])'
           /\ \A i \in DOMAIN pending' \ DOMAIN pending :
                /\ pending'[i].miner = m
                /\ \E k \in DOMAIN whats : pending'[i].what = whats[k]
  <1>1. \A i \in DOMAIN pending' \ DOMAIN pending :
          \E k \in DOMAIN whats : pending'[i] = [what |-> whats[k], miner |-> m]
    BY TasksCreated
  <1>2. \A i \in DOMAIN pending' \ DOMAIN pending :
          pending'[i].miner = m /\ \E k \in DOMAIN whats : pending'[i].what = whats[k]
    BY <1>1
  <1>3. Grows
    BY <1>2, TasksCreated DEF Grows
  <1>4. \A k \in DOMAIN whats : Has(m, whats[k])'
    BY TasksCreated DEF Has
  <1> QED BY <1>2, <1>3, <1>4

\* What the first task of the queue leaves behind.
LEMMA TailFacts ==
    ASSUME pending \in Seq(Tasks), pending # <<>>, pending' = Tail(pending)
    PROVE  /\ pending' \in Seq(Tasks)
           /\ 1 \in DOMAIN pending /\ Head(pending) = pending[1] /\ pending[1] \in Tasks
           /\ \A i \in DOMAIN pending' : i + 1 \in DOMAIN pending /\ pending'[i] = pending[i + 1]
           /\ \A i \in DOMAIN pending : i > 1 => i - 1 \in DOMAIN pending'
                                                /\ pending'[i - 1] = pending[i]
           /\ \A i \in DOMAIN pending : i \in Nat /\ i >= 1
           /\ \A i \in DOMAIN pending' : i \in Nat /\ i >= 1
  <1>1. Len(pending) \in Nat /\ Len(pending) # 0 /\ DOMAIN pending = 1..Len(pending)
    BY EmptySeq
  <1>2. /\ pending' \in Seq(Tasks) /\ Len(pending') = Len(pending) - 1
        /\ DOMAIN pending' = 1..(Len(pending) - 1)
    BY <1>1
  <1>3. \A i \in 1..(Len(pending) - 1) : pending'[i] = pending[i + 1]
    BY <1>1
  <1>4. 1 \in DOMAIN pending /\ Head(pending) = pending[1] /\ pending[1] \in Tasks
    BY <1>1
  <1>5. \A i \in DOMAIN pending' : i + 1 \in DOMAIN pending /\ pending'[i] = pending[i + 1]
    BY <1>1, <1>2, <1>3
  <1>6. ASSUME NEW i \in DOMAIN pending, i > 1
        PROVE  i - 1 \in DOMAIN pending' /\ pending'[i - 1] = pending[i]
    <2>1. i - 1 \in 1..(Len(pending) - 1) /\ (i - 1) + 1 = i
      BY <1>1, <1>6
    <2> QED BY <1>2, <1>3, <2>1
  <1> QED BY <1>1, <1>2, <1>4, <1>5, <1>6

\* A task that has run is not waited for, and what is behind others stays there.
LEMMA TailKeeps ==
    ASSUME pending \in Seq(Tasks), pending # <<>>, pending' = Tail(pending),
           NEW m \in Miners, NEW whats, NEW by
    PROVE  /\ Followed(m, whats, by) => Followed(m, whats, by)'
           /\ Has(m, by) /\ Head(pending) # [what |-> by, miner |-> m] => Has(m, by)'
           /\ Followed(m, whats, by) /\ Head(pending).miner = m /\ Head(pending).what \in whats
                => Has(m, by)'
  <1>1. ASSUME NEW k \in DOMAIN pending, k > 1, pending[k] = [what |-> by, miner |-> m]
        PROVE  Has(m, by)'
    <2>1. k - 1 \in DOMAIN pending' /\ pending'[k - 1] = [what |-> by, miner |-> m]
      BY <1>1, TailFacts
    <2> QED BY <2>1 DEF Has
  <1>2. ASSUME Has(m, by), Head(pending) # [what |-> by, miner |-> m] PROVE Has(m, by)'
    <2>1. PICK k \in DOMAIN pending : pending[k] = [what |-> by, miner |-> m]
      BY <1>2 DEF Has
    <2>2. k # 1
      BY <1>2, <2>1, TailFacts
    <2>3. k \in Nat /\ k >= 1
      BY TailFacts
    <2>4. k > 1
      BY <2>2, <2>3
    <2> QED BY <1>1, <2>1, <2>4
  <1>3. ASSUME Followed(m, whats, by), Head(pending).miner = m, Head(pending).what \in whats
        PROVE  Has(m, by)'
    <2>1. PICK k \in DOMAIN pending : k > 1 /\ pending[k] = [what |-> by, miner |-> m]
      BY <1>3, TailFacts DEF Followed
    <2> QED BY <1>1, <2>1
  <1>4. ASSUME Followed(m, whats, by) PROVE Followed(m, whats, by)'
    <2> SUFFICES ASSUME NEW i \in DOMAIN pending', pending'[i].miner = m, pending'[i].what \in whats
                 PROVE  \E k \in DOMAIN pending' : k > i /\ pending'[k] = [what |-> by, miner |-> m]
      BY DEF Followed
    <2>1. i + 1 \in DOMAIN pending /\ pending'[i] = pending[i + 1] /\ i \in Nat /\ i >= 1
      BY TailFacts
    <2>2. PICK k \in DOMAIN pending : k > i + 1 /\ pending[k] = [what |-> by, miner |-> m]
      BY <1>4, <2>1 DEF Followed
    <2>3. k \in Nat /\ k > 1
      BY <2>1, <2>2, TailFacts
    <2>4. k - 1 \in DOMAIN pending' /\ pending'[k - 1] = pending[k] /\ k - 1 > i
      BY <2>1, <2>2, <2>3, TailFacts
    <2> QED BY <2>2, <2>4
  <1> QED BY <1>2, <1>3, <1>4
-----------------------------------------------------------------------------
(* Starting.                                                               *)

\* What start_if_ready does for a connection that is open.
LEMMA Starts ==
    ASSUME TypeOK, NEW m \in Miners, link[m] = "open", link' = link,
           subscribed' \in SUBSET Miners, subscribed \subseteq subscribed',
           NEW events \in {<<>>, <<"subscribed">>}, StartIfReady(m, subscribed', events)
    PROVE  /\ asked' = asked \cup {m} /\ Grows
           /\ created' \in SUBSET (created \cup {m}) /\ created \subseteq created'
           /\ ready' \in SUBSET (ready \cup {m}) /\ ready \subseteq ready'
           /\ working' \in SUBSET (working \cup {m})
           /\ created' # created \/ ready' # ready \/ working' # working => m \in subscribed'
           /\ \A i \in DOMAIN pending' \ DOMAIN pending :
                /\ pending'[i].miner = m
                /\ \/ pending'[i].what = "start" /\ m \in created'
                   \/ pending'[i].what = "subscribed" /\ events = <<"subscribed">>
           /\ events = <<"subscribed">> => Has(m, "subscribed")'
  <1>1. pending \in Seq(Tasks) /\ link'[m] # "lost"
    BY DEF TypeOK, ConnectionTypeOK, Tasks, Whats
  <1>2. events \in Seq(Whats) /\ Append(events, "start") \in Seq(Whats)
    <2>1. "subscribed" \in Whats /\ "start" \in Whats
      BY DEF Whats, Events
    <2>2. events \in Seq(Whats)
      <3>1. <<>> \in Seq(Whats) /\ <<"subscribed">> \in Seq(Whats)
        BY <2>1
      <3> QED BY <3>1
    <2>3. Append(events, "start") \in Seq(Whats)
      BY <2>1, <2>2, AppendProperties
    <2> QED BY <2>2, <2>3
  <1>3. /\ \A k \in DOMAIN events : events[k] = "subscribed" /\ events = <<"subscribed">>
        /\ \A k \in DOMAIN Append(events, "start") :
             \/ Append(events, "start")[k] = "start"
             \/ Append(events, "start")[k] = "subscribed" /\ events = <<"subscribed">>
        /\ events = <<"subscribed">> => /\ 1 \in DOMAIN events /\ events[1] = "subscribed"
                                        /\ 1 \in DOMAIN Append(events, "start")
                                        /\ Append(events, "start")[1] = "subscribed"
    OBVIOUS
  <1>4. CASE IsReady(m, subscribed') /\ m \notin working
    <2>1. /\ CreateTasks(IF m \in created THEN events ELSE Append(events, "start"), m)
          /\ asked' = asked \cup {m} /\ created' = created \cup {m} /\ ready' = ready \cup {m}
          /\ working' \in {working, working \cup {m}} /\ m \in subscribed'
      BY <1>4 DEF StartIfReady, IsReady
    <2>2. CASE m \in created
      <3>1. CreateTasks(events, m)
        BY <2>1, <2>2
      <3>2. /\ Grows /\ \A k \in DOMAIN events : Has(m, events[k])'
            /\ \A i \in DOMAIN pending' \ DOMAIN pending :
                 pending'[i].miner = m /\ \E k \in DOMAIN events : pending'[i].what = events[k]
        BY <1>1, <1>2, <3>1, CreatedGrows
      <3>3. events = <<"subscribed">> => Has(m, "subscribed")'
        BY <1>3, <3>2
      <3> QED BY <1>3, <2>1, <3>2, <3>3
    <2>3. CASE m \notin created
      <3> DEFINE all == Append(events, "start")
      <3>1. CreateTasks(all, m)
        BY <2>1, <2>3
      <3> HIDE DEF all
      <3>2. /\ Grows /\ \A k \in DOMAIN all : Has(m, all[k])'
            /\ \A i \in DOMAIN pending' \ DOMAIN pending :
                 pending'[i].miner = m /\ \E k \in DOMAIN all : pending'[i].what = all[k]
        BY <1>1, <1>2, <3>1, CreatedGrows DEF all
      <3>3. /\ \A k \in DOMAIN all : \/ all[k] = "start"
                                     \/ all[k] = "subscribed" /\ events = <<"subscribed">>
            /\ events = <<"subscribed">> => 1 \in DOMAIN all /\ all[1] = "subscribed"
        BY <1>3 DEF all
      <3>4. events = <<"subscribed">> => Has(m, "subscribed")'
        BY <3>2, <3>3
      <3> QED BY <2>1, <3>2, <3>3, <3>4
    <2> QED BY <2>2, <2>3
  <1>5. CASE ~(IsReady(m, subscribed') /\ m \notin working)
    <2>1. /\ CreateTasks(events, m) /\ asked' = asked \cup {m}
          /\ created' = created /\ ready' = ready /\ working' = working
      BY <1>5 DEF StartIfReady
    <2>2. /\ Grows /\ \A k \in DOMAIN events : Has(m, events[k])'
          /\ \A i \in DOMAIN pending' \ DOMAIN pending :
               pending'[i].miner = m /\ \E k \in DOMAIN events : pending'[i].what = events[k]
      BY <1>1, <1>2, <2>1, CreatedGrows
    <2>3. events = <<"subscribed">> => Has(m, "subscribed")'
      BY <1>3, <2>2
    <2> QED BY <1>3, <2>1, <2>2, <2>3
  <1> QED BY <1>4, <1>5
-----------------------------------------------------------------------------
(* Types.                                                                  *)

\* It starts in its types.
LEMMA TypesInit == Init => TypeOK
  <1> SUFFICES ASSUME Init PROVE TypeOK
    OBVIOUS
  <1>1. pending \in Seq([what : Events \cup {"start", "stop"}, miner : Miners])
    BY DEF Init, ConnectionInit
  <1>2. ready \subseteq subscribed \cap Connections
    BY DEF Init, ConnectionInit
  <1> QED BY <1>1, <1>2 DEF Init, ConnectionInit, TypeOK, ConnectionTypeOK

\* The types of a step of a connection that leaves the queue and its tasks be.
LEMMA QuietTypes ==
    ASSUME TypeOK, NEW m \in Miners,
           \/ ConnectionMade(m) \/ TransportCloses(m) \/ SubscribeInvalid(m)
           \/ VersionArrives(m) \/ JobArrives(m) \/ PeriodicDies(m)
    PROVE  ConnectionTypeOK'
  <1>1. ConnectionTypeOK
    BY DEF TypeOK
  <1>2. CASE ConnectionMade(m)
    BY <1>1, <1>2 DEF ConnectionMade, ConnectionTypeOK, Connections, minerVars, taskVars
  <1>3. CASE TransportCloses(m) \/ SubscribeInvalid(m)
    BY <1>1, <1>3 DEF TransportCloses, SubscribeInvalid, Close, Receives, ConnectionTypeOK, Connections,
                      minerVars, taskVars
  <1>4. CASE VersionArrives(m)
    BY <1>1, <1>4 DEF VersionArrives, ConnectionTypeOK, Connections, peerVars, taskVars
  <1>5. CASE JobArrives(m)
    BY <1>1, <1>5 DEF JobArrives, ConnectionTypeOK, Connections, peerVars, taskVars
  <1>6. CASE PeriodicDies(m)
    BY <1>1, <1>6 DEF PeriodicDies, ConnectionTypeOK, Connections, peerVars, minerVars
  <1> QED BY <1>2, <1>3, <1>4, <1>5, <1>6, ConnectionAssumption

\* The types of a step in which a connection starts.
LEMMA StartTypes ==
    ASSUME TypeOK, NEW m \in Miners, Subscribe(m) \/ Authorize(m)
    PROVE  ConnectionTypeOK'
  <1>1. /\ link[m] = "open" /\ link' = link /\ UNCHANGED <<shutting_down, refusing, type, alive>>
        /\ subscribed' \in {subscribed, subscribed \cup {m}}
        /\ \E a \in Addresses \cup {address[m]} : address' = [address EXCEPT ![m] = a]
        /\ \E events \in {<<>>, <<"subscribed">>} : StartIfReady(m, subscribed', events)
    <2>1. CASE Subscribe(m)
      BY <2>1 DEF Subscribe, Receives, peerVars
    <2>2. CASE Authorize(m)
      <3>1. address' = [address EXCEPT ![m] = address[m]]
        BY <2>2 DEF Authorize, TypeOK, ConnectionTypeOK
      <3>2. StartIfReady(m, subscribed', <<>>)
        BY <2>2 DEF Authorize
      <3> QED BY <2>2, <3>1, <3>2 DEF Authorize, Receives, peerVars
    <2> QED BY <2>1, <2>2
  <1>2. PICK events \in {<<>>, <<"subscribed">>} : StartIfReady(m, subscribed', events)
    BY <1>1
  <1>3. subscribed' \in SUBSET Miners /\ subscribed \subseteq subscribed'
    BY <1>1 DEF TypeOK, ConnectionTypeOK
  <1>4. /\ asked' = asked \cup {m} /\ Grows
        /\ created' \in SUBSET (created \cup {m})
        /\ ready' \in SUBSET (ready \cup {m})
        /\ working' \in SUBSET (working \cup {m})
        /\ created' # created \/ ready' # ready \/ working' # working => m \in subscribed'
    BY <1>1, <1>2, <1>3, Starts
  <1>5. address' \in [Miners -> Addresses \cup {Unknown}]
    BY <1>1 DEF TypeOK, ConnectionTypeOK
  <1>6. pending' \in Seq([what : Events \cup {"start", "stop"}, miner : Miners])
    BY <1>4 DEF Grows, Tasks, Whats
  <1>7. ready' \subseteq subscribed' \cap Connections'
    BY <1>1, <1>3, <1>4 DEF TypeOK, ConnectionTypeOK, Connections
  <1>8. working' \subseteq subscribed'
    BY <1>3, <1>4 DEF TypeOK, ConnectionTypeOK
  <1> QED BY <1>1, <1>3, <1>4, <1>5, <1>6, <1>7, <1>8 DEF TypeOK, ConnectionTypeOK

\* What a connection that is lost leaves behind to do.
Farewell(m) == (IF m \in subscribed THEN <<"disconnected">> ELSE <<>>)
                 \o (IF m \in created THEN <<"stop">> ELSE <<>>)

\* It is a sequence of tasks: that of the exporter and that of the clocks.
LEMMA FarewellFacts ==
    ASSUME NEW m \in Miners
    PROVE  /\ Farewell(m) \in Seq(Whats)
           /\ \A k \in DOMAIN Farewell(m) :
                \/ Farewell(m)[k] = "disconnected"
                \/ Farewell(m)[k] = "stop" /\ m \in created
           /\ m \in subscribed => \E k \in DOMAIN Farewell(m) : Farewell(m)[k] = "disconnected"
           /\ m \in created => \E k \in DOMAIN Farewell(m) : Farewell(m)[k] = "stop"
  <1>1. CASE m \in subscribed /\ m \in created
    <2> DEFINE first == <<"disconnected">>
               second == <<"stop">>
    <2>1. Farewell(m) = first \o second
      BY <1>1 DEF Farewell
    <2>2. /\ first \in Seq(Whats) /\ Len(first) = 1 /\ first[1] = "disconnected"
          /\ second \in Seq(Whats) /\ Len(second) = 1 /\ second[1] = "stop"
      BY DEF Whats, Events
    <2> HIDE DEF first, second
    <2>3. /\ Farewell(m) \in Seq(Whats) /\ Len(Farewell(m)) = 2
          /\ \A i \in 1..2 : Farewell(m)[i] = IF i <= 1 THEN first[i] ELSE second[i - 1]
      BY <2>1, <2>2, ConcatProperties
    <2>4. DOMAIN Farewell(m) = 1..2
      BY <2>3
    <2>5. Farewell(m)[1] = "disconnected" /\ Farewell(m)[2] = "stop"
      BY <2>2, <2>3
    <2>6. \A k \in 1..2 : k = 1 \/ k = 2
      OBVIOUS
    <2>7. 1 \in 1..2 /\ 2 \in 1..2
      OBVIOUS
    <2> QED BY <1>1, <2>3, <2>4, <2>5, <2>6, <2>7
  <1>2. CASE m \in subscribed /\ m \notin created
    <2>1. Farewell(m) = <<"disconnected">>
      BY <1>2 DEF Farewell
    <2> QED BY <1>2, <2>1 DEF Whats, Events
  <1>3. CASE m \notin subscribed /\ m \in created
    <2>1. Farewell(m) = <<"stop">>
      BY <1>3 DEF Farewell
    <2> QED BY <1>3, <2>1 DEF Whats, Events
  <1>4. CASE m \notin subscribed /\ m \notin created
    <2>1. Farewell(m) = <<>>
      BY <1>4 DEF Farewell
    <2> QED BY <1>4, <2>1 DEF Whats, Events
  <1> QED BY <1>1, <1>2, <1>3, <1>4

\* Every step of a connection keeps the types.
LEMMA ConnectionTypes ==
    ASSUME TypeOK, ConnectionStep
    PROVE  ConnectionTypeOK'
  <1>1. ConnectionTypeOK /\ pending \in Seq(Tasks)
    BY DEF TypeOK, ConnectionTypeOK, Tasks, Whats
  <1>2. ASSUME NEW m \in Miners, JobCompleted(m) PROVE ConnectionTypeOK'
    <2>1. <<"completed">> \in Seq(Whats) /\ CreateTasks(<<"completed">>, m)
      BY <1>2 DEF Whats, Events, JobCompleted
    <2>2. pending' \in Seq([what : Events \cup {"start", "stop"}, miner : Miners])
      BY <1>1, <2>1, TasksCreated DEF Tasks, Whats
    <2> QED BY <1>1, <1>2, <2>2 DEF JobCompleted, ConnectionTypeOK, Connections, peerVars, minerVars
  <1>3. ASSUME NEW m \in Miners, ConnectionLost(m) PROVE ConnectionTypeOK'
    <2>1. Farewell(m) \in Seq(Whats) /\ CreateTasks(Farewell(m), m)
      BY <1>3, FarewellFacts DEF ConnectionLost, Farewell
    <2>2. pending' \in Seq([what : Events \cup {"start", "stop"}, miner : Miners])
      BY <1>1, <2>1, TasksCreated DEF Tasks, Whats
    <2>3. ready' \subseteq subscribed' \cap Connections'
      BY <1>1, <1>3 DEF ConnectionLost, ConnectionTypeOK, Connections
    <2> QED BY <1>1, <1>3, <2>2, <2>3 DEF ConnectionLost, ConnectionTypeOK
  <1>4. ASSUME RefuseNewJobs PROVE ConnectionTypeOK'
    BY <1>1, <1>4 DEF RefuseNewJobs, ConnectionTypeOK, Connections, minerVars, taskVars
  <1>5. ASSUME ManagerShutdown PROVE ConnectionTypeOK'
    BY <1>1, <1>5 DEF ManagerShutdown, ConnectionTypeOK, Connections, minerVars, taskVars
  <1> QED BY <1>2, <1>3, <1>4, <1>5, QuietTypes, StartTypes DEF ConnectionStep

\* So does every step of the whole.
LEMMA TypesStep == TypeOK /\ [Next]_vars => TypeOK'
  <1> SUFFICES ASSUME TypeOK, [Next]_vars PROVE TypeOK'
    OBVIOUS
  <1>1. CASE ConnectionStep /\ UNCHANGED seriesVars
    BY <1>1, ConnectionTypes DEF TypeOK, seriesVars
  <1>2. CASE Handle
    <2>1. pending \in Seq(Tasks) /\ pending # <<>> /\ pending' = Tail(pending)
      BY <1>2 DEF Handle, TypeOK, ConnectionTypeOK, Tasks, Whats
    <2>2. Head(pending) \in Tasks /\ pending' \in Seq(Tasks)
      BY <2>1, TailFacts
    <2> DEFINE what == Head(pending).what
               m == Head(pending).miner
    <2>3. what \in Whats /\ m \in Miners
      BY <2>2 DEF Tasks
    <2>4. /\ RunTask(what, m) /\ UNCHANGED <<peerVars, minerVars, created>>
          /\ \/ HandleMinerSubscribed(m) \/ HandleJobCompleted(m) \/ HandleMinerDisconnected(m)
             \/ UNCHANGED seriesVars
      BY <1>2 DEF Handle
    <2> HIDE DEF what, m
    <2>5. alive' \in [Miners -> SUBSET PeriodicTasks]
      BY <2>3, <2>4 DEF RunTask, TypeOK, ConnectionTypeOK
    <2>6. ConnectionTypeOK'
      BY <2>2, <2>4, <2>5 DEF TypeOK, ConnectionTypeOK, Tasks, Whats, Connections, peerVars, minerVars
    <2>7. ById(m) \in (Addresses \cup {Unknown}) \X Miners
          /\ ByType(m) \in (Types \cup {Unknown}) \X (Addresses \cup {Unknown}) \X Miners
      BY <2>3 DEF TypeOK, ConnectionTypeOK, ById, ByType
    <2>8. /\ up' \subseteq (Addresses \cup {Unknown}) \X Miners
          /\ rtt' \subseteq (Addresses \cup {Unknown}) \X Miners
          /\ completed' \subseteq (Types \cup {Unknown}) \X (Addresses \cup {Unknown}) \X Miners
      <3>1. CASE HandleMinerSubscribed(m)
        BY <2>7, <3>1 DEF HandleMinerSubscribed, TypeOK
      <3>2. CASE HandleJobCompleted(m)
        BY <2>7, <3>2 DEF HandleJobCompleted, TypeOK
      <3>3. CASE HandleMinerDisconnected(m)
        BY <3>3 DEF HandleMinerDisconnected, TypeOK
      <3>4. CASE UNCHANGED seriesVars
        BY <3>4 DEF seriesVars, TypeOK
      <3> QED BY <2>4, <3>1, <3>2, <3>3, <3>4
    <2> QED BY <2>6, <2>8 DEF TypeOK
  <1>3. CASE UpdateMetrics
    <2>1. \A m \in ready : ById(m) \in (Addresses \cup {Unknown}) \X Miners
      BY DEF TypeOK, ConnectionTypeOK, ById
    <2> QED BY <1>3, <2>1 DEF UpdateMetrics, TypeOK, ConnectionTypeOK, Connections, connVars, peerVars,
                              minerVars, taskVars
  <1>4. CASE UNCHANGED vars
    BY <1>4 DEF TypeOK, ConnectionTypeOK, Connections, vars, connVars, peerVars, minerVars, taskVars,
                seriesVars
  <1> QED BY <1>1, <1>2, <1>3, <1>4 DEF Next
-----------------------------------------------------------------------------
(* The invariant.                                                          *)

Rest == Sources /\ Endings /\ Exports /\ Admission

\* A step of the connections that creates no task.
Quiet ==
    /\ UNCHANGED <<pending, created, subscribed, address, seriesVars>>
    /\ \A n \in Miners :
         /\ alive'[n] \subseteq alive[n]
         /\ link[n] = "lost" <=> link'[n] = "lost"
         /\ link[n] # "none" => link'[n] # "none"
         /\ n \in Connections' => n \in Connections \/ link[n] = "none"
         /\ link[n] = "lost" => type'[n] = type[n]
         /\ n \in refusing' /\ link'[n] = "open"
              => (n \in refusing /\ link[n] = "open") \/ link[n] = "none"

\* It keeps the invariant.
LEMMA QuietKeeps ==
    ASSUME MetricsInv, Quiet
    PROVE  Rest'
  <1>1. TypeOK /\ Sources /\ Endings /\ Exports /\ Admission
    BY DEF MetricsInv
  <1>2. pending \in Seq(Tasks) /\ pending' = pending
    BY <1>1 DEF TypeOK, ConnectionTypeOK, Tasks, Whats, Quiet
  <1>3. Grows
    BY <1>2 DEF Grows
  <1>4. \A i \in DOMAIN pending : pending[i] \in Tasks /\ pending[i].miner \in Miners
    BY <1>2, EntryIsTask
  <1>5. Sources'
    <2>1. \A i \in DOMAIN pending : link[pending[i].miner] = "lost" => link'[pending[i].miner] = "lost"
      BY <1>4 DEF Quiet
    <2>2. \A n \in Miners : alive'[n] # {} => n \in created'
      BY <1>1 DEF Quiet, Sources
    <2> QED BY <1>1, <1>2, <2>1, <2>2 DEF Sources, Quiet, seriesVars
  <1>6. Endings'
    <2>1. \A n \in Miners : link'[n] = "lost" => (Exported(n)' => Exported(n))
      BY DEF Quiet, Exported, ById, ByType, seriesVars
    <2> QED BY <1>1, <1>3, <2>1, EndingsKept DEF Quiet
  <1>7. Exports' /\ Admission'
    <2>1. subscribed \subseteq Miners
      BY <1>1 DEF TypeOK, ConnectionTypeOK
    <2> QED BY <1>1, <2>1 DEF Exports, Admission, Quiet, Has, ById, seriesVars
  <1> QED BY <1>5, <1>6, <1>7 DEF Rest

\* The steps of this kind.
LEMMA QuietSteps ==
    ASSUME MetricsInv, ConnectionStep, UNCHANGED seriesVars
    PROVE  \/ Rest'
           \/ \E m \in Miners : Subscribe(m) \/ Authorize(m) \/ JobCompleted(m) \/ ConnectionLost(m)
  <1>1. /\ link \in [Miners -> {"none", "open", "closing", "lost"}]
        /\ alive \in [Miners -> SUBSET PeriodicTasks] /\ ready \subseteq Connections
        /\ type \in [Miners -> Types \cup {Unknown}]
    BY DEF MetricsInv, TypeOK, ConnectionTypeOK
  <1>2. ASSUME NEW m \in Miners, ConnectionMade(m) PROVE Quiet
    BY <1>1, <1>2 DEF ConnectionMade, Quiet, Connections, minerVars, taskVars
  <1>3. ASSUME NEW m \in Miners, TransportCloses(m) \/ SubscribeInvalid(m) PROVE Quiet
    BY <1>1, <1>3 DEF TransportCloses, SubscribeInvalid, Close, Receives, Quiet, Connections, minerVars,
                      taskVars
  <1>4. ASSUME NEW m \in Miners, VersionArrives(m) PROVE Quiet
    BY <1>1, <1>4 DEF VersionArrives, Receives, Quiet, Connections, peerVars, taskVars
  <1>5. ASSUME NEW m \in Miners, JobArrives(m) PROVE Quiet
    BY <1>1, <1>5 DEF JobArrives, Quiet, Connections, peerVars, taskVars
  <1>6. ASSUME NEW m \in Miners, PeriodicDies(m) PROVE Quiet
    BY <1>1, <1>6 DEF PeriodicDies, Quiet, Connections, peerVars, minerVars
  <1>7. ASSUME RefuseNewJobs PROVE Quiet
    BY <1>1, <1>7 DEF RefuseNewJobs, Quiet, Connections, minerVars, taskVars
  <1>8. ASSUME ManagerShutdown PROVE Quiet
    <2>1. \A n \in Miners : link'[n] = IF n \in ready THEN "closing" ELSE link[n]
      BY <1>8 DEF ManagerShutdown
    <2>2. \A n \in ready : link[n] \in {"open", "closing"}
      BY <1>1 DEF Connections
    <2>3. refusing' = refusing \cup ready
      BY <1>8 DEF ManagerShutdown
    <2>4. UNCHANGED <<minerVars, taskVars>>
      BY <1>8 DEF ManagerShutdown
    <2> QED BY <1>1, <2>1, <2>2, <2>3, <2>4 DEF Quiet, Connections, minerVars, taskVars
  <1> QED BY <1>2, <1>3, <1>4, <1>5, <1>6, <1>7, <1>8, QuietKeeps DEF ConnectionStep

\* A miner subscribes or authorizes.
LEMMA StartKeeps ==
    ASSUME MetricsInv, NEW m \in Miners, Subscribe(m) \/ Authorize(m), UNCHANGED seriesVars
    PROVE  Rest'
  <1>1. TypeOK /\ Sources /\ Endings /\ Exports /\ Admission
    BY DEF MetricsInv
  <1>2. /\ link[m] = "open" /\ link' = link /\ UNCHANGED <<refusing, type, alive>>
        /\ subscribed' \in SUBSET Miners /\ subscribed \subseteq subscribed'
        /\ subscribed' \subseteq subscribed \cup {m}
        /\ \A n \in Miners \ {m} : address'[n] = address[n]
        /\ m \in subscribed' \ subscribed => m \notin refusing
    BY <1>1 DEF Subscribe, Authorize, Receives, peerVars, TypeOK, ConnectionTypeOK
  <1>3. PICK events \in {<<>>, <<"subscribed">>} :
          /\ StartIfReady(m, subscribed', events)
          /\ events = <<"subscribed">> => m \in subscribed'
          /\ events = <<>> => address' = address /\ subscribed' = subscribed
    BY <1>1 DEF Subscribe, Authorize
  <1>4. /\ Grows /\ created \subseteq created'
        /\ \A i \in DOMAIN pending' \ DOMAIN pending :
             /\ pending'[i].miner = m
             /\ \/ pending'[i].what = "start" /\ m \in created'
                \/ pending'[i].what = "subscribed" /\ events = <<"subscribed">>
        /\ events = <<"subscribed">> => Has(m, "subscribed")'
    BY <1>1, <1>2, <1>3, Starts
  <1>5. Sources'
    <2>1. \A i \in DOMAIN pending' :
            /\ pending'[i].what \in {"start", "stop"} => pending'[i].miner \in created'
            /\ pending'[i].what \in {"subscribed", "completed"} => pending'[i].miner \in subscribed'
            /\ pending'[i].what = "disconnected" => link'[pending'[i].miner] = "lost"
      <3> SUFFICES ASSUME NEW i \in DOMAIN pending'
                   PROVE  /\ pending'[i].what \in {"start", "stop"} => pending'[i].miner \in created'
                          /\ pending'[i].what \in {"subscribed", "completed"}
                               => pending'[i].miner \in subscribed'
                          /\ pending'[i].what = "disconnected" => link'[pending'[i].miner] = "lost"
        OBVIOUS
      <3>1. CASE i \in DOMAIN pending
        BY <1>1, <1>2, <1>4, <3>1 DEF Sources, Grows
      <3>2. CASE i \notin DOMAIN pending
        BY <1>3, <1>4, <3>2
      <3> QED BY <3>1, <3>2
    <2>2. \A n \in Miners : alive'[n] # {} => n \in created'
      BY <1>1, <1>2, <1>4 DEF Sources
    <2>3. (\A s \in up' \cup rtt' : s[2] \in subscribed') /\ (\A s \in completed' : s[3] \in subscribed')
      BY <1>1, <1>2 DEF Sources, seriesVars
    <2> QED BY <2>1, <2>2, <2>3 DEF Sources
  <1>6. Endings'
    <2>1. ASSUME NEW n \in Miners, link'[n] = "lost"
          PROVE  link[n] = "lost" /\ alive'[n] \subseteq alive[n] /\ (Exported(n)' => Exported(n))
      <3>1. n # m
        BY <1>2, <2>1
      <3> QED BY <1>2, <2>1, <3>1 DEF Exported, ById, ByType, seriesVars
    <2> QED BY <1>1, <1>4, <2>1, EndingsKept
  <1>7. Exports'
    <2> SUFFICES ASSUME NEW n \in subscribed', n \in Connections'
                 PROVE  ById(n)' \in up' \cap rtt' \/ Has(n, "subscribed")'
      BY DEF Exports
    <2>1. n \in Miners /\ n \in Connections
      BY <1>2 DEF Connections
    <2>2. CASE events = <<"subscribed">> /\ n = m
      BY <1>4, <2>2
    <2>3. CASE events = <<>> \/ n # m
      <3>1. n \in subscribed /\ address'[n] = address[n]
        BY <1>2, <1>3, <2>1, <2>3
      <3>2. ById(n) \in up \cap rtt \/ Has(n, "subscribed")
        BY <1>1, <2>1, <3>1 DEF Exports
      <3>3. Has(n, "subscribed") => Has(n, "subscribed")'
        BY <1>4, <2>1, GrowsKeeps
      <3> QED BY <3>1, <3>2, <3>3 DEF ById, seriesVars
    <2> QED BY <1>3, <2>2, <2>3
  <1>8. Admission'
    BY <1>1, <1>2 DEF Admission
  <1> QED BY <1>5, <1>6, <1>7, <1>8 DEF Rest

\* A miner completes a job.
LEMMA CompletedKeeps ==
    ASSUME MetricsInv, NEW m \in Miners, JobCompleted(m), UNCHANGED seriesVars
    PROVE  Rest'
  <1>1. TypeOK /\ Sources /\ Endings /\ Exports /\ Admission
    BY DEF MetricsInv
  <1>2. /\ link[m] = "open" /\ m \in subscribed
        /\ UNCHANGED <<link, refusing, type, alive, created, subscribed, address>>
    BY <1>1 DEF JobCompleted, Receives, peerVars, minerVars, TypeOK, ConnectionTypeOK
  <1>3. /\ pending \in Seq(Tasks) /\ <<"completed">> \in Seq(Whats)
        /\ CreateTasks(<<"completed">>, m)
    BY <1>1 DEF JobCompleted, TypeOK, ConnectionTypeOK, Tasks, Whats, Events
  <1>4. /\ Grows
        /\ \A i \in DOMAIN pending' \ DOMAIN pending :
             /\ pending'[i].miner = m
             /\ \E k \in DOMAIN <<"completed">> : pending'[i].what = <<"completed">>[k]
    BY <1>2, <1>3, CreatedGrows
  <1>5. \A i \in DOMAIN pending' \ DOMAIN pending :
          pending'[i].miner = m /\ pending'[i].what = "completed"
    BY <1>4
  <1>6. Sources'
    <2>1. \A i \in DOMAIN pending' :
            /\ pending'[i].what \in {"start", "stop"} => pending'[i].miner \in created'
            /\ pending'[i].what \in {"subscribed", "completed"} => pending'[i].miner \in subscribed'
            /\ pending'[i].what = "disconnected" => link'[pending'[i].miner] = "lost"
      BY <1>1, <1>2, <1>4, <1>5 DEF Sources, Grows
    <2> QED BY <1>1, <1>2, <2>1 DEF Sources, seriesVars
  <1>7. Endings'
    BY <1>1, <1>2, <1>4, EndingsKept DEF Exported, ById, ByType, seriesVars
  <1>8. Exports'
    <2> SUFFICES ASSUME NEW n \in subscribed, n \in Connections
                 PROVE  ById(n)' \in up' \cap rtt' \/ Has(n, "subscribed")'
      BY <1>2 DEF Exports, Connections
    <2>1. n \in Miners /\ (ById(n) \in up \cap rtt \/ Has(n, "subscribed"))
      BY <1>1 DEF Exports, Connections
    <2>2. Has(n, "subscribed") => Has(n, "subscribed")'
      BY <1>4, <2>1, GrowsKeeps
    <2> QED BY <1>2, <2>1, <2>2 DEF ById, seriesVars
  <1>9. Admission'
    BY <1>1, <1>2 DEF Admission
  <1> QED BY <1>6, <1>7, <1>8, <1>9 DEF Rest

\* A connection is lost: what ends it is put behind everything else.
LEMMA LostKeeps ==
    ASSUME MetricsInv, NEW m \in Miners, ConnectionLost(m), UNCHANGED seriesVars
    PROVE  Rest'
  <1>1. TypeOK /\ Sources /\ Endings /\ Exports /\ Admission
    BY DEF MetricsInv
  <1>2. /\ link[m] # "lost" /\ link' = [link EXCEPT ![m] = "lost"]
        /\ UNCHANGED <<refusing, type, alive, created, subscribed, address>>
    BY DEF ConnectionLost, Connections
  <1>3. /\ link \in [Miners -> {"none", "open", "closing", "lost"}]
        /\ pending \in Seq(Tasks) /\ Farewell(m) \in Seq(Whats) /\ CreateTasks(Farewell(m), m)
    BY <1>1, FarewellFacts DEF ConnectionLost, TypeOK, ConnectionTypeOK, Tasks, Whats, Farewell
  <1>4. /\ pending' \in Seq(Tasks)
        /\ \A i \in DOMAIN pending : i \in DOMAIN pending' /\ pending'[i] = pending[i]
        /\ \A i \in DOMAIN pending' \ DOMAIN pending :
             \E k \in DOMAIN Farewell(m) :
               i = Len(pending) + k /\ pending'[i] = [what |-> Farewell(m)[k], miner |-> m]
        /\ \A k \in DOMAIN Farewell(m) :
             /\ Len(pending) + k \in DOMAIN pending'
             /\ pending'[Len(pending) + k] = [what |-> Farewell(m)[k], miner |-> m]
    BY <1>3, TasksCreated
  <1>5. \A i \in DOMAIN pending' \ DOMAIN pending :
          /\ pending'[i].miner = m
          /\ \/ pending'[i].what = "disconnected"
             \/ pending'[i].what = "stop" /\ m \in created
    BY <1>4, FarewellFacts
  <1>6. ASSUME NEW what, \E k \in DOMAIN Farewell(m) : Farewell(m)[k] = what
        PROVE  \E j \in DOMAIN pending' : /\ pending'[j] = [what |-> what, miner |-> m]
                                          /\ \A i \in DOMAIN pending : j > i
    <2>1. PICK k \in DOMAIN Farewell(m) : Farewell(m)[k] = what
      BY <1>6
    <2>2. k \in Nat /\ k >= 1 /\ Len(pending) \in Nat /\ DOMAIN pending = 1..Len(pending)
      BY <1>3
    <2>3. \A i \in DOMAIN pending : Len(pending) + k > i
      BY <2>2
    <2> QED BY <1>4, <2>1, <2>3
  <1>7. Sources'
    <2>1. \A i \in DOMAIN pending' :
            /\ pending'[i].what \in {"start", "stop"} => pending'[i].miner \in created'
            /\ pending'[i].what \in {"subscribed", "completed"} => pending'[i].miner \in subscribed'
            /\ pending'[i].what = "disconnected" => link'[pending'[i].miner] = "lost"
      <3> SUFFICES ASSUME NEW i \in DOMAIN pending'
                   PROVE  /\ pending'[i].what \in {"start", "stop"} => pending'[i].miner \in created'
                          /\ pending'[i].what \in {"subscribed", "completed"}
                               => pending'[i].miner \in subscribed'
                          /\ pending'[i].what = "disconnected" => link'[pending'[i].miner] = "lost"
        OBVIOUS
      <3>1. CASE i \in DOMAIN pending
        <4>1. pending'[i] = pending[i] /\ pending[i] \in Tasks /\ pending[i].miner \in Miners
          BY <1>3, <1>4, <3>1, EntryIsTask
        <4> QED BY <1>1, <1>2, <1>3, <3>1, <4>1 DEF Sources
      <3>2. CASE i \notin DOMAIN pending
        BY <1>2, <1>3, <1>5, <3>2
      <3> QED BY <3>1, <3>2
    <2> QED BY <1>1, <1>2, <2>1 DEF Sources, seriesVars
  <1>8. \A n \in Miners : Exported(n)' => Exported(n)
    BY <1>2 DEF Exported, ById, ByType, seriesVars
  <1>9. ASSUME NEW n \in Miners, link'[n] = "lost"
        PROVE  /\ Followed(n, {"start"}, "stop")' /\ (alive'[n] # {} => Has(n, "stop")')
               /\ Followed(n, {"subscribed", "completed"}, "disconnected")'
               /\ (Exported(n)' => Has(n, "disconnected")')
    <2>1. CASE n = m
      <3>1. ASSUME m \in created
            PROVE  \E j \in DOMAIN pending' : /\ pending'[j] = [what |-> "stop", miner |-> m]
                                              /\ \A i \in DOMAIN pending : j > i
        BY <1>6, <3>1, FarewellFacts
      <3>2. ASSUME m \in subscribed
            PROVE  \E j \in DOMAIN pending' : /\ pending'[j] = [what |-> "disconnected", miner |-> m]
                                              /\ \A i \in DOMAIN pending : j > i
        BY <1>6, <3>2, FarewellFacts
      <3>3. Followed(m, {"start"}, "stop")'
        <4> SUFFICES ASSUME NEW i \in DOMAIN pending', pending'[i].miner = m, pending'[i].what = "start"
                     PROVE  \E k \in DOMAIN pending' : /\ k > i
                                                       /\ pending'[k] = [what |-> "stop", miner |-> m]
          BY DEF Followed
        <4>1. i \in DOMAIN pending
          BY <1>5
        <4>2. m \in created
          BY <1>1, <1>4, <4>1 DEF Sources
        <4> QED BY <3>1, <4>1, <4>2
      <3>4. Followed(m, {"subscribed", "completed"}, "disconnected")'
        <4> SUFFICES ASSUME NEW i \in DOMAIN pending', pending'[i].miner = m,
                            pending'[i].what \in {"subscribed", "completed"}
                     PROVE  \E k \in DOMAIN pending' :
                              k > i /\ pending'[k] = [what |-> "disconnected", miner |-> m]
          BY DEF Followed
        <4>1. i \in DOMAIN pending
          BY <1>5
        <4>2. m \in subscribed
          BY <1>1, <1>4, <4>1 DEF Sources
        <4> QED BY <3>2, <4>1, <4>2
      <3>5. alive'[m] # {} => Has(m, "stop")'
        BY <1>1, <1>2, <3>1 DEF Sources, Has
      <3>6. Exported(m) => m \in subscribed
        BY <1>1 DEF Sources, Exported, ById, ByType
      <3>7. Exported(m)' => Has(m, "disconnected")'
        BY <1>8, <3>2, <3>6 DEF Has
      <3> QED BY <2>1, <3>3, <3>4, <3>5, <3>7
    <2>2. CASE n # m
      <3>1. link[n] = "lost" /\ alive'[n] = alive[n]
        BY <1>2, <1>3, <1>9, <2>2
      <3>2. /\ Followed(n, {"start"}, "stop") /\ (alive[n] # {} => Has(n, "stop"))
            /\ Followed(n, {"subscribed", "completed"}, "disconnected")
            /\ (Exported(n) => Has(n, "disconnected"))
        BY <1>1, <3>1 DEF Endings
      <3>3. \A what \in Whats : Has(n, what) => Has(n, what)'
        BY <1>4 DEF Has
      <3>4. ASSUME NEW whats, NEW by, Followed(n, whats, by) PROVE Followed(n, whats, by)'
        <4> SUFFICES ASSUME NEW i \in DOMAIN pending', pending'[i].miner = n, pending'[i].what \in whats
                     PROVE  \E k \in DOMAIN pending' : k > i /\ pending'[k] = [what |-> by, miner |-> n]
          BY DEF Followed
        <4>1. i \in DOMAIN pending /\ pending'[i] = pending[i]
          BY <1>4, <1>5, <2>2
        <4> QED BY <1>4, <3>4, <4>1 DEF Followed
      <3> QED BY <1>8, <3>1, <3>2, <3>3, <3>4 DEF Whats, Events
    <2> QED BY <2>1, <2>2
  <1>10. Endings'
    BY <1>9 DEF Endings
  <1>11. Exports'
    <2> SUFFICES ASSUME NEW n \in subscribed, n \in Connections'
                 PROVE  ById(n)' \in up' \cap rtt' \/ Has(n, "subscribed")'
      BY <1>2 DEF Exports
    <2>1. n \in Miners /\ n # m /\ n \in Connections
      BY <1>2, <1>3 DEF Connections
    <2>2. ById(n) \in up \cap rtt \/ Has(n, "subscribed")
      BY <1>1, <2>1 DEF Exports
    <2>3. Has(n, "subscribed") => Has(n, "subscribed")'
      BY <1>4 DEF Has
    <2> QED BY <1>2, <2>2, <2>3 DEF ById, seriesVars
  <1>12. Admission'
    BY <1>1, <1>2, <1>3 DEF Admission
  <1> QED BY <1>7, <1>10, <1>11, <1>12 DEF Rest

\* The event loop runs a task.
LEMMA HandleKeeps ==
    ASSUME MetricsInv, Handle
    PROVE  Rest'
  <1> DEFINE what == Head(pending).what
             m == Head(pending).miner
  <1>1. TypeOK /\ Sources /\ Endings /\ Exports /\ Admission
    BY DEF MetricsInv
  <1>2. pending \in Seq(Tasks) /\ pending # <<>> /\ pending' = Tail(pending)
    BY <1>1 DEF Handle, TypeOK, ConnectionTypeOK, Tasks, Whats
  <1>3. /\ 1 \in DOMAIN pending /\ Head(pending) = pending[1] /\ Head(pending) \in Tasks
        /\ \A i \in DOMAIN pending' : i + 1 \in DOMAIN pending /\ pending'[i] = pending[i + 1]
    BY <1>2, TailFacts
  <1>4. /\ UNCHANGED <<link, refusing, subscribed, address, type, created>>
        /\ RunTask(what, m)
        /\ \/ what = "subscribed" /\ HandleMinerSubscribed(m)
           \/ what = "completed" /\ HandleJobCompleted(m)
           \/ what = "disconnected" /\ HandleMinerDisconnected(m)
           \/ what \notin Events /\ UNCHANGED seriesVars
    BY DEF Handle, peerVars, minerVars
  <1>5. what \in Whats /\ m \in Miners /\ Head(pending) = [what |-> what, miner |-> m]
    BY <1>3 DEF Tasks
  <1>6. /\ what \in {"start", "stop"} => m \in created
        /\ what \in {"subscribed", "completed"} => m \in subscribed
        /\ what = "disconnected" => link[m] = "lost"
    BY <1>1, <1>3 DEF Sources
  <1> HIDE DEF what, m
  <1>7. /\ what = "start" => alive' = [alive EXCEPT ![m] = PeriodicTasks]
        /\ what = "stop" => alive' = [alive EXCEPT ![m] = {}]
        /\ what \notin {"start", "stop"} => alive' = alive
        /\ alive \in [Miners -> SUBSET PeriodicTasks]
    BY <1>1, <1>4 DEF RunTask, TypeOK, ConnectionTypeOK
  <1>8. /\ up' \cup rtt' \subseteq up \cup rtt \cup (IF what = "subscribed" THEN {ById(m)} ELSE {})
        /\ completed' \subseteq completed \cup (IF what = "completed" THEN {ByType(m)} ELSE {})
        /\ what # "disconnected" => up \cap rtt \subseteq up' \cap rtt'
        /\ what = "disconnected" => up \cap rtt \subseteq (up' \cap rtt') \cup {ById(m)}
        /\ what = "subscribed" => ById(m) \in up' \cap rtt'
        /\ what = "disconnected" => ById(m) \notin up' \cup rtt' /\ ByType(m) \notin completed'
    BY <1>4 DEF HandleMinerSubscribed, HandleJobCompleted, HandleMinerDisconnected, Events, seriesVars
  <1>9. \A n \in Miners : ById(n)' = ById(n) /\ ByType(n)' = ByType(n)
                          /\ ById(n)[2] = n /\ ByType(n)[3] = n
    BY <1>4 DEF ById, ByType
  <1>10. Sources'
    <2>1. \A i \in DOMAIN pending' :
            /\ pending'[i].what \in {"start", "stop"} => pending'[i].miner \in created'
            /\ pending'[i].what \in {"subscribed", "completed"} => pending'[i].miner \in subscribed'
            /\ pending'[i].what = "disconnected" => link'[pending'[i].miner] = "lost"
      BY <1>1, <1>3, <1>4 DEF Sources
    <2>2. \A n \in Miners : alive'[n] # {} => n \in created'
      BY <1>1, <1>4, <1>5, <1>6, <1>7 DEF Sources, Whats
    <2>3. \A s \in up' \cup rtt' : s[2] \in subscribed'
      BY <1>1, <1>4, <1>5, <1>6, <1>8, <1>9 DEF Sources
    <2>4. \A s \in completed' : s[3] \in subscribed'
      BY <1>1, <1>4, <1>5, <1>6, <1>8, <1>9 DEF Sources
    <2> QED BY <2>1, <2>2, <2>3, <2>4 DEF Sources
  <1>11. ASSUME NEW n \in Miners, link'[n] = "lost"
         PROVE  /\ Followed(n, {"start"}, "stop")' /\ (alive'[n] # {} => Has(n, "stop")')
                /\ Followed(n, {"subscribed", "completed"}, "disconnected")'
                /\ (Exported(n)' => Has(n, "disconnected")')
    <2>1. /\ Followed(n, {"start"}, "stop") /\ (alive[n] # {} => Has(n, "stop"))
          /\ Followed(n, {"subscribed", "completed"}, "disconnected")
          /\ (Exported(n) => Has(n, "disconnected"))
      BY <1>1, <1>4, <1>11 DEF Endings
    <2>2. Followed(n, {"start"}, "stop")' /\ Followed(n, {"subscribed", "completed"}, "disconnected")'
      BY <1>2, <2>1, TailKeeps
    <2>3. /\ n # m \/ what # "stop" => (Has(n, "stop") => Has(n, "stop")')
          /\ n # m \/ what # "disconnected" => (Has(n, "disconnected") => Has(n, "disconnected")')
      <3>1. /\ n # m \/ what # "stop" => Head(pending) # [what |-> "stop", miner |-> n]
            /\ n # m \/ what # "disconnected" => Head(pending) # [what |-> "disconnected", miner |-> n]
        BY <1>5
      <3> QED BY <1>2, <3>1, TailKeeps
    <2>4. /\ n = m /\ what = "start" => Has(n, "stop")'
          /\ n = m /\ what \in {"subscribed", "completed"} => Has(n, "disconnected")'
      <3>1. Head(pending).what = what /\ Head(pending).miner = m
        BY <1>5
      <3> QED BY <1>2, <2>1, <3>1, TailKeeps
    <2>5. alive'[n] # {} => Has(n, "stop")'
      <3>1. CASE n = m /\ what = "start"
        BY <2>4, <3>1
      <3>2. CASE n = m /\ what = "stop"
        BY <1>5, <1>7, <3>2
      <3>3. CASE ~(n = m /\ what \in {"start", "stop"})
        <4>1. alive'[n] = alive[n]
          BY <1>5, <1>7, <3>3 DEF Whats
        <4> QED BY <2>1, <2>3, <3>3, <4>1
      <3> QED BY <3>1, <3>2, <3>3
    <2>6. Exported(n)' => Has(n, "disconnected")'
      <3>1. CASE n = m /\ what \in {"subscribed", "completed"}
        BY <2>4, <3>1
      <3>2. CASE n = m /\ what = "disconnected"
        BY <1>8, <1>9, <3>2 DEF Exported
      <3>3. CASE ~(n = m /\ what \in {"subscribed", "completed", "disconnected"})
        <4>1. /\ what = "subscribed" => ById(n) # ById(m)
              /\ what = "completed" => ByType(n) # ByType(m)
          BY <1>5, <1>9, <3>3
        <4>2. Exported(n)' => Exported(n)
          BY <1>8, <1>9, <4>1 DEF Exported
        <4> QED BY <2>1, <2>3, <3>3, <4>2
      <3> QED BY <3>1, <3>2, <3>3
    <2> QED BY <2>2, <2>5, <2>6
  <1>12. Endings'
    BY <1>11 DEF Endings
  <1>13. Exports'
    <2> SUFFICES ASSUME NEW n \in subscribed, n \in Connections
                 PROVE  ById(n)' \in up' \cap rtt' \/ Has(n, "subscribed")'
      BY <1>4 DEF Exports, Connections
    <2>1. n \in Miners /\ link[n] # "lost"
      BY DEF Connections
    <2>2. ById(n) \in up \cap rtt \/ Has(n, "subscribed")
      BY <1>1 DEF Exports
    <2>3. CASE n = m /\ what = "subscribed"
      BY <1>8, <1>9, <2>1, <2>3
    <2>4. CASE ~(n = m /\ what = "subscribed")
      <3>1. Head(pending) # [what |-> "subscribed", miner |-> n]
        BY <1>5, <2>4
      <3>2. Has(n, "subscribed") => Has(n, "subscribed")'
        BY <1>2, <2>1, <3>1, TailKeeps
      <3>3. ById(n) \in up \cap rtt => ById(n) \in up' \cap rtt'
        <4>1. what = "disconnected" => ById(n) # ById(m)
          BY <1>5, <1>6, <1>9, <2>1
        <4> QED BY <1>8, <4>1
      <3> QED BY <1>9, <2>1, <2>2, <3>2, <3>3
    <2> QED BY <2>3, <2>4
  <1>14. Admission'
    BY <1>1, <1>4 DEF Admission
  <1> QED BY <1>10, <1>12, <1>13, <1>14 DEF Rest

\* The exporter's periodic update.
LEMMA UpdateKeeps ==
    ASSUME MetricsInv, UpdateMetrics
    PROVE  Rest'
  <1>1. TypeOK /\ Sources /\ Endings /\ Exports /\ Admission
    BY DEF MetricsInv
  <1>2. UNCHANGED connVars /\ up' = up /\ completed' = completed
        /\ rtt' = rtt \cup {ById(n) : n \in ready}
    BY DEF UpdateMetrics
  <1>3. \A n \in ready : n \in subscribed /\ ById(n)[2] = n /\ n \in Miners /\ link[n] # "lost"
    BY <1>1 DEF TypeOK, ConnectionTypeOK, Connections, ById
  <1>4. Sources'
    BY <1>1, <1>2, <1>3 DEF Sources, connVars, peerVars, minerVars, taskVars
  <1>5. Endings'
    <2>1. Grows
      BY <1>1, <1>2 DEF Grows, TypeOK, ConnectionTypeOK, Tasks, Whats, connVars, taskVars
    <2>2. ASSUME NEW n \in Miners, link[n] = "lost" PROVE Exported(n)' => Exported(n)
      <3>1. ById(n)' = ById(n) /\ ByType(n)' = ByType(n)
        BY <1>2 DEF ById, ByType, connVars, minerVars
      <3>2. ById(n)[2] = n
        BY DEF ById
      <3> QED BY <1>2, <1>3, <2>2, <3>1, <3>2 DEF Exported
    <2> QED BY <1>1, <1>2, <2>1, <2>2, EndingsKept DEF connVars, peerVars, taskVars
  <1>6. Exports' /\ Admission'
    BY <1>1, <1>2 DEF Exports, Admission, Connections, Has, ById, connVars, peerVars, minerVars, taskVars
  <1> QED BY <1>4, <1>5, <1>6 DEF Rest

\* The invariant holds always.
THEOREM MetricsInvHolds == Spec => []MetricsInv
  <1>1. Init => MetricsInv
    <2> SUFFICES ASSUME Init PROVE MetricsInv
      OBVIOUS
    <2>1. /\ pending = <<>> /\ alive = [m \in Miners |-> {}] /\ link = [m \in Miners |-> "none"]
          /\ subscribed = {} /\ up = {} /\ rtt = {} /\ completed = {}
      BY DEF Init, ConnectionInit
    <2> QED BY <2>1, TypesInit DEF MetricsInv, Sources, Endings, Exports, Admission
  <1>2. MetricsInv /\ [Next]_vars => MetricsInv'
    <2> SUFFICES ASSUME MetricsInv, [Next]_vars PROVE MetricsInv'
      OBVIOUS
    <2>1. TypeOK'
      BY TypesStep DEF MetricsInv
    <2>2. CASE ConnectionStep /\ UNCHANGED seriesVars
      <3>1. Rest'
        BY <2>2, QuietSteps, StartKeeps, CompletedKeeps, LostKeeps
      <3> QED BY <2>1, <3>1 DEF MetricsInv, Rest
    <2>3. CASE Handle \/ UpdateMetrics
      <3>1. Rest'
        BY <2>3, HandleKeeps, UpdateKeeps
      <3> QED BY <2>1, <3>1 DEF MetricsInv, Rest
    <2>4. CASE UNCHANGED vars
      <3>1. UNCHANGED <<connVars, seriesVars>>
        BY <2>4 DEF vars
      <3>2. Sources' /\ Endings' /\ Exports' /\ Admission'
        BY <3>1 DEF MetricsInv, Sources, Endings, Exports, Admission, Followed, Has, Exported,
                    Connections, ById, ByType, connVars, peerVars, minerVars, taskVars, seriesVars
      <3> QED BY <2>1, <3>2 DEF MetricsInv
    <2> QED BY <2>2, <2>3, <2>4 DEF Next
  <1> QED BY <1>1, <1>2, PTL DEF Spec
-----------------------------------------------------------------------------
(* Theorems.                                                               *)

\* The state stays in its types.
THEOREM ConnectionTypesHold == Spec => []TypeOK
  BY MetricsInvHolds, PTL DEF MetricsInv

\* The periodic tasks of a connection end with it, however soon it is lost.
THEOREM PeriodicTasksEnd == Spec => []TasksEndWithConnection
  <1>1. MetricsInv => TasksEndWithConnection
    <2> SUFFICES ASSUME MetricsInv, NEW m \in Miners, link[m] = "lost", ~Waiting(m)
                 PROVE  alive[m] = {}
      BY DEF TasksEndWithConnection
    <2>1. alive[m] # {} => Has(m, "stop")
      BY DEF MetricsInv, Endings
    <2>2. ~Has(m, "stop")
      BY DEF Has, Waiting
    <2> QED BY <2>1, <2>2
  <1> QED BY <1>1, MetricsInvHolds, PTL

\* The series tell who is connected.
THEOREM SeriesTellWhoIsConnected == Spec => []UpMeansConnected
  <1>1. MetricsInv => UpMeansConnected
    <2> SUFFICES ASSUME MetricsInv, NEW m \in Miners, ~Waiting(m)
                 PROVE  /\ m \in subscribed \cap Connections => ById(m) \in up \cap rtt
                        /\ link[m] = "lost" => ById(m) \notin up \cup rtt /\ ByType(m) \notin completed
      BY DEF UpMeansConnected
    <2>1. ~Has(m, "subscribed") /\ ~Has(m, "disconnected")
      BY DEF Has, Waiting
    <2>2. m \in subscribed \cap Connections => ById(m) \in up \cap rtt
      BY <2>1 DEF MetricsInv, Exports
    <2>3. link[m] = "lost" => ~Exported(m)
      BY <2>1 DEF MetricsInv, Endings
    <2> QED BY <2>2, <2>3 DEF Exported
  <1> QED BY <1>1, MetricsInvHolds, PTL

\* Who is refused or being closed does not become a miner of the manager.
THEOREM OutsidersAreKeptOut == Spec => OutsidersStayOut
  <1>1. MetricsInv /\ [Next]_vars
          => [\A m \in ready' \ ready : link[m] = "open" /\ m \notin refusing]_connVars
    <2> SUFFICES ASSUME MetricsInv, [Next]_vars, NEW m \in ready' \ ready
                 PROVE  link[m] = "open" /\ m \notin refusing
      OBVIOUS
    <2>1. ready' # ready
      OBVIOUS
    <2>2. TypeOK /\ Admission
      BY DEF MetricsInv
    <2>3. ConnectionStep
      BY <2>1 DEF Next, Handle, UpdateMetrics, connVars, minerVars, vars
    <2>4. PICK n \in Miners : Subscribe(n) \/ Authorize(n)
      <3>1. ~RefuseNewJobs /\ ~ManagerShutdown
        BY <2>1 DEF RefuseNewJobs, ManagerShutdown, minerVars
      <3>2. ASSUME NEW n \in Miners
            PROVE  /\ ~ConnectionMade(n) /\ ~TransportCloses(n) /\ ~SubscribeInvalid(n)
                   /\ ~JobCompleted(n) /\ ~VersionArrives(n) /\ ~JobArrives(n) /\ ~PeriodicDies(n)
        BY <2>1 DEF ConnectionMade, TransportCloses, SubscribeInvalid, JobCompleted, VersionArrives,
                    JobArrives, PeriodicDies, minerVars
      <3>3. ASSUME NEW n \in Miners PROVE ~ConnectionLost(n)
        BY DEF ConnectionLost
      <3> QED BY <2>3, <3>1, <3>2, <3>3 DEF ConnectionStep
    <2>5. CASE Subscribe(n)
      <3>1. link[n] = "open" /\ n \notin refusing /\ ready' \in {ready, ready \cup {n}}
        BY <2>5 DEF Subscribe, Receives, StartIfReady
      <3> QED BY <3>1
    <2>6. CASE Authorize(n)
      <3>1. link[n] = "open" /\ ready' = ready \cup {n} /\ n \in subscribed
        BY <2>1, <2>6 DEF Authorize, Receives, StartIfReady, IsReady
      <3> QED BY <2>2, <3>1 DEF Admission
    <2> QED BY <2>4, <2>5, <2>6
  <1> QED BY <1>1, MetricsInvHolds, PTL DEF Spec, OutsidersStayOut
=============================================================================
