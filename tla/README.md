# A verification project for tx-mining-service

This directory holds TLA+ models of the Hathor tx-mining-service (`src/`), the
TLC configurations that check them on small instances, and theorems about them
that TLAPS proves for every instance. The code is the reference: every
definition that stands for code is listed in `PROJECT.json` under `map`, with
the lines it translates.

The program is one asyncio event loop, so in every model **an action is what
runs between two awaits**: an HTTP handler, a timer callback, a message of a
miner, a coroutine up to its await and again after it, a tick of a periodic
task. Everything else is interleaving. Formatting, logging, JSON, proofs of work
and weights (except in `StratumProtocol`) are abstracted away.

## 1. Inventory of the system

| Component | State it keeps | Operations | Modelled by |
|---|---|---|---|
| Transaction manager (`manager.py`, `jobs.py`) | `tx_jobs`, `tx_queue`, status and timers of each job, coroutines in flight | `add_job`, `add_parents`, `cancel_job`, `submit_solution`, timeouts, clean-ups | `TxMiningManager`, `JobHistory`, `FifoFleet`, `Deque` |
| Block side of the manager | `block_template`, `latest_submitted_block_height`, blocks handed out | `update_block_template`, `_submit_block_solution`, `_push_block_job` | `BlockMining` |
| Stratum connection: life (`protocol.py`, `utils.py`) | transport, `_subscribed`, registries of the manager it is in, its `Periodic` objects | made, subscribe, authorize, lines that raise, closed by either side, lost | `MinerConnection` |
| Stratum connection: jobs (`protocol.py`) | `jobs`, `current_job`, `current_weight`, submitted work | subscribe, authorize, submit, refresh, estimator | `StratumProtocol` |
| Stratum connection: requests | `messages_in_transit`, `rtt_time_message_sent` | `send_and_track_request`, `handle_result`, RTT and timeout tasks | `RequestTracking` |
| Line framing (`utils.py`) | `_buffer` | `data_received` | `LineProtocol` |
| Service and shutdown (`cli.py`, `RunService`) | shutdown tasks, server, connections | signals, drain, `manager.shutdown`, stop | `RunService` |
| Dev manager (`dev/manager.py`) | `tx_jobs`, `_tasks`, a task per job | `add_job`, `cancel_job`, the coroutine, `stop` | `DevMiningManager` |
| Dev block miner (`dev/block_miner.py`) | `_running`, its task | start, loop, `stop` | `BlockMiner` |
| Dev service (`cli.py`, `RunDevService`) | shutdown tasks | signals, `_shutdown` | `RunDevService` |
| Events and exported series (`pubsub.py`, `prometheus.py`) | tasks of handlers, labelled series | `emit`, handlers, `update_metrics` | `Metrics` |
| HTTP API (`api.py`), filters, TOI client | requests under way | `submit-job` around the await of its filters, `cancel-job` | `HttpApi` on `JobRegistry` |
| Health check (`healthcheck/`) | `last_response`, shared by all requests | both parts of `GET /health`, the worst of them | `HealthCheck` on `JobRegistry` |
| Version check, mining-time estimates, CLI arguments | almost none | reporting | not modelled, see section 7 |

How they interact: the API calls the manager (`add_job`, `cancel_job`), after
it has awaited the filters; the health check reads the manager and awaits the
full node; the manager calls every ready connection (`update_job`) and the
full node (parents, templates, pushes: each an await); a connection calls the manager
(`mark_connection_as_ready`, `update_miner_job`, `submit_solution`); timers call
back; both publish events, whose handlers run later as tasks; signals start
shutdown tasks that look at the queue of the manager and close its connections.

What is hard here, and where (`PROJECT.json`, `hazards`, has each at its line):

- a coroutine goes on after an await with a job that was cancelled, timed out,
  solved by another solution or replaced meanwhile;
- registries keyed by transaction hash while timers, tasks and callbacks belong
  to job objects;
- miners are told of new work only by the paths that think they need it;
- answers of the full node and of miners come late, twice, in another order, or
  never;
- periodic tasks that end for good with their first exception, and whose start
  and stop are themselves tasks that run later;
- one object as the answer of several health requests; a submission that waits
  for its filters while the clock runs and a shutdown begins;
- shutdowns that overlap with all of this and with each other.

What makes each component correct is stated in section 4.

## 2. Modules

- **`TxMiningManager`** is the core: jobs from the API to their end state, the
  queue, the work of each miner, timers and the two kinds of coroutine
  (`add_parents`; `_submit_tx_solution`, which is scheduled, then pushing).
  `CancelJob` has the branch in which `tx_queue.remove` raises after status and
  registry have changed; `CleanUp` the one in which `tx_jobs.pop` raises.
- **`JobHistory`** extends it with a history variable, the transactions of which
  a job was cancelled, or cleaned up, while its coroutine was under way (`let_go`).
  It only records. With it can be said what such a job puts at risk, and that
  nothing else does.
- **`FifoFleet`** is what the manager promises, without statuses, timers or coroutines:
  one queue, and the whole fleet works on its head. `TxMiningManager!FleetSpec`
  is the refinement mapping.
- **`JobRegistry`** is what the clients of the API see, whichever manager serves
  them: a status for each hash that goes forward until it is forgotten. Both
  managers are shown to implement it (`TxMiningManager!RegistrySpec`,
  `DevMiningManager!DevRegistrySpec`), and the two modules below use it in
  place of a manager.
- **`HealthCheck`** extends `JobRegistry`: the manager's part, computed at one
  instant and kept in an object that the next request overwrites, and the full
  node's part, which is awaited. `seen` and `observed` are history variables.
- **`HttpApi`** extends `HealthCheck`: a submission in two pieces, before and
  after the answer of the TOI service, among cancellations, ticks of the clock
  and the beginning of a shutdown.
- **`Deque`** is `collections.deque.remove`.
- **`RunService`** extends the manager with connections before they subscribe,
  signals, the drain and the end of the loop. Its property `ManagerSpec` says
  that to the manager the service is only an environment.
- **`BlockMining`** has the same miners, with a block reduced to its height and
  the transaction queue to "is one waiting". Requests for templates and pushes
  are in flight separately, so their answers come in any order.
- **`MinerConnection`** is the life of a connection: refusals, the order of
  subscribe and authorize, lines that raise, closing by either side, and the
  tasks that are created on the way and run later, in order (`pending`).
- **`Metrics`** extends it with the per-miner series that the handlers of its
  events make and remove.
- **`StratumProtocol`** is one connection with its jobs, share weights and
  estimator; the manager is its environment (what `get_best_job` would give).
- **`RequestTracking`** is the other half of a connection: tracked requests, the
  RTT estimator and the timeout sweep, with time in ticks of five seconds.
- **`LineProtocol`** cuts a stream into chunks in every way.
- **`DevMiningManager`**, **`BlockMiner`** and **`RunDevService`**, which
  composes them, are the dev mode.
- `MC*` modules give constants their values and state the properties that
  sentences of the repository amount to that the code does not keep (section 4).
- `TxMiningManagerProofs` (of the manager and of `RunService`),
  `BlockMiningProofs`, `HttpApiProofs`, `ConnectionProofs`,
  `StratumProtocolProofs`, `RequestTrackingProofs`, `LineProtocolProofs` and
  `RunDevServiceProofs` hold the proofs.

Operators called "Mutant of ..." are wrong variants of the definition they
stand before; no specification uses them. Each property is violated when one
of them takes the place of its definition (`PROJECT.json`, `mutants`).

## 3. Abstractions worth knowing

- `TxMiningManager`: `miner_jobs` never forgets and a job may be answered many
  times, which allows more solutions than `MaxSizeOrderedDict` and the one
  answer per `MinerTxJob` do; `StratumProtocol` has those. Whether the order of
  timers follows from their lengths is the constant `TimeoutIsShorter`: TRUE
  when every timeout is shorter than the clean-up interval (the default), FALSE
  when the service is started with a longer one.
- `TxMiningManager`, `RunService`: a lost connection comes back as the same member
  of `Miners` with a fresh state. Its periodic tasks are stopped in `connection_lost`, by tasks that run
  in the same pass of the event loop.
- `BlockMining`: the chain of the full node does not shrink (no
  reorganisation), and it accepts no block above the height it waits for.
- `RunService`: `Server.wait_closed` returns at once in the Python of the image
  (3.11) and waits for connections since 3.12: constant `WaitClosedWaits`.
- `DevMiningManager`: the task of a cancelled job ends, and its done callback
  runs, any time after the cancellation; the clean-up timer, five minutes, is
  longer than that. `Unsolvable` jobs are those on which `solve_tx` raises.
- `JobRegistry`: a step may move several hashes at once, since a job that leaves
  the queue gives its place to another one. In `HealthCheck` and `HttpApi` jobs move
  one at a time and by these rules only, which allows more than either manager
  does: of a double move only the first is one that the health check can tell.
- `HttpApi`: a transaction is a body and a timestamp, which its hash covers.
  Refusals that depend on the request alone (form, weight, scripts, timeout,
  version) change nothing and are left out, and so are the GETs, which read
  without awaiting. The clock is coarse: near or not near matters.
- `MinerConnection`: the four periodic tasks are started and stopped together,
  one entry of `pending` each time. A connection has its own miner id; one that
  comes back is another connection.
- `RunDevService` starts when start-up is over, with the signal handlers set.

## 4. What the runs check

| Run | Instance | Shows |
|---|---|---|
| `tx_same_hash` | 2 jobs of one hash, 1 miner, 2 solutions of each in flight, timers in any order | types; the assertions about the queue; everything queued or registered is covered by a timer or coroutine; failures counted once; DONE is announced; the manager implements `JobRegistry`; a live job keeps its hash until it is cancelled, unless a job of its transaction was let go while under way |
| `tx_fleet` | 2 transactions, 2 miners that come and go | the manager implements `FifoFleet`, in which every ready miner is on it |
| `tx_live` | 2 jobs of one hash, fairness | every job ends, and stays ended; every registration is given up; stale work is replaced |
| `service` | 2 transactions, 1 miner, 1 signal, fairness | the service implements the manager; a drain leaves only jobs whose parents came late; a shutdown ends without any help of miners |
| `api` | 2 transactions at 2 times, 1 submission, 2 health requests | a job is added only while the service takes jobs, with a timestamp near the clock, and for a request the filters cleared; health answers were true at some moment; the remembered verdict had a cause |
| `blocks` | heights 0 to 2, 2 requests at a time, fairness | the block the full node waits for is never ignored; miners of blocks are on the last template, and catch up with a chain that rests |
| `connections` | 1 connection, up to 5 tasks waiting | its series are there while it is up and go with it, under the labels it ends with; its periodic tasks end with it; it becomes no miner once it is refused or closing |
| `protocol_jobs` | 2 transactions and blocks, room for 2 of 4 jobs | each job is answered once; the latest jobs are known; share weights are in range; new transactions force the miner |
| `requests` | 3 requests, fairness | the estimator waits only for what is tracked; lost answers do not stop it; nothing is tracked for ever |
| `lines` | all streams of 7 bytes, lines up to 2 | nothing lost, merged or repeated; closing does not depend on the cuts |
| `dev_service` | 2 jobs of one hash, 2 signals, fairness | the dev manager implements `JobRegistry`; no clean-up takes the hash of a newer job that is live, unless a task outlived its cancellation; cancelled tasks end, unless a resubmission made one be forgotten; jobs end and are forgotten; one signal is clean; a signal ends the service unless the block miner died, and two always do |
| `claim_cancel` | as `tx_same_hash` | **violated**: a job cancelled while its parents are fetched is enqueued by the answer |

The last one checks a sentence of the repository that the code does not live up
to; `PROJECT.json` quotes it under `findings`. The `MC*` modules state more
such sentences. None has a run of its own; TLC finds each violated when it takes
the place of the properties of the run named here (with the specification of
`TxMiningManager` or of `JobHistory`, which have the same behaviours):

| Sentence | Stated as | Run | Trace, in short |
|---|---|---|---|
| `README.md:7` "When there is no transaction to be mined, miners receive mining blocks" | `EveryMinerGetsWork` | `tx_live` | a miner subscribes before there is a template; its refresh task ends with an assertion, and nothing else looks at it |
| `manager.py:445` "TxJob timeout but not in queue. This shouldnt happen" | `TimeoutFindsJobQueued` | `tx_same_hash` | a solution takes the job out of the queue and is pushed; the timeout fires meanwhile |
| `tests/test_manager.py`, `test_tx_race_condition`: a clean-up cleans its own job | `LiveRegistrationIsKept` | `tx_same_hash` | a job is cancelled while it is pushed; its clean-up removes a newer job of the same hash |
| `jobs.py:110` "We can safely skip the solution." | `SolvedOnce` | `tx_same_hash` | two solutions are pushed and both succeed: counted and announced twice |
| `prometheus.py:52` `txs_failed` is of those "that finished without being solved" | `FailedMeansUnsolved` | `tx_same_hash` | one push fails, the other succeeds: failed and solved |
| `cli.py:348` "Waiting for pending txs to finish..." | `NoJobIsCutOff` | `service` | the drain looks at the queue only; a job that waits for its parents is cut off |
| `tests/test_manager.py:461` a second block of a height is "accepted but not propagated" | `FoundHeightIsNotPushed` | `blocks` | push answers come out of order and the submitted height goes back |
| `protocol.py:81` `MAX_WEIGHT` is the "maximum "difficulty" to assign to jobs" | `NoJobAboveMaxWeight` | `protocol_jobs` | nothing applies it |
| `protocol.py:76` the "maximum time to wait for an rtt message" | `AnswerWithinRttTimeoutIsTaken` | `requests` | `messages_timeout_job` forgets the request before that time |
| `jobs.py:35` CANCELLED is a state "after mining has finished" | `CancelledStaysCancelled` | `dev_service` | a late done callback forgets a newer task; its job, cancelled, becomes DONE |
| `cli.py:498` "Shutdown the dev-miner service." | `EverySignalEndsService` | `dev_service` | the block miner died of an exception it does not catch; `stop` raises it and the service goes on |
| `prometheus.py:264` "so stale miner_id labels don't accumulate" | `NoStaleSeries` | `connections` | the miner's type changes after its first job; the old series stays |

Where a sentence and the code differ in one step, the model has what the code
does, and there is nothing for a run to find:

- `healthcheck.py:113` "If any of the 'tx_jobs' has status different than
  'done'" the answer is "fail": only FAILED and TIMEOUT count (`Failed`), a job
  that is still mined does not. `healthcheck.py:107` "all miners have
  submitted": one of them is enough (`MinersChange`).
- `filters.py:137` "allow request even if toi fails": only for answers other
  than 200. A refused connection or a timeout is no `TOIError` and ends the
  request (`ToiFilterPasses`).
- `protocol.py:329` `send_result("ok", msgid)`: the parameters of `send_result`
  are the id and the result, so the answer has them swapped. It changes no state.
- `api.py:182` with `fix_invalid_timestamp` a client that sends an old transaction
  again gets a second job, because the new time is part of the hash.

### Bounds and why they are enough

Two jobs of one hash are the least that lets timers, tasks and callbacks of an
old job meet a new one. Two solutions in flight are the least for which the end
of one push meets the other. The exception of `DevJobKeepsHash` takes
three jobs: with two, as in `dev_service`, no clean-up takes a newer job's hash at
all; with three TLC finds one that does, through a late done callback, and nothing
but the exception; the proof is of any number. Two miners tell "some" from "all"; `blocks` has one
miner and three heights, which let a push, a template and the chain all differ,
and the proofs of section 5 say the same of any number of miners. One signal is
enough for `service`: `ShutdownLeavesOnlyLateParents` is proved for any number. In
`StratumProtocol` room for two jobs of four makes the dictionary overflow twice.
In `api` one submission is under way at a time, while the jobs of earlier ones
go on, and two health requests are the least that share an object; `connections` has one connection, since nothing is shared between two but the
order of their tasks, and room for the tasks of a whole life in which nothing
ran yet. The proofs say the same of any number. Every bound is a constant named
as one (`MaxInFlight`, `MaxHeight`, `MaxPushes`, `MaxMade`, `WeightBound`,
`MaxAge`, `MaxMessages`, `MaxBlocks`, `MaxTasks`, `MaxTime`, `StreamLength`).
`tx_fleet` uses symmetry of miners and `api` of health requests, in runs with no
liveness. The type
invariants that are in no run hold under the configurations named, as TLC
confirms, and are proved for every instance.

Deadlock is checked in the runs of the manager, blocks and the API. Elsewhere a
finite instance may stop: the event loop ends, the connection closes, all messages are used.

### Fairness

Weak fairness is assumed of what the event loop does by itself: it starts tasks
that are ready, resumes coroutines whose await is over, fires timers, ticks
periodic tasks. Of the full node: requests end (the HTTP client has a time
limit), with an answer or a failure; `blocks` adds that polls do not *only*
fail for ever (strong fairness). Nothing is assumed of miners, of pushes
(`tx_live`) or of signals. In the dev mode the solving thread ends, since
`MAX_NONCE` bounds its loop.

## 5. What is proved

`TxMiningManagerProofs`, for any jobs, hashes, miners, bound and timer order:
`TypeCorrect`, `QueueAssertionsHold`, `OneJobIsMined`, `FleetOnHead`,
`FailuresAreCountedOnce`, `DoneMeansAnnounced`, `TimersAlwaysCover`,
`EndStatesAreKept`, `NobodyOvertakes` and `MinersKeepTheirJobs` (the order of the
queue and the work of a miner over time, which no single state shows; both are
stated in the proof module), and the two refinements `ManagerImplementsFleet` and
`ManagerImplementsRegistry` (which needs `OnlyVisible`: what is registered is
neither cancelled nor unused). No run has `OneJobIsMined`: that only the head of the
queue is MINING is part of the invariant the others rest on. The assumptions are those the module states of
its constants.

None of the invariants is inductive by itself. The strengthening `IInv` is

- `TypeOK`;
- for each job `JobInv`: a job that is not enqueued yet has nothing else going
  on (`FreshInv`); a queued job is alive, timed and neither pushed nor waiting
  for clean-up (`QueuedInv`: this is what makes a late `add_parents` unable to
  enqueue a job twice); counters agree with the status (`CountInv`); a job is
  registered under its own hash and something will end that (`RegistryInv`);
- `QueueShape`: no job twice, only the head mined, every ready miner on it.

An action is about one job at most. The proof of each action shows that every
other job is `Kept`, which preserves `JobInv` once and for all (`KeptJobs`), that
the queue keeps its shape by one of four lemmas (`JoinQueue`, `LeaveQueue`,
`ServeMiners`, `QueueUntouched`), and then looks at its own job.
The module begins with what `Without` returns and preserves.

For what is about one job, `Life` lists what a step may do to it, in eight
transitions that mention no queue and no other job (`JobsLiveTheirLives`: every
step is one of them for a job or leaves it `Kept`). From these follows that a job
is queued at most once (`JobsAreQueuedOnce`), and what holds in place of the
sentences of section 4 that the code does not keep:

- for "TxJob timeout but not in queue. This shouldnt happen":
  `LateTimeoutsHitPushes`, a timeout out of the queue is one of a job submitted
  with `propagate` whose clean-up is armed;
- for `SolvedOnce` and `FailedMeansUnsolved`: `OutcomesStayBounded`, the outcomes
  of a solved job are at most as many as its solutions that are handled at a
  time; with one at a time both sentences hold;
- for `CancelledStaysOut` and `LiveRegistrationIsKept`: both fail for one cause, a
  job that the manager lets go while it is neither queued nor ended.
  `LiveJobsKeepTheirHash` and `CancelledJobsStayCancelled` say so of every behaviour
  of `JobHistory`: until that happened to a job of a transaction, what is cancelled
  stays cancelled and out of the queue, and a live job keeps its hash. They assume
  nothing of what is cancelled when. The invariant is `OwnHash`: of a transaction no
  job of which was let go, an armed clean-up is one of the job that is registered,
  and a cancelled job has no coroutine left.

The same module ends with `RunService`: `ServiceRunsManager` (every step of the
service is a step of the manager or a stutter), hence
`ServiceKeepsManagerPromises`, that all of the above holds of the service;
`ServiceTypesHold`; and `ShutdownLeavesOnlyLateParents`.

`BlockMiningProofs`: `BlockTypesHold`, `MinersStayOnTemplate` and
`UsefulBlocksArePushed`, for any miners, requests and length of the chain. The
invariant adds that solutions under way of one height are bounded together
(`PushRoom`) and that pushes were accepted only of heights the chain has passed
(`PassedHeights`), which keeps the submitted height below the chain. In place of
`FoundHeightIsNotPushed` (section 4) holds `FoundHeightsArePassed`: a found height is
pushed again only when the submitted height went back, and the full node has it.

`HttpApiProofs`, for any transactions, times, requests and answers: the four
properties of `api`, the types, and `ApiImplementsRegistry`: to the registry the
API, the health check and the shutdown are only an environment, which justifies
building them on it in place of a manager. `ApiInv` says of each health request that what it would
answer now is among the verdicts it has seen (so that a shared object may be
overwritten), and of each submission that what waits at the TOI service passed
the ban files. The latter is what an added job is traced back to.

`ConnectionProofs`, for any connections and tasks waiting: `TasksEndWithConnection`,
`UpMeansConnected` and `OutsidersStayOut`. None is inductive, since each is about a
moment when nothing waits. `MetricsInv` therefore speaks of the queue of tasks:
where each entry comes from (`Sources`), that a lost connection with tasks or
series left still has a stop or a disconnection waiting behind everything that
could bring them back (`Endings`, `Exports`), and who may be ready (`Admission`).

`StratumProtocolProofs`, for any work, weights, room and number of jobs: the four
properties of `protocol_jobs`. Handlers give several jobs within one step, so
the invariant is stated of the record of fields that `UpdateJob` takes and
returns, is kept by each operator on it, and holds of the state because every
action is a composition of them. `Counted` ties the answered jobs to the counters.

`RequestTrackingProofs`: `EstimatorWaitsForTracked`, from the fact that identifiers
are not reused, so that no new request takes the place of the one waited for.

`LineProtocolProofs`, for any bytes, limit and stream: `LinesAreAlwaysTheStream`,
`ClosesWhereItAlwaysMust` and `ChunksNeverMatter`, that what is handed on and
whether the connection closes are what they would be had everything sent come at
once. `Split` and `Joined` are recursive functions over their data, so the module
first shows, by induction over *sets* of numbers (`Induction`, from the library's
`WFMin`, which takes no operator), that such functions exist and that two of them
agree; then what `Joined` and `Split` return (`SplitProperties`: parts without a
delimiter that, joined, are the text), and that the greatest prefix `Handled` takes
exists and what it is. For the first two properties a chunk adds to what was joined
a piece of the same text (`Delivery`), and the invariant is `TypeOK` with both
properties. For the third, splitting in two portions is splitting the whole
(`SplitConcat`), and the invariant adds `AllRead`: the lines of an open connection
and its buffer are the parts of what was sent.

`RunDevServiceProofs`, for any jobs, transactions and signals:
`CancelledTasksEnd`, `RegisteredJobsAreCovered`, `DevManagerImplementsRegistry`,
`DevJobsKeepTheirHash`, `ServiceImplementsManager` (hence `ServiceKeepsPromises`; it
is nearly by construction, and in no run), `OneSignalCutsNothing`, and the types of the manager and the service. `RegisteredJobsAreCovered` is the safety
that `EveryDevJobIsForgotten` rests on: what is registered is worked on or waits for
its clean-up, except after an exception of the solver. The registries are keyed by hash while tasks belong to
jobs, so `DevInv` is in two parts: a transaction of which no job was cancelled is
`Neat` (what is under way is what is registered), and a `Messy` one is excused by
the very job that `CancelledTaskEnds` excuses it with. For the shutdowns
(`ShutdownInv`), how far the only one has come says what is over (`CleanSoFar`).

Model-checked only: liveness, which is out of this prover's reach like the
`ENABLED` in its fairness: `EveryJobEnds`, `EveryJobIsForgotten`, `StaleWorkIsReplaced`,
`SignalEndsService`, `MinersCatchUp`, `WaitsEnd`, `EveryRequestIsForgotten`,
`EveryDevJobEnds`, `EveryDevJobIsForgotten` and `ShutdownEnds`. Every other property
of a run is a theorem.

## 6. Plan

1. Done: the transaction manager, its abstract fleet and registry; the service;
   blocks; connections with their jobs, requests, lines, tasks and series; the API
   with its filters and the health check; the dev mode; a proof of every safety
   property and type invariant, and of every refinement.
2. Left, models: a composition of `StratumProtocol` with `TxMiningManager` for several
   connections, which needs a smaller abstraction of a connection than either has
   to stay within TLC's reach; expected mining and queue times.
3. Left, proofs: only what section 5 says is out of the prover's reach.

## 7. Not modelled

- `middleware.py`: a check of the client's version in a header, before a handler
  runs; no state.
- `api.py`: form and limits of a request (they leave no trace), and the GETs that
  only read.
- Loading of ban files, arguments of the command line, start-up before the signal
  handlers are set, writing the metrics file and serving HTTP.
- Proofs of work, transactions and blocks (hathorlib), `solve_tx`,
  `solve_block`: a solution is valid or not, nondeterministically.
- Counters and histograms without a label of a miner; hashrate and expected
  times, which are estimates.
- The cadence of the dev mode's block loop, reorganisations of the full node's
  chain, and wall-clock steps.
