# TLA+ models of simllm

simllm simulates LLM inference deployments. An engine adapter (vLLM, SGLang)
schedules requests, and every step that would have run on GPUs and networks is
priced by a simulated device, collective and network stack in virtual time.
Much of the repository is pricing arithmetic, rendering and parsing. These
modules model the parts that keep state across events and where the order of
events matters: the RNIC (the simulated RDMA network card), the completion
authority that independent engines share, the end of an engine step (request
lifetimes, metrics, KV-cache ledger and the runtime that commits them), and the
threads around a simulator child process.

Paths below are relative to `src/simllm/`.

## 1. The system

| Part | Source | State it keeps | Operations | Hard behaviours | Model |
| --- | --- | --- | --- | --- | --- |
| Transmit pipeline | `backends/rnic/src/rnic_tx_pipeline.cpp` | extents cut into packets, issue queue and live attempts keyed by sequence number, port tokens, window counters, gates, recovery episode | `trySubmit`, `releaseDue`, `onDownstreamEvent`, `onTransportPacket`, `nextEventTime` | replay against late reports, timeouts, three windows | `RnicTxPipeline`, `RnicTxPort` |
| Receive pipeline | `rnic_rx_pipeline.cpp` | ingress meter, rate ceilings, expected sequence number per connection | `onPacket`, `progress` | rounding over arbitrary intervals, gaps and duplicates | `RateGate`, `RnicResponder`, `RnicRxPipeline` |
| Reliable connection | the two above over a packet port | packets and replies in flight | all of them | loss, overtaking replies, premature timeouts | `RnicTransport`, `ReliableTransfer` |
| Work queue and completion queue | `work_queue.cpp` | requests and the container each is in, pending and visible completions, retirement and reclaim cursors, back-off | `postSend`, `ringDoorbell`, `progress`, `onNetworkEvent`, `pollCompletionQueue`, `nextEventTime` | outcomes out of order, overrun, busy port | `WorkQueue`, `OrderedCompletion` |
| Engine completion authority | `core/engine_steps.py`, `core/clock.py` | pending steps, the clock's heap, the step being retired, results, failure | `submit`, `advance_to`, `complete`, `complete_due`, `claim_publication`, `invalidate`, `close` | callbacks that call back, other holders of the clock, interrupted callbacks | `EngineSteps` |
| RNIC device | `rnic_device.cpp` | the three above | `progress`, forwarding calls | pump loop at one instant | planned |
| Congestion control | `rnic_cc.cpp` | rates and timers | marks, notifications, timers | rate changes against pacing remainders | planned |
| PCIe fabric, host memory | `pcie_fabric.cpp`, `host_memory.cpp` | credits, queues, pages | transactions | credit deadlock | planned |
| Step completion and request lifetimes | `core/completion.py`, `core/request_lifetime.py`, `preplay/arena.py` | lifecycle state, token cursor, end flags, arena views, request metrics | `reduce`, `consume_step`, `create_request_lifetimes`, `close` | three owners that commit in turn, finishes and end flags in any order, preemption | `RequestLifetime`, `CompletionReducer` |
| KV ledger and execution runtime | `core/kv.py`, `core/runtime.py` | blocks with owners and fill, reservations; executed identities, bookkeeper, native session | `observe` with its handlers, `execute` | requests competing for blocks, refused and resubmitted graphs, four commits | `KvPool`, `KvRuntime` |
| Owned child process | `backends/_child_process.py` | child and its record, task queue, flags, exchange owner, deadlines | `_call`, `io_deadline`, `finish`, `abort`, `_expire`, `_drain_stderr`, `cleanup_all` | clients, worker, timer and stderr threads, flags read without the lock, a kill that fails | `OwnedProcess` |
| Packet port ledger | `core/packet_port.py` | parents and their children | admission, retirement | reports out of order | planned |
| Prefill/decode sessions and KV handoff | `core/pd_session.py`, `adapters/*/pd_session.py`, `traffic/*kv_handoff.py` | requests in flight between engines | drive loop | two engines and a transfer racing | planned |
| Flow and GOAL sessions | `flow_session.py`, `goal_session.py` | protocol position | request, response | a child out of step | planned |

`PROJECT.json` lists every part, including those that are pure arithmetic,
generation or I/O and are left out for that reason.

The parts interact as follows. The host posts requests to the work queue and
rings its doorbell. `RnicDevice::progress` pumps the work queue, which submits
each admitted request to the transmit pipeline as a flow extent, and the
pipeline, which issues packets to a packet port. The port reports what becomes
of each packet; the pipeline passes the reports on and tells the work queue of
an extent when its last packet has ended. All these calls are made by one
thread. What interleaves is the order in which reports, replies, timeouts,
submissions and polls arrive, which is the nondeterminism of the models. Above
the network, each engine's steps are priced when they are submitted and
published by `EngineStepRuntime` when their completion is due on a clock that
other objects hold too. A step's graph is executed by `CoarseDeviceRuntime`,
which replays its KV-cache work on a clone of the ledger and adopts the clone
with the other commits; its report is reduced to request metrics, and the same
step advances the lifetime of every request and gives routing views back.
Simulators outside the process are children behind a pipe that
`OwnedBinaryProcess` guards.

## 2. The modules

**RnicPsn, RnicTxPipeline.** A packet is named by its ordinal `k`; its sequence
number is `Psn(k)`, modulo `PsnModulus` (2^32 in the code). An attempt `<<k, n>>`
is the n-th transmission of packet `k`. It stands for both the token given to
the work queue and the one the port returned. `queue`, `live`, `bindings`,
`inflight` and `recovery` are the members of the same meaning; `told` records
what the work queue was told of each attempt. `releaseDue` is split at its loop: `ReleaseBegin`
(the timer), one step per issued packet (`ReleaseAccepted`, `ReleaseRejected`,
`ReleaseBusy`), `ReleaseEnd`. Every other action needs `~releasing`, so nothing
runs in between, as in the code. The bit and message rate gates move by a
distance drawn from `BitDelays` and `MessageDelays`.

**RnicTxPort** puts the pipeline between a submitter and a port free to act:
reports in any order over attempts, NAKs for any number up to the next one,
refusals, busy answers, calls at any time.

**RnicResponder, RateGate, RnicRxPipeline.** The receiver's sequence check, the
exact rational rate gates, and `onPacket` with the fluid drain. `Second` and
`DrainScale` stand for the code's picosecond constants; the two divisions of
`drainTo` are folded into one. `MCRxPipeline` gives the connections.

**RnicTransport, ReliableTransfer.** Requester and responder over a wire that
keeps the order of packets and may lose them, silently or with a report, and
may lose or reorder replies. The wire is the
repository's test fabric, `FakeV2Fabric`, made more general: it may also report
a loss, as `FakeV2NetworkPort` does, and lose or reorder what comes back, which
neither does and a port is free to do. `ReliableTransfer` is the promise:
every posted packet is received once and in order, and an extent completes
after its last packet is received. `RnicTransport` implements it with
`received <- Len(host)` and `completed <-` the extents told delivered.

**WorkQueue, OrderedCompletion.** One action per call, or per iteration where a
call loops: `at` names the loop that runs, and `Called` keeps other calls out
until it returns. `RetireOne` is one iteration of planning and committing
retirements, and runs before any other call can start. PCIe and host-memory
timing is reduced to when a batch is admitted and when an entry is visible.
`OrderedCompletion` is the promise: the host is told of the requests that
asked or failed, once each and in posting order, and being told frees the
queue up to there.

**EngineSteps.** `EngineStepRuntime` over `VirtualClock`. `complete` is split at
the publish callback (`CompleteBegin`, claims, `CompleteEnd` or
`CompleteFails`, or `CompleteInterrupted` for an exception that
`except Exception` does not catch), because the callback may call back. A call
its check turns away poisons the runtime (`EngineRefused`); on a failed or closed
runtime it raises and changes nothing, a stutter. Guards and price checks that
raise are `Invalidate`. `submit` runs the guard and the price check between its
own checks and the commit, and does not check again; the model takes the whole
call as one step, which is faithful while the guard only validates, as that of
`adapters/vllm/independent.py` does, and does not call back. The `Foreign...`, `ReplaceOwner`, `ForgeReceipt` and
`ChangeValues` actions are the other holders of the clock and of the values,
which `_check_live` and `_check_values` exist to detect. `complete_due` is
taken one turn at a time, with other actions allowed between turns: more
behaviours than the code has. Event records and visit counts are left out.

**KvPool, KvRuntime.** `KvPool` has one `Can...` operator (the handler's checks)
and one effect per lifecycle action of `KvLifecycleLedger`, over a record that
stands for a pool. `KvRuntime` is `execute`: observations on `draft`, the clone;
refusals at any point before the native transaction is prepared; then
bookkeeper, native session, executed identities and ledger, one action each
(the last two are plain assignments and share `Adopt`). A duplicate identity is
refused only after its KV work was replayed, as in the code. After `prepare`
nothing can fail: the code validates the bookkeeping append before it, and the
native session promises it. The runtime always has a bookkeeper here; without
one `execute` leaves that commit out. The bypass ledger is not modelled.
`MCKvRuntime` declares the symmetry.

**RequestLifetime, CompletionReducer.** `RequestLifetime` has the operations on
one record. An end mask is the set of its bits; ADMITTED and DRAINED, which the
code passes through within one call, are not states of their own.
`CompletionReducer` is the registry, the arena's views and `reduce`, which is one
action because all of it runs in one call; a refused call works on copies and
is a stutter. The commits are modelled in their order: if a release callback
raised (`raises`), the registry's commit would stand and the reducer's would
not. The critical path is reduced to an endpoint per request, attributions to
their total. `routed` is a history variable. `MCCompletionReducer` gives the
arrivals.

**OwnedProcess.** The threads of `OwnedBinaryProcess`: any number of clients, the
worker, the timer and the stderr reader. `_call` is split where the code gives
up the lock: entering, looking at the flags, queueing the task, waiting, leaving.
An abort is split at the kill, with the lock held between. A call the ownership
check turns away changes nothing here; a `finish` so refused aborts the process
in the code, and that change of state is `CallAbort`'s. Time is what has
passed: the lifetime deadline and the deadline of the open exchange. The child
may write, exit or do nothing at all.

Definitions named `X_Something` and commented "Mutant" are wrong versions of
`X`. Each property is violated when the listed one replaces `X`, which shows
that the property depends on that piece of code.

## 3. The runs

| Run | Module | What it shows |
| --- | --- | --- |
| `tx_transport` | RnicTxPort | With go-back-N: live numbers stay below queued ones and the lowest is the oldest, no packet dangles, windows hold and are counted, an attempt's events follow its lifecycle, an extent's terminal tells the truth. |
| `tx_plain` | RnicTxPort | Without the transport, with refusals, a busy port, byte and request windows, and zero-length payloads. |
| `transport` | RnicTransport | The connection implements `ReliableTransfer` with its liveness: under loss, overtaking replies and premature timeouts, everything submitted is received once, in order, and completed, once the responder has seen a packet. |
| `rx_meter` | MCRxPipeline | Ceilings hold over every interval, the meter is a leaky bucket, the host receives consecutive numbers. |
| `wq_overrun` | WorkQueue | A send queue deeper than its completion ring: ordered completion, reclaim and ring slots through an overrun. |
| `wq_live` | WorkQueue | Packet events, ECN, admission delays, busy port, overrun: every request is in the container of its state, announced times are exact, quiet means finished, and a rung, signaled request is freed. |
| `engine_steps` | EngineSteps | Due order, no skipped completion, each publication once and when due, failure final, no step forgotten. |
| `kv_runtime` | MCKvRuntime | Two requests competing for two block places through accepted, refused and repeated graphs: no block and no reference is lost, the authorities agree, the ledger is adopted once per execution. |
| `reducer` | MCCompletionReducer | Steps with preemption, cached prefixes, early finishes and missing end flags: owners commit together, closing is exact, no token is skipped, time is conserved. |
| `owned_process` | OwnedProcess | Two clients, a lifetime that ends, stderr that overflows, a kill that fails: exchanges do not mix, no child is left behind, every call returns, the threads end. |
| `tx_counts` | RnicTxPort | Finding 1 below. |
| `transport_first_loss` | RnicTransport | Finding 2 below. |

All runs set `CHECK_DEADLOCK FALSE`: a simulation with nothing left to do
stops, and the bounds stop it too.

### Findings

1. `issued_count` is incremented at every issue (`rnic_tx_pipeline.cpp:522`)
   and never decremented by a replay, so after one replay of a fully issued
   extent it exceeds the number of packets and `validateInvariants` (line 715)
   would throw "RNIC transmit extent counts are impossible".
2. The responder takes its expected number from the first packet it sees
   (`rnic_rx_pipeline.cpp:300`). When an earlier packet was lost, its
   retransmission is acknowledged as a duplicate, and the requester counts as
   delivered a packet the host never received. The `transport` run therefore
   assumes that nothing is lost before the responder has seen a packet
   (`FirstPacketSafe`).

### Bounds

- Transmit runs: two extents with the transport and three without it, three or
  four packets, two attempts with the transport. The third extent is the one
  the request window of two holds back in `tx_plain`. Two extents put a replay across an extent boundary; two attempts
  put a late report beside its successor. `tx_transport` bounds time to one
  step because the timer (`Rto = 1`) then fires once.
- `transport`: two faults (a loss, or a timeout ahead of what is still in the
  wire), and five attempts and three instants so that the bounds never stop a
  replay the faults call for. A replay can itself be overtaken.
- `PsnModulus = 8` is larger than the packets cut: sequence numbers do not wrap
  in these runs. Across a wrap the code orders attempts numerically, and
  `SequenceOrder` is not claimed.
- `rx_meter`: rates 2/3, 2/3 and 4/3 per instant, so that every division leaves
  a remainder; four packets in five instants.
- `wq_overrun`: depth 3 over a ring of 2, the smallest overrun with an entry
  before the lost one. `wq_live`: three requests through a depth of 2 and a ring
  of 1, so entries are reused and the ring can overrun; every admission takes
  one instant; packet events for one request.
- `engine_steps`: two engines, two steps, latencies 0 to 2 (ties, and a step
  due at once), two publishers, two acts of meddling, which is the least that
  can take an event and put another in its place.
- `kv_runtime`: three block names over a capacity of two, two tokens a block (so
  that a block can be partly written), three references in all, so that one
  block is shared or one request holds it twice, and two calls of `execute`.
- `reducer`: two requests of two tokens, one arriving later, one layer (two end
  flags), three steps. A step schedules at most one request and finishes at most
  one, the same or the other. Enough for a finish before, in and after the step
  that drains, for a recomputed token and for a pending interval over a gap;
  the proofs have no such bounds.
- `owned_process`: two clients, two calls between them, one failing kill. Two
  calls put a queued task behind an abort and beside an exchange.

### Fairness

- `transport`: weak fairness on the device's steps and on the wire's arrival and
  delivery. The event loop calls the device at the times it announces, calls
  return, and the wire moves what it carries; losing is never fair. Timeouts
  that fire while something is still in the wire count as faults, so there are
  finitely many: a timer that always fires first would replay for ever, which
  is a matter of configuration.
- `wq_live`: calls in progress finish; strong fairness on progress at an
  announced time, on terminals of accepted extents and on polling. These are
  strong because other calls may come between; a driver that steps to
  `nextEventTime` and polls provides them. A port that answers busy at every
  retry is excluded only by the time bound.
- `engine_steps`: weak fairness on `CompleteDue`, on advancing to the next due
  time, and on callbacks returning: the loop of `_drive_independent`
  (`adapters/vllm/pd_session.py`).
- `owned_process`: weak fairness on every thread's next step and on the lifetime
  deadline passing. The child owes nothing: the worker and the stderr thread
  are sure to leave a blocking call only when the child has been reaped, and
  the clients need not call, nor end an exchange.

## 4. The proofs

All theorems hold for every value of the constants allowed by the named
assumptions of the modules (`ConfigAssumption`, `PortAssumption`,
`PsnAssumption`, `QueueAssumption`, `EngineStepsAssumption`, `PoolAssumption`,
`RuntimeAssumption`, `LifetimeAssumption`, `ReducerAssumption`,
`TransportAssumption`, `RxConfigAssumption`, `SecondAssumption`,
`OwnedAssumption`), which TLC evaluates in every run. The bounds of the runs are
constants too, so the theorems cover runs of any length.

**RnicTxSteps** has no theorem a run checks. It proves, once for both modules
that drive the transmit pipeline, what any call into it keeps. `TxStep` is the
disjunction of the pipeline's operations with any arguments; `RnicTxPort` and
`RnicTransport` both take steps of it or leave the pipeline alone.

- `PlacesInv`: the types; `Membership` (every packet belongs to the extent
  whose range holds it); `Counted` (`terminal_count` is the number of retired
  packets, and an extent is open until all have retired); `Places` (an
  unretired packet is queued, live or bound).
- `Order`, assuming `NoWrap` (`InitialPsn + MaxPackets =< PsnModulus`): the wire
  is before the queue and was issued in order, none later than now. It compares
  ordinals. Go-back-N takes back an upper set, so it cannot break this.
- `Ledger` and `Outcome`: what the work queue was told of each attempt, by where
  its packet is, and whether an extent lost a packet for good.

**RnicTxProofs**, on `RnicTxPort`. `TypeCorrect`; `NothingDangles` from
`PlacesInv` (`NoDanglingPacket` alone is not inductive: that a report finds its
extent open depends on how many packets have retired); `WireInSequence` from
`Order`; `ExtentsEndAsTold` from `Ledger` and `Outcome`; `LateReportsAreStale` and
`AttemptsMoveForward` from `WireInv`, which ties what the port owes to what was
told; `WindowNeverExceeded` from `Window`, which counts packets, bytes and
requests on the wire as cardinalities of sets.

**RnicTransportProofs**, on `RnicTransport`. `HandedOverInOrder`,
`DeliveredWasHandedOver`, and `ConnectionIsReliable`: the two ends implement the
safety part of `ReliableTransfer`. They assume `Reliable`: the transport is on,
nothing is lost before the responder has seen a packet (`FirstPacketSafe`;
finding 2 shows that this is needed), and the number after the last packet does
not wrap. `NetInv` says that the responder expects the packet after those it
handed over and that every acknowledgement, told or on its way, is of a packet
handed over. The refinement adds `PostedInOrder`: extents open one after another
and the last ends where the cut is.

**RnicRxProofs**, on `RnicRxPipeline`. `CeilingsHold`, `MeterIsLeakyBucket`,
`DeliversInOrder`. The two bounds speak of all pairs of admissions, so the
invariant keeps one inequality per past admission: `Paid` (the gate's virtual
clock, in fractions of an instant, has paid for all but one of the packets
since) and `Meter` (what was admitted since is in the meter or had time to
drain, remainder included). What the divisions round away is carried in the
remainders, which is why no error accumulates.

**WorkQueueProofs**, on `WorkQueue`.

- `DeepRingNeverOverruns`, from `CompletionSideOrdered`. `QueueInv` says that
  ring, lost entry and pending entries follow one another in send-queue order,
  all above the reclaimed prefix. `n` ring entries then stand for `n` different
  occupied send-queue entries, and an overrun needs one more than the ring
  holds.
- `PollNeverThrows`, `LostIsNeverReclaimed`, from `RequestsStayOwned`. `StatesInv`
  adds that retired requests are a prefix and that each container holds
  requests in its state.
- `SlotsNeverShared`. `Numbered` says that ring entries carry consecutive
  numbers ending at `visible`; numbers less than a ring apart have different
  remainders.
- `AnnouncesExactly`. `Announced` says that a pass that is about to return has
  submitted what it could or was told busy.
- `ContainersConserve` and `QuietIsFinished`. `StatesInv` gives one inclusion
  (what is in a container has its state). `Housed` gives the other, `Owing` says
  which requests are owed an entry, `Lined` orders the queues and `Reporting`
  ties packet attempts to requests in flight.
- `CompletesInOrder`: `WorkQueue` implements `OrderedCompletion`. Deciding an
  outcome is its `Finish` and consuming an entry its `Tell`; every other step is
  a stutter, because a request's outcome only moves from `outcomes` to its
  record when it retires.

**CompletionProofs**, on `EngineSteps` and `CompletionReducer`, which share no
state.

- `NeverPassesACompletion`, `ResultsInDueOrder`, `NothingSubmittedPastDue` from
  one invariant `OrderInv`. The three need each other: results stay ordered
  because what is pending is due no earlier than what was recorded, which needs
  that nothing is submitted while something is due. `PublishedExactlyOnce` adds
  `Identity` (an engine and step index name one receipt) and `ClaimInv` (among
  others, a claim on a pending step is a claim on the step in retirement).
  `FailureIsFinal` needs only that `_check_live` guards every change.
- `StepsCommitTogether`, `ClosingIsExact`, `TokensAreCovered`, `TimeIsConserved`,
  `LifetimesMoveForward` from `ReducerInv`. That no release callback raises is
  not inductive alone: it needs that the arena closes only without live views,
  that a live view is that of a registered request that is not closed, and that
  a request to be closed still has its view. The metrics need that the clock
  never passes back behind `through`, and that a request without tokens has no
  token time.

**KvRuntimeProofs**, on `KvRuntime`. `PoolIsConserved`,
`AuthoritiesStayTogether`, `PoolAdoptedOnce`, `ReferencesBalance`. `Sound` is what
every handler keeps of a pool (held blocks are the live and the reusable ones,
and the allocation count adds up), with one lemma per handler; the capacity
comes from the check after it (`ConservedBounds`). `IInv` says this of the ledger
and of the clone, and adds `Committing`: which authorities know the running
execution at each stage, and that it was new when scheduling began. The
references are counted as a set of (block, request, i-th reference) triples
(`Kept`), so each handler adds or takes a set of known size and no sum over the
blocks is needed.

**OwnedProcessProofs**, on `OwnedProcess`, for any finite set of clients.
`ExchangesExclude` and `FailureReaps`. `Exchanges` counts the calls under way and
says that an open exchange leaves only its owner's. `Serving` and `OpenTasks` say
that a caller has at most one task with the worker, and none once answered,
until somebody aborts. `Aborted` says that the lock is held through an abort and
that a thread past its own failure finds the abort over.

Where a lemma serves one theorem only, it is a named step of that theorem's
proof (`<1>PostHoused`).

Only model-checked: liveness (`EventuallyTransferred`, `RungIsFreed`,
`EventuallyRetired`, `EveryCallReturns`, `ThreadsEnd`), because fairness is
outside this prover's reach, and the two findings.

## 5. Not modelled, and the plan

Not modelled in the parts above: the congestion reaction and its rate, the
receiver's serialized service and notification point, wrap of sequence numbers
end to end, refusal of a packet by the wire of `RnicTransport`, PCIe
transactions behind the work queue, statistics counters (`late_releases` among
them), KV bytes and tiers, the scheduling of operations over resources in
`execute`, the attribution categories of a latency, `run_owned_process`, the
failure path of the constructor of `OwnedBinaryProcess`, and Windows jobs.

Out of scope for good are the parts that keep no state between calls or only
read and write files: lowering and pricing of steps, schedule generation,
serialisation, calibration, reports and command lines. They are the larger part
of the repository's lines, which is why these modules cover a small share of
them.

Next, in this order:

1. `RnicDevice`: `WorkQueue` and `RnicTxPipeline` composed by the pump loop.
   `AttemptLifecycle` and `ExtentOutcome` are what the work queue assumes of
   its events; the composition discharges that, and asks whether the loop ends.
2. `PacketPortLedger`: an abstract ledger and the code's checks shown to keep it.
3. `RnicCc` and the serialized receive service (leaping over idle ticks against
   ticking, as an operator checked against its reference).
4. Prefill/decode sessions over `EngineSteps`; flow sessions over
   `OwnedProcess`.
5. PCIe fabric credits.
