# Nyle control plane: TLA+ models and proofs

The repository implements the control plane of Nyle: a *membership chain*, in which nodes register in one
epoch to be members of the next, and what its members compute once an epoch starts (latencies, levels, the
locality trees of CRUX). Every node runs the onet service `membershipchainservice`; clients (the simulation, the
tests) drive it by calling its handlers on all nodes.

## Inventory

| component | source | state | operations | status |
|---|---|---|---|---|
| clock and phases | `cycleclock.go` | `Sequence`, `StartTime`, `ShiftEpoch`; package variables `REGISTRATION_DUR`, `EPOCH_DUR` | `GetCurrentPhase`, `GetTimeTillNextEpoch`, `GetEpoch`, `Set`, `CheckPoint` | modelled |
| registration | `service.go`, `addsignerservice.go`, `blscosiservice.go` | `e`, `storage.Signers` and its mutex, `Servers`, `ServerIdentityToName`, `Proof` | `CreateProofForEpoch`, `SignatureRequest`, `addSignerFromMessage`, `addSigner` | modelled |
| gossip registration protocol | `gossipregistrationprotocol/` | one instance per node and run: own confirmation, replies, timer, `ConfirmationsChan` | `Start`, `Dispatch` | modelled |
| history exchange | `updatehistoryservice.go`, `getterservice.go` | the same, and `EpochChan` | `UpdateHistoryWith`, `SendHistory`, `ExecReqHistory`, `ExecReplyHistory` | modelled |
| consensus on the new signers | `consencusservice.go`, `blscosiservice.go` | one BlsCosi run | `GetConsencusOnNewSigners`, `AgreeOnState`, `AgreeStateSubProtocol` | modelled |
| epoch start | `service.go` | `e`, what `Setup` is called with | `StartNewEpoch` | modelled |
| requests | `requestfromapiservice.go` | where each request is | `SetGenesisSignersRequest`, `ExecEpochRequest`, `ExecUpdateForNewNode`, `ExecUpdate`, `ExecCreateProofForEpoch`, `ExecStartNewEpoch`, `ExecGetConsencusOnNewSigners`, `ExecPause` | modelled |
| client programs | `simulation/service.go` | the round; `alreadyIn`, `stillIn`, `alreadyWritten`, `oldCommittee`; calls not waited for | `RunSystemNormally`, `RunExperiment`, `RunExperimentNodesWantingToJoing`, `RunExperimentNodesChurning` | modelled without their csv files |
| latency exchange | `treeservice.go`, `interactiondistance.go` | `Nodes`, `PingDistances`, `OwnPings`, `DonePing`, `NrPingAnswers`, and the same for interactions | `Setup`, `getPings`, `GetInteractionDistances`, `ExecReqPings`, `ExecReplyPings`, `ExecReqInteractions`, `ExecReplyInteractions` | modelled |
| interaction counts | `interactiondistance.go` | `CountInteractions` | one increment per message | the list and its index; the numbers are abstract |
| levels | `locarnotreaties.go` | `Level` of the nodes | `SetLevels` | modelled |
| locality graph and trees | `gentree/gentree.go`, `treeservice.go` | `Bunch`, `Cluster`, `ADist`, `PDist`, `GraphTree`, `ShortestDistances` | `genTrees`, `CreateLocalityGraph`, `Filter`, `CreateOnetRings`, `floydWarshall` | modelled, without what the build does not reach |
| graph utilities | `gentree/Save.go` | `ClusterBunchDistances` | `AproximateDistanceOracle`; `GetBridges`, `RemoveLinks` | the oracle; the rest is not reached (`OPTIMIZED` is false) |
| persistence | `service.go` | - | `tryLoad`; `save` is never called | not modelled: nothing is recovered |
| client API | `api.go`, `struct_for_api.go` | none | one message per call, returns when the handler does | as the calls of the client programs |
| measurements | `writing.go`, `simulation/` | none | csv files | not modelled |

**How they interact.** Handlers run concurrently in goroutines of their own, one per message. They share `Service`:
the storage is under `storage.Mutex`, servers and names under `ServersMtx`, the interaction counts under
`InteractionMtx`, and `Service.e` under nothing. `EpochChan` (capacity 3) passes "you are in epoch k" from
`ExecReplyHistory` and from the leader's consensus to whoever waits in `UpdateHistoryWith` or `StartNewEpoch`.
Registration calls the signature protocol, then the gossip protocol, whose callback is `addSigner` on every member.
The consensus ends by sending histories. Every check of lateness reads the clock. An epoch
that has started hands its members to `Setup`, which exchanges distances with all of them, draws levels and computes
the locality graph, the trees of every root and the shortest routes.

**What is hard.** Messages of a registration, of an update and of the consensus in any order and with any delay;
signers, names and epoch each under a lock of their own or none; early returns that keep a mutex; a channel two
kinds of answers share; timers of a tree that race with its answers; a history that overwrites what was just
stored; the boundary of the registration phase read at several places; and, in the trees, empty levels, ties,
latencies that depend on the direction, maps extended while they are visited. Each is a hazard in `PROJECT.json`, at its
line, with the properties that cover it.

**What makes it correct.** The registration closes before the leader reads the list and nobody is added after that;
who was told "confirmed" is a member for everybody who starts the epoch; all who start an epoch start it with the same
members; every member can be named and reached; the chain's first committee is immutable; a confirmation counts
every node of the tree once; every node called in a round ends in that epoch when the phases are long enough; and the
members of an epoch start with one and the same matrix of distances, which is what they sign. From that matrix every
distance is estimated within a constant factor, some tree covers the whole system, and any two nodes share a tree whose
radius is a small multiple of their latency (1 ms at least).

## Modules

| module | what it is |
|---|---|
| `PhaseClock` | the clock as the services see it: epoch and slot (`open`, `closing` = the last `TIME_FOR_CONSENCUS` of a registration, `live`) |
| `MembershipChain` | the service: one action per atomic piece of every operation, on every node; extends `PhaseClock` |
| `MembershipProperties` | types, invariants, action properties and documented claims of `MembershipChain` |
| `MCMembership` | instances: which node may begin which operation how often |
| `EpochRequest` | `MembershipChain` driven by rounds of `ExecEpochRequest`, with and without timers |
| `MCEpochRequest` | its instances: who is called in which round |
| `Rounds` | what holds in every state of a round of the client programs: the inductive invariant of the proofs |
| `Clients` | the client programs: `MembershipChain` driven by epoch requests or call by call, with newcomers, leavers and repeated genesis |
| `MCClients` | its instances, with `Rounds` |
| `MembershipEpochs` | abstract specification of the service as its clients see it: nodes enter epoch after epoch, each once, with the same members, nobody before all are in the last; `Clients` implements it |
| `Confirmation` | abstract specification of a gossiped registration: success only if all stored it |
| `GossipRegistration`, `MCGossip` | the protocol on a tree of any shape; implements `Confirmation` |
| `LatencyExchange`, `MCLatency` | `Setup` and the agreement on the distances, over several epochs, in both builds |
| `LocalityGraph`, `MCLocality` | what `Setup` computes from the distances: levels, bunches, distance oracle, trees, routes |
| `CycleClock`, `MCClock` | the arithmetic of `Cycle`; implements `PhaseClock` |
| `MembershipProofs` | the types and three safety properties, proved |
| `ClientsProofs` | the requests respect closed committees and every client program keeps types and genesis, proved |
| `RoundProofs` | the invariant of `Rounds`, and with it all safety properties of the client programs, proved |
| `GossipProofs` | the protocol counts honestly and implements `Confirmation` on any tree, proved |
| `LatencyProofs` | nobody panics in `Setup` and the exchange, proved |
| `LatencyMatrixProofs` | types, whole matrices and what is signed, proved |
| `LocalityProofs` | all safety properties of `LocalityGraph`, proved: the oracle is total and within its stretch, trees span and cover what they should, routes are shortest |
| `CycleClockProofs` | the arithmetic implements `PhaseClock` for any durations longer than the consensus slot, proved |

### MembershipChain and the code

State: `e` is `Service.e`; `storage[n]` is `Signers` (its length, the set per epoch, the indices that hold a nil map)
and whether the mutex is held for good; `servers`, `names` the domains of the two maps; `epochChan` the buffer of
`EpochChan` followed by the senders that are blocked on it; `view` the last call of `Setup`; `reg`, `cons`, `updating`,
`starting` the local variables of the running calls; `announces`, `requests`, `histories` the messages,
`snapshots` a `SendHistory` between its two critical sections.

Atomicity is the mutex: what runs under one is one step. `SendHistory` is two steps (`HistoryRead`, `HistorySent`).
`ExecReplyHistory` is one: it merges the servers first, but nothing it does depends on what happens before it
overwrites the signers. The gossip is one step per node of the star `GenerateNaryTree(len(mbrs))` builds; the root
handles its own announce before it sends it to its children.

A mutex that is not released stays held (`locked`): this is what a refusal, an error return of
`CreateProofForEpoch` and an index out of range in `getRosterForEpoch` do. onet recovers a panic of a protocol's
`Dispatch`, so it loses the goroutine and keeps the mutex. Calls that are refused at once, without effect, are not
actions of `MembershipChain` (they are of `EpochRequest`, where the caller goes on).

External: a signature round of BlsCosi, of which only the end matters here; the agreement on signers collects votes of
members whose list equals the leader's, and `Threshold` is the protocol's n - (n-1)/3. The tree, the messages and
the synchronised clock are onet's and the platform's. `Init` is the state after `SetGenesisSignersRequest` on all nodes,
which every client sends first.

Left out of it: `CountInteractions` (its length is in `LatencyExchange`), measurement files, identities and signatures as
values, the panic of `ExecUpdateForNewNode` when it is called for an epoch beyond the storage (the same effect as
`ConsensusPanics`), and a process that dies when `SendHistory` panics.

### EpochRequest

`RunSystemNormally` calls `ExecEpochRequest(r)` on all participants and waits for all of them. `pc[n]` is the call the
request of `n` is in. The calls of a request are the operators `Registering`, `Leading` and `Starting`, which say what
`CreateProofForEpoch`, `GetConsencusOnNewSigners` and `StartNewEpoch` do to whoever called them; `Clients` uses them too. Two
specifications, both without fairness: `ReqSpec` (any delay, any timer) and `PatientSpec` (any delay, no timer).

### Clients

The programs of `simulation/service.go`, chosen by `client`: `"normal"`, `"throughput"` (`RunExperiment`: more and more nodes
run one epoch, the genesis signers are set again before each run), `"join"` and `"churn"`. The last two drive the nodes call
by call: `stage` is the loop the client waits in, `pc[n]` the call it waits for on `n`, `apart` the calls it does not wait
for: the update and the registration of a newcomer, the consensus of a random leader, and the start of a newcomer that
was confirmed. Newcomers, leavers and leaders are drawn at random in the code, so they are choices here, within the
bounds of the draw (`Newcomers`, `Remaining`). In `"churn"` every node the program knows is a genesis signer: nodes
outside `Genesis` take no part. `ExecPause`, which a leaving node is sent, sleeps in a goroutine of its own; the
node goes on answering the others, and so it does in the model.

`GenesisAgain` is `SetGenesisSignersRequest` on every node of the next run. It resets what the code resets and nothing else:
tokens in `EpochChan`, running calls and messages stay (`CleanRuns` says that there are none).

Time: a slot lasts until what belongs to it is done (`AllSettled`), which is how the programs are dimensioned
(`MARGIN_FOR_CYCLE`, `TIME_FOR_CONSENCUS`); the tests wait in the same way. A newcomer is the exception: it draws a waiting time of
up to 6.5 seconds of a registration of 10, so that its announce may come in any slot of the registration, and its history
whenever it comes. Timers do not fire, but for the registration of a committee of one (`AloneTimesOut`): a tree of one node
never reports, so that the timer is the only end of that call. Fairness: weak, of the next-state relation. Goroutines of an idle
process are scheduled and messages arrive; nothing stronger is used, because a handler that waits for a leaked mutex
really never returns.

Whether `Setup` returns: in the shipped build (`USE_SPACE_TIME` false) it waits until the answers counted are as many as the other
members, but `NrPingAnswers` and `DonePing` are never reset, not by `SetGenesisSignersRequest` either. From the second round or
run on the count may be past that number for good, or a member that was asked too early is gone; then
`StartNewEpoch` never returns (`treeservice.go:150`, the finding of `MCLatencies`). `LatencyExchange` has the exchange that decides
it; in `Clients` it is a choice, `SetupWaits`: any start after the first round or run may stay in `Setup`, with everything done that comes
before. A client that waits for such a call never goes on, so the clock may stop there. `ClientEnds` therefore
claims no more than this: the client ends, or some member is left in `Setup` and all other calls have returned. That nobody is left
with the flag and the count reset is `AllReturn` of `MCLatency`. A process that dies in the exchange (a panic of a
handler) is in `LatencyExchange` only: here its requests would fail and the others be left in `Setup`, too.

What joining breaks is why `LocksReleased`, `OneToken`, `StartTogether`, `EpochByEpoch` and `ClientEnds` speak of the other programs. A
newcomer registers while its own update runs, and `CreateProofForEpoch` announces `s.e + 1` read after the signature round: it may be
announced for the epoch after the one it asked for (the finding of `MCJoining`). It may come in the consensus slot, and be
refused with the mutex held (that of `MCRefusal`). It is started twice if it was confirmed in time, by itself and by the
client, while the leader's history brings one token. `SameView` holds with joining nevertheless, and is checked.
`LocksReleased` is narrower than its name in the other programs: their slot stays open until the announces are handled, so that
what could lock a storage is an announce too far ahead, an index or an error return. The late announce is `MCRefusal`.

### GossipRegistration

One run of the protocol and the `select` at the end of `CreateProofForEpoch`. `Announce` is `Dispatch` up to the
collection of replies, with both outcomes of `addSigner`; `Hang` an `addSigner` that waits for ever; `Collect`,
`TimeOut` the two branches. An inner node that times out never answers; a tree of one node is a leaf and never
confirms (`Clients` has it, when all but one churned). Fairness is weak and of the messages alone, never of a timer;
the variable `late` records that a handler hung or a timer fired, which is what `Concludes` excludes.

### LatencyExchange

State: `known` is `Nodes.All`; `own` the map `OwnPings` or `OwnInteractions`, whose values are named by the epoch they were
measured in; `done`, `answers` the flag and the count; `distances` the rows that were added up in `PingDistances`, a
bag because the handlers use `+=`; `pc` how far a member is in `CreateProofForEpoch` (which resets the flag of the
interactions), `Setup` and `AgreeOnState`. `USE_SPACE_TIME` is the constant of the build, `FALSE` in the repository;
the initial states have both values. Pings are measured one by one, interactions under a mutex at once. A handler that
meets an unknown requester, a half-filled `Nodes` or a map that is being written may end the process (`dead`). The
rounds are those of `RunSystemNormally`: all register before one starts (the token of the consensus comes
after the registration) and the client waits for all. Who signs is decided when the proposer's message arrives:
the hashes are compared then. `counts[n]` is the length of `CountInteractions` and `epoch[n]` the `s.e` that indexes it:
`Enter` moves the epoch, `Setup` begins with the list that has grown, and a request that is counted in between ends the process
(`Countable`). That it never does rests on the flag: whoever has registered answers nobody before its own `Setup` has
measured. The one request the flag does not hold back is that for a history (`updatehistoryservice.go:115`), whose index
is left out: the program that can send one at such a moment is `"join"`, with an update that reaches a member
exactly between two statements. Fairness: weak, of the next-state relation; every action is a running goroutine or a
message that arrives.

### LocalityGraph

One goroutine, so one action per phase: `SetLevels` or `DrawLevels`, the three loops of `CreateLocalityGraph`
(`NearestPerLevel`, `GatherBunches`, `InvertBunches`), `AproximateDistanceOracle`, then for every root and radius
`StartTree`, `ExtendTree` until the loop of `CreateOnetRings` stops, `CloseRing`; last `floydWarshall`, one round of
its outer loop per step (`RelaxVia`). What the code leaves to chance is a choice: the order of the lottery, the levels
drawn, and which of the nodes that enter a map during a loop over it the loop still visits.

State: `nodes` the fields of `LocalityNode`; `distances` is `ClusterBunchDistances`; `dist2` the oracle's estimates;
`ring` the locals of `CreateOnetRings`; a tree is the set of nodes it reached beside its roster. Latencies are floats of
milliseconds in the code, here integers that count `Ms`-ths of a millisecond, and so are the radii (`Ms` is the first, 1 ms); `ping`
prints three decimals, which is `Ms` = 1000. Nodes are their numbers, `MaxFloat64` a number beyond every sum of
two. `PDist` of an empty level is `NoName`, with which the code looks nothing up and keeps its last witness. The panic behind
"shouldn't get here!" is `pc = "dead"`. Fairness: weak, of the next-state relation.

The build has `OPTIMIZED`, `USE_LOCARNO` and `USE_SPACE_TIME` false. The first is modelled as is (no link is removed, so
`OptimalBunch` is `Bunch`); of the second both values.

### CycleClock

In ticks; `CheckPoint`, new durations and `Set` are one step, as no time is meant to pass between them, and not in the
consensus slot (`Set` "Should be executed before registration"). Not checked, and worth knowing: `CheckPoint`
reads the clock once per condition. If the registration ends between the two, the second adds the `ShiftEpoch`
the first stored, and at epoch k the next cycle is counted as 2k+1.

## Runs

Twelve runs; each is a distinct question. Deadlock is not checked because the clients, the clock and the protocol end, and
because a leaked mutex or a dead process blocks for ever.

| run | question | bounds |
|---|---|---|
| `MCLeadAgain` | the same node leads twice, updates with a retry and registers, over two epochs: is the state sound, is no signer late? | 2 nodes, 2 epochs; node_0: two updates, two consensus rounds, one registration |
| `ReqRetry` | two rounds with all timers free and a request started over: same view, confirmed nodes join, no signer is late? | 2 nodes, 2 rounds, one registration each, node_1 asks for two histories |
| `ReqPatient` | two rounds, node_2 joins in the second, no timers, any delay: are signers known, is the view the same, do the confirmed join? | 3 nodes, 2 rounds |
| `MCClients` | all four programs: does every round end with exactly the nodes called in the same epoch, without a leaked lock or a spare token, do the confirmed stay stored by all and the genesis signers the same, is nothing left for the next run, does the client come to its end or stay in `Setup`, is it a run of `MembershipEpochs`, does the invariant of `Rounds` hold? | 3 nodes, 2 genesis signers, 3 rounds |
| `MCGossip` | honest counts, refinement of `Confirmation`, the call concludes | 5 nodes, an inner node |
| `MCLatency` | `Setup` and agreement: whole matrices, no panic and no index beyond a list, nobody waits for ever, only whole matrices signed | 3 nodes, 2 epochs, node_2 joins for the second, both builds |
| `ClockCycles` | the arithmetic shows the phases, also recalibrated | 5 epochs, 3 pairs of durations, 2 changes |
| `MCLocality` | the oracle always answers, within its stretch; trees span their rosters and cover what the design promises; routes are shortest; the computation ends | 4 nodes, every choice of levels, 73 matrices: lines, ties, one-way; latencies from 0.1 to 30 ms |
| `MCTwoLeaders` | *violated*: same view with two leaders | two registrations, both members lead |
| `MCLatencies` | *violated*: the same latencies on all members | as `MCLatency` |
| `MCRefusal` | *violated*: a refusal releases the lock | one registration |
| `MCJoining` | *violated*: whoever was confirmed is a member | 3 nodes, 2 rounds of joining |

Why the bounds are enough: two committee members are the least that can disagree, a third node is the least that can join,
two epochs let a message of one epoch arrive in the next, three rounds let a newcomer catch up with two epochs and
a call nobody waits for survive into a later round; three nodes let `"throughput"` run twice. The
quota bounds how often a node *begins* an operation, never how steps of running ones interleave. `MaxEpoch` bounds the
epochs; both appear in guards only. The clock needs a cycle per epoch and one more to show a boundary after a
recalibration in either phase. In `LatencyExchange` all state an epoch leaves to the next is there after one.
In `LocalityGraph` four nodes are the least with three levels occupied and one node left, and the least for which a third
witness is needed; lines reach estimates of 11/3 of the latency, ties many nearest nodes, one-way latencies what is no
metric. Both exceptions of `LocalTree` occur: nodes 0.1 ms apart share no tree of a radius below the first, and nodes 16/3 ms
apart or more may share only the last.

`MCLatency` checks the pings only for the first epoch (`Reset`), the interactions for all: that the second epoch of
pings is wrong is the finding of `MCLatencies`, on the same instance.

What the violated runs show (the findings of `PROJECT.json`):
- `addSigner` refuses with the storage locked, so one late registration silences a member for good.
- A newcomer that updates while it registers is confirmed for one epoch and stored for the next: when the members start
  the epoch it asked for, it is not among them (`service.go:216`).
- The committee signs the signers of the epoch that *ends* (`consencusservice.go:99`), so the agreement says nothing about
  the new ones, and a second leader overwrites the list of the first with its own.
- `DonePing` and `NrPingAnswers` are never reset (their twins of the interactions are): from the second epoch on `Setup` may
  end with answers missing, wait for ever, or end the process of a member that is asked too early.

Also worth knowing, and modelled: a node that updates during a registration takes the epoch being registered for as its
own (`updatehistoryservice.go:164`), and registers for the one after; and `SignatureRequest` never returns nil and `addSigner` tests the proof for nil only, so a node
whose signature round failed registers like any other (`SignatureReturns` does not ask how the round went).

That the confirmed are stored by the whole committee (`ConfirmedStored`) is not true in general: a history read before a
registration replaces the storage after it. It is true of every program but joining, whose newcomers update while they
register; `ConfirmedKept` says so. `SameView` holds with one leader: the runs that check it respect that.

## Proofs

For every set of nodes, committee, number of epochs and quota, under the assumptions named
in the modules: `MaxEpochAssumption` (a positive number of epochs), `NodeAssumption` (finitely many nodes; the
two the code names, node_0 and node_1, are distinct genesis signers) and `BoundAssumption` (types of the bounds).

- `TypeCorrect`: `Spec => []TypeOK`. `TypeOK` is inductive. One lemma per operation, one case per action; lemmas on the
  helpers (`StoredType`, `RebuiltType`, ...) keep records out of the leaves.
- `SignersAreKnown`: `Spec => []KnownSigners`. Inductive with `TypeOK`. `KnownSigners` speaks of snapshots and histories for
  that reason: a history carries signers read earlier than its names, and the step that delivers it needs to know they are
  covered. Names only grow (`NextNames`), so covered once is covered for ever.
- `GenesisStays`: `Spec => []GenesisFrozen`. An announce for epoch 0 is always refused, because the clock's epoch is not less.
- `CommitteeCloses`: `Spec => NoLateSigner`, an action property: only `AnnounceStored` adds a believed signer, and its guard
  is the negation of `Closed`; the other steps copy.
- `RequestsRespectCommittees`: the same of `ReqSpec`, every step of which is one of `MembershipChain` or none
  (by construction, as a lemma says).
- `ClientsKeepGenesis`: a step of any client program is a step of `MembershipChain` or `GenesisAgain`
  (each program is made of the same calls), so that it is enough to show that `GenesisAgain` keeps the types and the
  genesis.

Of the client programs, for any nodes, genesis signers, rosters, leavers, leaders and number of rounds, under `ClientsAssumption` (the
place of a node in the roster is its own) and `GrowthAssumption` (in the normal run nobody leaves and the signers of epoch 0
are called from round 1 on, as `RunSystemNormally` does with ten nodes or more; a roster of fewer nodes is not
covered):

- `RoundsAreKept`: `ClientSpec => []RoundInvariant`. `Rounds` says it in terms of h, the members of the epochs so far:
  where the clock is and which calls may be under way (`ProgramOK`, `SlotOK`), who is a member and who joins or leaves
  (`HistoryOK`), what each storage holds of every epoch (`StorageOK`), what was started and confirmed (`ViewOK`, `ConfirmedOK`), how
  far a registration and its announces are (`RegistrationOK`), which histories may be under way, and what is in them (`MessagesOK`),
  and where the tokens are (`TokenOK`). Nothing less is inductive: that all start with the same members needs that the
  leader's list is complete when its history leaves, hence that every registration was stored by all of the committee,
  hence that no history replaced a list in between, hence that histories travel only before the registration opens (to those who
  catch up) and after it closed, hence that calls and slots go in lockstep. The proof has a lemma for each step (`StepTick`,
  `StepRegisters`, `StepStores`, `StepAgreed`, `StepReceives`, `StepStarted`, `StepRound`, `StepAgain`, ...); h is guessed as
  "some h" and grows by the nodes of the round when the next begins; `MembersAreKnown` shows that it is what the storages
  have (`Members`), which is what TLC evaluates in `MCClients`.
- From it: `EverybodyStarts` (`StartTogether`), `ClientsShareView` (`SameView`), `ConfirmedAreMembers` (`ConfirmedJoins`),
  `ConfirmationsAreKept`, `TokensAreSingle`, `LocksAreReleased`, and `RunsAreClean` (`CleanRuns`, an action property). The properties of `Clients`
  leave `"join"` out; in the theorems about `SameView` and `ConfirmedJoins` that is a premise (for `ConfirmedJoins` a
  necessary one: `MCJoining`).
- `EpochsAreEntered`: `ClientSpec => EpochByEpoch`, the refinement of `MembershipEpochs` with `called` as `inside` and the members `Setup` was last called with
  as the epoch a node is in. Only `StartSucceeds` enters an epoch, and by then the token and the list are those of the round
  (`StartEnters`); a round or run begins when all are in the last (`Resting`, `RoundBegins`); everything else is a stutter (`ViewsStay`).
  It says more than `StartTogether`: on the way to the end of a round nobody is in a wrong epoch, and nobody starts one twice.
- `ClientsKnowSigners`: `KnownSigners` for all four programs, `"join"` included.

These theorems are about `ClientSpec`, whose slots last until what belongs to them is done. `ReqPatient` and `ReqRetry` ask the
same with any delay and with timers, where `SameView` and `ConfirmedJoins` rest on who leads how often: there they are checked only.

The argument of the three on signers is shared: `StepKinds` shows that all actions but four are `Quiet` (they touch nobody's
signers), and each proof then has five cases.

- `OracleAlwaysFinds`, `EstimatesStretch`: `Spec => []OracleTotal` and `Spec => []Stretch` of `LocalityGraph`, for any number of
  nodes, levels and latencies, under `LocalityAssumption` (latencies are multiples of a unit, any fraction 1/`Ms` of a millisecond,
  positive between distinct nodes and at most 10000 ms, the last radius; `ping` would print a zero only below half a microsecond). `PhaseInv` says what each phase has computed from the levels and latencies. The
  argument is about bunches: if u is not in the bunch of v, the nearest node of level 1 to v is nearer than u
  (`FirstFails`); if that is not in the bunch of u, the nearest of level 2 to u is nearer still and in every bunch
  (`SecondFails`); so the third lookup never fails (`OracleFinds`), and on a metric the sums telescope to 5 (`Estimates`).
  Everything rests on minima of sets of numbers (`LeastNatural`), from the well-foundedness of finite subsets.

- `RoutesAreShortest`: `Spec => []ShortestRoutes`. No paths are needed: `RouteInv` says that every route has a last
  hop, an entry and a latency that sum to no more than it (`Hops`), and that no node that has been in between shortens anything
  (`NoDetour`); after the last round this is Bellman's equation. Latencies above zero are used, symmetry and the triangle
  inequality are not.
- `LocalityTypeCorrect`, `TreesSpanRosters`, `OneTreeCoversAll`, `LocalTrees`: all from `RingInv`, which says of every root how many
  rings it has done and that its trees are `Grown`: every region so far is the roster of a tree of no larger radius, and the last tree's is that of the
  last region. A ring that is skipped is as long as the one before and contains it, so it is the same (`RingSkipped`); any
  other is longer (`RingAdded`). A tree has all of its roster after `StartTree`, because whoever is in a ring is in the cluster of its root.
  For `CoversSystem`, somebody of the highest level that is not empty is in every bunch (`TopNode`), and the oracle gives it the
  measured latency of all of them (`Reached`). For `LocalTree`, it is the witness of the two that has both in a small region (`WitnessFacts`).

Of `LatencyExchange`, for any number of nodes, epochs and newcomers, in both builds as far as the flag and the count are reset (`Reset`):

- `NoPanics`: `Spec => []NobodyPanics`. `FlowInv` relates the place of every member to its flag, its count, the length of its
  list and the messages under way: who has registered answers nobody before its own `Setup` has measured, and every
  reply under way belongs to a request of this round. It is needed because a panic comes from a *late* message, not
  from the state of whoever panics.
- `MatricesAreComplete`, `SignedByHolders`, `LatencyTypeCorrect`: a row does not change once it is sent (`RepliesKept`), the matrix of a
  member is the sum of the rows of exactly those it has counted (`MatrixInv`), and nobody is missing when the count is
  full (`NothingMissing`); the hash a member compares is that of such a matrix (`SignInv`).

Of `GossipRegistration`, for any finite set of nodes and any `Parent` (`TreeAssumption`):

- `RepliesAreHonest`, `GossipConfirmsAll` (the refinement of `Confirmation`), `GossipTypeCorrect`. `TreeInv` adds to `HonestCount` that
  all nodes below one that answered are done (`Answers`): nobody there can store any more, so an answer stays right. A node that
  collects is not done, so it is below none of its children, and then what is below two of them has nothing in common
  (`SiblingsApart`): their counts add up (`TotalIsHonest`). That `Parent` has no cycle is not used. `Below` is the least set closed under children, not a recursive function, so that what is
  below a node needs no induction. `MapThenSumSet` is a recursive function on the subsets of its argument, which
  exists (`SumExists`) and adds up (`SumCounts`), both by the argument of the least counterexample (`Least`). A full count
  therefore needs all nodes to have stored.

Of `CycleClock`, for any durations longer than the consensus slot (`DurAssumption`):

- `ClockTypeCorrect`, `ClockShowsPhases` (the refinement of `PhaseClock`), `EpochsHaveRegistration`. `ClockInv` says that the cycle was
  set in the past with the durations in force and that the epochs are within their bound. Division enters by three facts (`Euclid`, `Unique`,
  `NextTick`): a tick adds one to the remainder or starts a new cycle, and nothing else.

Only model-checked: `SameView` of `"join"`, where a registration may meet a node that is ahead of it, and of the requests with any
delay and with timers (`ReqPatient`, `ReqRetry`), as `ConfirmedJoins` there; and all liveness, which needs `ENABLED` and is
out of the prover's reach.

## Plan

Done: `PhaseClock`, `MembershipChain`, `EpochRequest`, `Clients` (all four programs of the simulation), `GossipRegistration`,
`CycleClock`, `LatencyExchange`, `LocalityGraph`, and the proofs above.

Left:

1. A proof of `SameView` for `"join"`: `Rounds` with newcomers that are an epoch ahead or behind; and of `SameView` and
   `ConfirmedJoins` of the requests with any delay, under one leader that leads once an epoch.
2. `CheckPoint` in two steps, so that the clock may move between its conditions.
3. The index of a history request into `CountInteractions` (`updatehistoryservice.go:115`): `LatencyExchange` composed with the updates of
   `Clients`.
4. `GetBridges` and `OptimizeGraph`, should a build set `OPTIMIZED`.
