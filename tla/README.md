# Verification of the JANUS distributed swarm

TLA+ models of the code of this repository, TLC runs that check them on small instances, and TLAPS proofs
of what matters most for every value of the constants. Paths below are relative to the repository's root
(`tools/…`, `firmware/…`).

Contents: [the system](#1-the-system) · [modules](#2-modules-and-how-they-correspond-to-the-code) ·
[runs](#3-runs) · [bounds](#4-bounds-and-why-they-are-enough) · [fairness](#5-fairness) ·
[proofs](#6-proofs) · [where code and promises disagree](#7-where-the-code-and-its-promises-disagree) ·
[not modelled](#8-what-is-not-modelled) · [plan](#9-plan)

## 1. The system

The repository has two halves that share no memory and no process.

**Coordination tools** (Python, `tools/`). Workers of a swarm lease objectives from a SQLite file, publish
on a blackboard, record what they learn as turns of a spiral with a genealogy, and tell each other by files
which commits they are at.

**Mining swarm** (Arduino C++ on ESP32, `firmware/`). One master (Buzz) talks to a mining pool and cuts
its work into ranges of nonces; workers (Anchor, Gladius, Golcron, Stick, …) receive job packets over
ESP-NOW, hash their ranges and answer with shares. Twins (Anchor and Gladius) split a range between them.

| component | state it keeps | operations | talks to | what is hard | what makes it correct |
|---|---|---|---|---|---|
| Habitat swarm client `tools/habitat_git_swarm_client.py` | `DurableState` (work state, active lease id, backoff), checkpoint file, receipts | acquire_lease, resume_decision, record_poll_success/error, save | lease store | a crash between two steps; a resume decided on a row that changes | resumes only its own live lease under the pins it runs |
| Durable lease store `tools/habitat_git_swarm_recovery.py` | table `task_leases` | acquire, get, release | SQLite, its write lock | transactions of several processes; busy timeout; failing statements | one live lease for each task; a live lease is never lost |
| Objective lease fencing `tools/habitat_objective_lease_fencing.py` | binding tokens of a fence | acquire, renew, assert_current, release | lease store | `now` is read before the wait for the lock | a lease id is a fencing token |
| Spiral controller `tools/demiurge_spiral_swarm.py` | ledger of each entity, frontier window, archive, chronicle | integrate, derive, record_failure, mark_stale, recover | genome ledger | one call writes four places and may raise after the first | ledger, genome and chronicle agree; nothing is lost |
| Genome ledger `tools/swarm_genome_ledger.py` | nodes, index of children, line of each entity | register_turn, ancestors, descendants | spiral controller | parents and children are indexed apart | the genealogy is acyclic and indexed both ways |
| Kenshi blackboard `tools/kenshi_swarm_blackboard.py` | agents, events, active window, archive, leases by turn | register, append_event, handoff, sync_local_state, mark_stale, recover, claim_lease, bind_genome | – | an operation changes the agent before the event is refused; turns of agents are not synchronised | events are never lost; tenures do not overlap |
| Kenshi runtime `tools/kenshi_swarm_runtime.py` | a blackboard and a spiral | register_agent, emit, handoff, commit_turn, record_failure, validate | both | several calls in one, each of which may raise | both parts know the same turns and identities |
| TOPA router `tools/topa_epistemic_router.py` | none | assess a record | runtime | long table of rules | the errors a record gets |
| Face buses `tools/brain_five_face_bus.py`, `tools/portfolio_genesis_face_bus.py` | packets and acknowledgements as files | observe, route, receive, witness | each other through files | missing, misnamed, torn and old files beside the new ones | what is recorded as delivered was delivered |
| Anchor `firmware/anchor/` | running job, waiting slice, receive queue, twin, counters of the radio watchdog | onRecv (Wi-Fi task), loop: handle frames, mine, keep house, rescue the radio | Buzz, Gladius | frames arrive at any time; `millis()` wraps around; a twin re-splits a running walk | newest work runs; each slice gets its share; each nonce is hashed once; silence ends in a rescue |
| Gladius `firmware/gladius/` | running job of Buzz, Core or its own, one queued slice, cursor | parser, miner, status and service task | Buzz, Core | four tasks, two cores, decisions outside of the lock | a share names what was hashed |
| Golcron `firmware/golcron/` | job cut into slices with a path through each, channel | J/B and reward packets, loop: mine, replan, search for Buzz's channel | Buzz | paths change in the middle of a job | no nonce twice, none left out; Buzz is found again |
| Buzz `firmware/buzz/Buzz.ino` | pool connection, mirrored job under a mutex, nonce cursor, table of nodes, receive queue | mirror and clear the job, broadcast ranges, remote shares, Stratum, watchdogs | pool, workers | miner task, UI task and radio callback; a mutex whose take may time out; alternating watchdogs | ranges do not overlap; no stale job is handed out; a dead link is dropped, a dark farm restarts |
| P4 dual swarm core `firmware/p4_dual_swarm_core/` | job, peer, best, ring of candidates under one spinlock, flash | commands, hash worker, verify, frames over UART | a second P4 | two tasks; check and set not under one lock | no best of another job stands; a candidate waits its turn |
| Stick, Zim, Blackhole, Beacon, Pyramid, Yaks Gate, … | copies of the job and radio code of Anchor with their own displays and sensors | as Anchor | Buzz | as Anchor | as Anchor |
| Blind Eye, Core2, PEA4, ADV Elite | sensing, consoles, shells | calibration, user interface, game | Buzz, ESP-NOW | floating point, displays | – |

`PROJECT.json` lists every component with its status and every hazard with the line where it bites.

## 2. Modules and how they correspond to the code

```
FencedOwnership  <── implemented by ──  LeaseStore ── extends ── HabitatClient
                                            └─ LeaseStoreProofs
SpiralGenome ─┬─ instantiated by ─ KenshiRuntime ── KenshiProofs
Blackboard  ──┤
FaceBus ──────┴─ ToolsProofs        MCTools: SpiralGenome, Blackboard, FaceBus

AnchorJobs ── AnchorJobsProofs
BuzzColony ─┬─ BuzzProofs
BuzzPool  ──┘                       MCBuzz: BuzzColony, BuzzPool, GladiusJobs, GolcronNode
GladiusJobs ─┬─ WorkersProofs
GolcronNode ─┘
NonceWalk ───┬─ NodesProofs         MCNodes: NonceWalk, P4Worker, AnchorRadio
P4Worker ────┤
AnchorRadio ─┘                      Basics: the lemmas that the …Proofs modules share
```

An `MC…` module gives TLC its sets. Three of them are sums: they extend modules that share no variable, and a
variable `part`, chosen in the initial state, says which of them runs. Operators whose comment begins with "A
bug" are not used by any specification: they are the mutated forms of the definition that follows them, which
the properties are tried against.

### Tools

**HabitatClient** – the pure part of the client: leases, their staleness, conflict, resume_decision,
`DurableState`. A lease id is the SHA-256 of a seed; the model takes the seed itself (task, holder, pins,
acquired_at) as the id, so that equal seeds give equal ids and nothing else does.

**LeaseStore** – several processes over one SQLite file. A call is synchronous, but `now` is an argument:
the caller reads the clock, and only then waits for the write lock. So `CallAcquire … CallResume` fix the
arguments, `AcquireBegin`/`RenewBegin` get the lock and decide on the row they read, `AcquireCommit`/
`RenewCommit` commit; `Release` and `AssertCurrent` are a single statement, atomic in SQLite. In between come other
processes, `Tick`, `Busy` (the busy timeout ends the wait), `TxnFails` (statement or COMMIT fails, rollback)
and `Restart` (a crash: SQLite rolls back, memory is lost, the file stays). `ResumeDecision` decides on a row
read in an earlier step. Two workers may share a holder id.

**FencedOwnership** – the abstract promise: a token owns a task in one uninterrupted tenure and never again.
`LeaseStore` implements it with `owner <- id of the committed row`.

**SpiralGenome** – `integrate()` writes ledger, genome, window, chronicle in this order, and
`genome.register_turn` may raise after the first: `Integrate` ends in either way. The operations that call it are
`IntegrateTurn, RecordFailure, RecoverEntity, Derive, MarkEntityStale`. A fingerprint is modelled as (entity,
turn): the code hashes a payload that contains both. The two traversals of the genealogy are a recursive function:
the links of the start, then, once for every node there is, the links of what was reached.

**Blackboard** – operations as operators on a value of the board, so that the runtime can make several in
one call; `Ends(returns, after, otherwise)` says what an operation leaves behind when it raises. `Strip` is
`str.strip()`: one of the names has blanks around it. Agents are a dict from name to agent, as in the code: a name
that is not in it raises. An event that a caller appends itself is of any kind of `Emitted` (a kind that is not in
EVENT_TYPES raises), to no one, to those who are known or to some who are not, after no event, the first one or one that is not there.

**KenshiRuntime** – instantiates both, and adds the order of their calls in `register_agent, emit, handoff,
commit_turn, record_failure`. `emit` hands any kind on, also `GENOME_BIND` and `CAUSAL_ACK`, and cannot name genome
nodes; so a binding of the line (`IsBinding`) is a `GENOME_BIND` that names one.

**FaceBus** – the commands of one round are processes of their own: `Observe(f)` writes a face's packet for the
commit it is at, `Route` sorts the files of an inbox into mailboxes or refuses, `Receive(f)` turns a mailbox into
an ack, `Witness` compares the acks with the packets of the inbox and records them. They run in any order, again
and again, over directories in which files of an earlier attempt still lie; `Commit` moves a repository on in
between, `Fault` loses a file, gives it another face's name or cuts it off. The portfolio bus is the same protocol
over another list of repositories.

### Mining swarm

**AnchorJobs** – `onRecv` in the Wi-Fi task (`OnRecv`, at any time) and `loop()` as the cycle
`Receive` (anchorProcessNowQueue, one frame per step, up to a budget) → `RunMining` → `Housekeeping`.
`HandlePacket` has the four outcomes of janusJobHandlePacket: start at once, ignore a duplicate, replace,
hold. `Promoted` is janusJobPromoteQueued, which three places call. A job is its slice and what is done of
it; the clock is `millis()` modulo `Modulus`, with 0 as "never" as in the code, and `Age` is
janusSafeAgeMs, the signed reading of a difference included. The clock moves within `RunMining` and
`Housekeeping` by up to `MaxDelay`; the code reads it several times in a pass, the model once per step.
Two history variables, `latest` and `elapsed` (real time since the job was accepted), exist for the
properties only; no guard reads them.

**NonceWalk** – `nextNonce` with its six lanes, `janusCoprimeStride`, `configureMinerLane` and
`janusTwinApplyLaneSplit`, on words of `Bits` bits; sums wrap around exactly where the code computes in
`uint32_t`. `TwinReceive` is a J/T packet of the twin that arrives while the job runs. Exclusive or is the constant
`BitXor`, of which only the range is assumed: `MCNonceWalk` gives TLC the real one, and the proofs show that the walk
is a permutation whatever seeds and offsets are mixed into.

**AnchorRadio** – a pass of `loop()` as the radio watchdog sees it (`Pass`): why the node counts as missing, the
rescue that restarts ESP-NOW at most every `RescueMin`, the episode that ends in a restart of the node. `Hear` is a
frame, `TakeUpSlice` the start of a slice that waited, which refreshes `lastMasterMs` like a frame of Buzz, `RadioFails`
a radio that has gone deaf or down by itself; a rescue may leave it as it was. Instants are `millis()` in units of the
watchdog's period modulo `Turn`, 0 again stands for "never".

**GladiusJobs** – parser, miner, status and service task of Gladius as steps between which the others run: a step
is one critical section under `jobMux` or one access outside of it. The parser decides (`OnBuzzJob`, …) and then
applies or queues; the status task looks and then makes a job of its own; the miner promotes, copies the job, looks
at its age, hashes a batch, counts the cursor up in two accesses (`CursorRead`, `CursorWrite`), shares and clears.
Ages are three stages (up to 320 ms, up to 18 s, beyond); when the status task makes a self job is left open. All
jobs have one range. `sendSharePacket` looks at the job twice without the lock: `OtherShare`, then `SelfShare`.

**GolcronNode** – the receive callback, which queues a packet or drops it (`PacketArrives`), and one `loop()` of
Golcron: `OnNewAssignment, OnSameAssignment, OnEmptyPacket, OnReward, OnePacketTooMany` for packets taken out of the
queue, which may have come on a channel that was left since,
`ReplanNow` and `Replan` for a new order of the slices that are left, `MineNonce` along the path of a slice,
`JobGoesStale`, and the search for Buzz's channel (`ScanTick`, commands). Offsets, strides and the order of slices
come from hash functions and learnt scores; the model chooses them freely among all values that these can have.

**BuzzColony** – the job that Buzz offers to workers, shared under the mutex `xColonyJobLock` by the miner task
(core 0), `colonyTick` (core 1) and the radio callback. A critical section is two steps: its effect, which takes
the mutex (`Lock`), and `Unlock`. A take that times out while another task holds it is `Busy`, and the task goes on
without what it wanted to do, as the code does. The miner mirrors each job (`Mirror`) and clears it when a session
ends (`MinerClears`); the UI task cuts ranges off the cursor one hold at a time (`CutRange`) between a snapshot and
the sends; `PendingClear` is the retry of a clear that found the mutex taken.

**BuzzPool** – one pass of `microMinerTask`, which takes one unit of time, as one of: `ThermalPass`, `WifiPass`,
`PoolHeld/PoolConnects/PoolRefuses`, `HandshakeFails`, the watchdogs, `HashPass`, `WaitPass`. Lines of the pool and
what Wi-Fi, the pool and the heat do come between any two passes. Timers stop at the largest threshold they
are compared with. The branches differ in which timers they clear or keep, the start of a blackout and the back-off
among them; a restart, or a storm sleep from which the node wakes up, clears all.

**P4Worker** – commands and frames of the Arduino loop, saves to flash and `Reboot`, against the steps of the hash
worker, one critical section of `gMux` at a time; `gResetBest`, `gRole` and `gMode` are read and written without it. A
hash is what went into it, so that a frame verifies exactly if it names the inputs of its digest.

## 3. Runs

| run | what it shows | distinct states |
|---|---|---|
| lease_store | two processes of one holder and one of another, clock readings that differ: leases are exclusive while live and lapse within a ttl, decisions are taken on the committed row, restarted workers only take up their own leases, lease ids are fencing tokens; the store implements FencedOwnership | 108 830 |
| lease_store_fair | unbounded many calls at one instant: every call answers or raises, the write lock is always given back | 46 576 |
| kenshi_runtime | the genome follows chronicle and ledgers whatever raises, and what blackboard and spiral know stays equal until a call raises; every announced turn is bound to its own node, whatever callers emit in between | 211 256 |
| anchor_jobs | the latest work runs, a slice gets its useful share, never starts stale, ends by its timeout across wrap-arounds; every slice ends and the queue is served | 206 994 |
| tools | SpiralGenome: line and ledger agree, the window loses nothing, the genealogy is acyclic and indexed both ways, failures leave the last promoted state active. Blackboard: the window and the agents' logs lose nothing, the published state is the agent's, tenures of different agents are disjoint. FaceBus: each packet that a witness lists was opened by its recipient, and there is one of every face | ≈ 456 000 |
| nodes | NonceWalk: every lane, stride and split visits the range as a permutation, an undisturbed walk hashes each nonce once. P4Worker: a best of an earlier job is about to be reset, a candidate is displaced only by a full ring of later ones. AnchorRadio: silence is rescued, and then ends in a restart, within bounded time | 1 076 295 |
| buzz | BuzzColony: what is offered is of the running session or about to be cleared, ranges of one draw are disjoint, a deferred clear happens. BuzzPool: a link that hashes nothing is dropped, a dark farm restarts within bounded time. GladiusJobs: a share names what was hashed. GolcronNode: no nonce twice and none left out, Buzz's channel is found again | 189 493 |
| stale_renewal, spiral_genealogy, nonce_walk_split, p4_frame, gladius_self_proof | a promise of the repository that the code does not keep: see section 7 | – |

`CHECK_DEADLOCK FALSE` is given because the bounds stop calls: a model that has used up its clock, turns,
events, commits or frames, or a job that has ended in NonceWalk, has no next step. AnchorJobs never stops.

Symmetry is used where the sets are interchangeable and the run checks no liveness: the two processes of one
holder, values of a delta.

The sums tools, nodes and buzz explore their parts one at a time; where a part that does not run has several
initial states, the `MC…` module picks one.

## 4. Bounds, and why they are enough

- **lease_store**: 3 workers (two of one holder: the fencing cases need two processes that produce the same
  `holder_id`), 1 task (rows of different tasks share nothing but the lock), 2 pins, `Ttl {1,2}`,
  `MaxClock 3`. `ClockStep = 1` means that two readings of the clock always differ and so bounds the calls to
  three in a behaviour: enough to acquire, expire and take over, or to acquire, release and have the old
  handle asserted. Longer histories are what the proofs are for. `ClockStep = 0` (readings may coincide) is
  used by lease_store_fair and stale_renewal. The clock is monotone.
- **kenshi_runtime**: 3 turns, 7 events, one message of a caller, window of 3; `Emitted` has the kind of a binding, that of
  an announcement and one that is not in EVENT_TYPES. The proofs are for any numbers and any kinds.
- **anchor_jobs**: three slices of one work (one runs, one waits, one displaces it) and one of another, one
  ping, receive queue of 1 and budget of 2, ranges of 3 nonces in batches of 2. `Modulus 16`, with
  `JobTimeout 4`, `QueueMaxAge 3`, `MinWorkMs 2`, `MaxDelay 2`: timeouts plus two delays are at most half the
  modulus, as they are by a wide margin in the code (2^32 ms against minutes). The clock starts anywhere and
  wraps around, and the instant 0 is met. A frame that finds the queue full is dropped by the code; in the
  model it is a frame that was never sent, because senders are not modelled.
- **tools**, SpiralGenome: 4 turns over 2 entities reach a derivation from two parents, a refused turn and the
  turn after it, and a window of 2 that overflows twice. Blackboard: 3 events with a window of 2, turns 0…3, two
  ttls, an event of a caller that is of a known kind or of an unknown one; no lineage besides the agent's own; an
  agent's own turns do not run backwards, turns of different agents are unrelated. Longer histories of
  claims are what `TenuresDoNotOverlap` is for. FaceBus: 2 faces (each is the other's peer), 2 attempts, 2 commits,
  3 files in a directory and 1 fault, which may be any of the three kinds at any time.
- **nodes**, NonceWalk: words of 5 bits; a power of two, a prime, an odd and an even composite range, one of
  which wraps around the end of the nonces; `3 * range <= Word` as in the code, where ranges are far below 2^30
  and the products that would overflow are computed in `uint64_t`. Two seeds, four arms with and without common
  divisors with the ranges, one split. P4Worker: two seeds (one job and the next), two slots and three frames, so
  that one is displaced, a mode that verifies and mirrors and one that does neither, hashes with and without a zero
  bit. AnchorRadio: `Turn 52` with timers up to 7 in the order of the code and passes of 1 or 2 units. What matters
  (`RadioTimers`) is that half a turn is no less than twice blackout and restart plus four passes, 26 here; in the
  code it is 24.8 days against 31 minutes.
- **buzz**, BuzzColony: one worker, two sessions of one job each, two broadcast ranges besides the worker's, one
  remote share; the cursor's draw is fixed at 0, `NonceSpace 16`, so that the ranges of one job do not wrap around,
  as they do not in the code (`RangeAssumption`; any draw is covered by the proof). BuzzPool: thresholds of 1…8 in the
  order of the code (`PoolTimers`). GladiusJobs: two slices of one pool job and one of the next, one packet of Core
  and one self job, one nonce each. GolcronNode: ranges of 5 (slices of 2, 2, 1) and 6 (3, 3), two channels,
  Buzz moves once, one packet in the queue. The two larger slice sizes of the code differ from these in the number only.

## 5. Fairness

- **LeaseStore**: `WF(Answer(w))` for each worker, where Answer is the code inside a call of that process:
  synchronous Python, and a wait that the busy timeout ends. Nothing is assumed of callers, of the clock or
  of who gets the lock: a worker may lose every race, and then `Busy` is its answer.
- **AnchorJobs**: weak fairness of the steps of `loop()`, which the Arduino core calls for ever. Frames may
  come or not, in any order. That a slice ends although the timeout may never be seen (a job accepted at the
  instant 0) rests on every batch hashing at least one nonce.
- **BuzzColony**: weak fairness of each task's `Unlock` (a holder always gives the mutex back), of the UI task's own
  steps that need no mutex, and of the end of the thermal stop's clear. Strong fairness of the deferred clear while
  the mutex is free: a FreeRTOS take waits in the mutex's queue of tasks, so a task that asks again and again is
  not passed over for ever. Nothing is assumed of the pool, the heat or the radio.
- **GolcronNode**: `loop()` runs and time passes (`JobGoesStale, MineNonce, ScanTick, JobGetsLate, BuzzFades`).
  Whether packets, commands or rewards come is left open.

BuzzPool and AnchorRadio measure time, so what must happen there is stated as a bound and needs no fairness. No
other run checks liveness: the other components are synchronous libraries without a scheduler, or promise nothing
of the kind.

## 6. Proofs

The theorems hold for every value of the constants that satisfies the named assumptions.

**LeaseStoreProofs.** The safety properties are not inductive: that the transaction's compare-and-swap is never lost
(`CompareAndSwapIsNeverLost`) needs to know what each call in progress has seen. The invariant is
`TypeInv /\ RowInv /\ HandleInv /\ CallInv`:
`TypeInv` adds to the types what a call in progress has as arguments; `RowInv` says that a committed row was
built by NewLease no later than now and expires within a ttl of now; `HandleInv` that a Lease object in hand
was granted, is its holder's and bound to its pins; `CallInv` that a transaction saw the row that is still
committed and that pending calls are about the handle. From it: `TypeCorrect, OnlyOwnLeasesAreHeld,
LeasesLapse, LiveLeaseSurvives, TakeoverIsNewToken`. With `ClockStep = 1` the further invariant `FreshInv`
(no two pending acquisitions have the same reading of the clock, none has that of a retired or current id) gives
`OldTokensFail` and the refinement `StoreIsFenced`: initial states map to initial states of FencedOwnership,
and each step to `Grant`, `Relinquish` or a stutter.

**AnchorJobsProofs.** What the policy decides it decides on `Age`, a difference modulo 2^32 that is cut off at
half the range; what the properties speak of is real time. The invariant is
`TypeOK /\ LatestWorkOnly /\ WaitsOnlyBehindAnother /\ ClockInv /\ QueueInv`. `ClockInv`: until a job is as old
as the range of the clock, the clock tells its real age, and the timeout keeps it far below that; each makes
the other inductive, and the bound depends on where in the pass the loop is, because the timeout is looked at
once in a pass. `QueueInv` says the same of the waiting slice. Theorems: `TypeCorrect, LatestWork, WaitsBehind,
TimeoutIsReal, UsefulShareFirst, NoStaleStart`. They rest on `ClockAssumption`: timeout and maximal age, plus two
delays, are at most half of `Modulus`; and on `SliceAssumption`: a range is not empty (janusJobHandlePacket returns
early on an empty one), and `None` is no value of another kind. `TypeCorrect` and `WaitsBehind` are steps to the
others and not properties of a run.

**ToolsProofs** (Blackboard, SpiralGenome, FaceBus). The blackboard's invariant is `BoardInv`.
`TenuresDoNotOverlap`: a lease in the table says only when the *last*
tenure of an objective ends, the property speaks of all pairs in the history. `LeaseHistory` ties the two: the lease
of an objective is the last claim on it, and an agent's turns advance along the history, so that a claim that
finds the lease expired, or its own, begins after every tenure of others. `WindowLosesNothing`: window and archive
together are the ids `0, 1, 2, …` of all events. `LogsAreTheirOwn`: the ids in an agent's log are those of its own
events, in order; `StateIsPublished`: what an agent last published and what its local state is change together
unless a call raises between them, for which it is a premise that none has.

For the spiral, `SpiralInv` is
`SpiralShape /\ TurnInv /\ LineInv /\ ActiveInv /\ ChronicleInv`: turns are numbered along each ledger, the genome's
line is a prefix of it whatever was refused (`LineIsPrefix`), the active state is the
candidate of the last promoted turn (`ActiveIsPromoted`), and the chronicle's events are exactly the turns that were
registered, in the order of each entity (`ChronicleKeepsAll`). Every operation is one `Integrate`, so the step is
proved once for a taken and once for a refused turn. `GenealogySound` adds `GeneInv`: each node has a place in the
chronicle that is after those of its parents, and the index of children is the inverse of the parents. That the
traversals in both directions are inverse to one another (`InverseLinks`), and that no node reaches itself
(`AncestorsPrecede`), is shown by induction over the length of the paths that they follow (`CollectedFacts`).

For the buses, `WitnessIsTrue`: an ack that lies anywhere is the ack of a packet that its recipient opened
(`AckInv`), and an ack determines its packet because the ring is injective (`PeerIsInjective`,
`AckDeterminesPacket`); so acks that are equal to the ones expected for the packets of the inbox come from those
very packets, for any number of faces (two at least), attempts, commits and faults.

Assumptions: windows are not empty, `Strip` is idempotent, ttls are natural numbers, and `None` and `Nil` are none of
the values they stand beside.

**KenshiProofs.** The runtime's calls are compositions of calls of both parts, each of which may raise, so the proof
follows a call through the values that the board takes in between. `RuntimeValidates`: whatever raised, the genome has
a node for each turn of the chronicle, its lines are prefixes of the ledgers and every agent has a ledger; as long as
none has raised (`CleanInv`), chronicle, genome and ledgers grow by the same turn and an identity is registered on the
board exactly if it has a ledger. `BindingsFollow` needs no such premise: a `GENOME_BIND` that names a node is only
ever written after that node is in the line and right after the event that announced it, and what callers emit names
none, so the bindings of an agent are at most as many as its
nodes and name the last of them (`BoundInv`); the count of later bindings is what makes this inductive.

**BuzzProofs.** `PublishedIsCurrent` needs `SessionInv`: also what the miner is about to mirror is of the session, and
no connection is opened while a job stands whose clear was not left to the UI task. `RangesAreDisjoint` needs to
know where the cursor stands: `CursorInv` says that
each range of the present draw lies behind the cursor (`Past`) by at least its size, and that all of them together
have not gone further than `Reach` of their number, which `RangeAssumption` keeps below the number of nonces. The
two bounds on time need `TimerInv`: how old each watchdog's timer may be in each state of the link (`LinkInv`), and
how a restart that is due is bounded by the timers that may still hold it off (`DueInv`), under `PoolTimers`, the
order of the thresholds in the code.

**NodesProofs** (P4Worker, AnchorRadio, NonceWalk). `ResetIsNotLost`: the best and the worker's copy agree unless the
flag is up, going up or just taken down (`CopyInv`). `CandidatesWait`: the last `QueueSlots` candidates have different
places in the ring (`PlacesDiffer`).

Of the radio, `RadioTypeCorrect, RescuesSilence, EndsSilence`. The properties bound real time, `quiet` and
`unrescued`; what the node decides on are differences of instants on a clock that wraps around, among which 0 means
"never". `RadioInv` says how they hang together: an episode of loss grows no older than the rescues it has had allow
(`EpisodeIsShort`); a long silence is still in its first episode or has met the clock's wrap, which ends that one and
begins another (`SilenceIsBounded`); and a node that has not been rescued was blind around the instant 0, was just
rescued, or waits out the limit between rescues (`UnrescuedIsBounded`).
`RadioTimers` is the order of the timers in the code and that they are short beside a turn of the clock.

Of the walk, `WalksCoverRange` and `UndisturbedWalks`. The loop of `janusCoprimeStride` ends with a stride that is
coprime with the range or with 1 (`CoprimeStrideFacts`); steps of a coprime stride do not return before they have
been everywhere (`CoprimeReturns` and `CoprimeWalk` of Basics); the loop of `bitReverse32` loses no bit
(`ReversalOfBits`); the two arms of lane 3 do not meet (`CenterOutFacts`). So two hashes of one lane are at two places
of the range (`StepFacts`, lane by lane), a sum with the phase keeps them apart (`SumCancels` of Basics), and as many places as
the range has are all of it (`AllValues`). `WordAssumption` and `SliceAssumption` are the widths of the words and that
three ranges fit into them; nothing is assumed about seeds, masks, sectors, arms and the twin's packets beyond it.

**WorkersProofs** (GladiusJobs, GolcronNode). `ShareNamesItsWork`: every writer of the job leaves the globals in
agreement (`GlobalsInv`), so the miner's copy is of one packet (`CopyOfOne`), and so is what was sent (`SentInv`),
although another task may have reset the cursor in between: the index is checked after it was read.
`NoNonceIsRepeated`: what Golcron has hashed is, slice by slice of the path and step by step of the running slice, what
`GolcronInv` says, wherever packets and replans fell; a replan keeps the slice that runs, and slices that are done are
never ahead on the path.

**Basics** holds what the others cite: facts about `%` and `\div` (`DifferenceModulo`, `AgeGrows`, `SameModulo`,
`Division`), about numbers (`LeastNumber` and, from it, `Induction` over a set of naturals), the existence of a function
that is defined step by step (`StepsExist`, by which what a loop computes can be reasoned about), and walks of a
coprime stride. The theorems on induction of the library take an operator as a parameter, which these provers cannot
give them; a set of naturals does as well.

Every invariant and every step property (`[][…]_vars`) of the passing runs is proved. Only model-checked: the
liveness properties `EveryCallReturns, LockIsFreed, EverySliceEnds, QueueIsServed, DeferredClearHappens, BuzzIsFound`,
because fairness and ENABLED are out of the prover's reach. The proofs are about each component's own specification,
which the sums `MCTools`, `MCNodes` and `MCBuzz` run one at a time.

## 7. Where the code and its promises disagree

1. **stale_renewal** – `renew` judges staleness with the `now` its caller read before `BEGIN IMMEDIATE`
   waited for the lock. A lease that expired during the wait is extended by its old holder, against "Once a
   lease is stale, it is not revivable by its old holder."
   (`tools/habitat_objective_lease_fencing.py:134`). `LiveLeaseIsKept` and `LeaseLapsesWithinTtl` still hold:
   the renewal harms nobody who already took over, and delays the lapse by at most a ttl.
2. **spiral_genealogy** – a derivation from an unknown parent raises after the ledger was written. The turn has
   no node, and every later turn of that entity is refused, against "EVERY_SPIRAL_TURN_HAS_GENEALOGY"
   (`tools/swarm_genome_ledger.py:17`).
3. **nonce_walk_split** – a J/T packet in the middle of a range moves lane, sector, stride and offset and keeps
   `hashesDone`: nonces are hashed twice, and others never, against "without that repetition"
   (`firmware/anchor/Anchor_part_03.ino:3-6`).
4. **p4_frame** – `emitJP4Frame` sends the best digest, which may be of an earlier job, of another role or have
   the peer's job mixed in, together with the job's seed and the role of now
   (`JANUS_P4_DUAL_SWARM_CORE_v1_1.ino:600`). The peer hashes other inputs and counts the frame as failed, against
   "Verifies peer frames" (`README_P4_DUAL_SWARM_CORE.txt:13`).
5. **gladius_self_proof** – `sendSharePacket` asks the globals whether a proof is of a self job
   (`Gladius.ino:4276`), not the copy that was hashed. If a job of Buzz or Core replaced the self job during the
   batch, the self proof is broadcast as `G/S`, against the comment at `Gladius.ino:4301-4302` that it is not sent.

Two observations that no run refutes, because the repository promises nothing that is precise enough. A lease id's
only varying ingredient is the caller's clock: release and acquire at one reading give the released id again,
whereas `.janus/OBJECTIVE_LEASE_FENCING.json:50` has "OLD_FENCING_TOKEN != CURRENT_OWNER"; `OldTokenFailsFence` and
the refinement therefore assume that readings differ. And Buzz's handshake timeout asks for `extranonce1`
(`Buzz.ino:5590`), which a new connection does not clear (`5271`): what an earlier connection left counts as this
one's answer. `SilentLinkIsDropped` shows that the other watchdogs still drop such a link.

## 8. What is not modelled

- Display, sound, LEDs, SD logging, telemetry text, games: no shared control logic.
- Signal processing and scores in floating point (Blind Eye, scheduler scores, RF sensing): out of TLC's
  reach, and only hints to what is modelled.
- `tools/assemble_swarm_sketches.py`: concatenates files. Vendor drivers of LCDs and touch panels. Legacy
  sketches, and the sketches of Stick, Zim, Blackhole, Beacon, Pyramid, Yaks Gate and TRON: the job and radio code
  they share with Anchor is modelled there, and each of them is a large part display and sensors. Core2 and ADV
  Elite are consoles. These files are most of the lines of the repository.
- SHA-256: a digest is its input, or a nondeterministic ticket.
- TOPA: a pure table of rules without state.
- HabitatClient: checkpoint file, receipts, polling and back-off. `DurableState.save` truncates the only copy before
  it writes it, and a property about that would restate the order of two calls.
- Buzz: table of workers, its own hashing, submission of shares, commands. Gladius: lanes and learning, twin, radio
  watchdog. Golcron: status packets, the older golcron_astrolabe sketch. Anchor: Wi-Fi scheduling, telemetry. P4:
  peers and anchors, the link to the bridge.
- Within modelled parts: argument validation (callers pass legal arguments), `to_dict`, `save` and other
  output, outcome names and lessons of turns, the anchor text and manifest checks of the face buses.
- What the client does after an exception of a failed COMMIT: `TxnFails` models its state, but the repository
  promises nothing about it.
- Three things GladiusJobs does and no property speaks of, because nothing in the repository does: a queued slice
  that is old may be promoted over newer work (`Gladius.ino:4618-4622`), the reset of a cursor may be lost
  (`5010`), and a self job may replace a job of Buzz that arrived after the status task looked.

## 9. Plan

What is left, the most important behaviour first. A project of this size has room for no more runs than it has, so a
new module joins one of the sums.

1. **Buzz's table of workers** in BuzzColony: heartbeats, the ageing of nodes, which of them get a range; then the
   composition with AnchorJobs as the worker.
2. **HabitatWorker**: poll, back-off and receipts over HabitatClient.
3. **Radio of Gladius and Golcron**: variants of AnchorRadio.
4. **Topa** and the policy headers of ADV Elite as pure operators against a reference definition.
5. **Proofs**: that the queue of Anchor and the lock of the colony make progress, as far as it can be said without
   fairness (a measure that each step of the loop reduces); then the refinement of an abstract master, which cuts
   disjoint ranges of one job, by BuzzColony.
