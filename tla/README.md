# Verification of screen-airdrop

screen-airdrop transfers a file through a screen: a sender shows the file as a
stream of visual frames, over and over, and a receiver on the other side of a
remote desktop captures the screen, locates and decodes the frames and puts the
file together again. There is no way back from the receiver to the sender.

This directory holds TLA+ models of the parts of that program whose correctness
depends on order, interleaving, loss and damage, the TLC configurations that check them
on small instances, and TLAPS proofs for instances of any size. Paths below are
relative to `src/screen_airdrop/` of the repository.

## 1. Inventory

### The sender

| Part | State | Operations | Hard about it |
|---|---|---|---|
| packing, manifest (`common/packing.py`, `manifest.py`) | none | archive, compress, hash, restore | archiving with gzip twice gives two payloads |
| generation planner, unit and coded builders (`sender/information`) | none | cut the payload into generations; systematic units; linear combinations over GF(256) | windows of unequal size; equations only where all chunks have one size |
| frame stream (`sender/application/frame_stream.py`) | a generator: place in the epoch | chunk size, form of the manifest; sync, controls, data, end frame; next epoch | data frames do not name their generation, so their place after its control frame matters; what does not fit a frame |
| playback, controller (`sender/application`) | current frame, paused, generator | show, pause, reset, rebuild at the end, dump | commands interleave with the end of the stream; the names of dumped frames order them |
| transports (`sender/transport`) | none | frame to image: format strip, header, payload under a mask | what is cut off when it does not fit; what the receiver can read back |

### The live receiver

One grab process (bridge thread, grab loop, two copy threads), optionally one
prep process, several decode processes and a coordinator thread with an asyncio
loop share a pool of frame slots in shared memory. Nothing locks a slot: who may
touch it follows from who has its token or descriptor. The simulated pipeline is
the same runtime with a grab process that loads frames from a directory.

| Part | State | Operations | Hard about it |
|---|---|---|---|
| slot manager (`receiver/runtime/slot_manager.py`) | per slot: state, generation, owners, dump count; free list | allocate, overwrite oldest, fill, release, assign, complete, dump, reclaim | releases in several orders, descriptors of any age |
| grab process (`runtime/workers.py`) | token prefetch, copy queue, capture index | bridge, grab, copy by a thread or inline, announce | torn pixels, reordering, a copy thread that dies |
| simulated producer (`pipeline/simulated_live.py`) | place in the directory | wait for a slot, load, announce, wait for the end | a get without a timeout |
| prep (`runtime/prep_strategy.py`, `workers.py`) | last fingerprint | fingerprint in a task or a process | blocking submit, bounded queues both ways |
| coordinator (`runtime/coordinator.py`) | round robin, last fingerprint | handlers of grab, prep and decode events; dispatch of free slots | handlers of different tasks on shared state; a full decode queue; stop at any time |
| decode workers (`workers.py`) | decoder | reuse geometry or locate, decode, answer | answers late and out of order |
| geometry state machine, region (`receiver/locator`) | lock mode, geometry, generation, failure streak, region | propose, success, failure | proposals outdated when they arrive; a lock that is wrong; a region that no longer covers the symbol |
| start and stop (`receiver/pipeline/live.py`) | stop events, shutdown lock and flag, done event, error | start, stop, join, check_errors, shutdown | two threads shut down; sentinels on full queues; errors published late |

### What all receivers share

| Part | State | Operations | Hard about it |
|---|---|---|---|
| assembler, stores (`receiver/information`) | chunks, count, manifest, generations, active generation, per generation: symbols, equations | add control, add unit, complete, payload | context from the last control seen; recovered symbols; counting |
| solver (`receiver/information/solver_state.py`) | symbols, normalised equations, rank | ingest a symbol or an equation, eliminate | exact recovery from any order; conflicts; exceptions |
| replay pipeline (`receiver/pipeline/replay.py`) | sequence number, task and result queue, reorder buffer, counts; in the stateful mode a grid | read, submit, collect, commit in order, drain, stop | blocking reads after stop, workers that die, files that cannot be read |
| runner (`receiver/pipeline/runner.py`) | timers, last counters | monitor, time out, restore, stop, join, exit | completion against timeout; a completed count that is not a restorable payload |
| locators (`receiver/locator/basic.py`, `compact.py`) | none | regions, finders, boxes, warps, confidence | grounds, borders and decoys that look like the symbol; attempts in order |
| decoders (`receiver/transport`) | centres of the grey levels by mask | format, header, payload; calibration; retries | damage spread over copies; torn pictures; light; what an earlier frame taught |
| result mapping, coded envelope (`receiver/transport/result_mapping.py`, `common/transport/coded_payload.py`) | none | frame to unit | envelope recognised in-band |
| reporting, debug, region selection, command line | | | formatting, interaction |

How they interact: tokens and descriptors travel through queues (`_grab_slot_queue`,
`_grab_event_queue`, prep in and out, one assignment queue per worker, one result
queue); the coordinator calls slot manager, geometry tracker and assembler
directly; each assignment carries a snapshot of the geometry; the replay thread
and its pool share a task and a result queue; the runner polls the assembler; stop
is an event plus sentinels.

`PROJECT.json` lists every component with its status, and every hazard at its
line with the properties that would catch it.

## 2. Modules

| Module | Models | Checked in |
|---|---|---|
| `SlotRegistry` | what the slot manager's methods do to a registry, as operators on its value | |
| `SlotManager` | the registry under arbitrary clients: one action per method | `MCSlotManager` |
| `FrameCycle` | abstract: the life of a captured frame, without queues or threads | as a property |
| `LiveRuntime` | the live pipeline around the registry: queues, threads, processes, handlers | `MCLiveRuntime` |
| `GeometryTracker` | what the geometry state machine does, as operators | |
| `LiveGeometry` | the tracker in the live pipeline, with workers that answer late and a symbol that moves | `MCLiveGeometry` |
| `FiniteField` | field arithmetic by exponential and logarithm tables | |
| `GenerationSolver` | the solver of one generation | |
| `SenderStream` | the frames of an epoch, and their order when dumped and read back | |
| `Assembler` | assembler, stores, acceptor and decoder, as operators on its value | |
| `Receiver` | the variables every pipeline works on | |
| `Transfer` | sender, lossy channel, decode lanes and assembler end to end | `MCTransfer`, `MCSession` |
| `InOrder` | abstract: recorded frames given to the assembler one by one, in order | as a property |
| `Replay` | the replay thread, alone or with a pool of workers and a reorder buffer | `MCSession` |
| `Session` | the receiver program: runner, exit, and `Transfer` or `Replay` beside it | `MCSession` |
| `Shutdown` | how a live or simulated session ends: runner, coordinator, children, bounded queues with their sentinels | itself |
| `Wire` | headers, check sums, repetition, Reed-Solomon, the coded envelope, frame to unit | |
| `Painter` | chunk sizes, forms of the manifest, and what the four encoders paint | |
| `Locator` | the locators, over classes of pictures | |
| `Reader` | the four decoders: format, header, payload, calibration, retries | |
| `Decoding` | a decoder at work on one picture after another, with what it remembers | `MCDecoding` |
| `SlotRegistryProofs`, `SlotManagerProofs`, `LiveRuntimeProofs`, `LiveGeometryProofs`, `ShutdownProofs`, `SessionProofs`, `DecodingProofs` | theorems | |
| `RecoveryProofs` | lemmas: the field, elimination, the solver, the sender's stream | |

Definitions that begin with "A defect:" in their comment are not part of any
specification. Each is a plausible bug in one place, and a property is kept only
if putting the defect in place of the right definition makes TLC refute it
(`mutants` in `PROJECT.json`).

### SlotManager

A method of `slot_manager.py` runs under its lock and is one action. Each works
on a registry value, so that the same operators serve here, where any client may
call anything with any descriptor, and in `LiveRuntime`, where the real
handlers call them. Dumps are modelled although the present
coordinator never requests one. Reclaims iterate over the slots in pool order; the
model leaves the order open.

### LiveRuntime

A slot travels as an item through channels: the real queues, and a channel of
capacity one, a "hand", for what a thread is working on. The registry says what
the coordinator believes of each slot and `pixels` what its memory really shows
(None while a copy is under way). Handlers are atomic because they run on one
asyncio loop and only `submit` awaits; that await is the channel `Submitting`.
`AsyncPrep` chooses between prep as a task and as a process. The queue from
coordinator to grab process and the hand of the bridge thread are one channel.
`stop()` comes at any time; a coordinator task that had fetched an item
by then still handles that one (`lastTurn`). A decode result is fetched and handled in two
steps: between them (the hand `Answering`) the frame callback reads the slot's pixels, from
the coordinator's loop, and `FrameIntact` wants them whole until then. Any copy may raise,
which ends its thread; once all copy threads are gone, what is in the copy queue is
`Stranded`.

`FrameCycle` is what all this is for: a frame is decided on once, delivered at
most once, and its slot is rewritten only afterwards. `ImplementsFrameCycle`
states the refinement, with the state of a slot in the registry as its stage, and
`CompletesFrameCycle` adds progress.

### LiveGeometry

A geometry fits the position it was measured at; a region of interest is the area
of the screen it covers. The coordinator hands out what the tracker knows with
each frame (`Assignment`), and a worker that has a geometry uses it while one that
has none searches the region. Decoding, the result queue and the handler are one
step: what a worker answers is determined by its assignment, and the assignment
counts against its queue until then. Any worker with room may be chosen. This is
the layered protocol, the only one that proposes geometries.

### Transfer

The sender repeats its epoch. A frame shown is captured any number of times or
never, which covers frame rates, bursts, realizations, duplicate detection, drops
and undecodable frames alike. Frames are decoded in lanes that overtake each other;
one lane keeps the order. Sync, session and layout frames are left out (recovery
reads nothing from them). At the end of a bounded stream, and when the user presses R,
the sender builds its stream anew, which with gzip gives another payload for the same
files (`build`, `plans`). An exception out of `add_unit` ends the decode
task: `error`. The field has four elements instead of 256 (of characteristic two,
with the same tables and formulas); a coefficient is a fixed function of seed, size,
degree and index; a payload is a size and a value.

### Replay and InOrder

A frame is its place in the recording, which holds legible and illegible frames and
files that cannot be loaded. The replay thread's loop is split where it blocks or
decides: reading a frame and putting its task, leaving the inner loop, taking a
result, each turn of the commit loop, the drain, the sentinels and the joins of the
`finally` clause. `pending`, `held` and `committed` are `pending_count`,
`pending_results` and `next_commit` (as long as the loop reads it). A unit that the solver refuses
raises after the acceptor and the solver have recorded it: a repetition is then a duplicate, which
is stored as a chunk without a word. The sequential pipeline goes on with that record, the pool
is ended by the error. A worker takes a task, answers, leaves on a
sentinel, or is killed from outside (`Die`).
The sequential pipeline is the same thread without the pool (`parallel`).

`InOrder` is what a pool must not lose: frames are given to the assembler in the
order of the recording, one at a time, until it is complete. `CommitsInOrder` is the
refinement; the refused unit that makes the pool raise is the last that was given. `DumpOrder`
(in `SenderStream`) is the order in which dumped frames come back: by name, which puts
the generation controls last, after every unit, and with one realization of each frame
the manifest after the units too. With one generation this still completes
(`WholeDumpCompletes`), since units that come before any generation control are numbered
as the first generation's; with several generations in one dump they all are, and
the replay never completes.

### Session

The runner's loop beside either pipeline. A round is two steps (`Test`, `Watch`),
because `_check_timeouts` compares before the counters of the same round are
read. Time passes in ticks of a second between rounds of a tenth; only
`max_idle_seconds` of a replay is set here, and the timeouts of a live session are in
`Shutdown`. `Restore` is `payload()`, which wants the chunks 1 to total, and the
digest of `restore_payload`. An interrupt comes in the loop and not twice: a second
one during the clean-up aborts it. The program exits when its worker processes have,
the replay thread being a daemon. A replay that has read everything without
completing ends only by the idle timeout.

### Shutdown

Two threads: main (`PipelineRunner.run`, then `stop` and `join`) and coordinator
(event loop, then `_shutdown_processes`), with their places in `pc`. Queues hold
frames, error events and sentinels and have a capacity; a thread that found its
queue full and now waits in `put` is in `blocked`, and so counts on a reader. A
child is idle, waits for a slot, holds an item it must put, or has exited. Prep is a
process or not and the grab process captures or loads frames from a directory
(`simulated`), both chosen in `Init`. A simulated producer looks at the stop event
between frames and otherwise waits in `get` for a slot; the sentinel that follows the
event wakes it. What the run of the loop does to slots is in
`LiveRuntime` and left out here, as are the pipes without a bound (slot tokens,
dumps).

`_shutdown_processes` is taken in five steps: enter under the lock and the flag,
sentinels, the wait that ends with the first exit or after two seconds, the signals, and
the reaping with the clean-up. A signalled child is assumed to exit before the
last `join` gives up, which SIGKILL makes true. `check_errors` is two steps, because
the coordinator may act between its look at the stop event and its look at the
exit codes. One child may crash, wherever it is. An item that a polling thread of
the executor takes after the loop has ended is left out: it is handled by no task.

### Wire, Painter, Locator, Reader, Decoding

Both ends of the optical channel without pixels. A plan (protocol, ECC level, grid,
fill ratio) gives the sizes, which are computed exactly as the code computes them;
an encoded frame is a symbol with three regions, format strip, head and body, each
with its mask and what it carries, or nothing where the encoder cut it off. A picture
is a symbol (perhaps torn: rows of the next frame above those of the last) and the
four grey levels its inks have on the screen; the damage in each region is the number of
spoilt copies of the worst bit or of spoilt bytes in the worst block; one cell may be a
`speck` of an in-between level. How it is framed is a `scene`: shape, ground,
finders, place, region of interest.

The locators decide over scenes: each detector finds the symbol's outline, the
inside of its quiet zone, the finders' centres, something else or nothing, and the
grid is aligned when the warp takes the corners for what they are (`Warped`). The order
of the attempts, the engines and the fall-backs are the code's. The decoders then
compute: votes among copies, thresholds half-way between centres, the calibration's
averages, the doubtful symbols and the search among variants. Check sums accept
exactly what they were computed from.

`Decoding` takes one picture at a time and keeps what the program keeps: the centres
learned from sync frames (`cache`) and, in a stateful replay, the grid and the streak
of failures under it. Its locator is given no region, so `roi_then_expand` never expands.

What the model shows of the code beyond its properties, each visible in a definition:

- Sync quadrants are painted under the mask and averaged without removing it
  (`SyncCentres`), and every mask inverts a third of the cells or more, so the centres
  learned never read a clean frame. Nothing is lost because both decoders also try other centres
  (`MemoryNeverHurts`); for a doubtful symbol gray4 searches from the last variant,
  which is the learned one, and there the property makes its one exception.
- gray4's search returns its first trial (`SearchReads`), and its vote on the format wants all three
  copies; the exhaustive search over masks and ECC levels makes up for that.
- A basic or compact grid whose strip has no room for two copies of the format is
  read as mask 3, ECC Q (`BinaryFormat`); such a grid is too small for the smallest
  manifest at Q, so no sender starts with it.
- Only the manifest is fitted to the frame (`ManifestForms`). Other control items that are larger
  are cut off, and in layered refused by an exception (`EncodeRefused`).
- A plain chunk that begins as the envelope does is taken for one; of at most 20 bytes it is
  malformed and never delivered, a last chunk "S" for instance (`Malformed`).

## 3. Runs

| Run | Question | Bounds |
|---|---|---|
| `slot_manager` | Does the registry stay consistent under any client? | 2 slots, 2 copy threads, 2 decode workers, 2 captures, generations up to 4 |
| `live_async` | Are slots conserved, descriptors current, frames intact with prep as a task, and is a frame's cycle kept? | 3 slots, 2 decode workers, 2 copy threads, 4 captures, all queues of capacity 1, any copy may raise |
| `live_process` | With a prep process: are frames intact, can back-pressure wedge the ring, is every accepted frame delivered? | 3 slots, 1 decode worker, 2 copy threads, 4 captures, capacity 1, any copy may raise, fair threads |
| `live_leak` | Is every assigned frame decoded? (violated) | 3 slots, 1 decode worker, 3 captures |
| `session` | From screen or recording: is what is restored what was sent, is recovery exact and complete, does the pool keep the order, is idleness real, does the program end? | payloads of 2 to 4 chunks, 1 or 2 generations, 1 or 2 lanes, 2 builds; recordings of 3 or 4 frames or a whole dump, 2 workers, 2 pending, 1 killed, idle limit 1 tick |
| `decode` | Is only what was shown decoded, does memory or the automatic locator ever cost a frame, do clean frames come back? | every protocol, 13 plans, engine and mode; see below |
| `transfer_join` | Do chunks find their places when joining several generations midway? (violated) | 3 chunks, 2 generations |
| `transfer_recovered` | Does all that is recovered become chunks? (violated) | 3 chunks, 3 equations |
| `live_geometry` | Is the lock fresh, robust against noise, dropped when wrong, found again? | 2 positions, 2 workers, threshold 2, 2 moves, 3 noisy frames |
| `live_geometry_lost` | Also when the region does not cover the symbol? (violated) | the same |
| `shutdown` | Does every session end, and does `join` leave nothing? | 2 frames, capacity 6, screen with prep as a process or not, simulated with prep as a task, one crash |
| `shutdown_full` | Also when queues are full? (violated) | 3 frames, capacity 2 |

Why small instances say something: with every queue of capacity one and fewer
slots than places, every queue is full in some behaviour and every overtaking
that two workers or copiers allow happens; a third worker or slot adds no new
pair. Four captures let a slot be reused while older descriptors are still about.
Three chunks with up to three equations of degree two or three have every rank and
every order of arrival of symbols, equations and controls; an unequal last chunk
exercises the size checks; four chunks in two generations exercise the change of
generation with coding on. Two moves and a threshold of two let a lock be won, lost
and won again while answers from before are outstanding; noise is bounded so that a
decodable frame is decoded sooner or later.

In `session` the pool has two workers and two pending tasks (the code has four
per worker): the task queue fills, results overtake each other and the buffer holds
more than the next one to commit. With `max_pending` at least the number of workers the
same places of the loop are reached. The recordings hold two builds of the stream, an
illegible frame, a file that cannot be read, and (in one recording of a payload rebuilt with another
chunk size) a unit that is refused and repeated. One worker may be killed while idle or
decoding, and the user may interrupt once, before a verdict. The reorder
buffer itself is not bounded by `max_pending`: a slow first frame lets the thread collect and
submit on. A whole dump is one epoch of one generation, with one or two
realizations of each frame.

In `decode` the plans are real ones: sizes are those of 160x96, 120x72, 100x61, 80x68
and 168x60 grids and of manifests of 382, 308 and 207 bytes in their three forms; a
48x34 grid is one no manifest fits, and the sender refuses it. The frames are one
sync, the manifest, a generation control, two full chunks, a coded chunk, a last
chunk of one byte, and the end; the session is a number too long for layered, which takes
its tag for it. Pictures are taken of each frame in seven kinds of light
(plain, brighter, dim, stretched, inverted, two nearly flat ones, of which the flatter is below every
threshold of the decoders and the other only below that of gray4's k-means), of four pairs torn in each way, of each frame
with damage on either side of every limit (7 and 8 spoilt bytes for a bootstrap that
corrects 7, 4 and 9 for bodies that correct 4 and 8, three and four hit bits for a
header guessed up to three among the twelve most doubtful, one hit bit that is not among them), and of
one chunk in every scene. The threshold is 2 for 5, which only decides
how many failures a lock outlives.

`Captures`, `MaxMoves`, `MaxNoise`, `MaxFrames`, `MaxDeaths`,
`MaxIdle`, `SimulatedPrep`, `Setups` and `Pictures` are bounds of the models; in `LiveRuntime`
the session may end when the captures are used up (`Finished`), in `Session` when the program has
exited or its replay thread is starved (`Rest`), and in `Shutdown` when the
program has exited; `LiveGeometry` and `Decoding` never stop. In `shutdown` a queue gets at most two frames and,
from `stop`, `join`, one shutdown and a completing decode task, four sentinels: a
capacity of six always has room, one of two does not. `shutdown_full` is checked
without the test for deadlocks, since a deadlock is what it shows.

### What holds only under conditions

- `SlotsComeBack` leaves out the slots that were leaked at a full decode queue, lost with a copy
  that raised, or are stranded in the copy queue because every copy thread has died. Nothing
  catches what a copy raises and nothing restarts its thread (`workers.py:332-370`): a changed
  frame size kills both threads, one slot each, and then every job left in the copy queue, or put
  there later, keeps its slot. The copy threads are as many as in the code and each may die; with
  three slots two lost and one stranded are the whole ring, which then stands still.
- An orderly session (`Orderly` in `Session`, for `OrderlyChunksAreRight` and the three
  properties like it): one build of the stream, shown on a screen; of one generation with any loss, any point of joining and frames overtaking each other. With
  several generations it is a receiver that joins at the start, decodes in order and
  captures one frame of every burst of generation control, because without these the
  program stores chunks in wrong places (`transfer_join` shows one way). In sessions
  that are not orderly `RestoredIsSent` still holds: a wrong payload does not pass the digest.
- A whole dump (`WholeDump`, for `WholeDumpCompletes`): a recording of one epoch of one
  generation, all of it legible, in any order and with any repetition.
- `SessionEnds` of `Session`: a replay thread that waits for a result no worker will
  give keeps the program for ever (`Starved`; `replay.py:295`). That happens when a worker was
  killed, or when the stop event is set with nothing outstanding.
- `IdleMeansIdle` lets one frame slip: one decoded since the last round is counted
  only after the comparison.
- `PendingIsExact` counts while no worker was killed.
- `Reacquires` passes where the box of a decoded frame covers the symbol.
- `SessionEnds` of `Shutdown` passes where no queue is full when the session ends.
- `AutoIsNoWeaker` is about compact and gray4; layered never retries.
- `CleanFramesComeBack` names its exceptions in its comment.

## 4. Disagreements between code and documentation

Each is one run with the expectation `violation` and an entry in `findings`.

1. `live_leak`: a frame that finds its decode queue full keeps its slot in decode
   for ever (`coordinator.py:460`). The loss is bounded: `LeakFloor`, proved, says a
   full queue's worth of slots always remains in circulation.
2. `transfer_join`: joining midway puts chunks of a later generation in the places
   of the first, where they stay (`assembler.py:182`).
3. `transfer_recovered`: symbols that a systematic unit makes recoverable are never
   turned into chunks (`assembler.py:206`).
4. `live_geometry_lost`: the search region is computed from a box in the warped image
   and kept after the lock is lost, and nothing falls back to the whole frame
   (`transport/layered/decoder.py:509`, `locator/state_machine.py:239`).
5. `shutdown_full`: a sentinel for a full queue is put with a blocking `put`
   (`pipeline/live.py:126`), when the only reader has left or before any child is
   terminated; both threads then wait for ever.

## 5. Fairness

- `LiveRuntime`: weak fairness of each thread's next step. Every one of them is a
  loop around one blocking or polled queue operation. Nothing is assumed of the
  screen, of copies that raise or of the dedup decision.
- `Transfer`: the sender's timer ticks, decoding ends, and if news (a frame with
  something the assembler lacks) is shown infinitely often to a running receiver,
  some is captured infinitely often. Losing everything for ever is the only thing
  excluded; which frame gets through is not assumed.
- `Session`: of a screen what `Transfer` asks; the main thread goes on, the clock
  ticks, and the replay as a whole goes on or has nothing left to do. No single worker
  is assumed to get a turn, and nothing makes a worker die or a user interrupt.
- `Shutdown`: each process and thread goes on with what it is about, and waits that
  have a time limit (idle timeout, `join`, the waits for children) end. Nothing
  makes the screen produce frames, a child crash or the transfer complete.
- `LiveGeometry`: capturing goes on, the coordinator hands frames out, each worker
  answers. That a decodable frame is not failed for ever comes from `MaxNoise`.
- `Decoding` states safety only.

## 6. Proofs

All theorems hold for every value of the constants that satisfies the named
assumptions: a pool that is not empty, numbered workers, capacities of at least one, a
threshold of at least one, generations of at least one symbol; `None` is neither a number
nor a verdict; and of the sessions (`SetupsAssumption`, `SessionAssumption`) that their plans are
plans of the sender, that decoding has at least one lane, that a recording is a sequence
of items, and that a legible one of these shows a frame of a build of the stream, since
a recording is made of what was shown. The field is the one with four elements. Of
decoding (`DecodingAssumption`) they assume that the numbers of a plan are numbers
and a manifest has more than one byte; that a frame of a plan's stream is a sync, an end or a
chunk no larger than planned, a coded unit in its envelope, the manifest in its planned form,
or another control item of any size (`FrameOK`); and that a picture shows one painted symbol,
or one torn between two frames of a session (`PictureOK`), under any light and damage and in
any scene. The `decode` run evaluates the assumption on its plans and pictures.

- `SlotRegistryProofs`: what each registry operator preserves. `RegistryOK` is
  the invariant: records well-formed, owners in order (`SlotOK`), and the free list
  a repetition-free list of exactly the free slots. A release, however it comes
  about, replaces one slot and puts it in the list once (`ReplacedOK`).
- `SlotManagerProofs`: `RegistryOK` is inductive for every method, hence `TypeOK`,
  `FreeListExact`, `OwnersMatchState`, `NoOrphanInDecode`; and `GenerationLivesOnce`
  from the order of the states (`Later`).
- `LiveRuntimeProofs`: `IInv` says of registry, channels and pixels together that
  every item agrees with its slot (`ItemOK`, which depends on the channel), that no
  two items name one slot, that a lost or leaked slot has no item, that every slot
  is accounted for, and that the free list is empty while the session runs.
  `DescriptorsCurrent` alone is not inductive: a handler is right only because no
  second descriptor for its slot exists anywhere else. Every step takes an item
  from a channel, changes one slot and puts an item for it (`StepOK`), or gives the
  slot back and hands it out (`ReturnOK`). From it: `TypeOK`, `SlotsTravelOnce`,
  `DescriptorsCurrent`, `FrameIntact`, `FilledFramesKept` and `LeakFloor`. The refinement `ImplementsFrameCycle`
  needs of the captures in flight that no two items carry the same one, that each is below the
  capture index and that none was delivered before; then every step of a handler is a
  step of the frame it holds, and every step that touches no frame a stutter.
- `LiveGeometryProofs`: the invariant adds to the properties that no assignment is
  ahead of the tracker's generation (`NoneAhead`) and that the streak counts only
  remembered failures (`StreakIsRecent`). Since the generation grows whenever the
  geometry changes, no assignment already carries the next generation.
  From it: `TypeOK`, `GeometryIsFresh`, `GenerationNamesGeometry` and
  `OccasionalFailuresKeepLock`.
- `ShutdownProofs`: the invariant adds that a shutdown begun and not at work has
  cleaned up (`OverIsClean`), that nothing is cleaned up under a living child
  (`CleanIsDead`) and that a thread is done only when it is clean (`DoneIsClean`). A
  thread that enters late finds the flag set and the lock free, hence all cleaned;
  reading the flag without the lock breaks exactly this. From it: `TypeOK`, with the
  bound of the queues and the holder of the lock, and `JoinLeavesNothing`.

- `SessionProofs`, first of the replay by itself: `CommitsInOrder` needs to know only that what is committed lies within
  the recording and before completion; that nothing is left behind needs the places
  of all frames. The invariant says that a frame on its way is in one place, a queue, a
  worker or the reorder buffer, has been read and is not committed (`InOnePlace`); that
  frames read are committed, held or pending, and that `pending` is at least, and
  without deaths exactly, what is queued, being decoded and answered (`Counted`). When
  nothing is pending the buffer holds all that was read and not committed; the next to
  commit is not in it; so there is nothing (`NothingHeld`). A killed worker's frame
  stays pending for ever: that run starves, but never ends early. `asm` is opaque in
  these proofs: they hold for any assembler, and `InOrder` takes what it does as
  parameters (`Given`, `Done`).
- `RecoveryProofs`: what recovery rests on, for payloads, windows, redundancies and degrees
  of every size. The laws of the field follow from its tables; a sum is two
  parities, one per bit, so that linearity needs no induction over terms.
  *Sound*: an equation is true of a generation when every vector that agrees with the
  generation's symbols satisfies it. Moving known sources to the right-hand side, dividing and
  cancelling keep it true (`Passed`, `WithPivotRow` and `Reduced` in steps), so a pivot row with
  one unknown left gives the symbol that was sent: `GenerationOK`.
  *Complete*: the pivot rows are in echelon form (`Echelon`) and say all the equations
  say (`PivotRowsComplete`). A pass that recovers nothing leaves nothing to recover, and there are
  as many passes as symbols, so a solver ends `Settled`: no pivot row has exactly one unknown
  left. If it lacked a symbol, the last one it lacks could be given another value and the
  lower ones solved for it (`Undetermined`): it was not determined.
  *The stream*: every frame of an epoch belongs to the generation announced last before it,
  every coded unit is an equation over that generation's symbols, and every chunk has a frame.
  Loops of the solver are described by their runs, and what is proved of a run goes by
  sets of numbers closed under a step (`Upward`, `RunStays`), from the well-foundedness
  of the numbers.
- `SessionProofs`, then of whole sessions, from five invariants.
  What the main thread and the clock do to the replay is `start()`, the stop event
  or nothing (`StepOfReplay`), and a session over the screen leaves it alone
  (`Untouched`), so what holds of the replay holds of whole sessions: `ReplaysInOrder`,
  `PendingIsExact`, `NothingLeftBehind`.
  `ClockOK`: while no progress is unread, the idle time is ahead of the true one by a round at
  most; hence `IdleMeansIdle`.
  `OInv`, of orderly sessions: chunks at their places, as many as are counted,
  announced generations with a solver of their size, and every solver right and settled
  (`AsmOK`). With several generations a unit must meet its own as the active one:
  while no control is missed and results keep their order, units shown or in flight
  belong to the generation heard of last (`Followed`). From it the four `Orderly` properties.
  `RInv` and `VInv`, of every session: what is captured or recorded is a frame of some build,
  hence the digest is one of a payload sent, and what passes it was sent (`RestoredIsSent`).
  `WInv`: what was committed of a whole dump is kept (`Kept`). A replay that ended without
  being stopped or complete has committed all of it, so every chunk is there and the count
  is the total: `WholeDumpCompletes`.
  With the types of what a session over the screen never starts (`TInv`), `SessionTypeOK`.
- `DecodingProofs`: every decoder, with its retries, is of one form: some grid it tries
  lies on the symbol (`Finds`), and then it reads what there is to read (`Reads`), because off the
  symbol nothing passes the check sums and on it every grid reads alike
  (`FindsAndReads`). `DInv` says that a kept grid lay on the symbol, that the result
  is what is read with what was remembered before, and that a failure teaches nothing; the last
  makes a comparison with the *current* memory, as `AutoIsNoWeaker` does, one with the memory then.
  `AutoIsNoWeaker`: the automatic engine tries the legacy grid or has nothing else.
  `MemoryNeverHurts`: remembered centres are one more choice among those tried
  (`CentresTried`), so what was read without them is read with them; a doubtful symbol
  in gray4 is excepted, since its search starts from the last choice.
  `OnlyWhatIsShown`: header and payload were painted, each of some frame
  (`SeenWasPainted`), and the check sums of the two agree. In layered the body has its own, so a
  torn picture shows a chunk under another frame's bootstrap; type, tag and length agree.
  A search confined to a region aside finds no box, no finders and no corners (`NothingAside`).
  `CleanFramesComeBack` in two halves. *What is planned fits*: a chunk size that a
  manifest fits is more than one, so with coding on the envelope has been taken off it,
  and every capacity formula leaves the encoder its room (`PlannedSizes`, `BinaryRoom`,
  `Gray4Room`); layered refuses what does not fit. *What is painted is read*: the fixed levels
  read the inks, no vote is outvoted, and the strip, where it is too short for two copies of the
  format, is not needed at ECC Q. The corners are found in any plain scene
  (`CleanCorners`), and the legacy boxes fit what they are taken for (`CleanBoxes`).

Only model-checked: all liveness (`SlotsComeBack`, `CompletesFrameCycle`, both `SessionEnds`,
`WrongGeometryIsDropped`, `Reacquires`), which needs fairness and ENABLED and is out of the
prover's reach. Every invariant and every refinement a passing run checks has its theorem.

## 7. Not modelled

- Image processing: contours, warps, sampling of cells, template scores. What it does
  is a class of the picture in `Locator`. Previews, probing for a geometry and debug
  images only inform the user.
- Statistics, reporting and metric events, which nothing reads back. Command line,
  configuration and interactive set-up.
- The dump worker, because nothing in the live pipeline requests a dump (the registry's
  side of it is modelled).
- The archive's format, compression and hashes: libraries. JSON of control items
  is its size.
- That sender and receiver agree on the grid is assumed: the layout's info block is read but
  without effect. `_try_centered_decode`, `locate_frame` and `force_reacquire` have no caller.
  The stateful replay's "geometry reacquire failed" cannot be reached: a locator that
  fails raises first.
- gray4 averages the cells of a sync frame after a header of ECC Q's length whatever the
  plan's ECC; the model averages the quadrants where they are.
- An error reported late: a coordinator task's error is published only when the event
  loop has wound up (`live.py:545`); in `Shutdown` this delay has no length.
- A duplicate test that remembers a frame before its assignment fails on a full
  queue (`coordinator.py:399`): frames are captures in `LiveRuntime`, without contents.
- The number of epochs of a player that is not dumping: it rebuilds at the end of a bounded
  stream, so the bound holds only for dumps.
- The benchmarks and tools of the repository.

## 8. Plan

1. Prep with frame contents, for the hazard at `coordinator.py:399`.
2. What `LargestPayload`'s binary search finds. It is a recursion over data and out of the
   prover's reach; that it is the largest body that fits is evaluated for the plans of `decode`
   (`LargestBodyFits`), and a property over all small grids could say more.
