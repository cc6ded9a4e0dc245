# Formal models of DreamGPU

TLA+ modules of the parts of DreamGPU where order, failure and concurrency decide
whether it is correct, TLC configurations that check them on small instances, and
TLAPS proofs for every value of the constants. Paths are relative to `src/`; in the
tables, to `src/crates/dreamgpu-host/src` for the host and `src/src` for the SDK.

Contents: 1 the system, 2 the modules and the code, 3 the runs, 4 what the runs show,
5 what is proved, 6 findings and observations, 7 what is not modelled, 8 plan.

## 1. The system

DreamGPU gives a Windows guest in QEMU an OpenGL driver and a 2D display driver whose
work a *host renderer* executes; an *SDK* in the application that embeds the emulator
shows the result.

| part | source | state | operations |
|---|---|---|---|
| engine batch queue | `submission.rs` | pending ring, running batch, completion ring, failed domains, reset flag and ticket | submit, take, run, complete, reset, reset snapshot / done, poll |
| device GL queue | `queue.rs` | consumed / completed counters, unfinished entries, failed domains, the page's device words | enable, disable, consume (doorbell), complete, reset, wait check |
| guest queue driver | `guest/include/dg-gl-queue.h`, `guest/nt/miniport/transport.cpp` | produced / reaped counters, owners, fault table, clients, watchdog state | OPEN, SUBMIT, CLOSE, process exit, kernel records, interrupt |
| GL command intake | `device.rs`, `gl.rs`, `gl_validation.rs`, `batch.rs` | registry of contexts and drawables, cache of a batch | capture, validate, enqueue; create, select, destroy |
| GL execution | `buffer.rs`, `occlusion.rs`, `lists.rs`, `pixel_image.rs`, `texture*`, `framebuffer.rs`, `state.rs`, ... | GL objects, name tables, budgets | one record after another, on one thread |
| desktop composition | `composition.rs`, `lib.rs` | epoch and sequence, coherence, progress of a sliced 2D batch | seed, patch, return, reset; execute a slice, save, restore |
| publication and outputs | `publication.rs`, `worker.rs` | export slots, output credits, CPU slots, desktop reply | claim, prepare, pending, publish, sent, release, abort; push, pop, done |
| SDK desktop transport | `transport/` | ordered desktop operations, retained images, retirement, CPU handoff | push, take, receive an image, reply, release |
| SDK presentation | `presentation/` | imported textures, canvas | import, draw, read back |
| SDK shared-memory display | `shmem/display.rs`, `server.rs`, `cursor.rs` | three frame slots, epoch, cursor mailbox | claim, lease, release, attach, poll |
| SDK input | `shmem/input.rs` | bounded event queue, barrier acknowledgements | push, coalesce, overflow reset, barrier, connect |
| guest installer | `tools/setup/` | journals, receipts, private copies, boot-time renames | install, upgrade, roll back, uninstall, resume |
| guest frontends and drivers | `guest/opengl`, `guest/nt/display`, `guest/win9x`, `guest/glide`, `guest/d3d` | contexts, packets, windows | GL calls, GDI and D3D entry points |
| build, packaging, tests | `crates/dreamgpu-build`, `scripts`, `tools`, `tests` | files | not part of the running system |

QEMU's device adapter, which owns the main loop, the render thread and the registers,
is a submodule that is not in this repository. It is modelled from how the code here is
called and what its callbacks say, and its definitions are marked external. So are
native OpenGL, the operating system's rename queue, and the program that owns a display.

**How the parts interact.** *Submission.* The driver writes a batch into a driver-owned
buffer, its words into a ring entry and `PRODUCED` into the page, and writes the
doorbell. The device, on QEMU's main loop, copies the batch, validates it, hands it to
the engine (or a *marker* that only carries a rejection in order) and advances
`CONSUMED`. The render worker takes batches one at a time. The main loop polls
completions, credits each to the oldest unfinished entry, writes its `STATUS` and then
`COMPLETED`, and interrupts when the counter the driver armed has reached its target.
The driver *reaps*: it records outcomes, keeps the failure of an asynchronous request in
its fault table and answers the client's next request with it. An engine reset may come
between any two of these steps.

*Presentation.* A render worker claims an export slot, draws into it and queues a job.
An output thread sends jobs in order; the SDK's receiver turns them into ordered desktop
operations that hold *leases*, a presentation thread takes them, and dropping the last
lease sends a release back. Releases can overtake the settling of the send they answer.
On macOS images travel beside the ordered records, on a Mach port of their own. The
legacy display, by contrast, is shared memory: QEMU and the application change three
slot words by compare-and-swap.

*Execution.* Commands run one after the other on the render thread, on stores (buffer
objects, names, queries, lists, images, the registry) that charge one budget.

*Installation.* The installer writes its journal before each step, leaves what Windows
holds open to the rename queue of the next start, and continues from its journal after
any interruption.

**What is hard.** Driver, device and worker run at once and share memory without a lock;
completions carry no identity that the device compares; a reset discards the queue on
three sides that learn of it at different times; a failure must follow its stream through
three fault lists, exactly once; sleeping and waking is a two-flag handshake. Image slots
are owned by turns by five threads of two processes, with epochs to tell a late message
from a current one. Stores refuse at any step of a command and must be left as they
were. The installer may lose power between any two steps, with the registry written back
later than files. `PROJECT.json` lists these hazards at their lines.

**What makes each part correct.** Engine: completion in submission order, nothing lost,
resets acknowledged in order. Device and driver: an outcome is what happened to that very
batch. Publication: an image is free exactly when both its send and its consumer are
done. Desktop transport: nothing of a retired drawable is shown, and what the host sends
the SDK accepts. Shared-memory display: the newest frame is shown and no slot is written
while it is read. Input: no button is left down and a barrier answers for itself. Stores:
what is charged is what there is, and what is checked stays true when used. Share groups:
an image lives exactly as long as something refers to it, and reads are ordered, defined
and current. Installer: what the journal says is so on the disk, and one can always go
back.

## 2. The modules and the code

| modules | what they are |
|---|---|
| `Submission`, `Engine` | the engine's batch queue, one action per entry point of `submission.rs`; under a main loop that submits, polls and resets at will |
| `FaultTable` | the driver's table of unreported failures, as operators |
| `GlPage`, `GlDevice`, `GlDriver` | the shared page with doorbell, interrupt and GENERATION; the device, `queue.rs`; the driver, `dg-gl-queue.h` and its callers. One action per access to the page |
| `GlContract`, `GlQueue` | what the transport promises; the composition of driver, page, device and engine, and the refinement |
| `Wire` | what both sides of image publication name: slots, identities, records |
| `Publication`, `CpuExport` | the producer: export slots and output queue; CPU allocations and the readback reply |
| `DesktopTransport`, `Canvas` | the consumer: leases, ordered queue, retirement, release queue; what the canvas accepts |
| `LeaseContract`, `Frames` | what an exchange of buffers promises; both sides with the wire between them, and the refinement |
| `ShmemDisplay`, `InputQueue`, `CursorChannel`, `ShmemServer` | the three services of the shared-memory server, and the worker with QEMU and the application around it |
| `Registry`, `Buffers`, `NameTable`, `Queries`, `PixelImage`, `Lists` | the stores GL records change |
| `TwoD`, `Composition` | the sliced 2D executor with migration; the sequence of desktop records |
| `HostStores` | the stores under one thread |
| `ShareGroup` | textures, renderbuffers and framebuffer objects of a group of contexts |
| `InstallStore`, `BootQueue`, `Setup` | the installer's store; its transaction of boot-time renames; the installer |
| `MCEngine`, `MCGlQueue`, `MCFrames`, `MCShmem`, `MCShareGroup`, `MCSetup` | instances for TLC (`HostStores` is instantiated by its configuration) |
| `SubmissionProofs`, `EngineProofs`, `GlQueueProofs`, `ContractProofs`, `FramesProofs`, `ShmemProofs`, `StoresProofs`, `FoldLemmas` | lemmas, inductive invariants and theorems |

`GlQueue` extends `GlDriver` and `GlDevice`, both extend `GlPage`, which extends
`Submission`. `Frames` extends `Publication`, `CpuExport`, `DesktopTransport` and
`Canvas`. Faulty variants of an operation stand next to it, marked as such; no
specification uses them: they are what the properties are tested against.

### State and code

- *Transport.* Batches are numbers, in the order they are written to the ring (or
  submitted); `buffer` says whose bytes a command buffer holds. A *domain* is a (client,
  stream) pair; `NoDomain` is client or stream zero. Errors are `failed` (validation or
  execution), `skipped` and `generation`: the ones the protocol treats differently. `pc`
  is where the one request inside the driver is (the GL mutex admits one); `dpc` where the
  one handler inside the device is (QEMU's lock admits one). `settled`, `issued`, `told`,
  `history`, `submitted` and `polled` are auxiliary: no guard reads them, but for the bound
  `MaxBatches`.
- *Frames.* An image is its slot, epoch and generation. A lock of the code is one
  action; `sending` and `taking` are the threads between two holds of it. `past` is
  auxiliary. `Drawable` are names, `MaxDrawables` the records of the registry, which a guest
  uses again under other names. A slot is called by the name that used it, so a record that
  changes its name is another set of slots here; at most `Bound` slots are in use, as in the
  code (`COUNT`). That allows the slots of one record to be waiting for their releases while
  its new name already draws, which the code may have to wait for: more behaviours, not fewer.
- *Shared memory.* A frame is its number; a slot word is one of the four states. `scan`
  and `look` are the consumer between two compare-and-swaps. `host` is auxiliary.
- *Stores.* Sizes and memory are units, an object or a byte each. Native OpenGL keeps
  its own copy (`data`, `native`, `world`), so a property can compare it with the host's. It
  may refuse any call. A failed allocation is a refusal like others. One store is followed
  per behaviour: they share nothing but the thread and a sum, and their product would add
  states and no interaction.
- *Installer.* A file is an image by name; `public` is what programs read, `flushed` and
  `kept` what a loss of power leaves. `run.pc` is the installer's next write.

### Grain

The driver runs on a guest processor while the device runs on the host, so each action of
`GlDriver` and `GlDevice` makes one load, or one group of stores the code closes with a
fence. Merged on purpose:

- The loads of `DgGlQueueCurrent` (STATE, GENERATION) and the counter read that follows it
  in `DgGlQueueWaitFor`, at each of its three looks. In between only a reset could matter;
  it clears STATE and leaves the counters alone, so the split read equals the merged one
  followed by the reset. `DgGlQueueReap`'s two reads are merged for the same reason, while
  the reads and stores after them are steps of their own.
- The stores of `DgGlQueueEnable` before the QUEUE_CONTROL write, as the device ignores the
  page while the queue is disabled.
- The QUEUE_CONTROL write with the device's `dreamgpu_queue_enable`: a register write
  returns only when the device has served it.
- Interrupt routine and deferred procedure. `irq` may be delivered arbitrarily late, after
  the wait it was meant for, so spurious wakes are covered.

In `Frames` and `ShmemServer` an action is what a thread does under one lock, or one
compare-and-swap. In `HostStores` and `ShareGroup` it is one command (one slice in `TwoD`,
one fragment in `PixelImage`): nothing else runs on that thread. In `Setup` it is one write
that reaches the disk or the registry.

### Left out of the modelled parts

*Transport*: the register transport (used when no queue is offered: a request that finds
none returns), capability and limit refresh with its UNSUPPORTED replies, DMA of the device
that fails and entries no driver writes (reserved words, illegal sizes: the device refuses them
before it has looked for a READBACK or RETURN, and completes them without stopping the guest), a zero QUEUE_CONTROL write, SUBMIT without a stream (the older frontends'
form), query payloads, PRESENT identities, and what a CLOSE of a driver that has already
stopped skips. Counters are unbounded: their 32-bit wrap is not modelled.
*Frames*: descriptor passing of macOS, the mmap of CPU frames, the native copy into an
exported image. *Shared memory*: relative motion whose sum would overflow 32 bits.
*Stores*: client vertex layouts beyond the buffer a draw reads, packed pixel conversions.
*Share groups*: texture parameters, matrix and lighting state, multisampled blits,
drawable export. *Installer*: repair, recovery by another executable, the WININIT queue of
Windows 98, derived aliases, log compaction, the Run value at its own level, the driver
component beyond its completion, the file branch of `Engine.mutate`.

## 3. The runs

| run | module, instance | properties |
|---|---|---|
| `engine` | `MCEngine`, fair: 3 batches, 2 streams, 2 resets, rings of 2, one remembered fault | `TypeOK`, `CompletesInOrder`, `NothingLost`, `AckSeparates`, `DomainStaysFailed`, `Answered` |
| `transport` | `MCGlQueue`: 2 entries, 2 buffers, 2 batches, 1 reset; requests of clients and of the display driver; refused markers, early watchdog | `PageSound`, `OutcomeTruth`, `HeadOwned`, `CoherentStops`, `NoLostWakeup` |
| `streams` | `MCGlQueue`: 3 entries, 2 buffers, 3 batches of 2 streams of one client, OPEN and CLOSE | `FailuresTold`, `BatchesKept` |
| `progress` | `MCGlQueue`, fair: 2 batches, 1 reset | `ImplementsContract`, `RequestReturns`, `PublishedCompletes` |
| `frames` | `MCFrames`, fair: 1 drawable with 2 export slots, 2 epochs, 1 place in the ordered queue, drops and hangups | `PublicationSound`, `Returned`, `SleeperWakes` |
| `desktop` | `MCFrames`: every desktop operation, 3 of them, 1 export slot, 1 CPU slot, retained images; or 4 names one after the other on 1 record, with frames and drops | `NeverRefused`, `NothingStale`, `CanvasAccepts`, `ExchangesBuffers` |
| `shmem` | `MCShmem`: 2 mappings, 2 frames, queue of 2, 3 events, 2 barriers, 2 cursor shapes, 2 connections | `FramesOwned`, `InputFaithful`, `WorkerWakes`, `OnlyForwards` |
| `stores` | `HostStores`: 2 to 5 names in each store, tables of 8 slots for 4 names, VRAM of 8 bytes | `MemoryAccounted`, `BoundsSound`, `NamesFound`, `RegistrySound`, `SlicesSound`, `QueriesSound`, `ListsSound`, `DesktopSound` |
| `group` | `MCShareGroup`: 2 contexts, 1 image name, 1 framebuffer name, 3 images alive, a budget of 5 | `GroupSound`, `ReadsSound` |
| `setup` | `MCSetup`: 2 generations, 3 requests, 1 loss of power, 1 foreign program | `Honest`, `Recoverable`, `NotMistaken` |
| `return_race` | `MCFrames`: a seed and a return, 2 CPU slots | `OlderReturnKeepsDesktop`, refuted (section 6) |
| `cancel_lost` | `MCSetup`: the same without foreign programs, registry written back late | `RollbackFinal`, refuted (section 6) |

**Bounds.** Constants named `Max...` bound one behaviour; everything else is a real
parameter of the code, made small. Three batches on three entries and two buffers
(`streams`) reuse a buffer and wait for one; two on two entries with a reset (`transport`)
let a batch of the old generation execute beside one of the new. One reset falls between any
two steps, and two in `engine` supersede each other before the first is acknowledged.
`FaultSlots = 1` in `engine` makes the fault list forget. `Pending` is `Depth`, as in the code
(16): the engine never refuses a batch of the queue, except by a failed allocation
(`Refusals`). `Impatient` lets the two-second watchdog fire at any time; otherwise it fires
only for a queue that is lost, since a live host answers. `Kinds`, `Images`, `Ops`, `Traffic`,
`Sorts` and `Requests` limit what the environment asks for in a run. Two export slots are one
to be shown while the other is drawn; one place in the ordered queue makes the receiver sleep
at once; two epochs make a message of the first one late. In `desktop` one record, two places
in the ordered queue and three image slots at the SDK are in the code's proportion
(`MAX_DRAWABLES` + `MAX_PENDING` = `MAX_SLOTS`, 32 + 64 = 96), and four names are one more than
it can remember. The constraint `TwoGuests` keeps to a guest that uses one name and every
operation, or one that uses all names for frames and drops: names fill the SDK's tables, operations
its canvas. A mapping has three slots, as in
the code, and two frames fill two of them while the third is read. Name tables of 8 slots
with hashes at 0, 6 and 7 make every chain wrap. In `setup` three items (a protected file of
Windows, a new file, a registry value) are the three ways an item can be treated.

**Symmetry** is used in `streams` (two streams of one client) and `group` (two contexts), and
not with a temporal property.

**Deadlock** is checked in `engine`, `transport`, `streams` and `progress`: the guest may be
quiet between requests and once it is stopped (`Quiet`), and any other state without a step is
reported. In the others `CHECK_DEADLOCK FALSE`: what drives the system (the guest, QEMU, the
application, the user) may stop for good, and a behaviour ends where its bounds do. That
nobody is left waiting is a property there (`SleeperWakes`, `WorkerWakes`).

**Fairness** is weak, and only where the code's scheduling gives it. `engine` and `progress`:
the driver's steps (a thread that holds the mutex is scheduled, and a sleeping one is enabled
only when woken or timed out), the QUEUE_CONTROL write, interrupt delivery, the device's
handlers (QEMU's main loop serves doorbells and completions) and the worker. `frames`: the
output thread, the two receivers, the writer of releases, and the presentation thread, which
polls and drops a lease when its GPU work has completed. Requests, resets, presents, hangups
and retirements are not fair: nobody has to make them. No strong fairness is needed.

## 4. What the runs show

Each property has a faulty variant of the code, listed in `PROJECT.json`, that violates it
under the same configuration.

*Engine.*
- `CompletesInOrder`, `NothingLost`: batches complete in submission order, once each, and a
  batch of the current generation is pending, running or completed.
- `AckSeparates`: a reset acknowledgement lies between the completions of older generations
  and those of its own and later ones, although the reset packet is sent without the mutex.
- `DomainStaysFailed`: a stream that failed executes nothing more in its generation, until as
  many other domains as the fault list has places have failed since.
- `Answered`: resets are acknowledged though they supersede each other, and batches complete.

*Transport.*
- `PageSound`: types; counters stay in the window in which the device never stops a queue for
  an overrun and the driver never reaps what has not completed (`Window`); the device's owned
  entries are, in order, the engine's completions, its running batch and its pending ones of
  this generation (`Correspondence`), which is why crediting the oldest entry is right.
- `OutcomeTruth`: a recorded outcome, and the answer a caller is given, is what happened to
  that very batch.
- `CoherentStops`: a desktop READBACK or RETURN that the engine executed and that failed is
  never seen by a running guest.
- `HeadOwned`, `NoLostWakeup`: an entry no engine owns never waits for a completion, and
  nobody sleeps on a counter that has reached its target.
- `FailuresTold`: a failed stream stays failed end to end, and its failure is told exactly
  once. `BatchesKept`: nothing published changes before its reader is done with it, and a
  driver at rest has settled every batch outside its ring.
- `ImplementsContract`: every step is a step of `GlContract` or a stutter, with *up* = the
  device's queue is active, *sent* = the domains of the entries published since, *outcomes* =
  those the page or the driver holds. `RequestReturns`, `PublishedCompletes`: progress.

*Frames.*
- `PublicationSound`: no assertion of the device fails, and an image the SDK leases is one the
  device keeps. `Returned`: every image that was sent comes back.
- `NeverRefused`: the output queue has room for every image there is, and no refusal of the SDK
  meets what a correct host sends, in whatever order the two channels deliver it: reused slots,
  stale epochs and generations, full registries of drawables, retained images and window images,
  sequence gaps, overflow of releases, and the two tables of names (`received`, `dropped`). On one
  channel the names fit: what was received and not retired are the living drawables and
  those whose drop waits in the ordered queue, and with one more place in that queue TLC finds the
  refusal. Two cases are exempt, as nothing bounds the names there (`NamesMayFill`, section 6).
- `NothingStale`: no image of a retired drawable is shown, and a readback answers its own
  request. `CanvasAccepts`: what is taken is what the canvas draws.
- `ExchangesBuffers`: image slots and CPU allocations are exchanged as `LeaseContract` says.
- `SleeperWakes`: the receiver asleep on a full queue wakes.

*Shared memory.*
- `FramesOwned`: what is read is not written, every claim is given back (also when its display
  is gone), and at rest the newest frame is shown. `OnlyForwards`: neither frame, cursor nor
  position goes back.
- `InputFaithful`: coalescing, overflow and reconnection included, QEMU ends with the buttons
  the user holds, motion and capture keep their place among the buttons, routing is restored,
  and a barrier answers for its own reset.
- `WorkerWakes`: queued input and the stop have a wake byte; no cursor outlives its connection.

*Stores.*
- `MemoryAccounted`: whichever step is refused, what is charged is what there is, within the
  budget. `BoundsSound`: no admitted draw reads past its buffer. `NamesFound`: the open-addressed
  tables find exactly what they hold, through removals and sweeps. `RegistrySound`: the registry
  holds what exists natively, its cache says what the search would, and no export epoch is
  used twice.
- `SlicesSound`: slices compose to the sequential effect and progress survives a migration.
  `QueriesSound`: reports and fences say what native GL completed. `ListsSound`: lists are
  published whole or not at all and replays are accepted. `DesktopSound`: a region called
  coherent has its newest pixels in VRAM, and packets are consecutive.

*Share groups.* `GroupSound`: references and memory are counted exactly and the host knows
what native GL has. `ReadsSound`: what native GL reads was written before in the order of
fences, was initialized, and the read cache is current.

*Installer.* `Honest`: when the journal says installed, removed or taken back, that is so on
the disk and stays so over a loss of power, and no rename is left. `Recoverable`: what is
needed to go back is never missing or cut short, and an operation that touched anything is
continued. `NotMistaken`: what another program put in place between two runs is never taken for
an image of its entry: no rename is registered, queued, granted or reported done beside it,
and nothing is reported as installed or removed over it, also by a run that resumes a half-written
record or that saw the item in place before. It speaks of setup: a rename that is already queued
when the other program comes overwrites it (section 6).

## 5. What is proved

The theorems hold for every value of the constants that meets the modules' named
assumptions: sizes are positive, at least two buffers, `NoDomain` is no domain, and the like.
The only one a proof needs beyond what makes the constants well formed is `Depth <=
DoneSlots` (`GlDevice`): the code has 16 and 64. `ContractCorrect` and `FailuresCorrect` have
hypotheses of their own, below. In `Wire` an index names one buffer, an image slot or a CPU
allocation (`IndexAssumption`: `CPU_SLOT_BASE` is above every registry index). Inductive invariants were
checked with TLC on the instances above before they were proved. A module of proofs is laid
out bottom-up: the parts of the invariant, a lemma for each action and part, the invariance
of the whole, the theorem.

| theorem | states | inductive invariant |
|---|---|---|
| `EngineProofs!TypeCorrect` | `TypeOK` | with `Counted`: `polled` and the unpolled completions add up to the history |
| `EngineProofs!OrderCorrect` | `CompletesInOrder` | `OrderInv`: pending batches ascend, the running one precedes them, every completed one precedes both, none exceeds the number submitted |
| `EngineProofs!AckCorrect` | `AckSeparates` | `AckInv`: the ticket and all pending batches are of the current generation; while a reset is pending what runs or completed is older; a packet is out only while a reset is pending and nothing runs |
| `EngineProofs!NothingLostCorrect` | `NothingLost` | `LossInv`: no batch was submitted for a later generation, so a reset turns all of them into older ones |
| `EngineProofs!DomainCorrect` | `DomainStaysFailed` | `FaultInv`: a domain that failed stands in the list with none behind it but domains that failed since (`Listed`), and the batch that runs was marked when it was taken |
| `GlQueueProofs!HeadCorrect` | `HeadOwned` | `HeadInv`: the engine owns the oldest entry except after a completion was credited and while its handler still drains |
| `GlQueueProofs!WakeCorrect` | `NoLostWakeup` | `WakeInv`: `Mirror` (an active page shows the device's counters) and `Armed` (the WAIT word and target of a sleeping driver); uses `HeadInv` for the early return of `dreamgpu_queue_complete` |
| `GlQueueProofs!TransportTypes`, `WindowCorrect` | types, `Window` | `PageInv`: what each program counter has read or written already |
| `GlQueueProofs!KeptCorrect` | `BatchesKept` | the same, with whose batch a slot and a buffer hold at each step of the driver |
| `ContractProofs!PageCorrect` | `PageSound` | `OutcomeInv`: the entries the device owns are the engine's batches of this generation, position by position |
| `ContractProofs!OutcomeCorrect` | `OutcomeTruth` | the same, with where an answer stands between engine, page and driver (`AnswerReached`) |
| `ContractProofs!CoherentCorrect` | `CoherentStops` | the same, with: the guest is stopped before such a failure is in the page |
| `ContractProofs!ContractCorrect` | `ImplementsContract` | `StreamInv`: on each list of failed domains stands what failed (`FaultInv`), of what is published or answered no success stands behind a failure of its stream (`ChainInv`), and the batches of the queue are `sent`, slot by slot (`Placed`) |
| `ContractProofs!FailuresCorrect` | `FailuresTold` | `StreamInv` with `TableInv`: a row of the driver's table names a recorded failure of its stream that was not told, and generations ascend with the batches |
| `FramesProofs!PublicationCorrect` | `PublicationSound` | `FramesInv`: a buffer is in one place (`Alone`), what names it after its send names the identity the device keeps (`Ownership`), jobs and slots agree (`SlotsSound`), the frame not yet taken has one owner (`LatestAlone`), credits count jobs (`Counts`) |
| `FramesProofs!ExchangeCorrect` | `ExchangesBuffers` | the same: the place of a buffer says who holds it (`HolderSound`) |
| `FramesProofs!StaleCorrect` | `NothingStale` | the same, with `RetireInv`: a cutoff is remembered as a tombstone or by what was received since; and `ReplyInv`: a kept descriptor is that of the request that waits |
| `ShmemProofs!WakesCorrect` | `WorkerWakes` | `ServerInv`: types, connection, owners, cursor, wake bytes at each step of the worker |
| `ShmemProofs!FramesCorrect` | `FramesOwned` | `FrameInv`: what a slot's state says of its frame, which frames can still be seen, and where a scan has got to |
| `ShmemProofs!ForwardsCorrect` | `OnlyForwards` | an action property, from the two above |
| `ShmemProofs!InputCorrect` | `InputFaithful` | `InputInv`: the *stream on its way to QEMU* (queued, half written, in the socket, handled) leads from QEMU's button to the user's, has motion and routing in place, and ends in the restored settings; barriers are numbered |
| `StoresProofs!BoundsCorrect` | `BoundsSound` | `ObjectsInv`: native GL has the host's data, and every cached bound covers the data it was taken from |
| `StoresProofs!RegistryCorrect` | `RegistrySound` | `RegistryInv`: slots hold what exists natively, bytes add up, epochs ascend, the cache names what the search would find |
| `StoresProofs!NamesCorrect` | `NamesFound` | `TableInv`: each name stands once, without a gap between its home and its place; `Shifting` carries this over each step of a removal, and a sweep over a sequence of removals |
| `StoresProofs!SlicesCorrect` | `SlicesSound` | `TwoDInv`: the current command is done on the bytes its slices passed (`Covered`, bounded by the edge of the next chunk), and the commands before it are done |
| `StoresProofs!QueriesCorrect` | `QueriesSound` | `QueryInv`: the queue of ended queries ascends in the stamps of their ends and names each query once, a name that was reported or deleted is not in it, the only open native query is the active one, and a fence's record has the stamp the guest was told |
| `StoresProofs!DesktopCorrect` | `DesktopSound` | `DeskInv`: while the desktop is active and the engine runs, its number is the one last sent; its epoch is never behind |

*The engine.* `DomainStaysFailed` rests on what stands behind a domain in the list: only
domains that failed since, so a list that forgets its head forgets a domain behind which
as many others failed as the list has places. Finite sets and their cardinality enter here,
as the domains are any set.

*The transport.* Every proof of `GlQueue` rests on `TransportTypes` and `Window`. The window
cannot be proved of the counters alone: the driver compares what it read some steps ago, and
a reset may come in between; so `PageInv` says, for each value of `pc` and `dpc`, how what was
read relates to what is there. Correspondence with the engine needs the generation of each
entry and that a completion of a discarded generation stands before the reset's
acknowledgement, which is `AckInv` again. `SubmissionProofs` holds the lemmas on each engine
operation that `EngineProofs` and the transport share.

*The contract.* `ContractCorrect` is the refinement: each step of driver, page, device or engine
is a step of `GlContract` or changes nothing of it. Its one promise that is hard to keep is that
nothing of a stream succeeds after a failure of it, which three lists of failed domains keep
together: a failure goes from the engine's list (`EngineFaultInv`) to the device's
(`HostFaultInv`, where `Spoiled` says what of the domain can only fail by now) to the
driver's table, and each list must be right until the next one has it. `SyncInv` adds that
nothing is published behind a synchronous batch. `FailuresTold` follows the failure from there
to the call that is told of it (`ReportInv`). Both assume `EnoughRoom`: the engine takes what
the device has an entry for (`Depth <= Pending`: the code has 16 and 16), the lists have a place
for every stream (`FaultSlots`: 16), and the engine refuses no marker (`~Refusals`);
`FailuresCorrect` also that the driver's table has (`TableRoom`: 16). These hypotheses say where
the promise ends, not only the proof: with more failing streams a list forgets
one, and a marker that was refused lets a later batch of its stream execute (section 6). The
other theorems of the transport need no such bound, and the run `transport` allows refusals.

*Image publication.* `LeasesBacked` cannot be proved of leases alone: a release is believed by
its epoch and generation, so one that named a newer publication of a slot would free what is
still read. `FramesInv` therefore follows each buffer through all its places: output
queue, output thread, Unix stream, Mach port, leases of the SDK, release queue, stream
back. It is in one of them at most, once (`Alone`), and from the send on its identity there is
`Granted`: that of a slot published, settled or about to be, whose release has not arrived, or
of an allocation claimed for that record. A release that overtakes the settling of
its own send is the one case where the device's mark (`release_pending`) takes the place
of the token. Each action moves buffers one place on (`Flows`) and changes the device's side
only of a buffer that is nowhere else (`Turns`); these two facts are also what makes
each step one of `LeaseContract`. Batches that are taken run through `Desktop::take`, a fold over the queue, whose stages are
shown one by one (`SweepStages`). For `NothingStale` the tombstone of a drop may be forgotten
once a later image was received: from then on the order of generations on the image
channel (`Got`) refuses what the tombstone would have; that is `Remembered`.

*The shared-memory server.* The properties are about what arrives in the end, the steps about
what is in between: so the invariants follow a frame from the compare-and-swap that publishes
it to the view that shows it, and input as one sequence cut at four places.

*The stores.* A behaviour of `HostStores` follows one store, and each of its steps is a step of
that store alone. Removal from an open-addressed table is the interesting one: it is a
recursive function over the rest of the chain, and the proof goes through the least number of
steps at which it could go wrong. `FoldLemmas` does the same for the folds of the community
modules: the provers cannot instantiate a theorem with an operator parameter, so
each fact about a sum or a fold is proved by a least counterexample, with first-order
lemmas (`LeastNat`, `SetInduction`).
A 2D batch is the other one: the rows of a rectangle do not overlap, so its bytes have one order,
and slices pass them in that order or, for a copy towards higher addresses, against it
(`EdgeMoves`). What a chunk of a copy reads has then not been written by the chunks before it
(`ChunkDone`). The theorem covers batches of one and two commands on rectangles of up to three
rows, at every offset, width and stride.

**Only model-checked.**
- Liveness, which rests on fairness and `ENABLED`: `Answered`, `RequestReturns`,
  `PublishedCompletes`, `Returned`, `SleeperWakes`. Out of the prover's reach.
- `NeverRefused`, `CanvasAccepts`, `MemoryAccounted`, `ListsSound`, `GroupSound`, `ReadsSound`,
  `Honest`, `Recoverable`, `NotMistaken`: not proved yet.
- What a recursive definition computes for every input (a replayed list, the first run of free
  names), which needs induction with an operator parameter.

## 6. Findings and observations

Findings are runs that TLC refutes; `PROJECT.json` quotes the statements.

1. `return_race` (`src/transport/mod.rs:471`): `take_desktop_update` decides under the desktop
   lock that the RETURN it takes leaves no newer seed, and clears `desktop_active` after it
   released the lock. A seed received in between is counted as inactive, and CPU frames of the
   legacy display are shown over it. The test `older_return_cannot_reopen_cpu_delivery_over_a_newer_queued_seed`
   (`src/transport/desktop.rs:1195`) states the opposite.
2. `cancel_lost` (`tools/setup/boot-queue.h:380`): `Queue::cancel` flushes the registry only when
   it finds the queue. Resumed after an interruption between `remove_pending` and `flush` it
   records *cancelled* without a flush; after a loss of power the next start puts the files of an
   upgrade back that the journal says was taken back, against `system-engine.h:59`. The rollback of
   a first installation is safe, as `confirm` flushes the registry.

Observations met while modelling, which no run states:

- *Fault list of the engine* (`submission.rs:98`): a batch that is skipped does not refresh its
  domain's place, so a domain whose batches still arrive can be forgotten, although the comment at
  `submission.rs:44` says that eviction only concerns domains that no longer submit.
  `DomainStaysFailed` states what the code does.
- *Driver*: a desktop READBACK or RETURN that is rejected while the queue is idle completes
  without stopping the guest (`queue.rs:408`); an engine reset while `DgGlQueueBuffer` waits leaves
  the queue inactive, but the buffer is returned and its batch published, then never executed
  (`dg-gl-queue.h:253`); a refused marker lets a later batch of its stream execute (`queue.rs:418`);
  batches that completed before a reset but were not reaped are reported as lost
  (`dg-gl-queue.h:137`); the fault table reports the lowest slot, not the oldest failure
  (`dg-gl-queue.h:117`).
- *Input* (`shmem/input.rs:83`): an overflow forgets a queued change of capture or refresh rate;
  `set_host_refresh` then sees no change and does not send it again. A waiter may sleep across a
  reconnection, and an overflow that clears a barrier's reset makes it time out.
- *Image channel*: the error path of the Mach receiver (`transport/mod.rs:644`) shuts the stream
  and wakes the sleeper but does not set `closed`.
- *Names at the SDK*: drawables come and go under new names, and the SDK remembers names in two
  tables of `MAX_SLOTS`. Where images have a channel of their own they overtake the drops of older
  names, so `received` can fill (`desktop.rs:130`) although the producer keeps every bound. A
  reset forgets `received`, so the drop that follows leaves a tombstone that only an image of the
  same name removes; and on two channels a drop may come before its image. When the tombstones
  are full (`desktop.rs:462`), `take_desktop_update` records an error, does not end the connection
  and wakes no receiver: the drop stays at the head of the queue and nothing behind it is taken.
- *Share groups*: `PopAttrib` restores draw and read buffers by framebuffer name
  (`framebuffer.rs:773`, `restore_buffer`); a native refusal of BufferSubData leaves the host's copy
  different from the native one (`buffer.rs:410`); an export with a read framebuffer bound
  leaves the window framebuffer's read buffer changed until the next bind; copies with
  GENERATE_MIPMAP do not charge the generated levels; a program deleted in one
  context while bound in another and then loaded there binds a freed native name
  (`program.rs:8`).
- *Installer*: the receipt of an upgrade that was interrupted before it was published binds
  its generation to that plan, so a later uninstall of the same generation is admitted but
  its preparation refused (`win32-lifecycle.h:798`), against `tools/setup/README.md:86`; a payload
  copy cut short is never discarded; boot-time renames overwrite a file another program
  replaced after they were queued.

## 7. What is not modelled

- Programs, fixed function, evaluators, selection, vertex arrays and readback of GL execution: one
  record is one native call, on one thread; what matters is the data. `gl_api.rs` is
  generated by bindgen.
- What makes the payload of a GL record valid (`gl_validation.rs`, `batch.rs`).
- Drawable resources, export and import of native images, the cursor image, scan-out of the
  primary surface.
- The guest's OpenGL frontend, display drivers, Glide and Direct3D adaptations; Win9x shares
  `dg-gl-queue.h` with the NT miniport.
- 32-bit wrap of the ring's counters and failing DMA of the queue's page: the two hazards that no
  property covers.
- Build, packaging and tests.

## 8. Plan

Done: the modules of section 2, the theorems of section 5. Next, in this order:

1. `MemoryAccounted`, from the parts of `ObjectsInv` and the sums of `FoldLemmas`; `ListsSound`.
2. `GroupSound` and `ReadsSound`.
3. `NeverRefused` and `CanvasAccepts`: what the producer's stream and the consumer's queue say
   of each other, from the places of `FramesInv`.
4. `Honest` and `Recoverable`.
5. A module of ring counters modulo a small word width.
