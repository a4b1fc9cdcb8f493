# The ZYBO RISC-V computer and its accelerator in TLA+

A verification project for the RISC-V computer on the ZYBO Z7-10: the
accelerator of the programmable logic (`rtl/accel`, `rtl/top`), the Linux code
that drives it and the emulator that stands in for it (`linux/`), and the boot
ROM of the RISC-V side (`firmware/bootrom`). The modules translate the Verilog
and the C; TLC checks them on small instances, and TLAPS proves the properties
that matter most for every instance.

Paths below are relative to `src/`.

## The system

The repository holds two machines that share little code.

**The accelerator on the Zynq.** Linux on the ARM cores writes 32-byte
descriptors into a ring in unified memory, moves `UMEM_CMDQ_HEAD` and rings
`UMEM_CMDQ_DOORBELL`. The programmable logic reads a descriptor over AXI, decodes
it and starts the NPU or the GPU; the NPU's payload is read by a second AXI
master through a shared port, and its result is written back. The same NPU and
GPU can be started directly, through `CONTROL` and `STATUS`. With `--emulate` the
demo runs the same client code against an emulator in its own process.

| part | source | state | operations | talks to |
|---|---|---|---|
| host library | `linux/uio/accel_cmdq_host.c` | cached head and tail, ring | init, sync, reset, push, submit | register file (writes), memory |
| direct client | `linux/uio/accel_mmio_demo.c` | place in the script | configure, start, poll, sleep, clear | register file, UIO driver |
| host emulator | `linux/uio/accel_mmio_demo.c` 146-766 | registers, memory, counters | register write, run, process the ring | host library, direct client |
| register file | `rtl/accel/accel_mmio_regs.v` | registers, pulses, sticky done bits | write, read | everything |
| frontend | `accel_cmdq_frontend_stub.v` | tail shadow, last doorbell, request flags, counters | issue, accept, retire | fetch stub |
| descriptor fetch | `accel_umem_axi_fetch_stub.v` | AR/R registers, beat count, descriptor | request, beat, finish | arbiter, decode |
| decode, dispatch | `accel_cmdq_desc_decode_stub.v`, `accel_cmdq_dispatch_stub.v` | fields, pulses, counters | decode, dispatch | payload fetch, GPU |
| read arbiter | `accel_umem_axi_read_arbiter_stub.v` | burst active, owner | grant, release | port, both masters |
| payload fetch | `accel_npu_payload_fetch_stub.v` | five states, fetched words, errors | accept, two bursts | arbiter, execute |
| NPU execute, NPU | `accel_npu_cmd_exec_stub.v`, `npu_v2_stub.v` | in flight, countdown, operands | start, reject, finish | store |
| result store | `accel_npu_result_store_stub.v` | four states, captured result | capture, beats, response | port |
| GPU | `gpu3d_lite_stub.v` | busy, mode, position, framebuffer | clear, draw | - |
| memory port | outside the repository | a burst per direction, memory | accept, present, respond | arbiter, store |

**The RISC-V SoC.** A picorv32 with boot ROM, SRAM and small peripherals (UART,
PS/2, timer, SPI, GPIO, NPU) on a one-access-at-a-time bus. The boot ROM loads an
image from the SD card, checks it, and runs a monitor that takes commands from
the terminal and the keyboard.

| part | source | state | operations | talks to |
|---|---|---|---|
| boot loader | `firmware/bootrom/bootrom.c` 344-415 | boot info block, four static variables, SRAM | read header, copy, verify | SD card, monitor |
| monitor | `bootrom.c` 132-342, 418-502 | key prefixes, command | poll, self tests, RAM test, go | UART, PS/2, NPU-lite |
| PS/2 port, UART | `rtl/peripherals` | one received code, flags | receive, read | monitor |

Besides these the repository holds video generators, testbenches, build scripts
and Python golden models.

Components interact through wires, register accesses and plain memory stores.
Hard behaviour: pulses without acknowledgement, registers that are one edge old
when used, one-place buffers without back-pressure, errors reported by pulses,
memory that stalls or fails, software that runs between any two edges, resets
and disables with work in flight, a process killed in mid-command, interrupts
that disable themselves, static variables that the linker puts on top of a
structure in memory, and addresses whose sums wrap.

What makes each part correct:

* host library, frontend, emulator, ring: a bounded FIFO, no descriptor lost,
  repeated, reordered or overwritten; the status word true; a served doorbell;
* frontend and fetch: one outstanding request, both sides agree on its state;
* arbiter: a beat reaches the master that asked for it, in the right register;
* decode and dispatch: every retired descriptor is counted exactly once;
* payload fetch, execute, store: a job is run on its own operands and its result
  is written whole to its own buffer, or an error flag says that it was not;
* emulator: a queued job computes and draws what it names, and puts back what
  its client has programmed, the NPU's inputs, weights and biases excepted;
* direct client: what it shows is the answer to what it asked, a wait ends, and
  a run leaves nothing behind, whatever a killed run left;
* GPU: a draw lights the pixels of its triangle and no other;
* boot ROM: the loader writes inside SRAM, runs only the image it checked, and
  takes a key for a command only if it was pressed.

## Modules

| module | models |
|---|---|
| `AccelTypes` | words, addresses, the descriptor ABI (`accel_unified_queue.h`) |
| `CmdqFrontend` (`fe`) | the frontend |
| `UmemFetch` (`fx`) | the descriptor fetch |
| `CmdqDecode` (`dec`, `disp`) | decode and dispatch stubs |
| `ReadArbiter` (`arb`) | the read arbiter |
| `PayloadFetch` (`pf`) | the payload fetch |
| `NpuExec` (`ex`, `npu`) | execute stub, operand multiplexer, NPU control |
| `ResultStore` (`st`) | the result store |
| `GpuControl` (`gpu`) | the GPU's control, with durations for pixels |
| `AccelRegs` (`regs`) | queue, control and status registers |
| `CmdqHost` (`host`, `ring`, `direct`) | the host library, its client, a direct client beside it |
| `UmemPort` (`rd`, `wr`, `outmem`) | the memory port, from its use |
| `QueuePath` | the top's wiring, `Next`, fairness, `TypeOK`; `hist` |
| `JobQueue` | the abstract bounded FIFO |
| `QueueProps`, `MCQueuePath` | properties and constants of the queue path |
| `EmuMath` | inference and rasteriser, and what each should compute |
| `EmuDevice` | the emulated device: registers, memory, runs, command processor |
| `EmuQueue`, `EmuProps`, `MCEmuQueue` | the emulator under the library and the direct calls |
| `GpuRaster` | the GPU's scan, pixel by pixel |
| `MmioDemo`, `DemoProps`, `MCMmioDemo` | the direct client, the driver and the device |
| `BootRom`, `BootProps`, `MCBootRom` | the boot loader and the monitor |
| `QueueTypes`, `QueueProofs`, `FifoProofs` | theorems of the queue path |
| `RasterProofs` | the two rasterisers against the triangle |
| `EmuProofs`, `EmuQueueProofs` | theorems of the emulator |
| `DemoProofs`, `BootProofs` | theorems of the direct client and of the boot ROM |

### The queue path

**A step is one rising clock edge.** Each `always @(posedge clk)` block is one
`...Clock` operator, a disjunction of its branches; `QueuePath!Edge` is the
conjunction of all of them, applied to the values before the edge, as
non-blocking assignment does. A block's state is a record with the names of its
registers. Where several assignments of one block may hit the same register, the
later one wins, as in Verilog. Registers that are pure functions of others or
only mirrored to software are left out.

**Software takes at most one step per edge**: one register write, or one half of
the copy of a descriptor. Any number of edges may pass between two steps. The
C code has no barriers, so a slot is written in two halves that the hardware can
see apart. Two register writes may fall on adjacent edges, which is faster than
AXI-Lite allows and covers every slower spacing. The copy is assumed to land in
order and before the write of `HEAD`: the C has plain stores and nothing between
them and the register write, so a compiler or a bus that reorders them is outside
the model. The `memset` of a reset is one step; the write of `HEAD` comes at a
later edge, so the hardware may meet a zeroed ring under the old `HEAD`.

**Words are their provenance**: buffer, job, beat. A torn, misrouted or errored
word is then visible as such, and no arithmetic is needed. `Junk` stands for the
data of an errored beat; as an opcode it is any opcode (`OpcodesIn`), as a model
or an offset a value of its own. A result is the model, inputs and weights it was
computed from. `hist` is a history variable: the jobs of the retired
descriptors, 0 for a descriptor whose words do not belong to one job.

Two points on the source. `accel_npu_payload_fetch_stub.v` line 255 closes
`case (state)` with `end`, not `endcase`, and does not compile as it stands; the
evident intent is modelled. No client in the repository copies
`CMDQ_TAIL_SHADOW` to `TAIL`, although the ring fills for good without that;
`CopyTail` adds such a client where the ring is to wrap, and the two operators
are marked external in the map.

### The emulator

The emulator and its clients are one thread, so **a step is one call**, except
that the loop of `emu_cmdq_process` takes one step per descriptor. `emu` is the
whole of `accel_emulator_t` that is not a mirror of something else. Each `emu_`
function is an operator from the emulator before the call to the one after; a
range error makes it `exited`, where nothing more happens. Offsets into unified
memory are numbers of buffers, one array per use, and `NBufs + 1` stands for
every offset past the end. Words of four signed bytes keep their bytes, and the
inference and the rasteriser are computed: `IsInference` and `Triangle` are the
definitions they are compared with.

The clients are those of the file: the library, the samples, the demo's
inference from memory, the writes of operands and of runtime weights, the new
configuration, clear and draw, in any order. `configure_unified_memory` and
reset rewrite the ring's pointers; a client does so only when the queue is empty,
as those of the file do.

### The direct client on the board

**A step is one register access**, of the process, or one thing the hardware or
the kernel does; writes of operands and reads of a result, whose unit is idle
then, are grouped into one step per call. The script of `main` is a constant, a
sequence of calls. The UIO driver counts a level interrupt and disables it; the
process enables it by a write and sleeps in a read. `Kill` may end the process
at any step; `Open` starts it again on the hardware as it is. Assumed: the busy
bit of a started unit is set before the next access (two clocks against a bus
transfer), and a new process starts later than the last command ends. The
framebuffer may hold another client's picture at first. The GPU clears a row or
visits a pixel per edge, as `gpu3d_lite_stub.v` does; an inference is one step
and its result names its operands. The fill of a clear is zero, the only one
used here.

### The boot ROM

`info` is the boot info block at the start of SRAM. `linker.ld` puts `.bss` at
the same address, so the four static variables of `bootrom.c` lie on words 0 to 3
of it, in an order the linker chooses; a compiler may also keep them elsewhere,
because the language says that they do not overlap. `layout` is that choice.
Addresses and sums of addresses wrap at `AddrMod`, as `uint32_t` does. The
image's bytes are abstract: `held` is the set of SRAM words that still hold
them. An image over the monitor's own stack may make anything happen, which is
the state `wild`; so is the trap of `m` on a misaligned address. `verified` is a
history variable. Scan codes carry, for the properties, whether they are a
press, a prefix or what follows one. A loaded program polls the UART and the
keyboard as the one of `scripts/gen_bootrom.py` (403-452) does, with prefixes of
its own, and may return between a prefix and the code behind it; it keeps to its
own memory.

## Properties and runs

| run | model | specification | checks |
|---|---|---|---|
| `queue_alone` | `MCQueuePath` | `FairSpec` | `TypeOK`, `StatusTruthful`, `NpuAccounting`, `BurstOwner`, `ExecNeverBusy`, `StoredResultIsOwn`, `ImplementsQueue`, `DoorbellServed`, `AcceptedJobStored` |
| `queue_robust` | `MCQueuePath` | `Spec` | `Handshake`, `DispatchAccounting`, `ErrorFlagged` |
| `queue_shared` | `MCQueuePath` | `FairSpec` | `NpuAccounting`, `DirectReturns` |
| `emu_queue` | `MCEmuQueue` | `Spec` | `EmuTypeOK`, `SampleIsOwn`, `PictureRight`, `CountersTruthful`, `ImplementsQueue`, `ConfigKept`, `QueuedResultIsOwn`, `QueuedPictureStored`, `DoorbellDrains` |
| `demo_flow` | `MCMmioDemo` | `Spec` | `DemoTypeOK`, `AnswerIsOwn`, `PictureIsOwn`, `WakeUpComes`, `LeavesClean`, `RunEnds` |
| `boot_monitor` | `MCBootRom` | `Spec` | `BootTypeOK`, `LoaderInBounds`, `LoadedIsVerified`, `RamTestInBounds`, `KeyTyped`, `SelfTestsPass`, `GoVerified`, `KeyServed` |
| `finding_*` | | | one statement of a document or a test each, violated |

Deadlock is checked in the queue path, where the clock never stops. It is not in
the other three: their clients have a bounded number of inputs, the emulator's
process may exit, and the boot ROM may end in `wild`.

* **queue_alone**: the queue left to itself. Four jobs (one invalid or a NOP, a
  draw, two inferences back to back) go through a ring of three slots, so that it
  fills, wraps and has a slot reused; all five AXI channels stall at will, so that
  the second inference's descriptor and payload race the first one's run and
  write-back; clients forward the tail. The path implements `JobQueue` under the
  mapping pushed, exposed, consumed = `host.pushed`, `host.exposed`, `hist`.
* **queue_robust**: a ring of two, one job, and any placement of one read error,
  one disable and one library reset (which zeroes the ring and rewrites three
  registers while the queue may be running).
* **queue_shared**: one job of the queue, an inference or a clear, and two jobs of
  the direct client on either unit, one behind the other, so that the clear of a
  done bit meets the next completion. A job that is dispatched is on its way,
  flagged, or offered to the NPU, and it meets a busy NPU, which ignores it, only
  when the direct client started the NPU one edge before.
* **emu_queue**: descriptors of seven kinds (a runtime and an inherited model, a
  draw that leaves the screen and is wound the other way, a clear, a NOP, an
  unknown opcode, an output that does not exist) and every direct call, four in
  all, with submits, syncs and resets between them. The emulator implements the
  same `JobQueue` as the hardware.
* **demo_flow**: the ten calls of `main` on the board, started three times,
  polling or with interrupts, with or without an interrupt in the device tree,
  killed anywhere.
* **boot_monitor**: fifteen headers, good and bad, the first boot and any two
  commands from the terminal, which may then send text for ever, a key pressed or
  released, extended or not, and a loaded program that reads both, with the
  variables in the block and apart from it.

### Bounds

| bound | why it is enough |
|---|---|
| `EntryCount` 2 or 3 | full, empty and wrapped; capacity 1 or 2 |
| `Jobs` 1 to 4 | two NPU jobs can meet at every pair of stages; four jobs go round a ring of three |
| `CountMod` 8 | more than the events of any run, so that no counter wraps in TLC's runs; the theorems hold for wrapping counters |
| `Doorbells` {1,2} | a change and a repetition of the value; with {1} a second doorbell is a repetition. The emulator's {0,3} are the value that starts nothing and one that does |
| `MaxResets`, `MaxDisables`, `MaxErrors` 0 or 1 | the properties concern one disturbance at every possible edge |
| `MaxDirect` 0 or 2 | two direct jobs behind each other, beside a queued one |
| `FbRows`, `BoxSizes` | the duration of a clear (32 rows in the code) and of a draw, in edges; the passing runs shorten both, which keeps the GPU busy for some edges and the state space small; the runs of findings use the code's 32 rows and a box of 9 by 9 |
| `CmdqBytes` 112 | three slots and a part of one, which does not count |
| `NBufs` 2, `MaxJobs` 3, `MaxCalls` 4 | two jobs with different buffers, and a direct call before and after them; three jobs wrap the ring. The theorems have no bound |
| `Cols`, `Rows` 4 and 5 | triangles inside, across the edge and of either winding; the raster theorem is for every screen and triangle |
| `MaxPolls` 2 | stands for 1,000,000: whether a wait gives up, and after which poll, is any at both |
| `MaxRuns` 3 | a run on what a killed run left, and one on what that left |
| 48 words of SRAM, addresses of ten bits | block, image, test area and stack are apart, and sums can wrap |
| `MaxChars` 2, `MaxKeys` 1 | a command on the state another left, with a key or a prefix between them; the characters after the second are all `?`, without end |

### Fairness

The queue path: `WF_vars(Next)`: the clock runs. `WF` of an edge that moves the
read half, and of one that moves the write half: an AXI slave answers in the end.
`WF` of a library call that has begun: a thread that is scheduled finishes a call
that never blocks. `WF` of the direct client: it polls in a loop. Nothing obliges
a client to begin a call.

The direct client: `WF` of the process (the scheduler runs it), of an inference,
of the GPU's scan, and of the interrupt handler. Nothing obliges a user to start
or to kill the program. The boot ROM: `WF` of the monitor, which is the
processor's only program. `KeyServed` assumes besides that the terminal is quiet
in the end: the keyboard is polled only when the UART has nothing (`bootrom.c`
440-444), so a terminal that sends for ever starves it. The emulator: none; its
properties are about steps.

### What the runs show to be otherwise

* `finding_status_empty`: `tb/accel_cmdq_frontend_stub_tb.v` expects the `EMPTY`
  bit after the first of two descriptors; the frontend compares `HEAD` with the
  tail, and the ring is not empty. `StatusTruthful` is about the bit as the code
  has it, which is the one software needs.
* `finding_errored_descriptor`: a read error on any beat but the last is
  forgotten; the descriptor is counted valid and dispatched.
* `finding_runtime_weights`: the top selects the payload's weights only during
  the start pulse; the NPU reads them at the end, and gets the MMIO weights.
* `finding_exec_status`: a 61-bit concatenation is assigned to the 32-bit
  `exec_status`; count and model id never show.
* `finding_boot_info`: with the variables where `linker.ld` puts them, the boot
  info block does not hold what `docs/BOOT_IMAGE_FORMAT.md` says after a boot
  that succeeded: `boot_entry_addr` and `boot_loaded` are written over it.
* `finding_base_image`: an image at `SRAM_BASE`, the address the documents name
  as the usual one, is entered with the boot info block over its first words,
  written after its checksum matched, wherever the variables lie.

Behaviour that no document rules out, so that it is no finding, but a user
should know. The queue: the frontend reads one descriptor per change of
`DOORBELL`, where the emulator drains the ring, so a batch needs a doorbell per
descriptor; the board's client does not use the queue yet (`accel_mmio_demo.c`
1043-1045). A GPU command for a busy GPU is dropped although it was counted; an
NPU job that is started one edge after a direct start is ignored by the NPU,
counted by `exec_count`, and the direct client's result is stored in its place;
disabling in the middle of a descriptor burst leaves the arbiter with a burst
nobody takes, and no address is granted again; disabling reloads the tail from
`TAIL`, which hardware never writes; two clients of one unit can take each
other's completion; a queued runtime job leaves its weights in the weight
registers of the emulator. The boot ROM: when the variables share the block, an
image at `SRAM_BASE` that fails its checksum leaves `boot_loaded` nonzero, so
that `g` enters it, and a boot that succeeds leaves its size and entry address
in the two prefixes, so that the next key pressed does nothing; a scan code that
arrives at the edge the data register is read is lost without the overflow flag;
an image over the stack overwrites the loader's own frame; when the variables
share the block, the RAM test misjudges where the image ends, and may write over
one that ends past `RAMTEST_MIN_BASE`; `m` traps when the block's second word is
no multiple of four. `LoadedIsVerified`, `RamTestInBounds` and `GoVerified` are
stated for images clear of the stack and of the variables, wherever these lie
(`Clear`). `GoVerified` is about the words of the image outside the block; that
they are all still there is promised when the variables lie apart (`Apart`) or
the image ends below `RAMTEST_MIN_BASE`, where the RAM test leaves it alone.

## What is proved

For every value of the constants, from the assumptions named `...Assumption` in
the modules. They say that the constants have the obvious types; for the
emulator's clients, that the biases they write are such that no sum leaves
`int32_t` (beyond that the sums in `emu_run_npu` are undefined behaviour); and for
the boot ROM that SRAM holds the block and the stack and twice the margin of the
RAM test, that everything is aligned, and that SRAM ends 32 bytes below the end
of the addresses at the latest, as `platform.h` and `linker.ld` have it.

**The queue path** (`QueueTypes`, `QueueProofs`, `FifoProofs`). All its safety
properties, for every ring size, counter width, list of jobs and memory port.
A theorem whose property needs a client that behaves says so in its statement:
`host.disables = 0`, for instance, holds until the queue is first disabled. One
lemma per clocked block reduces it to the few branches a property can tell apart
(`PfStep`, `ExStep`, `FxStep`, `FeStep`, `ArbStep`, `NpuStep`, `StStep`, `RdStep`,
`WrStep`, and `SoftStep` for what software does between two edges); the steps of
the invariants are case splits over these.

* `TypeCorrectness`: `Spec => []TypeOK`. One lemma per clocked block, with one
  step per branch; `NextTyped` puts them together. `TypeOK` holds more than types
  where indices need it: the state of a burst bounds its beat.
* `HandshakeHolds`: `Spec => []Handshake`. Inductive relative to `TypeOK`.
* `DispatchAccounted`: inductive relative to `TypeOK` and `Handshake`.
  `NpuAccounted` has two parts. `NpuCounted`, inductive relative to these, is
  the count. `OffersTaken` is about the start of a job: it follows an edge at
  which the stub saw the NPU idle, so an NPU that is busy now was started at
  that edge, by the other input of the start multiplexer, the direct client's.
  The counters wrap, so the steps need lemmas on remainders of sums (`SumSplit`,
  `Remainder`, `SumMod`, `IncInSum`).
* `ErrorsFlagged`: the invariant `ErrorKept` follows the error of a beat from
  the port through `burst_error` to the sticky flag.
* `BurstOwned`: `BurstOwner` until the first disable. `ReadOwned` adds to it who
  may have a request up, and that the request's address stays.
* `StatusIsTruthful`: `RingInOrder` says that HEAD and the hardware's tail are as
  far apart as the submitted descriptors that are not retired, that the host's
  cached tail lags by no more than the free slots, and that the slots between hold
  the jobs in order, the half-written one excepted. Positions are moved and
  measured on the circle without remainders (`Onward`, `Lag`).
* `QueueImplemented`: the refinement of `JobQueue`, when nobody resets, disables
  or errs. `DescInOrder` carries `RingInOrder` from the slot to the words the
  fetch stub has taken in. The safety part only: `JobQueue` promises no progress.
* `ExecIsNeverBusy`: `NpuInTime` compares two countdowns: what the NPU still
  needs, and the edges the payload fetch needs at the least, which is a whole
  descriptor and payload after a launch.
* `StoredResultsAreOwn`: `JobFlow` says for each place a job passes through
  (decoder, payload fetch, execute stub, NPU, store, memory) that what it holds is
  one job's, and that the next stage still has that job's offset when it needs
  it. It rests on all the invariants above.

**The rasterisers** (`RasterProofs`). `RasterIsTriangle`: the scan of the cut
bounding box lights every pixel of the triangle that is on the screen and no
other. That a pixel inside the triangle lies in the box comes from the
barycentric identities: area times a coordinate of the pixel is the sum of the
corners' coordinates weighted by the three edge functions, whose signs agree.
`DemoProofs` uses the same lemmas for the box of the hardware, which is cut on
all sides.

**The emulator** (`EmuProofs`, `EmuQueueProofs`).

* `PicturesAreRight`: `Spec => []PictureRight`, whoever drew and whatever the
  descriptors say. The invariant is `EInv`: the emulator is whole, its ring size
  and tail in range, its slots hold descriptors, its picture is the one asked
  for. `Executed` says what a descriptor may change, and rests on one lemma per
  kind of job.
* `ConfigsAreKept`: `Spec => ConfigKept`: the twelve registers that
  `emu_cmdq_execute_desc` saves are all it changes, but for the operands.
* `EmulatorImplementsQueue`: `Spec => ImplementsQueue`, the refinement of
  `JobQueue`. The invariant `QueueInv` says that head and cached head lie ahead
  of the tail by the jobs submitted and pushed that are not processed, that the
  slots between hold these jobs in order, and that the cached tail lags by so
  little that the library never takes a slot in use for a free one. It is needed
  because the ring knows positions only modulo its size.
* `DoorbellsDrain`: `Spec => DoorbellDrains`; the same invariant bounds what is
  left by the count that guards the loop.
* `CountersAreTruthful`: `Spec => []CountersTruthful`: the counters move with the
  list of processed jobs, one of them per descriptor, and every call that moves
  HEAD or TAIL leaves a fresh status word.
* `EmuTyped`: `Spec => []EmuTypeOK`. `TypeInv` adds that `jobs.pushed` stays below
  the number the next push is counted by, which a resynchronisation only lowers.
* `PicturesAreStored`: `Spec => QueuedPictureStored`: after a run the framebuffer
  is copied to the buffer the job set in the register, before `Restore` puts the
  register back (`SyncStores`); with `PictureRight` that copy is the picture.
* `QueuedResultsAreOwn`: `Spec => QueuedResultIsOwn`. `InferRight` equates
  `Infer`, for every model, word and weight, with the matrix product that
  `IsInference` states, whose four-step recursion is unrolled. `NpuComputes` says
  what a run reads and where it leaves the result, `NpuJobStores` carries that
  through a descriptor. The invariant `MemOK` keeps the buffers filled with words
  and weights.
* `SamplesAreOwn`: `Spec => []SampleIsOwn`. The invariant `SampleInv` says that
  the weight registers hold what the client wrote last as long as the sample is
  `clean`; `Restore` does not put these registers back, so `TurnSampled` needs
  `JobKeepsWeights`: no job loads them but a run of a runtime model.

**The direct client** (`DemoProofs`). `DemoTypes`, `AnswersAreOwn`,
`PicturesAreOwn`, `SleepersAreArmed`, `RunsLeaveClean`: the type invariant and
all the safety properties of `DemoProps`. The invariant `DInv` relates the place
in the script to what the registers, the unit and the done bits hold; about the
GPU it says which pixels of the box have been visited (`GpuScans`, `DrawnIsIn`)
and that the count is theirs (`CountIsOwn`).

**The boot ROM** (`BootProofs`). The type invariant and all the safety
properties.

* `BootTypes`, `LoadsInsideSram`, `LoadedWasVerified`: the invariant `BInv` adds
  to these that the header being copied passed its checks, and that a boot under
  way has forgotten the last one. The wrap of `load + size` is the point of the
  second.
* `TestsPass`: `Spec => []SelfTestsPass`, from what each test writes before it
  reads.
* `RamTestStaysInside`: `Spec => []RamTestInBounds`. Needs of the constants that
  rounding the image's end up, and the length of the test added to it, do not
  wrap at the end of SRAM (`BootAssumption`).
* `CommandsAreTyped`: `Spec => []KeyTyped`. The invariant `KeysOK` follows a
  prefix along the line, through the port, into the monitor's variables: a code
  that follows a prefix is behind it on the line, or the port holds the prefix,
  or the monitor remembers it (`Remembered`) in a variable that the boot attempt
  under way will not overwrite. When none is so the code has become an orphan, in
  one of three ways: the port lost the prefix, a boot attempt cleared it, or the
  loaded program read it and returned. Only an orphan may run a command.
* `GoesToVerified`: `Spec => GoVerified`. The invariant `GoInv` says that the
  copy holds every word below the one being copied, that afterwards no word of a
  verified image outside the block is lost until the next attempt (`ImageHeld`),
  and, for the RAM test to know, that the block says where the image is
  (`BlockSays`).

Only model-checked: everything under fairness (`DoorbellServed`,
`AcceptedJobStored`, `DirectReturns`, `RunEnds`, `KeyServed`), which is out of the
prover's reach.

## Not modelled

The AXI-Lite handshake, byte strobes and IRQ output wiring of the register file;
the arithmetic of the NPU in hardware (the emulator's is modelled); a queue and
a direct client on the emulator in two processes, which it does not allow. Of
the SoC: the bus and its decoder, the timer, the SPI controller and the SD card's
protocol, the serial lines of UART and PS/2 below a received character, the NPU's
decode of custom instructions. The shell top without processing system, the
video modules, the third-party CPU, the build scripts and the testbenches stay
out: no state of theirs takes part in a protocol of this code.

## Plan

Done: the queue path, the emulator, the direct client with the GPU's pixels, the
boot ROM, and their first proofs. What is left, in this order:

1. `AxiLiteRegs`: the register slave's handshake, strobes and IRQ, composed with
   `AccelRegs` and with `MmioDemo`. The AXI rules for the shared read port (a
   stable address while valid).
2. The SoC: bus and decoder, UART, PS/2, timer, SPI, each against what its
   registers promise.
3. The NPU of the hardware against `IsInference`, with its widths.
4. Proofs about the modules of steps 1 to 3; of those done, every safety property
   a run checks is proved.
