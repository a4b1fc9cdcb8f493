------------------------------ MODULE MmioDemo ------------------------------
(***************************************************************************)
(* The direct client on the board: the process accel_mmio_demo.c, which    *)
(* polls STATUS or sleeps in the UIO driver, the NPU and the GPU behind    *)
(* the register file accel_mmio_regs.v, and the kernel's interrupt         *)
(* handling between them.  The process may be killed at any step, by a     *)
(* user or by its own exit, and started again; the hardware keeps what it  *)
(* had.                                                                    *)
(*                                                                         *)
(* One register access is one step, where its order matters.  The writes   *)
(* of operands (SetRegisters, WriteWeights, Setup) and the reads of a      *)
(* result (Show) are one step each: the unit they belong to is idle then,  *)
(* and nothing else touches these registers; a run killed in the middle    *)
(* of them leaves values that the next run writes before it uses them.     *)
(* A start is seen in the busy bit by the next access: the pulse takes two *)
(* clocks, the bus more.  The GPU works edge by edge; an inference is one  *)
(* step, and its weights, inputs and result are values (EmuMath has the    *)
(* arithmetic).                                                            *)
(***************************************************************************)
EXTENDS GpuRaster, Sequences

CONSTANTS
  Script,         \* the calls of main, in order
  Models, RuntimeModels, Inputs, WeightSets, Triangles,
  None,           \* not one of these values
  MaxPolls,       \* bound: polls of one wait (1000000 in the code)
  MaxRuns         \* bound: times the program is started

Ops == {"npu", "weights", "setup", "clear", "draw"}
Calls == [op : Ops, model : Models, input : Inputs, weights : WeightSets,
          tri : Triangles]

ASSUME ScriptAssumption ==
  /\ Script \in Seq(Calls)
  /\ RuntimeModels \subseteq Models
  /\ None \notin Inputs /\ None \notin WeightSets
  /\ Triangles \subseteq Corners /\ None \notin Corners
  /\ MaxPolls \in Nat /\ MaxRuns \in Nat

VARIABLES
  busy, sticky,    \* the units that run, and whose done bit is set
  irq_enable,      \* the units whose done bit raises the interrupt line
  umem_on,         \* UMEM_CTRL has its enable bits
  cfg,             \* the registers a start latches
  weights,         \* the weight registers, read when an inference ends
  npu, result,     \* the inference that runs; the last one's result
  gpu, fb,         \* the GPU's registers; the pixels lit in its framebuffer
  wired,           \* the device tree gives the device its interrupt
  irq_on,          \* the kernel has the interrupt enabled
  pending,         \* interrupts counted since the process last read
  stage, k,        \* the process: where it is, and in which call
  use_irq, polls,
  asked,           \* history: the weights this run wrote, what it drew
  runs

device == <<busy, sticky, irq_enable, umem_on, cfg, weights, npu, result, gpu, fb>>
kernel == <<wired, irq_on, pending>>
process == <<stage, k, use_irq, polls, asked, runs>>
vars == <<device, kernel, process>>

Units == {"npu", "gpu"}
Stages == {"closed", "irq", "call", "enable", "set", "start", "read", "poll",
           "print", "clear"}

(* vertex0_xy .. vertex2_xy out of reset.                                  *)
ResetTriangle == << <<2, 2>>, <<10, 2>>, <<2, 10>> >>

(* Out of reset, but for a picture another client may have left.           *)
Init ==
  /\ busy = {} /\ sticky = {} /\ irq_enable = {} /\ umem_on = FALSE
  /\ cfg = [model |-> None, input |-> None, op |-> "draw", tri |-> ResetTriangle]
  /\ weights = None
  /\ npu = [model |-> None, input |-> None]
  /\ result = [model |-> None, input |-> None, weights |-> None]
  /\ gpu = GpuReset /\ fb \in {{}, Pixels}
  /\ wired \in BOOLEAN /\ irq_on = TRUE /\ pending = FALSE
  /\ stage = "closed" /\ k = 1 /\ use_irq = FALSE /\ polls = 0
  /\ asked = [weights |-> None, drawn |-> {None}] /\ runs = 0

-----------------------------------------------------------------------------
(* The hardware.                                                           *)

Line == sticky \cap irq_enable # {}

Computed(model, input, w) ==
  [model |-> model, input |-> input,
   weights |-> IF model \in RuntimeModels THEN w ELSE None]

(* A start is ignored by a unit that runs.                                 *)
StartUnit(u) ==
  /\ busy' = busy \cup {u}
  /\ npu' = IF u = "npu" /\ u \notin busy
            THEN [model |-> cfg.model, input |-> cfg.input] ELSE npu
  /\ gpu' = IF u = "gpu" /\ u \notin busy
            THEN IF cfg.op = "clear" THEN StartClear(gpu) ELSE StartDraw(gpu, cfg.tri)
            ELSE gpu

NpuDone ==
  /\ "npu" \in busy
  /\ busy' = busy \ {"npu"} /\ sticky' = sticky \cup {"npu"}
  /\ result' = Computed(npu.model, npu.input, weights)
  /\ UNCHANGED <<irq_enable, umem_on, cfg, weights, npu, gpu, fb, kernel, process>>

GpuWork ==
  /\ "gpu" \in busy /\ ~LastEdge(gpu)
  /\ fb' = Framebuffer(gpu, fb) /\ gpu' = Advance(gpu)
  /\ UNCHANGED <<busy, sticky, irq_enable, umem_on, cfg, weights, npu, result,
                 kernel, process>>

GpuDone ==
  /\ "gpu" \in busy /\ LastEdge(gpu)
  /\ busy' = busy \ {"gpu"} /\ sticky' = sticky \cup {"gpu"}
  /\ fb' = Framebuffer(gpu, fb)
  /\ gpu' = [gpu EXCEPT !.raster_pixels = Counted(gpu)]
  /\ UNCHANGED <<irq_enable, umem_on, cfg, weights, npu, result, kernel, process>>

(* The driver's handler: the line is level sensitive, so the driver counts *)
(* the interrupt and disables it until the process writes to the device.   *)
Interrupt ==
  /\ wired /\ irq_on /\ Line
  /\ irq_on' = FALSE /\ pending' = TRUE
  /\ UNCHANGED <<wired, device, process>>

-----------------------------------------------------------------------------
(* The process.                                                            *)

Running == stage # "closed"
Call == Script[k]
Unit(c) == IF c.op = "npu" THEN "npu" ELSE "gpu"
UsesUnit(c) == c.op \in {"npu", "clear", "draw"}

Goto(s) == stage' = s /\ UNCHANGED <<k, use_irq, polls, asked, runs>>
NextCall == stage' = "call" /\ k' = k + 1 /\ UNCHANGED <<use_irq, polls, asked, runs>>

(* main up to the mmap.  The last run's command has ended: starting a      *)
(* process takes longer than any command.                                  *)
Open ==
  /\ ~Running /\ busy = {} /\ runs < MaxRuns
  /\ runs' = runs + 1 /\ stage' = "irq" /\ k' = 1 /\ polls' = 0
  /\ use_irq' \in BOOLEAN
  /\ asked' = [weights |-> None, drawn |-> {None}]
  /\ pending' = FALSE
  /\ UNCHANGED <<device, wired, irq_on>>

WriteIrqEnable ==
  /\ stage = "irq" /\ Goto("call")
  /\ irq_enable' = IF use_irq THEN Units ELSE {}
  /\ UNCHANGED <<busy, sticky, umem_on, cfg, weights, npu, result, gpu, fb, kernel>>

(* The script is done: main unmaps, closes and returns.                    *)
Close ==
  /\ stage = "call" /\ k > Len(Script) /\ Goto("closed")
  /\ UNCHANGED <<device, kernel>>

InCall(s) == stage = s /\ k <= Len(Script)

(* write_runtime_model and the weight writes before the MLP sample.        *)
WriteWeights ==
  /\ InCall("call") /\ Call.op = "weights"
  /\ weights' = Call.weights
  /\ asked' = [asked EXCEPT !.weights = Call.weights]
  /\ stage' = "call" /\ k' = k + 1
  /\ UNCHANGED <<busy, sticky, irq_enable, umem_on, cfg, npu, result, gpu, fb,
                 kernel, use_irq, polls, runs>>

(* configure_unified_memory; on the board the two demos that follow it     *)
(* print a few registers and return.                                       *)
Setup ==
  /\ InCall("call") /\ Call.op = "setup" /\ NextCall
  /\ umem_on' = TRUE
  /\ UNCHANGED <<busy, sticky, irq_enable, cfg, weights, npu, result, gpu, fb, kernel>>

(* run_npu_sample enables the interrupt and then sets its registers,       *)
(* run_gpu_demo the other way round.                                       *)
Begin ==
  /\ InCall("call") /\ UsesUnit(Call)
  /\ Goto(IF Call.op = "npu" THEN "enable" ELSE "set")
  /\ UNCHANGED <<device, kernel>>

(* Mutant: the interrupt is enabled for the first call of a run only.      *)
EnablesFirst == use_irq /\ k = 1

Enables == use_irq

AfterEnable == IF Call.op = "npu" THEN "set" ELSE "start"
uio_enable_irq ==
  /\ InCall("enable") /\ (Enables => wired)
  /\ irq_on' = (irq_on \/ Enables)
  /\ Goto(AfterEnable)
  /\ UNCHANGED <<device, wired, pending>>

(* Without an interrupt the driver refuses the write, and the process      *)
(* exits.                                                                  *)
UioRefuses ==
  /\ InCall("enable") /\ Enables /\ ~wired /\ Goto("closed")
  /\ UNCHANGED <<device, kernel>>

SetRegisters ==
  /\ InCall("set")
  /\ cfg' = IF Call.op = "npu"
            THEN [cfg EXCEPT !.model = Call.model, !.input = Call.input]
            ELSE IF Call.op = "clear" THEN [cfg EXCEPT !.op = "clear"]
            ELSE [cfg EXCEPT !.op = "draw", !.tri = Call.tri]
  /\ Goto(IF Call.op = "npu" THEN "start" ELSE "enable")
  /\ UNCHANGED <<busy, sticky, irq_enable, umem_on, weights, npu, result, gpu, fb, kernel>>

WriteControl ==
  /\ InCall("start") /\ StartUnit(Unit(Call))
  /\ asked' = [asked EXCEPT !.drawn =
                 CASE Call.op = "npu" -> @
                   [] Call.op = "clear" -> {}
                   [] Call.op = "draw" -> @ \cup {Call.tri}]
  /\ stage' = (IF use_irq THEN "read" ELSE "poll") /\ polls' = 0
  /\ UNCHANGED <<sticky, irq_enable, umem_on, cfg, weights, result, fb, kernel,
                 k, use_irq, runs>>

(* The read of the UIO device returns once an interrupt has been counted.  *)
UioRead ==
  /\ InCall("read") /\ pending /\ pending' = FALSE /\ Goto("poll")
  /\ UNCHANGED <<device, wired, irq_on>>

(* Mutant: the busy bit is not looked at.                                  *)
CompleteByDoneBit(u) == u \in sticky

Complete(u) == u \notin busy /\ u \in sticky

PollSucceeds ==
  /\ InCall("poll") /\ Complete(Unit(Call)) /\ Goto("print")
  /\ UNCHANGED <<device, kernel>>

(* Mutant: the wait gives up one poll too late.                            *)
PollAgainOnceMore ==
  /\ InCall("poll") /\ ~Complete(Unit(Call)) /\ polls <= MaxPolls
  /\ polls' = polls + 1
  /\ UNCHANGED <<device, kernel, stage, k, use_irq, asked, runs>>

PollAgain ==
  /\ InCall("poll") /\ ~Complete(Unit(Call)) /\ polls < MaxPolls
  /\ polls' = polls + 1
  /\ UNCHANGED <<device, kernel, stage, k, use_irq, asked, runs>>

PollTimeout ==
  /\ InCall("poll") /\ ~Complete(Unit(Call)) /\ polls = MaxPolls /\ Goto("closed")
  /\ UNCHANGED <<device, kernel>>

(* The result registers, or the framebuffer row by row, are read and shown.*)
Show ==
  /\ InCall("print") /\ Goto("clear")
  /\ UNCHANGED <<device, kernel>>

(* Mutant: only the NPU's done bit is cleared.                             *)
AckNpu(u) == {u} \cap {"npu"}

Ack(u) == {u}

ClearDone ==
  /\ InCall("clear") /\ NextCall
  /\ sticky' = sticky \ Ack(Unit(Call))
  /\ UNCHANGED <<busy, irq_enable, umem_on, cfg, weights, npu, result, gpu, fb, kernel>>

Kill ==
  /\ Running /\ Goto("closed")
  /\ UNCHANGED <<device, kernel>>

Start == Open \/ WriteIrqEnable \/ Close
Drive == Begin \/ uio_enable_irq \/ UioRefuses \/ SetRegisters \/ WriteControl
Wait == UioRead \/ PollSucceeds \/ PollAgain \/ PollTimeout
Finish == Show \/ ClearDone
Configure == WriteWeights \/ Setup

Program == WriteIrqEnable \/ Close \/ Configure \/ Drive \/ Wait \/ Finish
Gpu == GpuWork \/ GpuDone
Hardware == NpuDone \/ Gpu \/ Interrupt
Next == Open \/ Program \/ Hardware \/ Kill

(* The scheduler runs the process, a started unit works, and the kernel    *)
(* takes an interrupt whose line stays up.  Nothing makes a user start the *)
(* program, or kill it.                                                    *)
Fairness ==
  WF_vars(Program) /\ WF_vars(NpuDone) /\ WF_vars(Gpu) /\ WF_vars(Interrupt)

Spec == Init /\ [][Next]_vars /\ Fairness
=============================================================================
