------------------------------ MODULE EmuDevice ------------------------------
(***************************************************************************)
(* The accelerator the host emulates (accel_emulator_t and the emu_        *)
(* functions of linux/uio/accel_mmio_demo.c).  Every operator takes the    *)
(* emulator before a call and returns it after.                            *)
(*                                                                         *)
(* reg holds the registers that are read back as they were written, by the *)
(* names of accel_mmio.h.  The unified memory is four arrays of buffers,   *)
(* one per use, and the ring; an offset is the number of a buffer, and     *)
(* NBufs + 1 stands for every offset past the end of memory, where the     *)
(* emulator exits the process.  An offset of 0 in a GPU descriptor means   *)
(* the register's.  The busy bits are never seen: a run ends within the    *)
(* call that starts it.                                                    *)
(***************************************************************************)
EXTENDS EmuMath

CONSTANTS
  NBufs,       \* buffers per use
  CmdqBytes    \* ACCEL_UMEM_CMDQ_BYTES

ASSUME EmuAssumption == NBufs \in Nat \ {0} /\ CmdqBytes \in Nat \ {0}

Bufs == 1..NBufs
OutOfRange == NBufs + 1

DESC_BYTES == 32
(* emu_cmdq_entry_count: at least one, and no part of one.                 *)
entry_count(bytes) ==
  LET least == IF bytes < DESC_BYTES THEN DESC_BYTES ELSE bytes
  IN  (least - (least % DESC_BYTES)) \div DESC_BYTES
Entries == entry_count(CmdqBytes)
Slots == 0..Entries-1

NOP == 0
NPU_INFER == 1
GPU_CLEAR == 2
GPU_DRAW_TRI == 3

CLEAR == 1      \* GPU_CMD_CLEAR
DRAW_TRI == 2   \* GPU_CMD_DRAW_TRI

Ctrl == {"ENABLE", "NPU_USE_BUF", "GPU_USE_BUF", "CMDQ_ENABLE"}

(* The registers a queued descriptor sets for its own run, and puts back.  *)
Saved == {"UMEM_CTRL", "UMEM_NPU_INPUT", "UMEM_NPU_WEIGHT", "UMEM_NPU_OUTPUT",
          "UMEM_GPU_FB", "NPU_MODEL", "NPU_SEQ", "GPU_CMD", "GPU_VERTEX0",
          "GPU_VERTEX1", "GPU_VERTEX2", "GPU_CLEAR_VALUE"}
(* The NPU's operands, which a run from memory overwrites.                 *)
Operands == {"NPU_INPUT0", "NPU_INPUT1", "NPU_WEIGHTS"}
Others == {"IRQ_ENABLE", "GPU_FB_ROWSEL", "CMDQ_SIZE", "CMDQ_HEAD", "CMDQ_TAIL",
           "CMDQ_DOORBELL", "CONTROL"}
Registers == Saved \cup Operands \cup Others

IDLE == 0
BUSY == 1
ERROR == 2

NoBox == [min_x |-> 0, min_y |-> 0, max_x |-> 0, max_y |-> 0]
ZeroWeights == Weights(ZeroWord, ZeroWord, ZeroWord, ZeroWord, 0, 0)
NoDesc == [opcode |-> NOP, model |-> 0, src0 |-> 0, src1 |-> 0, src2 |-> 0,
           dst0 |-> 0, arg0 |-> 0]
EmptySlot == [id |-> 0, desc |-> NoDesc, done |-> FALSE, error |-> FALSE]

(* emu_init.  memset clears the rest.                                      *)
ResetRegisters ==
  [r \in Registers |->
     CASE r = "UMEM_CTRL" -> {}
       [] r \in {"UMEM_NPU_INPUT", "UMEM_NPU_WEIGHT", "UMEM_NPU_OUTPUT", "UMEM_GPU_FB"} -> 1
       [] r = "NPU_MODEL" -> BUILTIN_1
       [] r = "NPU_SEQ" -> 8
       [] r = "GPU_CMD" -> DRAW_TRI
       [] r = "GPU_VERTEX0" -> <<2, 2>>
       [] r = "GPU_VERTEX1" -> <<10, 2>>
       [] r = "GPU_VERTEX2" -> <<2, 10>>
       [] r = "NPU_INPUT0" -> <<1, 2, 3, 4>>
       [] r = "NPU_INPUT1" -> ZeroWord
       [] r = "NPU_WEIGHTS" -> Weights(Ones, MinusOnes, MinusOnes, Ones, 0, 0)
       [] r \in {"IRQ_ENABLE", "CONTROL"} -> {}
       [] r = "CMDQ_SIZE" -> CmdqBytes
       [] r \in {"GPU_CLEAR_VALUE", "GPU_FB_ROWSEL", "CMDQ_HEAD", "CMDQ_TAIL",
                 "CMDQ_DOORBELL"} -> 0]

emu_init ==
  [reg |-> ResetRegisters, npu_done |-> FALSE, gpu_done |-> FALSE,
   result |-> NoResult, fb |-> {}, exited |-> FALSE,
   gpu |-> [triangles |-> 0, frames |-> 0, pixels |-> 0, area2 |-> 0, bbox |-> NoBox],
   status |-> [busy |-> FALSE, error |-> FALSE, empty |-> TRUE, processed |-> 0],
   processed |-> 0,
   last |-> [slot |-> 0, sequence |-> 0, beats |-> 0, opcode |-> 0],
   fetch_status |-> IDLE, dispatch_status |-> IDLE, dispatch_opcode |-> 0,
   npu_count |-> 0, gpu_count |-> 0, error_count |-> 0,
   exec |-> [count |-> 0, model |-> 0, input |-> 0, output |-> 0],
   mem |-> [in |-> [b \in Bufs |-> <<ZeroWord, ZeroWord>>],
            w |-> [b \in Bufs |-> ZeroWeights], out |-> [b \in Bufs |-> NoResult],
            fb |-> [b \in Bufs |-> {}], ring |-> [s \in Slots |-> EmptySlot]]]

Exit(e) == [e EXCEPT !.exited = TRUE]

(* Writes of registers that only keep what is written.                     *)
Keep(e, f) ==
  [e EXCEPT !.reg = [r \in Registers |-> IF r \in DOMAIN f THEN f[r] ELSE @[r]]]

-----------------------------------------------------------------------------
(* The NPU.                                                                *)

UsesBuffer(e, bit) == {"ENABLE", bit} \subseteq e.reg["UMEM_CTRL"]

(* Mutant: the weights are loaded for the built-in models too.             *)
LoadOperandsAlways(e) ==
  LET input == e.mem.in[e.reg["UMEM_NPU_INPUT"]]
  IN  Keep(e, [r \in Operands |->
         CASE r = "NPU_INPUT0" -> input[1]
           [] r = "NPU_INPUT1" -> input[2]
           [] r = "NPU_WEIGHTS" -> e.mem.w[IF e.reg["UMEM_NPU_WEIGHT"] \in Bufs
                                           THEN e.reg["UMEM_NPU_WEIGHT"] ELSE 1]])

(* The operands of a run from memory come through the operand registers.   *)
LoadOperands(e) ==
  LET input == e.mem.in[e.reg["UMEM_NPU_INPUT"]]
      both  == [r \in {"NPU_INPUT0", "NPU_INPUT1"} |->
                  IF r = "NPU_INPUT0" THEN input[1] ELSE input[2]]
  IN  IF FromRegisters(e.reg["NPU_MODEL"])
      THEN Keep(Keep(e, both), [r \in {"NPU_WEIGHTS"} |-> e.mem.w[e.reg["UMEM_NPU_WEIGHT"]]])
      ELSE Keep(e, both)

Result(e) ==
  Infer(e.reg["NPU_MODEL"], e.reg["NPU_SEQ"], e.reg["NPU_INPUT0"],
        e.reg["NPU_INPUT1"], e.reg["NPU_WEIGHTS"])

BuffersInRange(e) ==
  /\ e.reg["UMEM_NPU_INPUT"] \in Bufs /\ e.reg["UMEM_NPU_OUTPUT"] \in Bufs
  /\ FromRegisters(e.reg["NPU_MODEL"]) => e.reg["UMEM_NPU_WEIGHT"] \in Bufs

emu_run_npu(e) ==
  IF ~UsesBuffer(e, "NPU_USE_BUF")
  THEN [e EXCEPT !.result = Result(e), !.npu_done = TRUE]
  ELSE IF ~BuffersInRange(e) THEN Exit(e)
  ELSE LET l == LoadOperands(e)
       IN  [l EXCEPT !.result = Result(l), !.npu_done = TRUE,
                     !.mem.out[l.reg["UMEM_NPU_OUTPUT"]] = Result(l)]

-----------------------------------------------------------------------------
(* The GPU.  The framebuffer is copied whole to memory after every run.    *)

(* Mutant: the copy is made for a clear only.                              *)
SyncClearOnly(e) ==
  IF e.gpu.pixels # 0 \/ ~UsesBuffer(e, "GPU_USE_BUF") THEN e
  ELSE IF e.reg["UMEM_GPU_FB"] \notin Bufs THEN Exit(e)
  ELSE [e EXCEPT !.mem.fb[e.reg["UMEM_GPU_FB"]] = e.fb]

Sync(e) ==
  IF ~UsesBuffer(e, "GPU_USE_BUF") THEN e
  ELSE IF e.reg["UMEM_GPU_FB"] \notin Bufs THEN Exit(e)
  ELSE [e EXCEPT !.mem.fb[e.reg["UMEM_GPU_FB"]] = e.fb]

emu_run_gpu_clear(e) ==
  Sync([e EXCEPT !.fb = IF e.reg["GPU_CLEAR_VALUE"] % 2 = 1 THEN Pixels ELSE {},
                 !.gpu = [@ EXCEPT !.pixels = 0, !.area2 = 0, !.bbox = NoBox,
                                 !.frames = @ + 1],
                 !.gpu_done = TRUE])

emu_run_gpu_draw(e) ==
  LET t == <<e.reg["GPU_VERTEX0"], e.reg["GPU_VERTEX1"], e.reg["GPU_VERTEX2"]>>
  IN  Sync([e EXCEPT !.fb = @ \cup Raster(t),
                     !.gpu = [triangles |-> @.triangles + 1, frames |-> @.frames + 1,
                              pixels |-> Cardinality(Raster(t)), area2 |-> area2(t),
                              bbox |-> BBox(t)],
                     !.gpu_done = TRUE])

-----------------------------------------------------------------------------
(* The command processor.                                                  *)

emu_cmdq_refresh_status(e, error_seen) ==
  [e EXCEPT !.status = [busy |-> FALSE, error |-> error_seen,
                        empty |-> e.reg["CMDQ_HEAD"] = e.reg["CMDQ_TAIL"],
                        processed |-> e.processed % 65536]]

IsKnown(opcode) == opcode \in {NOP, NPU_INFER, GPU_CLEAR, GPU_DRAW_TRI}

RunNpuJob(e, d) ==
  LET set == Keep(e, [r \in {"UMEM_CTRL", "UMEM_NPU_INPUT", "UMEM_NPU_WEIGHT",
                             "UMEM_NPU_OUTPUT", "NPU_MODEL", "NPU_SEQ"} |->
               CASE r = "UMEM_CTRL" -> e.reg[r] \cup {"ENABLE", "NPU_USE_BUF"}
                 [] r = "UMEM_NPU_INPUT" -> d.src0
                 [] r = "UMEM_NPU_WEIGHT" -> d.src1
                 [] r = "UMEM_NPU_OUTPUT" -> d.dst0
                 [] r = "NPU_MODEL" -> IF d.model # 0 THEN d.model ELSE e.reg[r]
                 [] r = "NPU_SEQ" -> IF d.arg0 # 0 THEN d.arg0 % 65536 ELSE 8])
  IN  [emu_run_npu(set) EXCEPT
         !.exec = [count |-> (@.count + 1) % 65536, model |-> set.reg["NPU_MODEL"],
                   input |-> d.src0, output |-> d.dst0],
         !.npu_count = @ + 1]

TargetFb(e, d) == IF d.dst0 # 0 THEN d.dst0 ELSE e.reg["UMEM_GPU_FB"]

RunClearJob(e, d) ==
  [emu_run_gpu_clear(Keep(e, [r \in {"UMEM_CTRL", "UMEM_GPU_FB", "GPU_CMD", "GPU_CLEAR_VALUE"} |->
     CASE r = "UMEM_CTRL" -> e.reg[r] \cup {"ENABLE", "GPU_USE_BUF"}
       [] r = "UMEM_GPU_FB" -> TargetFb(e, d)
       [] r = "GPU_CMD" -> CLEAR
       [] r = "GPU_CLEAR_VALUE" -> d.arg0 % 256]))
   EXCEPT !.gpu_count = @ + 1]

RunDrawJob(e, d) ==
  [emu_run_gpu_draw(Keep(e, [r \in {"UMEM_CTRL", "UMEM_GPU_FB", "GPU_CMD", "GPU_VERTEX0",
                                    "GPU_VERTEX1", "GPU_VERTEX2"} |->
     CASE r = "UMEM_CTRL" -> e.reg[r] \cup {"ENABLE", "GPU_USE_BUF"}
       [] r = "UMEM_GPU_FB" -> TargetFb(e, d)
       [] r = "GPU_CMD" -> DRAW_TRI
       [] r = "GPU_VERTEX0" -> d.src0
       [] r = "GPU_VERTEX1" -> d.src1
       [] r = "GPU_VERTEX2" -> d.src2]))
   EXCEPT !.gpu_count = @ + 1]

(* Mutant: the sequence length is not put back.                            *)
RestoreAllButSeq(e, old) == Keep(e, [r \in Saved \ {"NPU_SEQ"} |-> old.reg[r]])

Restore(e, old) == Keep(e, [r \in Saved |-> old.reg[r]])

(* emu_cmdq_execute_desc; the slot is then marked, and an exit leaves it.  *)
execute_desc(e, d) ==
  LET ran == CASE d.opcode = NPU_INFER -> RunNpuJob(e, d)
               [] d.opcode = GPU_CLEAR -> RunClearJob(e, d)
               [] d.opcode = GPU_DRAW_TRI -> RunDrawJob(e, d)
               [] d.opcode = NOP -> e
               [] OTHER -> [e EXCEPT !.error_count = @ + 1]
  IN  [Restore(ran, e) EXCEPT !.dispatch_opcode = d.opcode,
         !.dispatch_status = IF IsKnown(d.opcode) THEN IDLE ELSE ERROR]

(* The start of emu_cmdq_process.                                          *)
BeginProcess(e) ==
  [e EXCEPT !.status = [busy |-> TRUE, error |-> FALSE, empty |-> FALSE,
                        processed |-> e.processed % 65536],
            !.fetch_status = IF e.reg["CMDQ_HEAD"] = e.reg["CMDQ_TAIL"] THEN IDLE ELSE BUSY,
            !.last.beats = 0]

(* Mutant: the tail is not wrapped.                                        *)
NextTailNoWrap(tail, n) == tail + 1

NextTail(tail, n) == (tail + 1) % n

(* One turn of its loop.                                                   *)
ProcessOne(e) ==
  LET n    == entry_count(e.reg["CMDQ_SIZE"])
      slot == e.reg["CMDQ_TAIL"] % n
      d    == e.mem.ring[slot].desc
      ran  == execute_desc([e EXCEPT !.last = [slot |-> slot, sequence |-> e.processed,
                                               beats |-> 8, opcode |-> d.opcode]], d)
  IN  IF ran.exited THEN ran
      ELSE [Keep(ran, [r \in {"CMDQ_TAIL"} |-> NextTail(e.reg["CMDQ_TAIL"], n)]) EXCEPT
              !.mem.ring[slot] = [@ EXCEPT !.done = TRUE, !.error = ~IsKnown(d.opcode)],
              !.fetch_status = IF IsKnown(d.opcode) THEN IDLE ELSE ERROR,
              !.processed = @ + 1]

(* Its end: descriptors may be left when the ring has shrunk under HEAD.   *)
EndProcess(e, error_seen) ==
  LET left == e.reg["CMDQ_TAIL"] # e.reg["CMDQ_HEAD"]
  IN  emu_cmdq_refresh_status(
        [e EXCEPT !.fetch_status = IF left THEN ERROR ELSE @], error_seen \/ left)

-----------------------------------------------------------------------------
(* The register file.                                                      *)

(* emu_reg_write: CONTROL starts a run, STATUS clears done bits, a write   *)
(* of a queue register refreshes the status; a DOORBELL that is to process *)
(* the ring is EmuQueue's, which takes the loop one turn at a time.        *)
WriteControl(e, value) ==
  LET k == Keep(e, [r \in {"CONTROL"} |-> value])
      n == IF "NPU_START" \in value THEN emu_run_npu(k) ELSE k
  IN  IF "GPU_START" \notin value \/ n.exited THEN n
      ELSE IF n.reg["GPU_CMD"] = CLEAR THEN emu_run_gpu_clear(n) ELSE emu_run_gpu_draw(n)

WriteStatus(e, value) ==
  [e EXCEPT !.npu_done = @ /\ "CLR_NPU_DONE" \notin value,
            !.gpu_done = @ /\ "CLR_GPU_DONE" \notin value]

RefreshingRegs == {"CMDQ_SIZE", "CMDQ_HEAD", "CMDQ_TAIL", "CMDQ_DOORBELL"}
(* Mutant: a write of a queue register leaves the status as it was.        *)
WriteStale(e, f) == Keep(e, f)

Write(e, f) ==
  IF DOMAIN f \cap RefreshingRegs = {} THEN Keep(e, f)
  ELSE emu_cmdq_refresh_status(Keep(e, f), FALSE)

(* emu_reg_read, for the registers that are computed.                      *)
ReadStatus(e) ==
  (IF e.npu_done THEN {"NPU_DONE"} ELSE {}) \cup (IF e.gpu_done THEN {"GPU_DONE"} ELSE {})
=============================================================================
