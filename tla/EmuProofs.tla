------------------------------ MODULE EmuProofs ------------------------------
(***************************************************************************)
(* The emulator's pictures and registers, for every screen, set of         *)
(* descriptors, of triangles and of calls, and any number of them.         *)
(***************************************************************************)
EXTENDS EmuProps, RasterProofs

(* The emulator as a record: no call adds or removes a field.              *)
Fields == {"reg", "npu_done", "gpu_done", "result", "fb", "exited", "gpu", "status",
           "processed", "last", "fetch_status", "dispatch_status", "dispatch_opcode",
           "npu_count", "gpu_count", "error_count", "exec", "mem"}
Memories == {"in", "w", "out", "fb", "ring"}
Whole(e) == DOMAIN e = Fields /\ DOMAIN e.reg = Registers /\ DOMAIN e.mem = Memories

(* What a call leaves alone: all but the picture, the NPU's operands and   *)
(* the data in memory.                                                     *)
Leaves(e, n) ==
  /\ Whole(n) /\ n.mem.ring = e.mem.ring /\ n.last = e.last
  /\ \A r \in Registers \ Operands : n.reg[r] = e.reg[r]

-----------------------------------------------------------------------------
(* Writing registers.                                                      *)
LEMMA Kept ==
  ASSUME NEW e, Whole(e), NEW f, DOMAIN f \subseteq Registers
  PROVE  LET n == Keep(e, f)
         IN  /\ Whole(n) /\ n.fb = e.fb /\ n.mem = e.mem /\ n.last = e.last
             /\ n.exited = e.exited
             /\ \A r \in DOMAIN f : n.reg[r] = f[r]
             /\ \A r \in Registers : r \notin DOMAIN f => n.reg[r] = e.reg[r]
<1> DEFINE n == Keep(e, f)
<1>1. /\ DOMAIN n = Fields /\ n.fb = e.fb /\ n.mem = e.mem /\ n.last = e.last
      /\ n.exited = e.exited
      /\ n.reg = [r \in Registers |-> IF r \in DOMAIN f THEN f[r] ELSE e.reg[r]]
  BY DEF Keep, Whole, Fields
<1>2. QED
  BY <1>1 DEF Whole

(* An inference leaves the picture.                                        *)
LEMMA NpuLeaves ==
  ASSUME NEW e, Whole(e)
  PROVE  Leaves(e, emu_run_npu(e)) /\ emu_run_npu(e).fb = e.fb
<1> DEFINE l == LoadOperands(e)
<1>1. /\ Whole(l) /\ l.fb = e.fb /\ l.mem = e.mem /\ l.last = e.last
      /\ \A r \in Registers \ Operands : l.reg[r] = e.reg[r]
  <2> DEFINE input == e.mem.in[e.reg["UMEM_NPU_INPUT"]]
             both  == [r \in {"NPU_INPUT0", "NPU_INPUT1"} |->
                        IF r = "NPU_INPUT0" THEN input[1] ELSE input[2]]
             w == [r \in {"NPU_WEIGHTS"} |-> e.mem.w[e.reg["UMEM_NPU_WEIGHT"]]]
             k == Keep(e, both)
  <2>1. /\ DOMAIN both = {"NPU_INPUT0", "NPU_INPUT1"} /\ DOMAIN w = {"NPU_WEIGHTS"}
        /\ DOMAIN both \subseteq Operands /\ DOMAIN w \subseteq Operands
        /\ Operands \subseteq Registers
    BY DEF Operands, Registers
  <2>2. l = k \/ l = Keep(k, w)
    BY DEF LoadOperands
  <2> HIDE DEF both, w, l
  <2>3. /\ Whole(k) /\ k.fb = e.fb /\ k.mem = e.mem /\ k.last = e.last
        /\ \A r \in Registers \ Operands : k.reg[r] = e.reg[r]
    BY <2>1, Kept
  <2> HIDE DEF k
  <2>4. LET n == Keep(k, w)
        IN  /\ Whole(n) /\ n.fb = k.fb /\ n.mem = k.mem /\ n.last = k.last
            /\ \A r \in Registers \ Operands : n.reg[r] = k.reg[r]
    BY <2>1, <2>3, Kept
  <2>5. QED
    BY <2>2, <2>3, <2>4
<1>2. CASE ~UsesBuffer(e, "NPU_USE_BUF")
  BY <1>2 DEF emu_run_npu, Leaves, Whole, Fields
<1>3. CASE UsesBuffer(e, "NPU_USE_BUF") /\ ~BuffersInRange(e)
  BY <1>3 DEF emu_run_npu, Exit, Leaves, Whole, Fields
<1>4. CASE UsesBuffer(e, "NPU_USE_BUF") /\ BuffersInRange(e)
  <2>1. emu_run_npu(e) = [l EXCEPT !.result = Result(l), !.npu_done = TRUE,
                            !.mem.out[l.reg["UMEM_NPU_OUTPUT"]] = Result(l)]
    BY <1>4 DEF emu_run_npu
  <2> HIDE DEF l
  <2>2. QED
    BY <1>1, <2>1 DEF Leaves, Whole, Fields, Memories
<1>5. QED
  BY <1>2, <1>3, <1>4

(* The copy of the framebuffer leaves it.                                  *)
LEMMA SyncLeaves ==
  ASSUME NEW e, Whole(e)
  PROVE  Leaves(e, Sync(e)) /\ Sync(e).fb = e.fb
  BY DEF Sync, Exit, Leaves, Whole, Fields, Memories

LEMMA ClearPaints ==
  ASSUME NEW e, Whole(e)
  PROVE  /\ Leaves(e, emu_run_gpu_clear(e))
         /\ emu_run_gpu_clear(e).fb = IF e.reg["GPU_CLEAR_VALUE"] % 2 = 1 THEN Pixels ELSE {}
<1> DEFINE c == [e EXCEPT !.fb = IF e.reg["GPU_CLEAR_VALUE"] % 2 = 1 THEN Pixels ELSE {},
                          !.gpu = [@ EXCEPT !.pixels = 0, !.area2 = 0, !.bbox = NoBox,
                                          !.frames = @ + 1],
                          !.gpu_done = TRUE]
<1>1. /\ Leaves(e, c)
      /\ c.fb = IF e.reg["GPU_CLEAR_VALUE"] % 2 = 1 THEN Pixels ELSE {}
  BY DEF Leaves, Whole, Fields
<1>2. emu_run_gpu_clear(e) = Sync(c)
  BY DEF emu_run_gpu_clear
<1> HIDE DEF c
<1>3. Leaves(c, Sync(c)) /\ Sync(c).fb = c.fb
  BY <1>1, SyncLeaves DEF Leaves
<1>4. QED
  BY <1>1, <1>2, <1>3 DEF Leaves

LEMMA DrawPaints ==
  ASSUME NEW e, Whole(e)
  PROVE  LET t == <<e.reg["GPU_VERTEX0"], e.reg["GPU_VERTEX1"], e.reg["GPU_VERTEX2"]>>
         IN  /\ Leaves(e, emu_run_gpu_draw(e))
             /\ t \in Corners => emu_run_gpu_draw(e).fb = e.fb \cup Triangle(t)
<1> DEFINE t == <<e.reg["GPU_VERTEX0"], e.reg["GPU_VERTEX1"], e.reg["GPU_VERTEX2"]>>
           g == [triangles |-> e.gpu.triangles + 1, frames |-> e.gpu.frames + 1,
                 pixels |-> Cardinality(Raster(t)), area2 |-> area2(t), bbox |-> BBox(t)]
           c == [e EXCEPT !.fb = @ \cup Raster(t), !.gpu = g, !.gpu_done = TRUE]
<1>1. emu_run_gpu_draw(e) = Sync(c)
  BY DEF emu_run_gpu_draw
<1> HIDE DEF t, g
<1>2. Leaves(e, c) /\ c.fb = e.fb \cup Raster(t)
  BY DEF Leaves, Whole, Fields
<1> HIDE DEF c
<1>3. Leaves(c, Sync(c)) /\ Sync(c).fb = c.fb
  BY <1>2, SyncLeaves DEF Leaves
<1>4. t \in Corners => Raster(t) = Triangle(t)
  BY RasterIsTriangle
<1>5. QED
  BY <1>1, <1>2, <1>3, <1>4 DEF Leaves, t

-----------------------------------------------------------------------------
(* A descriptor.                                                           *)

(* The picture after it.                                                   *)
Painted(f, d) ==
  CASE d.opcode = GPU_CLEAR -> IF d.arg0 % 2 = 1 THEN Pixels ELSE {}
    [] d.opcode = GPU_DRAW_TRI -> f \cup Triangle(<<d.src0, d.src1, d.src2>>)
    [] OTHER -> f

(* What its run leaves alone, before the registers are put back.           *)
RunLeaves(e, n) ==
  /\ Whole(n) /\ n.mem.ring = e.mem.ring /\ n.last = e.last
  /\ \A r \in Registers \ (Operands \cup Saved) : n.reg[r] = e.reg[r]

LEMMA Restored ==
  ASSUME NEW e, Whole(e), NEW n, RunLeaves(e, n)
  PROVE  Leaves(e, Restore(n, e)) /\ Restore(n, e).fb = n.fb
<1> DEFINE old == [r \in Saved |-> e.reg[r]]
<1>1. DOMAIN old = Saved /\ Saved \subseteq Registers /\ \A r \in Saved : old[r] = e.reg[r]
  BY DEF Registers
<1>2. Restore(n, e) = Keep(n, old)
  BY DEF Restore
<1> HIDE DEF old
<1>3. LET m == Keep(n, old)
      IN  /\ Whole(m) /\ m.fb = n.fb /\ m.mem = n.mem /\ m.last = n.last
          /\ \A r \in Saved : m.reg[r] = old[r]
          /\ \A r \in Registers : r \notin Saved => m.reg[r] = n.reg[r]
  BY <1>1, Kept DEF RunLeaves
<1>4. QED
  BY <1>1, <1>2, <1>3 DEF RunLeaves, Leaves

LEMMA NpuJobPaints ==
  ASSUME NEW e, Whole(e), NEW d, d.opcode = NPU_INFER
  PROVE  RunLeaves(e, RunNpuJob(e, d)) /\ RunNpuJob(e, d).fb = Painted(e.fb, d)
<1> DEFINE f == [r \in {"UMEM_CTRL", "UMEM_NPU_INPUT", "UMEM_NPU_WEIGHT",
                        "UMEM_NPU_OUTPUT", "NPU_MODEL", "NPU_SEQ"} |->
               CASE r = "UMEM_CTRL" -> e.reg[r] \cup {"ENABLE", "NPU_USE_BUF"}
                 [] r = "UMEM_NPU_INPUT" -> d.src0
                 [] r = "UMEM_NPU_WEIGHT" -> d.src1
                 [] r = "UMEM_NPU_OUTPUT" -> d.dst0
                 [] r = "NPU_MODEL" -> IF d.model # 0 THEN d.model ELSE e.reg[r]
                 [] r = "NPU_SEQ" -> IF d.arg0 # 0 THEN d.arg0 % 65536 ELSE 8]
           set == Keep(e, f)
           n == emu_run_npu(set)
           x == [count |-> (n.exec.count + 1) % 65536, model |-> set.reg["NPU_MODEL"],
                 input |-> d.src0, output |-> d.dst0]
<1>1. DOMAIN f \subseteq Saved /\ Saved \subseteq Registers
  BY DEF Saved, Registers
<1>2. RunNpuJob(e, d) = [n EXCEPT !.exec = x, !.npu_count = @ + 1]
  BY DEF RunNpuJob
<1> HIDE DEF f, x
<1>3. RunLeaves(e, set) /\ set.fb = e.fb
  BY <1>1, Kept DEF RunLeaves
<1> HIDE DEF set
<1>4. Leaves(set, n) /\ n.fb = set.fb
  BY <1>3, NpuLeaves DEF RunLeaves
<1> HIDE DEF n
<1>5. RunLeaves(e, n) /\ n.fb = e.fb
  BY <1>3, <1>4 DEF RunLeaves, Leaves
<1>6. RunLeaves(e, RunNpuJob(e, d)) /\ RunNpuJob(e, d).fb = e.fb
  BY <1>2, <1>5 DEF RunLeaves, Whole, Fields
<1>7. QED
  BY <1>6 DEF Painted, NPU_INFER, GPU_CLEAR, GPU_DRAW_TRI

LEMMA ClearJobPaints ==
  ASSUME NEW e, Whole(e), NEW d, d.opcode = GPU_CLEAR, d.arg0 \in Nat
  PROVE  RunLeaves(e, RunClearJob(e, d)) /\ RunClearJob(e, d).fb = Painted(e.fb, d)
<1> DEFINE f == [r \in {"UMEM_CTRL", "UMEM_GPU_FB", "GPU_CMD", "GPU_CLEAR_VALUE"} |->
                   CASE r = "UMEM_CTRL" -> e.reg[r] \cup {"ENABLE", "GPU_USE_BUF"}
                     [] r = "UMEM_GPU_FB" -> TargetFb(e, d)
                     [] r = "GPU_CMD" -> CLEAR
                     [] r = "GPU_CLEAR_VALUE" -> d.arg0 % 256]
           set == Keep(e, f)
           n == emu_run_gpu_clear(set)
<1>1. DOMAIN f \subseteq Saved /\ Saved \subseteq Registers /\ f["GPU_CLEAR_VALUE"] = d.arg0 % 256
      /\ "GPU_CLEAR_VALUE" \in DOMAIN f
  BY DEF Saved, Registers
<1>2. RunClearJob(e, d) = [n EXCEPT !.gpu_count = @ + 1]
  BY DEF RunClearJob
<1> HIDE DEF f
<1>3. RunLeaves(e, set)
  BY <1>1, Kept DEF RunLeaves
<1>4. set.reg["GPU_CLEAR_VALUE"] = d.arg0 % 256
  BY <1>1, Kept
<1> HIDE DEF set
<1>5. Leaves(set, n)
  BY <1>3, ClearPaints DEF RunLeaves
<1>6. n.fb = IF (d.arg0 % 256) % 2 = 1 THEN Pixels ELSE {}
  BY <1>3, <1>4, ClearPaints DEF RunLeaves
<1> HIDE DEF n
<1>7. (d.arg0 % 256) % 2 = d.arg0 % 2
  OBVIOUS
<1>8. RunLeaves(e, n)
  BY <1>3, <1>5 DEF RunLeaves, Leaves
<1>9. RunLeaves(e, RunClearJob(e, d)) /\ RunClearJob(e, d).fb = n.fb
  BY <1>2, <1>8 DEF RunLeaves, Whole, Fields
<1>10. QED
  BY <1>6, <1>7, <1>9 DEF Painted, GPU_CLEAR, GPU_DRAW_TRI

LEMMA DrawJobPaints ==
  ASSUME NEW e, Whole(e), NEW d, d.opcode = GPU_DRAW_TRI,
         <<d.src0, d.src1, d.src2>> \in Corners
  PROVE  RunLeaves(e, RunDrawJob(e, d)) /\ RunDrawJob(e, d).fb = Painted(e.fb, d)
<1> DEFINE f == [r \in {"UMEM_CTRL", "UMEM_GPU_FB", "GPU_CMD", "GPU_VERTEX0",
                        "GPU_VERTEX1", "GPU_VERTEX2"} |->
                   CASE r = "UMEM_CTRL" -> e.reg[r] \cup {"ENABLE", "GPU_USE_BUF"}
                     [] r = "UMEM_GPU_FB" -> TargetFb(e, d)
                     [] r = "GPU_CMD" -> DRAW_TRI
                     [] r = "GPU_VERTEX0" -> d.src0
                     [] r = "GPU_VERTEX1" -> d.src1
                     [] r = "GPU_VERTEX2" -> d.src2]
           set == Keep(e, f)
           n == emu_run_gpu_draw(set)
           V == {"GPU_VERTEX0", "GPU_VERTEX1", "GPU_VERTEX2"}
<1>1. /\ DOMAIN f \subseteq Saved /\ Saved \subseteq Registers /\ V \subseteq DOMAIN f
      /\ f["GPU_VERTEX0"] = d.src0 /\ f["GPU_VERTEX1"] = d.src1 /\ f["GPU_VERTEX2"] = d.src2
  BY DEF Saved, Registers
<1>2. RunDrawJob(e, d) = [n EXCEPT !.gpu_count = @ + 1]
  BY DEF RunDrawJob
<1> HIDE DEF f
<1>3. /\ RunLeaves(e, set) /\ set.fb = e.fb
      /\ set.reg["GPU_VERTEX0"] = d.src0 /\ set.reg["GPU_VERTEX1"] = d.src1
      /\ set.reg["GPU_VERTEX2"] = d.src2
  BY <1>1, Kept DEF RunLeaves
<1> HIDE DEF set
<1>4. Leaves(set, n) /\ n.fb = e.fb \cup Triangle(<<d.src0, d.src1, d.src2>>)
  BY <1>3, DrawPaints DEF RunLeaves
<1> HIDE DEF n
<1>5. RunLeaves(e, n)
  BY <1>3, <1>4 DEF RunLeaves, Leaves
<1>6. /\ RunLeaves(e, RunDrawJob(e, d))
      /\ RunDrawJob(e, d).fb = e.fb \cup Triangle(<<d.src0, d.src1, d.src2>>)
  BY <1>2, <1>4, <1>5 DEF RunLeaves, Whole, Fields
<1>7. QED
  BY <1>6 DEF Painted, GPU_CLEAR, GPU_DRAW_TRI

(* A descriptor paints what it should, and its registers are put back.     *)
LEMMA Executed ==
  ASSUME NEW e, Whole(e), NEW d \in Descs \cup {NoDesc}
  PROVE  /\ Leaves(e, execute_desc(e, d))
         /\ execute_desc(e, d).fb = Painted(e.fb, d)
<1> DEFINE ran == CASE d.opcode = NPU_INFER -> RunNpuJob(e, d)
                    [] d.opcode = GPU_CLEAR -> RunClearJob(e, d)
                    [] d.opcode = GPU_DRAW_TRI -> RunDrawJob(e, d)
                    [] d.opcode = NOP -> e
                    [] OTHER -> [e EXCEPT !.error_count = @ + 1]
           put == Restore(ran, e)
<1>1. /\ d.opcode = GPU_DRAW_TRI => <<d.src0, d.src1, d.src2>> \in Corners
      /\ d.opcode = GPU_CLEAR => d.arg0 \in Nat
  <2>1. NoDesc.opcode = NOP
    BY DEF NoDesc
  <2>2. QED
    BY <2>1, ClientAssumption DEF NOP, GPU_DRAW_TRI, GPU_CLEAR
<1>2. RunLeaves(e, ran) /\ ran.fb = Painted(e.fb, d)
  <2> USE DEF NOP, NPU_INFER, GPU_CLEAR, GPU_DRAW_TRI
  <2>1. CASE d.opcode = NPU_INFER
    BY <2>1, NpuJobPaints
  <2>2. CASE d.opcode = GPU_CLEAR
    BY <1>1, <2>2, ClearJobPaints
  <2>3. CASE d.opcode = GPU_DRAW_TRI
    BY <1>1, <2>3, DrawJobPaints
  <2>4. CASE d.opcode \notin {NPU_INFER, GPU_CLEAR, GPU_DRAW_TRI}
    <3>1. ran = e \/ ran = [e EXCEPT !.error_count = @ + 1]
      BY <2>4
    <3>2. Painted(e.fb, d) = e.fb
      BY <2>4 DEF Painted
    <3> HIDE DEF ran
    <3>3. QED
      BY <3>1, <3>2 DEF RunLeaves, Whole, Fields
  <2>5. QED
    BY <2>1, <2>2, <2>3, <2>4
<1>3. execute_desc(e, d) = [put EXCEPT !.dispatch_opcode = d.opcode,
         !.dispatch_status = IF IsKnown(d.opcode) THEN IDLE ELSE ERROR]
  BY DEF execute_desc
<1> HIDE DEF ran
<1>4. Leaves(e, put) /\ put.fb = ran.fb
  BY <1>2, Restored
<1> HIDE DEF put
<1>5. QED
  BY <1>2, <1>3, <1>4 DEF Leaves, Whole, Fields

-----------------------------------------------------------------------------
(* The invariant: the emulator is whole, its queue registers and the ring  *)
(* are in range, and its picture is the one asked for.                     *)
SlotOK(x) == DOMAIN x = {"id", "desc", "done", "error"} /\ x.desc \in Descs \cup {NoDesc}
RingOK(ring) == DOMAIN ring = Slots /\ \A s \in Slots : SlotOK(ring[s])
EmuOK(e) ==
  /\ Whole(e) /\ e.reg["CMDQ_SIZE"] = CmdqBytes /\ e.reg["CMDQ_TAIL"] \in Nat
  /\ RingOK(e.mem.ring)
EInv == EmuOK(emu) /\ PictureRight

LEMMA EntriesPositive == Entries \in Nat \ {0}
<1> DEFINE least == IF CmdqBytes < DESC_BYTES THEN DESC_BYTES ELSE CmdqBytes
<1>1. Entries = (least - (least % 32)) \div 32
  BY DEF Entries, entry_count, DESC_BYTES
<1>2. least \in Nat /\ least >= 32
  BY EmuAssumption DEF DESC_BYTES
<1> HIDE DEF least
<1>3. QED
  BY <1>1, <1>2

(* A slot that is marked stays a slot, with its job.                       *)
LEMMA SlotMarked ==
  ASSUME NEW s, SlotOK(s), NEW b
  PROVE  LET t == [s EXCEPT !.done = TRUE, !.error = b] IN SlotOK(t) /\ t.id = s.id
  BY DEF SlotOK

(* One turn of the command processor's loop.                               *)
LEMMA TurnPaints ==
  ASSUME NEW e, EmuOK(e)
  PROVE  LET n == ProcessOne(e)
             slot == e.reg["CMDQ_TAIL"] % Entries
         IN  /\ EmuOK(n) /\ n.last.slot = slot /\ slot \in Slots
             /\ n.fb = Painted(e.fb, e.mem.ring[slot].desc)
             /\ \A r \in Registers \ (Operands \cup {"CMDQ_TAIL"}) : n.reg[r] = e.reg[r]
             /\ \A s \in Slots : n.mem.ring[s].id = e.mem.ring[s].id
             /\ n.reg["CMDQ_TAIL"] = IF n.exited THEN e.reg["CMDQ_TAIL"]
                                     ELSE NextTail(e.reg["CMDQ_TAIL"], Entries)
<1> DEFINE slot == e.reg["CMDQ_TAIL"] % Entries
           d == e.mem.ring[slot].desc
           f == [e EXCEPT !.last = [slot |-> slot, sequence |-> e.processed,
                                    beats |-> 8, opcode |-> d.opcode]]
           ran == execute_desc(f, d)
           next == [r \in {"CMDQ_TAIL"} |-> NextTail(e.reg["CMDQ_TAIL"], Entries)]
           k == Keep(ran, next)
           n == [k EXCEPT !.mem.ring[slot] = [@ EXCEPT !.done = TRUE, !.error = ~IsKnown(d.opcode)],
                          !.fetch_status = IF IsKnown(d.opcode) THEN IDLE ELSE ERROR,
                          !.processed = @ + 1]
<1>1. e.reg["CMDQ_TAIL"] \in Nat /\ Entries \in Nat \ {0}
  BY EntriesPositive DEF EmuOK
<1>2. slot \in Slots /\ NextTail(e.reg["CMDQ_TAIL"], Entries) \in Nat
  BY <1>1 DEF Slots, NextTail
<1>3. ProcessOne(e) = IF ran.exited THEN ran ELSE n
  BY DEF ProcessOne, EmuOK, Entries
<1>4. d \in Descs \cup {NoDesc}
  BY <1>2 DEF EmuOK, RingOK, SlotOK
<1> HIDE DEF d
<1>5. /\ Whole(f) /\ f.mem = e.mem /\ f.reg = e.reg /\ f.fb = e.fb /\ f.last.slot = slot
  BY DEF EmuOK, Whole, Fields
<1> HIDE DEF f
<1>6. Leaves(f, ran) /\ ran.fb = Painted(e.fb, d)
  BY <1>4, <1>5, Executed
<1>7. /\ {"CMDQ_TAIL"} \subseteq Registers
      /\ {"CMDQ_SIZE", "CMDQ_TAIL"} \subseteq Registers \ Operands
  BY DEF Registers, Others, Operands, Saved
<1> HIDE DEF ran
<1>8. /\ EmuOK(ran) /\ ran.last.slot = slot
      /\ \A r \in Registers \ Operands : ran.reg[r] = e.reg[r]
      /\ ran.mem.ring = e.mem.ring
  BY <1>5, <1>6, <1>7 DEF EmuOK, Leaves
<1>9. /\ DOMAIN next = {"CMDQ_TAIL"} /\ next["CMDQ_TAIL"] \in Nat
      /\ next["CMDQ_TAIL"] = NextTail(e.reg["CMDQ_TAIL"], Entries)
  BY <1>2
<1> HIDE DEF next
<1>10. /\ Whole(k) /\ k.fb = ran.fb /\ k.mem = ran.mem /\ k.last = ran.last
       /\ k.exited = ran.exited
       /\ k.reg["CMDQ_TAIL"] \in Nat
       /\ k.reg["CMDQ_TAIL"] = NextTail(e.reg["CMDQ_TAIL"], Entries)
       /\ \A r \in Registers \ (Operands \cup {"CMDQ_TAIL"}) : k.reg[r] = e.reg[r]
  BY <1>7, <1>8, <1>9, Kept DEF EmuOK
<1> HIDE DEF k
<1>11. /\ Whole(n) /\ n.fb = k.fb /\ n.last = k.last /\ n.reg = k.reg
       /\ n.exited = k.exited
  BY <1>10 DEF Whole, Fields, Memories
<1>12. RingOK(n.mem.ring) /\ \A s \in Slots : n.mem.ring[s].id = e.mem.ring[s].id
  <2>1. RingOK(k.mem.ring)
    BY <1>8, <1>10 DEF EmuOK
  <2>2. n.mem.ring = [k.mem.ring EXCEPT ![slot] = [@ EXCEPT !.done = TRUE, !.error = ~IsKnown(d.opcode)]]
    BY <1>10 DEF Whole, Fields, Memories
  <2>3. DOMAIN n.mem.ring = Slots
    BY <2>1, <2>2 DEF RingOK
  <2>4. ASSUME NEW x \in Slots
        PROVE  SlotOK(n.mem.ring[x]) /\ n.mem.ring[x].id = k.mem.ring[x].id
    <3>1. SlotOK(k.mem.ring[x])
      BY <2>1 DEF RingOK
    <3>2. x # slot => n.mem.ring[x] = k.mem.ring[x]
      BY <2>1, <2>2 DEF RingOK
    <3>3. x = slot => n.mem.ring[x] = [k.mem.ring[x] EXCEPT !.done = TRUE, !.error = ~IsKnown(d.opcode)]
      BY <2>1, <2>2 DEF RingOK
    <3> HIDE DEF n
    <3>4. CASE x = slot
      <4> DEFINE t == [k.mem.ring[x] EXCEPT !.done = TRUE, !.error = ~IsKnown(d.opcode)]
      <4>1. SlotOK(t) /\ t.id = k.mem.ring[x].id
        BY <3>1, SlotMarked
      <4>2. n.mem.ring[x] = t
        BY <3>3, <3>4
      <4> HIDE DEF t
      <4> QED
        BY <4>1, <4>2
    <3>5. QED
      BY <3>1, <3>2, <3>4
  <2>5. k.mem.ring = e.mem.ring
    BY <1>8, <1>10
  <2>6. QED
    BY <2>3, <2>4, <2>5 DEF RingOK
<1> HIDE DEF n
<1>13. n.reg["CMDQ_SIZE"] = CmdqBytes
  BY <1>7, <1>8, <1>10, <1>11 DEF EmuOK, Others
<1>14. EmuOK(n)
  BY <1>10, <1>11, <1>12, <1>13 DEF EmuOK
<1>15. QED
  <2>1. CASE ran.exited
    <3>1. "CMDQ_TAIL" \in Registers \ Operands
      BY <1>7
    <3>2. QED
      BY <1>2, <1>3, <1>6, <1>8, <2>1, <3>1, <1>5 DEF d
  <2>2. CASE ~ran.exited
    BY <1>2, <1>3, <1>6, <1>8, <1>10, <1>11, <1>12, <1>14, <1>5, <2>2 DEF d
  <2>3. QED
    BY <2>1, <2>2

(* A write of registers.                                                   *)
LEMMA Written ==
  ASSUME NEW e, EmuOK(e), NEW f, DOMAIN f \subseteq Registers,
         "CMDQ_SIZE" \in DOMAIN f => f["CMDQ_SIZE"] = CmdqBytes,
         "CMDQ_TAIL" \in DOMAIN f => f["CMDQ_TAIL"] \in Nat
  PROVE  /\ EmuOK(Keep(e, f)) /\ Keep(e, f).fb = e.fb
         /\ EmuOK(Write(e, f)) /\ Write(e, f).fb = e.fb
<1> DEFINE k == Keep(e, f)
<1>1. {"CMDQ_SIZE", "CMDQ_TAIL"} \subseteq Registers
  BY DEF Registers, Others
<1>2. EmuOK(k) /\ k.fb = e.fb
  BY <1>1, Kept DEF EmuOK
<1> HIDE DEF k
<1>3. EmuOK(emu_cmdq_refresh_status(k, FALSE)) /\ emu_cmdq_refresh_status(k, FALSE).fb = k.fb
  BY <1>2 DEF emu_cmdq_refresh_status, EmuOK, Whole, Fields
<1>4. Write(e, f) = k \/ Write(e, f) = emu_cmdq_refresh_status(k, FALSE)
  BY DEF Write, k
<1>5. QED
  BY <1>2, <1>3, <1>4 DEF k

LEMMA LeavesOK ==
  ASSUME NEW e, EmuOK(e), NEW n, Leaves(e, n)
  PROVE  EmuOK(n)
<1>1. {"CMDQ_SIZE", "CMDQ_TAIL"} \subseteq Registers \ Operands
  BY DEF Registers, Others, Operands
<1>2. QED
  BY <1>1 DEF EmuOK, Leaves

(* A start through CONTROL.                                                *)
LEMMA ControlWritten ==
  ASSUME NEW e, EmuOK(e), NEW v
  PROVE  LET k == Keep(e, [r \in {"CONTROL"} |-> v])
         IN  /\ EmuOK(k) /\ k.fb = e.fb
             /\ \A r \in Registers \ {"CONTROL"} : k.reg[r] = e.reg[r]
<1> DEFINE f == [r \in {"CONTROL"} |-> v]
<1>1. /\ DOMAIN f = {"CONTROL"} /\ {"CONTROL"} \subseteq Registers
      /\ "CMDQ_SIZE" \notin DOMAIN f /\ "CMDQ_TAIL" \notin DOMAIN f
  BY DEF Registers, Others
<1> HIDE DEF f
<1>2. EmuOK(Keep(e, f)) /\ Keep(e, f).fb = e.fb
  BY <1>1, Written
<1>3. \A r \in Registers \ {"CONTROL"} : Keep(e, f).reg[r] = e.reg[r]
  BY <1>1, Kept DEF EmuOK
<1>4. QED
  BY <1>2, <1>3 DEF f

LEMMA StatusWritten ==
  ASSUME NEW e, EmuOK(e), NEW v
  PROVE  EmuOK(WriteStatus(e, v)) /\ WriteStatus(e, v).fb = e.fb
  BY DEF WriteStatus, EmuOK, Whole, Fields

LEMMA NpuStarted ==
  ASSUME NEW e, EmuOK(e)
  PROVE  LET n == WriteControl(e, {"NPU_START"}) IN EmuOK(n) /\ n.fb = e.fb
<1> DEFINE k == Keep(e, [r \in {"CONTROL"} |-> {"NPU_START"}])
<1>1. EmuOK(k) /\ k.fb = e.fb
  BY ControlWritten
<1>2. WriteControl(e, {"NPU_START"}) = emu_run_npu(k)
  BY DEF WriteControl
<1> HIDE DEF k
<1>3. EmuOK(emu_run_npu(k)) /\ emu_run_npu(k).fb = k.fb
  BY <1>1, NpuLeaves, LeavesOK DEF EmuOK
<1>4. QED
  BY <1>1, <1>2, <1>3

LEMMA GpuStarted ==
  ASSUME NEW e, EmuOK(e)
  PROVE  LET n == WriteControl(e, {"GPU_START"})
             t == <<e.reg["GPU_VERTEX0"], e.reg["GPU_VERTEX1"], e.reg["GPU_VERTEX2"]>>
         IN  /\ EmuOK(n) \/ e.exited
             /\ ~e.exited /\ e.reg["GPU_CMD"] = CLEAR =>
                  n.fb = IF e.reg["GPU_CLEAR_VALUE"] % 2 = 1 THEN Pixels ELSE {}
             /\ ~e.exited /\ e.reg["GPU_CMD"] # CLEAR /\ t \in Corners =>
                  n.fb = e.fb \cup Triangle(t)
<1> DEFINE k == Keep(e, [r \in {"CONTROL"} |-> {"GPU_START"}])
           R == {"GPU_CMD", "GPU_CLEAR_VALUE", "GPU_VERTEX0", "GPU_VERTEX1", "GPU_VERTEX2"}
<1>1. /\ EmuOK(k) /\ k.fb = e.fb /\ \A r \in R : k.reg[r] = e.reg[r]
  <2>1. R \subseteq Registers \ {"CONTROL"}
    BY DEF Registers, Saved
  <2>2. QED
    BY <2>1, ControlWritten
<1>2. WriteControl(e, {"GPU_START"}) =
        IF k.exited THEN k
        ELSE IF k.reg["GPU_CMD"] = CLEAR THEN emu_run_gpu_clear(k) ELSE emu_run_gpu_draw(k)
  BY DEF WriteControl
<1>3. k.exited = e.exited
  BY DEF EmuOK, Whole, Fields, Keep
<1> HIDE DEF k
<1>4. /\ EmuOK(emu_run_gpu_clear(k))
      /\ emu_run_gpu_clear(k).fb = IF k.reg["GPU_CLEAR_VALUE"] % 2 = 1 THEN Pixels ELSE {}
  BY <1>1, ClearPaints, LeavesOK DEF EmuOK
<1>5. EmuOK(emu_run_gpu_draw(k))
  BY <1>1, DrawPaints, LeavesOK DEF EmuOK
<1>6. LET t == <<k.reg["GPU_VERTEX0"], k.reg["GPU_VERTEX1"], k.reg["GPU_VERTEX2"]>>
      IN  t \in Corners => emu_run_gpu_draw(k).fb = k.fb \cup Triangle(t)
  BY <1>1, DrawPaints DEF EmuOK
<1>7. QED
  BY <1>1, <1>2, <1>3, <1>4, <1>5, <1>6

-----------------------------------------------------------------------------
(* The steps.                                                              *)

LEMMA InitInvariant == Init => EInv
<1> SUFFICES ASSUME Init PROVE EInv
  OBVIOUS
<1>1. emu = emu_init /\ picture = {}
  BY DEF Init
<1>2. Whole(emu_init)
  BY DEF emu_init, Whole, Fields, Memories, ResetRegisters
<1>3. emu_init.reg["CMDQ_SIZE"] = CmdqBytes /\ emu_init.reg["CMDQ_TAIL"] = 0
  <2>1. "CMDQ_SIZE" \in Registers /\ "CMDQ_TAIL" \in Registers
    BY DEF Registers, Others
  <2>2. emu_init.reg = ResetRegisters
    BY DEF emu_init
  <2>3. QED
    BY <2>1, <2>2 DEF ResetRegisters
<1>4. RingOK(emu_init.mem.ring)
  BY DEF emu_init, RingOK, SlotOK, EmptySlot
<1>5. emu_init.fb = {}
  BY DEF emu_init
<1>6. QED
  BY <1>1, <1>2, <1>3, <1>4, <1>5 DEF EInv, EmuOK, PictureRight

(* Each operation keeps the emulator whole; all but the turns of the loop, *)
(* which may end the process, also end with the picture asked for.         *)
LEMMA PushKeeps == EInv /\ accel_cmdq_host_push => EInv' /\ emu'.fb = picture'
<1> SUFFICES ASSUME EInv, accel_cmdq_host_push PROVE EInv' /\ emu'.fb = picture'
  OBVIOUS
<1>1. PICK d \in Descs :
        emu' = [emu EXCEPT !.mem.ring[host.cached_head] =
                  [id |-> jobs.pushed + 1, desc |-> d, done |-> FALSE, error |-> FALSE]]
  BY DEF accel_cmdq_host_push
<1>2. Whole(emu') /\ emu'.reg = emu.reg /\ emu'.fb = emu.fb
  BY <1>1 DEF EInv, EmuOK, Whole, Fields, Memories
<1>3. emu'.mem.ring = [emu.mem.ring EXCEPT ![host.cached_head] =
                  [id |-> jobs.pushed + 1, desc |-> d, done |-> FALSE, error |-> FALSE]]
  BY <1>1 DEF EInv, EmuOK, Whole, Fields, Memories
<1>4. RingOK(emu'.mem.ring)
  BY <1>3 DEF EInv, EmuOK, RingOK, SlotOK
<1>5. picture' = picture /\ ~emu.exited
  BY DEF accel_cmdq_host_push, history, Idle
<1>6. QED
  BY <1>2, <1>4, <1>5 DEF EInv, EmuOK, PictureRight

LEMMA SubmitKeeps == EInv /\ accel_cmdq_host_submit => EInv' /\ emu'.fb = picture'
<1> SUFFICES ASSUME EInv, accel_cmdq_host_submit PROVE EInv' /\ emu'.fb = picture'
  OBVIOUS
<1> DEFINE shown == Write(emu, Set1("CMDQ_HEAD", host.cached_head))
<1>1. PICK v \in Doorbells :
        \/ emu' = BeginProcess(Keep(shown, Set1("CMDQ_DOORBELL", v)))
        \/ emu' = Write(shown, Set1("CMDQ_DOORBELL", v))
  BY DEF accel_cmdq_host_submit
<1>2. ASSUME NEW r \in {"CMDQ_HEAD", "CMDQ_DOORBELL"}, NEW x
      PROVE  /\ DOMAIN Set1(r, x) \subseteq Registers
             /\ "CMDQ_SIZE" \notin DOMAIN Set1(r, x) /\ "CMDQ_TAIL" \notin DOMAIN Set1(r, x)
  BY DEF Set1, Registers, Others
<1>3. EmuOK(shown) /\ shown.fb = emu.fb
  BY <1>2, Written DEF EInv
<1> HIDE DEF shown
<1>4. /\ EmuOK(Keep(shown, Set1("CMDQ_DOORBELL", v)))
      /\ Keep(shown, Set1("CMDQ_DOORBELL", v)).fb = emu.fb
      /\ EmuOK(Write(shown, Set1("CMDQ_DOORBELL", v)))
      /\ Write(shown, Set1("CMDQ_DOORBELL", v)).fb = emu.fb
  BY <1>2, <1>3, Written
<1>5. ASSUME NEW e, EmuOK(e) PROVE EmuOK(BeginProcess(e)) /\ BeginProcess(e).fb = e.fb
  BY <1>5 DEF BeginProcess, EmuOK, Whole, Fields
<1>6. EmuOK(emu') /\ emu'.fb = emu.fb
  BY <1>1, <1>4, <1>5
<1>7. picture' = picture /\ ~emu.exited
  BY DEF accel_cmdq_host_submit, history, Idle
<1>8. QED
  BY <1>6, <1>7 DEF EInv, PictureRight

LEMMA ResetKeeps == EInv /\ accel_cmdq_host_reset => EInv' /\ emu'.fb = picture'
<1> SUFFICES ASSUME EInv, accel_cmdq_host_reset PROVE EInv' /\ emu'.fb = picture'
  OBVIOUS
<1> DEFINE e == [emu EXCEPT !.mem.ring = [s \in Slots |-> EmptySlot]]
           f == [r \in {"CMDQ_HEAD", "CMDQ_TAIL", "CMDQ_DOORBELL"} |-> 0]
<1>1. emu' = Write(e, f) /\ picture' = picture /\ ~emu.exited
  BY DEF accel_cmdq_host_reset, history, Idle
<1>2. EmuOK(e) /\ e.fb = emu.fb
  BY DEF EInv, EmuOK, Whole, Fields, Memories, RingOK, SlotOK, EmptySlot
<1>3. DOMAIN f \subseteq Registers /\ "CMDQ_SIZE" \notin DOMAIN f /\ f["CMDQ_TAIL"] = 0
  BY DEF Registers, Others
<1> HIDE DEF e, f
<1>4. EmuOK(emu') /\ emu'.fb = emu.fb
  BY <1>1, <1>2, <1>3, Written
<1>5. QED
  BY <1>1, <1>4 DEF EInv, PictureRight

LEMMA ProcessKeeps == EInv /\ Process => EInv'
<1> SUFFICES ASSUME EInv, Process PROVE EInv'
  OBVIOUS
<1>1. CASE ProcessDescriptor
  <2> DEFINE slot == emu.reg["CMDQ_TAIL"] % Entries
  <2>1. emu' = ProcessOne(emu) /\ ~emu.exited
    BY <1>1 DEF ProcessDescriptor
  <2>2. EmuOK(emu') /\ emu'.last.slot = slot /\ emu'.fb = Painted(emu.fb, emu.mem.ring[slot].desc)
    BY <2>1, TurnPaints DEF EInv
  <2> HIDE DEF slot
  <2>3. ~emu'.exited => picture' = Paint(emu.mem.ring[slot].desc)
    BY <1>1, <2>2 DEF ProcessDescriptor
  <2>4. emu.fb = picture
    BY <2>1 DEF EInv, PictureRight
  <2>5. \A d : Paint(d) = Painted(emu.fb, d)
    BY <2>4 DEF Paint, Painted
  <2>6. QED
    BY <2>2, <2>3, <2>5 DEF EInv, PictureRight
<1>2. CASE FinishProcess
  <2>1. emu' = EndProcess(emu, drain.error) /\ picture' = picture /\ ~emu.exited
    BY <1>2 DEF FinishProcess, history
  <2>2. EmuOK(emu') /\ emu'.fb = emu.fb
    BY <2>1 DEF EndProcess, emu_cmdq_refresh_status, EInv, EmuOK, Whole, Fields
  <2>3. QED
    BY <2>1, <2>2 DEF EInv, PictureRight
<1>3. QED
  BY <1>1, <1>2 DEF Process

LEMMA SampleKeeps == EInv /\ run_npu_sample => EInv' /\ emu'.fb = picture'
<1> SUFFICES ASSUME EInv, run_npu_sample PROVE EInv' /\ emu'.fb = picture'
  OBVIOUS
<1>1. PICK m \in Models, in \in Inputs :
        LET f == [r \in {"NPU_MODEL", "NPU_SEQ", "NPU_INPUT0", "NPU_INPUT1"} |->
                    CASE r = "NPU_MODEL" -> m
                      [] r = "NPU_SEQ" -> 8
                      [] r = "NPU_INPUT0" -> in[1]
                      [] r = "NPU_INPUT1" -> in[2]]
        IN  emu' = WriteStatus(WriteControl(Keep(emu, f), {"NPU_START"}), {"CLR_NPU_DONE"})
  BY DEF run_npu_sample
<1> DEFINE f == [r \in {"NPU_MODEL", "NPU_SEQ", "NPU_INPUT0", "NPU_INPUT1"} |->
                    CASE r = "NPU_MODEL" -> m
                      [] r = "NPU_SEQ" -> 8
                      [] r = "NPU_INPUT0" -> in[1]
                      [] r = "NPU_INPUT1" -> in[2]]
<1>2. /\ DOMAIN f \subseteq Registers
      /\ "CMDQ_SIZE" \notin DOMAIN f /\ "CMDQ_TAIL" \notin DOMAIN f
  BY DEF Registers, Saved, Operands
<1>3. emu' = WriteStatus(WriteControl(Keep(emu, f), {"NPU_START"}), {"CLR_NPU_DONE"})
  BY <1>1
<1> HIDE DEF f
<1>4. EmuOK(Keep(emu, f)) /\ Keep(emu, f).fb = emu.fb
  BY <1>2, Written DEF EInv
<1>5. EmuOK(emu') /\ emu'.fb = emu.fb
  BY <1>3, <1>4, NpuStarted, StatusWritten
<1>6. picture' = picture /\ ~emu.exited
  BY DEF run_npu_sample, Direct, Idle
<1>7. QED
  BY <1>5, <1>6 DEF EInv, PictureRight

LEMMA UnifiedKeeps == EInv /\ run_unified_npu => EInv' /\ emu'.fb = picture'
<1> SUFFICES ASSUME EInv, run_unified_npu PROVE EInv' /\ emu'.fb = picture'
  OBVIOUS
<1> DEFINE f == [r \in {"NPU_MODEL", "NPU_SEQ"} |-> IF r = "NPU_MODEL" THEN RUNTIME ELSE 8]
<1>1. PICK in \in Inputs, w \in Runtimes :
        LET e == [emu EXCEPT !.mem.in[emu.reg["UMEM_NPU_INPUT"]] = in,
                             !.mem.w[emu.reg["UMEM_NPU_WEIGHT"]] = w]
        IN  emu' = WriteStatus(WriteControl(Keep(e, f), {"NPU_START"}), {"CLR_NPU_DONE"})
  BY DEF run_unified_npu
<1> DEFINE e == [emu EXCEPT !.mem.in[emu.reg["UMEM_NPU_INPUT"]] = in,
                            !.mem.w[emu.reg["UMEM_NPU_WEIGHT"]] = w]
<1>2. /\ DOMAIN f \subseteq Registers
      /\ "CMDQ_SIZE" \notin DOMAIN f /\ "CMDQ_TAIL" \notin DOMAIN f
  BY DEF Registers, Saved
<1>3. emu' = WriteStatus(WriteControl(Keep(e, f), {"NPU_START"}), {"CLR_NPU_DONE"})
  BY <1>1
<1>4. EmuOK(e) /\ e.fb = emu.fb
  BY DEF EInv, EmuOK, Whole, Fields, Memories
<1> HIDE DEF e, f
<1>5. EmuOK(Keep(e, f)) /\ Keep(e, f).fb = emu.fb
  BY <1>2, <1>4, Written
<1>6. EmuOK(emu') /\ emu'.fb = emu.fb
  BY <1>3, <1>5, NpuStarted, StatusWritten
<1>7. picture' = picture /\ ~emu.exited
  BY DEF run_unified_npu, Direct, Idle
<1>8. QED
  BY <1>6, <1>7 DEF EInv, PictureRight

LEMMA ModelKeeps == EInv /\ write_runtime_model => EInv' /\ emu'.fb = picture'
<1> SUFFICES ASSUME EInv, write_runtime_model PROVE EInv' /\ emu'.fb = picture'
  OBVIOUS
<1>1. PICK w \in Runtimes : emu' = Keep(emu, Set1("NPU_WEIGHTS", w))
  BY DEF write_runtime_model
<1>2. /\ DOMAIN Set1("NPU_WEIGHTS", w) \subseteq Registers
      /\ "CMDQ_SIZE" \notin DOMAIN Set1("NPU_WEIGHTS", w)
      /\ "CMDQ_TAIL" \notin DOMAIN Set1("NPU_WEIGHTS", w)
  BY DEF Set1, Registers, Operands
<1>3. EmuOK(emu') /\ emu'.fb = emu.fb
  BY <1>1, <1>2, Written DEF EInv
<1>4. picture' = picture /\ ~emu.exited
  BY DEF write_runtime_model, Direct, Idle
<1>5. QED
  BY <1>3, <1>4 DEF EInv, PictureRight

LEMMA OperandsKeep == EInv /\ write_umem_operands => EInv' /\ emu'.fb = picture'
<1> SUFFICES ASSUME EInv, write_umem_operands PROVE EInv' /\ emu'.fb = picture'
  OBVIOUS
<1>1. PICK b \in Bufs, in \in Inputs, w \in Runtimes :
        emu' = [emu EXCEPT !.mem.in[b] = in, !.mem.w[b] = w]
  BY DEF write_umem_operands
<1>2. EmuOK(emu') /\ emu'.fb = emu.fb
  BY <1>1 DEF EInv, EmuOK, Whole, Fields, Memories
<1>3. picture' = picture /\ ~emu.exited
  BY DEF write_umem_operands, Direct, Idle, history
<1>4. QED
  BY <1>2, <1>3 DEF EInv, PictureRight

LEMMA ConfigureKeeps == EInv /\ configure_unified_memory => EInv' /\ emu'.fb = picture'
<1> SUFFICES ASSUME EInv, configure_unified_memory PROVE EInv' /\ emu'.fb = picture'
  OBVIOUS
<1> DEFINE R == {"UMEM_CTRL", "CMDQ_SIZE", "CMDQ_HEAD", "CMDQ_TAIL", "CMDQ_DOORBELL",
                 "UMEM_NPU_INPUT", "UMEM_NPU_WEIGHT", "UMEM_NPU_OUTPUT", "UMEM_GPU_FB"}
<1>1. PICK bits : emu' = Write(emu, [r \in R |->
                CASE r = "UMEM_CTRL" -> bits
                  [] r = "CMDQ_SIZE" -> CmdqBytes
                  [] r \in {"CMDQ_HEAD", "CMDQ_TAIL", "CMDQ_DOORBELL"} -> 0
                  [] OTHER -> 1])
  BY DEF configure_unified_memory
<1> DEFINE f == [r \in R |->
                CASE r = "UMEM_CTRL" -> bits
                  [] r = "CMDQ_SIZE" -> CmdqBytes
                  [] r \in {"CMDQ_HEAD", "CMDQ_TAIL", "CMDQ_DOORBELL"} -> 0
                  [] OTHER -> 1]
<1>2. DOMAIN f \subseteq Registers /\ f["CMDQ_SIZE"] = CmdqBytes /\ f["CMDQ_TAIL"] \in Nat
  BY DEF Registers, Others, Saved
<1>3. emu' = Write(emu, f)
  BY <1>1
<1> HIDE DEF f
<1>4. EmuOK(emu') /\ emu'.fb = emu.fb
  BY <1>2, <1>3, Written DEF EInv
<1>5. picture' = picture /\ ~emu.exited
  BY DEF configure_unified_memory, Idle, history
<1>6. QED
  BY <1>4, <1>5 DEF EInv, PictureRight

LEMMA ClearKeeps == EInv /\ gpu_clear => EInv' /\ emu'.fb = picture'
<1> SUFFICES ASSUME EInv, gpu_clear PROVE EInv' /\ emu'.fb = picture'
  OBVIOUS
<1> DEFINE f == [r \in {"GPU_CLEAR_VALUE", "GPU_CMD"} |-> IF r = "GPU_CMD" THEN CLEAR ELSE 0]
           k == Keep(emu, f)
           n == WriteControl(k, {"GPU_START"})
<1>1. emu' = WriteStatus(n, {"CLR_GPU_DONE"}) /\ picture' = {} /\ ~emu.exited
  BY DEF gpu_clear, Direct, Idle
<1>2. /\ DOMAIN f = {"GPU_CLEAR_VALUE", "GPU_CMD"} /\ DOMAIN f \subseteq Registers
      /\ "CMDQ_SIZE" \notin DOMAIN f /\ "CMDQ_TAIL" \notin DOMAIN f
      /\ f["GPU_CMD"] = CLEAR /\ f["GPU_CLEAR_VALUE"] = 0
  BY DEF Registers, Saved
<1> HIDE DEF f
<1>3. /\ EmuOK(k) /\ k.reg["GPU_CMD"] = CLEAR /\ k.reg["GPU_CLEAR_VALUE"] = 0 /\ ~k.exited
  BY <1>1, <1>2, Written, Kept DEF EInv, EmuOK
<1> HIDE DEF k
<1>0. 0 % 2 # 1
  OBVIOUS
<1>4. EmuOK(n) /\ (n.fb = IF k.reg["GPU_CLEAR_VALUE"] % 2 = 1 THEN Pixels ELSE {})
  BY <1>3, GpuStarted
<1> HIDE DEF n
<1>5. EmuOK(emu') /\ emu'.fb = {}
  BY <1>1, <1>3, <1>4, <1>0, StatusWritten
<1>6. QED
  BY <1>1, <1>5 DEF EInv, PictureRight

LEMMA DrawKeeps == EInv /\ gpu_draw => EInv' /\ emu'.fb = picture'
<1> SUFFICES ASSUME EInv, gpu_draw PROVE EInv' /\ emu'.fb = picture'
  OBVIOUS
<1> DEFINE V == {"GPU_VERTEX0", "GPU_VERTEX1", "GPU_VERTEX2", "GPU_CMD"}
<1>1. PICK t \in Triangles :
        LET f == [r \in V |-> CASE r = "GPU_VERTEX0" -> t[1]
                                [] r = "GPU_VERTEX1" -> t[2]
                                [] r = "GPU_VERTEX2" -> t[3]
                                [] r = "GPU_CMD" -> DRAW_TRI]
        IN  /\ emu' = WriteStatus(WriteControl(Keep(emu, f), {"GPU_START"}), {"CLR_GPU_DONE"})
            /\ picture' = picture \cup Triangle(t)
  BY DEF gpu_draw
<1> DEFINE f == [r \in V |-> CASE r = "GPU_VERTEX0" -> t[1]
                               [] r = "GPU_VERTEX1" -> t[2]
                               [] r = "GPU_VERTEX2" -> t[3]
                               [] r = "GPU_CMD" -> DRAW_TRI]
           k == Keep(emu, f)
           n == WriteControl(k, {"GPU_START"})
<1>2. /\ emu' = WriteStatus(n, {"CLR_GPU_DONE"}) /\ picture' = picture \cup Triangle(t)
      /\ ~emu.exited
  BY <1>1 DEF gpu_draw, Direct, Idle
<1>3. /\ DOMAIN f = V /\ DOMAIN f \subseteq Registers
      /\ "CMDQ_SIZE" \notin DOMAIN f /\ "CMDQ_TAIL" \notin DOMAIN f
      /\ f["GPU_CMD"] = DRAW_TRI
      /\ f["GPU_VERTEX0"] = t[1] /\ f["GPU_VERTEX1"] = t[2] /\ f["GPU_VERTEX2"] = t[3]
  BY DEF Registers, Saved
<1> HIDE DEF f
<1>4. /\ EmuOK(k) /\ k.fb = emu.fb /\ ~k.exited /\ k.reg["GPU_CMD"] # CLEAR
      /\ k.reg["GPU_VERTEX0"] = t[1] /\ k.reg["GPU_VERTEX1"] = t[2]
      /\ k.reg["GPU_VERTEX2"] = t[3]
  BY <1>2, <1>3, Written, Kept DEF EInv, EmuOK, CLEAR, DRAW_TRI
<1> HIDE DEF k
<1>5. t \in Corners /\ t = <<t[1], t[2], t[3]>>
  BY ClientAssumption DEF Corners
<1>6. EmuOK(n) /\ n.fb = emu.fb \cup Triangle(t)
  BY <1>4, <1>5, GpuStarted
<1> HIDE DEF n
<1>7. EmuOK(emu') /\ emu'.fb = emu.fb \cup Triangle(t)
  BY <1>2, <1>6, StatusWritten
<1>8. QED
  BY <1>2, <1>7 DEF EInv, PictureRight

LEMMA NextInvariant == EInv /\ [Next]_vars => EInv'
<1> SUFFICES ASSUME EInv, [Next]_vars PROVE EInv'
  OBVIOUS
<1>1. ASSUME UNCHANGED <<emu, picture>> PROVE EInv'
  BY <1>1 DEF EInv, PictureRight
<1>2. CASE accel_cmdq_host_sync
  BY <1>1, <1>2 DEF accel_cmdq_host_sync, history
<1>3. CASE UNCHANGED vars
  BY <1>1, <1>3 DEF vars
<1>4. QED
  BY <1>2, <1>3, PushKeeps, SubmitKeeps, ResetKeeps, ProcessKeeps, SampleKeeps,
     UnifiedKeeps, ModelKeeps, OperandsKeep, ConfigureKeeps, ClearKeeps, DrawKeeps
  DEF Next, Library, Client

-----------------------------------------------------------------------------
(* The emulator's framebuffer holds exactly the triangles drawn since the  *)
(* last clear, queued or direct, for every screen and any number of calls  *)
(* (accel_mmio_demo.c:353-427).                                            *)
THEOREM PicturesAreRight == Spec => []PictureRight
<1>1. EInv => PictureRight
  BY DEF EInv
<1>2. QED
  BY <1>1, InitInvariant, NextInvariant, PTL DEF Spec

(* Whatever descriptors a doorbell processes, every register a client has  *)
(* programmed is as it left it, but for the NPU's operands                 *)
(* (accel_mmio_demo.c:429-517).                                            *)
THEOREM ConfigsAreKept == Spec => ConfigKept
<1> DEFINE P == drain.on => \A r \in Registers \ (Operands \cup {"CMDQ_TAIL"}) :
                              emu'.reg[r] = emu.reg[r]
<1>1. EInv /\ [Next]_vars => [P]_vars
  <2> SUFFICES ASSUME EInv, Next, drain.on
               PROVE  \A r \in Registers \ (Operands \cup {"CMDQ_TAIL"}) :
                        emu'.reg[r] = emu.reg[r]
    OBVIOUS
  <2>1. Process \/ UNCHANGED emu
    BY DEF Next, Library, Client, Idle, Direct, accel_cmdq_host_push, accel_cmdq_host_submit,
       accel_cmdq_host_sync, accel_cmdq_host_reset, run_npu_sample, run_unified_npu,
       write_runtime_model, write_umem_operands, configure_unified_memory, gpu_clear, gpu_draw
  <2>2. CASE ProcessDescriptor
    BY <2>2, TurnPaints DEF ProcessDescriptor, EInv
  <2>3. CASE FinishProcess
    <3>1. emu'.reg = emu.reg
      BY <2>3 DEF FinishProcess, EndProcess, emu_cmdq_refresh_status, EInv, EmuOK, Whole, Fields
    <3>2. QED
      BY <3>1
  <2>4. QED
    BY <2>1, <2>2, <2>3 DEF Process
<1>2. QED
  BY <1>1, InitInvariant, NextInvariant, PTL DEF Spec, ConfigKept
=============================================================================
