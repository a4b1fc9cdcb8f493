------------------------------- MODULE EmuProps -------------------------------
(***************************************************************************)
(* What the host emulator promises its clients.                            *)
(***************************************************************************)
EXTENDS EmuQueue

(* The types of the queue, of the loop and of the histories.               *)
EmuTypeOK ==
  /\ DOMAIN emu.reg = Registers
  /\ emu.reg["CMDQ_HEAD"] \in Slots /\ emu.reg["CMDQ_TAIL"] \in Slots
  /\ emu.reg["CMDQ_SIZE"] = CmdqBytes /\ emu.reg["UMEM_CTRL"] \subseteq Ctrl
  /\ emu.fb \subseteq Pixels /\ emu.processed \in 0..MaxJobs
  /\ \A s \in Slots : emu.mem.ring[s].id \in 0..MaxJobs
  /\ drain \in [on : BOOLEAN, safety : 0..Entries, error : BOOLEAN]
  /\ host \in [cached_head : Slots, cached_tail : Slots]
  /\ jobs.exposed <= jobs.pushed /\ picture \subseteq Pixels

(* The emulator and the library are a bounded queue of jobs: each job      *)
(* submitted is processed once, in order, and at most Entries - 1 wait,    *)
(* through every reset and resynchronisation (accel_cmdq_host.c:66-128,    *)
(* accel_mmio_demo.c:519-554).                                             *)
Q == INSTANCE JobQueue WITH Capacity <- Entries - 1, pushed <- jobs.pushed,
                            exposed <- jobs.exposed, consumed <- jobs.processed
ImplementsQueue == Q!QSpec

(* A queued job leaves the registers its client programmed as they were,   *)
(* though it runs through the same registers: a list saved and put back by *)
(* hand, that has to name them all (accel_mmio_demo.c:429-517).  Not so    *)
(* the NPU's inputs, weights and biases, which a job loads over the        *)
(* client's and leaves; SampleIsOwn is about these.                        *)
ConfigKept ==
  [][ drain.on => \A r \in Registers \ (Operands \cup {"CMDQ_TAIL"}) :
                    emu'.reg[r] = emu.reg[r] ]_vars

(* What a queued inference leaves in its output buffer is the inference of *)
(* the model it asked for on the buffers it named: not of the registers,   *)
(* nor of the job before it (accel_mmio_demo.c:296-351, 455-474).          *)
JobModel(d) == IF d.model # 0 THEN d.model ELSE emu.reg["NPU_MODEL"]
QueuedResultIsOwn ==
  [][ \A d \in Descs :
        /\ drain.on /\ More /\ emu.mem.ring[emu.reg["CMDQ_TAIL"]].desc = d
        /\ d.opcode = NPU_INFER /\ d.dst0 \in Bufs /\ ~emu'.exited
        => IsInference(emu'.mem.out[d.dst0], JobModel(d), IF d.arg0 = 0 THEN 8 ELSE d.arg0,
                       emu.mem.in[d.src0][1], emu.mem.in[d.src0][2],
                       IF FromRegisters(JobModel(d)) THEN emu.mem.w[d.src1]
                       ELSE select_npu_weights(JobModel(d), ZeroWeights)) ]_vars

(* A direct inference is of the inputs it was given and the weights its    *)
(* client wrote last, unless a queued runtime job loaded its own over them *)
(* (accel_mmio_demo.c:304-317, 866-887).                                   *)
SampleIsOwn ==
  sample.own =>
    IsInference(sample.result, sample.model, 8, sample.input[1], sample.input[2],
                select_npu_weights(sample.model, sample.weights))

(* The framebuffer is the union of the triangles drawn since the last      *)
(* clear, by whoever drew them: scanning the cut bounding box finds every  *)
(* pixel of a triangle of either winding, also one that leaves the screen  *)
(* (accel_mmio_demo.c:353-427).                                            *)
PictureRight == ~emu.exited => emu.fb = picture

(* A queued draw or clear leaves the whole picture in the buffer it names  *)
(* (accel_mmio_demo.c:184-193, 475-497).                                   *)
QueuedPictureStored ==
  [][ \A d \in Descs :
        /\ drain.on /\ More /\ emu.mem.ring[emu.reg["CMDQ_TAIL"]].desc = d
        /\ d.opcode \in {GPU_CLEAR, GPU_DRAW_TRI} /\ ~emu'.exited
        => emu'.mem.fb[TargetFb(emu, d)] = picture' ]_vars

(* Between calls the status word tells the truth about the ring, reports   *)
(* an error only after one, and the counters add up: every processed       *)
(* descriptor is counted once, as what it was (accel_mmio_demo.c:171-182,  *)
(* 455-500, 695-762).                                                      *)
CountersTruthful ==
  /\ ~drain.on /\ ~emu.exited =>
       /\ ~emu.status.busy /\ (emu.status.empty <=> QueueEmpty)
       /\ emu.status.error => drain.error
       /\ emu.status.processed = emu.processed % 65536
  /\ emu.processed = Len(jobs.processed)
  /\ ~emu.exited => emu.npu_count + emu.gpu_count + emu.error_count + jobs.nops
                    = emu.processed

(* A doorbell that starts the loop returns with every descriptor that was  *)
(* submitted processed: the count that guards the loop never ends it, and  *)
(* what is left of an earlier submission is taken first                    *)
(* (accel_mmio_demo.c:519-554).                                            *)
DoorbellDrains ==
  [][ drain.on /\ ~drain'.on =>
        /\ emu'.status.empty /\ Len(jobs'.processed) = jobs'.exposed
        /\ emu'.status.error <=> drain.error ]_vars
=============================================================================
