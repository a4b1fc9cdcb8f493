------------------------------- MODULE EmuQueue -------------------------------
(***************************************************************************)
(* The host emulator and the software that drives it: the queue library    *)
(* accel_cmdq_host.c over its registers and memory, and the calls of       *)
(* accel_mmio_demo.c that use the NPU and GPU directly, in any order.      *)
(*                                                                         *)
(* There is one thread: a call runs to its end before the next, and the    *)
(* write of DOORBELL that processes the ring is the only one with steps of *)
(* its own, one per descriptor (drain).                                    *)
(***************************************************************************)
EXTENDS EmuDevice, Sequences

CONSTANTS
  Descs,       \* the descriptors clients push
  Inputs,      \* the inputs of samples, <<word, word>>
  Models,      \* the model ids of samples
  Runtimes,    \* the runtime weights clients write
  Triangles,   \* the triangles clients draw
  Doorbells,   \* the values clients pass to submit
  MaxJobs,     \* bound: descriptors pushed
  MaxCalls     \* bound: pushes and direct calls together

ASSUME ClientAssumption ==
  /\ \A d \in Descs :
       /\ d.opcode = GPU_DRAW_TRI => <<d.src0, d.src1, d.src2>> \in Corners
       /\ d.opcode \in {NPU_INFER, GPU_CLEAR} => d.arg0 \in Nat
  /\ Inputs \subseteq Lanes \X Lanes /\ Runtimes \subseteq RuntimeWeights
  /\ Triangles \subseteq Corners
  /\ Doorbells \subseteq Nat
  /\ MaxJobs \in Nat /\ MaxCalls \in Nat

VARIABLES
  emu,         \* the emulator
  drain,       \* the loop of emu_cmdq_process, when it runs
  host,        \* accel_cmdq_host_t
  jobs,        \* history: numbers of jobs pushed, submitted, processed
  picture,     \* history: the pixels the draws should have set
  sample,      \* history: the last direct inference and what it was asked
  direct       \* direct calls so far

vars == <<emu, drain, host, jobs, picture, sample, direct>>
history == <<picture, sample>>

NoDrain == [on |-> FALSE, safety |-> 0, error |-> FALSE]
(* weights are what the client last wrote to the weight registers, clean   *)
(* says that nothing was loaded over them since; the rest is the inference *)
(* the client ran last and read back, own that it was asked with registers *)
(* or buffers the client had reason to rely on.                            *)
NoSample == [weights |-> emu_init.reg["NPU_WEIGHTS"], clean |-> TRUE, own |-> FALSE,
             model |-> 0, input |-> <<ZeroWord, ZeroWord>>, result |-> NoResult]

(* main with --emulate; the demo enables the queue before it uses it.      *)
Init ==
  /\ emu = emu_init /\ drain = NoDrain
  /\ host = [cached_head |-> 0, cached_tail |-> 0]
  /\ jobs = [pushed |-> 0, exposed |-> 0, next |-> 1, processed |-> <<>>,
             nops |-> 0]
  /\ picture = {} /\ sample = NoSample /\ direct = 0

Idle == ~drain.on /\ ~emu.exited
CallsLeft == jobs.next + direct <= MaxCalls
Set1(r, v) == [x \in {r} |-> v]

-----------------------------------------------------------------------------
(* The queue library.                                                      *)

(* Mutant: push does not check for a full ring.                            *)
RoomUnchecked == TRUE

Room == (host.cached_head + 1) % Entries # host.cached_tail

accel_cmdq_host_push ==
  /\ Idle /\ jobs.next <= MaxJobs /\ CallsLeft /\ Room
  /\ \E d \in Descs :
       emu' = [emu EXCEPT !.mem.ring[host.cached_head] =
                 [id |-> jobs.pushed + 1, desc |-> d, done |-> FALSE, error |-> FALSE]]
  /\ host' = [host EXCEPT !.cached_head = (@ + 1) % Entries]
  /\ jobs' = [jobs EXCEPT !.pushed = @ + 1, !.next = @ + 1]
  /\ UNCHANGED <<drain, history, direct>>

(* HEAD, then DOORBELL: the second write runs the command processor when   *)
(* the queue is enabled and the value is not zero.                         *)
accel_cmdq_host_submit ==
  /\ Idle
  /\ \E v \in Doorbells :
       LET shown == Write(emu, Set1("CMDQ_HEAD", host.cached_head))
           rung  == Keep(shown, Set1("CMDQ_DOORBELL", v))
       IN  IF "CMDQ_ENABLE" \in emu.reg["UMEM_CTRL"] /\ v # 0
           THEN /\ emu' = BeginProcess(rung)
                /\ drain' = [on |-> TRUE, error |-> FALSE,
                             safety |-> entry_count(emu.reg["CMDQ_SIZE"])]
           ELSE /\ emu' = Write(shown, Set1("CMDQ_DOORBELL", v))
                /\ UNCHANGED drain
  /\ jobs' = [jobs EXCEPT !.exposed = jobs.pushed]
  /\ UNCHANGED <<host, history, direct>>

(* sync reads HEAD and TAIL back; what was pushed and not submitted is     *)
(* forgotten.                                                              *)
accel_cmdq_host_sync ==
  /\ Idle
  /\ host' = [cached_head |-> emu.reg["CMDQ_HEAD"], cached_tail |-> emu.reg["CMDQ_TAIL"]]
  /\ jobs' = [jobs EXCEPT !.pushed = jobs.exposed]
  /\ UNCHANGED <<emu, drain, history, direct>>

(* reset, by a client that has seen every submitted job processed.         *)
QueueEmpty == emu.reg["CMDQ_HEAD"] = emu.reg["CMDQ_TAIL"]
accel_cmdq_host_reset ==
  /\ Idle /\ QueueEmpty
  /\ emu' = Write([emu EXCEPT !.mem.ring = [s \in Slots |-> EmptySlot]],
                  [r \in {"CMDQ_HEAD", "CMDQ_TAIL", "CMDQ_DOORBELL"} |-> 0])
  /\ host' = [cached_head |-> 0, cached_tail |-> 0]
  /\ jobs' = [jobs EXCEPT !.pushed = jobs.exposed]
  /\ UNCHANGED <<drain, history, direct>>

-----------------------------------------------------------------------------
(* emu_cmdq_process.                                                       *)

Paint(d) ==
  CASE d.opcode = GPU_CLEAR -> IF d.arg0 % 2 = 1 THEN Pixels ELSE {}
    [] d.opcode = GPU_DRAW_TRI -> picture \cup Triangle(<<d.src0, d.src1, d.src2>>)
    [] OTHER -> picture

(* A run from memory loads the weights of a runtime model into the weight  *)
(* registers.                                                              *)
Overwrites(d) ==
  d.opcode = NPU_INFER
  /\ FromRegisters(IF d.model # 0 THEN d.model ELSE emu.reg["NPU_MODEL"])

(* Mutant: the loop stops at the first error.                              *)
MoreUntilError ==
  emu.reg["CMDQ_TAIL"] # emu.reg["CMDQ_HEAD"] /\ drain.safety # 0 /\ ~drain.error

More == emu.reg["CMDQ_TAIL"] # emu.reg["CMDQ_HEAD"] /\ drain.safety # 0

ProcessDescriptor ==
  /\ drain.on /\ ~emu.exited /\ More
  /\ emu' = ProcessOne(emu)
  /\ LET slot == emu.mem.ring[emu'.last.slot]
     IN  /\ drain' = [drain EXCEPT !.safety = @ - 1,
                                   !.error = @ \/ ~IsKnown(slot.desc.opcode)]
         /\ jobs' = IF emu'.exited THEN jobs
                    ELSE [jobs EXCEPT !.processed = Append(@, slot.id),
                                      !.nops = @ + (IF slot.desc.opcode = NOP THEN 1 ELSE 0)]
         /\ picture' = IF emu'.exited THEN picture ELSE Paint(slot.desc)
         /\ sample' = [sample EXCEPT !.clean = @ /\ ~Overwrites(slot.desc)]
  /\ UNCHANGED <<host, direct>>

FinishProcess ==
  /\ drain.on /\ ~emu.exited /\ ~More
  /\ emu' = EndProcess(emu, drain.error)
  /\ drain' = [NoDrain EXCEPT !.error = drain.error]
  /\ UNCHANGED <<host, jobs, history, direct>>

-----------------------------------------------------------------------------
(* The direct calls.                                                       *)

Direct == Idle /\ CallsLeft /\ direct' = direct + 1
          /\ UNCHANGED <<drain, host>>

(* run_npu_sample, with the unified memory off: configure, start, read the *)
(* result, clear the done bit.                                             *)
run_npu_sample ==
  /\ Direct /\ ~UsesBuffer(emu, "NPU_USE_BUF")
  /\ \E m \in Models, in \in Inputs :
       LET set == Keep(emu, [r \in {"NPU_MODEL", "NPU_SEQ", "NPU_INPUT0", "NPU_INPUT1"} |->
                    CASE r = "NPU_MODEL" -> m
                      [] r = "NPU_SEQ" -> 8
                      [] r = "NPU_INPUT0" -> in[1]
                      [] r = "NPU_INPUT1" -> in[2]])
       IN  \E ran \in {WriteControl(set, {"NPU_START"})} :
             /\ "NPU_DONE" \in ReadStatus(ran)
             /\ emu' = WriteStatus(ran, {"CLR_NPU_DONE"})
             /\ sample' = [sample EXCEPT !.model = m, !.input = in, !.result = ran.result,
                                         !.own = FromRegisters(m) => sample.clean]
  /\ UNCHANGED <<jobs, picture>>

(* The inference of run_unified_memory_demo: the operands are written to   *)
(* memory and the result is read from there.                               *)
run_unified_npu ==
  /\ Direct /\ UsesBuffer(emu, "NPU_USE_BUF")
  /\ \E in \in Inputs, w \in Runtimes :
       LET stored == [emu EXCEPT !.mem.in[emu.reg["UMEM_NPU_INPUT"]] = in,
                                 !.mem.w[emu.reg["UMEM_NPU_WEIGHT"]] = w]
           set == Keep(stored, [r \in {"NPU_MODEL", "NPU_SEQ"} |->
                                  IF r = "NPU_MODEL" THEN RUNTIME ELSE 8])
       IN  \E ran \in {WriteControl(set, {"NPU_START"})} :
             /\ "NPU_DONE" \in ReadStatus(ran)
             /\ emu' = WriteStatus(ran, {"CLR_NPU_DONE"})
             /\ sample' = [weights |-> w, clean |-> TRUE, own |-> TRUE, model |-> RUNTIME,
                           input |-> in, result |-> ran.mem.out[ran.reg["UMEM_NPU_OUTPUT"]]]
  /\ UNCHANGED <<jobs, picture>>

(* write_runtime_model, and the writes before the MLP sample.              *)
write_runtime_model ==
  /\ Direct
  /\ \E w \in Runtimes :
       /\ emu' = Keep(emu, Set1("NPU_WEIGHTS", w))
       /\ sample' = [sample EXCEPT !.weights = w, !.clean = TRUE, !.own = FALSE]
  /\ UNCHANGED <<jobs, picture>>

(* write_umem_npu_input and write_umem_runtime_model, for queued jobs.     *)
write_umem_operands ==
  /\ Direct
  /\ \E b \in Bufs, in \in Inputs, w \in Runtimes :
       emu' = [emu EXCEPT !.mem.in[b] = in, !.mem.w[b] = w]
  /\ UNCHANGED <<jobs, history>>

(* configure_unified_memory, once the queue is empty, or what the demo of  *)
(* the queue and a client that only queues do to enable it; a client of    *)
(* the library then syncs.                                                 *)
configure_unified_memory ==
  /\ Idle /\ CallsLeft /\ direct' = direct + 1 /\ QueueEmpty
  /\ \E bits \in {{"ENABLE", "NPU_USE_BUF", "GPU_USE_BUF"}, Ctrl,
                 {"ENABLE", "CMDQ_ENABLE"}} :
       emu' = Write(emu, [r \in {"UMEM_CTRL", "CMDQ_SIZE", "CMDQ_HEAD", "CMDQ_TAIL",
                                 "CMDQ_DOORBELL", "UMEM_NPU_INPUT", "UMEM_NPU_WEIGHT",
                                 "UMEM_NPU_OUTPUT", "UMEM_GPU_FB"} |->
                CASE r = "UMEM_CTRL" -> bits
                  [] r = "CMDQ_SIZE" -> CmdqBytes
                  [] r \in {"CMDQ_HEAD", "CMDQ_TAIL", "CMDQ_DOORBELL"} -> 0
                  [] OTHER -> 1])
  /\ host' = [cached_head |-> 0, cached_tail |-> 0]
  /\ jobs' = [jobs EXCEPT !.pushed = jobs.exposed]
  /\ UNCHANGED <<drain, history>>

(* The clear and the draw of run_gpu_demo.                                 *)
gpu_clear ==
  /\ Direct
  /\ LET set == Keep(emu, [r \in {"GPU_CLEAR_VALUE", "GPU_CMD"} |->
                             IF r = "GPU_CMD" THEN CLEAR ELSE 0])
     IN  \E ran \in {WriteControl(set, {"GPU_START"})} :
           "GPU_DONE" \in ReadStatus(ran) /\ emu' = WriteStatus(ran, {"CLR_GPU_DONE"})
  /\ picture' = {}
  /\ UNCHANGED <<jobs, sample>>

gpu_draw ==
  /\ Direct
  /\ \E t \in Triangles :
       LET set == Keep(emu, [r \in {"GPU_VERTEX0", "GPU_VERTEX1", "GPU_VERTEX2", "GPU_CMD"} |->
                    CASE r = "GPU_VERTEX0" -> t[1]
                      [] r = "GPU_VERTEX1" -> t[2]
                      [] r = "GPU_VERTEX2" -> t[3]
                      [] r = "GPU_CMD" -> DRAW_TRI])
       IN  \E ran \in {WriteControl(set, {"GPU_START"})} :
             /\ "GPU_DONE" \in ReadStatus(ran) /\ emu' = WriteStatus(ran, {"CLR_GPU_DONE"})
             /\ picture' = picture \cup Triangle(t)
  /\ UNCHANGED <<jobs, sample>>

Library == accel_cmdq_host_push \/ accel_cmdq_host_submit \/ accel_cmdq_host_sync
           \/ accel_cmdq_host_reset
Process == ProcessDescriptor \/ FinishProcess
Client == run_npu_sample \/ run_unified_npu \/ write_runtime_model
          \/ write_umem_operands \/ configure_unified_memory \/ gpu_clear \/ gpu_draw
Next == Library \/ Process \/ Client

Spec == Init /\ [][Next]_vars
=============================================================================
