------------------------------ MODULE AccelRegs ------------------------------
(***************************************************************************)
(* The register file of accel_mmio_regs.v, as far as the command queue and *)
(* the direct start of the NPU and GPU use it.  One operator per register  *)
(* a write can hit; at an edge at most one register is written (do_write). *)
(* npu_done and gpu_done are the completion pulses sampled at the edge.    *)
(***************************************************************************)
EXTENDS AccelTypes

VARIABLE regs

RegFile ==
  [cmdq_enable : BOOLEAN, cmdq_head : Slots, cmdq_tail : Slots,
   cmdq_doorbell : Nat, npu_start_pulse : BOOLEAN,
   gpu_cmd_pulse : BOOLEAN, gpu_cmd_opcode : {"CLEAR", "DRAW_TRI"},
   npu_done_sticky : BOOLEAN, gpu_done_sticky : BOOLEAN]

RegsTypeOK == regs \in RegFile

RegsInit ==
  regs = [cmdq_enable |-> FALSE, cmdq_head |-> 0, cmdq_tail |-> 0,
          cmdq_doorbell |-> 0, npu_start_pulse |-> FALSE,
          gpu_cmd_pulse |-> FALSE, gpu_cmd_opcode |-> "DRAW_TRI",
          npu_done_sticky |-> FALSE, gpu_done_sticky |-> FALSE]

(* Mutant: the NPU's completion bit is not sticky.                         *)
RegsEveryEdgeNotSticky(npu_done, gpu_done) ==
  [regs EXCEPT !.npu_start_pulse = FALSE, !.gpu_cmd_pulse = FALSE,
               !.npu_done_sticky = npu_done,
               !.gpu_done_sticky = @ \/ gpu_done]

(* Every edge: the pulses fall and completions set their sticky bits.  A   *)
(* write at the same edge is applied on top and wins.                      *)
RegsEveryEdge(npu_done, gpu_done) ==
  [regs EXCEPT !.npu_start_pulse = FALSE, !.gpu_cmd_pulse = FALSE,
               !.npu_done_sticky = @ \/ npu_done,
               !.gpu_done_sticky = @ \/ gpu_done]

NoWrite(npu_done, gpu_done) == regs' = RegsEveryEdge(npu_done, gpu_done)

(* CONTROL: writing a one to bit 0 or 1 starts the NPU or the GPU.         *)
WriteControl(npu, gpu, npu_done, gpu_done) ==
  regs' = [RegsEveryEdge(npu_done, gpu_done) EXCEPT !.npu_start_pulse = npu,
                                                     !.gpu_cmd_pulse = gpu]

(* STATUS: writing a one to bit 0 or 1 clears that completion.             *)
WriteStatus(npu, gpu, npu_done, gpu_done) ==
  regs' = [RegsEveryEdge(npu_done, gpu_done) EXCEPT
             !.npu_done_sticky = @ /\ ~npu, !.gpu_done_sticky = @ /\ ~gpu]

WriteGpuCmd(opcode, npu_done, gpu_done) ==
  regs' = [RegsEveryEdge(npu_done, gpu_done) EXCEPT !.gpu_cmd_opcode = opcode]

(* UMEM_CTRL bit 3.                                                        *)
WriteCmdqEnable(enable, npu_done, gpu_done) ==
  regs' = [RegsEveryEdge(npu_done, gpu_done) EXCEPT !.cmdq_enable = enable]

WriteHead(v, npu_done, gpu_done) ==
  regs' = [RegsEveryEdge(npu_done, gpu_done) EXCEPT !.cmdq_head = v]

(* TAIL is a plain software register: the frontend never writes it.        *)
WriteTail(v, npu_done, gpu_done) ==
  regs' = [RegsEveryEdge(npu_done, gpu_done) EXCEPT !.cmdq_tail = v]

WriteDoorbell(v, npu_done, gpu_done) ==
  regs' = [RegsEveryEdge(npu_done, gpu_done) EXCEPT !.cmdq_doorbell = v]
=============================================================================
