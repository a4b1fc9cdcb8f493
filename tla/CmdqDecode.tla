------------------------------ MODULE CmdqDecode ------------------------------
(***************************************************************************)
(* accel_cmdq_desc_decode_stub.v (dec) and accel_cmdq_dispatch_stub.v      *)
(* (disp): two pipeline stages between a packed descriptor and the NPU and *)
(* GPU command ports.  The decoder's field registers are slices of one     *)
(* latched descriptor and are represented by it.                           *)
(***************************************************************************)
EXTENDS AccelTypes

VARIABLES dec, disp

DecRegs ==
  [decode_valid : BOOLEAN, desc : Descriptor,
   decode_count : 0..CountMod-1, error_count : 0..CountMod-1]

DispRegs ==
  [npu_dispatch_pulse : BOOLEAN, npu_job : NpuJob,
   gpu_dispatch_pulse : BOOLEAN,
   gpu_cmd_opcode : {"NONE", "CLEAR", "DRAW_TRI"}, gpu_id : Ids,
   dispatch_status : {"IDLE", "ERROR"}, last_opcode : Opcodes,
   npu_dispatch_count : 0..CountMod-1,
   gpu_dispatch_count : 0..CountMod-1,
   dispatch_error_count : 0..CountMod-1]

DecTypeOK == dec \in DecRegs /\ disp \in DispRegs

DecInit ==
  /\ dec = [decode_valid |-> FALSE, desc |-> ZeroDesc,
            decode_count |-> 0, error_count |-> 0]
  /\ disp = [npu_dispatch_pulse |-> FALSE, npu_job |-> ZeroJob,
             gpu_dispatch_pulse |-> FALSE, gpu_cmd_opcode |-> "NONE",
             gpu_id |-> 0, dispatch_status |-> "IDLE", last_opcode |-> "NOP",
             npu_dispatch_count |-> 0, gpu_dispatch_count |-> 0,
             dispatch_error_count |-> 0]

-----------------------------------------------------------------------------
(* The decoder latches every finished descriptor and counts it as good or  *)
(* bad by desc_error at that edge.  enable does not clear its counters.    *)

DecQuiet(enable, desc_valid) ==
  /\ ~(enable /\ desc_valid)
  /\ dec' = [dec EXCEPT !.decode_valid = FALSE]

DecGood(enable, desc_valid, desc_error, data) ==
  /\ enable /\ desc_valid /\ ~desc_error
  /\ dec' = [dec EXCEPT !.decode_valid = TRUE, !.desc = data,
                        !.decode_count = Inc(@)]

DecBad(enable, desc_valid, desc_error, data) ==
  /\ enable /\ desc_valid /\ desc_error
  /\ dec' = [dec EXCEPT !.decode_valid = FALSE, !.desc = data,
                        !.error_count = Inc(@)]

DecodeClock(enable, desc_valid, desc_error, data) ==
  \/ DecQuiet(enable, desc_valid)
  \/ DecGood(enable, desc_valid, desc_error, data)
  \/ DecBad(enable, desc_valid, desc_error, data)

-----------------------------------------------------------------------------
(* The dispatcher, one operator per arm of its case on the opcode.  Each   *)
(* arm overwrites the BUSY that precedes the case.                         *)

DispQuiet(d) == [d EXCEPT !.npu_dispatch_pulse = FALSE,
                          !.gpu_dispatch_pulse = FALSE]

(* Mutant: disabling keeps the NPU count.                                  *)
DispDisabledKeepsCount ==
  disp' = [DispQuiet(disp) EXCEPT !.dispatch_status = "IDLE",
              !.last_opcode = "NOP", !.gpu_dispatch_count = 0,
              !.dispatch_error_count = 0]

DispDisabled ==
  disp' = [DispQuiet(disp) EXCEPT !.dispatch_status = "IDLE",
              !.last_opcode = "NOP", !.npu_dispatch_count = 0,
              !.gpu_dispatch_count = 0, !.dispatch_error_count = 0]

DispNpu(opcode) ==
  /\ opcode = "NPU_INFER"
  /\ disp' = [DispQuiet(disp) EXCEPT !.npu_dispatch_pulse = TRUE,
                !.npu_job = JobIn(dec.desc), !.npu_dispatch_count = Inc(@),
                !.dispatch_status = "IDLE", !.last_opcode = opcode]

(* The GPU operands (clear value in arg0, vertices in src0..src2) are      *)
(* represented by the job they come from.                                  *)
DispGpu(opcode) ==
  /\ opcode \in {"GPU_CLEAR", "GPU_DRAW_TRI"}
  /\ disp' = [DispQuiet(disp) EXCEPT !.gpu_dispatch_pulse = TRUE,
                !.gpu_cmd_opcode = IF opcode = "GPU_CLEAR" THEN "CLEAR" ELSE "DRAW_TRI",
                !.gpu_id = dec.desc[0].id, !.gpu_dispatch_count = Inc(@),
                !.dispatch_status = "IDLE", !.last_opcode = opcode]

DispError(opcode) ==
  /\ opcode \notin {"NPU_INFER", "GPU_CLEAR", "GPU_DRAW_TRI"}
  /\ disp' = [DispQuiet(disp) EXCEPT !.dispatch_error_count = Inc(@),
                !.dispatch_status = "ERROR", !.last_opcode = opcode]

DispatchClock(enable) ==
  \/ ~enable /\ DispDisabled
  \/ /\ enable /\ dec.decode_valid
     /\ \E opcode \in OpcodesIn(dec.desc[0]) :
          DispNpu(opcode) \/ DispGpu(opcode) \/ DispError(opcode)
  \/ enable /\ ~dec.decode_valid /\ disp' = DispQuiet(disp)
=============================================================================
