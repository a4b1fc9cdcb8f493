---------------------------- MODULE MCQueuePath ----------------------------
(* Values for the constants of QueuePath: the opcodes of the jobs the      *)
(* runs submit.                                                            *)
EXTENDS QueueProps

MixedOpcodes == << {"INVALID", "NOP"}, {"GPU_DRAW_TRI"}, {"NPU_INFER"}, {"NPU_INFER"} >>
NpuOpcodes   == << {"NPU_INFER"}, {"NPU_INFER"} >>
OneNpu       == << {"NPU_INFER"} >>
OneOfEither  == << {"NPU_INFER", "GPU_CLEAR"} >>
=============================================================================
