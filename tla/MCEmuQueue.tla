------------------------------ MODULE MCEmuQueue ------------------------------
(* The emulator with a ring of three slots (112 bytes), two buffers of each *)
(* kind and a screen of four by four pixels.                                *)
EXTENDS EmuProps

Desc(op, model, s0, s1, s2, d0, arg) ==
  [opcode |-> op, model |-> model, src0 |-> s0, src1 |-> s1, src2 |-> s2,
   dst0 |-> d0, arg0 |-> arg]

(* A runtime and an inherited model, a draw that leaves the screen and is  *)
(* wound the other way, a clear, a NOP, an unknown opcode and a job whose   *)
(* output does not exist.                                                  *)
MCDescs ==
  { Desc(NPU_INFER, RUNTIME_MLP, 1, 2, 0, 2, 5), Desc(NPU_INFER, 0, 2, 1, 0, 1, 0),
    Desc(GPU_DRAW_TRI, 0, <<2, 1>>, <<1, 6>>, <<7, 2>>, 0, 0),
    Desc(GPU_CLEAR, 0, 0, 0, 0, 1, 1), Desc(NOP, 0, 0, 0, 0, 0, 0),
    Desc(9, 0, 0, 0, 0, 0, 0), Desc(NPU_INFER, BUILTIN_2, 1, 1, 0, 3, 8) }

MCInputs == { << <<1, 2, 255, 0>>, <<3, 0, 4, 128>> >> }
MCRuntimes == { Weights(<<2, 0, 2, 0>>, <<2, 0, 254, 0>>, <<0, 2, 0, 2>>, <<0, 2, 0, 2>>, -8, -8) }
MCModels == {BUILTIN_1, RUNTIME_MLP}
MCTriangles == { << <<0, 0>>, <<2, 0>>, <<0, 2>> >> }
=============================================================================
