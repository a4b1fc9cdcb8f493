----------------------------- MODULE MCMmioDemo -----------------------------
(* The script of accel_mmio_demo.c's main on the board.                    *)
EXTENDS DemoProps

Demo == << <<2, 2>>, <<10, 2>>, <<2, 10>> >>
MCTriangles == {Demo}
C(op, model, input, w, tri) ==
  [op |-> op, model |-> model, input |-> input, weights |-> w, tri |-> tri]
Sample(model, input) == C("npu", model, input, "w0", Demo)

MCScript ==
  << Sample(1, "a"), Sample(1, "b"),
     C("weights", 1, "a", "w0", Demo), Sample(128, "a"), Sample(128, "b"),
     C("weights", 1, "a", "w8", Demo), Sample(129, "a"),
     C("setup", 1, "a", "w0", Demo),
     C("clear", 1, "a", "w0", Demo), C("draw", 1, "a", "w0", Demo) >>
MCModels == {1, 128, 129}
=============================================================================
