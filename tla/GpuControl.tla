------------------------------ MODULE GpuControl ------------------------------
(***************************************************************************)
(* The control of gpu3d_lite_stub.v: one command at a time, a CLEAR that   *)
(* takes one edge per framebuffer row and a DRAW_TRI that takes one edge   *)
(* per pixel of the triangle's bounding box.  The pixels are left out.     *)
(***************************************************************************)
EXTENDS AccelTypes

CONSTANTS
  FbRows,      \* rows of the framebuffer (32 in the RTL)
  BoxSizes     \* bounding-box sizes of the triangles drawn, in pixels

ASSUME GpuAssumption ==
  /\ FbRows \in Nat \ {0}
  /\ BoxSizes \subseteq Nat \ {0} /\ BoxSizes # {}

VARIABLE gpu

(* left counts the edges the command still takes.                          *)
GpuTypeOK ==
  gpu \in [busy : BOOLEAN, frame_done : BOOLEAN,
           mode : {"IDLE", "CLEAR", "DRAW_TRI"}, left : Nat,
           triangles_drawn : 0..CountMod-1, frame_counter : 0..CountMod-1]

GpuInit ==
  gpu = [busy |-> FALSE, frame_done |-> FALSE, mode |-> "IDLE", left |-> 0,
         triangles_drawn |-> 0, frame_counter |-> 0]

GpuTakes(cmd_valid, opcode) ==
  ~gpu.busy /\ cmd_valid /\ opcode \in {"CLEAR", "DRAW_TRI"}

GpuStart(cmd_valid, opcode) ==
  /\ GpuTakes(cmd_valid, opcode)
  /\ \E n \in IF opcode = "CLEAR" THEN {FbRows} ELSE BoxSizes :
       gpu' = [gpu EXCEPT !.busy = TRUE, !.frame_done = FALSE,
                          !.mode = opcode, !.left = n]

GpuIdle(cmd_valid, opcode) ==
  /\ ~gpu.busy /\ ~GpuTakes(cmd_valid, opcode)
  /\ gpu' = [gpu EXCEPT !.frame_done = FALSE]

(* A command that arrives while one runs is ignored without a trace.       *)
GpuWork ==
  /\ gpu.busy /\ gpu.left > 1
  /\ gpu' = [gpu EXCEPT !.left = @ - 1, !.frame_done = FALSE]

GpuEnd ==
  /\ gpu.busy /\ gpu.left = 1
  /\ gpu' = [gpu EXCEPT !.busy = FALSE, !.mode = "IDLE", !.left = 0,
               !.frame_done = TRUE, !.frame_counter = Inc(@),
               !.triangles_drawn = IF gpu.mode = "DRAW_TRI" THEN Inc(@) ELSE @]

GpuClock(cmd_valid, opcode) ==
  \/ GpuStart(cmd_valid, opcode)
  \/ GpuIdle(cmd_valid, opcode)
  \/ GpuWork
  \/ GpuEnd
=============================================================================
