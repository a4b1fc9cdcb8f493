------------------------------- MODULE EmuMath -------------------------------
(***************************************************************************)
(* The arithmetic of the host emulator (linux/uio/accel_mmio_demo.c): the  *)
(* NPU's inference and the GPU's rasteriser, and the definitions they are  *)
(* compared with.  A word of four int8 lanes is the tuple of its bytes.    *)
(***************************************************************************)
EXTENDS Integers, FiniteSets

CONSTANTS Cols, Rows      \* GPU_FB_COLS, GPU_FB_ROWS

ASSUME ScreenAssumption == Cols \in Nat \ {0} /\ Rows \in Nat \ {0}

Bytes == 0..255
Lanes == [1..4 -> Bytes]

-----------------------------------------------------------------------------
(* The NPU.                                                                *)

BUILTIN_1 == 1
BUILTIN_2 == 2
RUNTIME == 128
RUNTIME_MLP == 129

ZeroWord == <<0, 0, 0, 0>>
Ones == <<1, 1, 1, 1>>
MinusOnes == <<255, 255, 255, 255>>

(* Mutant: a byte is taken as unsigned.                                    *)
unpack_u8(byte) == byte

unpack_i8(byte) == IF byte >= 128 THEN byte - 256 ELSE byte

dot4_i8(l, r) ==
  unpack_i8(l[1]) * unpack_i8(r[1]) + unpack_i8(l[2]) * unpack_i8(r[2])
    + unpack_i8(l[3]) * unpack_i8(r[3]) + unpack_i8(l[4]) * unpack_i8(r[4])

Weights(a0, b0, a1, b1, bias0, bias1) ==
  [a0 |-> a0, b0 |-> b0, a1 |-> a1, b1 |-> b1, bias0 |-> bias0, bias1 |-> bias1]

(* The biases that no sum of eight products of bytes takes past int32_t.   *)
BiasLimit == 2147352576
Biases == -BiasLimit..BiasLimit-1
RuntimeWeights == [a0 : Lanes, b0 : Lanes, a1 : Lanes, b1 : Lanes, bias0 : Biases, bias1 : Biases]

FromRegisters(model) == model \in {RUNTIME, RUNTIME_MLP}

(* A model id that is none of the four is the first built-in.              *)
select_npu_weights(model, runtime) ==
  IF FromRegisters(model) THEN runtime
  ELSE IF model = BUILTIN_2 THEN Weights(MinusOnes, Ones, Ones, MinusOnes, 2, -2)
       ELSE Weights(Ones, MinusOnes, MinusOnes, Ones, 0, 0)

Relu(x) == IF x > 0 THEN x ELSE 0

(* What one inference leaves in the result registers and writes to memory. *)
Infer(model, seq, in0, in1, runtime) ==
  LET w       == select_npu_weights(model, runtime)
      linear0 == dot4_i8(in0, w.a0) + dot4_i8(in1, w.b0) + w.bias0
      linear1 == dot4_i8(in0, w.a1) + dot4_i8(in1, w.b1) + w.bias1
      mlp     == model = RUNTIME_MLP
      hidden0 == IF mlp THEN Relu(linear0) ELSE linear0
      hidden1 == IF mlp THEN Relu(linear1) ELSE linear1
      logit0  == IF mlp THEN hidden0 - hidden1 ELSE linear0
      logit1  == IF mlp THEN hidden1 - hidden0 ELSE linear1
  IN  [model |-> model, seq |-> seq % 256, hidden0 |-> hidden0,
       hidden1 |-> hidden1, logit0 |-> logit0, logit1 |-> logit1,
       class |-> IF logit1 > logit0 THEN 1 ELSE 0]

NoResult == [model |-> 0, seq |-> 0, hidden0 |-> 0, hidden1 |-> 0,
             logit0 |-> 0, logit1 |-> 0, class |-> 0]

(* What it should leave: the product of a 2x8 matrix of signed bytes and   *)
(* the eight inputs, plus the biases; for the MLP each row is cut at zero  *)
(* and the logits are the difference.  A tie is class 0.                   *)
Signed(byte) == ((byte + 128) % 256) - 128
Row(a, b, in0, in1) ==
  LET product[i \in 0..4] == IF i = 0 THEN 0 ELSE product[i-1]
        + Signed(a[i]) * Signed(in0[i]) + Signed(b[i]) * Signed(in1[i])
  IN  product[4]
IsInference(r, model, seq, in0, in1, w) ==
  LET y0 == Row(w.a0, w.b0, in0, in1) + w.bias0
      y1 == Row(w.a1, w.b1, in0, in1) + w.bias1
      z0 == IF y0 < 0 THEN 0 ELSE y0
      z1 == IF y1 < 0 THEN 0 ELSE y1
  IN  /\ r.model = model /\ r.seq = seq % 256
      /\ IF model = RUNTIME_MLP
         THEN <<r.hidden0, r.hidden1, r.logit0, r.logit1>> = <<z0, z1, z0 - z1, z1 - z0>>
         ELSE <<r.hidden0, r.hidden1, r.logit0, r.logit1>> = <<y0, y1, y0, y1>>
      /\ r.class = 1 <=> r.logit1 > r.logit0

-----------------------------------------------------------------------------
(* The GPU.  A pixel, and a vertex, is <<x, y>>; a vertex may lie off the  *)
(* screen to the right or below.                                           *)

Pixels == (0..Cols-1) \X (0..Rows-1)
Vertices == (0..255) \X (0..255)
Corners == Vertices \X Vertices \X Vertices

edge_fn(a, b, p) == (b[1] - a[1]) * (p[2] - a[2]) - (b[2] - a[2]) * (p[1] - a[1])

Least(a, b, c) == CHOOSE m \in {a, b, c} : m <= a /\ m <= b /\ m <= c
Most(a, b, c) == CHOOSE m \in {a, b, c} : m >= a /\ m >= b /\ m >= c

(* The bounding box, cut at the right and bottom of the screen.            *)
BBox(t) ==
  LET cut(m, n) == IF m >= n THEN n - 1 ELSE m
  IN  [min_x |-> Least(t[1][1], t[2][1], t[3][1]),
       min_y |-> Least(t[1][2], t[2][2], t[3][2]),
       max_x |-> cut(Most(t[1][1], t[2][1], t[3][1]), Cols),
       max_y |-> cut(Most(t[1][2], t[2][2], t[3][2]), Rows)]

area2(t) == edge_fn(t[1], t[2], t[3])

(* Mutant: a triangle wound the other way is not filled.                   *)
InsideOneWinding(t, p) ==
  /\ area2(t) > 0
  /\ edge_fn(t[1], t[2], p) >= 0 /\ edge_fn(t[2], t[3], p) >= 0
  /\ edge_fn(t[3], t[1], p) >= 0

Inside(t, p) ==
  LET e0 == edge_fn(t[1], t[2], p)
      e1 == edge_fn(t[2], t[3], p)
      e2 == edge_fn(t[3], t[1], p)
  IN  \/ area2(t) > 0 /\ e0 >= 0 /\ e1 >= 0 /\ e2 >= 0
      \/ area2(t) < 0 /\ e0 <= 0 /\ e1 <= 0 /\ e2 <= 0

(* The pixels a draw sets: the scan of the box.                            *)
Raster(t) ==
  LET box == BBox(t)
  IN  { p \in (box.min_x..box.max_x) \X (box.min_y..box.max_y) : Inside(t, p) }

(* The pixels it should set: those of the screen on no side of which the   *)
(* triangle lies entirely on the other side; none when it is a line.       *)
Triangle(t) ==
  LET same(a, b, c, p) == edge_fn(a, b, p) * edge_fn(a, b, c) >= 0
  IN  { p \in Pixels : /\ area2(t) # 0
                       /\ same(t[1], t[2], t[3], p) /\ same(t[2], t[3], t[1], p)
                       /\ same(t[3], t[1], t[2], p) }
=============================================================================
