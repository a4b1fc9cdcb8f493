---------------------------- MODULE RasterProofs ----------------------------
(***************************************************************************)
(* What the rasterisers of the emulator and of the GPU draw, for every     *)
(* triangle and every size of the screen.                                  *)
(***************************************************************************)
EXTENDS GpuRaster, FiniteSetTheorems, TLAPS

(* The least and the most of three numbers.                                *)
LEMMA LeastIs ==
  ASSUME NEW a \in Int, NEW b \in Int, NEW c \in Int
  PROVE  /\ Least(a, b, c) \in {a, b, c}
         /\ Least(a, b, c) <= a /\ Least(a, b, c) <= b /\ Least(a, b, c) <= c
<1>1. \E m \in {a, b, c} : m <= a /\ m <= b /\ m <= c
  <2>1. (a <= b /\ a <= c) \/ (b <= a /\ b <= c) \/ (c <= a /\ c <= b)
    OBVIOUS
  <2>2. QED
    BY <2>1
<1>2. QED
  BY <1>1 DEF Least

LEMMA MostIs ==
  ASSUME NEW a \in Int, NEW b \in Int, NEW c \in Int
  PROVE  /\ Most(a, b, c) \in {a, b, c}
         /\ Most(a, b, c) >= a /\ Most(a, b, c) >= b /\ Most(a, b, c) >= c
<1>1. \E m \in {a, b, c} : m >= a /\ m >= b /\ m >= c
  <2>1. (a >= b /\ a >= c) \/ (b >= a /\ b >= c) \/ (c >= a /\ c >= b)
    OBVIOUS
  <2>2. QED
    BY <2>1
<1>2. QED
  BY <1>1 DEF Most

(* The signs of a product.                                                 *)
LEMMA Signs ==
  ASSUME NEW x \in Int, NEW y \in Int
  PROVE  /\ y > 0 => (x * y >= 0 <=> x >= 0)
         /\ y < 0 => (x * y >= 0 <=> x <= 0)
  OBVIOUS

LEMMA MulSign ==
  ASSUME NEW x \in Int, NEW y \in Int
  PROVE  /\ x * y \in Int
         /\ y >= 0 /\ x >= 0 => x * y >= 0
         /\ y <= 0 /\ x >= 0 => x * y <= 0
         /\ y >= 0 /\ x <= 0 => x * y <= 0
         /\ y <= 0 /\ x <= 0 => x * y >= 0
  OBVIOUS

LEMMA MulStrict ==
  ASSUME NEW x \in Int, NEW y \in Int
  PROVE  /\ x > 0 /\ y < 0 => x * y < 0
         /\ x > 0 /\ y > 0 => x * y > 0
         /\ x < 0 /\ y < 0 => x * y > 0
         /\ x < 0 /\ y > 0 => x * y < 0
  OBVIOUS

(* The edge functions of a point add up to the area, and weigh the         *)
(* corners' coordinates, seen from any m, to the point's.                  *)
LEMMA Barycentric ==
  ASSUME NEW ax \in Int, NEW ay \in Int, NEW bx \in Int, NEW by \in Int,
         NEW cx \in Int, NEW cy \in Int, NEW px \in Int, NEW py \in Int, NEW m \in Int
  PROVE LET e0 == (bx - ax) * (py - ay) - (by - ay) * (px - ax)
            e1 == (cx - bx) * (py - by) - (cy - by) * (px - bx)
            e2 == (ax - cx) * (py - cy) - (ay - cy) * (px - cx)
            ar == (bx - ax) * (cy - ay) - (by - ay) * (cx - ax)
        IN  /\ e0 + e1 + e2 = ar
            /\ ar * (px - m) = e1 * (ax - m) + e2 * (bx - m) + e0 * (cx - m)
            /\ ar * (py - m) = e1 * (ay - m) + e2 * (by - m) + e0 * (cy - m)
  OBVIOUS

(* A pixel inside a triangle lies between the smallest and the largest     *)
(* coordinate of its corners: each of its coordinates is their average,    *)
(* weighted by the three edge functions.                                   *)
Between(t, q, i) ==
  /\ Least(t[1][i], t[2][i], t[3][i]) <= q[i]
  /\ Most(t[1][i], t[2][i], t[3][i]) >= q[i]

LEMMA InsideIsBetween ==
  ASSUME NEW t, NEW p, NEW i \in {1, 2},
         \A j \in 1..3 : t[j] \in Int \X Int, p \in Int \X Int, Inside(t, p)
  PROVE  Between(t, p, i)
<1> DEFINE ax == t[1][1]  ay == t[1][2]  bx == t[2][1]  by == t[2][2]
           cx == t[3][1]  cy == t[3][2]  px == p[1]     py == p[2]
           x == t[1][i]  y == t[2][i]  z == t[3][i]  q == p[i]
           e0 == (bx - ax) * (py - ay) - (by - ay) * (px - ax)
           e1 == (cx - bx) * (py - by) - (cy - by) * (px - bx)
           e2 == (ax - cx) * (py - cy) - (ay - cy) * (px - cx)
           s  == (bx - ax) * (cy - ay) - (by - ay) * (cx - ax)
<1>1. /\ ax \in Int /\ ay \in Int /\ bx \in Int /\ by \in Int
      /\ cx \in Int /\ cy \in Int /\ px \in Int /\ py \in Int
  OBVIOUS
<1>2. \/ s > 0 /\ e0 >= 0 /\ e1 >= 0 /\ e2 >= 0
      \/ s < 0 /\ e0 <= 0 /\ e1 <= 0 /\ e2 <= 0
  BY DEF Inside, edge_fn, area2
<1>3. x \in Int /\ y \in Int /\ z \in Int /\ q \in Int
  OBVIOUS
<1>4. \/ x = ax /\ y = bx /\ z = cx /\ q = px
      \/ x = ay /\ y = by /\ z = cy /\ q = py
  OBVIOUS
<1> HIDE DEF ax, ay, bx, by, cx, cy, px, py, x, y, z, q
<1>5. e0 \in Int /\ e1 \in Int /\ e2 \in Int /\ s \in Int
  BY <1>1
<1>6. ASSUME NEW m \in Int
      PROVE  s * (q - m) = e1 * (x - m) + e2 * (y - m) + e0 * (z - m)
  <2>1. /\ s * (px - m) = e1 * (ax - m) + e2 * (bx - m) + e0 * (cx - m)
        /\ s * (py - m) = e1 * (ay - m) + e2 * (by - m) + e0 * (cy - m)
    BY <1>1, Barycentric
  <2>2. QED
    BY <1>4, <2>1
<1> HIDE DEF e0, e1, e2, s
<1>7. ASSUME NEW m \in Int
      PROVE  /\ m <= x /\ m <= y /\ m <= z => m <= q
             /\ m >= x /\ m >= y /\ m >= z => m >= q
  <2> DEFINE dx == x - m  dy == y - m  dz == z - m  dq == q - m
  <2>1. dx \in Int /\ dy \in Int /\ dz \in Int /\ dq \in Int
    BY <1>3
  <2>2. s * dq = e1 * dx + e2 * dy + e0 * dz
    BY <1>6
  <2> HIDE DEF dx, dy, dz, dq
  <2>3. /\ e1 * dx \in Int /\ e2 * dy \in Int /\ e0 * dz \in Int
        /\ dx >= 0 /\ e1 >= 0 => e1 * dx >= 0
        /\ dx <= 0 /\ e1 >= 0 => e1 * dx <= 0
        /\ dx >= 0 /\ e1 <= 0 => e1 * dx <= 0
        /\ dx <= 0 /\ e1 <= 0 => e1 * dx >= 0
        /\ dy >= 0 /\ e2 >= 0 => e2 * dy >= 0
        /\ dy <= 0 /\ e2 >= 0 => e2 * dy <= 0
        /\ dy >= 0 /\ e2 <= 0 => e2 * dy <= 0
        /\ dy <= 0 /\ e2 <= 0 => e2 * dy >= 0
        /\ dz >= 0 /\ e0 >= 0 => e0 * dz >= 0
        /\ dz <= 0 /\ e0 >= 0 => e0 * dz <= 0
        /\ dz >= 0 /\ e0 <= 0 => e0 * dz <= 0
        /\ dz <= 0 /\ e0 <= 0 => e0 * dz >= 0
    BY <1>5, <2>1, MulSign
  <2>4. /\ s > 0 /\ dq < 0 => s * dq < 0
        /\ s > 0 /\ dq > 0 => s * dq > 0
        /\ s < 0 /\ dq < 0 => s * dq > 0
        /\ s < 0 /\ dq > 0 => s * dq < 0
    BY <1>5, <2>1, MulStrict
  <2>5. dx >= 0 /\ dy >= 0 /\ dz >= 0 => dq >= 0
    BY <1>2, <1>5, <2>1, <2>2, <2>3, <2>4
  <2>6. dx <= 0 /\ dy <= 0 /\ dz <= 0 => dq <= 0
    BY <1>2, <1>5, <2>1, <2>2, <2>3, <2>4
  <2>7. QED
    BY <1>3, <2>5, <2>6 DEF dx, dy, dz, dq
<1>8. Least(x, y, z) <= q /\ Most(x, y, z) >= q
  <2>1. /\ Least(x, y, z) \in Int /\ Most(x, y, z) \in Int
        /\ Least(x, y, z) <= x /\ Least(x, y, z) <= y /\ Least(x, y, z) <= z
        /\ Most(x, y, z) >= x /\ Most(x, y, z) >= y /\ Most(x, y, z) >= z
    BY <1>3, LeastIs, MostIs
  <2>2. QED
    BY <1>7, <2>1
<1>9. QED
  BY <1>8 DEF Between, x, y, z, q

(* Inside is the half-plane test of Triangle.                              *)
LEMMA InsideIsHalfPlanes ==
  ASSUME NEW t, NEW p,
         \A i \in 1..3 : t[i] \in Int \X Int, p \in Int \X Int
  PROVE  Inside(t, p) <=>
         /\ area2(t) # 0
         /\ edge_fn(t[1], t[2], p) * edge_fn(t[1], t[2], t[3]) >= 0
         /\ edge_fn(t[2], t[3], p) * edge_fn(t[2], t[3], t[1]) >= 0
         /\ edge_fn(t[3], t[1], p) * edge_fn(t[3], t[1], t[2]) >= 0
<1> DEFINE s == area2(t)
           e0 == edge_fn(t[1], t[2], p)
           e1 == edge_fn(t[2], t[3], p)
           e2 == edge_fn(t[3], t[1], p)
<1>1. e0 \in Int /\ e1 \in Int /\ e2 \in Int /\ s \in Int
  BY DEF area2, edge_fn
<1>2. /\ edge_fn(t[1], t[2], t[3]) = s /\ edge_fn(t[2], t[3], t[1]) = s
      /\ edge_fn(t[3], t[1], t[2]) = s
  BY DEF area2, edge_fn
<1>3. Inside(t, p) <=> \/ s > 0 /\ e0 >= 0 /\ e1 >= 0 /\ e2 >= 0
                       \/ s < 0 /\ e0 <= 0 /\ e1 <= 0 /\ e2 <= 0
  BY DEF Inside
<1> HIDE DEF s, e0, e1, e2
<1>4. /\ s > 0 => (e0 * s >= 0 <=> e0 >= 0) /\ (e1 * s >= 0 <=> e1 >= 0)
                  /\ (e2 * s >= 0 <=> e2 >= 0)
      /\ s < 0 => (e0 * s >= 0 <=> e0 <= 0) /\ (e1 * s >= 0 <=> e1 <= 0)
                  /\ (e2 * s >= 0 <=> e2 <= 0)
  BY <1>1, Signs
<1>5. Inside(t, p) <=> s # 0 /\ e0 * s >= 0 /\ e1 * s >= 0 /\ e2 * s >= 0
  BY <1>1, <1>3, <1>4
<1>6. QED
  BY <1>2, <1>5 DEF s, e0, e1, e2

-----------------------------------------------------------------------------
(* The corners of a triangle, and its pixels, are points.                  *)
LEMMA CornerPoints ==
  ASSUME NEW t \in Corners
  PROVE  /\ \A j \in 1..3 : t[j] \in Int \X Int
         /\ t[1][1] \in Nat /\ t[2][1] \in Nat /\ t[3][1] \in Nat
         /\ t[1][2] \in Nat /\ t[2][2] \in Nat /\ t[3][2] \in Nat
  BY DEF Corners, Vertices

LEMMA PixelPoints ==
  ASSUME NEW p \in Pixels
  PROVE  /\ p \in Int \X Int /\ p = <<p[1], p[2]>>
         /\ p[1] \in 0..Cols-1 /\ p[2] \in 0..Rows-1
  BY ScreenAssumption DEF Pixels

(* The pixels inside are the triangle.                                     *)
LEMMA InsideIsTriangle ==
  ASSUME NEW t \in Corners
  PROVE  { p \in Pixels : Inside(t, p) } = Triangle(t)
  BY CornerPoints, PixelPoints, InsideIsHalfPlanes DEF Triangle

(* Of naturals, they are naturals.                                         *)
LEMMA LeastAndMost ==
  ASSUME NEW a \in Nat, NEW b \in Nat, NEW c \in Nat
  PROVE  /\ Least(a, b, c) \in Nat /\ Most(a, b, c) \in Nat
         /\ Least(a, b, c) <= Most(a, b, c)
<1>1. Least(a, b, c) \in {a, b, c} /\ Least(a, b, c) <= a
  BY LeastIs
<1>2. Most(a, b, c) \in {a, b, c} /\ Most(a, b, c) >= a
  BY MostIs
<1>3. QED
  BY <1>1, <1>2

(* The box of the GPU lies on the screen and is not empty.                 *)
LEMMA BoxTyped ==
  ASSUME NEW t \in Corners
  PROVE  /\ Box(t).min_x \in 0..Cols-1 /\ Box(t).max_x \in 0..Cols-1
         /\ Box(t).min_y \in 0..Rows-1 /\ Box(t).max_y \in 0..Rows-1
         /\ Box(t).min_x <= Box(t).max_x /\ Box(t).min_y <= Box(t).max_y
<1> USE ScreenAssumption
<1>1. ASSUME NEW a \in Nat, NEW b \in Nat, a <= b, NEW n \in Nat \ {0}
      PROVE  /\ clamp_fb_coord(a, n) \in 0..n-1 /\ clamp_fb_coord(b, n) \in 0..n-1
             /\ clamp_fb_coord(a, n) <= clamp_fb_coord(b, n)
  BY <1>1 DEF clamp_fb_coord
<1>2. /\ t[1][1] \in Nat /\ t[2][1] \in Nat /\ t[3][1] \in Nat
      /\ t[1][2] \in Nat /\ t[2][2] \in Nat /\ t[3][2] \in Nat
  BY CornerPoints
<1>3. /\ Least(t[1][1], t[2][1], t[3][1]) \in Nat /\ Most(t[1][1], t[2][1], t[3][1]) \in Nat
      /\ Least(t[1][1], t[2][1], t[3][1]) <= Most(t[1][1], t[2][1], t[3][1])
      /\ Least(t[1][2], t[2][2], t[3][2]) \in Nat /\ Most(t[1][2], t[2][2], t[3][2]) \in Nat
      /\ Least(t[1][2], t[2][2], t[3][2]) <= Most(t[1][2], t[2][2], t[3][2])
  BY <1>2, LeastAndMost
<1>4. /\ Box(t).min_x \in 0..Cols-1 /\ Box(t).max_x \in 0..Cols-1
      /\ Box(t).min_x <= Box(t).max_x
  BY <1>1, <1>3 DEF Box
<1>5. /\ Box(t).min_y \in 0..Rows-1 /\ Box(t).max_y \in 0..Rows-1
      /\ Box(t).min_y <= Box(t).max_y
  BY <1>1, <1>3 DEF Box
<1>6. QED
  BY <1>4, <1>5

(* Neither way to cut the box loses a pixel.                               *)
LEMMA InsideInBox ==
  ASSUME NEW t \in Corners, NEW p \in Pixels, Inside(t, p)
  PROVE  /\ Box(t).min_x <= p[1] /\ p[1] <= Box(t).max_x
         /\ Box(t).min_y <= p[2] /\ p[2] <= Box(t).max_y
         /\ BBox(t).min_x <= p[1] /\ p[1] <= BBox(t).max_x
         /\ BBox(t).min_y <= p[2] /\ p[2] <= BBox(t).max_y
<1>1. /\ t[1][1] \in Nat /\ t[2][1] \in Nat /\ t[3][1] \in Nat
      /\ t[1][2] \in Nat /\ t[2][2] \in Nat /\ t[3][2] \in Nat
  BY CornerPoints
<1>2. p[1] \in 0..Cols-1 /\ p[2] \in 0..Rows-1
  BY PixelPoints
<1>3. Between(t, p, 1) /\ Between(t, p, 2)
  BY CornerPoints, PixelPoints, InsideIsBetween
<1>4. /\ Least(t[1][1], t[2][1], t[3][1]) \in Nat /\ Most(t[1][1], t[2][1], t[3][1]) \in Nat
      /\ Least(t[1][2], t[2][2], t[3][2]) \in Nat /\ Most(t[1][2], t[2][2], t[3][2]) \in Nat
  BY <1>1, LeastAndMost
<1>5. QED
  BY <1>2, <1>3, <1>4, ScreenAssumption DEF Between, Box, BBox, clamp_fb_coord

(* The box of the emulator lies on the screen, or is empty.                *)
LEMMA BBoxOnScreen ==
  ASSUME NEW t \in Corners
  PROVE  /\ BBox(t).min_x \in Nat /\ BBox(t).max_x \in Int /\ BBox(t).max_x < Cols
         /\ BBox(t).min_y \in Nat /\ BBox(t).max_y \in Int /\ BBox(t).max_y < Rows
<1>1. /\ t[1][1] \in Nat /\ t[2][1] \in Nat /\ t[3][1] \in Nat
      /\ t[1][2] \in Nat /\ t[2][2] \in Nat /\ t[3][2] \in Nat
  BY CornerPoints
<1>2. /\ Least(t[1][1], t[2][1], t[3][1]) \in Nat /\ Most(t[1][1], t[2][1], t[3][1]) \in Nat
      /\ Least(t[1][2], t[2][2], t[3][2]) \in Nat /\ Most(t[1][2], t[2][2], t[3][2]) \in Nat
  BY <1>1, LeastAndMost
<1>3. QED
  BY <1>2, ScreenAssumption DEF BBox

(* The emulator's scan of the bounding box draws the triangle: every pixel *)
(* of it, of either winding, on the screen, and no other                   *)
(* (accel_mmio_demo.c:374-427).                                            *)
THEOREM RasterIsTriangle == \A t \in Corners : Raster(t) = Triangle(t)
<1> SUFFICES ASSUME NEW t \in Corners PROVE Raster(t) = Triangle(t)
  OBVIOUS
<1>1. ASSUME NEW p \in Raster(t) PROVE p \in Pixels /\ Inside(t, p)
  BY BBoxOnScreen, ScreenAssumption DEF Raster, Pixels
<1>2. ASSUME NEW p \in Pixels, Inside(t, p) PROVE p \in Raster(t)
  <2>1. p = <<p[1], p[2]>> /\ p[1] \in Int /\ p[2] \in Int
    BY PixelPoints
  <2>2. /\ p[1] \in BBox(t).min_x..BBox(t).max_x
        /\ p[2] \in BBox(t).min_y..BBox(t).max_y
    BY <1>2, <2>1, InsideInBox, BBoxOnScreen
  <2>3. QED
    BY <1>2, <2>1, <2>2 DEF Raster
<1>3. QED
  BY <1>1, <1>2, InsideIsTriangle

-----------------------------------------------------------------------------
(* The GPU, edge by edge.  Rest is what a draw has still to light.         *)

Ahead(g, p) == p[2] > g.y \/ (p[2] = g.y /\ p[1] >= g.x)
Rest(g) == { p \in Pixels : Inside(g.tri, p) /\ Ahead(g, p) }
InBox(g) ==
  /\ Box(g.tri).min_x <= g.x /\ g.x <= Box(g.tri).max_x
  /\ Box(g.tri).min_y <= g.y /\ g.y <= Box(g.tri).max_y

(* The fields of the GPU's registers.                                      *)
LEMMA RegistersTyped ==
  ASSUME NEW g \in GpuRegisters
  PROVE  /\ g.op \in {"clear", "draw"} /\ g.tri \in Corners
         /\ g.x \in 0..Cols-1 /\ g.y \in 0..Rows-1 /\ g.row \in 0..Rows-1
         /\ g.raster_pixels \in Nat /\ Scan(g) \in Pixels
         /\ Scan(g)[1] = g.x /\ Scan(g)[2] = g.y
  BY DEF GpuRegisters, Scan, Pixels

(* A draw starts with the whole triangle before it.                        *)
LEMMA StartsWithAll ==
  ASSUME NEW g \in GpuRegisters, NEW t \in Corners
  PROVE  /\ StartDraw(g, t) \in GpuRegisters /\ StartDraw(g, t).op = "draw"
         /\ StartDraw(g, t).tri = t /\ StartDraw(g, t).raster_pixels = 0
         /\ InBox(StartDraw(g, t)) /\ Rest(StartDraw(g, t)) = Triangle(t)
<1> DEFINE h == StartDraw(g, t)
<1>1. /\ h.op = "draw" /\ h.tri = t /\ h.x = Box(t).min_x /\ h.y = Box(t).min_y
      /\ h.raster_pixels = 0
  BY DEF StartDraw, GpuRegisters
<1>2. h \in GpuRegisters
  BY BoxTyped DEF StartDraw, GpuRegisters
<1>3. InBox(h)
  BY <1>1, BoxTyped DEF InBox
<1>4. \A p \in Pixels : Inside(t, p) => Ahead(h, p)
  BY <1>1, InsideInBox, BoxTyped, PixelPoints DEF Ahead
<1>5. Rest(h) = Triangle(t)
  BY <1>1, <1>4, InsideIsTriangle DEF Rest
<1>6. QED
  BY <1>1, <1>2, <1>3, <1>5

(* An edge that is not the last lights the pixel it is at and leaves the   *)
(* rest.                                                                   *)
LEMMA EdgeOfDraw ==
  ASSUME NEW g \in GpuRegisters, g.op = "draw", InBox(g), ~LastEdge(g)
  PROVE  /\ Advance(g) \in GpuRegisters /\ InBox(Advance(g))
         /\ Advance(g).op = "draw" /\ Advance(g).tri = g.tri
         /\ Advance(g).raster_pixels = Counted(g)
         /\ Rest(g) = Lights(g) \cup Rest(Advance(g))
         /\ Scan(g) \notin Rest(Advance(g))
<1> DEFINE h == Advance(g)  t == g.tri
<1>1. /\ t \in Corners /\ g.x \in 0..Cols-1 /\ g.y \in 0..Rows-1
      /\ Scan(g) \in Pixels /\ Scan(g)[1] = g.x /\ Scan(g)[2] = g.y
  BY RegistersTyped
<1>2. /\ Box(t).min_x \in 0..Cols-1 /\ Box(t).max_x \in 0..Cols-1
      /\ Box(t).min_y \in 0..Rows-1 /\ Box(t).max_y \in 0..Rows-1
      /\ Box(t).min_x <= Box(t).max_x /\ Box(t).min_y <= Box(t).max_y
  BY <1>1, BoxTyped
<1>3. Counted(g) \in Nat
  BY RegistersTyped DEF Counted
<1>4. /\ h.op = "draw" /\ h.tri = t /\ h.raster_pixels = Counted(g)
      /\ g.x = Box(t).max_x => h.x = Box(t).min_x /\ h.y = g.y + 1
      /\ g.x # Box(t).max_x => h.x = g.x + 1 /\ h.y = g.y
  BY DEF Advance, GpuRegisters
<1>5. /\ g.x = Box(t).max_x => g.y + 1 <= Box(t).max_y
      /\ g.x # Box(t).max_x => g.x + 1 <= Box(t).max_x
  BY <1>1, <1>2 DEF InBox, LastEdge
<1>6. h \in GpuRegisters
  <2>1. CASE g.x = Box(t).max_x
    <3>1. g.y + 1 \in 0..Rows-1
      BY <1>1, <1>2, <1>5, <2>1, ScreenAssumption
    <3>2. QED
      BY <1>2, <1>3, <2>1, <3>1 DEF Advance, GpuRegisters
  <2>2. CASE g.x # Box(t).max_x
    <3>1. g.x + 1 \in 0..Cols-1
      BY <1>1, <1>2, <1>5, <2>2, ScreenAssumption
    <3>2. QED
      BY <1>3, <2>2, <3>1 DEF Advance, GpuRegisters
  <2>3. QED
    BY <2>1, <2>2
<1>7. InBox(h)
  BY <1>1, <1>2, <1>4, <1>5 DEF InBox
<1> HIDE DEF h, t
<1>8. ASSUME NEW p \in Pixels, Inside(t, p)
      PROVE  Ahead(g, p) <=> p = Scan(g) \/ Ahead(h, p)
  <2>1. /\ p[1] \in Int /\ p[2] \in Int /\ p = <<p[1], p[2]>>
        /\ Box(t).min_x <= p[1] /\ p[1] <= Box(t).max_x
    BY <1>1, <1>8, InsideInBox, PixelPoints
  <2>2. p = Scan(g) <=> p[1] = g.x /\ p[2] = g.y
    BY <2>1 DEF Scan
  <2>3. QED
    BY <1>1, <1>2, <1>4, <2>1, <2>2 DEF Ahead
<1>9. Rest(g) = Lights(g) \cup Rest(h)
  BY <1>1, <1>4, <1>8 DEF Rest, Lights, t
<1>10. ~Ahead(h, Scan(g))
  BY <1>1, <1>2, <1>4 DEF Ahead
<1>11. Scan(g) \notin Rest(h)
  BY <1>10 DEF Rest
<1>12. QED
  BY <1>4, <1>6, <1>7, <1>9, <1>11 DEF h, t

(* The last edge lights what is left.                                      *)
LEMMA LastEdgeOfDraw ==
  ASSUME NEW g \in GpuRegisters, g.op = "draw", LastEdge(g)
  PROVE  Rest(g) = Lights(g)
<1> DEFINE t == g.tri
<1>1. /\ t \in Corners /\ g.x \in 0..Cols-1 /\ g.y \in 0..Rows-1
      /\ Scan(g) \in Pixels /\ Scan(g)[1] = g.x /\ Scan(g)[2] = g.y
  BY RegistersTyped
<1>2. g.x = Box(t).max_x /\ g.y = Box(t).max_y
  BY DEF LastEdge
<1> HIDE DEF t
<1>3. ASSUME NEW p \in Pixels, Inside(t, p)
      PROVE  Ahead(g, p) <=> p = Scan(g)
  <2>1. /\ p[1] \in Int /\ p[2] \in Int /\ p = <<p[1], p[2]>>
        /\ p[1] <= Box(t).max_x /\ p[2] <= Box(t).max_y
    BY <1>1, <1>3, InsideInBox, PixelPoints
  <2>2. p = Scan(g) <=> p[1] = g.x /\ p[2] = g.y
    BY <2>1 DEF Scan
  <2>3. QED
    BY <1>1, <1>2, <2>1, <2>2 DEF Ahead
<1>4. QED
  BY <1>1, <1>3 DEF Rest, Lights, t

(* What is left is finite: it can be counted.                              *)
LEMMA RestIsFinite ==
  ASSUME NEW g \in GpuRegisters
  PROVE  IsFiniteSet(Rest(g)) /\ Cardinality(Rest(g)) \in Nat
<1>1. IsFiniteSet(Pixels)
  <2>1. IsFiniteSet(0..Cols-1) /\ IsFiniteSet(0..Rows-1)
    BY FS_Interval, ScreenAssumption
  <2>2. QED
    BY <2>1, FS_Product DEF Pixels
<1>2. IsFiniteSet(Rest(g))
  BY <1>1, FS_Subset DEF Rest
<1>3. QED
  BY <1>2, FS_CardinalityType

(* An edge moves a pixel from the rest to the count, if it lights one.     *)
LEMMA EdgeCounts ==
  ASSUME NEW g \in GpuRegisters, g.op = "draw", InBox(g), ~LastEdge(g)
  PROVE  Counted(g) + Cardinality(Rest(Advance(g)))
         = g.raster_pixels + Cardinality(Rest(g))
<1>1. /\ Advance(g) \in GpuRegisters /\ Rest(g) = Lights(g) \cup Rest(Advance(g))
      /\ Scan(g) \notin Rest(Advance(g))
  BY EdgeOfDraw
<1>2. IsFiniteSet(Rest(Advance(g))) /\ Cardinality(Rest(Advance(g))) \in Nat
  BY <1>1, RestIsFinite
<1>3. g.raster_pixels \in Nat
  BY RegistersTyped
<1>4. CASE Lights(g) = {}
  BY <1>1, <1>2, <1>3, <1>4 DEF Counted
<1>5. CASE Lights(g) # {}
  <2>1. Lights(g) = {Scan(g)}
    BY <1>5 DEF Lights
  <2>2. Rest(g) = Rest(Advance(g)) \cup {Scan(g)}
    BY <1>1, <2>1
  <2>3. Cardinality(Rest(g)) = Cardinality(Rest(Advance(g))) + 1
    BY <1>1, <1>2, <2>2, FS_AddElement
  <2>4. QED
    BY <1>2, <1>3, <1>5, <2>3 DEF Counted
<1>6. QED
  BY <1>4, <1>5

(* After the last edge the count is whole.                                 *)
LEMMA LastEdgeCounts ==
  ASSUME NEW g \in GpuRegisters, g.op = "draw", LastEdge(g)
  PROVE  Counted(g) = g.raster_pixels + Cardinality(Rest(g))
<1>1. Rest(g) = Lights(g) /\ g.raster_pixels \in Nat
  BY LastEdgeOfDraw, RegistersTyped
<1>2. CASE Lights(g) = {}
  BY <1>1, <1>2, FS_EmptySet DEF Counted
<1>3. CASE Lights(g) # {}
  <2>1. Lights(g) = {Scan(g)}
    BY <1>3 DEF Lights
  <2>2. Cardinality(Rest(g)) = 1
    BY <1>1, <2>1, FS_Singleton
  <2>3. QED
    BY <1>1, <1>3, <2>2 DEF Counted
<1>4. QED
  BY <1>2, <1>3

(* An edge keeps the command and its triangle.                             *)
LEMMA CommandKept ==
  ASSUME NEW g \in GpuRegisters
  PROVE  /\ Advance(g).op = g.op /\ Advance(g).tri = g.tri
         /\ [g EXCEPT !.raster_pixels = Counted(g)] \in GpuRegisters
  BY RegistersTyped DEF Advance, Counted, GpuRegisters

(* An edge leaves the framebuffer on the screen.                           *)
LEMMA FramebufferTyped ==
  ASSUME NEW g \in GpuRegisters, NEW f, f \subseteq Pixels
  PROVE  Framebuffer(g, f) \subseteq Pixels
  BY RegistersTyped DEF Framebuffer, Lights

(* A CLEAR starts above every pixel.                                       *)
LEMMA StartsAbove ==
  ASSUME NEW g \in GpuRegisters, NEW f, f \subseteq Pixels
  PROVE  /\ StartClear(g) \in GpuRegisters /\ StartClear(g).op = "clear"
         /\ \A p \in f : p[2] >= StartClear(g).row
<1>1. StartClear(g) \in GpuRegisters /\ StartClear(g).op = "clear" /\ StartClear(g).row = 0
  <2>1. 0 \in 0..Rows-1 /\ 0 \in Nat
    BY ScreenAssumption
  <2>2. QED
    BY <2>1 DEF StartClear, GpuRegisters
<1>2. QED
  BY <1>1, PixelPoints

(* A CLEAR that has wiped the rows above its row ends with nothing lit.    *)
LEMMA EdgeOfClear ==
  ASSUME NEW g \in GpuRegisters, g.op = "clear", NEW f, f \subseteq Pixels,
         \A p \in f : p[2] >= g.row
  PROVE  /\ LastEdge(g) => Framebuffer(g, f) = {}
         /\ ~LastEdge(g) => /\ Advance(g) \in GpuRegisters /\ Advance(g).op = "clear"
                            /\ \A p \in Framebuffer(g, f) : p[2] >= Advance(g).row
<1>1. g.row \in 0..Rows-1
  BY RegistersTyped
<1>2. \A p \in Framebuffer(g, f) : p \in f /\ p[2] # g.row /\ p[2] \in 0..Rows-1
  BY PixelPoints DEF Framebuffer
<1>3. LastEdge(g) => Framebuffer(g, f) = {}
  BY <1>1, <1>2, ScreenAssumption DEF LastEdge
<1>4. ASSUME ~LastEdge(g)
      PROVE  /\ Advance(g) \in GpuRegisters /\ Advance(g).op = "clear"
             /\ Advance(g).row = g.row + 1
  <2>1. g.row + 1 \in 0..Rows-1
    BY <1>1, <1>4, ScreenAssumption DEF LastEdge
  <2>2. QED
    BY <2>1 DEF Advance, GpuRegisters
<1>5. QED
  BY <1>1, <1>2, <1>3, <1>4
=============================================================================
