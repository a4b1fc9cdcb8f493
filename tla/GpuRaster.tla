------------------------------ MODULE GpuRaster ------------------------------
(***************************************************************************)
(* The pixels of gpu3d_lite_stub.v: a CLEAR wipes one row of the           *)
(* framebuffer per clock edge, a DRAW_TRI visits the bounding box of its   *)
(* triangle, one pixel per edge.  g is the block's registers, f its        *)
(* framebuffer, as the set of the pixels that are lit.                     *)
(*                                                                         *)
(* The corners and the box are latched together, so the box is computed    *)
(* from the corners.  The fill of a CLEAR is zero, the only one used.      *)
(***************************************************************************)
EXTENDS EmuMath

GpuRegisters ==
  [op : {"clear", "draw"}, tri : Corners, x : 0..Cols-1, y : 0..Rows-1,
   row : 0..Rows-1, raster_pixels : Nat]
GpuReset == [op |-> "draw", tri |-> << <<0, 0>>, <<0, 0>>, <<0, 0>> >>,
             x |-> 0, y |-> 0, row |-> 0, raster_pixels |-> 0]

clamp_fb_coord(value, n) == IF value > n - 1 THEN n - 1 ELSE value

(* The box is cut on all sides.                                            *)
Box(t) ==
  [min_x |-> clamp_fb_coord(Least(t[1][1], t[2][1], t[3][1]), Cols),
   max_x |-> clamp_fb_coord(Most(t[1][1], t[2][1], t[3][1]), Cols),
   min_y |-> clamp_fb_coord(Least(t[1][2], t[2][2], t[3][2]), Rows),
   max_y |-> clamp_fb_coord(Most(t[1][2], t[2][2], t[3][2]), Rows)]

StartClear(g) == [g EXCEPT !.op = "clear", !.row = 0, !.raster_pixels = 0]

StartDraw(g, t) ==
  [g EXCEPT !.op = "draw", !.tri = t, !.x = Box(t).min_x, !.y = Box(t).min_y,
            !.raster_pixels = 0]

Scan(g) == <<g.x, g.y>>
(* draw_inside                                                             *)
Lights(g) == IF Inside(g.tri, Scan(g)) THEN {Scan(g)} ELSE {}

(* Mutant: a CLEAR leaves the last row.                                    *)
LastEdgeEarly(g) ==
  IF g.op = "clear" THEN g.row = Rows - 2
  ELSE g.x = Box(g.tri).max_x /\ g.y = Box(g.tri).max_y

LastEdge(g) ==
  IF g.op = "clear" THEN g.row = Rows - 1
  ELSE g.x = Box(g.tri).max_x /\ g.y = Box(g.tri).max_y

Framebuffer(g, f) ==
  IF g.op = "clear" THEN { p \in f : p[2] # g.row } ELSE f \cup Lights(g)

Counted(g) == IF g.op = "draw" /\ Lights(g) # {} THEN g.raster_pixels + 1
                                                  ELSE g.raster_pixels

(* The next row, the next column, or the first one of the next row.        *)
Advance(g) ==
  IF g.op = "clear" THEN [g EXCEPT !.row = @ + 1]
  ELSE IF g.x = Box(g.tri).max_x
       THEN [g EXCEPT !.x = Box(g.tri).min_x, !.y = @ + 1, !.raster_pixels = Counted(g)]
       ELSE [g EXCEPT !.x = @ + 1, !.raster_pixels = Counted(g)]
=============================================================================
