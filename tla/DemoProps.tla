------------------------------ MODULE DemoProps ------------------------------
(***************************************************************************)
(* What the direct client relies on, whenever it was killed before.        *)
(***************************************************************************)
EXTENDS MmioDemo

(* The types of the device, the driver and the process.                    *)
DemoTypeOK ==
  /\ busy \subseteq Units /\ sticky \subseteq Units /\ irq_enable \subseteq Units
  /\ umem_on \in BOOLEAN
  /\ cfg \in [model : Models \cup {None}, input : Inputs \cup {None},
              op : {"clear", "draw"}, tri : Corners]
  /\ weights \in WeightSets \cup {None}
  /\ npu \in [model : Models \cup {None}, input : Inputs \cup {None}]
  /\ result \in [model : Models \cup {None}, input : Inputs \cup {None},
                 weights : WeightSets \cup {None}]
  /\ gpu \in GpuRegisters
  /\ fb \subseteq Pixels
  /\ wired \in BOOLEAN /\ irq_on \in BOOLEAN /\ pending \in BOOLEAN
  /\ stage \in Stages /\ k \in 1..Len(Script) + 1 /\ use_irq \in BOOLEAN
  /\ polls \in 0..MaxPolls /\ runs \in 0..MaxRuns
  /\ asked \in [weights : WeightSets \cup {None}, drawn : SUBSET (Triangles \cup {None})]

(* The sample a run prints is the inference it asked for, with the weights *)
(* it wrote: also when a killed run left its done bit set, so that the     *)
(* wait wakes at once and the first poll already sees a completion         *)
(* (accel_mmio_demo.c:811-855, 866-887).                                   *)
AnswerIsOwn ==
  /\ stage = "print" /\ k <= Len(Script) /\ Script[k].op = "npu"
  /\ Script[k].model \in RuntimeModels => asked.weights # None
  => result = Computed(Script[k].model, Script[k].input, asked.weights)

(* The framebuffer a run dumps holds the triangles it drew since it        *)
(* cleared it, pixel for pixel, and nothing of an earlier run that was     *)
(* killed while its command was being drawn; the pixel count it prints is  *)
(* its triangle's (accel_mmio_demo.c:1137-1175, gpu3d_lite_stub.v:188-228).*)
Picture(triangles) == UNION { Triangle(t) : t \in triangles }
PictureIsOwn ==
  stage = "print" /\ k <= Len(Script) /\ Script[k].op = "draw" =>
    /\ None \notin asked.drawn => fb = Picture(asked.drawn)
    /\ gpu.raster_pixels = Cardinality(Triangle(Script[k].tri))

(* A process that sleeps in the driver is woken: an interrupt is counted   *)
(* already, or it is enabled in the kernel and in the device, and the unit *)
(* runs or has its done bit set.  Each wait needs its own enabling, and    *)
(* one that comes after the completion must not miss it                    *)
(* (accel_mmio_demo.c:824-855).                                            *)
WakeUpComes ==
  stage = "read" =>
    pending \/ (wired /\ irq_on /\ Unit(Call) \in irq_enable
                /\ Unit(Call) \in busy \cup sticky)

(* A run that gets to its end leaves no done bit it has waited for, and    *)
(* the interrupt line low, so that the next client is not woken by it:     *)
(* whatever a killed run had left (accel_mmio_demo.c:886, 1150, 1174).     *)
Waited == { Unit(Script[i]) : i \in { j \in 1..Len(Script) : UsesUnit(Script[j]) } }
LeavesClean ==
  stage = "call" /\ k > Len(Script) => busy = {} /\ sticky \cap Waited = {}

(* A run ends: no wait lasts for ever (accel_mmio_demo.c:811-855).         *)
RunEnds == Running ~> ~Running
=============================================================================
