------------------------------ MODULE DemoProofs ------------------------------
(***************************************************************************)
(* The direct client's invariants, for every script, every set of values   *)
(* and any number of runs and kills.                                       *)
(***************************************************************************)
EXTENDS DemoProps, RasterProofs

(* The inductive invariant.  A call that is under way is one that uses a   *)
(* unit; only the unit it waits for runs.                                  *)
Calling == {"enable", "set", "start", "read", "poll", "print", "clear"}
Waiting == {"read", "poll"}
InScript == stage \in Calling => k <= Len(Script) /\ UsesUnit(Call)
OnlyOwn ==
  /\ stage \in Waiting => busy \subseteq {Unit(Call)}
  /\ Running /\ stage \notin Waiting => busy = {}

(* What the registers hold once they are set, what a running unit latched, *)
(* and what it left when it ended.                                         *)
CfgIsOwn ==
  /\ stage = "start" /\ Call.op = "npu" => cfg.model = Call.model /\ cfg.input = Call.input
  /\ stage \in {"enable", "start"} /\ Call.op = "clear" => cfg.op = "clear"
  /\ stage \in {"enable", "start"} /\ Call.op = "draw" =>
       cfg.op = "draw" /\ cfg.tri = Call.tri
LatchedIsOwn ==
  stage \in Waiting =>
    /\ "npu" \in busy => npu = [model |-> Call.model, input |-> Call.input]
    /\ "gpu" \in busy => gpu.op = Call.op /\ (Call.op = "draw" => gpu.tri = Call.tri)
Ended == stage = "print" \/ (stage \in Waiting /\ Unit(Call) \notin busy)
DoneIsSet == Ended => Unit(Call) \in sticky
ResultIsOwn ==
  Ended /\ Call.op = "npu" => result = Computed(Call.model, Call.input, weights)
WeightsAreOwn == Running /\ asked.weights # None => weights = asked.weights

(* What this run drew is in the framebuffer, but for the command that runs.*)
Drawing == stage \in Waiting /\ "gpu" \in busy
DrawnIsIn ==
  Running /\ None \notin asked.drawn =>
    /\ ~Drawing => fb = Picture(asked.drawn)
    /\ Drawing /\ Call.op = "clear" =>
         asked.drawn = {} /\ \A p \in fb : p[2] >= gpu.row
    /\ Drawing /\ Call.op = "draw" => fb \cup Rest(gpu) = Picture(asked.drawn)

(* Wherever the process is, a draw that runs is within its box and has     *)
(* counted what it lit.  The count of the call's draw is whole at its end. *)
GpuScans ==
  "gpu" \in busy /\ gpu.op = "draw" =>
    InBox(gpu)
    /\ gpu.raster_pixels + Cardinality(Rest(gpu)) = Cardinality(Triangle(gpu.tri))
CountIsOwn ==
  Ended /\ Call.op = "draw" => gpu.raster_pixels = Cardinality(Triangle(Call.tri))

(* The interrupt, between its enabling and the read.                       *)
Enabled == stage \in {"start", "read"} \/ (stage = "set" /\ Call.op = "npu")
IrqArmed ==
  /\ use_irq /\ Running /\ stage # "irq" => irq_enable = Units
  /\ stage = "read" => use_irq
  /\ use_irq /\ Enabled => wired /\ (pending \/ irq_on)

(* A unit this run has waited for has a clear done bit, except while it is *)
(* waited for again.                                                       *)
ClearedBefore ==
  Running => \A i \in 1..Len(Script) :
    i < k /\ UsesUnit(Script[i]) /\ Unit(Script[i]) \in sticky
    => stage \in {"read", "poll", "print", "clear"} /\ Unit(Script[i]) = Unit(Call)

DInv ==
  /\ DemoTypeOK /\ InScript /\ OnlyOwn /\ CfgIsOwn /\ LatchedIsOwn /\ DoneIsSet
  /\ ResultIsOwn /\ WeightsAreOwn /\ DrawnIsIn /\ GpuScans /\ CountIsOwn
  /\ IrqArmed /\ ClearedBefore

-----------------------------------------------------------------------------
(* A call of the script has the fields of a call.                          *)
LEMMA CallTyped ==
  ASSUME NEW i \in 1..Len(Script)
  PROVE  /\ Script[i].op \in Ops /\ Script[i].model \in Models
         /\ Script[i].input \in Inputs /\ Script[i].weights \in WeightSets
         /\ Script[i].tri \in Triangles /\ Unit(Script[i]) \in Units
<1>1. Script \in Seq(Calls)
  BY ScriptAssumption
<1>2. Script[i] \in Calls
  BY <1>1
<1>3. QED
  BY <1>2 DEF Calls, Unit, Units

LEMMA ScriptLength == Len(Script) \in Nat
  BY ScriptAssumption

(* The current call, where there is one.                                   *)
LEMMA CallNow ==
  ASSUME DemoTypeOK, k <= Len(Script)
  PROVE  /\ k \in 1..Len(Script)
         /\ Call.op \in Ops /\ Call.model \in Models /\ Call.input \in Inputs
         /\ Call.weights \in WeightSets /\ Call.tri \in Triangles
         /\ Unit(Call) \in Units
<1>1. k \in 1..Len(Script)
  BY ScriptLength DEF DemoTypeOK
<1>2. QED
  BY <1>1, CallTyped DEF Call

-----------------------------------------------------------------------------
(* The types.                                                              *)

(* The reset values.                                                       *)
LEMMA ResetTyped == ResetTriangle \in Corners /\ GpuReset \in GpuRegisters
<1>1. ResetTriangle \in Corners
  BY DEF ResetTriangle, Corners, Vertices
<1>2. << <<0, 0>>, <<0, 0>>, <<0, 0>> >> \in Corners
  BY DEF Corners, Vertices
<1>3. QED
  BY <1>1, <1>2, ScreenAssumption DEF GpuReset, GpuRegisters

LEMMA InitTyped == Init => DemoTypeOK
<1> SUFFICES ASSUME Init PROVE DemoTypeOK
  OBVIOUS
<1>1. busy \subseteq Units /\ sticky \subseteq Units /\ irq_enable \subseteq Units
  BY DEF Init
<1>2. /\ umem_on \in BOOLEAN /\ wired \in BOOLEAN /\ irq_on \in BOOLEAN
      /\ pending \in BOOLEAN /\ use_irq \in BOOLEAN
  BY DEF Init
<1>3. cfg \in [model : Models \cup {None}, input : Inputs \cup {None},
               op : {"clear", "draw"}, tri : Corners]
  BY ResetTyped DEF Init
<1>4. /\ npu \in [model : Models \cup {None}, input : Inputs \cup {None}]
      /\ result \in [model : Models \cup {None}, input : Inputs \cup {None},
                     weights : WeightSets \cup {None}]
      /\ gpu \in GpuRegisters
      /\ asked \in [weights : WeightSets \cup {None},
                    drawn : SUBSET (Triangles \cup {None})]
  BY ResetTyped DEF Init
<1>5. stage \in Stages /\ k \in 1..Len(Script) + 1
  BY ScriptLength DEF Init, Stages
<1>6. polls \in 0..MaxPolls /\ runs \in 0..MaxRuns
  BY ScriptAssumption DEF Init
<1>7. weights \in WeightSets \cup {None} /\ fb \subseteq Pixels
  BY DEF Init
<1>8. QED
  BY <1>1, <1>2, <1>3, <1>4, <1>5, <1>6, <1>7 DEF DemoTypeOK

LEMMA StartUnitTyped ==
  ASSUME DemoTypeOK, k <= Len(Script), StartUnit(Unit(Call))
  PROVE  /\ busy' \subseteq Units
         /\ npu' \in [model : Models \cup {None}, input : Inputs \cup {None}]
         /\ gpu' \in GpuRegisters
<1>1. Unit(Call) \in Units
  BY CallNow
<1>2. busy' \subseteq Units
  BY <1>1 DEF DemoTypeOK, StartUnit
<1>3. npu' \in [model : Models \cup {None}, input : Inputs \cup {None}]
  BY DEF DemoTypeOK, StartUnit
<1>4. gpu \in GpuRegisters /\ cfg.tri \in Corners
  BY DEF DemoTypeOK
<1>5. StartClear(gpu) \in GpuRegisters /\ StartDraw(gpu, cfg.tri) \in GpuRegisters
  BY <1>4, StartsWithAll, StartsAbove
<1>6. gpu' \in GpuRegisters
  BY <1>4, <1>5 DEF StartUnit
<1>7. QED
  BY <1>2, <1>3, <1>6

LEMMA NextTyped == DemoTypeOK /\ InScript /\ GpuScans /\ [Next]_vars => DemoTypeOK'
<1> SUFFICES ASSUME DemoTypeOK, InScript, GpuScans, [Next]_vars PROVE DemoTypeOK'
  OBVIOUS
<1> USE ScriptLength
<1>1. CASE NpuDone
  <2>1. result' \in [model : Models \cup {None}, input : Inputs \cup {None},
                     weights : WeightSets \cup {None}]
    BY <1>1 DEF DemoTypeOK, NpuDone, Computed
  <2>2. busy' \subseteq Units /\ sticky' \subseteq Units
    BY <1>1 DEF DemoTypeOK, NpuDone, Units
  <2>3. QED
    BY <1>1, <2>1, <2>2 DEF DemoTypeOK, NpuDone, kernel, process
<1>2. CASE GpuWork
  <2>1. gpu \in GpuRegisters /\ fb \subseteq Pixels
    BY DEF DemoTypeOK
  <2>2. fb' \subseteq Pixels
    BY <1>2, <2>1, FramebufferTyped DEF GpuWork
  <2>3. gpu' \in GpuRegisters
    <3>1. CASE gpu.op = "draw"
      BY <1>2, <2>1, <3>1, EdgeOfDraw DEF GpuWork, GpuScans
    <3>2. CASE gpu.op = "clear"
      BY <1>2, <2>1, <3>2, EdgeOfClear DEF GpuWork
    <3>3. QED
      BY <2>1, <3>1, <3>2, RegistersTyped
  <2>4. QED
    BY <1>2, <2>2, <2>3 DEF DemoTypeOK, GpuWork, kernel, process
<1>3. CASE GpuDone
  <2>1. gpu \in GpuRegisters /\ fb \subseteq Pixels
    BY DEF DemoTypeOK
  <2>2. fb' \subseteq Pixels
    BY <1>3, <2>1, FramebufferTyped DEF GpuDone
  <2>3. gpu' \in GpuRegisters
    BY <1>3, <2>1, CommandKept DEF GpuDone
  <2>4. busy' \subseteq Units /\ sticky' \subseteq Units
    BY <1>3 DEF DemoTypeOK, GpuDone, Units
  <2>5. QED
    BY <1>3, <2>2, <2>3, <2>4 DEF DemoTypeOK, GpuDone, kernel, process
<1>4. CASE Interrupt
  <2>1. irq_on' \in BOOLEAN /\ pending' \in BOOLEAN
    BY <1>4 DEF Interrupt
  <2>2. UNCHANGED <<wired, device, process>>
    BY <1>4 DEF Interrupt
  <2>3. QED
    BY <2>1, <2>2 DEF DemoTypeOK, device, process
<1>5. CASE Open
  <2>1. use_irq' \in BOOLEAN /\ pending' \in BOOLEAN
    BY <1>5 DEF Open
  <2>2. stage' \in Stages /\ k' \in 1..Len(Script) + 1
    BY <1>5 DEF Open, Stages
  <2>3. polls' \in 0..MaxPolls /\ runs' \in 0..MaxRuns
    BY <1>5, ScriptAssumption DEF Open, DemoTypeOK
  <2>4. asked' \in [weights : WeightSets \cup {None},
                    drawn : SUBSET (Triangles \cup {None})]
    BY <1>5 DEF Open
  <2>5. UNCHANGED <<device, wired, irq_on>>
    BY <1>5 DEF Open
  <2>6. QED
    BY <2>1, <2>2, <2>3, <2>4, <2>5 DEF DemoTypeOK, device
<1>6. CASE WriteIrqEnable
  BY <1>6 DEF DemoTypeOK, WriteIrqEnable, Goto, kernel, Stages, Units
<1>7. CASE Close \/ Begin \/ UioRefuses \/ UioRead \/ PollSucceeds
          \/ PollTimeout \/ Show \/ Kill
  BY <1>7 DEF DemoTypeOK, Close, Begin, UioRefuses, UioRead, PollSucceeds,
     PollTimeout, Show, Kill, Goto, device, kernel, Stages
<1>8. CASE WriteWeights
  <2>1. k <= Len(Script)
    BY <1>8 DEF WriteWeights, InCall
  <2>2. Call.weights \in WeightSets
    BY <2>1, CallNow
  <2>3. QED
    BY <1>8, <2>1, <2>2 DEF DemoTypeOK, WriteWeights, kernel, Stages
<1>9. CASE Setup
  BY <1>9 DEF DemoTypeOK, Setup, InCall, NextCall, kernel, Stages
<1>10. CASE uio_enable_irq
  BY <1>10 DEF DemoTypeOK, uio_enable_irq, Enables, AfterEnable, Goto, device, Stages
<1>11. CASE SetRegisters
  <2>1. k <= Len(Script)
    BY <1>11 DEF SetRegisters, InCall
  <2>2. Call.model \in Models /\ Call.input \in Inputs /\ Call.tri \in Triangles
    BY <2>1, CallNow
  <2>3. cfg' \in [model : Models \cup {None}, input : Inputs \cup {None},
                  op : {"clear", "draw"}, tri : Corners]
    BY <1>11, <2>2, ScriptAssumption DEF DemoTypeOK, SetRegisters
  <2>4. QED
    BY <1>11, <2>3 DEF DemoTypeOK, SetRegisters, Goto, kernel, Stages
<1>12. CASE WriteControl
  <2>1. k <= Len(Script) /\ StartUnit(Unit(Call))
    BY <1>12 DEF WriteControl, InCall
  <2>2. Call.tri \in Triangles
    BY <2>1, CallNow
  <2>3. asked' \in [weights : WeightSets \cup {None},
                    drawn : SUBSET (Triangles \cup {None})]
    <3> DEFINE d == CASE Call.op = "npu" -> asked.drawn
                      [] Call.op = "clear" -> {}
                      [] Call.op = "draw" -> asked.drawn \cup {Call.tri}
    <3>1. Call.op \in {"npu", "clear", "draw"}
      BY <1>12, <2>1 DEF InScript, Calling, UsesUnit, WriteControl, InCall
    <3>2. d \in SUBSET (Triangles \cup {None})
      BY <2>2, <3>1 DEF DemoTypeOK
    <3>3. asked' = [asked EXCEPT !.drawn = d]
      BY <1>12 DEF WriteControl
    <3>4. QED
      BY <3>2, <3>3 DEF DemoTypeOK
  <2>4. stage' \in Stages /\ polls' \in 0..MaxPolls
    BY <1>12, ScriptAssumption DEF WriteControl, Stages
  <2>5. /\ busy' \subseteq Units
        /\ npu' \in [model : Models \cup {None}, input : Inputs \cup {None}]
        /\ gpu' \in GpuRegisters
    BY <2>1, StartUnitTyped
  <2>6. UNCHANGED <<sticky, irq_enable, umem_on, cfg, weights, result, fb, kernel,
                    k, use_irq, runs>>
    BY <1>12 DEF WriteControl
  <2>7. QED
    BY <2>3, <2>4, <2>5, <2>6 DEF DemoTypeOK, kernel
<1>13. CASE PollAgain
  BY <1>13, ScriptAssumption DEF DemoTypeOK, PollAgain, device, kernel
<1>14. CASE ClearDone
  BY <1>14 DEF DemoTypeOK, ClearDone, InCall, NextCall, kernel, Stages, Ack
<1>15. CASE UNCHANGED vars
  BY <1>15 DEF DemoTypeOK, vars, device, kernel, process
<1>16. QED
  BY <1>1, <1>2, <1>3, <1>4, <1>5, <1>6, <1>7, <1>8, <1>9, <1>10, <1>11, <1>12, <1>13,
     <1>14, <1>15
  DEF Next, Program, Hardware, Gpu, Configure, Drive, Wait, Finish
-----------------------------------------------------------------------------
(* The parts of the inductive invariant, one by one.                       *)

(* A call under way stays one of the script.                               *)
LEMMA InScriptKept == DemoTypeOK /\ InScript /\ [Next]_vars => InScript'
<1> SUFFICES ASSUME DemoTypeOK, InScript, [Next]_vars PROVE InScript'
  OBVIOUS
<1> USE DEF InScript, Calling, UsesUnit, Call
<1>1. CASE NpuDone
  BY <1>1 DEF NpuDone, kernel, process
<1>2. CASE GpuWork
  BY <1>2 DEF GpuWork, kernel, process
<1>3. CASE GpuDone
  BY <1>3 DEF GpuDone, kernel, process
<1>4. CASE Interrupt
  BY <1>4 DEF Interrupt, device, process
<1>5. CASE Open
  BY <1>5 DEF Open, device
<1>6. CASE WriteIrqEnable
  BY <1>6 DEF WriteIrqEnable, Goto, kernel
<1>7. CASE Close
  BY <1>7 DEF Close, Goto, device, kernel
<1>8. CASE WriteWeights
  BY <1>8 DEF WriteWeights, InCall, kernel
<1>9. CASE Setup
  BY <1>9 DEF Setup, InCall, NextCall, kernel
<1>10. CASE Begin
  BY <1>10 DEF Begin, InCall, Goto, device, kernel
<1>11. CASE uio_enable_irq
  BY <1>11 DEF uio_enable_irq, InCall, Goto, AfterEnable, Enables, device
<1>12. CASE UioRefuses
  BY <1>12 DEF UioRefuses, InCall, Goto, device, kernel
<1>13. CASE SetRegisters
  BY <1>13 DEF SetRegisters, InCall, Goto, kernel
<1>14. CASE WriteControl
  BY <1>14 DEF WriteControl, StartUnit, InCall, kernel
<1>15. CASE UioRead
  BY <1>15 DEF UioRead, InCall, Goto, device
<1>16. CASE PollSucceeds
  BY <1>16 DEF PollSucceeds, InCall, Complete, Goto, device, kernel
<1>17. CASE PollAgain
  BY <1>17 DEF PollAgain, InCall, device, kernel
<1>18. CASE PollTimeout
  BY <1>18 DEF PollTimeout, InCall, Goto, device, kernel
<1>19. CASE Show
  BY <1>19 DEF Show, InCall, Goto, device, kernel
<1>20. CASE ClearDone
  BY <1>20 DEF ClearDone, InCall, NextCall, Ack, kernel
<1>21. CASE Kill
  BY <1>21 DEF Kill, Goto, device, kernel
<1>22. CASE UNCHANGED vars
  BY <1>22 DEF vars, device, kernel, process
<1>23. QED
  BY <1>1, <1>2, <1>3, <1>4, <1>5, <1>6, <1>7, <1>8, <1>9, <1>10, <1>11, <1>12,
     <1>13, <1>14, <1>15, <1>16, <1>17, <1>18, <1>19, <1>20, <1>21,
     <1>22
  DEF Next, Program, Hardware, Gpu, Configure, Drive, Wait, Finish

(* Only the awaited unit runs.                                             *)
LEMMA OnlyOwnKept == DemoTypeOK /\ InScript /\ OnlyOwn /\ [Next]_vars => OnlyOwn'
<1> SUFFICES ASSUME DemoTypeOK, InScript, OnlyOwn, [Next]_vars PROVE OnlyOwn'
  OBVIOUS
<1> USE DEF OnlyOwn, Waiting, Running, Unit, Call, UsesUnit, InScript, Calling
<1>1. CASE NpuDone
  BY <1>1 DEF NpuDone, kernel, process
<1>2. CASE GpuWork
  BY <1>2 DEF GpuWork, kernel, process
<1>3. CASE GpuDone
  BY <1>3 DEF GpuDone, kernel, process
<1>4. CASE Interrupt
  BY <1>4 DEF Interrupt, device, process
<1>5. CASE Open
  BY <1>5 DEF Open, device
<1>6. CASE WriteIrqEnable
  BY <1>6 DEF WriteIrqEnable, Goto, kernel
<1>7. CASE Close
  BY <1>7 DEF Close, Goto, device, kernel
<1>8. CASE WriteWeights
  BY <1>8 DEF WriteWeights, InCall, kernel
<1>9. CASE Setup
  BY <1>9 DEF Setup, InCall, NextCall, kernel
<1>10. CASE Begin
  BY <1>10 DEF Begin, InCall, Goto, device, kernel
<1>11. CASE uio_enable_irq
  BY <1>11 DEF uio_enable_irq, InCall, Goto, AfterEnable, Enables, device
<1>12. CASE UioRefuses
  BY <1>12 DEF UioRefuses, InCall, Goto, device, kernel
<1>13. CASE SetRegisters
  BY <1>13 DEF SetRegisters, InCall, Goto, kernel
<1>14. CASE WriteControl
  BY <1>14 DEF WriteControl, StartUnit, InCall, kernel
<1>15. CASE UioRead
  BY <1>15 DEF UioRead, InCall, Goto, device
<1>16. CASE PollSucceeds
  BY <1>16 DEF PollSucceeds, InCall, Complete, Goto, device, kernel
<1>17. CASE PollAgain
  BY <1>17 DEF PollAgain, InCall, device, kernel
<1>18. CASE PollTimeout
  BY <1>18 DEF PollTimeout, InCall, Goto, device, kernel
<1>19. CASE Show
  BY <1>19 DEF Show, InCall, Goto, device, kernel
<1>20. CASE ClearDone
  BY <1>20 DEF ClearDone, InCall, NextCall, Ack, kernel
<1>21. CASE Kill
  BY <1>21 DEF Kill, Goto, device, kernel
<1>22. CASE UNCHANGED vars
  BY <1>22 DEF vars, device, kernel, process
<1>23. QED
  BY <1>1, <1>2, <1>3, <1>4, <1>5, <1>6, <1>7, <1>8, <1>9, <1>10, <1>11, <1>12,
     <1>13, <1>14, <1>15, <1>16, <1>17, <1>18, <1>19, <1>20, <1>21,
     <1>22
  DEF Next, Program, Hardware, Gpu, Configure, Drive, Wait, Finish

(* The registers hold what the call set.                                   *)
LEMMA CfgKept == DemoTypeOK /\ InScript /\ CfgIsOwn /\ [Next]_vars => CfgIsOwn'
<1> SUFFICES ASSUME DemoTypeOK, InScript, CfgIsOwn, [Next]_vars PROVE CfgIsOwn'
  OBVIOUS
<1> USE DEF CfgIsOwn, Call, InScript, Calling, UsesUnit, DemoTypeOK
<1>1. CASE NpuDone
  BY <1>1 DEF NpuDone, kernel, process
<1>2. CASE GpuWork
  BY <1>2 DEF GpuWork, kernel, process
<1>3. CASE GpuDone
  BY <1>3 DEF GpuDone, kernel, process
<1>4. CASE Interrupt
  BY <1>4 DEF Interrupt, device, process
<1>5. CASE Open
  BY <1>5 DEF Open, device
<1>6. CASE WriteIrqEnable
  BY <1>6 DEF WriteIrqEnable, Goto, kernel
<1>7. CASE Close
  BY <1>7 DEF Close, Goto, device, kernel
<1>8. CASE WriteWeights
  BY <1>8 DEF WriteWeights, InCall, kernel
<1>9. CASE Setup
  BY <1>9 DEF Setup, InCall, NextCall, kernel
<1>10. CASE Begin
  BY <1>10 DEF Begin, InCall, Goto, device, kernel
<1>11. CASE uio_enable_irq
  BY <1>11 DEF uio_enable_irq, InCall, Goto, AfterEnable, Enables, device
<1>12. CASE UioRefuses
  BY <1>12 DEF UioRefuses, InCall, Goto, device, kernel
<1>13. CASE SetRegisters
  BY <1>13 DEF SetRegisters, InCall, Goto, kernel
<1>14. CASE WriteControl
  BY <1>14 DEF WriteControl, StartUnit, InCall, kernel
<1>15. CASE UioRead
  BY <1>15 DEF UioRead, InCall, Goto, device
<1>16. CASE PollSucceeds
  BY <1>16 DEF PollSucceeds, InCall, Complete, Goto, device, kernel
<1>17. CASE PollAgain
  BY <1>17 DEF PollAgain, InCall, device, kernel
<1>18. CASE PollTimeout
  BY <1>18 DEF PollTimeout, InCall, Goto, device, kernel
<1>19. CASE Show
  BY <1>19 DEF Show, InCall, Goto, device, kernel
<1>20. CASE ClearDone
  BY <1>20 DEF ClearDone, InCall, NextCall, Ack, kernel
<1>21. CASE Kill
  BY <1>21 DEF Kill, Goto, device, kernel
<1>22. CASE UNCHANGED vars
  BY <1>22 DEF vars, device, kernel, process
<1>23. QED
  BY <1>1, <1>2, <1>3, <1>4, <1>5, <1>6, <1>7, <1>8, <1>9, <1>10, <1>11, <1>12,
     <1>13, <1>14, <1>15, <1>16, <1>17, <1>18, <1>19, <1>20, <1>21,
     <1>22
  DEF Next, Program, Hardware, Gpu, Configure, Drive, Wait, Finish

(* A running unit works on the call.                                       *)
LEMMA LatchedKept ==
  DemoTypeOK /\ InScript /\ OnlyOwn /\ CfgIsOwn /\ LatchedIsOwn /\ [Next]_vars
  => LatchedIsOwn'
<1> SUFFICES ASSUME DemoTypeOK, InScript, OnlyOwn, CfgIsOwn, LatchedIsOwn, [Next]_vars
             PROVE  LatchedIsOwn'
  OBVIOUS
<1> USE DEF LatchedIsOwn, OnlyOwn, CfgIsOwn, Waiting, Running, Unit, Call, InScript,
     Calling, UsesUnit
<1>1. CASE NpuDone
  BY <1>1 DEF NpuDone, kernel, process
<1>2. CASE GpuWork
  <2>1. gpu'.op = gpu.op /\ gpu'.tri = gpu.tri
    BY <1>2, CommandKept DEF GpuWork, DemoTypeOK
  <2>2. QED
    BY <1>2, <2>1 DEF GpuWork, kernel, process
<1>3. CASE GpuDone
  BY <1>3 DEF GpuDone, kernel, process
<1>4. CASE Interrupt
  BY <1>4 DEF Interrupt, device, process
<1>5. CASE Open
  BY <1>5 DEF Open, device
<1>6. CASE WriteIrqEnable
  BY <1>6 DEF WriteIrqEnable, Goto, kernel
<1>7. CASE Close
  BY <1>7 DEF Close, Goto, device, kernel
<1>8. CASE WriteWeights
  BY <1>8 DEF WriteWeights, InCall, kernel
<1>9. CASE Setup
  BY <1>9 DEF Setup, InCall, NextCall, kernel
<1>10. CASE Begin
  BY <1>10 DEF Begin, InCall, Goto, device, kernel
<1>11. CASE uio_enable_irq
  BY <1>11 DEF uio_enable_irq, InCall, Goto, AfterEnable, Enables, device
<1>12. CASE UioRefuses
  BY <1>12 DEF UioRefuses, InCall, Goto, device, kernel
<1>13. CASE SetRegisters
  BY <1>13 DEF SetRegisters, InCall, Goto, kernel
<1>14. CASE WriteControl
  <2>1. /\ StartClear(gpu).op = "clear"
        /\ StartDraw(gpu, cfg.tri).op = "draw" /\ StartDraw(gpu, cfg.tri).tri = cfg.tri
    BY StartsAbove, StartsWithAll DEF DemoTypeOK
  <2>2. QED
    BY <1>14, <2>1 DEF WriteControl, StartUnit, InCall, kernel
<1>15. CASE UioRead
  BY <1>15 DEF UioRead, InCall, Goto, device
<1>16. CASE PollSucceeds
  BY <1>16 DEF PollSucceeds, InCall, Complete, Goto, device, kernel
<1>17. CASE PollAgain
  BY <1>17 DEF PollAgain, InCall, device, kernel
<1>18. CASE PollTimeout
  BY <1>18 DEF PollTimeout, InCall, Goto, device, kernel
<1>19. CASE Show
  BY <1>19 DEF Show, InCall, Goto, device, kernel
<1>20. CASE ClearDone
  BY <1>20 DEF ClearDone, InCall, NextCall, Ack, kernel
<1>21. CASE Kill
  BY <1>21 DEF Kill, Goto, device, kernel
<1>22. CASE UNCHANGED vars
  BY <1>22 DEF vars, device, kernel, process
<1>23. QED
  BY <1>1, <1>2, <1>3, <1>4, <1>5, <1>6, <1>7, <1>8, <1>9, <1>10, <1>11, <1>12,
     <1>13, <1>14, <1>15, <1>16, <1>17, <1>18, <1>19, <1>20, <1>21,
     <1>22
  DEF Next, Program, Hardware, Gpu, Configure, Drive, Wait, Finish

(* A unit that ended has its done bit set.                                 *)
LEMMA DoneKept ==
  DemoTypeOK /\ InScript /\ OnlyOwn /\ DoneIsSet /\ [Next]_vars
  => DoneIsSet'
<1> SUFFICES ASSUME DemoTypeOK, InScript, OnlyOwn, DoneIsSet, [Next]_vars
             PROVE  DoneIsSet'
  OBVIOUS
<1> USE DEF DoneIsSet, OnlyOwn, Ended, Waiting, Running, Unit, Call
<1>1. CASE NpuDone
  BY <1>1 DEF NpuDone, kernel, process
<1>2. CASE GpuWork
  BY <1>2 DEF GpuWork, kernel, process
<1>3. CASE GpuDone
  BY <1>3 DEF GpuDone, kernel, process
<1>4. CASE Interrupt
  BY <1>4 DEF Interrupt, device, process
<1>5. CASE Open
  BY <1>5 DEF Open, device
<1>6. CASE WriteIrqEnable
  BY <1>6 DEF WriteIrqEnable, Goto, kernel
<1>7. CASE Close
  BY <1>7 DEF Close, Goto, device, kernel
<1>8. CASE WriteWeights
  BY <1>8 DEF WriteWeights, InCall, kernel
<1>9. CASE Setup
  BY <1>9 DEF Setup, InCall, NextCall, kernel
<1>10. CASE Begin
  BY <1>10 DEF Begin, InCall, Goto, device, kernel
<1>11. CASE uio_enable_irq
  BY <1>11 DEF uio_enable_irq, InCall, Goto, AfterEnable, Enables, device
<1>12. CASE UioRefuses
  BY <1>12 DEF UioRefuses, InCall, Goto, device, kernel
<1>13. CASE SetRegisters
  BY <1>13 DEF SetRegisters, InCall, Goto, kernel
<1>14. CASE WriteControl
  BY <1>14 DEF WriteControl, StartUnit, InCall, kernel
<1>15. CASE UioRead
  BY <1>15 DEF UioRead, InCall, Goto, device
<1>16. CASE PollSucceeds
  BY <1>16 DEF PollSucceeds, InCall, Complete, Goto, device, kernel
<1>17. CASE PollAgain
  BY <1>17 DEF PollAgain, InCall, device, kernel
<1>18. CASE PollTimeout
  BY <1>18 DEF PollTimeout, InCall, Goto, device, kernel
<1>19. CASE Show
  BY <1>19 DEF Show, InCall, Goto, device, kernel
<1>20. CASE ClearDone
  BY <1>20 DEF ClearDone, InCall, NextCall, Ack, kernel
<1>21. CASE Kill
  BY <1>21 DEF Kill, Goto, device, kernel
<1>22. CASE UNCHANGED vars
  BY <1>22 DEF vars, device, kernel, process
<1>23. QED
  BY <1>1, <1>2, <1>3, <1>4, <1>5, <1>6, <1>7, <1>8, <1>9, <1>10, <1>11, <1>12,
     <1>13, <1>14, <1>15, <1>16, <1>17, <1>18, <1>19, <1>20, <1>21,
     <1>22
  DEF Next, Program, Hardware, Gpu, Configure, Drive, Wait, Finish

(* The result of an ended inference is the call's.                         *)
LEMMA ResultKept ==
  DemoTypeOK /\ InScript /\ OnlyOwn /\ LatchedIsOwn /\ ResultIsOwn /\ [Next]_vars
  => ResultIsOwn'
<1> SUFFICES ASSUME DemoTypeOK, InScript, OnlyOwn, LatchedIsOwn, ResultIsOwn, [Next]_vars
             PROVE  ResultIsOwn'
  OBVIOUS
<1> USE DEF ResultIsOwn, OnlyOwn, LatchedIsOwn, Ended, Waiting, Running, Unit, Call,
     Computed
<1>1. CASE NpuDone
  BY <1>1 DEF NpuDone, kernel, process
<1>2. CASE GpuWork
  BY <1>2 DEF GpuWork, kernel, process
<1>3. CASE GpuDone
  BY <1>3 DEF GpuDone, kernel, process
<1>4. CASE Interrupt
  BY <1>4 DEF Interrupt, device, process
<1>5. CASE Open
  BY <1>5 DEF Open, device
<1>6. CASE WriteIrqEnable
  BY <1>6 DEF WriteIrqEnable, Goto, kernel
<1>7. CASE Close
  BY <1>7 DEF Close, Goto, device, kernel
<1>8. CASE WriteWeights
  BY <1>8 DEF WriteWeights, InCall, kernel
<1>9. CASE Setup
  BY <1>9 DEF Setup, InCall, NextCall, kernel
<1>10. CASE Begin
  BY <1>10 DEF Begin, InCall, Goto, device, kernel
<1>11. CASE uio_enable_irq
  BY <1>11 DEF uio_enable_irq, InCall, Goto, AfterEnable, Enables, device
<1>12. CASE UioRefuses
  BY <1>12 DEF UioRefuses, InCall, Goto, device, kernel
<1>13. CASE SetRegisters
  BY <1>13 DEF SetRegisters, InCall, Goto, kernel
<1>14. CASE WriteControl
  BY <1>14 DEF WriteControl, StartUnit, InCall, kernel
<1>15. CASE UioRead
  BY <1>15 DEF UioRead, InCall, Goto, device
<1>16. CASE PollSucceeds
  BY <1>16 DEF PollSucceeds, InCall, Complete, Goto, device, kernel
<1>17. CASE PollAgain
  BY <1>17 DEF PollAgain, InCall, device, kernel
<1>18. CASE PollTimeout
  BY <1>18 DEF PollTimeout, InCall, Goto, device, kernel
<1>19. CASE Show
  BY <1>19 DEF Show, InCall, Goto, device, kernel
<1>20. CASE ClearDone
  BY <1>20 DEF ClearDone, InCall, NextCall, Ack, kernel
<1>21. CASE Kill
  BY <1>21 DEF Kill, Goto, device, kernel
<1>22. CASE UNCHANGED vars
  BY <1>22 DEF vars, device, kernel, process
<1>23. QED
  BY <1>1, <1>2, <1>3, <1>4, <1>5, <1>6, <1>7, <1>8, <1>9, <1>10, <1>11, <1>12,
     <1>13, <1>14, <1>15, <1>16, <1>17, <1>18, <1>19, <1>20, <1>21,
     <1>22
  DEF Next, Program, Hardware, Gpu, Configure, Drive, Wait, Finish

(* The weight registers hold what the run wrote.                           *)
LEMMA WeightsKept ==
  DemoTypeOK /\ InScript /\ WeightsAreOwn /\ [Next]_vars
  => WeightsAreOwn'
<1> SUFFICES ASSUME DemoTypeOK, InScript, WeightsAreOwn, [Next]_vars
             PROVE  WeightsAreOwn'
  OBVIOUS
<1> USE DEF WeightsAreOwn, Running, DemoTypeOK
<1>1. CASE NpuDone
  BY <1>1 DEF NpuDone, kernel, process
<1>2. CASE GpuWork
  BY <1>2 DEF GpuWork, kernel, process
<1>3. CASE GpuDone
  BY <1>3 DEF GpuDone, kernel, process
<1>4. CASE Interrupt
  BY <1>4 DEF Interrupt, device, process
<1>5. CASE Open
  BY <1>5 DEF Open, device
<1>6. CASE WriteIrqEnable
  BY <1>6 DEF WriteIrqEnable, Goto, kernel
<1>7. CASE Close
  BY <1>7 DEF Close, Goto, device, kernel
<1>8. CASE WriteWeights
  BY <1>8 DEF WriteWeights, InCall, kernel
<1>9. CASE Setup
  BY <1>9 DEF Setup, InCall, NextCall, kernel
<1>10. CASE Begin
  BY <1>10 DEF Begin, InCall, Goto, device, kernel
<1>11. CASE uio_enable_irq
  BY <1>11 DEF uio_enable_irq, InCall, Goto, AfterEnable, Enables, device
<1>12. CASE UioRefuses
  BY <1>12 DEF UioRefuses, InCall, Goto, device, kernel
<1>13. CASE SetRegisters
  BY <1>13 DEF SetRegisters, InCall, Goto, kernel
<1>14. CASE WriteControl
  BY <1>14 DEF WriteControl, StartUnit, InCall, kernel
<1>15. CASE UioRead
  BY <1>15 DEF UioRead, InCall, Goto, device
<1>16. CASE PollSucceeds
  BY <1>16 DEF PollSucceeds, InCall, Complete, Goto, device, kernel
<1>17. CASE PollAgain
  BY <1>17 DEF PollAgain, InCall, device, kernel
<1>18. CASE PollTimeout
  BY <1>18 DEF PollTimeout, InCall, Goto, device, kernel
<1>19. CASE Show
  BY <1>19 DEF Show, InCall, Goto, device, kernel
<1>20. CASE ClearDone
  BY <1>20 DEF ClearDone, InCall, NextCall, Ack, kernel
<1>21. CASE Kill
  BY <1>21 DEF Kill, Goto, device, kernel
<1>22. CASE UNCHANGED vars
  BY <1>22 DEF vars, device, kernel, process
<1>23. QED
  BY <1>1, <1>2, <1>3, <1>4, <1>5, <1>6, <1>7, <1>8, <1>9, <1>10, <1>11, <1>12,
     <1>13, <1>14, <1>15, <1>16, <1>17, <1>18, <1>19, <1>20, <1>21,
     <1>22
  DEF Next, Program, Hardware, Gpu, Configure, Drive, Wait, Finish

(* The framebuffer holds what the run drew.                                *)
LEMMA DrawnKept == DemoTypeOK /\ InScript /\ OnlyOwn /\ CfgIsOwn /\ LatchedIsOwn
                   /\ GpuScans /\ DrawnIsIn /\ [Next]_vars => DrawnIsIn'
<1> SUFFICES ASSUME DemoTypeOK, InScript, OnlyOwn, CfgIsOwn, LatchedIsOwn, GpuScans,
                    DrawnIsIn, [Next]_vars PROVE DrawnIsIn'
  OBVIOUS
<1> USE DEF DrawnIsIn, Drawing, OnlyOwn, LatchedIsOwn, Waiting, Running, Unit, Call,
     InScript, Calling, UsesUnit
<1>1. CASE NpuDone
  BY <1>1 DEF NpuDone, kernel, process
<1>2. CASE GpuWork
  <2>1. /\ gpu \in GpuRegisters /\ fb \subseteq Pixels /\ ~LastEdge(gpu) /\ "gpu" \in busy
        /\ gpu' = Advance(gpu) /\ fb' = Framebuffer(gpu, fb)
        /\ UNCHANGED <<busy, stage, k, asked>>
    BY <1>2 DEF GpuWork, DemoTypeOK, process
  <2>2. ASSUME Running, None \notin asked.drawn, Drawing, Call.op = "clear"
        PROVE  asked.drawn = {} /\ \A p \in fb' : p[2] >= gpu'.row
    BY <2>1, <2>2, EdgeOfClear
  <2>3. ASSUME Running, None \notin asked.drawn, Drawing, Call.op = "draw"
        PROVE  fb' \cup Rest(gpu') = Picture(asked.drawn)
    <3>1. gpu.op = "draw"
      BY <2>1, <2>3
    <3>2. fb' = fb \cup Lights(gpu) /\ Rest(gpu) = Lights(gpu) \cup Rest(gpu')
      BY <2>1, <3>1, EdgeOfDraw DEF GpuScans, Framebuffer
    <3>3. QED
      BY <2>3, <3>2
  <2>4. QED
    BY <2>1, <2>2, <2>3
<1>3. CASE GpuDone
  <2>1. /\ gpu \in GpuRegisters /\ fb \subseteq Pixels /\ LastEdge(gpu) /\ "gpu" \in busy
        /\ "gpu" \notin busy' /\ fb' = Framebuffer(gpu, fb)
        /\ UNCHANGED <<stage, k, asked>>
    BY <1>3 DEF GpuDone, DemoTypeOK, process
  <2>2. ASSUME Running, None \notin asked.drawn PROVE fb' = Picture(asked.drawn)
    <3>1. Drawing /\ gpu.op = Call.op /\ gpu.op \in {"clear", "draw"}
      BY <2>1, <2>2, RegistersTyped
    <3>2. CASE gpu.op = "clear"
      <4>1. fb' = {} /\ asked.drawn = {}
        BY <2>1, <2>2, <3>1, <3>2, EdgeOfClear
      <4>2. QED
        BY <4>1 DEF Picture
    <3>3. CASE gpu.op = "draw"
      <4>1. fb' = fb \cup Lights(gpu) /\ Rest(gpu) = Lights(gpu)
        BY <2>1, <3>3, LastEdgeOfDraw DEF Framebuffer
      <4>2. QED
        BY <2>2, <3>1, <3>3, <4>1
    <3>4. QED
      BY <3>1, <3>2, <3>3
  <2>3. QED
    BY <2>1, <2>2
<1>4. CASE Interrupt
  BY <1>4 DEF Interrupt, device, process
<1>5. CASE Open
  BY <1>5 DEF Open, device
<1>6. CASE WriteIrqEnable
  BY <1>6 DEF WriteIrqEnable, Goto, kernel
<1>7. CASE Close
  BY <1>7 DEF Close, Goto, device, kernel
<1>8. CASE WriteWeights
  BY <1>8 DEF WriteWeights, InCall, kernel
<1>9. CASE Setup
  BY <1>9 DEF Setup, InCall, NextCall, kernel
<1>10. CASE Begin
  BY <1>10 DEF Begin, InCall, Goto, device, kernel
<1>11. CASE uio_enable_irq
  BY <1>11 DEF uio_enable_irq, InCall, Goto, AfterEnable, Enables, device
<1>12. CASE UioRefuses
  BY <1>12 DEF UioRefuses, InCall, Goto, device, kernel
<1>13. CASE SetRegisters
  BY <1>13 DEF SetRegisters, InCall, Goto, kernel
<1>14. CASE WriteControl
  <2>1. /\ gpu \in GpuRegisters /\ fb \subseteq Pixels /\ cfg.tri \in Corners
        /\ k <= Len(Script) /\ stage = "start" /\ busy = {} /\ UNCHANGED <<fb, k>>
        /\ stage' \in {"read", "poll"} /\ busy' = {Unit(Call)}
    BY <1>14 DEF WriteControl, InCall, StartUnit, DemoTypeOK
  <2>2. CASE Call.op = "npu"
    BY <1>14, <2>1, <2>2 DEF WriteControl
  <2>3. CASE Call.op = "clear"
    <3>1. cfg.op = "clear" /\ gpu' = StartClear(gpu) /\ asked'.drawn = {}
      BY <1>14, <2>1, <2>3 DEF WriteControl, StartUnit, CfgIsOwn, DemoTypeOK
    <3>2. \A p \in fb : p[2] >= gpu'.row
      BY <2>1, <3>1, StartsAbove
    <3>3. QED
      BY <2>1, <2>3, <3>1, <3>2
  <2>4. CASE Call.op = "draw"
    <3>1. /\ cfg.op = "draw" /\ cfg.tri = Call.tri /\ gpu' = StartDraw(gpu, Call.tri)
          /\ asked'.drawn = asked.drawn \cup {Call.tri}
      BY <1>14, <2>1, <2>4 DEF WriteControl, StartUnit, CfgIsOwn, DemoTypeOK
    <3>2. Rest(gpu') = Triangle(Call.tri)
      BY <2>1, <3>1, StartsWithAll
    <3>3. Picture(asked'.drawn) = Picture(asked.drawn) \cup Triangle(Call.tri)
      BY <3>1 DEF Picture
    <3>4. None \notin asked'.drawn => fb = Picture(asked.drawn)
      BY <2>1, <3>1
    <3>5. QED
      BY <2>1, <2>4, <3>2, <3>3, <3>4
  <2>5. QED
    BY <2>1, <2>2, <2>3, <2>4
<1>15. CASE UioRead
  BY <1>15 DEF UioRead, InCall, Goto, device
<1>16. CASE PollSucceeds
  BY <1>16 DEF PollSucceeds, InCall, Complete, Goto, device, kernel
<1>17. CASE PollAgain
  BY <1>17 DEF PollAgain, InCall, device, kernel
<1>18. CASE PollTimeout
  BY <1>18 DEF PollTimeout, InCall, Goto, device, kernel
<1>19. CASE Show
  BY <1>19 DEF Show, InCall, Goto, device, kernel
<1>20. CASE ClearDone
  BY <1>20 DEF ClearDone, InCall, NextCall, Ack, kernel
<1>21. CASE Kill
  BY <1>21 DEF Kill, Goto, device, kernel
<1>22. CASE UNCHANGED vars
  BY <1>22 DEF vars, device, kernel, process
<1>23. QED
  BY <1>1, <1>2, <1>3, <1>4, <1>5, <1>6, <1>7, <1>8, <1>9, <1>10, <1>11, <1>12,
     <1>13, <1>14, <1>15, <1>16, <1>17, <1>18, <1>19, <1>20, <1>21,
     <1>22
  DEF Next, Program, Hardware, Gpu, Configure, Drive, Wait, Finish

(* A draw that runs is in its box, and its count is what it lit.           *)
LEMMA ScansKept == DemoTypeOK /\ InScript /\ GpuScans /\ [Next]_vars => GpuScans'
<1> SUFFICES ASSUME DemoTypeOK, InScript, GpuScans, [Next]_vars PROVE GpuScans'
  OBVIOUS
<1> USE DEF GpuScans
<1>1. CASE NpuDone
  BY <1>1 DEF NpuDone, kernel, process
<1>2. CASE GpuWork
  <2>1. gpu \in GpuRegisters /\ gpu' = Advance(gpu) /\ "gpu" \in busy /\ ~LastEdge(gpu)
    BY <1>2 DEF GpuWork, DemoTypeOK
  <2>2. gpu'.op = gpu.op /\ gpu'.tri = gpu.tri
    BY <2>1, CommandKept
  <2>3. ASSUME gpu.op = "draw"
        PROVE  /\ InBox(gpu')
               /\ gpu'.raster_pixels + Cardinality(Rest(gpu')) = Cardinality(Triangle(gpu.tri))
    BY <2>1, <2>3, EdgeOfDraw, EdgeCounts
  <2>4. QED
    BY <2>2, <2>3
<1>3. CASE GpuDone
  BY <1>3 DEF GpuDone, kernel, process
<1>4. CASE Interrupt
  BY <1>4 DEF Interrupt, device, process
<1>5. CASE Open
  BY <1>5 DEF Open, device
<1>6. CASE WriteIrqEnable
  BY <1>6 DEF WriteIrqEnable, Goto, kernel
<1>7. CASE Close
  BY <1>7 DEF Close, Goto, device, kernel
<1>8. CASE WriteWeights
  BY <1>8 DEF WriteWeights, InCall, kernel
<1>9. CASE Setup
  BY <1>9 DEF Setup, InCall, NextCall, kernel
<1>10. CASE Begin
  BY <1>10 DEF Begin, InCall, Goto, device, kernel
<1>11. CASE uio_enable_irq
  BY <1>11 DEF uio_enable_irq, InCall, Goto, AfterEnable, Enables, device
<1>12. CASE UioRefuses
  BY <1>12 DEF UioRefuses, InCall, Goto, device, kernel
<1>13. CASE SetRegisters
  BY <1>13 DEF SetRegisters, InCall, Goto, kernel
<1>14. CASE WriteControl
  <2>1. gpu \in GpuRegisters /\ cfg.tri \in Corners
    BY DEF DemoTypeOK
  <2>2. StartClear(gpu).op = "clear"
    BY <2>1, StartsAbove
  <2>3. /\ StartDraw(gpu, cfg.tri).tri = cfg.tri /\ StartDraw(gpu, cfg.tri).raster_pixels = 0
        /\ InBox(StartDraw(gpu, cfg.tri))
        /\ Rest(StartDraw(gpu, cfg.tri)) = Triangle(cfg.tri)
        /\ Cardinality(Triangle(cfg.tri)) \in Nat
    BY <2>1, StartsWithAll, RestIsFinite
  <2>4. CASE "gpu" \in busy \/ "gpu" \notin busy'
    BY <1>14, <2>4 DEF WriteControl, StartUnit
  <2>5. CASE "gpu" \notin busy /\ "gpu" \in busy'
    <3>1. gpu' = IF cfg.op = "clear" THEN StartClear(gpu) ELSE StartDraw(gpu, cfg.tri)
      BY <1>14, <2>5 DEF WriteControl, StartUnit
    <3>2. QED
      BY <2>2, <2>3, <3>1
  <2>6. QED
    BY <2>4, <2>5
<1>15. CASE UioRead
  BY <1>15 DEF UioRead, InCall, Goto, device
<1>16. CASE PollSucceeds
  BY <1>16 DEF PollSucceeds, InCall, Complete, Goto, device, kernel
<1>17. CASE PollAgain
  BY <1>17 DEF PollAgain, InCall, device, kernel
<1>18. CASE PollTimeout
  BY <1>18 DEF PollTimeout, InCall, Goto, device, kernel
<1>19. CASE Show
  BY <1>19 DEF Show, InCall, Goto, device, kernel
<1>20. CASE ClearDone
  BY <1>20 DEF ClearDone, InCall, NextCall, Ack, kernel
<1>21. CASE Kill
  BY <1>21 DEF Kill, Goto, device, kernel
<1>22. CASE UNCHANGED vars
  BY <1>22 DEF vars, device, kernel, process
<1>23. QED
  BY <1>1, <1>2, <1>3, <1>4, <1>5, <1>6, <1>7, <1>8, <1>9, <1>10, <1>11, <1>12,
     <1>13, <1>14, <1>15, <1>16, <1>17, <1>18, <1>19, <1>20, <1>21,
     <1>22
  DEF Next, Program, Hardware, Gpu, Configure, Drive, Wait, Finish

(* The count of an ended draw is the call's.                               *)
LEMMA CountKept ==
  DemoTypeOK /\ InScript /\ OnlyOwn /\ LatchedIsOwn /\ GpuScans /\ CountIsOwn /\ [Next]_vars
  => CountIsOwn'
<1> SUFFICES ASSUME DemoTypeOK, InScript, OnlyOwn, LatchedIsOwn, GpuScans, CountIsOwn, [Next]_vars
             PROVE  CountIsOwn'
  OBVIOUS
<1> USE DEF CountIsOwn, OnlyOwn, LatchedIsOwn, Ended, Waiting, Running, Unit, Call,
     UsesUnit
<1>1. CASE NpuDone
  BY <1>1 DEF NpuDone, kernel, process
<1>2. CASE GpuWork
  <2>1. CASE stage = "print"
    BY <1>2, <2>1 DEF GpuWork, process
  <2>2. CASE stage # "print"
    BY <1>2, <2>2 DEF GpuWork, kernel, process
  <2>3. QED
    BY <2>1, <2>2
<1>3. CASE GpuDone
  <2>1. gpu \in GpuRegisters /\ LastEdge(gpu) /\ "gpu" \in busy
        /\ gpu' = [gpu EXCEPT !.raster_pixels = Counted(gpu)]
    BY <1>3 DEF GpuDone, DemoTypeOK
  <2>2. gpu'.raster_pixels = Counted(gpu)
    BY <2>1 DEF GpuRegisters
  <2>3. gpu.op = "draw" => Counted(gpu) = Cardinality(Triangle(gpu.tri))
    BY <2>1, LastEdgeCounts DEF GpuScans
  <2>4. UNCHANGED <<stage, k>>
    BY <1>3 DEF GpuDone, process
  <2>5. QED
    BY <2>1, <2>2, <2>3, <2>4
<1>4. CASE Interrupt
  BY <1>4 DEF Interrupt, device, process
<1>5. CASE Open
  BY <1>5 DEF Open, device
<1>6. CASE WriteIrqEnable
  BY <1>6 DEF WriteIrqEnable, Goto, kernel
<1>7. CASE Close
  BY <1>7 DEF Close, Goto, device, kernel
<1>8. CASE WriteWeights
  BY <1>8 DEF WriteWeights, InCall, kernel
<1>9. CASE Setup
  BY <1>9 DEF Setup, InCall, NextCall, kernel
<1>10. CASE Begin
  BY <1>10 DEF Begin, InCall, Goto, device, kernel
<1>11. CASE uio_enable_irq
  BY <1>11 DEF uio_enable_irq, InCall, Goto, AfterEnable, Enables, device
<1>12. CASE UioRefuses
  BY <1>12 DEF UioRefuses, InCall, Goto, device, kernel
<1>13. CASE SetRegisters
  BY <1>13 DEF SetRegisters, InCall, Goto, kernel
<1>14. CASE WriteControl
  BY <1>14 DEF WriteControl, StartUnit, InCall, kernel
<1>15. CASE UioRead
  BY <1>15 DEF UioRead, InCall, Goto, device
<1>16. CASE PollSucceeds
  BY <1>16 DEF PollSucceeds, InCall, Complete, Goto, device, kernel
<1>17. CASE PollAgain
  BY <1>17 DEF PollAgain, InCall, device, kernel
<1>18. CASE PollTimeout
  BY <1>18 DEF PollTimeout, InCall, Goto, device, kernel
<1>19. CASE Show
  BY <1>19 DEF Show, InCall, Goto, device, kernel
<1>20. CASE ClearDone
  BY <1>20 DEF ClearDone, InCall, NextCall, Ack, kernel
<1>21. CASE Kill
  BY <1>21 DEF Kill, Goto, device, kernel
<1>22. CASE UNCHANGED vars
  BY <1>22 DEF vars, device, kernel, process
<1>23. QED
  BY <1>1, <1>2, <1>3, <1>4, <1>5, <1>6, <1>7, <1>8, <1>9, <1>10, <1>11, <1>12,
     <1>13, <1>14, <1>15, <1>16, <1>17, <1>18, <1>19, <1>20, <1>21,
     <1>22
  DEF Next, Program, Hardware, Gpu, Configure, Drive, Wait, Finish

(* An enabled interrupt is pending or can come.                            *)
LEMMA IrqKept == DemoTypeOK /\ InScript /\ IrqArmed /\ [Next]_vars => IrqArmed'
<1> SUFFICES ASSUME DemoTypeOK, InScript, IrqArmed, [Next]_vars PROVE IrqArmed'
  OBVIOUS
<1> USE DEF IrqArmed, Enabled, Running, Call, InScript, Calling, UsesUnit
<1>1. CASE NpuDone
  BY <1>1 DEF NpuDone, kernel, process
<1>2. CASE GpuWork
  BY <1>2 DEF GpuWork, kernel, process
<1>3. CASE GpuDone
  BY <1>3 DEF GpuDone, kernel, process
<1>4. CASE Interrupt
  BY <1>4 DEF Interrupt, device, process
<1>5. CASE Open
  BY <1>5 DEF Open, device
<1>6. CASE WriteIrqEnable
  BY <1>6 DEF WriteIrqEnable, Goto, kernel
<1>7. CASE Close
  BY <1>7 DEF Close, Goto, device, kernel
<1>8. CASE WriteWeights
  BY <1>8 DEF WriteWeights, InCall, kernel
<1>9. CASE Setup
  BY <1>9 DEF Setup, InCall, NextCall, kernel
<1>10. CASE Begin
  BY <1>10 DEF Begin, InCall, Goto, device, kernel
<1>11. CASE uio_enable_irq
  BY <1>11 DEF uio_enable_irq, InCall, Goto, AfterEnable, Enables, device
<1>12. CASE UioRefuses
  BY <1>12 DEF UioRefuses, InCall, Goto, device, kernel
<1>13. CASE SetRegisters
  BY <1>13 DEF SetRegisters, InCall, Goto, kernel
<1>14. CASE WriteControl
  BY <1>14 DEF WriteControl, StartUnit, InCall, kernel
<1>15. CASE UioRead
  BY <1>15 DEF UioRead, InCall, Goto, device
<1>16. CASE PollSucceeds
  BY <1>16 DEF PollSucceeds, InCall, Complete, Goto, device, kernel
<1>17. CASE PollAgain
  BY <1>17 DEF PollAgain, InCall, device, kernel
<1>18. CASE PollTimeout
  BY <1>18 DEF PollTimeout, InCall, Goto, device, kernel
<1>19. CASE Show
  BY <1>19 DEF Show, InCall, Goto, device, kernel
<1>20. CASE ClearDone
  BY <1>20 DEF ClearDone, InCall, NextCall, Ack, kernel
<1>21. CASE Kill
  BY <1>21 DEF Kill, Goto, device, kernel
<1>22. CASE UNCHANGED vars
  BY <1>22 DEF vars, device, kernel, process
<1>23. QED
  BY <1>1, <1>2, <1>3, <1>4, <1>5, <1>6, <1>7, <1>8, <1>9, <1>10, <1>11, <1>12,
     <1>13, <1>14, <1>15, <1>16, <1>17, <1>18, <1>19, <1>20, <1>21,
     <1>22
  DEF Next, Program, Hardware, Gpu, Configure, Drive, Wait, Finish

(* Done bits waited for are cleared.                                       *)
LEMMA ClearedKept ==
  DemoTypeOK /\ InScript /\ OnlyOwn /\ ClearedBefore /\ [Next]_vars
  => ClearedBefore'
<1> SUFFICES ASSUME DemoTypeOK, InScript, OnlyOwn, ClearedBefore, [Next]_vars
             PROVE  ClearedBefore'
  OBVIOUS
<1> USE DEF ClearedBefore, OnlyOwn, Waiting, Running, Call, InScript, Calling,
     UsesUnit, DemoTypeOK
<1>1. CASE NpuDone
  BY <1>1 DEF NpuDone, kernel, process
<1>2. CASE GpuWork
  BY <1>2 DEF GpuWork, kernel, process
<1>3. CASE GpuDone
  BY <1>3 DEF GpuDone, kernel, process
<1>4. CASE Interrupt
  BY <1>4 DEF Interrupt, device, process
<1>5. CASE Open
  BY <1>5 DEF Open, device
<1>6. CASE WriteIrqEnable
  BY <1>6 DEF WriteIrqEnable, Goto, kernel
<1>7. CASE Close
  BY <1>7 DEF Close, Goto, device, kernel
<1>8. CASE WriteWeights
  BY <1>8 DEF WriteWeights, InCall, kernel
<1>9. CASE Setup
  BY <1>9 DEF Setup, InCall, NextCall, kernel
<1>10. CASE Begin
  BY <1>10 DEF Begin, InCall, Goto, device, kernel
<1>11. CASE uio_enable_irq
  BY <1>11 DEF uio_enable_irq, InCall, Goto, AfterEnable, Enables, device
<1>12. CASE UioRefuses
  BY <1>12 DEF UioRefuses, InCall, Goto, device, kernel
<1>13. CASE SetRegisters
  BY <1>13 DEF SetRegisters, InCall, Goto, kernel
<1>14. CASE WriteControl
  BY <1>14 DEF WriteControl, StartUnit, InCall, kernel
<1>15. CASE UioRead
  BY <1>15 DEF UioRead, InCall, Goto, device
<1>16. CASE PollSucceeds
  BY <1>16 DEF PollSucceeds, InCall, Complete, Goto, device, kernel
<1>17. CASE PollAgain
  BY <1>17 DEF PollAgain, InCall, device, kernel
<1>18. CASE PollTimeout
  BY <1>18 DEF PollTimeout, InCall, Goto, device, kernel
<1>19. CASE Show
  BY <1>19 DEF Show, InCall, Goto, device, kernel
<1>20. CASE ClearDone
  BY <1>20 DEF ClearDone, InCall, NextCall, Ack, kernel
<1>21. CASE Kill
  BY <1>21 DEF Kill, Goto, device, kernel
<1>22. CASE UNCHANGED vars
  BY <1>22 DEF vars, device, kernel, process
<1>23. QED
  BY <1>1, <1>2, <1>3, <1>4, <1>5, <1>6, <1>7, <1>8, <1>9, <1>10, <1>11, <1>12,
     <1>13, <1>14, <1>15, <1>16, <1>17, <1>18, <1>19, <1>20, <1>21,
     <1>22
  DEF Next, Program, Hardware, Gpu, Configure, Drive, Wait, Finish

-----------------------------------------------------------------------------
(* The theorems.                                                           *)

LEMMA InitInvariant == Init => DInv
<1> SUFFICES ASSUME Init PROVE DInv
  OBVIOUS
<1>1. DemoTypeOK
  BY InitTyped
<1>2. stage = "closed"
  BY DEF Init
<1>3. InScript /\ OnlyOwn /\ CfgIsOwn /\ LatchedIsOwn
  BY <1>2 DEF InScript, Calling, OnlyOwn, Waiting, Running, CfgIsOwn, LatchedIsOwn
<1>4. /\ DoneIsSet /\ ResultIsOwn /\ WeightsAreOwn /\ DrawnIsIn /\ CountIsOwn
      /\ ClearedBefore
  BY <1>2 DEF DoneIsSet, Ended, Waiting, ResultIsOwn, WeightsAreOwn, Running,
     DrawnIsIn, CountIsOwn, ClearedBefore
<1>5. IrqArmed
  BY <1>2 DEF IrqArmed, Enabled, Running
<1>6. GpuScans
  BY DEF Init, GpuScans
<1>7. QED
  BY <1>1, <1>3, <1>4, <1>5, <1>6 DEF DInv

LEMMA NextInvariant == DInv /\ [Next]_vars => DInv'
  BY NextTyped, InScriptKept, OnlyOwnKept, CfgKept, LatchedKept, DoneKept,
     ResultKept, WeightsKept, DrawnKept, ScansKept, CountKept, IrqKept, ClearedKept DEF DInv

(* Every value of the client, the driver and the device has its type.      *)
THEOREM DemoTypes == Spec => []DemoTypeOK
<1>1. DInv => DemoTypeOK
  BY DEF DInv
<1>2. QED
  BY <1>1, InitInvariant, NextInvariant, PTL DEF Spec

(* Whatever earlier runs left behind, a run prints its own inference.      *)
THEOREM AnswersAreOwn == Spec => []AnswerIsOwn
<1>1. DInv => AnswerIsOwn
  BY DEF DInv, AnswerIsOwn, ResultIsOwn, WeightsAreOwn, Ended, Running, Call, Computed
<1>2. QED
  BY <1>1, InitInvariant, NextInvariant, PTL DEF Spec

(* ... and dumps its own picture.                                          *)
THEOREM PicturesAreOwn == Spec => []PictureIsOwn
<1>1. DInv => PictureIsOwn
  BY DEF DInv, PictureIsOwn, DrawnIsIn, CountIsOwn, Drawing, Waiting, Running,
     Ended, Call
<1>2. QED
  BY <1>1, InitInvariant, NextInvariant, PTL DEF Spec

(* A process that sleeps in the driver will be woken.                      *)
THEOREM SleepersAreArmed == Spec => []WakeUpComes
<1>1. DInv => WakeUpComes
  <2> SUFFICES ASSUME DInv, stage = "read"
               PROVE  pending \/ (wired /\ irq_on /\ Unit(Call) \in irq_enable
                                  /\ Unit(Call) \in busy \cup sticky)
    BY DEF WakeUpComes
  <2>1. wired /\ (pending \/ irq_on) /\ irq_enable = Units
    BY DEF DInv, IrqArmed, Enabled, Running
  <2>2. Unit(Call) \in Units
    BY DEF Unit, Units
  <2>3. Unit(Call) \in busy \cup sticky
    BY DEF DInv, DoneIsSet, Ended, Waiting
  <2>4. QED
    BY <2>1, <2>2, <2>3
<1>2. QED
  BY <1>1, InitInvariant, NextInvariant, PTL DEF Spec

(* A run that gets to its end leaves the device clean.                     *)
THEOREM RunsLeaveClean == Spec => []LeavesClean
<1>1. DInv => LeavesClean
  <2> SUFFICES ASSUME DInv, stage = "call", k > Len(Script)
               PROVE  busy = {} /\ sticky \cap Waited = {}
    BY DEF LeavesClean
  <2>1. busy = {}
    BY DEF DInv, OnlyOwn, Running, Waiting
  <2>2. ASSUME NEW i \in 1..Len(Script), UsesUnit(Script[i])
        PROVE  Unit(Script[i]) \notin sticky
    <3>1. i < k
      BY ScriptLength DEF DInv, DemoTypeOK
    <3>2. QED
      BY <2>2, <3>1 DEF DInv, ClearedBefore, Running
  <2>3. QED
    BY <2>1, <2>2 DEF Waited
<1>2. QED
  BY <1>1, InitInvariant, NextInvariant, PTL DEF Spec
=============================================================================
