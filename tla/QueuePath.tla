------------------------------ MODULE QueuePath ------------------------------
(***************************************************************************)
(* The unified command queue end to end, wired as zybo_z7_10_ps_pl_top.v   *)
(* wires it: host library, register file, frontend, descriptor fetch,      *)
(* decode, dispatch, payload fetch, NPU execute, NPU, result store, GPU,   *)
(* read arbiter and the memory port.                                       *)
(*                                                                         *)
(* A step is one rising edge of pl_clk0: every block takes its step at     *)
(* once, from the values all registers had before the edge.  What is       *)
(* chosen at an edge is what the memory port shows and what the software,  *)
(* which runs at its own pace, does.                                       *)
(***************************************************************************)
EXTENDS CmdqFrontend, UmemFetch, CmdqDecode, ReadArbiter, GpuControl, UmemPort

VARIABLE hist     \* the jobs whose descriptors were retired, in order

vars == <<fe, fx, dec, disp, arb, pf, ex, npu, st, gpu, regs, host, ring,
          direct, rd, wr, outmem, hist>>

-----------------------------------------------------------------------------
(* The wires.                                                              *)

enable == regs.cmdq_enable

DescAddr == [buf |-> "desc", at |-> fx.araddr]

PortArvalid == ArbArvalid(fx.arvalid, pf.arvalid)
PortAraddr  == ArbAraddr(fx.arvalid, DescAddr, PfAraddr)
PortRready  == ArbRready(fx.rready, pf.rready)

DescArready(arready) == GrantDesc(fx.arvalid) /\ arready
NpuArready(arready)  == GrantNpu(fx.arvalid, pf.arvalid) /\ arready

GpuValid  == regs.gpu_cmd_pulse \/ disp.gpu_dispatch_pulse
GpuOpcode == IF disp.gpu_dispatch_pulse THEN disp.gpu_cmd_opcode
                                        ELSE regs.gpu_cmd_opcode

-----------------------------------------------------------------------------
(* hist names the job a retired descriptor belongs to: 0 when its words    *)
(* are not the eight words of one job.                                     *)
JobOf(d) == IF d[0].buf = "desc" /\ d = DescOf(d[0].id) THEN d[0].id ELSE 0

HistClock ==
  hist' = IF enable /\ FeRetires(fx.desc_done) /\ Len(hist) <= Jobs
          THEN Append(hist, JobOf(fx.desc_data)) ELSE hist

Init ==
  /\ FeInit /\ FxInit /\ DecInit /\ ArbInit /\ PfInit /\ ExecInit /\ StInit
  /\ GpuInit /\ RegsInit /\ HostInit /\ PortInit
  /\ hist = <<>>

PortClock(arready, awready, wready) ==
  /\ RdClock(PortArvalid, PortAraddr, arready, PortRready)
  /\ WrClock(st.awvalid, st.output, awready, st.wvalid, wready, st.result,
             st.wword, st.bready)

SoftwareClock ==
  HostClock(fe.cmdq_tail_shadow, npu.busy, gpu.busy, npu.done, gpu.frame_done)

AccelClock(arready, awready, wready) ==
  /\ FeClock(enable, regs.cmdq_head, regs.cmdq_tail, regs.cmdq_doorbell,
             fx.fetch_ready, fx.desc_done, fx.desc_error)
  /\ FxClock(enable, fe.fetch_valid, fe.fetch_slot, fe.fetch_sequence,
             DescArready(arready), DescRvalid(rd.rvalid), rd.rdata, rd.rerror, Rlast)
  /\ DecodeClock(enable, fx.desc_done, fx.desc_error, fx.desc_data)
  /\ DispatchClock(enable)
  /\ PfClock(enable, disp.npu_dispatch_pulse, disp.npu_job, NpuArready(arready),
             NpuRvalid(rd.rvalid), rd.rdata, rd.rerror, Rlast)
  /\ ArbClock(fx.arvalid, pf.arvalid, arready, fx.rready, pf.rready, rd.rvalid, Rlast)
  /\ ExClock(enable, pf.payload_valid, pf.job, npu.busy, npu.done)
  /\ NpuClock(MuxStart(regs.npu_start_pulse), MuxModel, MuxInputs, MuxWeights)
  /\ StClock(enable, ex.store_request_pulse, ex.last_output, npu.result,
             awready, wready, wr.bvalid, wr.berror)
  /\ GpuClock(GpuValid, GpuOpcode)
  /\ HistClock

(* One edge at which Port holds of the port's move and Software of the     *)
(* software's.                                                             *)
Edge(Port, Software) ==
  \E arready \in ReadySet("AR", PortArvalid /\ ~rd.busy),
     awready \in ReadySet("AW", st.awvalid /\ ~wr.busy),
     wready  \in ReadySet("W", st.wvalid /\ wr.busy /\ wr.beat < OutBeats) :
       /\ PortClock(arready, awready, wready) /\ Port
       /\ AccelClock(arready, awready, wready)
       /\ SoftwareClock /\ Software

Next == Edge(TRUE, TRUE)

(* The clock runs; the memory port answers in the end (each half moves on  *)
(* when it can); a library call that has begun is finished and the direct  *)
(* client keeps polling.  Nothing obliges software to start a call.        *)
Fairness ==
  /\ WF_vars(Next)
  /\ WF_vars(Edge(rd' # rd, TRUE))
  /\ WF_vars(Edge(wr' # wr, TRUE))
  /\ WF_vars(host.pc # "idle" /\ Edge(TRUE, host' # host))
  /\ WF_vars(direct.pc # "idle" /\ Edge(TRUE, direct' # direct))

Spec     == Init /\ [][Next]_vars
FairSpec == Spec /\ Fairness

-----------------------------------------------------------------------------
TypeOK ==
  /\ FeTypeOK /\ FxTypeOK /\ DecTypeOK /\ ArbTypeOK /\ PfTypeOK /\ ExTypeOK
  /\ NpuTypeOK /\ StTypeOK /\ GpuTypeOK /\ RegsTypeOK /\ HostTypeOK /\ PortTypeOK
  /\ hist \in Seq(Ids)
=============================================================================
