------------------------------ MODULE ReadArbiter ------------------------------
(***************************************************************************)
(* accel_umem_axi_read_arbiter_stub.v: shares the AXI read channel between *)
(* the descriptor fetch and the NPU payload fetch, one burst at a time,    *)
(* descriptors first.  arb is its register file; the other operators are   *)
(* its combinational wires.                                                *)
(***************************************************************************)
EXTENDS AccelTypes

VARIABLE arb

ArbTypeOK == arb \in [read_active : BOOLEAN, owner_desc : BOOLEAN]

ArbInit == arb = [read_active |-> FALSE, owner_desc |-> TRUE]

GrantDesc(desc_arvalid) == ~arb.read_active /\ desc_arvalid

(* Mutant: the payload fetch does not yield to the descriptor fetch.       *)
GrantNpuAlways(desc_arvalid, npu_arvalid) == ~arb.read_active /\ npu_arvalid

GrantNpu(desc_arvalid, npu_arvalid) ==
  ~arb.read_active /\ ~desc_arvalid /\ npu_arvalid

(* The request the arbiter shows the memory port.                          *)
ArbArvalid(desc_arvalid, npu_arvalid) ==
  GrantDesc(desc_arvalid) \/ GrantNpu(desc_arvalid, npu_arvalid)

ArbAraddr(desc_arvalid, desc_addr, npu_addr) ==
  IF GrantDesc(desc_arvalid) THEN desc_addr ELSE npu_addr

(* The port's rvalid as each master sees it, and their rready as the port  *)
(* sees it.                                                                *)
DescRvalid(rvalid) == arb.read_active /\ arb.owner_desc /\ rvalid
NpuRvalid(rvalid)  == arb.read_active /\ ~arb.owner_desc /\ rvalid

ArbRready(desc_rready, npu_rready) ==
  /\ arb.read_active
  /\ IF arb.owner_desc THEN desc_rready ELSE npu_rready

ArbGrant(desc_arvalid, npu_arvalid, arready) ==
  /\ ArbArvalid(desc_arvalid, npu_arvalid) /\ arready
  /\ arb' = [read_active |-> TRUE, owner_desc |-> GrantDesc(desc_arvalid)]

(* Mutant: the channel is never released.                                  *)
ArbReleaseForgotten(rready, rvalid, rlast) ==
  /\ arb.read_active /\ rvalid /\ rready /\ rlast
  /\ UNCHANGED arb

ArbRelease(rready, rvalid, rlast) ==
  /\ arb.read_active /\ rvalid /\ rready /\ rlast
  /\ arb' = [arb EXCEPT !.read_active = FALSE]

ArbHold(desc_arvalid, npu_arvalid, arready, rready, rvalid, rlast) ==
  /\ ~(ArbArvalid(desc_arvalid, npu_arvalid) /\ arready)
  /\ ~(arb.read_active /\ rvalid /\ rready /\ rlast)
  /\ UNCHANGED arb

(* The arbiter has no enable: only a reset clears read_active.             *)
ArbClock(desc_arvalid, npu_arvalid, arready, desc_rready, npu_rready, rvalid, rlast) ==
  LET rready == ArbRready(desc_rready, npu_rready)
  IN  \/ ArbGrant(desc_arvalid, npu_arvalid, arready)
      \/ ArbRelease(rready, rvalid, rlast)
      \/ ArbHold(desc_arvalid, npu_arvalid, arready, rready, rvalid, rlast)
=============================================================================
