------------------------------ MODULE UmemFetch ------------------------------
(***************************************************************************)
(* accel_umem_axi_fetch_stub.v: turns one fetch request of the frontend    *)
(* into one AXI read burst of eight beats and packs the beats into a       *)
(* descriptor.  fx is the block's register file.                           *)
(***************************************************************************)
EXTENDS AccelTypes

VARIABLE fx

FxRegs ==
  [fetch_ready : BOOLEAN, desc_done : BOOLEAN, desc_error : BOOLEAN,
   desc_status : {"IDLE", "BUSY", "ERROR"}, last_sequence : 0..CountMod-1,
   beat_count : 0..15, desc_data : Descriptor, araddr : Slots,
   arvalid : BOOLEAN, rready : BOOLEAN, active : BOOLEAN]

FxTypeOK == fx \in FxRegs

FxInit ==
  fx = [fetch_ready |-> FALSE, desc_done |-> FALSE, desc_error |-> FALSE,
        desc_status |-> "IDLE", last_sequence |-> 0, beat_count |-> 0,
        desc_data |-> ZeroDesc, araddr |-> 0, arvalid |-> FALSE,
        rready |-> FALSE, active |-> FALSE]

(* fetch_ready, desc_done and desc_error last one edge.                    *)
FxPulsesLow(f) == [f EXCEPT !.fetch_ready = FALSE, !.desc_done = FALSE,
                            !.desc_error = FALSE]

(* Mutant: disabling leaves the burst active.                              *)
FxDisabledStaysActive ==
  fx' = [FxPulsesLow(fx) EXCEPT !.desc_status = "IDLE", !.arvalid = FALSE,
            !.rready = FALSE, !.beat_count = 0, !.desc_data = ZeroDesc]

(* enable low: the burst is dropped, whatever the bus is doing.            *)
FxDisabled ==
  fx' = [FxPulsesLow(fx) EXCEPT !.desc_status = "IDLE", !.arvalid = FALSE,
            !.rready = FALSE, !.beat_count = 0, !.desc_data = ZeroDesc,
            !.active = FALSE]

(* A request is (re)armed at every edge until its address is accepted.     *)
FxArmed(f, fetch_valid, slot, sequence) ==
  IF ~fx.active /\ fetch_valid
  THEN [f EXCEPT !.araddr = slot, !.arvalid = TRUE, !.rready = FALSE,
                 !.desc_status = "BUSY", !.beat_count = 0,
                 !.desc_data = ZeroDesc, !.last_sequence = sequence]
  ELSE f

FxTakesBeat(rvalid) == fx.active /\ rvalid /\ fx.rready

FxRequest(fetch_valid, slot, sequence, arready) ==
  /\ ~fx.active /\ fetch_valid
  /\ ~(fx.arvalid /\ arready)
  /\ fx' = FxArmed(FxPulsesLow(fx), fetch_valid, slot, sequence)

FxAddressTaken(fetch_valid, slot, sequence, arready) ==
  /\ fx.arvalid /\ arready
  /\ fx' = [FxArmed(FxPulsesLow(fx), fetch_valid, slot, sequence)
              EXCEPT !.arvalid = FALSE, !.rready = TRUE,
                     !.fetch_ready = TRUE, !.active = TRUE]

(* The beat lands at beat_count; rlast ends the burst whatever the count.  *)
FxBeat(rvalid, rdata, rerror, rlast) ==
  /\ FxTakesBeat(rvalid)
  /\ fx' = [FxPulsesLow(fx) EXCEPT
              !.desc_data = IF fx.beat_count < DescBeats
                            THEN [@ EXCEPT ![fx.beat_count] = rdata] ELSE @,
              !.beat_count = (@ + 1) % 16,
              !.desc_error = rerror,
              !.desc_status = IF rerror THEN "ERROR" ELSE IF rlast THEN "IDLE" ELSE @,
              !.rready = ~rlast,
              !.desc_done = rlast,
              !.active = ~rlast]

FxIdle(fetch_valid, arready, rvalid) ==
  /\ ~(~fx.active /\ fetch_valid)
  /\ ~(fx.arvalid /\ arready)
  /\ ~FxTakesBeat(rvalid)
  /\ fx' = FxPulsesLow(fx)

(* arvalid and active are never both set (part of Handshake, proved in     *)
(* QueueProofs), so at most one of the cases applies at an edge.           *)
FxClock(enable, fetch_valid, slot, sequence, arready, rvalid, rdata, rerror, rlast) ==
  \/ ~enable /\ FxDisabled
  \/ enable /\ FxRequest(fetch_valid, slot, sequence, arready)
  \/ enable /\ FxAddressTaken(fetch_valid, slot, sequence, arready)
  \/ enable /\ FxBeat(rvalid, rdata, rerror, rlast)
  \/ enable /\ FxIdle(fetch_valid, arready, rvalid)
=============================================================================
