----------------------------- MODULE PayloadFetch -----------------------------
(***************************************************************************)
(* accel_npu_payload_fetch_stub.v: for each NPU_INFER dispatched while it  *)
(* is idle, reads two input words and six weight words and hands the job   *)
(* to the execute stub with a one-edge payload_valid.  pf is its register  *)
(* file; the status and counter outputs, which the top level leaves        *)
(* unconnected, are left out.                                              *)
(***************************************************************************)
EXTENDS AccelTypes

VARIABLE pf

InputBeats  == 2
WeightBeats == 6

Inputs  == [0..InputBeats-1 -> Word]
Weights == [0..WeightBeats-1 -> Word]

MmioInputs  == [b \in 0..InputBeats-1 |-> MmioWord(b)]
MmioWeights == [b \in 0..WeightBeats-1 |-> MmioWord(b)]
ZeroInputs  == [b \in 0..InputBeats-1 |-> Zero]
ZeroWeights == [b \in 0..WeightBeats-1 |-> Zero]

PfStates == {"IDLE", "INPUT_AR", "INPUT_R", "WEIGHT_AR", "WEIGHT_R"}

PfRegs ==
  [state : PfStates, payload_valid : BOOLEAN, job : NpuJob,
   inputs : Inputs, weights : Weights, arvalid : BOOLEAN,
   rready : BOOLEAN, beat_index : 0..7, error_sticky : BOOLEAN,
   burst_error : BOOLEAN]

PfTypeOK == pf \in PfRegs

PfReset ==
  [state |-> "IDLE", payload_valid |-> FALSE, job |-> ZeroJob,
   inputs |-> ZeroInputs, weights |-> ZeroWeights, arvalid |-> FALSE,
   rready |-> FALSE, beat_index |-> 0, error_sticky |-> FALSE,
   burst_error |-> FALSE]

PfInit == pf = PfReset

(* The burst address: the input buffer first, then the weight buffer.      *)
PfAraddr ==
  IF pf.state \in {"WEIGHT_AR", "WEIGHT_R"}
  THEN [buf |-> "weight", at |-> pf.job.weight.id]
  ELSE [buf |-> "input", at |-> pf.job.input.id]

(* Mutant: a dropped dispatch is not flagged.                              *)
PfEveryEdgeSilent(dispatch_valid) == [pf EXCEPT !.payload_valid = FALSE]

(* Every enabled edge: payload_valid falls, and a dispatch that arrives    *)
(* while a job is being fetched is dropped and flagged.                    *)
PfEveryEdge(dispatch_valid) ==
  [pf EXCEPT !.payload_valid = FALSE,
             !.error_sticky = @ \/ (dispatch_valid /\ pf.state # "IDLE")]

(* An accepted job starts from the operands in the MMIO registers.         *)
PfAccept(dispatch_valid, job) ==
  /\ pf.state = "IDLE" /\ dispatch_valid
  /\ pf' = [PfEveryEdge(dispatch_valid) EXCEPT
              !.state = "INPUT_AR", !.job = job, !.inputs = MmioInputs,
              !.weights = MmioWeights, !.arvalid = TRUE, !.rready = FALSE,
              !.beat_index = 0, !.burst_error = FALSE]

PfIdle(dispatch_valid) ==
  /\ pf.state = "IDLE" /\ ~dispatch_valid
  /\ pf' = [PfEveryEdge(dispatch_valid) EXCEPT !.arvalid = FALSE,
              !.rready = FALSE, !.beat_index = 0, !.burst_error = FALSE]

(* Mutant: the weight burst forgets the error of the input burst.          *)
PfAddressTakenForgets(dispatch_valid, arready) ==
  /\ pf.state \in {"INPUT_AR", "WEIGHT_AR"} /\ pf.arvalid /\ arready
  /\ pf' = [PfEveryEdge(dispatch_valid) EXCEPT
              !.arvalid = FALSE, !.rready = TRUE, !.beat_index = 0,
              !.burst_error = FALSE,
              !.state = IF pf.state = "INPUT_AR" THEN "INPUT_R" ELSE "WEIGHT_R"]

PfAddressTaken(dispatch_valid, arready) ==
  /\ pf.state \in {"INPUT_AR", "WEIGHT_AR"} /\ pf.arvalid /\ arready
  /\ pf' = [PfEveryEdge(dispatch_valid) EXCEPT
              !.arvalid = FALSE, !.rready = TRUE, !.beat_index = 0,
              !.burst_error = IF pf.state = "INPUT_AR" THEN FALSE ELSE @,
              !.state = IF pf.state = "INPUT_AR" THEN "INPUT_R" ELSE "WEIGHT_R"]

(* A beat of the input burst; the last one starts the weight burst.        *)
PfInputBeat(dispatch_valid, rvalid, rdata, rerror, rlast) ==
  /\ pf.state = "INPUT_R" /\ rvalid /\ pf.rready
  /\ pf' = [PfEveryEdge(dispatch_valid) EXCEPT
              !.inputs = IF pf.beat_index < InputBeats
                         THEN [@ EXCEPT ![pf.beat_index] = rdata] ELSE @,
              !.burst_error = @ \/ rerror
                                \/ (rlast /\ pf.beat_index # InputBeats-1),
              !.beat_index = IF rlast THEN 0 ELSE (@ + 1) % 8,
              !.rready = ~rlast,
              !.arvalid = rlast,
              !.state = IF rlast THEN "WEIGHT_AR" ELSE @]

(* A beat of the weight burst; the last one launches the job, also when an *)
(* error was seen.                                                         *)
PfWeightBeat(dispatch_valid, rvalid, rdata, rerror, rlast) ==
  /\ pf.state = "WEIGHT_R" /\ rvalid /\ pf.rready
  /\ pf' = [PfEveryEdge(dispatch_valid) EXCEPT
              !.weights = IF pf.beat_index < WeightBeats
                          THEN [@ EXCEPT ![pf.beat_index] = rdata] ELSE @,
              !.burst_error = @ \/ rerror,
              !.beat_index = IF rlast THEN @ ELSE (@ + 1) % 8,
              !.rready = ~rlast,
              !.payload_valid = rlast,
              !.error_sticky = @ \/ (rlast /\ (pf.burst_error \/ rerror
                                               \/ pf.beat_index # WeightBeats-1)),
              !.state = IF rlast THEN "IDLE" ELSE @]

PfWait(dispatch_valid, arready, rvalid) ==
  /\ \/ pf.state \in {"INPUT_AR", "WEIGHT_AR"} /\ ~(pf.arvalid /\ arready)
     \/ pf.state \in {"INPUT_R", "WEIGHT_R"} /\ ~(rvalid /\ pf.rready)
  /\ pf' = PfEveryEdge(dispatch_valid)

PfClock(enable, dispatch_valid, job, arready, rvalid, rdata, rerror, rlast) ==
  \/ ~enable /\ pf' = PfReset
  \/ enable /\ PfAccept(dispatch_valid, job)
  \/ enable /\ PfIdle(dispatch_valid)
  \/ enable /\ PfAddressTaken(dispatch_valid, arready)
  \/ enable /\ PfInputBeat(dispatch_valid, rvalid, rdata, rerror, rlast)
  \/ enable /\ PfWeightBeat(dispatch_valid, rvalid, rdata, rerror, rlast)
  \/ enable /\ PfWait(dispatch_valid, arready, rvalid)
=============================================================================
