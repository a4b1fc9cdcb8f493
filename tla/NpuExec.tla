------------------------------- MODULE NpuExec -------------------------------
(***************************************************************************)
(* accel_npu_cmd_exec_stub.v (ex), npu_v2_stub.v (npu) and the operand     *)
(* multiplexer between them in zybo_z7_10_ps_pl_top.v: a job whose payload *)
(* is complete is started on the NPU, and when the NPU is done its result  *)
(* is handed to the result store.                                          *)
(***************************************************************************)
EXTENDS PayloadFetch

VARIABLES ex, npu

(* Mutant: an NPU slower than the next job's descriptor and payload.       *)
NpuLatencySlow == 40

NpuLatency == 4     \* countdown loaded when the NPU starts

(* The outcome of one inference: the model and the operands it used.       *)
Builtin == [b \in 0..WeightBeats-1 |-> Zero]    \* the weights of a fixed model

Result     == [model : Word, inputs : Inputs, weights : Weights]
ZeroResult == [model |-> Zero, inputs |-> ZeroInputs, weights |-> Builtin]

(* Model ids 0x80 and 0x81 take their weights from the runtime inputs.     *)
IsRuntime(model) == model.id \in RuntimeJobs

StatusBusy == 1
StatusError == 2
StatusIdle == 4

ExecStatus == [count : 0..CountMod-1, model : Word, flags : 0..7]

ExRegs ==
  [npu_start_pulse : BOOLEAN, store_request_pulse : BOOLEAN,
   npu_model : Word, last_output : Word, inflight : BOOLEAN,
   exec_count : 0..CountMod-1, error_sticky : BOOLEAN,
   last_model_id : Word, exec_status : ExecStatus]

ExTypeOK == ex \in ExRegs

NpuTypeOK ==
  npu \in [busy : BOOLEAN, done : BOOLEAN, countdown : 0..NpuLatency,
           model : Word, inputs : Inputs, result : Result]

ExReset ==
  [npu_start_pulse |-> FALSE, store_request_pulse |-> FALSE,
   npu_model |-> Zero, last_output |-> Zero, inflight |-> FALSE,
   exec_count |-> 0, error_sticky |-> FALSE, last_model_id |-> Zero,
   exec_status |-> [count |-> 0, model |-> Zero, flags |-> StatusIdle]]

ExecInit ==
  /\ ex = ExReset
  /\ npu = [busy |-> FALSE, done |-> FALSE, countdown |-> 0, model |-> Zero,
            inputs |-> ZeroInputs, result |-> ZeroResult]

-----------------------------------------------------------------------------
(* The execute stub.                                                       *)

(* exec_status is assigned {exec_count, last_model_id, 5'h00, flags}.  The *)
(* flags are an expression of 32-bit operands, so they take 32 bits of the *)
(* concatenation and the register, 32 bits wide, keeps nothing above them. *)
FlagsWidth == 32

ExecStatusWord(count, model, flags) ==
  [count |-> IF FlagsWidth + 5 + 8 < 32 THEN count ELSE 0,
   model |-> IF FlagsWidth + 5 < 32 THEN model ELSE Zero,
   flags |-> flags]

ExFlags(npu_busy) ==
  (IF ex.inflight \/ npu_busy THEN StatusBusy ELSE StatusIdle)
    + (IF ex.error_sticky THEN StatusError ELSE 0)

(* Every enabled edge: the pulses fall, and the completion of the job in   *)
(* flight is turned into a store request.                                  *)
ExEveryEdge(npu_busy, npu_done) ==
  [ex EXCEPT !.npu_start_pulse = FALSE,
             !.exec_status = ExecStatusWord(ex.exec_count, ex.last_model_id,
                                             ExFlags(npu_busy)),
             !.store_request_pulse = ex.inflight /\ npu_done,
             !.inflight = @ /\ ~npu_done]

(* enable low leaves npu_model_id_out as it is.                            *)
ExDisabled == ex' = [ExReset EXCEPT !.npu_model = ex.npu_model]

(* Mutant: only a job of the queue's own keeps the next one out.           *)
ExTakenByQueue(npu_busy) == ex.inflight

(* The stub starts no job now.  npu_busy is a register of the NPU: it does *)
(* not show a start pulse that is at the NPU's input at this edge.         *)
ExTaken(npu_busy) == ex.inflight \/ npu_busy

(* The output offset is latched for every job offered, started or not.     *)
ExStart(dispatch_valid, job, npu_busy, npu_done) ==
  /\ dispatch_valid /\ ~ExTaken(npu_busy)
  /\ ex' = [ExEveryEdge(npu_busy, npu_done) EXCEPT
              !.last_output = job.output, !.last_model_id = job.model,
              !.npu_start_pulse = TRUE,
              !.npu_model = job.model, !.inflight = TRUE,
              !.exec_count = Inc(@)]

ExReject(dispatch_valid, job, npu_busy, npu_done) ==
  /\ dispatch_valid /\ ExTaken(npu_busy)
  /\ ex' = [ExEveryEdge(npu_busy, npu_done) EXCEPT !.last_output = job.output,
              !.last_model_id = job.model, !.error_sticky = TRUE]

ExClock(enable, dispatch_valid, job, npu_busy, npu_done) ==
  \/ ~enable /\ ExDisabled
  \/ enable /\ ExStart(dispatch_valid, job, npu_busy, npu_done)
  \/ enable /\ ExReject(dispatch_valid, job, npu_busy, npu_done)
  \/ enable /\ ~dispatch_valid /\ ex' = ExEveryEdge(npu_busy, npu_done)

-----------------------------------------------------------------------------
(* The operand multiplexer: the payload while the execute stub's start     *)
(* pulse is high, the MMIO registers at every other edge.                  *)

MuxStart(mmio_start) == mmio_start \/ ex.npu_start_pulse
MuxModel   == IF ex.npu_start_pulse THEN ex.npu_model ELSE MmioWord(0)

(* Mutant: the inputs are switched by the payload pulse, an edge too early.*)
MuxInputsEarly == IF pf.payload_valid THEN pf.inputs ELSE MmioInputs

MuxInputs  == IF ex.npu_start_pulse THEN pf.inputs ELSE MmioInputs
MuxWeights == IF ex.npu_start_pulse THEN pf.weights ELSE MmioWeights

-----------------------------------------------------------------------------
(* The NPU latches model and inputs when it starts; the weights are read   *)
(* from its inputs at the edge that computes the result.                   *)

NpuStart(start, model, inputs) ==
  /\ start /\ ~npu.busy
  /\ npu' = [npu EXCEPT !.busy = TRUE, !.done = FALSE, !.model = model,
                        !.inputs = inputs, !.countdown = NpuLatency]

NpuCount ==
  /\ npu.busy /\ npu.countdown # 0
  /\ npu' = [npu EXCEPT !.countdown = @ - 1, !.done = FALSE]

NpuFinish(weights) ==
  /\ npu.busy /\ npu.countdown = 0
  /\ npu' = [npu EXCEPT !.busy = FALSE, !.done = TRUE,
               !.result = [model |-> npu.model, inputs |-> npu.inputs,
                           weights |-> IF IsRuntime(npu.model) THEN weights
                                                               ELSE Builtin]]

NpuIdle(start) ==
  /\ ~npu.busy /\ ~start
  /\ npu' = [npu EXCEPT !.done = FALSE]

NpuClock(start, model, inputs, weights) ==
  \/ NpuStart(start, model, inputs)
  \/ NpuCount
  \/ NpuFinish(weights)
  \/ NpuIdle(start)
=============================================================================
