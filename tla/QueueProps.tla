------------------------------ MODULE QueueProps ------------------------------
(***************************************************************************)
(* What the command queue path is meant to guarantee.  Each property says  *)
(* under which conditions on the environment it is checked; the README     *)
(* says which run checks it.                                               *)
(***************************************************************************)
EXTENDS QueuePath

AsNumber(b) == IF b THEN 1 ELSE 0

-----------------------------------------------------------------------------
(* The frontend and the fetch stub never disagree about the one descriptor *)
(* between them: a request is outstanding in exactly one of the forms      *)
(* "asked for" (fetch_valid), "being read" (inflight and active) or "read" *)
(* (inflight and desc_done), so no completion can be missed by the         *)
(* frontend and none can arrive for a fetch it did not start.  Holds for   *)
(* any memory port and any use of UMEM_CTRL bit 3.                         *)
Handshake ==
  /\ FeExclusive
  /\ ~(fx.active /\ fx.arvalid)
  /\ fx.arvalid => fe.fetch_valid
  /\ fx.fetch_ready => fx.active /\ fe.fetch_valid
  /\ fx.active /\ ~fx.fetch_ready => fe.fetch_inflight
  /\ fx.desc_done => fe.fetch_inflight /\ ~fx.active
  /\ fe.fetch_inflight => fx.active \/ fx.desc_done

(* The arbiter, the memory port and the two masters agree on whose burst   *)
(* is running, where it reads and which beat comes next, so that no beat   *)
(* reaches the wrong master or the wrong register.  Holds while the queue  *)
(* stays enabled.                                                          *)
BurstOwner ==
  /\ rd.busy = arb.read_active
  /\ rd.busy /\ arb.owner_desc =>
       /\ fx.active /\ fx.rready
       /\ rd.addr = [buf |-> "desc", at |-> fe.fetch_slot]
       /\ rd.beat = fx.beat_count
  /\ rd.busy /\ ~arb.owner_desc =>
       /\ pf.state = (IF rd.addr.buf = "input" THEN "INPUT_R" ELSE "WEIGHT_R")
       /\ pf.rready
       /\ rd.addr = PfAraddr
       /\ rd.beat = pf.beat_index
  /\ fx.active => rd.busy /\ arb.owner_desc
  /\ pf.state \in {"INPUT_R", "WEIGHT_R"} => rd.busy /\ ~arb.owner_desc

(* The ring is a bounded FIFO: descriptors are retired whole, once, in the *)
(* order they were pushed and only after they were submitted, although the *)
(* host refills slots while the hardware reads others.  Needs a client     *)
(* that forwards CMDQ_TAIL_SHADOW to TAIL, or one that pushes fewer jobs   *)
(* than the ring has slots, and no reset or disable.                       *)
Queue == INSTANCE JobQueue WITH Capacity <- EntryCount - 1, pushed <- host.pushed,
                                exposed <- host.exposed, consumed <- hist
ImplementsQueue == Queue!QSpec

(* CMDQ_STATUS, which software polls, lags the state it describes by an    *)
(* edge; still, once submit has returned, "empty" means that every         *)
(* submitted descriptor was retired, and "processed" is exact.  The bit is *)
(* about the ring, HEAD against the tail, as the code has it and software  *)
(* needs it; EmptyAfterFirst below is what the testbench takes it for.     *)
StatusTruthful ==
  /\ host.pc # "doorbell" /\ fe.cmdq_status.empty => Len(hist) = host.exposed
  /\ fe.cmdq_status.processed = Len(hist) % CountMod

(* A doorbell edge that finds the frontend idle and the ring not empty is  *)
(* served: a descriptor is retired, and only the one asked for at this     *)
(* edge can be the next one.                                               *)
DoorbellServed ==
  (enable /\ FeCanIssue(regs.cmdq_head, regs.cmdq_doorbell)) ~> FeRetires(fx.desc_done)

(* No retired descriptor disappears between the frontend and the NPU and   *)
(* GPU ports: it is in the decoder, or counted by the dispatcher, or the   *)
(* frontend has its error flag up.  Holds across disabling and errors.     *)
DispatchAccounting ==
  \/ fe.error_sticky
  \/ fe.processed_count =
       (disp.npu_dispatch_count + disp.gpu_dispatch_count
          + disp.dispatch_error_count + AsNumber(dec.decode_valid)) % CountMod

(* No dispatched NPU job disappears without an error flag before the       *)
(* execute stub offers it to the NPU, although neither the payload fetch   *)
(* nor the stub can hold the dispatcher back; and the NPU takes every job  *)
(* it is offered, but one.  exec_count counts that one too: a direct start *)
(* that was at the NPU's input while the stub saw it idle comes an edge    *)
(* earlier, and the NPU ignores the pulse of the job                       *)
(* (accel_npu_cmd_exec_stub.v:65, npu_v2_stub.v:128).  A job so lost shows *)
(* no flag; it cannot be lost to an inference that the stub could see, nor *)
(* to another job of the queue, nor where no direct client starts the NPU. *)
NpuAccounting ==
  /\ \/ pf.error_sticky \/ ex.error_sticky
     \/ disp.npu_dispatch_count =
          (ex.exec_count + AsNumber(disp.npu_dispatch_pulse)
             + AsNumber(pf.state # "IDLE") + AsNumber(pf.payload_valid)) % CountMod
  /\ ex.npu_start_pulse /\ npu.busy =>
       /\ direct.starts > 0
       /\ npu.countdown = NpuLatency /\ npu.model = MmioWord(0)

(* The NPU is never launched on a payload with an errored beat in it       *)
(* unless the payload fetch says so: the error of an input beat survives   *)
(* the weight burst that follows.                                          *)
ErrorFlagged ==
  pf.payload_valid /\ Junk \in {pf.inputs[b] : b \in DOMAIN pf.inputs}
                              \cup {pf.weights[b] : b \in DOMAIN pf.weights}
    => pf.error_sticky

(* The next job's descriptor and payload take longer to read than an       *)
(* inference takes, so the execute stub, which cannot queue, is never      *)
(* offered a job while one is running.  Needs the NPU to itself.           *)
ExecNeverBusy == pf.payload_valid => ~ex.inflight /\ ~npu.busy

(* What lies at a job's output offset is that job's result: of its model,  *)
(* on its input, word for word in place; and no result lies anywhere else. *)
(* Jobs follow each other through fetch, NPU and store without any one     *)
(* identity travelling with the data.  Checked for the built-in models.    *)
ResultOf(id) ==
  [model   |-> MemWord("desc", id, 1),
   inputs  |-> [b \in 0..InputBeats-1 |-> MemWord("input", id, b)],
   weights |-> Builtin]

StoredResultIsOwn ==
  \A id \in Ids : \A w \in 0..OutBeats-1 :
    outmem[id][w] # NoWord =>
      id # 0 /\ outmem[id][w] = [result |-> ResultOf(id), word |-> w]

(* Every job the payload fetch takes up has its result written in full, or *)
(* the store stub says that it lost one.                                   *)
AcceptedJobStored ==
  \A id \in { j \in 1..Jobs : "NPU_INFER" \in OpcodesOf[j] } :
    (pf.state = "INPUT_AR" /\ pf.job.output.id = id)
      ~> (st.error_sticky \/ outmem[id] = Stored(ResultOf(id)))

(* The direct client always gets an answer, whatever the queue does to the *)
(* unit and to the sticky bit it is polling.                               *)
DirectReturns == (direct.pc \in {"npu", "gpu"}) ~> (direct.pc = "idle")

-----------------------------------------------------------------------------
(* Statements of the documentation and the tests that the code contradicts.*)

(* tb/accel_cmdq_frontend_stub_tb.v:6 and 109: with HEAD = 2 and the tail  *)
(* at 1, after the first descriptor was retired, CMDQ_STATUS is            *)
(* 0x0001_0004: one processed, not busy, and empty.                        *)
EmptyAfterFirst ==
  enable /\ regs.cmdq_head = 2 /\ fe.cmdq_tail_shadow = 1
    /\ fe.cmdq_status.processed = 1 /\ ~fe.cmdq_status.busy
    => fe.cmdq_status.empty

(* docs/ACCEL_COMMAND_QUEUE.md: the decode stub counts valid and errored   *)
(* descriptors, so that only valid ones reach the dispatcher.              *)
ErroredNotDispatched == dec.decode_valid => \A b \in DOMAIN dec.desc : dec.desc[b] # Junk

(* docs/ACCEL_COMMAND_QUEUE.md: src1 of a runtime-model job points to its  *)
(* weights.                                                                *)
RuntimeWeightsUsed ==
  \A id \in RuntimeJobs : \A w \in 0..OutBeats-1 :
    outmem[id][w] # NoWord =>
      outmem[id][w].result.weights = [b \in 0..WeightBeats-1 |-> MemWord("weight", id, b)]

(* docs/ACCEL_MMIO_MAP.md: NPU_CMD_EXEC_STATUS carries exec_count.         *)
ExecStatusReports == ~ex.npu_start_pulse => ex.exec_status.count = ex.exec_count
=============================================================================
