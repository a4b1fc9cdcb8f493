------------------------------ MODULE QueueTypes ------------------------------
(***************************************************************************)
(* Type correctness of QueuePath, for every value of the constants: one    *)
(* lemma per block, which assumes of the wires only their types, and the   *)
(* theorem that composes them.                                             *)
(***************************************************************************)
EXTENDS QueueProps, TLAPS

(* Counters stay in range.                                                 *)
LEMMA IncTyped == \A n \in 0..CountMod-1 : Inc(n) \in 0..CountMod-1
  BY TypesAssumption DEF TypesAssumption, Inc

LEMMA SlotTyped ==
  /\ \A n \in Nat : n % EntryCount \in Slots
  /\ \A s \in Slots : (s + 1) % EntryCount \in Slots
  /\ 0 \in Slots /\ Slots \subseteq Nat
  BY TypesAssumption DEF TypesAssumption, Slots

(* The number zero is a value of every counter of a burst.                 *)
LEMMA ZeroBeat == 0 \in 0..15 /\ 0 \in 0..7 /\ 0 \in 0..OutBeats-1 /\ 0 \in 0..OutBeats
  BY DEF OutBeats

LEMMA CountTyped == 0 \in 0..CountMod-1
  BY TypesAssumption DEF TypesAssumption

(* Words.                                                                  *)
LEMMA WordTyped ==
  /\ Zero \in Word /\ Junk \in Word
  /\ \A b \in 0..7 : MmioWord(b) \in Word
  /\ \A buf \in {"desc", "input", "weight"}, id \in Ids, b \in 0..7 :
        MemWord(buf, id, b) \in Word
  BY TypesAssumption DEF TypesAssumption, Zero, Junk, MmioWord, MemWord, Word,
     Buffers, Ids

LEMMA ZeroDescTyped == ZeroDesc \in Descriptor
  BY WordTyped DEF ZeroDesc, Descriptor, DescBeats

-----------------------------------------------------------------------------
(* The frontend.                                                           *)
LEMMA FeClockTyped ==
  ASSUME FeTypeOK,
         NEW en \in BOOLEAN, NEW head \in Slots, NEW tail_seed \in Slots,
         NEW doorbell \in Nat, NEW fetch_ready \in BOOLEAN,
         NEW desc_done \in BOOLEAN, NEW desc_error \in BOOLEAN,
         FeClock(en, head, tail_seed, doorbell, fetch_ready, desc_done, desc_error)
  PROVE  FeTypeOK'
<1>st. FeStatusAt(head, desc_done, desc_error) \in FeStatus
  BY IncTyped DEF FeTypeOK, FeRegs, FeStatusAt, FeStatus
<1>edge. ASSUME NEW f \in FeRegs
         PROVE  FeEveryEdge(f, head, doorbell, desc_done, desc_error) \in FeRegs
  BY <1>st DEF FeEveryEdge, FeRegs
<1>1. CASE FeDisabled(head, tail_seed, doorbell)
  BY <1>1, SlotTyped, CountTyped DEF FeTypeOK, FeRegs, FeDisabled, FeStatus
<1>2. CASE FeIssue(head, doorbell, desc_done, desc_error)
  <2>1. [fe EXCEPT !.fetch_valid = TRUE,
                   !.fetch_slot = fe.cmdq_tail_shadow % EntryCount,
                   !.fetch_sequence = fe.processed_count] \in FeRegs
    BY SlotTyped DEF FeTypeOK, FeRegs
  <2> QED
    BY <1>2, <1>edge, <2>1 DEF FeTypeOK, FeIssue
<1>3. CASE FeAccepted(head, doorbell, fetch_ready, desc_done, desc_error)
  <2>1. [fe EXCEPT !.fetch_valid = FALSE, !.fetch_inflight = TRUE] \in FeRegs
    BY DEF FeTypeOK, FeRegs
  <2> QED
    BY <1>3, <1>edge, <2>1 DEF FeTypeOK, FeAccepted
<1>4. CASE FeRetire(head, doorbell, desc_done, desc_error)
  <2>1. [fe EXCEPT !.fetch_inflight = FALSE,
                   !.cmdq_tail_shadow = (@ + 1) % EntryCount,
                   !.processed_count = Inc(@),
                   !.error_sticky = @ \/ desc_error] \in FeRegs
    BY SlotTyped, IncTyped DEF FeTypeOK, FeRegs
  <2> QED
    BY <1>4, <1>edge, <2>1 DEF FeTypeOK, FeRetire
<1>5. CASE FeHold(head, doorbell, fetch_ready, desc_done, desc_error)
  BY <1>5, <1>edge DEF FeTypeOK, FeHold
<1> QED
  BY <1>1, <1>2, <1>3, <1>4, <1>5 DEF FeClock

(* The descriptor fetch.                                                   *)
LEMMA FxClockTyped ==
  ASSUME FxTypeOK,
         NEW en, NEW fetch_valid, NEW slot \in Slots, NEW sequence \in 0..CountMod-1,
         NEW arready, NEW rvalid, NEW rdata \in Word, NEW rerror \in BOOLEAN,
         NEW rlast \in BOOLEAN,
         FxClock(en, fetch_valid, slot, sequence, arready, rvalid, rdata, rerror, rlast)
  PROVE  FxTypeOK'
<1>low. FxPulsesLow(fx) \in FxRegs
  BY DEF FxTypeOK, FxRegs, FxPulsesLow
<1>arm. FxArmed(FxPulsesLow(fx), fetch_valid, slot, sequence) \in FxRegs
  BY <1>low, ZeroDescTyped, ZeroBeat DEF FxArmed, FxRegs
<1>1. CASE FxDisabled
  BY <1>1, <1>low, ZeroDescTyped, ZeroBeat DEF FxTypeOK, FxRegs, FxDisabled
<1>2. CASE FxRequest(fetch_valid, slot, sequence, arready)
  BY <1>2, <1>arm DEF FxTypeOK, FxRequest
<1>3. CASE FxAddressTaken(fetch_valid, slot, sequence, arready)
  BY <1>3, <1>arm DEF FxTypeOK, FxRegs, FxAddressTaken
<1>4. CASE FxBeat(rvalid, rdata, rerror, rlast)
  <2> DEFINE low == FxPulsesLow(fx)
             data == IF fx.beat_count < DescBeats
                     THEN [low.desc_data EXCEPT ![fx.beat_count] = rdata]
                     ELSE low.desc_data
             status == IF rerror THEN "ERROR" ELSE IF rlast THEN "IDLE"
                       ELSE low.desc_status
             more == ~rlast
  <2>0. /\ low \in FxRegs
        /\ low.desc_data \in Descriptor /\ low.beat_count \in 0..15
    BY <1>low DEF FxRegs
  <2>1. data \in Descriptor
    BY <2>0 DEF Descriptor
  <2>2. (low.beat_count + 1) % 16 \in 0..15
    BY <2>0
  <2>3. status \in {"IDLE", "BUSY", "ERROR"}
    BY <1>low DEF FxRegs
  <2>4. more \in BOOLEAN
    OBVIOUS
  <2> DEFINE next == [low EXCEPT !.desc_data = data,
                                 !.beat_count = (low.beat_count + 1) % 16,
                                 !.desc_error = rerror, !.desc_status = status,
                                 !.rready = more, !.desc_done = rlast,
                                 !.active = more]
  <2>5. fx' = next
    BY <1>4 DEF FxBeat
  <2>6. next \in FxRegs
    <3> HIDE DEF low, data, status, more
    <3> QED
      BY <2>0, <2>1, <2>2, <2>3, <2>4, Zenon DEF FxRegs
  <2> QED
    BY <2>5, <2>6 DEF FxTypeOK
<1>5. CASE FxIdle(fetch_valid, arready, rvalid)
  BY <1>5, <1>low DEF FxTypeOK, FxIdle
<1> QED
  BY <1>1, <1>2, <1>3, <1>4, <1>5 DEF FxClock

-----------------------------------------------------------------------------
(* Decoder and dispatcher.                                                 *)
LEMMA OpcodeTyped == \A w \in Word : OpcodesIn(w) \subseteq Opcodes
<1>1. SUFFICES ASSUME NEW w \in Word PROVE OpcodesIn(w) \subseteq Opcodes
  OBVIOUS
<1>2. w.id # 0 => OpcodesOf[w.id] \subseteq Opcodes
  BY TypesAssumption DEF TypesAssumption, Word, Ids
<1> QED
  BY <1>2 DEF OpcodesIn, Opcodes

LEMMA JobTyped == \A d \in Descriptor : JobIn(d) \in NpuJob
  BY DEF JobIn, NpuJob, Descriptor, DescBeats

LEMMA DecodeClockTyped ==
  ASSUME dec \in DecRegs,
         NEW en \in BOOLEAN, NEW desc_valid \in BOOLEAN,
         NEW desc_error \in BOOLEAN, NEW data \in Descriptor,
         DecodeClock(en, desc_valid, desc_error, data)
  PROVE  dec' \in DecRegs
BY IncTyped DEF DecodeClock, DecQuiet, DecGood, DecBad, DecRegs

LEMMA DispatchClockTyped ==
  ASSUME dec \in DecRegs, disp \in DispRegs,
         NEW en \in BOOLEAN, DispatchClock(en)
  PROVE  disp' \in DispRegs
<1>q. DispQuiet(disp) \in DispRegs
  BY DEF DispQuiet, DispRegs
<1>d. dec.desc \in Descriptor /\ dec.desc[0] \in Word
  BY DEF DecRegs, Descriptor, DescBeats
<1>o. OpcodesIn(dec.desc[0]) \subseteq Opcodes
  BY <1>d, OpcodeTyped
<1>1. CASE DispDisabled
  BY <1>1, <1>q, CountTyped DEF DispDisabled, DispRegs, Opcodes
<1>2. ASSUME NEW opcode \in OpcodesIn(dec.desc[0]), DispNpu(opcode)
      PROVE  disp' \in DispRegs
  <2>1. JobIn(dec.desc) \in NpuJob
    BY <1>d, JobTyped
  <2> QED
    BY <1>2, <1>q, <1>o, <2>1, IncTyped DEF DispNpu, DispRegs
<1>3. ASSUME NEW opcode \in OpcodesIn(dec.desc[0]), DispGpu(opcode)
      PROVE  disp' \in DispRegs
  <2>1. dec.desc[0].id \in Ids
    BY <1>d DEF Word
  <2> QED
    BY <1>3, <1>q, <1>o, <2>1, IncTyped DEF DispGpu, DispRegs
<1>4. ASSUME NEW opcode \in OpcodesIn(dec.desc[0]), DispError(opcode)
      PROVE  disp' \in DispRegs
  BY <1>4, <1>q, <1>o, IncTyped DEF DispError, DispRegs
<1>5. CASE disp' = DispQuiet(disp)
  BY <1>5, <1>q
<1> QED
  BY <1>1, <1>2, <1>3, <1>4, <1>5 DEF DispatchClock

LEMMA ArbClockTyped ==
  ASSUME ArbTypeOK,
         NEW desc_arvalid \in BOOLEAN, NEW npu_arvalid, NEW arready,
         NEW desc_rready, NEW npu_rready, NEW rvalid, NEW rlast,
         ArbClock(desc_arvalid, npu_arvalid, arready, desc_rready, npu_rready,
                  rvalid, rlast)
  PROVE  ArbTypeOK'
<1>1. CASE ArbGrant(desc_arvalid, npu_arvalid, arready)
  BY <1>1 DEF ArbTypeOK, ArbGrant, GrantDesc
<1>2. ASSUME NEW rready, ArbRelease(rready, rvalid, rlast)
      PROVE  ArbTypeOK'
  BY <1>2 DEF ArbTypeOK, ArbRelease
<1>3. CASE UNCHANGED arb
  BY <1>3 DEF ArbTypeOK
<1> QED
  BY <1>1, <1>2, <1>3 DEF ArbClock, ArbHold

-----------------------------------------------------------------------------
(* The payload fetch.                                                      *)
LEMMA OperandsTyped ==
  /\ MmioInputs \in Inputs /\ MmioWeights \in Weights
  /\ ZeroInputs \in Inputs /\ ZeroWeights \in Weights /\ Builtin \in Weights
  /\ ZeroJob \in NpuJob
  BY WordTyped DEF MmioInputs, MmioWeights, ZeroInputs, ZeroWeights, Builtin,
     Inputs, Weights, InputBeats, WeightBeats, ZeroJob, NpuJob

LEMMA PfResetTyped == PfReset \in PfRegs
  BY OperandsTyped, ZeroBeat DEF PfReset, PfRegs, PfStates

LEMMA PfClockTyped ==
  ASSUME PfTypeOK,
         NEW en \in BOOLEAN, NEW dispatch_valid \in BOOLEAN, NEW job \in NpuJob,
         NEW arready \in BOOLEAN, NEW rvalid \in BOOLEAN, NEW rdata \in Word,
         NEW rerror \in BOOLEAN, NEW rlast \in BOOLEAN,
         PfClock(en, dispatch_valid, job, arready, rvalid, rdata, rerror, rlast)
  PROVE  PfTypeOK'
<1> DEFINE edge == PfEveryEdge(dispatch_valid)
           more == ~rlast
<1>e. edge \in PfRegs
  <2> DEFINE dropped == dispatch_valid /\ pf.state # "IDLE"
  <2>1. (pf.error_sticky \/ dropped) \in BOOLEAN
    BY DEF PfTypeOK, PfRegs
  <2> QED
    BY <2>1 DEF PfTypeOK, PfRegs, PfEveryEdge
<1>f. /\ edge.inputs \in Inputs /\ edge.weights \in Weights
      /\ edge.beat_index \in 0..7 /\ edge.state \in PfStates
      /\ edge.burst_error \in BOOLEAN /\ edge.error_sticky \in BOOLEAN
      /\ pf.beat_index \in 0..7 /\ pf.burst_error \in BOOLEAN
  BY <1>e DEF PfRegs, PfTypeOK
<1>m. more \in BOOLEAN
  OBVIOUS
<1>n. (edge.beat_index + 1) % 8 \in 0..7
  BY <1>f
<1>1. CASE pf' = PfReset
  BY <1>1, PfResetTyped DEF PfTypeOK
<1>2. CASE PfAccept(dispatch_valid, job)
  <2> DEFINE next == [edge EXCEPT
                !.state = "INPUT_AR", !.job = job, !.inputs = MmioInputs,
                !.weights = MmioWeights, !.arvalid = TRUE, !.rready = FALSE,
                !.beat_index = 0, !.burst_error = FALSE]
  <2>1. pf' = next
    BY <1>2 DEF PfAccept
  <2>2. next \in PfRegs
    <3> HIDE DEF edge
    <3> QED
      BY <1>e, OperandsTyped, ZeroBeat, Zenon DEF PfRegs, PfStates
  <2> QED
    BY <2>1, <2>2 DEF PfTypeOK
<1>3. CASE PfIdle(dispatch_valid)
  <2> DEFINE next == [edge EXCEPT !.arvalid = FALSE, !.rready = FALSE,
                                  !.beat_index = 0, !.burst_error = FALSE]
  <2>1. pf' = next
    BY <1>3 DEF PfIdle
  <2>2. next \in PfRegs
    <3> HIDE DEF edge
    <3> QED
      BY <1>e, ZeroBeat, Zenon DEF PfRegs
  <2> QED
    BY <2>1, <2>2 DEF PfTypeOK
<1>4. CASE PfAddressTaken(dispatch_valid, arready)
  <2> DEFINE burst == IF pf.state = "INPUT_AR" THEN FALSE ELSE edge.burst_error
             state == IF pf.state = "INPUT_AR" THEN "INPUT_R" ELSE "WEIGHT_R"
             next == [edge EXCEPT !.arvalid = FALSE, !.rready = TRUE,
                        !.beat_index = 0, !.burst_error = burst, !.state = state]
  <2>1. pf' = next
    BY <1>4 DEF PfAddressTaken
  <2>2. burst \in BOOLEAN /\ state \in PfStates
    BY <1>f DEF PfStates
  <2>3. next \in PfRegs
    <3> HIDE DEF edge, burst, state
    <3> QED
      BY <1>e, <2>2, ZeroBeat, Zenon DEF PfRegs
  <2> QED
    BY <2>1, <2>3 DEF PfTypeOK
<1>5. CASE PfInputBeat(dispatch_valid, rvalid, rdata, rerror, rlast)
  <2> DEFINE inputs == IF pf.beat_index < InputBeats
                       THEN [edge.inputs EXCEPT ![pf.beat_index] = rdata]
                       ELSE edge.inputs
             burst == edge.burst_error \/ rerror
                        \/ (rlast /\ pf.beat_index # InputBeats-1)
             beat == IF rlast THEN 0 ELSE (edge.beat_index + 1) % 8
             state == IF rlast THEN "WEIGHT_AR" ELSE edge.state
             next == [edge EXCEPT !.inputs = inputs, !.burst_error = burst,
                        !.beat_index = beat, !.rready = more, !.arvalid = rlast,
                        !.state = state]
  <2>1. pf' = next
    BY <1>5 DEF PfInputBeat
  <2>2. inputs \in Inputs
    BY <1>f DEF Inputs, InputBeats
  <2>3. burst \in BOOLEAN
    BY <1>f
  <2>4. beat \in 0..7 /\ state \in PfStates
    BY <1>f, <1>n DEF PfStates
  <2>5. next \in PfRegs
    <3> HIDE DEF edge, inputs, burst, beat, state, more
    <3> QED
      BY <1>e, <1>m, <2>2, <2>3, <2>4, Zenon DEF PfRegs
  <2> QED
    BY <2>1, <2>5 DEF PfTypeOK
<1>6. CASE PfWeightBeat(dispatch_valid, rvalid, rdata, rerror, rlast)
  <2> DEFINE weights == IF pf.beat_index < WeightBeats
                        THEN [edge.weights EXCEPT ![pf.beat_index] = rdata]
                        ELSE edge.weights
             burst == edge.burst_error \/ rerror
             beat == IF rlast THEN edge.beat_index ELSE (edge.beat_index + 1) % 8
             sticky == edge.error_sticky
                         \/ (rlast /\ (pf.burst_error \/ rerror
                                       \/ pf.beat_index # WeightBeats-1))
             state == IF rlast THEN "IDLE" ELSE edge.state
             next == [edge EXCEPT !.weights = weights, !.burst_error = burst,
                        !.beat_index = beat, !.rready = more,
                        !.payload_valid = rlast, !.error_sticky = sticky,
                        !.state = state]
  <2>1. pf' = next
    BY <1>6 DEF PfWeightBeat
  <2>2. weights \in Weights
    BY <1>f DEF Weights, WeightBeats
  <2>3. burst \in BOOLEAN /\ sticky \in BOOLEAN
    BY <1>f
  <2>4. beat \in 0..7 /\ state \in PfStates
    BY <1>f, <1>n DEF PfStates
  <2>5. next \in PfRegs
    <3> HIDE DEF edge, weights, burst, beat, sticky, state, more
    <3> QED
      BY <1>e, <1>m, <2>2, <2>3, <2>4, Zenon DEF PfRegs
  <2> QED
    BY <2>1, <2>5 DEF PfTypeOK
<1>7. CASE PfWait(dispatch_valid, arready, rvalid)
  BY <1>7, <1>e DEF PfTypeOK, PfWait
<1> QED
  BY <1>1, <1>2, <1>3, <1>4, <1>5, <1>6, <1>7 DEF PfClock

-----------------------------------------------------------------------------
(* The execute stub and the NPU.                                           *)
LEMMA ExResetTyped == ExReset \in ExRegs
  BY CountTyped, WordTyped DEF ExReset, ExRegs, ExecStatus, StatusIdle

LEMMA ExClockTyped ==
  ASSUME ExTypeOK,
         NEW en \in BOOLEAN, NEW dispatch_valid \in BOOLEAN, NEW job \in NpuJob,
         NEW npu_busy \in BOOLEAN, NEW npu_done \in BOOLEAN,
         ExClock(en, dispatch_valid, job, npu_busy, npu_done)
  PROVE  ExTypeOK'
<1> DEFINE edge == ExEveryEdge(npu_busy, npu_done)
<1>x. /\ ex.exec_count \in 0..CountMod-1 /\ ex.last_model_id \in Word
      /\ ex.inflight \in BOOLEAN /\ ex.error_sticky \in BOOLEAN
      /\ ex.npu_model \in Word
      /\ job.output \in Word /\ job.model \in Word
  BY DEF ExTypeOK, ExRegs, NpuJob
<1>e. edge \in ExRegs
  <2> DEFINE status == ExecStatusWord(ex.exec_count, ex.last_model_id, ExFlags(npu_busy))
             request == ex.inflight /\ npu_done
             inflight == ex.inflight /\ ~npu_done
  <2>1. ExFlags(npu_busy) \in 0..7
    BY DEF ExFlags, StatusBusy, StatusError, StatusIdle
  <2>2. status \in ExecStatus
    BY <1>x, <2>1, CountTyped, WordTyped DEF ExecStatusWord, ExecStatus
  <2>3. request \in BOOLEAN /\ inflight \in BOOLEAN
    BY <1>x
  <2>4. edge = [ex EXCEPT !.npu_start_pulse = FALSE, !.exec_status = status,
                          !.store_request_pulse = request, !.inflight = inflight]
    BY DEF ExEveryEdge
  <2> HIDE DEF edge, status, request, inflight
  <2> QED
    BY <2>2, <2>3, <2>4, Zenon DEF ExTypeOK, ExRegs
<1>c. edge.exec_count \in 0..CountMod-1
  BY <1>e DEF ExRegs
<1>1. CASE ExDisabled
  BY <1>1, <1>x, ExResetTyped DEF ExTypeOK, ExDisabled, ExRegs
<1>2. CASE ExStart(dispatch_valid, job, npu_busy, npu_done)
  <2> DEFINE next == [edge EXCEPT
                !.last_output = job.output, !.last_model_id = job.model,
                !.npu_start_pulse = TRUE, !.npu_model = job.model,
                !.inflight = TRUE, !.exec_count = Inc(edge.exec_count)]
  <2>1. ex' = next
    BY <1>2 DEF ExStart
  <2>2. Inc(edge.exec_count) \in 0..CountMod-1
    BY <1>c, IncTyped
  <2>3. next \in ExRegs
    <3> HIDE DEF edge
    <3> QED
      BY <1>e, <1>x, <2>2, Zenon DEF ExRegs
  <2> QED
    BY <2>1, <2>3 DEF ExTypeOK
<1>3. CASE ExReject(dispatch_valid, job, npu_busy, npu_done)
  <2> DEFINE next == [edge EXCEPT !.last_output = job.output,
                                  !.last_model_id = job.model, !.error_sticky = TRUE]
  <2>1. ex' = next
    BY <1>3 DEF ExReject
  <2>2. next \in ExRegs
    <3> HIDE DEF edge
    <3> QED
      BY <1>e, <1>x, Zenon DEF ExRegs
  <2> QED
    BY <2>1, <2>2 DEF ExTypeOK
<1>4. CASE ex' = edge
  BY <1>4, <1>e DEF ExTypeOK
<1> QED
  BY <1>1, <1>2, <1>3, <1>4 DEF ExClock

LEMMA NpuClockTyped ==
  ASSUME NpuTypeOK,
         NEW start \in BOOLEAN, NEW model \in Word, NEW inputs \in Inputs,
         NEW weights \in Weights,
         NpuClock(start, model, inputs, weights)
  PROVE  NpuTypeOK'
<1> DEFINE NpuRegs == [busy : BOOLEAN, done : BOOLEAN, countdown : 0..NpuLatency,
                       model : Word, inputs : Inputs, result : Result]
<1>0. npu \in NpuRegs
  BY DEF NpuTypeOK
<1>1. CASE NpuStart(start, model, inputs)
  <2>1. NpuLatency \in 0..NpuLatency
    BY DEF NpuLatency
  <2>2. [npu EXCEPT !.busy = TRUE, !.done = FALSE, !.model = model,
                    !.inputs = inputs, !.countdown = NpuLatency] \in NpuRegs
    BY <1>0, <2>1, Zenon
  <2> QED
    BY <1>1, <2>2 DEF NpuTypeOK, NpuStart
<1>2. CASE NpuCount
  <2>1. npu.countdown - 1 \in 0..NpuLatency
    BY <1>0, <1>2 DEF NpuCount, NpuLatency
  <2>2. [npu EXCEPT !.countdown = npu.countdown - 1, !.done = FALSE] \in NpuRegs
    BY <1>0, <2>1, Zenon
  <2> QED
    BY <1>2, <2>2 DEF NpuTypeOK, NpuCount
<1>3. CASE NpuFinish(weights)
  <2> DEFINE result == [model |-> npu.model, inputs |-> npu.inputs,
                        weights |-> IF IsRuntime(npu.model) THEN weights ELSE Builtin]
  <2>1. result \in Result
    BY <1>0, OperandsTyped DEF Result
  <2>2. npu' = [npu EXCEPT !.busy = FALSE, !.done = TRUE, !.result = result]
    BY <1>3 DEF NpuFinish
  <2>3. [npu EXCEPT !.busy = FALSE, !.done = TRUE, !.result = result] \in NpuRegs
    <3> HIDE DEF result
    <3> QED
      BY <1>0, <2>1, Zenon
  <2> QED
    BY <2>2, <2>3 DEF NpuTypeOK
<1>4. CASE NpuIdle(start)
  BY <1>0, <1>4 DEF NpuTypeOK, NpuIdle
<1> QED
  BY <1>1, <1>2, <1>3, <1>4 DEF NpuClock

LEMMA MuxTyped ==
  ASSUME ExTypeOK, PfTypeOK
  PROVE  MuxModel \in Word /\ MuxInputs \in Inputs /\ MuxWeights \in Weights
BY WordTyped, OperandsTyped DEF ExTypeOK, ExRegs, PfTypeOK, PfRegs, MuxModel,
   MuxInputs, MuxWeights

-----------------------------------------------------------------------------
(* The result store.                                                       *)
LEMMA ZeroResultTyped == ZeroResult \in Result
  BY WordTyped, OperandsTyped DEF ZeroResult, Result

LEMMA StResetTyped == StReset \in StRegs
  BY ZeroResultTyped, ZeroBeat, WordTyped, CountTyped DEF StReset, StRegs

LEMMA StClockTyped ==
  ASSUME StTypeOK,
         NEW en \in BOOLEAN, NEW request \in BOOLEAN, NEW output \in Word,
         NEW result \in Result, NEW awready \in BOOLEAN, NEW wready \in BOOLEAN,
         NEW bvalid \in BOOLEAN, NEW berror \in BOOLEAN,
         StClock(en, request, output, result, awready, wready, bvalid, berror)
  PROVE  StTypeOK'
<1> DEFINE edge == StEveryEdge(request)
<1>s. st \in StRegs
  BY DEF StTypeOK
<1>e. edge \in StRegs
  <2> DEFINE dropped == request /\ st.state # "IDLE"
  <2>1. (st.error_sticky \/ dropped) \in BOOLEAN
    BY <1>s DEF StRegs
  <2> QED
    BY <1>s, <2>1 DEF StRegs, StEveryEdge
<1>f. /\ st.beat_index \in 0..7 /\ edge.beat_index \in 0..7
      /\ st.store_count \in 0..CountMod-1 /\ edge.error_sticky \in BOOLEAN
  BY <1>s, <1>e DEF StRegs
<1>1. CASE st' = StReset
  BY <1>1, StResetTyped DEF StTypeOK
<1>2. CASE StAccept(request, output, result)
  <2> DEFINE next == [st EXCEPT !.state = "AW", !.beat_index = 0, !.output = output,
                      !.result = result, !.awvalid = TRUE, !.wvalid = FALSE,
                      !.wlast = FALSE, !.bready = FALSE,
                      !.store_count = Inc(st.store_count)]
  <2>1. Inc(st.store_count) \in 0..CountMod-1
    BY <1>f, IncTyped
  <2>2. next \in StRegs
    BY <1>s, <2>1, ZeroBeat, Zenon DEF StRegs
  <2> QED
    BY <1>2, <2>2 DEF StTypeOK, StAccept
<1>3. CASE StIdle(request)
  BY <1>3, <1>s, ZeroBeat, Zenon DEF StTypeOK, StIdle, StRegs
<1>4. CASE StAddressTaken(request, awready)
  <2> DEFINE next == [edge EXCEPT !.state = "W", !.awvalid = FALSE,
                        !.wvalid = TRUE, !.wword = 0, !.wlast = FALSE, !.beat_index = 0]
  <2>1. next \in StRegs
    <3> HIDE DEF edge
    <3> QED
      BY <1>e, ZeroBeat, Zenon DEF StRegs
  <2> QED
    BY <1>4, <2>1 DEF StTypeOK, StAddressTaken
<1>5. CASE StBeat(request, wready)
  <2> DEFINE beat == (edge.beat_index + 1) % 8
             word == IF st.beat_index + 1 < OutBeats THEN st.beat_index + 1
                                                     ELSE OutBeats-1
             last == st.beat_index = OutBeats-2
             next == [edge EXCEPT !.beat_index = beat, !.wword = word, !.wlast = last]
  <2>1. st' = next
    BY <1>5 DEF StBeat
  <2>2. beat \in 0..7 /\ word \in 0..OutBeats-1 /\ last \in BOOLEAN
    BY <1>f DEF OutBeats
  <2>3. next \in StRegs
    <3> HIDE DEF edge, beat, word, last
    <3> QED
      BY <1>e, <2>2, Zenon DEF StRegs
  <2> QED
    BY <2>1, <2>3 DEF StTypeOK
<1>6. CASE StLastBeat(request, wready)
  <2> DEFINE next == [edge EXCEPT !.state = "B", !.wvalid = FALSE,
                                  !.wlast = FALSE, !.bready = TRUE]
  <2>1. next \in StRegs
    <3> HIDE DEF edge
    <3> QED
      BY <1>e, Zenon DEF StRegs
  <2> QED
    BY <1>6, <2>1 DEF StTypeOK, StLastBeat
<1>7. CASE StResponse(request, bvalid, berror)
  <2> DEFINE sticky == edge.error_sticky \/ berror
             next == [edge EXCEPT !.state = "IDLE", !.bready = FALSE,
                                  !.error_sticky = sticky]
  <2>1. st' = next
    BY <1>7 DEF StResponse
  <2>2. sticky \in BOOLEAN
    BY <1>f
  <2>3. next \in StRegs
    <3> HIDE DEF edge, sticky
    <3> QED
      BY <1>e, <2>2, Zenon DEF StRegs
  <2> QED
    BY <2>1, <2>3 DEF StTypeOK
<1>8. CASE StWait(request, awready, wready, bvalid)
  BY <1>8, <1>e DEF StTypeOK, StWait
<1> QED
  BY <1>1, <1>2, <1>3, <1>4, <1>5, <1>6, <1>7, <1>8 DEF StClock

-----------------------------------------------------------------------------
(* The GPU.                                                                *)
LEMMA GpuClockTyped ==
  ASSUME GpuTypeOK, NEW cmd_valid, NEW opcode, GpuClock(cmd_valid, opcode)
  PROVE  GpuTypeOK'
<1> DEFINE GpuRegs == [busy : BOOLEAN, frame_done : BOOLEAN,
                       mode : {"IDLE", "CLEAR", "DRAW_TRI"}, left : Nat,
                       triangles_drawn : 0..CountMod-1, frame_counter : 0..CountMod-1]
<1>0. /\ gpu \in GpuRegs /\ gpu.left \in Nat
      /\ gpu.frame_counter \in 0..CountMod-1 /\ gpu.triangles_drawn \in 0..CountMod-1
  BY DEF GpuTypeOK
<1>1. CASE GpuStart(cmd_valid, opcode)
  <2>1. opcode \in {"IDLE", "CLEAR", "DRAW_TRI"}
    BY <1>1 DEF GpuStart, GpuTakes
  <2>2. PICK n \in IF opcode = "CLEAR" THEN {FbRows} ELSE BoxSizes :
          gpu' = [gpu EXCEPT !.busy = TRUE, !.frame_done = FALSE,
                             !.mode = opcode, !.left = n]
    BY <1>1 DEF GpuStart
  <2>3. n \in Nat
    BY <2>2, GpuAssumption DEF GpuAssumption
  <2>4. [gpu EXCEPT !.busy = TRUE, !.frame_done = FALSE,
                    !.mode = opcode, !.left = n] \in GpuRegs
    BY <1>0, <2>1, <2>3, Zenon
  <2> QED
    BY <2>2, <2>4 DEF GpuTypeOK
<1>2. CASE GpuIdle(cmd_valid, opcode)
  BY <1>0, <1>2 DEF GpuTypeOK, GpuIdle
<1>3. CASE GpuWork
  <2>1. gpu.left - 1 \in Nat
    BY <1>0, <1>3 DEF GpuWork
  <2> QED
    BY <1>0, <1>3, <2>1 DEF GpuTypeOK, GpuWork
<1>4. CASE GpuEnd
  <2> DEFINE drawn == IF gpu.mode = "DRAW_TRI" THEN Inc(gpu.triangles_drawn)
                                               ELSE gpu.triangles_drawn
             next == [gpu EXCEPT !.busy = FALSE, !.mode = "IDLE", !.left = 0,
                        !.frame_done = TRUE,
                        !.frame_counter = Inc(gpu.frame_counter),
                        !.triangles_drawn = drawn]
  <2>1. gpu' = next
    BY <1>4 DEF GpuEnd
  <2>2. /\ drawn \in 0..CountMod-1 /\ Inc(gpu.frame_counter) \in 0..CountMod-1
        /\ 0 \in Nat
    BY <1>0, IncTyped
  <2>3. next \in GpuRegs
    <3> HIDE DEF drawn
    <3> QED
      BY <1>0, <2>2, Zenon
  <2> QED
    BY <2>1, <2>3 DEF GpuTypeOK
<1> QED
  BY <1>1, <1>2, <1>3, <1>4 DEF GpuClock

-----------------------------------------------------------------------------
(* The register file, and the software that writes it.                     *)
LEMMA RegsEdgeTyped ==
  ASSUME RegsTypeOK, NEW nd \in BOOLEAN, NEW gd \in BOOLEAN
  PROVE  RegsEveryEdge(nd, gd) \in RegFile
<1> DEFINE npu_sticky == regs.npu_done_sticky \/ nd
           gpu_sticky == regs.gpu_done_sticky \/ gd
           next == [regs EXCEPT !.npu_start_pulse = FALSE, !.gpu_cmd_pulse = FALSE,
                      !.npu_done_sticky = npu_sticky, !.gpu_done_sticky = gpu_sticky]
<1>1. npu_sticky \in BOOLEAN /\ gpu_sticky \in BOOLEAN
  BY DEF RegsTypeOK, RegFile
<1>2. next \in RegFile
  <2> HIDE DEF npu_sticky, gpu_sticky
  <2> QED
    BY <1>1, Zenon DEF RegsTypeOK, RegFile
<1> QED
  BY <1>2 DEF RegsEveryEdge

LEMMA WritesTyped ==
  ASSUME RegsTypeOK, NEW nd \in BOOLEAN, NEW gd \in BOOLEAN
  PROVE  /\ NoWrite(nd, gd) => RegsTypeOK'
         /\ \A n, g \in BOOLEAN : WriteControl(n, g, nd, gd) => RegsTypeOK'
         /\ \A n, g \in BOOLEAN : WriteStatus(n, g, nd, gd) => RegsTypeOK'
         /\ \A o \in {"CLEAR", "DRAW_TRI"} : WriteGpuCmd(o, nd, gd) => RegsTypeOK'
         /\ \A e \in BOOLEAN : WriteCmdqEnable(e, nd, gd) => RegsTypeOK'
         /\ \A v \in Slots : WriteHead(v, nd, gd) => RegsTypeOK'
         /\ \A v \in Slots : WriteTail(v, nd, gd) => RegsTypeOK'
         /\ \A v \in Nat : WriteDoorbell(v, nd, gd) => RegsTypeOK'
<1> DEFINE edge == RegsEveryEdge(nd, gd)
<1>e. edge \in RegFile
  BY RegsEdgeTyped
<1>1. NoWrite(nd, gd) => RegsTypeOK'
  BY <1>e DEF NoWrite, RegsTypeOK
<1>2. ASSUME NEW n \in BOOLEAN, NEW g \in BOOLEAN
      PROVE  [edge EXCEPT !.npu_start_pulse = n, !.gpu_cmd_pulse = g] \in RegFile
  BY <1>e, Zenon DEF RegFile
<1>3. ASSUME NEW n \in BOOLEAN, NEW g \in BOOLEAN, WriteStatus(n, g, nd, gd)
      PROVE  RegsTypeOK'
  <2> DEFINE npu_sticky == edge.npu_done_sticky /\ ~n
             gpu_sticky == edge.gpu_done_sticky /\ ~g
             next == [edge EXCEPT !.npu_done_sticky = npu_sticky,
                                  !.gpu_done_sticky = gpu_sticky]
  <2>1. npu_sticky \in BOOLEAN /\ gpu_sticky \in BOOLEAN
    BY <1>e DEF RegFile
  <2>2. next \in RegFile
    <3> HIDE DEF edge, npu_sticky, gpu_sticky
    <3> QED
      BY <1>e, <2>1, Zenon DEF RegFile
  <2> QED
    BY <1>3, <2>2 DEF WriteStatus, RegsTypeOK
<1>4. /\ \A o \in {"CLEAR", "DRAW_TRI"} : [edge EXCEPT !.gpu_cmd_opcode = o] \in RegFile
      /\ \A e \in BOOLEAN : [edge EXCEPT !.cmdq_enable = e] \in RegFile
      /\ \A v \in Slots : [edge EXCEPT !.cmdq_head = v] \in RegFile
      /\ \A v \in Slots : [edge EXCEPT !.cmdq_tail = v] \in RegFile
      /\ \A v \in Nat : [edge EXCEPT !.cmdq_doorbell = v] \in RegFile
  BY <1>e, Zenon DEF RegFile
<1> HIDE DEF edge
<1>5. /\ \A n, g \in BOOLEAN : WriteControl(n, g, nd, gd) => RegsTypeOK'
      /\ \A o \in {"CLEAR", "DRAW_TRI"} : WriteGpuCmd(o, nd, gd) => RegsTypeOK'
      /\ \A e \in BOOLEAN : WriteCmdqEnable(e, nd, gd) => RegsTypeOK'
  BY <1>2, <1>4, Zenon DEF WriteControl, WriteGpuCmd, WriteCmdqEnable, RegsTypeOK, edge
<1>6. /\ \A v \in Slots : WriteHead(v, nd, gd) => RegsTypeOK'
      /\ \A v \in Slots : WriteTail(v, nd, gd) => RegsTypeOK'
      /\ \A v \in Nat : WriteDoorbell(v, nd, gd) => RegsTypeOK'
  BY <1>4, Zenon DEF WriteHead, WriteTail, WriteDoorbell, RegsTypeOK, edge
<1> QED
  BY <1>1, <1>3, <1>5, <1>6, Zenon

HostRegs ==
  [pc : {"idle", "pushing", "doorbell", "reset_head", "reset_tail", "reset_doorbell",
        "forward"},
   cached_head : Slots, cached_tail : Slots, pushed : Ids,
   exposed : Ids, resets : 0..MaxResets, disables : 0..MaxDisables]

LEMMA HostClockTyped ==
  ASSUME RegsTypeOK, HostTypeOK,
         NEW shadow \in Slots, NEW nb, NEW gb,
         NEW nd \in BOOLEAN, NEW gd \in BOOLEAN,
         HostClock(shadow, nb, gb, nd, gd)
  PROVE  RegsTypeOK' /\ HostTypeOK'
<1>0. /\ host \in HostRegs /\ ring \in [Slots -> Slot]
      /\ host.pc = "pushing" => host.pushed < Jobs
      /\ direct \in [pc : DirectPcs, starts : 0..MaxDirect]
  BY DEF HostTypeOK, HostRegs
<1>1. /\ host.cached_head \in Slots /\ host.cached_tail \in Slots
      /\ host.pushed \in 0..Jobs /\ host.exposed \in Ids /\ host.pushed \in Ids
      /\ host.resets \in 0..MaxResets /\ host.disables \in 0..MaxDisables
      /\ regs.cmdq_head \in Slots /\ regs.cmdq_tail \in Slots
      /\ NextSlot(host.cached_head) \in Slots
  BY <1>0, SlotTyped DEF HostRegs, Ids, RegsTypeOK, RegFile, NextSlot
<1>a. 0 \in Slots /\ EmptySlot \in Slot
  BY SlotTyped, TypesAssumption DEF EmptySlot, Slot, Ids, TypesAssumption
<1>same. UNCHANGED <<host, ring, direct>> => HostTypeOK'
  BY DEF HostTypeOK
<1>lib. ASSUME host' \in HostRegs, host'.pc # "pushing",
               ring' \in [Slots -> Slot], UNCHANGED direct
        PROVE  HostTypeOK'
  BY <1>lib, <1>0 DEF HostTypeOK, HostRegs
<1>1a. CASE HostQuiet(nd, gd)
  BY <1>1a, <1>same, WritesTyped DEF HostQuiet
<1>2. CASE HostPush(nd, gd)
  <2>1. RegsTypeOK'
    BY <1>2, WritesTyped DEF HostPush
  <2>2. /\ host' = [host EXCEPT !.pc = "pushing"] /\ host.pushed < Jobs
        /\ ring' = [ring EXCEPT ![host.cached_head].lo = host.pushed + 1]
        /\ direct' = direct
    BY <1>2 DEF HostPush
  <2>3. host.pushed + 1 \in Ids
    BY <1>1, <2>2, TypesAssumption DEF Ids, TypesAssumption
  <2>4. ring' \in [Slots -> Slot]
    BY <1>0, <1>1, <2>2, <2>3 DEF Slot
  <2>5. host' \in HostRegs
    BY <1>0, <2>2 DEF HostRegs
  <2>6. host'.pushed < Jobs
    BY <1>0, <2>2 DEF HostRegs
  <2> QED
    BY <1>0, <2>1, <2>2, <2>4, <2>5, <2>6 DEF HostTypeOK, HostRegs
<1>3. CASE HostPushed(nd, gd)
  <2>1. RegsTypeOK'
    BY <1>3, WritesTyped DEF HostPushed
  <2>2. /\ host.pc = "pushing"
        /\ host' = [host EXCEPT !.pc = "idle",
                      !.cached_head = NextSlot(host.cached_head),
                      !.pushed = host.pushed + 1]
        /\ ring' = [ring EXCEPT ![host.cached_head].hi = host.pushed + 1]
        /\ direct' = direct
    BY <1>3 DEF HostPushed
  <2>3. host.pushed + 1 \in Ids
    BY <1>0, <1>1, <2>2, TypesAssumption DEF Ids, TypesAssumption
  <2>4. ring' \in [Slots -> Slot]
    BY <1>0, <1>1, <2>2, <2>3 DEF Slot
  <2>5. host' \in HostRegs /\ host'.pc = "idle"
    BY <1>0, <1>1, <2>2, <2>3, Zenon DEF HostRegs
  <2> QED
    BY <1>lib, <2>1, <2>2, <2>4, <2>5
<1>4. CASE HostSubmitHead(nd, gd)
  <2>1. RegsTypeOK'
    BY <1>1, <1>4, WritesTyped DEF HostSubmitHead
  <2>2. host' \in HostRegs /\ host'.pc = "doorbell"
    BY <1>0, <1>1, <1>4, Zenon DEF HostSubmitHead, HostRegs
  <2> QED
    BY <1>0, <1>4, <1>lib, <2>1, <2>2 DEF HostSubmitHead
<1>5. ASSUME NEW v \in Doorbells, HostSubmitDoorbell(v, nd, gd)
      PROVE  RegsTypeOK' /\ HostTypeOK'
  <2>1. v \in Nat
    BY HostAssumption DEF HostAssumption
  <2>2. RegsTypeOK'
    BY <1>5, <2>1, WritesTyped DEF HostSubmitDoorbell
  <2>3. host' \in HostRegs /\ host'.pc = "idle"
    BY <1>0, <1>5, Zenon DEF HostSubmitDoorbell, HostRegs
  <2> QED
    BY <1>0, <1>5, <1>lib, <2>2, <2>3 DEF HostSubmitDoorbell
<1>6. CASE HostSync(nd, gd)
  <2>1. RegsTypeOK'
    BY <1>6, WritesTyped DEF HostSync
  <2>2. host' = [host EXCEPT !.cached_head = regs.cmdq_head,
                  !.cached_tail = regs.cmdq_tail, !.pushed = host.exposed]
    BY <1>6 DEF HostSync
  <2>3. host' \in HostRegs
    BY <1>0, <1>1, <2>2, Zenon DEF HostRegs
  <2>4. host'.pc # "pushing"
    BY <1>0, <1>6, <2>2 DEF HostSync, HostRegs
  <2> QED
    BY <1>0, <1>6, <1>lib, <2>1, <2>3, <2>4 DEF HostSync
<1>7. CASE HostReset(nd, gd)
  <2>1. RegsTypeOK'
    BY <1>7, <1>a, WritesTyped DEF HostReset
  <2>2. /\ host' = [host EXCEPT !.pc = "reset_head", !.cached_head = 0,
                      !.cached_tail = 0, !.resets = host.resets + 1]
        /\ host.resets < MaxResets
        /\ ring' = [s \in Slots |-> EmptySlot] /\ direct' = direct
    BY <1>7 DEF HostReset
  <2>3. host.resets + 1 \in 0..MaxResets
    BY <1>1, <2>2, HostAssumption DEF HostAssumption
  <2>4. host' \in HostRegs /\ host'.pc = "reset_head"
    BY <1>0, <1>1, <1>a, <2>2, <2>3, Zenon DEF HostRegs
  <2>5. ring' \in [Slots -> Slot]
    BY <1>a, <2>2
  <2> QED
    BY <1>lib, <2>1, <2>2, <2>4, <2>5
<1>7a. CASE HostResetHead(nd, gd)
  <2>1. RegsTypeOK'
    BY <1>7a, <1>a, WritesTyped DEF HostResetHead
  <2>2. host' = [host EXCEPT !.pc = "reset_tail", !.exposed = host.pushed]
    BY <1>7a DEF HostResetHead
  <2>3. host' \in HostRegs /\ host'.pc = "reset_tail"
    BY <1>0, <1>1, <2>2, Zenon DEF HostRegs
  <2> QED
    BY <1>0, <1>7a, <1>lib, <2>1, <2>3 DEF HostResetHead
<1>8. CASE HostResetTail(nd, gd)
  <2>1. RegsTypeOK'
    BY <1>8, <1>a, WritesTyped DEF HostResetTail
  <2>2. host' \in HostRegs /\ host'.pc = "reset_doorbell"
    BY <1>0, <1>8, Zenon DEF HostResetTail, HostRegs
  <2> QED
    BY <1>0, <1>8, <1>lib, <2>1, <2>2 DEF HostResetTail
<1>9. CASE HostResetDoorbell(nd, gd)
  <2>1. RegsTypeOK'
    BY <1>9, WritesTyped DEF HostResetDoorbell
  <2>2. host' \in HostRegs /\ host'.pc = "idle"
    BY <1>0, <1>9, Zenon DEF HostResetDoorbell, HostRegs
  <2> QED
    BY <1>0, <1>9, <1>lib, <2>1, <2>2 DEF HostResetDoorbell
<1>10. CASE HostReadShadow(shadow, nd, gd)
  <2>1. RegsTypeOK'
    BY <1>10, WritesTyped DEF HostReadShadow
  <2>2. host' \in HostRegs /\ host'.pc = "forward"
    BY <1>0, <1>10, Zenon DEF HostReadShadow, HostRegs
  <2> QED
    BY <1>0, <1>10, <1>lib, <2>1, <2>2 DEF HostReadShadow
<1>11. CASE HostForwardTail(nd, gd)
  <2>1. RegsTypeOK'
    BY <1>1, <1>11, WritesTyped DEF HostForwardTail
  <2>2. host' \in HostRegs /\ host'.pc = "idle"
    BY <1>0, <1>11, Zenon DEF HostForwardTail, HostRegs
  <2> QED
    BY <1>0, <1>11, <1>lib, <2>1, <2>2 DEF HostForwardTail
<1>12. CASE HostEnable(nd, gd)
  BY <1>12, <1>same, WritesTyped DEF HostEnable
<1>13. CASE HostDisable(nd, gd)
  <2>1. RegsTypeOK'
    BY <1>13, WritesTyped DEF HostDisable
  <2>2. /\ host' = [host EXCEPT !.disables = host.disables + 1]
        /\ host.pc = "idle" /\ host.disables < MaxDisables
        /\ ring' = ring /\ direct' = direct
    BY <1>13 DEF HostDisable
  <2>3. host.disables + 1 \in 0..MaxDisables
    BY <1>1, <2>2, HostAssumption DEF HostAssumption
  <2>4. host' \in HostRegs
    BY <1>0, <2>2, <2>3, Zenon DEF HostRegs
  <2>5. host'.pc # "pushing"
    BY <1>0, <2>2 DEF HostRegs
  <2> QED
    BY <1>0, <1>lib, <2>1, <2>2, <2>4, <2>5
<1>d. ASSUME direct' \in [pc : DirectPcs, starts : 0..MaxDirect],
             UNCHANGED <<host, ring>>
      PROVE  HostTypeOK'
  BY <1>d DEF HostTypeOK
<1>14. ASSUME NEW o \in {"CLEAR", "DRAW_TRI"}, DirectGpuCmd(o, nd, gd)
       PROVE  RegsTypeOK' /\ HostTypeOK'
  BY <1>0, <1>14, <1>d, WritesTyped DEF DirectGpuCmd, DirectPcs
<1>15. ASSUME NEW unit \in {"npu", "gpu"}, DirectStart(unit, nd, gd)
       PROVE  RegsTypeOK' /\ HostTypeOK'
  <2>1. (unit = "npu") \in BOOLEAN /\ (unit = "gpu") \in BOOLEAN
    OBVIOUS
  <2>2. RegsTypeOK'
    BY <1>15, <2>1, WritesTyped DEF DirectStart
  <2>3. direct.starts + 1 \in 0..MaxDirect
    BY <1>0, <1>15, HostAssumption DEF HostAssumption, DirectStart
  <2> QED
    BY <1>15, <1>d, <2>2, <2>3 DEF DirectStart, DirectPcs
<1>16. CASE DirectSeen(nb, gb, nd, gd)
  <2>1. RegsTypeOK'
    BY <1>16, WritesTyped DEF DirectSeen
  <2>2. direct' \in [pc : DirectPcs, starts : 0..MaxDirect]
    BY <1>0, <1>16 DEF DirectSeen, DirectPcs
  <2> QED
    BY <1>16, <1>d, <2>1, <2>2 DEF DirectSeen
<1>17. CASE DirectClear(nd, gd)
  <2>1. (direct.pc = "npu_seen") \in BOOLEAN /\ (direct.pc = "gpu_seen") \in BOOLEAN
    OBVIOUS
  <2>2. RegsTypeOK'
    BY <1>17, <2>1, WritesTyped DEF DirectClear
  <2>3. direct' \in [pc : DirectPcs, starts : 0..MaxDirect]
    BY <1>0, <1>17 DEF DirectClear, DirectPcs
  <2> QED
    BY <1>17, <1>d, <2>2, <2>3 DEF DirectClear
<1> QED
  BY <1>1a, <1>2, <1>3, <1>4, <1>5, <1>6, <1>7, <1>7a, <1>8, <1>9, <1>10, <1>11, <1>12,
     <1>13, <1>14, <1>15, <1>16, <1>17
     DEF HostClock, LibraryStep, ClientStep, DirectStep

-----------------------------------------------------------------------------
(* The memory port.                                                        *)
RdRegs == [busy : BOOLEAN, addr : Address, beat : 0..7, rvalid : BOOLEAN,
           rdata : Word, rerror : BOOLEAN, errors : 0..MaxErrors]

LEMMA BurstLenBounds == \A a \in Address : BurstLen(a) \in 1..8
  BY DEF Address, BurstLen, DescBeats, InputBeats, WeightBeats

LEMMA FetchedTyped ==
  ASSUME ring \in [Slots -> Slot], NEW a \in Address, NEW b \in 0..7
  PROVE  Fetched(a, b) \in Word
<1>1. CASE a.buf = "desc"
  <2>1. a.at \in Slots
    BY <1>1 DEF Address
  <2>2. ring[a.at].lo \in Ids /\ ring[a.at].hi \in Ids
    BY <2>1 DEF Slot
  <2> QED
    BY <1>1, <2>2, WordTyped DEF Fetched, SlotWord
<1>2. CASE a.buf # "desc"
  <2>1. a.at \in Ids /\ a.buf \in {"input", "weight"}
    BY <1>2 DEF Address
  <2> QED
    BY <1>2, <2>1, WordTyped DEF Fetched
<1> QED
  BY <1>1, <1>2

LEMMA RdClockTyped ==
  ASSUME rd \in RdRegs, rd.beat < BurstLen(rd.addr), ring \in [Slots -> Slot],
         NEW arvalid \in BOOLEAN, NEW addr \in Address, NEW arready \in BOOLEAN,
         NEW rready \in BOOLEAN,
         RdClock(arvalid, addr, arready, rready)
  PROVE  rd' \in RdRegs /\ rd'.beat < BurstLen(rd'.addr)
<1>0. /\ rd.addr \in Address /\ rd.beat \in 0..7 /\ rd.errors \in 0..MaxErrors
      /\ BurstLen(rd.addr) \in 1..8 /\ BurstLen(addr) \in 1..8
  BY BurstLenBounds DEF RdRegs
<1>s. ASSUME NEW b \in 0..7, b < BurstLen(rd.addr), Showing(b)
      PROVE  rd' \in RdRegs /\ rd'.beat < BurstLen(rd'.addr)
  <2>1. CASE rd' = Shown(b, Fetched(rd.addr, b), FALSE)
    <3> DEFINE w == Fetched(rd.addr, b)
    <3>1. w \in Word
      BY <1>0, FetchedTyped
    <3>2. rd' = [rd EXCEPT !.beat = b, !.rvalid = TRUE, !.rdata = w,
                           !.rerror = FALSE, !.errors = rd.errors]
      BY <2>1 DEF Shown
    <3> HIDE DEF w
    <3>3. rd' \in RdRegs
      BY <1>0, <3>1, <3>2, Zenon DEF RdRegs
    <3>4. rd'.beat = b /\ rd'.addr = rd.addr
      BY <3>2, Zenon DEF RdRegs
    <3> QED
      BY <1>s, <3>3, <3>4
  <2>2. CASE rd.errors < MaxErrors /\ rd' = Shown(b, Junk, TRUE)
    <3>1. rd.errors + 1 \in 0..MaxErrors
      BY <1>0, <2>2, PortAssumption DEF PortAssumption
    <3>2. rd' = [rd EXCEPT !.beat = b, !.rvalid = TRUE, !.rdata = Junk,
                           !.rerror = TRUE, !.errors = rd.errors + 1]
      BY <2>2 DEF Shown
    <3>3. rd' \in RdRegs
      BY <1>0, <3>1, <3>2, WordTyped, Zenon DEF RdRegs
    <3>4. rd'.beat = b /\ rd'.addr = rd.addr
      BY <3>2, Zenon DEF RdRegs
    <3> QED
      BY <1>s, <3>3, <3>4
  <2> QED
    BY <1>s, <2>1, <2>2 DEF Showing
<1>1. CASE RdAccept(arvalid, addr, arready)
  <2>1. rd' \in RdRegs /\ rd'.beat = 0 /\ rd'.addr = addr
    BY <1>1, ZeroBeat, Zenon DEF RdAccept, RdRegs
  <2> QED
    BY <1>0, <2>1
<1>2. CASE RdPresent
  BY <1>0, <1>2, <1>s DEF RdPresent
<1>3. CASE RdNext(rready)
  <2>1. rd.beat + 1 \in 0..7 /\ rd.beat + 1 < BurstLen(rd.addr)
    BY <1>0, <1>3 DEF RdNext, Rlast
  <2>2. CASE Showing(rd.beat + 1)
    BY <1>s, <2>1, <2>2
  <2>3. CASE rd' = [rd EXCEPT !.beat = @ + 1, !.rvalid = FALSE]
    <3>1. rd' \in RdRegs /\ rd'.beat = rd.beat + 1 /\ rd'.addr = rd.addr
      BY <2>1, <2>3, Zenon DEF RdRegs
    <3> QED
      BY <2>1, <3>1
  <2> QED
    BY <1>3, <2>2, <2>3 DEF RdNext
<1>4. CASE RdLast(rready)
  <2>1. rd' \in RdRegs /\ rd'.beat = rd.beat /\ rd'.addr = rd.addr
    BY <1>4, Zenon DEF RdLast, RdRegs
  <2> QED
    BY <2>1
<1>5. CASE RdHold(arvalid, arready, rready)
  BY <1>5 DEF RdHold
<1> QED
  BY <1>1, <1>2, <1>3, <1>4, <1>5 DEF RdClock

WrRegs == [busy : BOOLEAN, addr : Word, beat : 0..OutBeats,
           bvalid : BOOLEAN, berror : BOOLEAN]

StoredWord == [result : Result, word : 0..OutBeats]

LEMMA WrClockTyped ==
  ASSUME wr \in WrRegs, outmem \in [Ids -> [0..OutBeats-1 -> StoredWord]],
         NEW awvalid, NEW addr \in Word, NEW awready, NEW wvalid, NEW wready,
         wready => wr.beat < OutBeats,
         NEW result \in Result, NEW word \in 0..OutBeats-1, NEW bready,
         WrClock(awvalid, addr, awready, wvalid, wready, result, word, bready)
  PROVE  wr' \in WrRegs /\ outmem' \in [Ids -> [0..OutBeats-1 -> StoredWord]]
<1>1. CASE WrAccept(awvalid, addr, awready)
  BY <1>1, ZeroBeat, Zenon DEF WrAccept, WrRegs
<1>2. CASE WrWord(wvalid, wready, result, word)
  <2>1. /\ wr.beat \in 0..OutBeats-1 /\ wr.beat + 1 \in 0..OutBeats
        /\ wr.addr.id \in Ids /\ word \in 0..OutBeats
    BY <1>2 DEF WrWord, WrRegs, OutBeats, Word
  <2>2. wr' \in WrRegs
    BY <1>2, <2>1, Zenon DEF WrWord, WrRegs
  <2>3. [result |-> result, word |-> word] \in StoredWord
    BY <2>1 DEF StoredWord
  <2>4. outmem' = [outmem EXCEPT ![wr.addr.id] =
                     [outmem[wr.addr.id] EXCEPT ![wr.beat] =
                        [result |-> result, word |-> word]]]
    BY <1>2 DEF WrWord
  <2>5. outmem[wr.addr.id] \in [0..OutBeats-1 -> StoredWord]
    BY <2>1
  <2> QED
    BY <2>1, <2>2, <2>3, <2>4, <2>5, Zenon
<1>3. CASE WrRespond
  BY <1>3, Zenon DEF WrRespond, WrRegs
<1>4. CASE WrDone(bready)
  BY <1>4, Zenon DEF WrDone, WrRegs
<1>5. CASE WrHold(awvalid, awready, wvalid, wready, bready)
  BY <1>5 DEF WrHold
<1> QED
  BY <1>1, <1>2, <1>3, <1>4, <1>5 DEF WrClock

(* The history.                                                            *)
LEMMA HistClockTyped ==
  ASSUME fx \in FxRegs, hist \in Seq(Ids), HistClock
  PROVE  hist' \in Seq(Ids)
<1>1. fx.desc_data[0] \in Word
  BY DEF FxRegs, Descriptor, DescBeats
<1>2. JobOf(fx.desc_data) \in Ids
  BY <1>1, TypesAssumption DEF JobOf, Word, Ids, TypesAssumption
<1> QED
  BY <1>2 DEF HistClock

-----------------------------------------------------------------------------
LEMMA InitTyped == Init => TypeOK
<1> SUFFICES ASSUME Init PROVE TypeOK
  OBVIOUS
<1>1. FeTypeOK
  BY SlotTyped, CountTyped DEF Init, FeInit, FeTypeOK, FeRegs, FeStatus
<1>2. FxTypeOK
  BY SlotTyped, CountTyped, ZeroDescTyped, ZeroBeat DEF Init, FxInit, FxTypeOK, FxRegs
<1>3. DecTypeOK
  BY CountTyped, ZeroDescTyped, OperandsTyped, TypesAssumption
     DEF Init, DecInit, DecTypeOK, DecRegs, DispRegs, Ids, Opcodes, TypesAssumption
<1>4. ArbTypeOK /\ PfTypeOK
  BY PfResetTyped DEF Init, ArbInit, ArbTypeOK, PfInit, PfTypeOK
<1>5. ExTypeOK /\ NpuTypeOK
  BY ExResetTyped, OperandsTyped, ZeroResultTyped, WordTyped
     DEF Init, ExecInit, ExTypeOK, NpuTypeOK, NpuLatency
<1>6. StTypeOK
  BY StResetTyped DEF Init, StInit, StTypeOK
<1>7. GpuTypeOK
  BY CountTyped DEF Init, GpuInit, GpuTypeOK
<1>8. RegsTypeOK
  BY SlotTyped DEF Init, RegsInit, RegsTypeOK, RegFile
<1>9. HostTypeOK
  <2>1. EmptySlot \in Slot /\ 0 \in Ids
    BY TypesAssumption DEF EmptySlot, Slot, Ids, TypesAssumption
  <2> QED
    BY <2>1, SlotTyped, HostAssumption DEF Init, HostInit, HostTypeOK,
        HostAssumption, DirectPcs
<1>10. PortTypeOK
  <2>1. [buf |-> "desc", at |-> 0] \in Address
    BY SlotTyped DEF Address
  <2>2. NoWord \in StoredWord
    BY ZeroResultTyped DEF NoWord, StoredWord, OutBeats
  <2>3. /\ rd \in RdRegs /\ rd.addr = [buf |-> "desc", at |-> 0] /\ rd.beat = 0
    BY <2>1, WordTyped, PortAssumption DEF Init, PortInit, RdRegs, PortAssumption
  <2>4. rd.beat < BurstLen(rd.addr)
    BY <2>1, <2>3, BurstLenBounds
  <2>5. wr \in WrRegs
    BY WordTyped, ZeroBeat DEF Init, PortInit, WrRegs
  <2>6. outmem \in [Ids -> [0..OutBeats-1 -> StoredWord]]
    BY <2>2 DEF Init, PortInit
  <2> QED
    BY <2>3, <2>4, <2>5, <2>6 DEF PortTypeOK, RdRegs, WrRegs, StoredWord
<1>11. hist \in Seq(Ids)
  BY DEF Init
<1> QED
  BY <1>1, <1>2, <1>3, <1>4, <1>5, <1>6, <1>7, <1>8, <1>9, <1>10, <1>11 DEF TypeOK

LEMMA NextTyped == TypeOK /\ [Next]_vars => TypeOK'
<1> SUFFICES ASSUME TypeOK, [Next]_vars PROVE TypeOK'
  OBVIOUS
<1>1. CASE UNCHANGED vars
  BY <1>1 DEF vars, TypeOK, FeTypeOK, FxTypeOK, DecTypeOK, ArbTypeOK, PfTypeOK,
     ExTypeOK, NpuTypeOK, StTypeOK, GpuTypeOK, RegsTypeOK, HostTypeOK, PortTypeOK,
     Rlast
<1>2. CASE Next
  <2>p. PICK arready \in ReadySet("AR", PortArvalid /\ ~rd.busy),
             awready \in ReadySet("AW", st.awvalid /\ ~wr.busy),
             wready \in ReadySet("W", st.wvalid /\ wr.busy /\ wr.beat < OutBeats) :
          /\ PortClock(arready, awready, wready)
          /\ AccelClock(arready, awready, wready)
          /\ SoftwareClock
    BY <1>2 DEF Next, Edge
  <2>t. /\ FeTypeOK /\ FxTypeOK /\ DecTypeOK /\ ArbTypeOK /\ PfTypeOK /\ ExTypeOK
        /\ NpuTypeOK /\ StTypeOK /\ GpuTypeOK /\ RegsTypeOK /\ HostTypeOK /\ PortTypeOK
        /\ hist \in Seq(Ids)
    BY DEF TypeOK
  <2>ready. /\ arready \in BOOLEAN /\ awready \in BOOLEAN /\ wready \in BOOLEAN
            /\ wready => wr.beat < OutBeats
    BY <2>p DEF ReadySet
  <2>wires. /\ enable \in BOOLEAN /\ regs.cmdq_head \in Slots
            /\ regs.cmdq_tail \in Slots /\ regs.cmdq_doorbell \in Nat
    BY <2>t DEF RegsTypeOK, RegFile, enable
  <2>1. FeTypeOK'
    <3>1. fx.fetch_ready \in BOOLEAN /\ fx.desc_done \in BOOLEAN /\ fx.desc_error \in BOOLEAN
      BY <2>t DEF FxTypeOK, FxRegs
    <3> QED
      BY <2>p, <2>t, <2>wires, <3>1, FeClockTyped DEF AccelClock
  <2>2. FxTypeOK'
    <3>1. /\ fe.fetch_valid \in BOOLEAN /\ fe.fetch_slot \in Slots
          /\ fe.fetch_sequence \in 0..CountMod-1
      BY <2>t DEF FeTypeOK, FeRegs
    <3>2. rd.rdata \in Word /\ rd.rerror \in BOOLEAN /\ rd.rvalid \in BOOLEAN
      BY <2>t DEF PortTypeOK
    <3>3. /\ DescArready(arready) \in BOOLEAN /\ DescRvalid(rd.rvalid) \in BOOLEAN
          /\ Rlast \in BOOLEAN
      BY DEF DescArready, DescRvalid, Rlast
    <3>4. FxClock(enable, fe.fetch_valid, fe.fetch_slot, fe.fetch_sequence,
                  DescArready(arready), DescRvalid(rd.rvalid), rd.rdata, rd.rerror, Rlast)
      BY <2>p DEF AccelClock
    <3> QED
      BY <2>t, <2>wires, <3>1, <3>2, <3>3, <3>4, FxClockTyped
  <2>3. DecTypeOK'
    <3>1. /\ fx.desc_done \in BOOLEAN /\ fx.desc_error \in BOOLEAN
          /\ fx.desc_data \in Descriptor
      BY <2>t DEF FxTypeOK, FxRegs
    <3>2. dec' \in DecRegs
      BY <2>p, <2>t, <2>wires, <3>1, DecodeClockTyped DEF AccelClock, DecTypeOK
    <3>3. disp' \in DispRegs
      BY <2>p, <2>t, <2>wires, DispatchClockTyped DEF AccelClock, DecTypeOK
    <3> QED
      BY <3>2, <3>3 DEF DecTypeOK
  <2>4. ArbTypeOK'
    <3>1. /\ fx.arvalid \in BOOLEAN /\ fx.rready \in BOOLEAN
          /\ pf.arvalid \in BOOLEAN /\ pf.rready \in BOOLEAN
          /\ rd.rvalid \in BOOLEAN /\ Rlast \in BOOLEAN
      BY <2>t DEF FxTypeOK, FxRegs, PfTypeOK, PfRegs, PortTypeOK, Rlast
    <3>2. ArbClock(fx.arvalid, pf.arvalid, arready, fx.rready, pf.rready, rd.rvalid, Rlast)
      BY <2>p DEF AccelClock
    <3> QED
      BY <2>t, <2>ready, <3>1, <3>2, ArbClockTyped
  <2>5. PfTypeOK'
    <3>1. disp.npu_dispatch_pulse \in BOOLEAN /\ disp.npu_job \in NpuJob
      BY <2>t DEF DecTypeOK, DispRegs
    <3>2. rd.rdata \in Word /\ rd.rerror \in BOOLEAN
      BY <2>t DEF PortTypeOK
    <3>3. /\ NpuArready(arready) \in BOOLEAN /\ NpuRvalid(rd.rvalid) \in BOOLEAN
          /\ Rlast \in BOOLEAN
      BY DEF NpuArready, NpuRvalid, Rlast
    <3> QED
      BY <2>p, <2>t, <2>wires, <3>1, <3>2, <3>3, PfClockTyped DEF AccelClock
  <2>6. ExTypeOK'
    <3>1. /\ pf.payload_valid \in BOOLEAN /\ pf.job \in NpuJob
          /\ npu.busy \in BOOLEAN /\ npu.done \in BOOLEAN
      BY <2>t DEF PfTypeOK, PfRegs, NpuTypeOK
    <3> QED
      BY <2>p, <2>t, <2>wires, <3>1, ExClockTyped DEF AccelClock
  <2>7. NpuTypeOK'
    <3>1. MuxStart(regs.npu_start_pulse) \in BOOLEAN
      BY DEF MuxStart
    <3>2. MuxModel \in Word /\ MuxInputs \in Inputs /\ MuxWeights \in Weights
      BY <2>t, MuxTyped
    <3> QED
      BY <2>p, <2>t, <3>1, <3>2, NpuClockTyped DEF AccelClock
  <2>8. StTypeOK'
    <3>1. /\ ex.store_request_pulse \in BOOLEAN /\ ex.last_output \in Word
          /\ npu.result \in Result /\ wr.bvalid \in BOOLEAN /\ wr.berror \in BOOLEAN
      BY <2>t DEF ExTypeOK, ExRegs, NpuTypeOK, PortTypeOK
    <3> QED
      BY <2>p, <2>t, <2>ready, <2>wires, <3>1, StClockTyped DEF AccelClock
  <2>9. GpuTypeOK'
    BY <2>p, <2>t, GpuClockTyped DEF AccelClock
  <2>10. RegsTypeOK' /\ HostTypeOK'
    <3>1. /\ fe.cmdq_tail_shadow \in Slots /\ npu.done \in BOOLEAN
          /\ gpu.frame_done \in BOOLEAN
      BY <2>t DEF FeTypeOK, FeRegs, NpuTypeOK, GpuTypeOK
    <3> QED
      BY <2>p, <2>t, <3>1, HostClockTyped DEF SoftwareClock
  <2>11. PortTypeOK'
    <3>1. /\ rd \in RdRegs /\ rd.beat < BurstLen(rd.addr) /\ wr \in WrRegs
          /\ outmem \in [Ids -> [0..OutBeats-1 -> StoredWord]]
          /\ ring \in [Slots -> Slot]
      BY <2>t DEF PortTypeOK, HostTypeOK, RdRegs, WrRegs, StoredWord
    <3>2. DescAddr \in Address
      BY <2>t DEF DescAddr, Address, FxTypeOK, FxRegs
    <3>3. PfAraddr \in Address
      <4>1. pf.job.weight.id \in Ids /\ pf.job.input.id \in Ids
        BY <2>t DEF PfTypeOK, PfRegs, NpuJob, Word
      <4> QED
        BY <4>1 DEF PfAraddr, Address
    <3>4. /\ PortAraddr \in Address /\ PortArvalid \in BOOLEAN /\ PortRready \in BOOLEAN
      BY <2>t, <3>2, <3>3 DEF PortAraddr, ArbAraddr, PortArvalid, ArbArvalid,
         GrantDesc, GrantNpu, PortRready, ArbRready, FxTypeOK, FxRegs, PfTypeOK, PfRegs
    <3>5. /\ st.awvalid \in BOOLEAN /\ st.output \in Word /\ st.wvalid \in BOOLEAN
          /\ st.result \in Result /\ st.wword \in 0..OutBeats-1 /\ st.bready \in BOOLEAN
      BY <2>t DEF StTypeOK, StRegs
    <3>6. rd' \in RdRegs /\ rd'.beat < BurstLen(rd'.addr)
      BY <2>p, <2>ready, <3>1, <3>4, RdClockTyped DEF PortClock
    <3>7. wr' \in WrRegs /\ outmem' \in [Ids -> [0..OutBeats-1 -> StoredWord]]
      <4>1. WrClock(st.awvalid, st.output, awready, st.wvalid, wready, st.result,
                    st.wword, st.bready)
        BY <2>p DEF PortClock
      <4> QED
        BY <2>ready, <3>1, <3>5, <4>1, WrClockTyped
    <3> QED
      BY <3>6, <3>7 DEF PortTypeOK, RdRegs, WrRegs, StoredWord
  <2>12. hist' \in Seq(Ids)
    BY <2>p, <2>t, HistClockTyped DEF AccelClock, FxTypeOK
  <2> QED
    BY <2>1, <2>2, <2>3, <2>4, <2>5, <2>6, <2>7, <2>8, <2>9, <2>10, <2>11, <2>12
       DEF TypeOK
<1> QED
  BY <1>1, <1>2

(* Every register of the accelerator, every variable of the software and   *)
(* of the memory port keeps its type, whatever the sizes, the jobs, the    *)
(* port's stalls and errors and the client do: the tail never leaves the   *)
(* ring, no burst runs past its length.                                    *)
THEOREM TypeCorrectness == Spec => []TypeOK
  BY InitTyped, NextTyped, PTL DEF Spec
=============================================================================
