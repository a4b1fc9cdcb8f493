------------------------------ MODULE QueueProofs ------------------------------
(***************************************************************************)
(* Safety of the queue path, for every value of the constants: what its    *)
(* blocks owe each other.                                                  *)
(*                                                                         *)
(* Handshake is inductive relative to TypeOK: it mentions only registers   *)
(* of the frontend and the descriptor fetch, and each step of one of them  *)
(* is described by what it does to its handshake bits (FeBits, FxBits).    *)
(*                                                                         *)
(* DispatchAccounting needs Handshake, since the frontend counts desc_done *)
(* only while a fetch is in flight and the decoder takes it always.  The   *)
(* counters are registers that wrap, so the step from one sum to the next  *)
(* rests on four lemmas about remainders; NpuAccounting, the next stage,   *)
(* uses them again.  That the NPU takes what it is offered needs           *)
(* OffersTaken: who can be at its input when the stub starts a job.        *)
(*                                                                         *)
(* ErrorFlagged needs ErrorKept: which register remembers an errored beat  *)
(* in each state of the payload fetch.  BurstOwner needs ReadOwned: what   *)
(* the arbiter needs of the two masters to hand every beat to its owner.   *)
(*                                                                         *)
(* Each block has one definition that states its step register by register *)
(* (PfStep, ExStep, FxStep, RdStep, FeStep, ArbStep, NpuStep, SoftStep)    *)
(* and a lemma that its Clock is such a step; the proofs work on the       *)
(* former.                                                                 *)
(***************************************************************************)
EXTENDS QueueTypes

(* What a step of the frontend does to fetch_valid and fetch_inflight.     *)
FeBitsStep(en, fetch_ready, desc_done) ==
  \/ ~en /\ ~fe'.fetch_valid /\ ~fe'.fetch_inflight
  \/ /\ en /\ ~fe.fetch_valid /\ ~fe.fetch_inflight
     /\ fe'.fetch_valid /\ ~fe'.fetch_inflight
  \/ /\ en /\ fe.fetch_valid /\ fetch_ready
     /\ ~fe'.fetch_valid /\ fe'.fetch_inflight
  \/ /\ en /\ fe.fetch_inflight /\ desc_done
     /\ fe'.fetch_valid = fe.fetch_valid /\ ~fe'.fetch_inflight
  \/ /\ en /\ ~(fe.fetch_valid /\ fetch_ready)
     /\ ~(fe.fetch_inflight /\ desc_done)
     /\ fe'.fetch_valid = fe.fetch_valid
     /\ fe'.fetch_inflight = fe.fetch_inflight

(* Every step of FeClock is one of them.                                   *)
LEMMA FeBits ==
  ASSUME FeTypeOK, NEW en, NEW head, NEW tail_seed, NEW doorbell,
         NEW fetch_ready, NEW desc_done, NEW desc_error,
         FeClock(en, head, tail_seed, doorbell, fetch_ready, desc_done, desc_error)
  PROVE  FeBitsStep(en, fetch_ready, desc_done)
<1>edge. ASSUME NEW f \in FeRegs
         PROVE  LET g == FeEveryEdge(f, head, doorbell, desc_done, desc_error)
                IN  g.fetch_valid = f.fetch_valid /\ g.fetch_inflight = f.fetch_inflight
  BY DEF FeEveryEdge, FeRegs
<1>1. CASE ~en /\ FeDisabled(head, tail_seed, doorbell)
  BY <1>1 DEF FeDisabled, FeBitsStep
<1>2. CASE en /\ FeIssue(head, doorbell, desc_done, desc_error)
  BY <1>2 DEF FeTypeOK, FeRegs, FeIssue, FeCanIssue, FeEveryEdge, FeBitsStep
<1>3. CASE en /\ FeAccepted(head, doorbell, fetch_ready, desc_done, desc_error)
  BY <1>3 DEF FeTypeOK, FeRegs, FeAccepted, FeEveryEdge, FeBitsStep
<1>4. CASE en /\ FeRetire(head, doorbell, desc_done, desc_error)
  BY <1>4 DEF FeTypeOK, FeRegs, FeRetire, FeRetires, FeEveryEdge, FeBitsStep
<1>5. CASE en /\ FeHold(head, doorbell, fetch_ready, desc_done, desc_error)
  BY <1>5, <1>edge DEF FeTypeOK, FeHold, FeRetires, FeBitsStep
<1> QED
  BY <1>1, <1>2, <1>3, <1>4, <1>5 DEF FeClock

(* What a step of the fetch stub does to its four handshake bits.          *)
FxBitsStep(en, fetch_valid, rlast) ==
  \/ /\ ~en /\ ~fx'.fetch_ready /\ ~fx'.desc_done
     /\ ~fx'.arvalid /\ ~fx'.active
  \/ /\ en /\ ~fx.active /\ fetch_valid
     /\ ~fx'.fetch_ready /\ ~fx'.desc_done /\ fx'.arvalid /\ ~fx'.active
  \/ /\ en /\ fx.arvalid
     /\ fx'.fetch_ready /\ ~fx'.desc_done /\ ~fx'.arvalid /\ fx'.active
  \/ /\ en /\ fx.active
     /\ ~fx'.fetch_ready /\ fx'.desc_done = rlast
     /\ fx'.arvalid = fx.arvalid /\ fx'.active = ~rlast
  \/ /\ en /\ ~(~fx.active /\ fetch_valid)
     /\ ~fx'.fetch_ready /\ ~fx'.desc_done
     /\ fx'.arvalid = fx.arvalid /\ fx'.active = fx.active

(* Every step of FxClock is one of them.                                   *)
LEMMA FxBits ==
  ASSUME FxTypeOK, NEW en, NEW fetch_valid, NEW slot, NEW sequence, NEW arready,
         NEW rvalid, NEW rdata, NEW rerror, NEW rlast \in BOOLEAN,
         FxClock(en, fetch_valid, slot, sequence, arready, rvalid, rdata, rerror, rlast)
  PROVE  FxBitsStep(en, fetch_valid, rlast)
<1>low. /\ FxPulsesLow(fx) \in FxRegs
        /\ ~FxPulsesLow(fx).fetch_ready /\ ~FxPulsesLow(fx).desc_done
        /\ FxPulsesLow(fx).arvalid = fx.arvalid /\ FxPulsesLow(fx).active = fx.active
  BY DEF FxTypeOK, FxRegs, FxPulsesLow
<1>1. CASE ~en /\ FxDisabled
  BY <1>1, <1>low DEF FxDisabled, FxRegs, FxBitsStep
<1>2. CASE en /\ FxRequest(fetch_valid, slot, sequence, arready)
  BY <1>2, <1>low DEF FxRequest, FxArmed, FxRegs, FxBitsStep
<1>3. CASE en /\ FxAddressTaken(fetch_valid, slot, sequence, arready)
  BY <1>3, <1>low DEF FxAddressTaken, FxArmed, FxRegs, FxBitsStep
<1>4. CASE en /\ FxBeat(rvalid, rdata, rerror, rlast)
  BY <1>4, <1>low DEF FxBeat, FxTakesBeat, FxRegs, FxBitsStep
<1>5. CASE en /\ FxIdle(fetch_valid, arready, rvalid)
  BY <1>5, <1>low DEF FxIdle, FxBitsStep
<1> QED
  BY <1>1, <1>2, <1>3, <1>4, <1>5 DEF FxClock

(* Nothing is asked for at reset.                                          *)
LEMMA HandshakeInit == Init => Handshake
  BY DEF Init, FeInit, FxInit, Handshake, FeExclusive

(* Handshake is inductive relative to TypeOK.                              *)
LEMMA HandshakeStep == TypeOK /\ Handshake /\ [Next]_vars => Handshake'
<1> SUFFICES ASSUME TypeOK, Handshake, [Next]_vars PROVE Handshake'
  OBVIOUS
<1>1. CASE UNCHANGED vars
  BY <1>1 DEF vars, Handshake, FeExclusive
<1>2. CASE Next
  <2>p. PICK arready \in ReadySet("AR", PortArvalid /\ ~rd.busy),
             awready \in ReadySet("AW", st.awvalid /\ ~wr.busy),
             wready \in ReadySet("W", st.wvalid /\ wr.busy /\ wr.beat < OutBeats) :
          AccelClock(arready, awready, wready)
    BY <1>2 DEF Next, Edge
  <2>t. /\ FeTypeOK /\ FxTypeOK /\ Rlast \in BOOLEAN
        /\ fe.fetch_valid \in BOOLEAN /\ fe.fetch_inflight \in BOOLEAN
        /\ fx.arvalid \in BOOLEAN /\ fx.active \in BOOLEAN
    BY DEF TypeOK, FeTypeOK, FeRegs, FxTypeOK, FxRegs, Rlast
  <2>fe. FeBitsStep(enable, fx.fetch_ready, fx.desc_done)
    <3>1. FeClock(enable, regs.cmdq_head, regs.cmdq_tail, regs.cmdq_doorbell,
                  fx.fetch_ready, fx.desc_done, fx.desc_error)
      BY <2>p DEF AccelClock
    <3> QED
      BY <2>t, <3>1, FeBits
  <2>fx. FxBitsStep(enable, fe.fetch_valid, Rlast)
    <3>1. FxClock(enable, fe.fetch_valid, fe.fetch_slot, fe.fetch_sequence,
                  DescArready(arready), DescRvalid(rd.rvalid), rd.rdata, rd.rerror, Rlast)
      BY <2>p DEF AccelClock
    <3> QED
      BY <2>t, <3>1, FxBits
  <2> QED
    BY <2>t, <2>fe, <2>fx DEF Handshake, FeExclusive, FeBitsStep, FxBitsStep
<1> QED
  BY <1>1, <1>2

(* No completion is missed or invented between frontend and fetch stub,    *)
(* for any ring size, any memory port with any stalls and errors, and any  *)
(* use of the enable bit and of accel_cmdq_host_reset.                     *)
THEOREM HandshakeHolds == Spec => []Handshake
<1>1. Init => TypeOK /\ Handshake
  BY InitTyped, HandshakeInit
<1>2. (TypeOK /\ Handshake) /\ [Next]_vars => (TypeOK /\ Handshake)'
  BY NextTyped, HandshakeStep
<1> QED
  BY <1>1, <1>2, PTL DEF Spec

-----------------------------------------------------------------------------
(* Accounting.  The counters wrap, so the sums are compared modulo         *)
(* CountMod; a sum of three counters and a bit is below 4 * CountMod.      *)
Sums == 0..4*CountMod - 1

(* Such a sum holds a whole number of laps, at most three.                 *)
LEMMA SumSplit ==
  ASSUME NEW s \in Sums
  PROVE  \E q \in 0..3, r \in 0..CountMod-1 : s = CountMod * q + r
<1>0. CountMod \in Nat /\ CountMod > 1
  BY TypesAssumption DEF TypesAssumption
<1>1. CASE s < CountMod
  <2>1. s = CountMod * 0 + s /\ s \in 0..CountMod-1
    BY <1>0, <1>1 DEF Sums
  <2> QED
    BY <2>1
<1>2. CASE CountMod <= s /\ s < 2*CountMod
  <2>1. s = CountMod * 1 + (s - CountMod) /\ s - CountMod \in 0..CountMod-1
    BY <1>0, <1>2 DEF Sums
  <2> QED
    BY <2>1
<1>3. CASE 2*CountMod <= s /\ s < 3*CountMod
  <2>1. s = CountMod * 2 + (s - 2*CountMod) /\ s - 2*CountMod \in 0..CountMod-1
    BY <1>0, <1>3 DEF Sums
  <2> QED
    BY <2>1
<1>4. CASE 3*CountMod <= s
  <2>1. s = CountMod * 3 + (s - 3*CountMod) /\ s - 3*CountMod \in 0..CountMod-1
    BY <1>0, <1>4 DEF Sums
  <2> QED
    BY <2>1
<1> QED
  BY <1>0, <1>1, <1>2, <1>3, <1>4 DEF Sums

(* The remainder is unique.                                                *)
LEMMA Remainder ==
  ASSUME NEW q \in Int, NEW r \in 0..CountMod-1
  PROVE  (CountMod * q + r) % CountMod = r
<1>0. CountMod \in Nat \ {0}
  BY TypesAssumption DEF TypesAssumption
<1> QED
  BY <1>0

(* Adding one, and removing a whole lap, commute with the remainder.       *)
LEMMA SumMod ==
  ASSUME NEW s \in Sums
  PROVE  /\ Inc(s % CountMod) = (s + 1) % CountMod
         /\ s >= CountMod => (s - CountMod) % CountMod = s % CountMod
<1>0. CountMod \in Nat /\ CountMod > 1
  BY TypesAssumption DEF TypesAssumption
<1>1. PICK q \in 0..3, r \in 0..CountMod-1 : s = CountMod * q + r
  BY SumSplit
<1>2. s % CountMod = r
  BY <1>1, Remainder
<1>3. s - CountMod = CountMod * (q - 1) + r
  BY <1>0, <1>1
<1>4. (s - CountMod) % CountMod = r
  BY <1>3, Remainder
<1>5. CASE r + 1 < CountMod
  <2>1. s + 1 = CountMod * q + (r + 1) /\ r + 1 \in 0..CountMod-1
    BY <1>0, <1>1, <1>5
  <2>2. (s + 1) % CountMod = r + 1
    BY <2>1, Remainder
  <2>3. r + 1 = CountMod * 0 + (r + 1)
    BY <1>0
  <2>4. (r + 1) % CountMod = r + 1
    BY <2>1, <2>3, Remainder
  <2> QED
    BY <1>2, <1>4, <2>2, <2>4 DEF Inc
<1>6. CASE r + 1 = CountMod
  <2>1. s + 1 = CountMod * (q + 1) + 0 /\ 0 \in 0..CountMod-1
    BY <1>0, <1>1, <1>6
  <2>2. (s + 1) % CountMod = 0
    BY <2>1, Remainder
  <2>3. r + 1 = CountMod * 1 + 0
    BY <1>0, <1>6
  <2>4. (r + 1) % CountMod = 0
    BY <2>1, <2>3, Remainder
  <2> QED
    BY <1>2, <1>4, <2>2, <2>4 DEF Inc
<1> QED
  BY <1>0, <1>5, <1>6

(* A counter that takes one event: its new value, and that of a sum it is  *)
(* part of.                                                                *)
LEMMA IncInSum ==
  ASSUME NEW n \in 0..CountMod-1, NEW rest \in 0..3*CountMod - 1
  PROVE  (Inc(n) + rest) % CountMod = (n + 1 + rest) % CountMod
<1>0. CountMod \in Nat /\ CountMod > 1
  BY TypesAssumption DEF TypesAssumption
<1>1. CASE n + 1 < CountMod
  <2>1. n + 1 = CountMod * 0 + (n + 1) /\ n + 1 \in 0..CountMod-1
    BY <1>0, <1>1
  <2>2. Inc(n) = n + 1
    BY <2>1, Remainder DEF Inc
  <2> QED
    BY <2>2
<1>2. CASE n + 1 = CountMod
  <2>1. n + 1 = CountMod * 1 + 0 /\ 0 \in 0..CountMod-1
    BY <1>0, <1>2
  <2>2. Inc(n) = 0
    BY <2>1, Remainder DEF Inc
  <2> DEFINE s == n + 1 + rest
  <2>3. s \in Sums /\ s >= CountMod
    BY <1>0, <1>2 DEF Sums
  <2>4. s - CountMod = Inc(n) + rest
    BY <1>0, <1>2, <2>2
  <2>5. (s - CountMod) % CountMod = s % CountMod
    <3> HIDE DEF s
    <3> QED
      BY <2>3, SumMod
  <2> QED
    BY <2>4, <2>5
<1> QED
  BY <1>0, <1>1, <1>2

(* What a step does to the counts of DispatchAccounting.                   *)
Dispatched == disp.npu_dispatch_count + disp.gpu_dispatch_count
                + disp.dispatch_error_count

(* What a step of the frontend does to its counter and flag.               *)
LEMMA FeCounts ==
  ASSUME FeTypeOK, NEW en, NEW head, NEW tail_seed, NEW doorbell,
         NEW fetch_ready, NEW desc_done \in BOOLEAN, NEW desc_error \in BOOLEAN,
         FeClock(en, head, tail_seed, doorbell, fetch_ready, desc_done, desc_error),
         FeExclusive
  PROVE  /\ ~en => fe'.processed_count = 0
         /\ en /\ fe.fetch_inflight /\ desc_done =>
              /\ fe'.processed_count = Inc(fe.processed_count)
              /\ fe'.error_sticky = (fe.error_sticky \/ desc_error)
         /\ en /\ ~(fe.fetch_inflight /\ desc_done) =>
              /\ fe'.processed_count = fe.processed_count
              /\ fe'.error_sticky = fe.error_sticky
<1>edge. ASSUME NEW f \in FeRegs
         PROVE  LET g == FeEveryEdge(f, head, doorbell, desc_done, desc_error)
                IN  g.processed_count = f.processed_count /\ g.error_sticky = f.error_sticky
  BY DEF FeEveryEdge, FeRegs
<1>1. CASE ~en /\ FeDisabled(head, tail_seed, doorbell)
  BY <1>1 DEF FeDisabled
<1>2. CASE en /\ FeIssue(head, doorbell, desc_done, desc_error)
  BY <1>2 DEF FeTypeOK, FeRegs, FeIssue, FeCanIssue, FeEveryEdge
<1>3. CASE en /\ FeAccepted(head, doorbell, fetch_ready, desc_done, desc_error)
  BY <1>3 DEF FeTypeOK, FeRegs, FeAccepted, FeEveryEdge, FeExclusive
<1>4. CASE en /\ FeRetire(head, doorbell, desc_done, desc_error)
  BY <1>4 DEF FeTypeOK, FeRegs, FeRetire, FeRetires, FeEveryEdge
<1>5. CASE en /\ FeHold(head, doorbell, fetch_ready, desc_done, desc_error)
  BY <1>5, <1>edge DEF FeTypeOK, FeHold, FeRetires
<1> QED
  BY <1>1, <1>2, <1>3, <1>4, <1>5 DEF FeClock

(* What a step of the dispatcher does to its counters.                     *)
LEMMA DispatchCounts ==
  ASSUME dec \in DecRegs, disp \in DispRegs, NEW en \in BOOLEAN, DispatchClock(en)
  PROVE  /\ ~en => disp'.npu_dispatch_count = 0 /\ disp'.gpu_dispatch_count = 0
                     /\ disp'.dispatch_error_count = 0
         /\ en /\ ~dec.decode_valid => Dispatched' = Dispatched
         /\ en /\ dec.decode_valid =>
              Dispatched' % CountMod = (Dispatched + 1) % CountMod
<1>q. /\ DispQuiet(disp) \in DispRegs
      /\ DispQuiet(disp).npu_dispatch_count = disp.npu_dispatch_count
      /\ DispQuiet(disp).gpu_dispatch_count = disp.gpu_dispatch_count
      /\ DispQuiet(disp).dispatch_error_count = disp.dispatch_error_count
  BY DEF DispQuiet, DispRegs
<1> DEFINE n == disp.npu_dispatch_count
           g == disp.gpu_dispatch_count
           e == disp.dispatch_error_count
<1>t. n \in 0..CountMod-1 /\ g \in 0..CountMod-1 /\ e \in 0..CountMod-1
  BY DEF DispRegs
<1>m. CountMod \in Nat /\ CountMod > 1
  BY TypesAssumption DEF TypesAssumption
<1>i. Inc(n) \in Int /\ Inc(g) \in Int /\ Inc(e) \in Int
  BY <1>t, <1>m DEF Inc
<1>s. /\ (Inc(n) + (g + e)) % CountMod = (n + 1 + (g + e)) % CountMod
      /\ (Inc(g) + (n + e)) % CountMod = (g + 1 + (n + e)) % CountMod
      /\ (Inc(e) + (n + g)) % CountMod = (e + 1 + (n + g)) % CountMod
  <2>1. g + e \in 0..3*CountMod-1 /\ n + e \in 0..3*CountMod-1 /\ n + g \in 0..3*CountMod-1
    BY <1>t, <1>m
  <2> QED
    BY <1>t, <2>1, IncInSum
<1>1. CASE ~en /\ DispDisabled
  BY <1>1, <1>q, Zenon DEF DispDisabled, DispRegs
<1>2. ASSUME NEW opcode \in OpcodesIn(dec.desc[0]),
             en /\ dec.decode_valid /\ DispNpu(opcode)
      PROVE  Dispatched' % CountMod = (Dispatched + 1) % CountMod
  <2>1. /\ disp'.npu_dispatch_count = Inc(n) /\ disp'.gpu_dispatch_count = g
        /\ disp'.dispatch_error_count = e
    BY <1>2, <1>q, Zenon DEF DispNpu, DispRegs
  <2>2. Dispatched' = Inc(n) + (g + e)
    BY <1>t, <1>i, <2>1 DEF Dispatched
  <2>3. Dispatched + 1 = n + 1 + (g + e)
    BY <1>t DEF Dispatched
  <2> QED
    BY <1>2, <1>s, <2>2, <2>3
<1>3. ASSUME NEW opcode \in OpcodesIn(dec.desc[0]),
             en /\ dec.decode_valid /\ DispGpu(opcode)
      PROVE  Dispatched' % CountMod = (Dispatched + 1) % CountMod
  <2>1. /\ disp'.npu_dispatch_count = n /\ disp'.gpu_dispatch_count = Inc(g)
        /\ disp'.dispatch_error_count = e
    BY <1>3, <1>q, Zenon DEF DispGpu, DispRegs
  <2>2. Dispatched' = Inc(g) + (n + e)
    BY <1>t, <1>i, <2>1 DEF Dispatched
  <2>3. Dispatched + 1 = g + 1 + (n + e)
    BY <1>t DEF Dispatched
  <2> QED
    BY <1>3, <1>s, <2>2, <2>3
<1>4. ASSUME NEW opcode \in OpcodesIn(dec.desc[0]),
             en /\ dec.decode_valid /\ DispError(opcode)
      PROVE  Dispatched' % CountMod = (Dispatched + 1) % CountMod
  <2>1. /\ disp'.npu_dispatch_count = n /\ disp'.gpu_dispatch_count = g
        /\ disp'.dispatch_error_count = Inc(e)
    BY <1>4, <1>q, Zenon DEF DispError, DispRegs
  <2>2. Dispatched' = Inc(e) + (n + g)
    BY <1>t, <1>i, <2>1 DEF Dispatched
  <2>3. Dispatched + 1 = e + 1 + (n + g)
    BY <1>t DEF Dispatched
  <2> QED
    BY <1>4, <1>s, <2>2, <2>3
<1>5. CASE en /\ ~dec.decode_valid /\ disp' = DispQuiet(disp)
  BY <1>5, <1>q DEF Dispatched
<1> QED
  BY <1>1, <1>2, <1>3, <1>4, <1>5 DEF DispatchClock

(* Nothing was retired at reset.                                           *)
LEMMA AccountingInit == Init => DispatchAccounting
<1>1. 0 % CountMod = 0
  <2>1. 0 = CountMod * 0 + 0 /\ 0 \in 0..CountMod-1
    BY TypesAssumption DEF TypesAssumption
  <2> QED
    BY <2>1, Remainder
<1> QED
  BY <1>1 DEF Init, FeInit, DecInit, DispatchAccounting, AsNumber

(* DispatchAccounting is inductive relative to TypeOK and Handshake.       *)
LEMMA AccountingStep ==
  TypeOK /\ Handshake /\ DispatchAccounting /\ [Next]_vars => DispatchAccounting'
<1> SUFFICES ASSUME TypeOK, Handshake, DispatchAccounting, [Next]_vars
             PROVE  DispatchAccounting'
  OBVIOUS
<1>m. CountMod \in Nat /\ CountMod > 1
  BY TypesAssumption DEF TypesAssumption
<1>1. CASE UNCHANGED vars
  BY <1>1 DEF vars, DispatchAccounting
<1>2. CASE Next
  <2>p. PICK arready \in ReadySet("AR", PortArvalid /\ ~rd.busy),
             awready \in ReadySet("AW", st.awvalid /\ ~wr.busy),
             wready \in ReadySet("W", st.wvalid /\ wr.busy /\ wr.beat < OutBeats) :
          AccelClock(arready, awready, wready)
    BY <1>2 DEF Next, Edge
  <2>t. /\ FeTypeOK /\ dec \in DecRegs /\ disp \in DispRegs
        /\ enable \in BOOLEAN /\ fx.desc_done \in BOOLEAN /\ fx.desc_error \in BOOLEAN
        /\ fe.fetch_inflight \in BOOLEAN /\ fe.error_sticky \in BOOLEAN
        /\ fe.processed_count \in 0..CountMod-1 /\ dec.decode_valid \in BOOLEAN
        /\ FeExclusive /\ (fx.desc_done => fe.fetch_inflight)
    BY DEF TypeOK, FeTypeOK, FeRegs, FxTypeOK, FxRegs, DecTypeOK, DecRegs,
       RegsTypeOK, RegFile, enable, Handshake
  <2>fe. FeClock(enable, regs.cmdq_head, regs.cmdq_tail, regs.cmdq_doorbell,
                 fx.fetch_ready, fx.desc_done, fx.desc_error)
    BY <2>p DEF AccelClock
  <2>dec. /\ DecodeClock(enable, fx.desc_done, fx.desc_error, fx.desc_data)
          /\ DispatchClock(enable)
    BY <2>p DEF AccelClock
  <2>v. dec'.decode_valid = (enable /\ fx.desc_done /\ ~fx.desc_error)
    BY <2>t, <2>dec DEF DecodeClock, DecQuiet, DecGood, DecBad, DecRegs
  <2>P. /\ ~enable => fe'.processed_count = 0
        /\ enable /\ fx.desc_done =>
             /\ fe'.processed_count = Inc(fe.processed_count)
             /\ fe'.error_sticky = (fe.error_sticky \/ fx.desc_error)
        /\ enable /\ ~fx.desc_done =>
             /\ fe'.processed_count = fe.processed_count
             /\ fe'.error_sticky = fe.error_sticky
    BY <2>t, <2>fe, FeCounts
  <2>D. /\ ~enable => disp'.npu_dispatch_count = 0 /\ disp'.gpu_dispatch_count = 0
                        /\ disp'.dispatch_error_count = 0
        /\ enable /\ ~dec.decode_valid => Dispatched' = Dispatched
        /\ enable /\ dec.decode_valid =>
             Dispatched' % CountMod = (Dispatched + 1) % CountMod
    BY <2>t, <2>dec, DispatchCounts
  <2>r. /\ Dispatched \in 0..3*CountMod - 3
        /\ Dispatched' \in 0..3*CountMod - 3
        /\ Dispatched' + 0 = Dispatched'
    <3>1. disp' \in DispRegs
      BY <2>t, <2>dec, DispatchClockTyped
    <3> QED
      BY <1>m, <2>t, <3>1 DEF Dispatched, DispRegs
  <2>1. CASE ~enable
    <3>1. 0 % CountMod = 0
      <4>1. 0 = CountMod * 0 + 0 /\ 0 \in 0..CountMod-1
        BY <1>m
      <4> QED
        BY <4>1, Remainder
    <3>2. fe'.processed_count = 0 /\ ~dec'.decode_valid
      BY <2>1, <2>v, <2>P
    <3>3. /\ disp'.npu_dispatch_count = 0 /\ disp'.gpu_dispatch_count = 0
          /\ disp'.dispatch_error_count = 0
      BY <2>1, <2>D
    <3>4. 0 + 0 + 0 + 0 = 0
      OBVIOUS
    <3> QED
      BY <3>1, <3>2, <3>3, <3>4 DEF DispatchAccounting, AsNumber
  <2>2. CASE enable /\ (fe.error_sticky \/ (fx.desc_done /\ fx.desc_error))
    BY <2>2, <2>t, <2>P DEF DispatchAccounting
  <2>3. CASE enable /\ ~fe.error_sticky /\ ~(fx.desc_done /\ fx.desc_error)
    <3> DEFINE sum == Dispatched + AsNumber(dec.decode_valid)
    <3>1. fe.processed_count = sum % CountMod
      BY <2>3 DEF DispatchAccounting, Dispatched
    <3>2. sum \in Sums /\ Dispatched \in Sums /\ Dispatched' \in Sums
      BY <1>m, <2>r, <2>t DEF Sums, AsNumber
    <3>3. Dispatched' % CountMod = sum % CountMod
      BY <2>3, <2>r, <2>D, <2>t DEF AsNumber
    <3>4. CASE fx.desc_done
      <4>1. dec'.decode_valid /\ fe'.processed_count = Inc(fe.processed_count)
        BY <2>3, <2>v, <2>P, <3>4
      <4>2. Inc(sum % CountMod) = (sum + 1) % CountMod
        BY <3>2, SumMod
      <4>3. Inc(Dispatched' % CountMod) = (Dispatched' + 1) % CountMod
        BY <3>2, SumMod
      <4>4. fe'.processed_count = (Dispatched' + 1) % CountMod
        BY <3>1, <3>3, <4>1, <4>3
      <4> QED
        BY <4>1, <4>4 DEF DispatchAccounting, Dispatched, AsNumber
    <3>5. CASE ~fx.desc_done
      <4>1. ~dec'.decode_valid /\ fe'.processed_count = Dispatched' % CountMod
        BY <2>3, <2>v, <2>P, <3>1, <3>3, <3>5
      <4> QED
        BY <2>r, <4>1 DEF DispatchAccounting, Dispatched, AsNumber
    <3> QED
      BY <3>4, <3>5
  <2> QED
    BY <2>1, <2>2, <2>3, <2>t
<1> QED
  BY <1>1, <1>2

(* Every retired descriptor is in the decoder or in exactly one of the     *)
(* dispatcher's counters, wrapped counters included, unless the frontend   *)
(* has its error flag up; for any jobs, port and client.                   *)
THEOREM DispatchAccounted == Spec => []DispatchAccounting
<1>1. Init => TypeOK /\ Handshake /\ DispatchAccounting
  BY InitTyped, HandshakeInit, AccountingInit
<1>2. (TypeOK /\ Handshake /\ DispatchAccounting) /\ [Next]_vars
        => (TypeOK /\ Handshake /\ DispatchAccounting)'
  BY NextTyped, HandshakeStep, AccountingStep
<1> QED
  BY <1>1, <1>2, PTL DEF Spec

-----------------------------------------------------------------------------
(* A step of the payload fetch, register by register.                      *)
PfDropped(dv) == pf.error_sticky \/ (dv /\ pf.state # "IDLE")

PfAccepts(dv, job) ==
  /\ pf.state = "IDLE" /\ dv
  /\ pf'.state = "INPUT_AR" /\ pf'.payload_valid = FALSE /\ pf'.job = job
  /\ pf'.inputs = MmioInputs /\ pf'.weights = MmioWeights
  /\ pf'.arvalid = TRUE /\ pf'.rready = FALSE /\ pf'.beat_index = 0
  /\ pf'.burst_error = FALSE /\ pf'.error_sticky = PfDropped(dv)

PfIdles(dv) ==
  /\ pf.state = "IDLE" /\ ~dv
  /\ pf'.state = "IDLE" /\ pf'.payload_valid = FALSE /\ pf'.job = pf.job
  /\ pf'.inputs = pf.inputs /\ pf'.weights = pf.weights
  /\ pf'.arvalid = FALSE /\ pf'.rready = FALSE /\ pf'.beat_index = 0
  /\ pf'.burst_error = FALSE /\ pf'.error_sticky = PfDropped(dv)

PfOpens(dv, arready) ==
  /\ pf.state \in {"INPUT_AR", "WEIGHT_AR"} /\ pf.arvalid /\ arready
  /\ pf.state = "INPUT_AR"  => pf'.state = "INPUT_R" /\ pf'.burst_error = FALSE
  /\ pf.state = "WEIGHT_AR" => pf'.state = "WEIGHT_R" /\ pf'.burst_error = pf.burst_error
  /\ pf'.payload_valid = FALSE /\ pf'.job = pf.job
  /\ pf'.inputs = pf.inputs /\ pf'.weights = pf.weights
  /\ pf'.arvalid = FALSE /\ pf'.rready = TRUE /\ pf'.beat_index = 0
  /\ pf'.error_sticky = PfDropped(dv)

PfTakesInput(dv, rvalid, rdata, rerror, rlast) ==
  /\ pf.state = "INPUT_R" /\ rvalid /\ pf.rready
  /\ pf.beat_index < InputBeats =>
       pf'.inputs = [pf.inputs EXCEPT ![pf.beat_index] = rdata]
  /\ ~(pf.beat_index < InputBeats) => pf'.inputs = pf.inputs
  /\ pf'.weights = pf.weights /\ pf'.job = pf.job /\ pf'.payload_valid = FALSE
  /\ pf'.burst_error = (pf.burst_error \/ rerror
                          \/ (rlast /\ pf.beat_index # InputBeats-1))
  /\ pf'.error_sticky = PfDropped(dv)
  /\ rlast => pf'.state = "WEIGHT_AR" /\ pf'.beat_index = 0
  /\ ~rlast => pf'.state = "INPUT_R" /\ pf'.beat_index = (pf.beat_index + 1) % 8
  /\ pf'.rready = ~rlast /\ pf'.arvalid = rlast

PfTakesWeight(dv, rvalid, rdata, rerror, rlast) ==
  /\ pf.state = "WEIGHT_R" /\ rvalid /\ pf.rready
  /\ pf.beat_index < WeightBeats =>
       pf'.weights = [pf.weights EXCEPT ![pf.beat_index] = rdata]
  /\ ~(pf.beat_index < WeightBeats) => pf'.weights = pf.weights
  /\ pf'.inputs = pf.inputs /\ pf'.job = pf.job /\ pf'.payload_valid = rlast
  /\ pf'.burst_error = (pf.burst_error \/ rerror)
  /\ pf'.error_sticky = (PfDropped(dv) \/ (rlast /\ (pf.burst_error \/ rerror
                                             \/ pf.beat_index # WeightBeats-1)))
  /\ rlast => pf'.state = "IDLE" /\ pf'.beat_index = pf.beat_index
  /\ ~rlast => pf'.state = "WEIGHT_R" /\ pf'.beat_index = (pf.beat_index + 1) % 8
  /\ pf'.rready = ~rlast /\ pf'.arvalid = pf.arvalid

PfWaits(dv, arready, rvalid) ==
  /\ \/ pf.state \in {"INPUT_AR", "WEIGHT_AR"} /\ ~(pf.arvalid /\ arready)
     \/ pf.state \in {"INPUT_R", "WEIGHT_R"} /\ ~(rvalid /\ pf.rready)
  /\ pf'.state = pf.state /\ pf'.payload_valid = FALSE /\ pf'.job = pf.job
  /\ pf'.inputs = pf.inputs /\ pf'.weights = pf.weights
  /\ pf'.arvalid = pf.arvalid /\ pf'.rready = pf.rready
  /\ pf'.beat_index = pf.beat_index /\ pf'.burst_error = pf.burst_error
  /\ pf'.error_sticky = PfDropped(dv)

PfStep(en, dv, job, arready, rvalid, rdata, rerror, rlast) ==
  \/ ~en /\ pf' = PfReset
  \/ en /\ PfAccepts(dv, job)
  \/ en /\ PfIdles(dv)
  \/ en /\ PfOpens(dv, arready)
  \/ en /\ PfTakesInput(dv, rvalid, rdata, rerror, rlast)
  \/ en /\ PfTakesWeight(dv, rvalid, rdata, rerror, rlast)
  \/ en /\ PfWaits(dv, arready, rvalid)

(* Every step of PfClock is one of them.                                   *)
LEMMA PfSteps ==
  ASSUME PfTypeOK, NEW en \in BOOLEAN, NEW dv \in BOOLEAN, NEW job,
         NEW arready \in BOOLEAN, NEW rvalid \in BOOLEAN, NEW rdata,
         NEW rerror \in BOOLEAN, NEW rlast \in BOOLEAN,
         PfClock(en, dv, job, arready, rvalid, rdata, rerror, rlast)
  PROVE  PfStep(en, dv, job, arready, rvalid, rdata, rerror, rlast)
<1> DEFINE edge == PfEveryEdge(dv)
<1>p. pf \in PfRegs
  BY DEF PfTypeOK
<1>e. /\ DOMAIN edge = {"state", "payload_valid", "job", "inputs", "weights", "arvalid",
                        "rready", "beat_index", "error_sticky", "burst_error"}
      /\ edge.state = pf.state /\ edge.payload_valid = FALSE /\ edge.job = pf.job
      /\ edge.inputs = pf.inputs /\ edge.weights = pf.weights
      /\ edge.arvalid = pf.arvalid /\ edge.rready = pf.rready
      /\ edge.beat_index = pf.beat_index /\ edge.burst_error = pf.burst_error
      /\ edge.error_sticky = PfDropped(dv)
  BY <1>p, Zenon DEF PfEveryEdge, PfRegs, PfDropped
<1>1. CASE ~en /\ pf' = PfReset
  BY <1>1 DEF PfStep
<1>2. CASE en /\ PfAccept(dv, job)
  <2> HIDE DEF edge
  <2>1. pf' = [edge EXCEPT
              !.state = "INPUT_AR", !.job = job, !.inputs = MmioInputs,
              !.weights = MmioWeights, !.arvalid = TRUE, !.rready = FALSE,
              !.beat_index = 0, !.burst_error = FALSE]
    BY <1>2 DEF PfAccept, edge
  <2>2. PfAccepts(dv, job)
    BY <1>e, <1>2, <2>1, Zenon DEF PfAccept, PfAccepts
  <2> QED
    BY <1>2, <2>2 DEF PfStep
<1>3. CASE en /\ PfIdle(dv)
  <2> HIDE DEF edge
  <2>1. pf' = [edge EXCEPT !.arvalid = FALSE, !.rready = FALSE,
                           !.beat_index = 0, !.burst_error = FALSE]
    BY <1>3 DEF PfIdle, edge
  <2>2. PfIdles(dv)
    BY <1>e, <1>3, <2>1, Zenon DEF PfIdle, PfIdles
  <2> QED
    BY <1>3, <2>2 DEF PfStep
<1>4. CASE en /\ PfAddressTaken(dv, arready)
  <2> HIDE DEF edge
  <2>1. pf' = [edge EXCEPT !.arvalid = FALSE, !.rready = TRUE, !.beat_index = 0,
                 !.burst_error = IF pf.state = "INPUT_AR" THEN FALSE ELSE edge.burst_error,
                 !.state = IF pf.state = "INPUT_AR" THEN "INPUT_R" ELSE "WEIGHT_R"]
    BY <1>4 DEF PfAddressTaken, edge
  <2>2. PfOpens(dv, arready)
    BY <1>e, <1>4, <2>1 DEF PfAddressTaken, PfOpens
  <2> QED
    BY <1>4, <2>2 DEF PfStep
<1>5. CASE en /\ PfInputBeat(dv, rvalid, rdata, rerror, rlast)
  <2> DEFINE inputs == IF pf.beat_index < InputBeats
                       THEN [edge.inputs EXCEPT ![pf.beat_index] = rdata] ELSE edge.inputs
             burst == edge.burst_error \/ rerror \/ (rlast /\ pf.beat_index # InputBeats-1)
             beat == IF rlast THEN 0 ELSE (edge.beat_index + 1) % 8
             more == ~rlast
             state == IF rlast THEN "WEIGHT_AR" ELSE edge.state
  <2>1. pf' = [edge EXCEPT !.inputs = inputs, !.burst_error = burst, !.beat_index = beat,
                           !.rready = more, !.arvalid = rlast, !.state = state]
    BY <1>5 DEF PfInputBeat
  <2> HIDE DEF edge
  <2>2. /\ pf'.state = state /\ pf'.payload_valid = FALSE /\ pf'.job = pf.job
        /\ pf'.inputs = inputs /\ pf'.weights = pf.weights
        /\ pf'.arvalid = rlast /\ pf'.rready = more /\ pf'.beat_index = beat
        /\ pf'.burst_error = burst /\ pf'.error_sticky = PfDropped(dv)
    <3> HIDE DEF inputs, burst, beat, more, state
    <3> QED
      BY <1>e, <2>1, Zenon
  <2>3. PfTakesInput(dv, rvalid, rdata, rerror, rlast)
    BY <1>e, <1>5, <2>2 DEF PfInputBeat, PfTakesInput
  <2> QED
    BY <1>5, <2>3 DEF PfStep
<1>6. CASE en /\ PfWeightBeat(dv, rvalid, rdata, rerror, rlast)
  <2> DEFINE weights == IF pf.beat_index < WeightBeats
                        THEN [edge.weights EXCEPT ![pf.beat_index] = rdata] ELSE edge.weights
             burst == edge.burst_error \/ rerror
             beat == IF rlast THEN edge.beat_index ELSE (edge.beat_index + 1) % 8
             more == ~rlast
             sticky == edge.error_sticky \/ (rlast /\ (pf.burst_error \/ rerror
                                                \/ pf.beat_index # WeightBeats-1))
             state == IF rlast THEN "IDLE" ELSE edge.state
  <2>1. pf' = [edge EXCEPT !.weights = weights, !.burst_error = burst, !.beat_index = beat,
                           !.rready = more, !.payload_valid = rlast,
                           !.error_sticky = sticky, !.state = state]
    BY <1>6 DEF PfWeightBeat
  <2> HIDE DEF edge
  <2>2. /\ pf'.state = state /\ pf'.payload_valid = rlast /\ pf'.job = pf.job
        /\ pf'.inputs = pf.inputs /\ pf'.weights = weights
        /\ pf'.arvalid = pf.arvalid /\ pf'.rready = more /\ pf'.beat_index = beat
        /\ pf'.burst_error = burst /\ pf'.error_sticky = sticky
    <3> HIDE DEF weights, burst, beat, more, sticky, state
    <3> QED
      BY <1>e, <2>1, Zenon
  <2>3. PfTakesWeight(dv, rvalid, rdata, rerror, rlast)
    BY <1>e, <1>6, <2>2 DEF PfWeightBeat, PfTakesWeight
  <2> QED
    BY <1>6, <2>3 DEF PfStep
<1>7. CASE en /\ PfWait(dv, arready, rvalid)
  <2> HIDE DEF edge
  <2>1. pf' = edge
    BY <1>7 DEF PfWait, edge
  <2>2. PfWaits(dv, arready, rvalid)
    BY <1>e, <1>7, <2>1 DEF PfWait, PfWaits
  <2> QED
    BY <1>7, <2>2 DEF PfStep
<1> QED
  BY <1>1, <1>2, <1>3, <1>4, <1>5, <1>6, <1>7 DEF PfClock

-----------------------------------------------------------------------------
(* A step of the execute stub, as far as a job's progress depends on it.   *)
ExStarts(dv, job, busy, done) ==
  /\ dv /\ ~ex.inflight /\ ~busy
  /\ ex'.npu_start_pulse = TRUE /\ ex'.store_request_pulse = FALSE
  /\ ex'.npu_model = job.model /\ ex'.last_output = job.output
  /\ ex'.inflight = TRUE /\ ex'.exec_count = Inc(ex.exec_count)
  /\ ex'.error_sticky = ex.error_sticky

ExRejects(dv, job, busy, done) ==
  /\ dv /\ (ex.inflight \/ busy)
  /\ ex'.npu_start_pulse = FALSE /\ ex'.store_request_pulse = (ex.inflight /\ done)
  /\ ex'.npu_model = ex.npu_model /\ ex'.last_output = job.output
  /\ ex'.inflight = (ex.inflight /\ ~done) /\ ex'.exec_count = ex.exec_count
  /\ ex'.error_sticky = TRUE

ExGoesOn(dv, done) ==
  /\ ~dv
  /\ ex'.npu_start_pulse = FALSE /\ ex'.store_request_pulse = (ex.inflight /\ done)
  /\ ex'.npu_model = ex.npu_model /\ ex'.last_output = ex.last_output
  /\ ex'.inflight = (ex.inflight /\ ~done) /\ ex'.exec_count = ex.exec_count
  /\ ex'.error_sticky = ex.error_sticky

ExStep(en, dv, job, busy, done) ==
  \/ ~en /\ ex'.npu_start_pulse = FALSE /\ ex'.store_request_pulse = FALSE
         /\ ex'.inflight = FALSE /\ ex'.exec_count = 0
  \/ en /\ ExStarts(dv, job, busy, done)
  \/ en /\ ExRejects(dv, job, busy, done)
  \/ en /\ ExGoesOn(dv, done)

(* Every step of ExClock is one of them.                                   *)
LEMMA ExSteps ==
  ASSUME ExTypeOK, NEW en \in BOOLEAN, NEW dv \in BOOLEAN, NEW job,
         NEW busy \in BOOLEAN, NEW done \in BOOLEAN,
         ExClock(en, dv, job, busy, done)
  PROVE  ExStep(en, dv, job, busy, done)
<1> DEFINE edge == ExEveryEdge(busy, done)
           request == ex.inflight /\ done
           waiting == ex.inflight /\ ~done
<1>t. ex \in ExRegs /\ ex.inflight \in BOOLEAN /\ ex.error_sticky \in BOOLEAN
  BY DEF ExTypeOK, ExRegs
<1>e. /\ DOMAIN edge = {"npu_start_pulse", "store_request_pulse", "npu_model",
                        "last_output", "inflight", "exec_count", "error_sticky",
                        "last_model_id", "exec_status"}
      /\ edge.npu_start_pulse = FALSE /\ edge.store_request_pulse = request
      /\ edge.npu_model = ex.npu_model /\ edge.last_output = ex.last_output
      /\ edge.inflight = waiting /\ edge.exec_count = ex.exec_count
      /\ edge.error_sticky = ex.error_sticky
  <2> DEFINE status == ExecStatusWord(ex.exec_count, ex.last_model_id, ExFlags(busy))
  <2>1. edge = [ex EXCEPT !.npu_start_pulse = FALSE, !.exec_status = status,
                          !.store_request_pulse = request, !.inflight = waiting]
    BY DEF ExEveryEdge
  <2> HIDE DEF edge, status, request, waiting
  <2> QED
    BY <1>t, <2>1, Zenon DEF ExRegs
<1>1. CASE ~en /\ ExDisabled
  BY <1>1 DEF ExDisabled, ExReset, ExStep
<1>2. CASE en /\ ExStart(dv, job, busy, done)
  <2>1. ex' = [edge EXCEPT
                !.last_output = job.output, !.last_model_id = job.model,
                !.npu_start_pulse = TRUE, !.npu_model = job.model,
                !.inflight = TRUE, !.exec_count = Inc(edge.exec_count)]
    BY <1>2 DEF ExStart, ExTaken
  <2>2. /\ ex'.npu_start_pulse = TRUE /\ ex'.store_request_pulse = request
        /\ ex'.npu_model = job.model /\ ex'.last_output = job.output
        /\ ex'.inflight = TRUE /\ ex'.exec_count = Inc(ex.exec_count)
        /\ ex'.error_sticky = ex.error_sticky
    <3> HIDE DEF edge, request, waiting
    <3> QED
      BY <1>e, <2>1, Zenon
  <2> QED
    BY <1>t, <1>2, <2>2 DEF ExStart, ExTaken, ExStarts, ExStep
<1>3. CASE en /\ ExReject(dv, job, busy, done)
  <2>1. ex' = [edge EXCEPT !.last_output = job.output, !.last_model_id = job.model,
                           !.error_sticky = TRUE]
    BY <1>3 DEF ExReject
  <2>2. /\ ex'.npu_start_pulse = FALSE /\ ex'.store_request_pulse = request
        /\ ex'.npu_model = ex.npu_model /\ ex'.last_output = job.output
        /\ ex'.inflight = waiting /\ ex'.exec_count = ex.exec_count
        /\ ex'.error_sticky = TRUE
    <3> HIDE DEF edge, request, waiting
    <3> QED
      BY <1>e, <2>1, Zenon
  <2> QED
    BY <1>t, <1>3, <2>2 DEF ExReject, ExTaken, ExRejects, ExStep
<1>4. CASE en /\ ~dv /\ ex' = edge
  BY <1>t, <1>4, <1>e DEF ExGoesOn, ExStep
<1> QED
  BY <1>1, <1>2, <1>3, <1>4 DEF ExClock

-----------------------------------------------------------------------------
(* NpuAccounting: the count.  Its other half needs SoftStep, see below.    *)
NpuCounted ==
  \/ pf.error_sticky \/ ex.error_sticky
  \/ disp.npu_dispatch_count =
       (ex.exec_count + AsNumber(disp.npu_dispatch_pulse)
          + AsNumber(pf.state # "IDLE") + AsNumber(pf.payload_valid)) % CountMod

Started == ex.exec_count + AsNumber(disp.npu_dispatch_pulse)
             + AsNumber(pf.state # "IDLE") + AsNumber(pf.payload_valid)

(* What a step of the dispatcher does to its NPU counter and pulse.        *)
LEMMA NpuDispatch ==
  ASSUME disp \in DispRegs, dec \in DecRegs, NEW en \in BOOLEAN, DispatchClock(en)
  PROVE  /\ disp'.npu_dispatch_pulse \in BOOLEAN
         /\ ~en => disp'.npu_dispatch_count = 0 /\ disp'.npu_dispatch_pulse = FALSE
         /\ en => \/ /\ disp'.npu_dispatch_pulse = TRUE
                     /\ disp'.npu_dispatch_count = Inc(disp.npu_dispatch_count)
                     /\ dec.decode_valid /\ disp'.npu_job = JobIn(dec.desc)
                     /\ "NPU_INFER" \in OpcodesIn(dec.desc[0])
                  \/ /\ disp'.npu_dispatch_pulse = FALSE
                     /\ disp'.npu_dispatch_count = disp.npu_dispatch_count
<1> DEFINE quiet == DispQuiet(disp)
<1>q. /\ DOMAIN quiet = {"npu_dispatch_pulse", "npu_job", "gpu_dispatch_pulse",
                         "gpu_cmd_opcode", "gpu_id", "dispatch_status", "last_opcode",
                         "npu_dispatch_count", "gpu_dispatch_count", "dispatch_error_count"}
      /\ quiet.npu_dispatch_pulse = FALSE
      /\ quiet.npu_dispatch_count = disp.npu_dispatch_count
  BY Zenon DEF DispQuiet, DispRegs
<1>1. CASE ~en /\ DispDisabled
  <2>1. disp' = [quiet EXCEPT !.dispatch_status = "IDLE", !.last_opcode = "NOP",
                   !.npu_dispatch_count = 0, !.gpu_dispatch_count = 0,
                   !.dispatch_error_count = 0]
    BY <1>1 DEF DispDisabled
  <2> HIDE DEF quiet
  <2>2. disp'.npu_dispatch_count = 0 /\ disp'.npu_dispatch_pulse = FALSE
    BY <1>q, <2>1, Zenon
  <2> QED
    BY <1>1, <2>2
<1>2. ASSUME NEW opcode \in OpcodesIn(dec.desc[0]),
             en /\ dec.decode_valid /\ DispNpu(opcode)
      PROVE  /\ disp'.npu_dispatch_pulse = TRUE
             /\ disp'.npu_dispatch_count = Inc(disp.npu_dispatch_count)
             /\ dec.decode_valid /\ disp'.npu_job = JobIn(dec.desc)
             /\ "NPU_INFER" \in OpcodesIn(dec.desc[0])
  <2>1. disp' = [quiet EXCEPT !.npu_dispatch_pulse = TRUE,
                   !.npu_job = JobIn(dec.desc),
                   !.npu_dispatch_count = Inc(quiet.npu_dispatch_count),
                   !.dispatch_status = "IDLE", !.last_opcode = opcode]
    BY <1>2 DEF DispNpu
  <2> HIDE DEF quiet
  <2>2. /\ disp'.npu_dispatch_count = Inc(disp.npu_dispatch_count)
        /\ disp'.npu_dispatch_pulse = TRUE /\ disp'.npu_job = JobIn(dec.desc)
    BY <1>q, <2>1, Zenon
  <2> QED
    BY <1>2, <2>2 DEF DispNpu
<1>3. ASSUME NEW opcode \in OpcodesIn(dec.desc[0]),
             en /\ dec.decode_valid /\ DispGpu(opcode)
      PROVE  /\ disp'.npu_dispatch_pulse = FALSE
             /\ disp'.npu_dispatch_count = disp.npu_dispatch_count
  <2> DEFINE op == IF opcode = "GPU_CLEAR" THEN "CLEAR" ELSE "DRAW_TRI"
  <2>1. disp' = [quiet EXCEPT !.gpu_dispatch_pulse = TRUE, !.gpu_cmd_opcode = op,
                   !.gpu_id = dec.desc[0].id,
                   !.gpu_dispatch_count = Inc(quiet.gpu_dispatch_count),
                   !.dispatch_status = "IDLE", !.last_opcode = opcode]
    BY <1>3 DEF DispGpu
  <2> HIDE DEF quiet, op
  <2>2. /\ disp'.npu_dispatch_count = disp.npu_dispatch_count
        /\ disp'.npu_dispatch_pulse = FALSE
    BY <1>q, <2>1, Zenon
  <2> QED
    BY <1>3, <2>2
<1>4. ASSUME NEW opcode \in OpcodesIn(dec.desc[0]),
             en /\ dec.decode_valid /\ DispError(opcode)
      PROVE  /\ disp'.npu_dispatch_pulse = FALSE
             /\ disp'.npu_dispatch_count = disp.npu_dispatch_count
  <2>1. disp' = [quiet EXCEPT
                   !.dispatch_error_count = Inc(quiet.dispatch_error_count),
                   !.dispatch_status = "ERROR", !.last_opcode = opcode]
    BY <1>4 DEF DispError
  <2> HIDE DEF quiet
  <2>2. /\ disp'.npu_dispatch_count = disp.npu_dispatch_count
        /\ disp'.npu_dispatch_pulse = FALSE
    BY <1>q, <2>1, Zenon
  <2> QED
    BY <1>4, <2>2
<1>5. CASE en /\ ~dec.decode_valid /\ disp' = quiet
  BY <1>5, <1>q
<1> QED
  BY <1>1, <1>2, <1>3, <1>4, <1>5 DEF DispatchClock

-----------------------------------------------------------------------------
(* Nothing is dispatched or started at reset.                              *)
LEMMA NpuCountedInit == Init => NpuCounted
<1>1. 0 % CountMod = 0
  <2>1. 0 = CountMod * 0 + 0 /\ 0 \in 0..CountMod-1
    BY TypesAssumption DEF TypesAssumption
  <2> QED
    BY <2>1, Remainder
<1> QED
  BY <1>1 DEF Init, DecInit, PfInit, PfReset, ExecInit, ExReset, NpuCounted, AsNumber

(* NpuCounted is inductive relative to TypeOK.                          *)
LEMMA NpuCountedStep == TypeOK /\ NpuCounted /\ [Next]_vars => NpuCounted'
<1> SUFFICES ASSUME TypeOK, NpuCounted, [Next]_vars PROVE NpuCounted'
  OBVIOUS
<1>m. CountMod \in Nat /\ CountMod > 1
  BY TypesAssumption DEF TypesAssumption
<1>1. CASE UNCHANGED vars
  BY <1>1 DEF vars, NpuCounted
<1>2. CASE Next
  <2>p. PICK arready \in ReadySet("AR", PortArvalid /\ ~rd.busy),
             awready \in ReadySet("AW", st.awvalid /\ ~wr.busy),
             wready \in ReadySet("W", st.wvalid /\ wr.busy /\ wr.beat < OutBeats) :
          AccelClock(arready, awready, wready)
    BY <1>2 DEF Next, Edge
  <2>t. /\ PfTypeOK /\ ExTypeOK /\ dec \in DecRegs /\ disp \in DispRegs
        /\ enable \in BOOLEAN /\ disp.npu_dispatch_pulse \in BOOLEAN
        /\ disp.npu_dispatch_count \in 0..CountMod-1
        /\ npu.busy \in BOOLEAN /\ npu.done \in BOOLEAN
        /\ pf.payload_valid \in BOOLEAN /\ pf.error_sticky \in BOOLEAN
        /\ ex.exec_count \in 0..CountMod-1 /\ ex.error_sticky \in BOOLEAN
        /\ rd.rerror \in BOOLEAN
    BY DEF TypeOK, PfTypeOK, PfRegs, ExTypeOK, ExRegs, NpuTypeOK, DecTypeOK, DispRegs,
       RegsTypeOK, RegFile, enable, PortTypeOK
  <2>pf. PfStep(enable, disp.npu_dispatch_pulse, disp.npu_job, NpuArready(arready),
                NpuRvalid(rd.rvalid), rd.rdata, rd.rerror, Rlast)
    <3>1. PfClock(enable, disp.npu_dispatch_pulse, disp.npu_job, NpuArready(arready),
                  NpuRvalid(rd.rvalid), rd.rdata, rd.rerror, Rlast)
      BY <2>p DEF AccelClock
    <3>2. /\ NpuArready(arready) \in BOOLEAN /\ NpuRvalid(rd.rvalid) \in BOOLEAN
          /\ Rlast \in BOOLEAN
      BY DEF NpuArready, NpuRvalid, Rlast
    <3> QED
      BY <2>t, <3>1, <3>2, PfSteps
  <2>ex. ExStep(enable, pf.payload_valid, pf.job, npu.busy, npu.done)
    <3>1. ExClock(enable, pf.payload_valid, pf.job, npu.busy, npu.done)
      BY <2>p DEF AccelClock
    <3> QED
      BY <2>t, <3>1, ExSteps
  <2>disp. /\ disp'.npu_dispatch_pulse \in BOOLEAN
           /\ ~enable => disp'.npu_dispatch_count = 0 /\ disp'.npu_dispatch_pulse = FALSE
           /\ enable => \/ /\ disp'.npu_dispatch_pulse = TRUE
                           /\ disp'.npu_dispatch_count = Inc(disp.npu_dispatch_count)
                        \/ /\ disp'.npu_dispatch_pulse = FALSE
                           /\ disp'.npu_dispatch_count = disp.npu_dispatch_count
    <3>1. DispatchClock(enable)
      BY <2>p DEF AccelClock
    <3> QED
      BY <2>t, <3>1, NpuDispatch
  <2>1. CASE ~enable
    <3>1. 0 % CountMod = 0
      <4>1. 0 = CountMod * 0 + 0 /\ 0 \in 0..CountMod-1
        BY <1>m
      <4> QED
        BY <4>1, Remainder
    <3>2. pf'.state = "IDLE" /\ pf'.payload_valid = FALSE
      BY <2>1, <2>pf DEF PfStep, PfReset
    <3>3. ex'.exec_count = 0
      BY <2>1, <2>ex DEF ExStep
    <3> QED
      BY <2>1, <2>disp, <3>1, <3>2, <3>3 DEF NpuCounted, AsNumber
  <2>2. CASE enable /\ (pf'.error_sticky \/ ex'.error_sticky)
    BY <2>2 DEF NpuCounted
  <2>3. CASE enable /\ ~pf'.error_sticky /\ ~ex'.error_sticky
    <3> DEFINE A == AsNumber(disp.npu_dispatch_pulse)
               B == AsNumber(pf.state # "IDLE")
               C == AsNumber(pf.payload_valid)
               n == ex.exec_count
    <3>0. A \in 0..1 /\ B \in 0..1 /\ C \in 0..1 /\ n \in 0..CountMod-1 /\ A' \in 0..1
      BY <2>t, <2>disp DEF AsNumber
    <3>1. /\ ~pf.error_sticky
          /\ AsNumber(pf'.state # "IDLE") + AsNumber(pf'.payload_valid) = A + B
          /\ AsNumber(pf'.state # "IDLE") \in 0..1 /\ AsNumber(pf'.payload_valid) \in 0..1
      <4>1. CASE PfAccepts(disp.npu_dispatch_pulse, disp.npu_job)
        BY <2>3, <2>t, <4>1 DEF PfAccepts, PfDropped, AsNumber
      <4>2. CASE PfIdles(disp.npu_dispatch_pulse)
        BY <2>3, <2>t, <4>2 DEF PfIdles, PfDropped, AsNumber
      <4>3. CASE PfOpens(disp.npu_dispatch_pulse, NpuArready(arready))
        BY <2>3, <2>t, <4>3 DEF PfOpens, PfDropped, AsNumber
      <4>4. CASE PfTakesInput(disp.npu_dispatch_pulse, NpuRvalid(rd.rvalid),
                              rd.rdata, rd.rerror, Rlast)
        BY <2>3, <2>t, <4>4 DEF PfTakesInput, PfDropped, AsNumber
      <4>5. CASE PfTakesWeight(disp.npu_dispatch_pulse, NpuRvalid(rd.rvalid),
                               rd.rdata, rd.rerror, Rlast)
        BY <2>3, <2>t, <4>5 DEF PfTakesWeight, PfDropped, AsNumber
      <4>6. CASE PfWaits(disp.npu_dispatch_pulse, NpuArready(arready),
                         NpuRvalid(rd.rvalid))
        BY <2>3, <2>t, <4>6 DEF PfWaits, PfDropped, AsNumber
      <4> QED
        BY <2>3, <2>pf, <4>1, <4>2, <4>3, <4>4, <4>5, <4>6 DEF PfStep
    <3>2. /\ ~ex.error_sticky
          /\ ex'.exec_count = IF pf.payload_valid THEN Inc(n) ELSE n
      BY <2>3, <2>ex DEF ExStep, ExStarts, ExRejects, ExGoesOn
    <3>3. disp.npu_dispatch_count = Started % CountMod
      BY <3>1, <3>2 DEF NpuCounted, Started
    <3>4. Started = n + A + B + C /\ Started \in Sums
      BY <1>m, <3>0 DEF Started, Sums
    <3> DEFINE k == ex'.exec_count
    <3>5. Started' = k + A' + (A + B)
      <4>1. k \in Int
        BY <1>m, <3>0, <3>2 DEF Inc
      <4> QED
        BY <3>0, <3>1, <4>1 DEF Started
    <3>6. Started' % CountMod = (Started + A') % CountMod
      <4>1. CASE pf.payload_valid
        <5>1. k = Inc(n) /\ C = 1
          BY <3>2, <4>1 DEF AsNumber
        <5>2. A' + (A + B) \in 0..3*CountMod-1
          BY <1>m, <3>0
        <5>3. (Inc(n) + (A' + (A + B))) % CountMod = (n + 1 + (A' + (A + B))) % CountMod
          BY <3>0, <5>2, IncInSum
        <5>4. Started' = Inc(n) + (A' + (A + B))
          <6>1. Inc(n) \in Int
            BY <1>m, <3>0 DEF Inc
          <6> QED
            BY <3>0, <3>5, <5>1, <6>1
        <5>5. n + 1 + (A' + (A + B)) = Started + A'
          BY <3>0, <3>4, <5>1
        <5> QED
          BY <5>3, <5>4, <5>5
      <4>2. CASE ~pf.payload_valid
        <5>1. k = n /\ C = 0
          BY <3>2, <4>2 DEF AsNumber
        <5>2. Started' = Started + A'
          BY <3>0, <3>4, <3>5, <5>1
        <5> QED
          BY <5>2
      <4> QED
        BY <4>1, <4>2
    <3>7. disp'.npu_dispatch_count = Started' % CountMod
      <4>1. CASE disp'.npu_dispatch_pulse
        <5>1. A' = 1
          BY <4>1 DEF AsNumber
        <5>2. disp'.npu_dispatch_count = Inc(Started % CountMod)
          BY <2>3, <2>disp, <3>3, <4>1
        <5> QED
          BY <3>4, <3>6, <5>1, <5>2, SumMod
      <4>2. CASE ~disp'.npu_dispatch_pulse
        <5>1. A' = 0 /\ Started + 0 = Started
          BY <3>0, <3>4, <4>2 DEF AsNumber
        <5> QED
          BY <2>3, <2>disp, <3>3, <3>6, <4>2, <5>1
      <4> QED
        BY <4>1, <4>2
    <3> QED
      BY <3>7 DEF NpuCounted, Started
  <2> QED
    BY <2>1, <2>2, <2>3, <2>t
<1> QED
  BY <1>1, <1>2

-----------------------------------------------------------------------------
(* ErrorFlagged: where the error of a beat is remembered at each stage.    *)
PfJunk ==
  \/ \E b \in 0..InputBeats-1 : pf.inputs[b] = Junk
  \/ \E b \in 0..WeightBeats-1 : pf.weights[b] = Junk

ErrorKept ==
  /\ rd.rvalid /\ rd.rdata = Junk => rd.rerror
  /\ pf.state = "INPUT_AR" => ~PfJunk
  /\ pf.state \in {"INPUT_R", "WEIGHT_AR", "WEIGHT_R"} /\ PfJunk => pf.burst_error
  /\ pf.payload_valid /\ PfJunk => pf.error_sticky

(* A word of the payload is junk only if a beat brought it.                *)
LEMMA PfJunkIsJunk ==
  ASSUME PfTypeOK
  PROVE  PfJunk <=> Junk \in {pf.inputs[b] : b \in DOMAIN pf.inputs}
                               \cup {pf.weights[b] : b \in DOMAIN pf.weights}
<1>1. DOMAIN pf.inputs = 0..InputBeats-1 /\ DOMAIN pf.weights = 0..WeightBeats-1
  BY DEF PfTypeOK, PfRegs, Inputs, Weights
<1> QED
  BY <1>1, Zenon DEF PfJunk

(* A beat shown without an error is not junk.                              *)
LEMMA RdShowsError ==
  ASSUME PortTypeOK, rd.rvalid /\ rd.rdata = Junk => rd.rerror,
         NEW arvalid \in BOOLEAN, NEW addr, NEW arready \in BOOLEAN, NEW rready \in BOOLEAN,
         RdClock(arvalid, addr, arready, rready)
  PROVE  rd'.rvalid /\ rd'.rdata = Junk => rd'.rerror
<1>0. rd \in RdRegs /\ rd.addr \in Address
  BY DEF PortTypeOK, RdRegs
<1>f. ASSUME NEW b PROVE Fetched(rd.addr, b) # Junk
  <2>1. MemWord("desc", 0, b).buf = "desc" /\ Junk.buf = "junk"
    BY DEF MemWord, Junk
  <2> QED
    BY <1>0 DEF Fetched, SlotWord, MemWord, Junk, Address
<1>s. ASSUME NEW b, Showing(b) PROVE rd'.rdata = Junk => rd'.rerror
  <2>1. CASE rd' = Shown(b, Fetched(rd.addr, b), FALSE)
    <3> DEFINE w == Fetched(rd.addr, b)
    <3>1. rd' = [rd EXCEPT !.beat = b, !.rvalid = TRUE, !.rdata = w,
                           !.rerror = FALSE, !.errors = rd.errors]
      BY <2>1 DEF Shown
    <3>2. w # Junk
      BY <1>f
    <3> HIDE DEF w
    <3>3. rd'.rdata = w
      BY <1>0, <3>1, Zenon DEF RdRegs
    <3> QED
      BY <3>2, <3>3
  <2>2. CASE rd' = Shown(b, Junk, TRUE)
    <3>1. rd' = [rd EXCEPT !.beat = b, !.rvalid = TRUE, !.rdata = Junk,
                           !.rerror = TRUE, !.errors = rd.errors + 1]
      BY <2>2 DEF Shown
    <3>2. rd'.rerror = TRUE
      BY <1>0, <3>1, Zenon DEF RdRegs
    <3> QED
      BY <3>2
  <2> QED
    BY <1>s, <2>1, <2>2 DEF Showing
<1>1. CASE RdAccept(arvalid, addr, arready)
  <2>1. rd'.rvalid = rd.rvalid /\ rd'.rdata = rd.rdata /\ rd'.rerror = rd.rerror
    BY <1>0, <1>1, Zenon DEF RdAccept, RdRegs
  <2> QED
    BY <2>1
<1>2. CASE RdPresent
  BY <1>2, <1>s DEF RdPresent
<1>3. CASE RdNext(rready)
  <2>1. CASE rd' = [rd EXCEPT !.beat = @ + 1, !.rvalid = FALSE]
    <3>1. rd'.rvalid = FALSE
      BY <1>0, <2>1, Zenon DEF RdRegs
    <3> QED
      BY <3>1
  <2> QED
    BY <1>3, <1>s, <2>1 DEF RdNext
<1>4. CASE RdLast(rready)
  <2>1. rd'.rvalid = FALSE
    BY <1>0, <1>4, Zenon DEF RdLast, RdRegs
  <2> QED
    BY <2>1
<1>5. CASE RdHold(arvalid, arready, rready)
  BY <1>5 DEF RdHold
<1> QED
  BY <1>1, <1>2, <1>3, <1>4, <1>5 DEF RdClock

(* The words the payload registers start from are not errored beats.       *)
LEMMA MmioNotJunk == \A b : MmioWord(b) # Junk /\ Zero # Junk
  BY DEF MmioWord, MemWord, Junk, Zero

(* One beat into one buffer.                                               *)
LEMMA JunkBeat ==
  ASSUME NEW n \in Nat, NEW f \in [0..n-1 -> Word], NEW k, NEW w,
         NEW g, g = f \/ g = [f EXCEPT ![k] = w],
         NEW b \in 0..n-1, g[b] = Junk
  PROVE  w = Junk \/ f[b] = Junk
  OBVIOUS

(* ErrorKept is inductive relative to TypeOK.                              *)
LEMMA ErrorKeptStep == TypeOK /\ ErrorKept /\ [Next]_vars => ErrorKept'
<1> SUFFICES ASSUME TypeOK, ErrorKept, [Next]_vars PROVE ErrorKept'
  OBVIOUS
<1>1. CASE UNCHANGED vars
  BY <1>1 DEF vars, ErrorKept, PfJunk
<1>2. CASE Next
  <2>p. PICK arready \in ReadySet("AR", PortArvalid /\ ~rd.busy),
             awready \in ReadySet("AW", st.awvalid /\ ~wr.busy),
             wready \in ReadySet("W", st.wvalid /\ wr.busy /\ wr.beat < OutBeats) :
          PortClock(arready, awready, wready) /\ AccelClock(arready, awready, wready)
    BY <1>2 DEF Next, Edge
  <2>t. /\ PfTypeOK /\ PortTypeOK /\ enable \in BOOLEAN /\ arready \in BOOLEAN
        /\ disp.npu_dispatch_pulse \in BOOLEAN /\ rd.rerror \in BOOLEAN
        /\ rd.rvalid \in BOOLEAN /\ pf.burst_error \in BOOLEAN
        /\ pf.error_sticky \in BOOLEAN /\ pf.payload_valid \in BOOLEAN
        /\ pf.inputs \in [0..InputBeats-1 -> Word]
        /\ pf.weights \in [0..WeightBeats-1 -> Word]
    BY <2>p DEF TypeOK, PfTypeOK, PfRegs, DecTypeOK, DispRegs, RegsTypeOK, RegFile, enable,
       PortTypeOK, ReadySet, Inputs, Weights
  <2>w. /\ NpuArready(arready) \in BOOLEAN /\ NpuRvalid(rd.rvalid) \in BOOLEAN
        /\ Rlast \in BOOLEAN /\ PortArvalid \in BOOLEAN /\ PortRready \in BOOLEAN
        /\ NpuRvalid(rd.rvalid) => rd.rvalid
    BY DEF NpuArready, NpuRvalid, Rlast, PortArvalid, ArbArvalid, PortRready, ArbRready,
       TypeOK, FxTypeOK, FxRegs, PfTypeOK, PfRegs, GrantDesc, GrantNpu
  <2>rd. rd'.rvalid /\ rd'.rdata = Junk => rd'.rerror
    BY <2>p, <2>t, <2>w, RdShowsError DEF PortClock, ErrorKept
  <2>pf. PfStep(enable, disp.npu_dispatch_pulse, disp.npu_job, NpuArready(arready),
                NpuRvalid(rd.rvalid), rd.rdata, rd.rerror, Rlast)
    BY <2>p, <2>t, <2>w, PfSteps DEF AccelClock
  <2> DEFINE dv == disp.npu_dispatch_pulse
             rv == NpuRvalid(rd.rvalid)
  <2>r. rv /\ rd.rdata = Junk => rd.rerror
    BY <2>w DEF ErrorKept
  <2>1. CASE pf' = PfReset
    BY <2>1, <2>rd, MmioNotJunk DEF PfReset, ErrorKept, PfJunk, ZeroInputs, ZeroWeights
  <2>2. CASE PfAccepts(dv, disp.npu_job)
    <3>1. ~PfJunk'
      BY <2>2, MmioNotJunk DEF PfAccepts, PfJunk, MmioInputs, MmioWeights
    <3> QED
      BY <2>2, <2>rd, <3>1 DEF PfAccepts, ErrorKept
  <2>3. CASE PfIdles(dv)
    BY <2>3, <2>rd DEF PfIdles, ErrorKept
  <2>4. CASE PfOpens(dv, NpuArready(arready))
    BY <2>4, <2>rd DEF PfOpens, ErrorKept, PfJunk
  <2>5. CASE PfTakesInput(dv, rv, rd.rdata, rd.rerror, Rlast)
    <3>1. PfJunk' => PfJunk \/ rd.rdata = Junk
      <4>1. ASSUME NEW b \in 0..InputBeats-1, pf'.inputs[b] = Junk
            PROVE  rd.rdata = Junk \/ pf.inputs[b] = Junk
        <5>1. \/ pf'.inputs = pf.inputs
              \/ pf'.inputs = [pf.inputs EXCEPT ![pf.beat_index] = rd.rdata]
          BY <2>5 DEF PfTakesInput
        <5> QED
          BY <2>t, <4>1, <5>1, JunkBeat DEF InputBeats
      <4> QED
        BY <2>5, <4>1 DEF PfTakesInput, PfJunk
    <3>2. PfJunk' => pf'.burst_error
      BY <2>5, <2>r, <3>1 DEF PfTakesInput, ErrorKept
    <3> QED
      BY <2>5, <2>rd, <3>2 DEF PfTakesInput, ErrorKept
  <2>6. CASE PfTakesWeight(dv, rv, rd.rdata, rd.rerror, Rlast)
    <3>1. PfJunk' => PfJunk \/ rd.rdata = Junk
      <4>1. ASSUME NEW b \in 0..WeightBeats-1, pf'.weights[b] = Junk
            PROVE  rd.rdata = Junk \/ pf.weights[b] = Junk
        <5>1. \/ pf'.weights = pf.weights
              \/ pf'.weights = [pf.weights EXCEPT ![pf.beat_index] = rd.rdata]
          BY <2>6 DEF PfTakesWeight
        <5> QED
          BY <2>t, <4>1, <5>1, JunkBeat DEF WeightBeats
      <4> QED
        BY <2>6, <4>1 DEF PfTakesWeight, PfJunk
    <3>2. PfJunk' => pf'.burst_error /\ (Rlast => pf'.error_sticky)
      BY <2>6, <2>r, <3>1 DEF PfTakesWeight, ErrorKept
    <3> QED
      BY <2>6, <2>rd, <2>w, <3>2 DEF PfTakesWeight, ErrorKept
  <2>7. CASE PfWaits(dv, NpuArready(arready), rv)
    BY <2>7, <2>rd DEF PfWaits, ErrorKept, PfJunk
  <2> QED
    BY <2>pf, <2>1, <2>2, <2>3, <2>4, <2>5, <2>6, <2>7 DEF PfStep
<1> QED
  BY <1>1, <1>2

(* Nothing was read at reset.                                              *)
LEMMA ErrorKeptInit == Init => ErrorKept
  BY MmioNotJunk DEF Init, PortInit, PfInit, PfReset, ErrorKept, PfJunk, ZeroInputs, ZeroWeights

(* The error of an input beat is still known when the job is launched: for *)
(* any memory port, also when the queue is disabled and enabled while a    *)
(* burst runs.                                                             *)
THEOREM ErrorsFlagged == Spec => []ErrorFlagged
<1>1. Init => TypeOK /\ ErrorKept
  BY InitTyped, ErrorKeptInit
<1>2. (TypeOK /\ ErrorKept) /\ [Next]_vars => (TypeOK /\ ErrorKept)'
  BY NextTyped, ErrorKeptStep
<1>3. TypeOK /\ ErrorKept => ErrorFlagged
  BY PfJunkIsJunk DEF TypeOK, ErrorKept, ErrorFlagged
<1> QED
  BY <1>1, <1>2, <1>3, PTL DEF Spec

-----------------------------------------------------------------------------
(* A step of the descriptor fetch, register by register.                   *)
FxPulsesAre(ready, done) == fx'.fetch_ready = ready /\ fx'.desc_done = done

FxStops ==
  /\ FxPulsesAre(FALSE, FALSE) /\ fx'.desc_error = FALSE
  /\ fx'.arvalid = FALSE /\ fx'.rready = FALSE /\ fx'.active = FALSE

FxAsks(fetch_valid, slot, arready) ==
  /\ ~fx.active /\ fetch_valid /\ ~(fx.arvalid /\ arready)
  /\ FxPulsesAre(FALSE, FALSE) /\ fx'.desc_error = FALSE
  /\ fx'.arvalid = TRUE /\ fx'.rready = FALSE /\ fx'.active = FALSE
  /\ fx'.araddr = slot

FxOpens(fetch_valid, slot, arready) ==
  /\ fx.arvalid /\ arready
  /\ FxPulsesAre(TRUE, FALSE) /\ fx'.desc_error = FALSE
  /\ fx'.arvalid = FALSE /\ fx'.rready = TRUE /\ fx'.active = TRUE
  /\ ~fx.active /\ fetch_valid => fx'.beat_count = 0

FxReceives(rvalid, rdata, rerror, rlast) ==
  /\ fx.active /\ rvalid /\ fx.rready
  /\ FxPulsesAre(FALSE, rlast) /\ fx'.desc_error = rerror
  /\ fx'.arvalid = fx.arvalid /\ fx'.rready = ~rlast /\ fx'.active = ~rlast
  /\ fx'.araddr = fx.araddr /\ fx'.beat_count = (fx.beat_count + 1) % 16
  /\ fx.beat_count < DescBeats =>
       fx'.desc_data = [fx.desc_data EXCEPT ![fx.beat_count] = rdata]

FxWaits(fetch_valid, arready, rvalid) ==
  /\ ~(~fx.active /\ fetch_valid) /\ ~(fx.arvalid /\ arready)
  /\ ~(fx.active /\ rvalid /\ fx.rready)
  /\ FxPulsesAre(FALSE, FALSE) /\ fx'.desc_error = FALSE
  /\ fx'.arvalid = fx.arvalid /\ fx'.rready = fx.rready /\ fx'.active = fx.active
  /\ fx'.araddr = fx.araddr /\ fx'.beat_count = fx.beat_count
  /\ fx'.desc_data = fx.desc_data

FxStep(en, fetch_valid, slot, arready, rvalid, rdata, rerror, rlast) ==
  \/ ~en /\ FxStops
  \/ en /\ FxAsks(fetch_valid, slot, arready)
  \/ en /\ FxOpens(fetch_valid, slot, arready)
  \/ en /\ FxReceives(rvalid, rdata, rerror, rlast)
  \/ en /\ FxWaits(fetch_valid, arready, rvalid)

(* Every step of FxClock is one of them.                                   *)
LEMMA FxSteps ==
  ASSUME FxTypeOK, NEW en \in BOOLEAN, NEW fetch_valid \in BOOLEAN, NEW slot,
         NEW sequence, NEW arready \in BOOLEAN, NEW rvalid \in BOOLEAN, NEW rdata,
         NEW rerror \in BOOLEAN, NEW rlast \in BOOLEAN,
         FxClock(en, fetch_valid, slot, sequence, arready, rvalid, rdata, rerror, rlast)
  PROVE  FxStep(en, fetch_valid, slot, arready, rvalid, rdata, rerror, rlast)
<1> DEFINE low == FxPulsesLow(fx)
           arm == FxArmed(low, fetch_valid, slot, sequence)
           Fields == {"fetch_ready", "desc_done", "desc_error", "desc_status",
                      "last_sequence", "beat_count", "desc_data", "araddr",
                      "arvalid", "rready", "active"}
<1>l. /\ DOMAIN low = Fields
      /\ low.fetch_ready = FALSE /\ low.desc_done = FALSE /\ low.desc_error = FALSE
      /\ low.desc_status = fx.desc_status /\ low.beat_count = fx.beat_count
      /\ low.desc_data = fx.desc_data /\ low.araddr = fx.araddr
      /\ low.arvalid = fx.arvalid /\ low.rready = fx.rready /\ low.active = fx.active
  BY Zenon DEF FxTypeOK, FxRegs, FxPulsesLow
<1>a. /\ DOMAIN arm = Fields
      /\ arm.fetch_ready = FALSE /\ arm.desc_done = FALSE /\ arm.desc_error = FALSE
      /\ arm.active = fx.active
      /\ ~fx.active /\ fetch_valid => /\ arm.araddr = slot /\ arm.arvalid = TRUE
                                      /\ arm.rready = FALSE /\ arm.beat_count = 0
  <2>1. CASE ~fx.active /\ fetch_valid
    <3>1. arm = [low EXCEPT !.araddr = slot, !.arvalid = TRUE, !.rready = FALSE,
                   !.desc_status = "BUSY", !.beat_count = 0,
                   !.desc_data = ZeroDesc, !.last_sequence = sequence]
      BY <2>1 DEF FxArmed
    <3> HIDE DEF low, arm
    <3> QED
      BY <1>l, <3>1, Zenon
  <2>2. CASE ~(~fx.active /\ fetch_valid)
    <3>1. arm = low
      BY <2>2 DEF FxArmed
    <3> HIDE DEF low, arm
    <3> QED
      BY <1>l, <2>2, <3>1
  <2> QED
    BY <2>1, <2>2
<1>1. CASE ~en /\ FxDisabled
  <2>1. fx' = [low EXCEPT !.desc_status = "IDLE", !.arvalid = FALSE, !.rready = FALSE,
                 !.beat_count = 0, !.desc_data = ZeroDesc, !.active = FALSE]
    BY <1>1 DEF FxDisabled
  <2> HIDE DEF low
  <2>2. FxStops
    BY <1>l, <2>1, Zenon DEF FxStops, FxPulsesAre
  <2> QED
    BY <1>1, <2>2 DEF FxStep
<1>2. CASE en /\ FxRequest(fetch_valid, slot, sequence, arready)
  <2>1. fx' = arm /\ ~fx.active /\ fetch_valid /\ ~(fx.arvalid /\ arready)
    BY <1>2 DEF FxRequest
  <2>2. fx.active = FALSE
    BY <2>1 DEF FxTypeOK, FxRegs
  <2> HIDE DEF low, arm
  <2> QED
    BY <1>a, <1>2, <2>1, <2>2 DEF FxAsks, FxPulsesAre, FxStep
<1>3. CASE en /\ FxAddressTaken(fetch_valid, slot, sequence, arready)
  <2>1. /\ fx' = [arm EXCEPT !.arvalid = FALSE, !.rready = TRUE,
                             !.fetch_ready = TRUE, !.active = TRUE]
        /\ fx.arvalid /\ arready
    BY <1>3 DEF FxAddressTaken
  <2> HIDE DEF low, arm
  <2>2. FxOpens(fetch_valid, slot, arready)
    BY <1>a, <2>1, Zenon DEF FxOpens, FxPulsesAre
  <2> QED
    BY <1>3, <2>2 DEF FxStep
<1>4. CASE en /\ FxBeat(rvalid, rdata, rerror, rlast)
  <2> DEFINE data == IF fx.beat_count < DescBeats
                     THEN [low.desc_data EXCEPT ![fx.beat_count] = rdata]
                     ELSE low.desc_data
             status == IF rerror THEN "ERROR" ELSE IF rlast THEN "IDLE"
                       ELSE low.desc_status
             more == ~rlast
             beat == (low.beat_count + 1) % 16
  <2>1. fx' = [low EXCEPT !.desc_data = data, !.beat_count = beat,
                          !.desc_error = rerror, !.desc_status = status,
                          !.rready = more, !.desc_done = rlast, !.active = more]
    BY <1>4 DEF FxBeat
  <2> HIDE DEF low
  <2>2. /\ fx'.fetch_ready = FALSE /\ fx'.desc_done = rlast /\ fx'.desc_error = rerror
        /\ fx'.arvalid = fx.arvalid /\ fx'.rready = more /\ fx'.active = more
        /\ fx'.araddr = fx.araddr /\ fx'.beat_count = beat /\ fx'.desc_data = data
    <3> HIDE DEF data, status, more, beat
    <3> QED
      BY <1>l, <2>1, Zenon
  <2>3. FxReceives(rvalid, rdata, rerror, rlast)
    BY <1>l, <1>4, <2>2 DEF FxBeat, FxTakesBeat, FxReceives, FxPulsesAre
  <2> QED
    BY <1>4, <2>3 DEF FxStep
<1>5. CASE en /\ FxIdle(fetch_valid, arready, rvalid)
  <2>1. fx' = low
    BY <1>5 DEF FxIdle
  <2> HIDE DEF low
  <2> QED
    BY <1>l, <1>5, <2>1 DEF FxIdle, FxTakesBeat, FxWaits, FxPulsesAre, FxStep
<1> QED
  BY <1>1, <1>2, <1>3, <1>4, <1>5 DEF FxClock

-----------------------------------------------------------------------------
(* A step of the read half of the port, register by register.              *)
RdShows(b) ==
  /\ rd'.busy = rd.busy /\ rd'.addr = rd.addr /\ rd'.beat = b /\ rd'.rvalid = TRUE
  /\ \/ /\ rd'.rdata = Fetched(rd.addr, b) /\ rd'.rerror = FALSE
        /\ rd'.errors = rd.errors
     \/ rd'.rdata = Junk /\ rd'.rerror = TRUE /\ rd'.errors = rd.errors + 1

RdStep(arvalid, addr, arready, rready) ==
  \/ /\ arvalid /\ arready
     /\ rd'.busy = TRUE /\ rd'.addr = addr /\ rd'.beat = 0 /\ rd'.rvalid = rd.rvalid
     /\ rd'.rdata = rd.rdata /\ rd'.rerror = rd.rerror /\ rd'.errors = rd.errors
  \/ rd.busy /\ ~rd.rvalid /\ RdShows(rd.beat)
  \/ rd.rvalid /\ rready /\ ~Rlast /\ RdShows(rd.beat + 1)
  \/ /\ rd.rvalid /\ rready /\ ~Rlast
     /\ rd'.busy = rd.busy /\ rd'.addr = rd.addr /\ rd'.beat = rd.beat + 1
     /\ rd'.rvalid = FALSE /\ rd'.errors = rd.errors
  \/ /\ rd.rvalid /\ rready /\ Rlast
     /\ rd'.busy = FALSE /\ rd'.addr = rd.addr /\ rd'.beat = rd.beat
     /\ rd'.rvalid = FALSE /\ rd'.errors = rd.errors
  \/ ~(arvalid /\ arready) /\ ~(rd.rvalid /\ rready) /\ rd' = rd

(* Every step of RdClock is one of them.                                   *)
LEMMA RdSteps ==
  ASSUME PortTypeOK, NEW arvalid \in BOOLEAN, NEW addr, NEW arready \in BOOLEAN,
         NEW rready \in BOOLEAN, RdClock(arvalid, addr, arready, rready)
  PROVE  RdStep(arvalid, addr, arready, rready)
<1>0. rd \in RdRegs
  BY DEF PortTypeOK, RdRegs
<1>s. ASSUME NEW b, Showing(b) PROVE RdShows(b)
  <2>1. CASE rd' = Shown(b, Fetched(rd.addr, b), FALSE)
    <3> DEFINE w == Fetched(rd.addr, b)
    <3>1. rd' = [rd EXCEPT !.beat = b, !.rvalid = TRUE, !.rdata = w,
                           !.rerror = FALSE, !.errors = rd.errors]
      BY <2>1 DEF Shown
    <3> HIDE DEF w
    <3>2. /\ rd'.busy = rd.busy /\ rd'.addr = rd.addr /\ rd'.beat = b
          /\ rd'.rvalid = TRUE /\ rd'.rdata = w /\ rd'.rerror = FALSE
          /\ rd'.errors = rd.errors
      BY <1>0, <3>1, Zenon DEF RdRegs
    <3> QED
      BY <3>2 DEF RdShows, w
  <2>2. CASE rd' = Shown(b, Junk, TRUE)
    <3> DEFINE n == rd.errors + 1
    <3>1. rd' = [rd EXCEPT !.beat = b, !.rvalid = TRUE, !.rdata = Junk,
                           !.rerror = TRUE, !.errors = n]
      BY <2>2 DEF Shown
    <3> HIDE DEF n
    <3>2. /\ rd'.busy = rd.busy /\ rd'.addr = rd.addr /\ rd'.beat = b
          /\ rd'.rvalid = TRUE /\ rd'.rdata = Junk /\ rd'.rerror = TRUE
          /\ rd'.errors = n
      BY <1>0, <3>1, Zenon DEF RdRegs
    <3> QED
      BY <3>2 DEF RdShows, n
  <2> QED
    BY <1>s, <2>1, <2>2 DEF Showing
<1>1. CASE RdAccept(arvalid, addr, arready)
  <2>1. /\ rd'.busy = TRUE /\ rd'.addr = addr /\ rd'.beat = 0 /\ rd'.rvalid = rd.rvalid
        /\ rd'.rdata = rd.rdata /\ rd'.rerror = rd.rerror /\ rd'.errors = rd.errors
    BY <1>0, <1>1, Zenon DEF RdAccept, RdRegs
  <2> QED
    BY <1>1, <2>1 DEF RdAccept, RdStep
<1>2. CASE RdPresent
  BY <1>2, <1>s DEF RdPresent, RdStep
<1>3. CASE RdNext(rready)
  <2>1. CASE rd' = [rd EXCEPT !.beat = @ + 1, !.rvalid = FALSE]
    <3> DEFINE b == rd.beat + 1
    <3>1. rd' = [rd EXCEPT !.beat = b, !.rvalid = FALSE]
      BY <2>1
    <3> HIDE DEF b
    <3>2. /\ rd'.busy = rd.busy /\ rd'.addr = rd.addr /\ rd'.beat = b
          /\ rd'.rvalid = FALSE /\ rd'.errors = rd.errors
      BY <1>0, <3>1, Zenon DEF RdRegs
    <3> QED
      BY <1>3, <3>2 DEF RdNext, RdStep, b
  <2> QED
    BY <1>3, <1>s, <2>1 DEF RdNext, RdStep
<1>4. CASE RdLast(rready)
  <2>1. /\ rd'.busy = FALSE /\ rd'.addr = rd.addr /\ rd'.beat = rd.beat
        /\ rd'.rvalid = FALSE /\ rd'.errors = rd.errors
    BY <1>0, <1>4, Zenon DEF RdLast, RdRegs
  <2> QED
    BY <1>4, <2>1 DEF RdLast, RdStep
<1>5. CASE RdHold(arvalid, arready, rready)
  BY <1>5 DEF RdHold, RdStep
<1> QED
  BY <1>1, <1>2, <1>3, <1>4, <1>5 DEF RdClock

-----------------------------------------------------------------------------
(* What a register write does to the registers the queue path reads.       *)
QueueRegs(head, tl, en, start) ==
  /\ regs'.cmdq_head = head /\ regs'.cmdq_tail = tl
  /\ regs'.cmdq_enable = en /\ regs'.npu_start_pulse = start

(* Every step of RegsClock is one of them.                                 *)
LEMMA RegsSteps ==
  ASSUME RegsTypeOK, NEW nd, NEW gd
  PROVE  LET h == regs.cmdq_head
             t == regs.cmdq_tail
             e == regs.cmdq_enable
         IN  /\ NoWrite(nd, gd) => QueueRegs(h, t, e, FALSE)
             /\ \A a, b : WriteControl(a, b, nd, gd) => QueueRegs(h, t, e, a)
             /\ \A a, b : WriteStatus(a, b, nd, gd) => QueueRegs(h, t, e, FALSE)
             /\ \A v : WriteGpuCmd(v, nd, gd) => QueueRegs(h, t, e, FALSE)
             /\ \A v : WriteCmdqEnable(v, nd, gd) => QueueRegs(h, t, v, FALSE)
             /\ \A v : WriteHead(v, nd, gd) => QueueRegs(v, t, e, FALSE)
             /\ \A v : WriteTail(v, nd, gd) => QueueRegs(h, v, e, FALSE)
             /\ \A v : WriteDoorbell(v, nd, gd) => QueueRegs(h, t, e, FALSE)
<1> DEFINE edge == RegsEveryEdge(nd, gd)
<1>e. /\ DOMAIN edge = {"cmdq_enable", "cmdq_head", "cmdq_tail", "cmdq_doorbell",
                        "npu_start_pulse", "gpu_cmd_pulse", "gpu_cmd_opcode",
                        "npu_done_sticky", "gpu_done_sticky"}
      /\ edge.cmdq_head = regs.cmdq_head /\ edge.cmdq_tail = regs.cmdq_tail
      /\ edge.cmdq_enable = regs.cmdq_enable /\ edge.npu_start_pulse = FALSE
  BY Zenon DEF RegsTypeOK, RegFile, RegsEveryEdge
<1>1. NoWrite(nd, gd) => regs' = edge
  BY DEF NoWrite
<1>2. \A a, b : WriteControl(a, b, nd, gd) =>
        regs' = [edge EXCEPT !.npu_start_pulse = a, !.gpu_cmd_pulse = b]
  BY DEF WriteControl
<1>3. \A a, b : WriteStatus(a, b, nd, gd) =>
        regs' = [edge EXCEPT !.npu_done_sticky = edge.npu_done_sticky /\ ~a,
                             !.gpu_done_sticky = edge.gpu_done_sticky /\ ~b]
  BY DEF WriteStatus
<1>4. \A v : WriteGpuCmd(v, nd, gd) => regs' = [edge EXCEPT !.gpu_cmd_opcode = v]
  BY DEF WriteGpuCmd
<1>5. \A v : WriteCmdqEnable(v, nd, gd) => regs' = [edge EXCEPT !.cmdq_enable = v]
  BY DEF WriteCmdqEnable
<1>6. \A v : WriteHead(v, nd, gd) => regs' = [edge EXCEPT !.cmdq_head = v]
  BY DEF WriteHead
<1>7. \A v : WriteTail(v, nd, gd) => regs' = [edge EXCEPT !.cmdq_tail = v]
  BY DEF WriteTail
<1>8. \A v : WriteDoorbell(v, nd, gd) => regs' = [edge EXCEPT !.cmdq_doorbell = v]
  BY DEF WriteDoorbell
<1> HIDE DEF edge
<1>a. NoWrite(nd, gd) => QueueRegs(regs.cmdq_head, regs.cmdq_tail, regs.cmdq_enable, FALSE)
  BY <1>e, <1>1 DEF QueueRegs
<1>b. \A a, b : WriteControl(a, b, nd, gd) =>
        QueueRegs(regs.cmdq_head, regs.cmdq_tail, regs.cmdq_enable, a)
  <2> SUFFICES ASSUME NEW a, NEW b, WriteControl(a, b, nd, gd)
               PROVE  QueueRegs(regs.cmdq_head, regs.cmdq_tail, regs.cmdq_enable, a)
    OBVIOUS
  <2>1. regs' = [edge EXCEPT !.npu_start_pulse = a, !.gpu_cmd_pulse = b]
    BY <1>2
  <2> QED
    BY <1>e, <2>1, Zenon DEF QueueRegs
<1>c. \A a, b : WriteStatus(a, b, nd, gd) =>
        QueueRegs(regs.cmdq_head, regs.cmdq_tail, regs.cmdq_enable, FALSE)
  BY <1>e, <1>3, Zenon DEF QueueRegs
<1>d. \A v : WriteGpuCmd(v, nd, gd) =>
        QueueRegs(regs.cmdq_head, regs.cmdq_tail, regs.cmdq_enable, FALSE)
  BY <1>e, <1>4, Zenon DEF QueueRegs
<1>f. \A v : WriteCmdqEnable(v, nd, gd) =>
        QueueRegs(regs.cmdq_head, regs.cmdq_tail, v, FALSE)
  BY <1>e, <1>5, Zenon DEF QueueRegs
<1>g. \A v : WriteHead(v, nd, gd) =>
        QueueRegs(v, regs.cmdq_tail, regs.cmdq_enable, FALSE)
  BY <1>e, <1>6, Zenon DEF QueueRegs
<1>h. \A v : WriteTail(v, nd, gd) =>
        QueueRegs(regs.cmdq_head, v, regs.cmdq_enable, FALSE)
  BY <1>e, <1>7, Zenon DEF QueueRegs
<1>i. \A v : WriteDoorbell(v, nd, gd) =>
        QueueRegs(regs.cmdq_head, regs.cmdq_tail, regs.cmdq_enable, FALSE)
  BY <1>e, <1>8, Zenon DEF QueueRegs
<1> QED
  BY <1>a, <1>b, <1>c, <1>d, <1>f, <1>g, <1>h, <1>i

(* What one edge of the software does to the library's handle, the ring,   *)
(* the queue registers and the direct client's count of starts.            *)
SameHost == host' = host /\ ring' = ring
SameRegs == QueueRegs(regs.cmdq_head, regs.cmdq_tail, regs.cmdq_enable, FALSE)
SameStarts == direct'.starts = direct.starts

HostIs(pc, head, tl, pushed, exposed) ==
  /\ host'.pc = pc /\ host'.cached_head = head /\ host'.cached_tail = tl
  /\ host'.pushed = pushed /\ host'.exposed = exposed
  /\ host'.resets = host.resets /\ host'.disables = host.disables

SoftPush ==
  /\ host.pc = "idle" /\ host.pushed < Jobs
  /\ NextSlot(host.cached_head) # host.cached_tail
  /\ ring' = [ring EXCEPT ![host.cached_head].lo = host.pushed + 1]
  /\ HostIs("pushing", host.cached_head, host.cached_tail, host.pushed, host.exposed)
  /\ SameRegs /\ SameStarts

SoftPushed ==
  /\ host.pc = "pushing"
  /\ ring' = [ring EXCEPT ![host.cached_head].hi = host.pushed + 1]
  /\ HostIs("idle", NextSlot(host.cached_head), host.cached_tail, host.pushed + 1,
            host.exposed)
  /\ SameRegs /\ SameStarts

SoftSubmit ==
  /\ host.pc = "idle" /\ ring' = ring
  /\ HostIs("doorbell", host.cached_head, host.cached_tail, host.pushed, host.pushed)
  /\ QueueRegs(host.cached_head, regs.cmdq_tail, regs.cmdq_enable, FALSE) /\ SameStarts

SoftDoorbell ==
  /\ host.pc = "doorbell" /\ ring' = ring
  /\ HostIs("idle", host.cached_head, host.cached_tail, host.pushed, host.exposed)
  /\ SameRegs /\ SameStarts

SoftSync ==
  /\ host.pc = "idle" /\ ring' = ring
  /\ HostIs("idle", regs.cmdq_head, regs.cmdq_tail, host.exposed, host.exposed)
  /\ SameRegs /\ SameStarts

(* The steps of a reset: only that they are ones matters here.             *)
SoftReset ==
  /\ \/ /\ host.pc \in {"reset_head", "reset_tail", "reset_doorbell"}
        /\ host'.resets = host.resets
     \/ host'.resets = host.resets + 1
  /\ host'.disables = host.disables /\ regs'.cmdq_enable = regs.cmdq_enable
  /\ regs'.npu_start_pulse = FALSE /\ SameStarts

SoftReadShadow ==
  /\ host.pc = "idle" /\ regs.cmdq_enable /\ ring' = ring
  /\ HostIs("forward", host.cached_head, fe.cmdq_tail_shadow, host.pushed, host.exposed)
  /\ SameRegs /\ SameStarts

SoftForward ==
  /\ host.pc = "forward" /\ ring' = ring
  /\ HostIs("idle", host.cached_head, host.cached_tail, host.pushed, host.exposed)
  /\ QueueRegs(regs.cmdq_head, host.cached_tail, regs.cmdq_enable, FALSE) /\ SameStarts

SoftEnable ==
  /\ host.pc = "idle" /\ ~regs.cmdq_enable /\ SameHost
  /\ QueueRegs(regs.cmdq_head, regs.cmdq_tail, TRUE, FALSE) /\ SameStarts

SoftDisable ==
  /\ host.pc = "idle" /\ regs.cmdq_enable
  /\ host'.disables = host.disables + 1 /\ host'.resets = host.resets
  /\ regs'.npu_start_pulse = FALSE /\ SameStarts

SoftDirect ==
  /\ SameHost
  /\ \/ SameRegs /\ SameStarts
     \/ \E a : QueueRegs(regs.cmdq_head, regs.cmdq_tail, regs.cmdq_enable, a)
               /\ direct'.starts = direct.starts + 1

SoftStep ==
  \/ SoftPush \/ SoftPushed \/ SoftSubmit \/ SoftDoorbell \/ SoftSync \/ SoftReset
  \/ SoftReadShadow \/ SoftForward \/ SoftEnable \/ SoftDisable \/ SoftDirect

(* Every step of the software is one of them.                              *)
LEMMA SoftSteps ==
  ASSUME HostTypeOK, RegsTypeOK, SoftwareClock
  PROVE  SoftStep
<1> DEFINE nd == npu.done
           gd == gpu.frame_done
           Fields == {"pc", "cached_head", "cached_tail", "pushed", "exposed",
                      "resets", "disables"}
<1>h. DOMAIN host = Fields /\ DOMAIN direct = {"pc", "starts"}
  BY Zenon DEF HostTypeOK
<1>r. LET h == regs.cmdq_head
          t == regs.cmdq_tail
          e == regs.cmdq_enable
      IN  /\ NoWrite(nd, gd) => QueueRegs(h, t, e, FALSE)
          /\ \A a, b : WriteControl(a, b, nd, gd) => QueueRegs(h, t, e, a)
          /\ \A a, b : WriteStatus(a, b, nd, gd) => QueueRegs(h, t, e, FALSE)
          /\ \A v : WriteGpuCmd(v, nd, gd) => QueueRegs(h, t, e, FALSE)
          /\ \A v : WriteCmdqEnable(v, nd, gd) => QueueRegs(h, t, v, FALSE)
          /\ \A v : WriteHead(v, nd, gd) => QueueRegs(v, t, e, FALSE)
          /\ \A v : WriteTail(v, nd, gd) => QueueRegs(h, v, e, FALSE)
          /\ \A v : WriteDoorbell(v, nd, gd) => QueueRegs(h, t, e, FALSE)
  BY RegsSteps
<1>1. CASE HostPush(nd, gd)
  <2>1. /\ host' = [host EXCEPT !.pc = "pushing"]
        /\ SameRegs /\ direct' = direct
    BY <1>1, <1>r DEF HostPush, SameRegs
  <2>2. HostIs("pushing", host.cached_head, host.cached_tail, host.pushed, host.exposed)
    BY <1>h, <2>1, Zenon DEF HostIs
  <2> QED
    BY <1>1, <2>1, <2>2 DEF HostPush, SoftPush, SoftStep, SameStarts
<1>2. CASE HostPushed(nd, gd)
  <2>1. /\ host' = [host EXCEPT !.pc = "idle", !.cached_head = NextSlot(host.cached_head),
                                !.pushed = host.pushed + 1]
        /\ SameRegs /\ direct' = direct
    BY <1>2, <1>r DEF HostPushed, SameRegs
  <2>2. HostIs("idle", NextSlot(host.cached_head), host.cached_tail, host.pushed + 1,
               host.exposed)
    BY <1>h, <2>1, Zenon DEF HostIs
  <2> QED
    BY <1>2, <2>1, <2>2 DEF HostPushed, SoftPushed, SoftStep, SameStarts
<1>3. CASE HostSubmitHead(nd, gd)
  <2>1. /\ host' = [host EXCEPT !.pc = "doorbell", !.exposed = host.pushed]
        /\ QueueRegs(host.cached_head, regs.cmdq_tail, regs.cmdq_enable, FALSE)
        /\ direct' = direct /\ ring' = ring
    BY <1>3, <1>r DEF HostSubmitHead
  <2>2. HostIs("doorbell", host.cached_head, host.cached_tail, host.pushed, host.pushed)
    BY <1>h, <2>1, Zenon DEF HostIs
  <2> QED
    BY <1>3, <2>1, <2>2 DEF HostSubmitHead, SoftSubmit, SoftStep, SameStarts
<1>4. ASSUME NEW v, HostSubmitDoorbell(v, nd, gd) PROVE SoftStep
  <2>1. /\ host' = [host EXCEPT !.pc = "idle"]
        /\ SameRegs /\ direct' = direct /\ ring' = ring
    BY <1>4, <1>r DEF HostSubmitDoorbell, SameRegs
  <2>2. HostIs("idle", host.cached_head, host.cached_tail, host.pushed, host.exposed)
    BY <1>h, <2>1, Zenon DEF HostIs
  <2> QED
    BY <1>4, <2>1, <2>2 DEF HostSubmitDoorbell, SoftDoorbell, SoftStep, SameStarts
<1>5. CASE HostSync(nd, gd)
  <2>1. /\ host' = [host EXCEPT !.cached_head = regs.cmdq_head,
                                !.cached_tail = regs.cmdq_tail, !.pushed = host.exposed]
        /\ SameRegs /\ direct' = direct /\ ring' = ring /\ host.pc = "idle"
    BY <1>5, <1>r DEF HostSync, SameRegs
  <2>2. HostIs("idle", regs.cmdq_head, regs.cmdq_tail, host.exposed, host.exposed)
    BY <1>h, <2>1, Zenon DEF HostIs
  <2> QED
    BY <2>1, <2>2 DEF SoftSync, SoftStep, SameStarts
<1>6. CASE HostReset(nd, gd)
  <2>1. /\ host' = [host EXCEPT !.pc = "reset_head", !.cached_head = 0, !.cached_tail = 0,
                                !.resets = host.resets + 1]
        /\ SameRegs /\ direct' = direct
    BY <1>6, <1>r DEF HostReset, SameRegs
  <2>2. host'.resets = host.resets + 1 /\ host'.disables = host.disables
    BY <1>h, <2>1, Zenon
  <2> QED
    BY <2>1, <2>2 DEF SameRegs, QueueRegs, SoftReset, SoftStep, SameStarts
<1>6a. CASE HostResetHead(nd, gd)
  <2>1. /\ host' = [host EXCEPT !.pc = "reset_tail", !.exposed = host.pushed]
        /\ QueueRegs(0, regs.cmdq_tail, regs.cmdq_enable, FALSE)
        /\ direct' = direct /\ host.pc = "reset_head"
    BY <1>6a, <1>r DEF HostResetHead
  <2>2. host'.resets = host.resets /\ host'.disables = host.disables
    BY <1>h, <2>1, Zenon
  <2> QED
    BY <2>1, <2>2 DEF QueueRegs, SoftReset, SoftStep, SameStarts
<1>7. CASE HostResetTail(nd, gd)
  <2>1. /\ host' = [host EXCEPT !.pc = "reset_doorbell"]
        /\ QueueRegs(regs.cmdq_head, 0, regs.cmdq_enable, FALSE)
        /\ direct' = direct /\ host.pc = "reset_tail"
    BY <1>7, <1>r DEF HostResetTail
  <2>2. host'.resets = host.resets /\ host'.disables = host.disables
    BY <1>h, <2>1, Zenon
  <2> QED
    BY <2>1, <2>2 DEF QueueRegs, SoftReset, SoftStep, SameStarts
<1>8. CASE HostResetDoorbell(nd, gd)
  <2>1. /\ host' = [host EXCEPT !.pc = "idle"]
        /\ SameRegs /\ direct' = direct /\ host.pc = "reset_doorbell"
    BY <1>8, <1>r DEF HostResetDoorbell, SameRegs
  <2>2. host'.resets = host.resets /\ host'.disables = host.disables
    BY <1>h, <2>1, Zenon
  <2> QED
    BY <2>1, <2>2 DEF SameRegs, QueueRegs, SoftReset, SoftStep, SameStarts
<1>9. CASE HostReadShadow(fe.cmdq_tail_shadow, nd, gd)
  <2>1. /\ host' = [host EXCEPT !.pc = "forward", !.cached_tail = fe.cmdq_tail_shadow]
        /\ SameRegs /\ direct' = direct /\ ring' = ring
    BY <1>9, <1>r DEF HostReadShadow, SameRegs
  <2>2. HostIs("forward", host.cached_head, fe.cmdq_tail_shadow, host.pushed, host.exposed)
    BY <1>h, <2>1, Zenon DEF HostIs
  <2> QED
    BY <1>9, <2>1, <2>2 DEF HostReadShadow, SoftReadShadow, SoftStep, SameStarts
<1>10. CASE HostForwardTail(nd, gd)
  <2>1. /\ host' = [host EXCEPT !.pc = "idle"]
        /\ QueueRegs(regs.cmdq_head, host.cached_tail, regs.cmdq_enable, FALSE)
        /\ direct' = direct /\ ring' = ring
    BY <1>10, <1>r DEF HostForwardTail
  <2>2. HostIs("idle", host.cached_head, host.cached_tail, host.pushed, host.exposed)
    BY <1>h, <2>1, Zenon DEF HostIs
  <2> QED
    BY <1>10, <2>1, <2>2 DEF HostForwardTail, SoftForward, SoftStep, SameStarts
<1>11. CASE HostEnable(nd, gd)
  BY <1>11, <1>r DEF HostEnable, SoftEnable, SoftStep, SameHost, SameStarts
<1>12. CASE HostDisable(nd, gd)
  <2>1. /\ host' = [host EXCEPT !.disables = host.disables + 1]
        /\ QueueRegs(regs.cmdq_head, regs.cmdq_tail, FALSE, FALSE) /\ direct' = direct
    BY <1>12, <1>r DEF HostDisable
  <2>2. host'.resets = host.resets /\ host'.disables = host.disables + 1
    BY <1>h, <2>1, Zenon
  <2> QED
    BY <1>12, <2>1, <2>2 DEF HostDisable, QueueRegs, SoftDisable, SoftStep, SameStarts
<1>13. CASE HostQuiet(nd, gd)
  BY <1>13, <1>r DEF HostQuiet, SoftDirect, SoftStep, SameHost, SameRegs, SameStarts
<1>14. ASSUME NEW o, DirectGpuCmd(o, nd, gd) PROVE SoftStep
  <2>1. direct' = [direct EXCEPT !.pc = "gpu_cmd"] /\ SameRegs /\ SameHost
    BY <1>14, <1>r DEF DirectGpuCmd, SameRegs, SameHost
  <2>2. direct'.starts = direct.starts
    BY <1>h, <2>1, Zenon
  <2> QED
    BY <2>1, <2>2 DEF SoftDirect, SoftStep, SameStarts
<1>15. ASSUME NEW u, DirectStart(u, nd, gd) PROVE SoftStep
  <2>1. /\ direct' = [pc |-> u, starts |-> direct.starts + 1] /\ SameHost
        /\ QueueRegs(regs.cmdq_head, regs.cmdq_tail, regs.cmdq_enable, u = "npu")
    BY <1>15, <1>r DEF DirectStart, SameHost
  <2> QED
    BY <2>1 DEF SoftDirect, SoftStep
<1>16. CASE DirectSeen(npu.busy, gpu.busy, nd, gd)
  <2>1. /\ \/ direct' = [direct EXCEPT !.pc = "npu_seen"]
           \/ direct' = [direct EXCEPT !.pc = "gpu_seen"]
        /\ SameRegs /\ SameHost
    BY <1>16, <1>r DEF DirectSeen, SameRegs, SameHost
  <2>2. direct'.starts = direct.starts
    BY <1>h, <2>1, Zenon
  <2> QED
    BY <2>1, <2>2 DEF SoftDirect, SoftStep, SameStarts
<1>17. CASE DirectClear(nd, gd)
  <2>1. direct' = [direct EXCEPT !.pc = "idle"] /\ SameRegs /\ SameHost
    BY <1>17, <1>r DEF DirectClear, SameRegs, SameHost
  <2>2. direct'.starts = direct.starts
    BY <1>h, <2>1, Zenon
  <2> QED
    BY <2>1, <2>2 DEF SoftDirect, SoftStep, SameStarts
<1> QED
  BY <1>1, <1>2, <1>3, <1>4, <1>5, <1>6, <1>6a, <1>7, <1>8, <1>9, <1>10, <1>11, <1>12,
     <1>13, <1>14, <1>15, <1>16, <1>17
     DEF SoftwareClock, HostClock, LibraryStep, ClientStep, DirectStep

-----------------------------------------------------------------------------
(* A step of the NPU, register by register.                                *)
NpuStarts(start, model, inputs) ==
  /\ start /\ ~npu.busy
  /\ npu'.busy = TRUE /\ npu'.done = FALSE /\ npu'.countdown = NpuLatency
  /\ npu'.model = model /\ npu'.inputs = inputs /\ npu'.result = npu.result

NpuCounts ==
  /\ npu.busy /\ npu.countdown # 0
  /\ npu'.busy = npu.busy /\ npu'.done = FALSE /\ npu'.countdown = npu.countdown - 1
  /\ npu'.model = npu.model /\ npu'.inputs = npu.inputs /\ npu'.result = npu.result

NpuFinishes(weights) ==
  /\ npu.busy /\ npu.countdown = 0
  /\ npu'.busy = FALSE /\ npu'.done = TRUE
  /\ npu'.result = [model |-> npu.model, inputs |-> npu.inputs,
                    weights |-> IF IsRuntime(npu.model) THEN weights ELSE Builtin]

NpuWaits(start) ==
  /\ ~npu.busy /\ ~start
  /\ npu'.busy = npu.busy /\ npu'.done = FALSE /\ npu'.result = npu.result

NpuStep(start, model, inputs, weights) ==
  \/ NpuStarts(start, model, inputs)
  \/ NpuCounts
  \/ NpuFinishes(weights)
  \/ NpuWaits(start)

(* Every step of NpuClock is one of them.                                  *)
LEMMA NpuSteps ==
  ASSUME NpuTypeOK, NEW start, NEW model, NEW inputs, NEW weights,
         NpuClock(start, model, inputs, weights)
  PROVE  NpuStep(start, model, inputs, weights)
<1>t. DOMAIN npu = {"busy", "done", "countdown", "model", "inputs", "result"}
  BY Zenon DEF NpuTypeOK
<1>1. CASE NpuStart(start, model, inputs)
  <2>1. npu' = [npu EXCEPT !.busy = TRUE, !.done = FALSE, !.model = model,
                           !.inputs = inputs, !.countdown = NpuLatency]
    BY <1>1 DEF NpuStart
  <2>2. /\ npu'.busy = TRUE /\ npu'.done = FALSE /\ npu'.countdown = NpuLatency
        /\ npu'.model = model /\ npu'.inputs = inputs /\ npu'.result = npu.result
    BY <1>t, <2>1, Zenon
  <2> QED
    BY <1>1, <2>2 DEF NpuStart, NpuStarts, NpuStep
<1>2. CASE NpuCount
  <2> DEFINE n == npu.countdown - 1
  <2>1. npu' = [npu EXCEPT !.countdown = n, !.done = FALSE]
    BY <1>2 DEF NpuCount
  <2> HIDE DEF n
  <2>2. /\ npu'.busy = npu.busy /\ npu'.done = FALSE /\ npu'.countdown = n
        /\ npu'.model = npu.model /\ npu'.inputs = npu.inputs /\ npu'.result = npu.result
    BY <1>t, <2>1, Zenon
  <2> QED
    BY <1>2, <2>2 DEF NpuCount, NpuCounts, NpuStep, n
<1>3. CASE NpuFinish(weights)
  <2> DEFINE r == [model |-> npu.model, inputs |-> npu.inputs,
                   weights |-> IF IsRuntime(npu.model) THEN weights ELSE Builtin]
  <2>1. npu' = [npu EXCEPT !.busy = FALSE, !.done = TRUE, !.result = r]
    BY <1>3 DEF NpuFinish
  <2> HIDE DEF r
  <2>2. npu'.busy = FALSE /\ npu'.done = TRUE /\ npu'.result = r
    BY <1>t, <2>1, Zenon
  <2> QED
    BY <1>3, <2>2 DEF NpuFinish, NpuFinishes, NpuStep, r
<1>4. CASE NpuIdle(start)
  <2>1. npu' = [npu EXCEPT !.done = FALSE]
    BY <1>4 DEF NpuIdle
  <2>2. npu'.busy = npu.busy /\ npu'.done = FALSE /\ npu'.result = npu.result
    BY <1>t, <2>1, Zenon
  <2> QED
    BY <1>4, <2>2 DEF NpuIdle, NpuWaits, NpuStep
<1> QED
  BY <1>1, <1>2, <1>3, <1>4 DEF NpuClock

-----------------------------------------------------------------------------
(* NpuAccounting: the NPU takes the jobs it is offered.  The stub offers a *)
(* job only after it saw the NPU idle with none of its own under way, so   *)
(* at that edge only a direct start can be at the NPU's input.             *)
OffersTaken ==
  /\ ex.npu_start_pulse => ex.inflight
  /\ direct.starts = 0 => ~regs.npu_start_pulse
  /\ ex.npu_start_pulse /\ npu.busy =>
       /\ direct.starts > 0
       /\ npu.countdown = NpuLatency /\ npu.model = MmioWord(0)

(* OffersTaken is inductive relative to TypeOK.                            *)
LEMMA OffersTakenStep == TypeOK /\ OffersTaken /\ [Next]_vars => OffersTaken'
<1> SUFFICES ASSUME TypeOK, OffersTaken, [Next]_vars PROVE OffersTaken'
  OBVIOUS
<1>1. CASE UNCHANGED vars
  BY <1>1 DEF vars, OffersTaken
<1>2. CASE Next
  <2>p. PICK arready \in ReadySet("AR", PortArvalid /\ ~rd.busy),
             awready \in ReadySet("AW", st.awvalid /\ ~wr.busy),
             wready \in ReadySet("W", st.wvalid /\ wr.busy /\ wr.beat < OutBeats) :
          AccelClock(arready, awready, wready) /\ SoftwareClock
    BY <1>2 DEF Next, Edge
  <2>t. /\ ExTypeOK /\ NpuTypeOK /\ HostTypeOK /\ RegsTypeOK
        /\ enable \in BOOLEAN /\ pf.payload_valid \in BOOLEAN
        /\ npu.busy \in BOOLEAN /\ npu.done \in BOOLEAN
        /\ regs.npu_start_pulse \in BOOLEAN /\ ex.npu_start_pulse \in BOOLEAN
        /\ direct.starts \in Nat
    BY HostAssumption DEF TypeOK, ExTypeOK, ExRegs, NpuTypeOK, RegsTypeOK, RegFile, enable,
       PfTypeOK, PfRegs, HostTypeOK, HostAssumption
  <2>ex. ExStep(enable, pf.payload_valid, pf.job, npu.busy, npu.done)
    BY <2>p, <2>t, ExSteps DEF AccelClock
  <2>npu. NpuStep(MuxStart(regs.npu_start_pulse), MuxModel, MuxInputs, MuxWeights)
    BY <2>p, <2>t, NpuSteps DEF AccelClock
  <2>s. SoftStep
    BY <2>p, <2>t, SoftSteps
  <2>1. ex'.npu_start_pulse => ex'.inflight
    BY <2>ex DEF ExStep, ExStarts, ExRejects, ExGoesOn
  <2>2. /\ direct'.starts \in Nat /\ direct'.starts >= direct.starts
        /\ direct'.starts = 0 => ~regs'.npu_start_pulse
    BY <2>t, <2>s DEF SoftStep, SoftPush, SoftPushed, SoftSubmit, SoftDoorbell, SoftSync,
       SoftReset, SoftReadShadow, SoftForward, SoftEnable, SoftDisable, SoftDirect,
       SameRegs, SameStarts, QueueRegs
  <2>3. ASSUME ex'.npu_start_pulse, npu'.busy
        PROVE  /\ direct'.starts > 0
               /\ npu'.countdown = NpuLatency /\ npu'.model = MmioWord(0)
    <3>1. ~ex.inflight /\ ~npu.busy
      BY <2>3, <2>ex DEF ExStep, ExStarts, ExRejects, ExGoesOn
    <3>2. ~ex.npu_start_pulse
      BY <3>1 DEF OffersTaken
    <3>3. /\ MuxStart(regs.npu_start_pulse)
          /\ npu'.countdown = NpuLatency /\ npu'.model = MuxModel
      BY <2>3, <2>npu, <3>1 DEF NpuStep, NpuStarts, NpuCounts, NpuFinishes, NpuWaits
    <3>4. regs.npu_start_pulse /\ MuxModel = MmioWord(0)
      BY <3>2, <3>3 DEF MuxStart, MuxModel
    <3>5. direct.starts # 0
      BY <3>4 DEF OffersTaken
    <3> QED
      BY <2>t, <2>2, <3>3, <3>4, <3>5
  <2> QED
    BY <2>1, <2>2, <2>3 DEF OffersTaken
<1> QED
  BY <1>1, <1>2

(* No dispatched NPU job is lost without an error flag, except to a direct *)
(* start: the dispatcher's count is the number of jobs offered to the NPU  *)
(* plus those still on their way, and a job is offered to a busy NPU only  *)
(* when a direct client started it at the edge before.  For any counter    *)
(* width, any memory port, any use of the enable bit and any direct        *)
(* client.                                                                 *)
THEOREM NpuAccounted == Spec => []NpuAccounting
<1> DEFINE Inv == TypeOK /\ NpuCounted /\ OffersTaken
<1>1. Init => Inv
  <2>1. Init => OffersTaken
    BY DEF Init, ExecInit, ExReset, RegsInit, OffersTaken
  <2> QED
    BY <2>1, InitTyped, NpuCountedInit
<1>2. Inv /\ [Next]_vars => Inv'
  BY NextTyped, NpuCountedStep, OffersTakenStep
<1>3. Inv => NpuAccounting
  BY DEF NpuCounted, OffersTaken, NpuAccounting
<1> QED
  BY <1>1, <1>2, <1>3, PTL DEF Spec

-----------------------------------------------------------------------------
(* A step of the frontend, register by register.                           *)
FeReports(head, done) ==
  /\ fe'.cmdq_status.processed =
       (IF FeRetires(done) THEN Inc(fe.processed_count) ELSE fe.processed_count)
  /\ fe'.cmdq_status.empty =
       (~fe.fetch_valid /\ ~fe.fetch_inflight /\ head = fe.cmdq_tail_shadow)

FeClears(head, seed) ==
  /\ fe'.fetch_valid = FALSE /\ fe'.fetch_inflight = FALSE
  /\ fe'.cmdq_tail_shadow = seed /\ fe'.processed_count = 0
  /\ fe'.cmdq_status.processed = 0 /\ fe'.cmdq_status.empty = (head = seed)

FeIssues(head) ==
  /\ ~fe.fetch_valid /\ ~fe.fetch_inflight /\ head # fe.cmdq_tail_shadow
  /\ fe'.fetch_valid = TRUE /\ fe'.fetch_inflight = FALSE
  /\ fe'.fetch_slot = fe.cmdq_tail_shadow % EntryCount
  /\ fe'.cmdq_tail_shadow = fe.cmdq_tail_shadow
  /\ fe'.processed_count = fe.processed_count

FeTakes(ready) ==
  /\ fe.fetch_valid /\ ready
  /\ fe'.fetch_valid = FALSE /\ fe'.fetch_inflight = TRUE
  /\ fe'.fetch_slot = fe.fetch_slot
  /\ fe'.cmdq_tail_shadow = fe.cmdq_tail_shadow
  /\ fe'.processed_count = fe.processed_count

FeMovesTail(done) ==
  /\ fe.fetch_inflight /\ done
  /\ fe'.fetch_valid = fe.fetch_valid /\ fe'.fetch_inflight = FALSE
  /\ fe'.fetch_slot = fe.fetch_slot
  /\ fe'.cmdq_tail_shadow = NextSlot(fe.cmdq_tail_shadow)
  /\ fe'.processed_count = Inc(fe.processed_count)

FeHolds(ready, done) ==
  /\ ~(fe.fetch_valid /\ ready) /\ ~(fe.fetch_inflight /\ done)
  /\ fe'.fetch_valid = fe.fetch_valid /\ fe'.fetch_inflight = fe.fetch_inflight
  /\ fe'.fetch_slot = fe.fetch_slot
  /\ fe'.cmdq_tail_shadow = fe.cmdq_tail_shadow
  /\ fe'.processed_count = fe.processed_count

FeStep(en, head, seed, ready, done) ==
  \/ ~en /\ FeClears(head, seed)
  \/ en /\ FeReports(head, done) /\ FeIssues(head)
  \/ en /\ FeReports(head, done) /\ FeTakes(ready)
  \/ en /\ FeReports(head, done) /\ FeMovesTail(done)
  \/ en /\ FeReports(head, done) /\ FeHolds(ready, done)

(* Every step of FeClock is one of them.                                   *)
LEMMA FeSteps ==
  ASSUME FeTypeOK, NEW en \in BOOLEAN, NEW head, NEW seed, NEW doorbell,
         NEW ready \in BOOLEAN, NEW done \in BOOLEAN, NEW error \in BOOLEAN,
         FeClock(en, head, seed, doorbell, ready, done, error)
  PROVE  FeStep(en, head, seed, ready, done)
<1> DEFINE Fields == {"cmdq_tail_shadow", "cmdq_status", "fetch_valid", "fetch_slot",
                      "fetch_sequence", "processed_count", "last_doorbell",
                      "fetch_inflight", "error_sticky"}
           status == FeStatusAt(head, done, error)
<1>t. /\ DOMAIN fe = Fields
      /\ fe.fetch_valid \in BOOLEAN /\ fe.fetch_inflight \in BOOLEAN
  BY Zenon DEF FeTypeOK, FeRegs
<1>s. /\ status.processed = (IF FeRetires(done) THEN Inc(fe.processed_count)
                             ELSE fe.processed_count)
      /\ status.empty = (~fe.fetch_valid /\ ~fe.fetch_inflight
                           /\ head = fe.cmdq_tail_shadow)
  BY DEF FeStatusAt, FeRetires
<1>r. fe'.cmdq_status = status => FeReports(head, done)
  BY <1>s DEF FeReports
<1>1. CASE ~en /\ FeDisabled(head, seed, doorbell)
  BY <1>1 DEF FeDisabled, FeClears, FeStep
<1>2. CASE en /\ FeIssue(head, doorbell, done, error)
  <2> DEFINE slot == fe.cmdq_tail_shadow % EntryCount
  <2>1. fe' = [[fe EXCEPT !.fetch_valid = TRUE, !.fetch_slot = slot,
                          !.fetch_sequence = fe.processed_count]
                 EXCEPT !.last_doorbell = doorbell, !.cmdq_status = status]
    BY <1>2 DEF FeIssue, FeEveryEdge
  <2> HIDE DEF status, slot
  <2>2. /\ fe'.fetch_valid = TRUE /\ fe'.fetch_inflight = fe.fetch_inflight
        /\ fe'.fetch_slot = slot /\ fe'.cmdq_tail_shadow = fe.cmdq_tail_shadow
        /\ fe'.processed_count = fe.processed_count /\ fe'.cmdq_status = status
    BY <1>t, <2>1, Zenon
  <2> QED
    BY <1>t, <1>r, <1>2, <2>2 DEF FeIssue, FeCanIssue, FeIssues, FeStep, slot
<1>3. CASE en /\ FeAccepted(head, doorbell, ready, done, error)
  <2>1. fe' = [[fe EXCEPT !.fetch_valid = FALSE, !.fetch_inflight = TRUE]
                 EXCEPT !.last_doorbell = doorbell, !.cmdq_status = status]
    BY <1>3 DEF FeAccepted, FeEveryEdge
  <2> HIDE DEF status
  <2>2. /\ fe'.fetch_valid = FALSE /\ fe'.fetch_inflight = TRUE
        /\ fe'.fetch_slot = fe.fetch_slot /\ fe'.cmdq_tail_shadow = fe.cmdq_tail_shadow
        /\ fe'.processed_count = fe.processed_count /\ fe'.cmdq_status = status
    BY <1>t, <2>1, Zenon
  <2> QED
    BY <1>r, <1>3, <2>2 DEF FeAccepted, FeTakes, FeStep
<1>4. CASE en /\ FeRetire(head, doorbell, done, error)
  <2> DEFINE count == Inc(fe.processed_count)
             next == (fe.cmdq_tail_shadow + 1) % EntryCount
             sticky == fe.error_sticky \/ error
  <2>1. fe' = [[fe EXCEPT !.fetch_inflight = FALSE, !.cmdq_tail_shadow = next,
                          !.processed_count = count, !.error_sticky = sticky]
                 EXCEPT !.last_doorbell = doorbell, !.cmdq_status = status]
    BY <1>4 DEF FeRetire, FeEveryEdge
  <2> HIDE DEF status, count, next, sticky
  <2>2. /\ fe'.fetch_valid = fe.fetch_valid /\ fe'.fetch_inflight = FALSE
        /\ fe'.fetch_slot = fe.fetch_slot /\ fe'.cmdq_tail_shadow = next
        /\ fe'.processed_count = count /\ fe'.cmdq_status = status
    BY <1>t, <2>1, Zenon
  <2> QED
    BY <1>r, <1>4, <2>2 DEF FeRetire, FeRetires, FeMovesTail, NextSlot, FeStep, count, next
<1>5. CASE en /\ FeHold(head, doorbell, ready, done, error)
  <2>1. fe' = [fe EXCEPT !.last_doorbell = doorbell, !.cmdq_status = status]
    BY <1>5 DEF FeHold, FeEveryEdge
  <2> HIDE DEF status
  <2>2. /\ fe'.fetch_valid = fe.fetch_valid /\ fe'.fetch_inflight = fe.fetch_inflight
        /\ fe'.fetch_slot = fe.fetch_slot /\ fe'.cmdq_tail_shadow = fe.cmdq_tail_shadow
        /\ fe'.processed_count = fe.processed_count /\ fe'.cmdq_status = status
    BY <1>t, <2>1, Zenon
  <2> QED
    BY <1>r, <1>5, <2>2 DEF FeHold, FeRetires, FeHolds, FeStep
<1> QED
  BY <1>1, <1>2, <1>3, <1>4, <1>5 DEF FeClock

(* A step of the arbiter, register by register.                            *)
ArbStep(asked, first, arready, rready) ==
  \/ asked /\ arready /\ arb'.read_active = TRUE /\ arb'.owner_desc = first
  \/ /\ arb.read_active /\ rd.rvalid /\ rready /\ Rlast
     /\ arb'.read_active = FALSE /\ arb'.owner_desc = arb.owner_desc
  \/ /\ ~(asked /\ arready) /\ ~(arb.read_active /\ rd.rvalid /\ rready /\ Rlast)
     /\ arb'.read_active = arb.read_active /\ arb'.owner_desc = arb.owner_desc

(* An edge of the read path: what the frontend, the two readers, the       *)
(* arbiter, the read half of the port and the software do at it.           *)
ReadEdge(arready) ==
  /\ arready => PortArvalid /\ ~rd.busy
  /\ FeStep(enable, regs.cmdq_head, regs.cmdq_tail, fx.fetch_ready, fx.desc_done)
  /\ FxStep(enable, fe.fetch_valid, fe.fetch_slot, DescArready(arready),
            DescRvalid(rd.rvalid), rd.rdata, rd.rerror, Rlast)
  /\ PfStep(enable, disp.npu_dispatch_pulse, disp.npu_job, NpuArready(arready),
            NpuRvalid(rd.rvalid), rd.rdata, rd.rerror, Rlast)
  /\ ArbStep(PortArvalid, GrantDesc(fx.arvalid), arready, PortRready)
  /\ RdStep(PortArvalid, PortAraddr, arready, PortRready)
  /\ SoftStep /\ HistClock

(* A step of the path is a step of its read side.                          *)
LEMMA ReadEdges ==
  ASSUME TypeOK, NEW arready \in ReadySet("AR", PortArvalid /\ ~rd.busy),
         NEW awready, NEW wready, PortClock(arready, awready, wready),
         AccelClock(arready, awready, wready), SoftwareClock
  PROVE  ReadEdge(arready)
<1>t. /\ FeTypeOK /\ FxTypeOK /\ PfTypeOK /\ PortTypeOK /\ HostTypeOK /\ RegsTypeOK
      /\ enable \in BOOLEAN /\ arready \in BOOLEAN /\ fe.fetch_valid \in BOOLEAN
      /\ fx.fetch_ready \in BOOLEAN /\ fx.desc_done \in BOOLEAN /\ fx.desc_error \in BOOLEAN
      /\ disp.npu_dispatch_pulse \in BOOLEAN /\ rd.rerror \in BOOLEAN /\ Rlast \in BOOLEAN
      /\ DescArready(arready) \in BOOLEAN /\ NpuArready(arready) \in BOOLEAN
      /\ DescRvalid(rd.rvalid) \in BOOLEAN /\ NpuRvalid(rd.rvalid) \in BOOLEAN
      /\ PortArvalid \in BOOLEAN /\ PortRready \in BOOLEAN
  BY DEF TypeOK, FeTypeOK, FeRegs, FxTypeOK, FxRegs, PfTypeOK, PfRegs, DecTypeOK, DispRegs,
     RegsTypeOK, RegFile, enable, PortTypeOK, ReadySet, Rlast, DescArready, NpuArready,
     DescRvalid, NpuRvalid, PortArvalid, ArbArvalid, PortRready, ArbRready, GrantDesc, GrantNpu
<1>1. arready => PortArvalid /\ ~rd.busy
  BY DEF ReadySet
<1>2. FeStep(enable, regs.cmdq_head, regs.cmdq_tail, fx.fetch_ready, fx.desc_done)
  BY <1>t, FeSteps DEF AccelClock
<1>3. FxStep(enable, fe.fetch_valid, fe.fetch_slot, DescArready(arready),
             DescRvalid(rd.rvalid), rd.rdata, rd.rerror, Rlast)
  BY <1>t, FxSteps DEF AccelClock
<1>4. PfStep(enable, disp.npu_dispatch_pulse, disp.npu_job, NpuArready(arready),
             NpuRvalid(rd.rvalid), rd.rdata, rd.rerror, Rlast)
  BY <1>t, PfSteps DEF AccelClock
<1>5. ArbStep(PortArvalid, GrantDesc(fx.arvalid), arready, PortRready)
  <2>1. ArbClock(fx.arvalid, pf.arvalid, arready, fx.rready, pf.rready, rd.rvalid, Rlast)
    BY DEF AccelClock
  <2>2. arb \in [read_active : BOOLEAN, owner_desc : BOOLEAN]
    BY DEF TypeOK, ArbTypeOK
  <2> QED
    BY <2>1, <2>2 DEF ArbClock, ArbGrant, ArbRelease, ArbHold, ArbStep, PortArvalid, PortRready
<1>6. RdStep(PortArvalid, PortAraddr, arready, PortRready)
  BY <1>t, RdSteps DEF PortClock
<1>7. SoftStep
  BY <1>t, SoftSteps
<1>8. HistClock
  BY DEF AccelClock
<1> QED
  BY <1>1, <1>2, <1>3, <1>4, <1>5, <1>6, <1>7, <1>8 DEF ReadEdge

(* So every step of Next has one.                                          *)
LEMMA NextReadEdge ==
  ASSUME TypeOK, Next
  PROVE  \E arready \in BOOLEAN : ReadEdge(arready)
<1>p. PICK arready \in ReadySet("AR", PortArvalid /\ ~rd.busy),
           awready \in ReadySet("AW", st.awvalid /\ ~wr.busy),
           wready \in ReadySet("W", st.wvalid /\ wr.busy /\ wr.beat < OutBeats) :
        /\ PortClock(arready, awready, wready) /\ AccelClock(arready, awready, wready)
        /\ SoftwareClock
  BY DEF Next, Edge
<1> QED
  BY <1>p, ReadEdges DEF ReadySet

-----------------------------------------------------------------------------
(* BurstOwner, with what the arbiter needs of the two masters to keep it:  *)
(* the address a master shows is the one its state says, and a queue that  *)
(* was never disabled is quiet until it is enabled.                        *)
ReadOwned ==
  host.disables = 0 =>
    /\ BurstOwner
    /\ rd.rvalid => rd.busy
    /\ fx.arvalid => fx.araddr = fe.fetch_slot
    /\ pf.arvalid => pf.state \in {"INPUT_AR", "WEIGHT_AR"}
    /\ ~enable => ~rd.busy /\ ~fx.arvalid /\ ~fx.active /\ pf.state = "IDLE"

(* The read channel is quiet at reset.                                     *)
LEMMA ReadOwnedInit == Init => ReadOwned
  BY DEF Init, FeInit, FxInit, PfInit, PfReset, ArbInit, PortInit, RegsInit, ReadOwned,
     BurstOwner, enable

(* The software never decreases its count of disables, and only a disable  *)
(* clears the enable bit.                                                  *)
LEMMA EnableStays ==
  ASSUME HostTypeOK, SoftStep
  PROVE  /\ host'.disables = 0 => host.disables = 0 /\ (enable => enable')
         /\ host'.resets = 0 => host.resets = 0
<1>1. host.disables \in Nat /\ host.resets \in Nat
  BY HostAssumption DEF HostTypeOK, HostAssumption
<1> QED
  BY <1>1 DEF SoftStep, SoftPush, SoftPushed, SoftSubmit, SoftDoorbell, SoftSync, SoftReset,
     SoftReadShadow, SoftForward, SoftEnable, SoftDisable, SoftDirect, SameRegs, SameHost,
     HostIs, QueueRegs, enable

(* What happens at one edge on the read channel: an address is accepted    *)
(* from one of the masters, a beat is taken by one of them, or nothing.    *)
Opened(addr, first) ==
  /\ rd'.busy = TRUE /\ rd'.addr = addr /\ rd'.beat = 0 /\ rd'.rvalid = FALSE
  /\ arb'.read_active = TRUE /\ arb'.owner_desc = first

BeatTaken ==
  /\ rd.busy /\ rd.rvalid /\ rd'.addr = rd.addr /\ rd'.busy = ~Rlast
  /\ ~Rlast => rd'.beat = rd.beat + 1 /\ rd.beat < 7
  /\ Rlast => rd'.rvalid = FALSE
  /\ arb'.read_active = ~Rlast /\ arb'.owner_desc = arb.owner_desc

NothingTaken ==
  /\ rd'.busy = rd.busy /\ rd'.addr = rd.addr /\ rd'.beat = rd.beat
  /\ rd'.rvalid => rd.busy
  /\ arb'.read_active = arb.read_active /\ arb'.owner_desc = arb.owner_desc

ReadMove(arready) ==
  \/ /\ DescArready(arready) /\ ~NpuArready(arready) /\ ~DescRvalid(rd.rvalid)
     /\ ~NpuRvalid(rd.rvalid) /\ fx.arvalid /\ ~rd.busy /\ Opened(DescAddr, TRUE)
  \/ /\ ~DescArready(arready) /\ NpuArready(arready) /\ ~DescRvalid(rd.rvalid)
     /\ ~NpuRvalid(rd.rvalid) /\ pf.arvalid /\ ~rd.busy /\ Opened(PfAraddr, FALSE)
  \/ /\ ~DescArready(arready) /\ ~NpuArready(arready) /\ DescRvalid(rd.rvalid)
     /\ ~NpuRvalid(rd.rvalid) /\ arb.owner_desc /\ BeatTaken
  \/ /\ ~DescArready(arready) /\ ~NpuArready(arready) /\ ~DescRvalid(rd.rvalid)
     /\ NpuRvalid(rd.rvalid) /\ ~arb.owner_desc /\ BeatTaken
  \/ /\ ~DescArready(arready) /\ ~NpuArready(arready) /\ ~DescRvalid(rd.rvalid)
     /\ ~NpuRvalid(rd.rvalid) /\ NothingTaken

(* Every edge does one of these to the read channel.                       *)
LEMMA ReadMoves ==
  ASSUME TypeOK, ReadOwned, host.disables = 0, NEW arready \in BOOLEAN, ReadEdge(arready)
  PROVE  ReadMove(arready)
<1>t. /\ rd.busy \in BOOLEAN /\ rd.rvalid \in BOOLEAN /\ rd.beat \in 0..7
      /\ rd.addr \in Address /\ rd.beat < BurstLen(rd.addr)
      /\ arb.read_active \in BOOLEAN /\ arb.owner_desc \in BOOLEAN
      /\ fx.arvalid \in BOOLEAN /\ pf.arvalid \in BOOLEAN
      /\ fx.rready \in BOOLEAN /\ pf.rready \in BOOLEAN
  BY DEF TypeOK, PortTypeOK, ArbTypeOK, FxTypeOK, FxRegs, PfTypeOK, PfRegs
<1>b. ~Rlast => rd.beat < 7
  BY <1>t, BurstLenBounds DEF Rlast
<1>o. /\ rd.busy = arb.read_active /\ (rd.rvalid => rd.busy)
      /\ rd.busy /\ arb.owner_desc => fx.rready
      /\ rd.busy /\ ~arb.owner_desc => pf.rready
  BY DEF ReadOwned, BurstOwner
<1>s. /\ arready => PortArvalid /\ ~rd.busy
      /\ ArbStep(PortArvalid, GrantDesc(fx.arvalid), arready, PortRready)
      /\ RdStep(PortArvalid, PortAraddr, arready, PortRready)
  BY DEF ReadEdge
<1>r. rd.busy => PortRready
  BY <1>t, <1>o DEF PortRready, ArbRready
<1>1. CASE arready /\ fx.arvalid
  <2>1. GrantDesc(fx.arvalid) = TRUE /\ PortAraddr = DescAddr
    BY <1>1, <1>s, <1>o, <1>t DEF GrantDesc, PortAraddr, ArbAraddr
  <2>2. Opened(DescAddr, TRUE)
    BY <1>1, <1>s, <1>o, <1>t, <2>1 DEF ArbStep, RdStep, Opened
  <2> QED
    BY <1>1, <1>s, <1>o, <1>t, <2>2
       DEF ReadMove, DescArready, NpuArready, DescRvalid, NpuRvalid, GrantDesc, GrantNpu
<1>2. CASE arready /\ ~fx.arvalid
  <2>1. GrantDesc(fx.arvalid) = FALSE /\ PortAraddr = PfAraddr /\ pf.arvalid
    BY <1>2, <1>s, <1>t DEF GrantDesc, GrantNpu, PortAraddr, ArbAraddr, PortArvalid, ArbArvalid
  <2>2. Opened(PfAraddr, FALSE)
    BY <1>2, <1>s, <1>o, <1>t, <2>1 DEF ArbStep, RdStep, Opened
  <2> QED
    BY <1>2, <1>s, <1>o, <1>t, <2>1, <2>2
       DEF ReadMove, DescArready, NpuArready, DescRvalid, NpuRvalid, GrantDesc, GrantNpu
<1>3. CASE ~arready /\ rd.rvalid
  <2>1. BeatTaken
    <3>1. Rlast \in BOOLEAN
      BY DEF Rlast
    <3> QED
      BY <1>3, <1>s, <1>o, <1>t, <1>r, <1>b, <3>1 DEF ArbStep, RdStep, RdShows, BeatTaken
  <2> QED
    BY <1>3, <1>o, <1>t, <2>1 DEF ReadMove, DescArready, NpuArready, DescRvalid, NpuRvalid
<1>4. CASE ~arready /\ ~rd.rvalid
  <2>1. NothingTaken
    BY <1>4, <1>s, <1>o, <1>t DEF ArbStep, RdStep, RdShows, NothingTaken
  <2> QED
    BY <1>4, <1>t, <2>1 DEF ReadMove, DescArready, NpuArready, DescRvalid, NpuRvalid
<1> QED
  BY <1>1, <1>2, <1>3, <1>4

-----------------------------------------------------------------------------
(* ReadOwned is inductive relative to TypeOK and Handshake.                *)
LEMMA ReadOwnedStep == TypeOK /\ Handshake /\ ReadOwned /\ [Next]_vars => ReadOwned'
<1> SUFFICES ASSUME TypeOK, Handshake, ReadOwned, [Next]_vars PROVE ReadOwned'
  OBVIOUS
<1>1. CASE UNCHANGED vars
  BY <1>1 DEF vars, ReadOwned, BurstOwner, PfAraddr, enable
<1>2. CASE Next
  <2> SUFFICES ASSUME host'.disables = 0
               PROVE  /\ BurstOwner'
                      /\ rd'.rvalid => rd'.busy
                      /\ fx'.arvalid => fx'.araddr = fe'.fetch_slot
                      /\ pf'.arvalid => pf'.state \in {"INPUT_AR", "WEIGHT_AR"}
                      /\ ~enable' => ~rd'.busy /\ ~fx'.arvalid /\ ~fx'.active
                                     /\ pf'.state = "IDLE"
    BY DEF ReadOwned
  <2>p. PICK arready \in BOOLEAN : ReadEdge(arready)
    BY <1>2, NextReadEdge
  <2>h. host.disables = 0 /\ (enable => enable')
    BY <2>p, EnableStays DEF TypeOK, ReadEdge
  <2>m. ReadMove(arready)
    BY <2>p, <2>h, ReadMoves
  <2>i. /\ BurstOwner /\ (rd.rvalid => rd.busy)
        /\ fx.arvalid => fx.araddr = fe.fetch_slot
        /\ pf.arvalid => pf.state \in {"INPUT_AR", "WEIGHT_AR"}
        /\ ~enable => ~rd.busy /\ ~fx.arvalid /\ ~fx.active /\ pf.state = "IDLE"
    BY <2>h DEF ReadOwned
  <2>t. /\ rd.busy \in BOOLEAN /\ rd.rvalid \in BOOLEAN /\ rd.beat \in 0..7
        /\ rd.addr \in Address /\ enable \in BOOLEAN
        /\ arb.read_active \in BOOLEAN /\ arb.owner_desc \in BOOLEAN
        /\ fx.arvalid \in BOOLEAN /\ fx.active \in BOOLEAN /\ fx.rready \in BOOLEAN
        /\ pf.arvalid \in BOOLEAN /\ pf.rready \in BOOLEAN
        /\ fe.fetch_valid \in BOOLEAN /\ fe.fetch_inflight \in BOOLEAN
        /\ pf.state \in PfStates /\ Rlast \in BOOLEAN
    BY DEF TypeOK, PortTypeOK, ArbTypeOK, FeTypeOK, FeRegs, FxTypeOK, FxRegs, PfTypeOK,
       PfRegs, RegsTypeOK, RegFile, enable, Rlast
  <2> DEFINE dr == DescRvalid(rd.rvalid)
             nr == NpuRvalid(rd.rvalid)
             da == DescArready(arready)
             na == NpuArready(arready)
             dv == disp.npu_dispatch_pulse
  <2>s. /\ FeStep(enable, regs.cmdq_head, regs.cmdq_tail, fx.fetch_ready, fx.desc_done)
        /\ FxStep(enable, fe.fetch_valid, fe.fetch_slot, da, dr, rd.rdata, rd.rerror, Rlast)
        /\ PfStep(enable, dv, disp.npu_job, na, nr, rd.rdata, rd.rerror, Rlast)
    BY <2>p DEF ReadEdge
  <2>bit. da \in BOOLEAN /\ na \in BOOLEAN /\ dr \in BOOLEAN /\ nr \in BOOLEAN
    BY <2>t, <2>m DEF DescArready, NpuArready, DescRvalid, NpuRvalid, GrantDesc, GrantNpu,
       ReadEdge, ReadMove
  <2> HIDE DEF dr, nr, da, na, dv
  <2>move. \/ da /\ ~na /\ ~dr /\ ~nr /\ fx.arvalid /\ ~rd.busy /\ Opened(DescAddr, TRUE)
           \/ ~da /\ na /\ ~dr /\ ~nr /\ pf.arvalid /\ ~rd.busy /\ Opened(PfAraddr, FALSE)
           \/ ~da /\ ~na /\ dr /\ ~nr /\ arb.owner_desc /\ BeatTaken
           \/ ~da /\ ~na /\ ~dr /\ nr /\ ~arb.owner_desc /\ BeatTaken
           \/ ~da /\ ~na /\ ~dr /\ ~nr /\ NothingTaken
    BY <2>m DEF ReadMove, dr, nr, da, na
  <2>1. CASE ~enable
    <3>1. NothingTaken
      BY <2>1, <2>move, <2>i DEF BeatTaken
    <3>2. /\ fx'.arvalid = FALSE /\ fx'.active = FALSE
          /\ pf'.state = "IDLE" /\ pf'.arvalid = FALSE
      <4>1. FxStops /\ pf' = PfReset
        BY <2>1, <2>s DEF FxStep, PfStep
      <4> QED
        BY <4>1 DEF FxStops, PfReset
    <3>3. rd'.busy = FALSE /\ arb'.read_active = FALSE /\ (rd'.rvalid => rd'.busy)
      BY <2>1, <2>i, <2>t, <3>1 DEF NothingTaken, BurstOwner
    <3> QED
      BY <3>2, <3>3 DEF BurstOwner
  <2>2. CASE enable
    <3>e. enable'
      BY <2>2, <2>h
    <3>1. rd'.busy = arb'.read_active /\ (rd'.rvalid => rd'.busy)
      BY <2>move, <2>i, <2>t DEF Opened, BeatTaken, NothingTaken, BurstOwner
    <3>slot. fx.arvalid \/ fx.active \/ fe.fetch_valid => fe'.fetch_slot = fe.fetch_slot
      BY <2>2, <2>s, <2>t DEF FeStep, FeIssues, FeTakes, FeMovesTail, FeHolds, Handshake
    <3>2. fx'.arvalid => fx'.araddr = fe'.fetch_slot
      <4>1. \/ fx'.arvalid = FALSE
            \/ fe.fetch_valid /\ fx'.araddr = fe.fetch_slot
            \/ fx'.arvalid = fx.arvalid /\ fx'.araddr = fx.araddr
        BY <2>2, <2>s DEF FxStep, FxAsks, FxOpens, FxReceives, FxWaits
      <4> QED
        BY <2>i, <3>slot, <4>1
    <3>fx. /\ fx'.active => rd'.busy /\ arb'.owner_desc
           /\ rd'.busy /\ arb'.owner_desc =>
                /\ fx'.active /\ fx'.rready
                /\ rd'.addr = [buf |-> "desc", at |-> fe'.fetch_slot]
                /\ rd'.beat = fx'.beat_count
      <4>h. /\ fx.arvalid => fe.fetch_valid /\ ~fx.active
            /\ rd.busy = arb.read_active
            /\ fx.active <=> rd.busy /\ arb.owner_desc
            /\ rd.busy /\ arb.owner_desc =>
                 /\ fx.rready /\ rd.addr = [buf |-> "desc", at |-> fe.fetch_slot]
                 /\ rd.beat = fx.beat_count
        BY <2>i, <2>t DEF Handshake, BurstOwner
      <4>1. CASE da /\ ~dr /\ fx.arvalid /\ ~rd.busy /\ Opened(DescAddr, TRUE)
        <5>1. FxOpens(fe.fetch_valid, fe.fetch_slot, da)
          BY <2>2, <2>s, <4>1, <4>h DEF FxStep, FxAsks, FxReceives, FxWaits
        <5> QED
          BY <2>i, <3>slot, <4>1, <4>h, <5>1 DEF FxOpens, Opened, DescAddr
      <4>2. CASE ~da /\ ~dr /\ ~rd.busy /\ Opened(PfAraddr, FALSE)
        <5>1. fx'.active = fx.active
          BY <2>2, <2>s, <2>t, <4>2 DEF FxStep, FxAsks, FxOpens, FxReceives, FxWaits
        <5> QED
          BY <4>2, <4>h, <5>1 DEF Opened
      <4>3. CASE ~da /\ dr /\ arb.owner_desc /\ BeatTaken
        <5>0. rd.busy /\ fx.active
          BY <4>3, <4>h DEF BeatTaken
        <5>1. FxReceives(dr, rd.rdata, rd.rerror, Rlast)
          BY <2>2, <2>s, <4>3, <4>h, <5>0 DEF FxStep, FxAsks, FxOpens, FxWaits
        <5>2. ~Rlast => (fx.beat_count + 1) % 16 = rd.beat + 1
          BY <2>t, <4>3, <4>h, <5>0 DEF BeatTaken
        <5> QED
          BY <2>t, <3>slot, <4>3, <4>h, <5>0, <5>1, <5>2 DEF FxReceives, BeatTaken
      <4>4. CASE ~da /\ ~dr /\ ~arb.owner_desc /\ BeatTaken
        <5>1. fx'.active = fx.active
          BY <2>2, <2>s, <2>t, <4>4 DEF FxStep, FxAsks, FxOpens, FxReceives, FxWaits
        <5> QED
          BY <4>4, <4>h, <5>1 DEF BeatTaken
      <4>5. CASE ~da /\ ~dr /\ NothingTaken
        <5>1. /\ fx'.active = fx.active
              /\ fx.active => fx'.rready = fx.rready /\ fx'.beat_count = fx.beat_count
          BY <2>2, <2>s, <2>t, <4>5 DEF FxStep, FxAsks, FxOpens, FxReceives, FxWaits
        <5> QED
          BY <3>slot, <4>5, <4>h, <5>1 DEF NothingTaken
      <4> QED
        BY <2>move, <4>1, <4>2, <4>3, <4>4, <4>5
    <3>pf. /\ pf'.arvalid => pf'.state \in {"INPUT_AR", "WEIGHT_AR"}
           /\ pf'.state \in {"INPUT_R", "WEIGHT_R"} => rd'.busy /\ ~arb'.owner_desc
           /\ rd'.busy /\ ~arb'.owner_desc =>
                /\ pf'.state = (IF rd'.addr.buf = "input" THEN "INPUT_R" ELSE "WEIGHT_R")
                /\ pf'.rready /\ rd'.addr = PfAraddr' /\ rd'.beat = pf'.beat_index
      <4>h. /\ rd.busy = arb.read_active
            /\ pf.state \in {"INPUT_R", "WEIGHT_R"} <=> rd.busy /\ ~arb.owner_desc
            /\ rd.busy /\ ~arb.owner_desc =>
                 /\ pf.state = (IF rd.addr.buf = "input" THEN "INPUT_R" ELSE "WEIGHT_R")
                 /\ pf.rready /\ rd.addr = PfAraddr /\ rd.beat = pf.beat_index
        BY <2>i, <2>t DEF BurstOwner
      <4>j. pf'.arvalid => pf'.state \in {"INPUT_AR", "WEIGHT_AR"}
        BY <2>2, <2>s, <2>i, <2>t DEF PfStep, PfAccepts, PfIdles, PfOpens, PfTakesInput,
           PfTakesWeight, PfWaits
      <4>k. ~na /\ ~nr => /\ \/ pf'.state = pf.state
                             \/ pf.state = "IDLE" /\ pf'.state = "INPUT_AR"
                          /\ pf.state # "IDLE" => /\ pf'.job = pf.job /\ pf'.rready = pf.rready
                                                  /\ pf'.beat_index = pf.beat_index
        BY <2>2, <2>s DEF PfStep, PfAccepts, PfIdles, PfOpens, PfTakesInput, PfTakesWeight,
           PfWaits
      <4>1. CASE ~na /\ ~nr /\ ~rd.busy /\ Opened(DescAddr, TRUE)
        BY <4>1, <4>h, <4>j, <4>k DEF Opened
      <4>2. CASE na /\ ~nr /\ pf.arvalid /\ ~rd.busy /\ Opened(PfAraddr, FALSE)
        <5>1. PfOpens(dv, na)
          BY <2>2, <2>s, <2>i, <4>2 DEF PfStep, PfAccepts, PfIdles, PfTakesInput,
             PfTakesWeight, PfWaits
        <5>2. PfAraddr' = PfAraddr
          BY <5>1 DEF PfOpens, PfAraddr
        <5>3. pf'.state = (IF PfAraddr.buf = "input" THEN "INPUT_R" ELSE "WEIGHT_R")
          BY <5>1 DEF PfOpens, PfAraddr
        <5> QED
          BY <4>2, <4>j, <5>1, <5>2, <5>3 DEF PfOpens, Opened
      <4>3. CASE ~na /\ ~nr /\ arb.owner_desc /\ BeatTaken
        BY <4>3, <4>h, <4>j, <4>k DEF BeatTaken
      <4>4. CASE ~na /\ nr /\ ~arb.owner_desc /\ BeatTaken
        <5>0. rd.busy /\ pf.state \in {"INPUT_R", "WEIGHT_R"}
          BY <4>4, <4>h DEF BeatTaken
        <5>1. \/ PfTakesInput(dv, nr, rd.rdata, rd.rerror, Rlast)
              \/ PfTakesWeight(dv, nr, rd.rdata, rd.rerror, Rlast)
          BY <2>2, <2>s, <4>4, <4>h, <5>0 DEF PfStep, PfAccepts, PfIdles, PfOpens, PfWaits
        <5>2. ~Rlast => (pf.beat_index + 1) % 8 = rd.beat + 1
          BY <2>t, <4>4, <4>h, <5>0 DEF BeatTaken
        <5>3. Rlast => pf'.state \in {"IDLE", "WEIGHT_AR"} /\ rd'.busy = FALSE
          BY <2>t, <4>4, <5>1 DEF PfTakesInput, PfTakesWeight, BeatTaken
        <5>4. ~Rlast => pf'.state = pf.state /\ PfAraddr' = PfAraddr
          BY <5>1 DEF PfTakesInput, PfTakesWeight, PfAraddr
        <5> QED
          BY <2>t, <4>4, <4>h, <4>j, <5>0, <5>1, <5>2, <5>3, <5>4
             DEF PfTakesInput, PfTakesWeight, BeatTaken
      <4>5. CASE ~na /\ ~nr /\ NothingTaken
        <5>1. pf.state # "IDLE" => PfAraddr' = PfAraddr
          BY <4>5, <4>k DEF PfAraddr
        <5> QED
          BY <4>5, <4>h, <4>j, <4>k, <5>1 DEF NothingTaken
      <4> QED
        BY <2>move, <4>1, <4>2, <4>3, <4>4, <4>5
    <3> QED
      BY <3>e, <3>1, <3>2, <3>fx, <3>pf DEF BurstOwner
  <2> QED
    BY <2>t, <2>1, <2>2
<1> QED
  BY <1>1, <1>2

(* No beat reaches the wrong master or the wrong register, for any memory  *)
(* port with any stalls and errors, any ring, any use of the direct client *)
(* and of reset, as long as the queue was never disabled.                  *)
THEOREM BurstOwned == Spec => [](host.disables = 0 => BurstOwner)
<1>1. Init => TypeOK /\ Handshake /\ ReadOwned
  BY InitTyped, HandshakeInit, ReadOwnedInit
<1>2. (TypeOK /\ Handshake /\ ReadOwned) /\ [Next]_vars
        => (TypeOK /\ Handshake /\ ReadOwned)'
  BY NextTyped, HandshakeStep, ReadOwnedStep
<1>3. ReadOwned => (host.disables = 0 => BurstOwner)
  BY DEF ReadOwned
<1> QED
  BY <1>1, <1>2, <1>3, PTL DEF Spec
=============================================================================
