----------------------------- MODULE ResultStore -----------------------------
(***************************************************************************)
(* accel_npu_result_store_stub.v: writes the six result words of a         *)
(* finished job to its output offset in one AXI write burst.  st is its    *)
(* register file; the word on wdata is the wword-th word of the latched    *)
(* result, which does not change while the burst runs.                     *)
(***************************************************************************)
EXTENDS NpuExec

VARIABLE st

OutBeats == 6     \* status, logit0, logit1, class, hidden0, hidden1

StRegs ==
  [state : {"IDLE", "AW", "W", "B"}, beat_index : 0..7,
   output : Word, result : Result, awvalid : BOOLEAN,
   wvalid : BOOLEAN, wword : 0..OutBeats-1, wlast : BOOLEAN,
   bready : BOOLEAN, store_count : 0..CountMod-1,
   error_sticky : BOOLEAN]

StTypeOK == st \in StRegs

StReset ==
  [state |-> "IDLE", beat_index |-> 0, output |-> Zero,
   result |-> ZeroResult, awvalid |-> FALSE, wvalid |-> FALSE, wword |-> 0,
   wlast |-> FALSE, bready |-> FALSE, store_count |-> 0,
   error_sticky |-> FALSE]

StInit == st = StReset

(* Mutant: a request that arrives during a store is dropped silently.      *)
StEveryEdgeSilent(request) == st

(* A request that arrives during a store is dropped and flagged.           *)
StEveryEdge(request) ==
  [st EXCEPT !.error_sticky = @ \/ (request /\ st.state # "IDLE")]

StAccept(request, output, result) ==
  /\ st.state = "IDLE" /\ request
  /\ st' = [st EXCEPT !.state = "AW", !.beat_index = 0, !.output = output,
                      !.result = result, !.awvalid = TRUE, !.wvalid = FALSE,
                      !.wlast = FALSE, !.bready = FALSE, !.store_count = Inc(@)]

StIdle(request) ==
  /\ st.state = "IDLE" /\ ~request
  /\ st' = [st EXCEPT !.awvalid = FALSE, !.wvalid = FALSE, !.wlast = FALSE,
                      !.bready = FALSE, !.beat_index = 0]

StAddressTaken(request, awready) ==
  /\ st.state = "AW" /\ st.awvalid /\ awready
  /\ st' = [StEveryEdge(request) EXCEPT !.state = "W", !.awvalid = FALSE,
              !.wvalid = TRUE, !.wword = 0, !.wlast = FALSE, !.beat_index = 0]

StSendsBeat(wready) == st.state = "W" /\ st.wvalid /\ wready

StBeat(request, wready) ==
  /\ StSendsBeat(wready) /\ st.beat_index # OutBeats-1
  /\ st' = [StEveryEdge(request) EXCEPT !.beat_index = (@ + 1) % 8,
              !.wword = IF st.beat_index + 1 < OutBeats THEN st.beat_index + 1
                                                        ELSE OutBeats-1,
              !.wlast = st.beat_index = OutBeats-2]

StLastBeat(request, wready) ==
  /\ StSendsBeat(wready) /\ st.beat_index = OutBeats-1
  /\ st' = [StEveryEdge(request) EXCEPT !.state = "B", !.wvalid = FALSE,
              !.wlast = FALSE, !.bready = TRUE]

StResponse(request, bvalid, berror) ==
  /\ st.state = "B" /\ bvalid /\ st.bready
  /\ st' = [StEveryEdge(request) EXCEPT !.state = "IDLE", !.bready = FALSE,
              !.error_sticky = @ \/ berror]

StWait(request, awready, wready, bvalid) ==
  /\ \/ st.state = "AW" /\ ~(st.awvalid /\ awready)
     \/ st.state = "W" /\ ~(st.wvalid /\ wready)
     \/ st.state = "B" /\ ~(bvalid /\ st.bready)
  /\ st' = StEveryEdge(request)

StClock(enable, request, output, result, awready, wready, bvalid, berror) ==
  \/ ~enable /\ st' = StReset
  \/ enable /\ StAccept(request, output, result)
  \/ enable /\ StIdle(request)
  \/ enable /\ StAddressTaken(request, awready)
  \/ enable /\ StBeat(request, wready)
  \/ enable /\ StLastBeat(request, wready)
  \/ enable /\ StResponse(request, bvalid, berror)
  \/ enable /\ StWait(request, awready, wready, bvalid)
=============================================================================
