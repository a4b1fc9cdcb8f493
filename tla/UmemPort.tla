------------------------------- MODULE UmemPort -------------------------------
(***************************************************************************)
(* The memory behind the accelerator's AXI master port (the HP port of the *)
(* processing system), which is not in the repository: it is modelled from *)
(* the signals that zybo_z7_10_ps_pl_top.v exchanges with it and from the  *)
(* memory models of the testbenches.  A legal AXI slave with one burst in  *)
(* flight per direction: beats in order, rlast on the last one, a write    *)
(* response after the last word; it may stall any handshake, deliver       *)
(* beats back to back, and flag errors.                                    *)
(*                                                                         *)
(* rd and wr are the two halves of the slave, outmem the output buffers it *)
(* holds: outmem[id] is what job id's output offset points to, and         *)
(* outmem[0] any place no job owns.                                        *)
(***************************************************************************)
EXTENDS CmdqHost, ResultStore

CONSTANTS
  Stalling,     \* the channels on which the slave may withhold a handshake
  MaxErrors     \* bound: read beats with an error response (0: no write errors either)

ASSUME PortAssumption ==
  /\ Stalling \subseteq {"AR", "R", "AW", "W", "B"}
  /\ MaxErrors \in Nat

VARIABLES rd, wr, outmem

NoWord    == [result |-> ZeroResult, word |-> OutBeats]    \* never written
Stored(r) == [w \in 0..OutBeats-1 |-> [result |-> r, word |-> w]]

BurstLen(addr) ==
  CASE addr.buf = "desc" -> DescBeats
    [] addr.buf = "input" -> InputBeats
    [] addr.buf = "weight" -> WeightBeats

PortTypeOK ==
  /\ rd \in [busy : BOOLEAN, addr : Address, beat : 0..7, rvalid : BOOLEAN,
             rdata : Word, rerror : BOOLEAN, errors : 0..MaxErrors]
  /\ rd.beat < BurstLen(rd.addr)
  /\ wr \in [busy : BOOLEAN, addr : Word, beat : 0..OutBeats,
             bvalid : BOOLEAN, berror : BOOLEAN]
  /\ outmem \in [Ids -> [0..OutBeats-1 -> [result : Result, word : 0..OutBeats]]]

PortInit ==
  /\ rd = [busy |-> FALSE, addr |-> [buf |-> "desc", at |-> 0], beat |-> 0,
           rvalid |-> FALSE, rdata |-> Zero, rerror |-> FALSE, errors |-> 0]
  /\ wr = [busy |-> FALSE, addr |-> Zero, beat |-> 0, bvalid |-> FALSE,
           berror |-> FALSE]
  /\ outmem = [i \in Ids |-> [w \in 0..OutBeats-1 |-> NoWord]]

(* The handshake inputs the slave can show at an edge.                     *)
ReadySet(channel, possible) ==
  IF ~possible THEN {FALSE} ELSE IF channel \in Stalling THEN BOOLEAN ELSE {TRUE}

-----------------------------------------------------------------------------
(* The read half.                                                          *)

Rlast == rd.beat = BurstLen(rd.addr) - 1

(* The word at a beat of a burst, as the memory holds it now.              *)
Fetched(addr, b) ==
  IF addr.buf = "desc" THEN SlotWord(ring[addr.at], b)
                       ELSE MemWord(addr.buf, addr.at, b)

(* Show beat b of the burst, or an error in its place.                     *)
Shown(b, data, error) ==
  [rd EXCEPT !.beat = b, !.rvalid = TRUE, !.rdata = data, !.rerror = error,
             !.errors = IF error THEN @ + 1 ELSE @]

Showing(b) ==
  \/ rd' = Shown(b, Fetched(rd.addr, b), FALSE)
  \/ rd.errors < MaxErrors /\ rd' = Shown(b, Junk, TRUE)

RdAccept(arvalid, addr, arready) ==
  /\ arvalid /\ arready
  /\ rd' = [rd EXCEPT !.busy = TRUE, !.addr = addr, !.beat = 0]

RdPresent ==
  /\ rd.busy /\ ~rd.rvalid
  /\ Showing(rd.beat)

RdNext(rready) ==
  /\ rd.rvalid /\ rready /\ ~Rlast
  /\ \/ Showing(rd.beat + 1)
     \/ "R" \in Stalling /\ rd' = [rd EXCEPT !.beat = @ + 1, !.rvalid = FALSE]

RdLast(rready) ==
  /\ rd.rvalid /\ rready /\ Rlast
  /\ rd' = [rd EXCEPT !.busy = FALSE, !.rvalid = FALSE]

RdHold(arvalid, arready, rready) ==
  /\ ~(arvalid /\ arready) /\ ~(rd.rvalid /\ rready)
  /\ rd.busy /\ ~rd.rvalid => "R" \in Stalling
  /\ UNCHANGED rd

RdClock(arvalid, addr, arready, rready) ==
  \/ RdAccept(arvalid, addr, arready)
  \/ RdPresent
  \/ RdNext(rready)
  \/ RdLast(rready)
  \/ RdHold(arvalid, arready, rready)

-----------------------------------------------------------------------------
(* The write half.                                                         *)

WrAccept(awvalid, addr, awready) ==
  /\ awvalid /\ awready
  /\ wr' = [wr EXCEPT !.busy = TRUE, !.addr = addr, !.beat = 0]
  /\ UNCHANGED outmem

WrWord(wvalid, wready, result, word) ==
  /\ wvalid /\ wready
  /\ outmem' = [outmem EXCEPT ![wr.addr.id][wr.beat] =
                  [result |-> result, word |-> word]]
  /\ wr' = [wr EXCEPT !.beat = @ + 1]

WrRespond ==
  /\ wr.busy /\ wr.beat = OutBeats /\ ~wr.bvalid
  /\ \/ wr' = [wr EXCEPT !.bvalid = TRUE, !.berror = FALSE]
     \/ MaxErrors > 0 /\ wr' = [wr EXCEPT !.bvalid = TRUE, !.berror = TRUE]
  /\ UNCHANGED outmem

WrDone(bready) ==
  /\ wr.bvalid /\ bready
  /\ wr' = [wr EXCEPT !.busy = FALSE, !.bvalid = FALSE]
  /\ UNCHANGED outmem

WrHold(awvalid, awready, wvalid, wready, bready) ==
  /\ ~(awvalid /\ awready) /\ ~(wvalid /\ wready) /\ ~(wr.bvalid /\ bready)
  /\ wr.busy /\ wr.beat = OutBeats /\ ~wr.bvalid => "B" \in Stalling
  /\ UNCHANGED <<wr, outmem>>

WrClock(awvalid, addr, awready, wvalid, wready, result, word, bready) ==
  \/ WrAccept(awvalid, addr, awready)
  \/ WrWord(wvalid, wready, result, word)
  \/ WrRespond
  \/ WrDone(bready)
  \/ WrHold(awvalid, awready, wvalid, wready, bready)
=============================================================================
