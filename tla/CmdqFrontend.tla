----------------------------- MODULE CmdqFrontend -----------------------------
(***************************************************************************)
(* accel_cmdq_frontend_stub.v: watches HEAD, TAIL and DOORBELL, asks the   *)
(* fetch stub for one descriptor at a time and retires it.                 *)
(*                                                                         *)
(* fe is the block's register file.  One operator per case of the clocked  *)
(* process; the arguments are the input wires sampled at the edge, and     *)
(* every right-hand side reads the values before the edge, as nonblocking  *)
(* assignments do.  fetch_offset is base + 32 * slot and is represented by *)
(* the slot.                                                               *)
(***************************************************************************)
EXTENDS AccelTypes

VARIABLE fe

FeStatus == [processed : 0..CountMod-1, error : BOOLEAN,
             empty : BOOLEAN, busy : BOOLEAN]

FeRegs ==
  [cmdq_tail_shadow : Slots, cmdq_status : FeStatus,
   fetch_valid : BOOLEAN, fetch_slot : Slots,
   fetch_sequence : 0..CountMod-1, processed_count : 0..CountMod-1,
   last_doorbell : Nat, fetch_inflight : BOOLEAN,
   error_sticky : BOOLEAN]

FeTypeOK == fe \in FeRegs

FeInit ==
  fe = [cmdq_tail_shadow |-> 0,
        cmdq_status |-> [processed |-> 0, error |-> FALSE,
                         empty |-> TRUE, busy |-> FALSE],
        fetch_valid |-> FALSE, fetch_slot |-> 0, fetch_sequence |-> 0,
        processed_count |-> 0, last_doorbell |-> 0,
        fetch_inflight |-> FALSE, error_sticky |-> FALSE]

(* enable low: everything is cleared and the tail is reseeded from TAIL.   *)
FeDisabled(head, tail_seed, doorbell) ==
  fe' = [cmdq_tail_shadow |-> tail_seed,
         cmdq_status |-> [processed |-> 0, error |-> FALSE,
                          empty |-> head = tail_seed, busy |-> FALSE],
         fetch_valid |-> FALSE, fetch_slot |-> 0, fetch_sequence |-> 0,
         processed_count |-> 0, last_doorbell |-> doorbell,
         fetch_inflight |-> FALSE, error_sticky |-> FALSE]

(* Mutant: "empty" forgets to compare HEAD with the tail.                  *)
FeStatusIgnoresHead(head, desc_done, desc_error) ==
  [processed |-> IF fe.fetch_inflight /\ desc_done
                 THEN Inc(fe.processed_count) ELSE fe.processed_count,
   error |-> fe.error_sticky \/ desc_error,
   empty |-> ~fe.fetch_valid /\ ~fe.fetch_inflight,
   busy  |-> fe.fetch_valid \/ fe.fetch_inflight]

(* cmdq_status is registered, so it shows the state before the edge, with  *)
(* a retirement at the edge already counted.                               *)
FeStatusAt(head, desc_done, desc_error) ==
  LET retire == fe.fetch_inflight /\ desc_done
  IN  [processed |-> IF retire THEN Inc(fe.processed_count)
                               ELSE fe.processed_count,
       error |-> fe.error_sticky \/ desc_error,
       empty |-> ~fe.fetch_valid /\ ~fe.fetch_inflight
                   /\ head = fe.cmdq_tail_shadow,
       busy  |-> fe.fetch_valid \/ fe.fetch_inflight]

(* What every enabled edge does whatever else happens: last_doorbell       *)
(* follows DOORBELL, so a change of DOORBELL is visible for one edge only. *)
FeEveryEdge(f, head, doorbell, desc_done, desc_error) ==
  [f EXCEPT !.last_doorbell = doorbell,
            !.cmdq_status = FeStatusAt(head, desc_done, desc_error)]

FeCanIssue(head, doorbell) ==
  /\ ~fe.fetch_valid
  /\ ~fe.fetch_inflight
  /\ head # fe.cmdq_tail_shadow
  /\ doorbell # fe.last_doorbell

FeIssue(head, doorbell, desc_done, desc_error) ==
  /\ FeCanIssue(head, doorbell)
  /\ fe' = FeEveryEdge([fe EXCEPT !.fetch_valid = TRUE,
                                  !.fetch_slot = fe.cmdq_tail_shadow % EntryCount,
                                  !.fetch_sequence = fe.processed_count],
                       head, doorbell, desc_done, desc_error)

FeAccepted(head, doorbell, fetch_ready, desc_done, desc_error) ==
  /\ fe.fetch_valid /\ fetch_ready
  /\ fe' = FeEveryEdge([fe EXCEPT !.fetch_valid = FALSE,
                                  !.fetch_inflight = TRUE],
                       head, doorbell, desc_done, desc_error)

FeRetires(desc_done) == fe.fetch_inflight /\ desc_done

(* Mutant: the tail does not wrap.                                         *)
FeRetireNoWrap(head, doorbell, desc_done, desc_error) ==
  /\ FeRetires(desc_done)
  /\ fe' = FeEveryEdge([fe EXCEPT !.fetch_inflight = FALSE,
                                  !.cmdq_tail_shadow = @ + 1,
                                  !.processed_count = Inc(@),
                                  !.error_sticky = @ \/ desc_error],
                       head, doorbell, desc_done, desc_error)

FeRetire(head, doorbell, desc_done, desc_error) ==
  /\ FeRetires(desc_done)
  /\ fe' = FeEveryEdge([fe EXCEPT !.fetch_inflight = FALSE,
                                  !.cmdq_tail_shadow = (@ + 1) % EntryCount,
                                  !.processed_count = Inc(@),
                                  !.error_sticky = @ \/ desc_error],
                       head, doorbell, desc_done, desc_error)

FeHold(head, doorbell, fetch_ready, desc_done, desc_error) ==
  /\ ~FeCanIssue(head, doorbell)
  /\ ~(fe.fetch_valid /\ fetch_ready)
  /\ ~FeRetires(desc_done)
  /\ fe' = FeEveryEdge(fe, head, doorbell, desc_done, desc_error)

(* The three cases of the enabled process exclude one another because      *)
(* fetch_valid and fetch_inflight are never both set (FeExclusive, proved  *)
(* in QueueProofs).                                                        *)
FeClock(enable, head, tail_seed, doorbell, fetch_ready, desc_done, desc_error) ==
  \/ ~enable /\ FeDisabled(head, tail_seed, doorbell)
  \/ enable /\ FeIssue(head, doorbell, desc_done, desc_error)
  \/ enable /\ FeAccepted(head, doorbell, fetch_ready, desc_done, desc_error)
  \/ enable /\ FeRetire(head, doorbell, desc_done, desc_error)
  \/ enable /\ FeHold(head, doorbell, fetch_ready, desc_done, desc_error)

FeExclusive == ~(fe.fetch_valid /\ fe.fetch_inflight)
=============================================================================
