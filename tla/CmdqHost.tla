------------------------------- MODULE CmdqHost -------------------------------
(***************************************************************************)
(* The software side: the queue library linux/uio/accel_cmdq_host.c with   *)
(* the client that calls it, and a second client that drives the NPU and   *)
(* GPU directly through CONTROL and STATUS as accel_mmio_demo.c does.      *)
(*                                                                         *)
(* host is the library's accel_cmdq_host_t plus the place in the call that *)
(* is running, ring the descriptor memory it writes, direct the direct     *)
(* client.  A library call takes effect one register write at a time: the  *)
(* accelerator runs between the writes.  Every operator is the software's  *)
(* part of one clock edge, so each names its effect on regs too.           *)
(***************************************************************************)
EXTENDS AccelRegs

CONSTANTS
  Doorbells,     \* the doorbell values clients pass to submit
  CopyTail,      \* clients forward CMDQ_TAIL_SHADOW to the TAIL register
  MaxResets,     \* bound: calls of accel_cmdq_host_reset
  MaxDisables,   \* bound: writes that clear UMEM_CTRL bit 3
  MaxDirect      \* bound: jobs of the direct client

ASSUME HostAssumption ==
  /\ Doorbells \subseteq Nat /\ Doorbells # {}
  /\ CopyTail \in BOOLEAN
  /\ MaxResets \in Nat /\ MaxDisables \in Nat /\ MaxDirect \in Nat

VARIABLES host, ring, direct

(* A slot of the ring: the job its first four words belong to and the job  *)
(* its last four belong to.                                                *)
Slot      == [lo : Ids, hi : Ids]
EmptySlot == [lo |-> 0, hi |-> 0]
SlotWord(slot, b) == MemWord("desc", IF b < 4 THEN slot.lo ELSE slot.hi, b)

DirectPcs == {"idle", "gpu_cmd", "npu", "gpu", "npu_seen", "gpu_seen"}

HostTypeOK ==
  /\ host \in [pc : {"idle", "pushing", "doorbell", "reset_head",
                     "reset_tail", "reset_doorbell", "forward"},
               cached_head : Slots, cached_tail : Slots, pushed : Ids,
               exposed : Ids, resets : 0..MaxResets, disables : 0..MaxDisables]
  /\ host.pc = "pushing" => host.pushed < Jobs
  /\ ring \in [Slots -> Slot]
  /\ direct \in [pc : DirectPcs, starts : 0..MaxDirect]

HostInit ==
  /\ host = [pc |-> "idle", cached_head |-> 0, cached_tail |-> 0,
             pushed |-> 0, exposed |-> 0, resets |-> 0, disables |-> 0]
  /\ ring = [s \in Slots |-> EmptySlot]
  /\ direct = [pc |-> "idle", starts |-> 0]

NextSlot(s) == (s + 1) % EntryCount

-----------------------------------------------------------------------------
(* The queue library.  pushed numbers the descriptors; exposed is the      *)
(* number of the last one below the HEAD the hardware has been shown.      *)

(* Mutant: push does not check for a full ring.                            *)
HostPushUnchecked(npu_done, gpu_done) ==
  /\ host.pc = "idle" /\ host.pushed < Jobs
  /\ ring' = [ring EXCEPT ![host.cached_head].lo = host.pushed + 1]
  /\ host' = [host EXCEPT !.pc = "pushing"]
  /\ NoWrite(npu_done, gpu_done)
  /\ UNCHANGED direct

(* accel_cmdq_host_push: copies the descriptor to the slot at cached_head  *)
(* unless the ring is full.  The copy is not one write: the hardware can   *)
(* see the first words of it without the others.  Assumed of the compiler  *)
(* and the bus: the halves land in this order, and before the HEAD write   *)
(* that follows; the C has plain stores and no barrier between them.       *)
HostPush(npu_done, gpu_done) ==
  /\ host.pc = "idle" /\ host.pushed < Jobs
  /\ NextSlot(host.cached_head) # host.cached_tail
  /\ ring' = [ring EXCEPT ![host.cached_head].lo = host.pushed + 1]
  /\ host' = [host EXCEPT !.pc = "pushing"]
  /\ NoWrite(npu_done, gpu_done)
  /\ UNCHANGED direct

HostPushed(npu_done, gpu_done) ==
  /\ host.pc = "pushing"
  /\ ring' = [ring EXCEPT ![host.cached_head].hi = host.pushed + 1]
  /\ host' = [host EXCEPT !.pc = "idle", !.cached_head = NextSlot(@),
                          !.pushed = @ + 1]
  /\ NoWrite(npu_done, gpu_done)
  /\ UNCHANGED direct

(* accel_cmdq_host_submit: HEAD first, then DOORBELL.                      *)
HostSubmitHead(npu_done, gpu_done) ==
  /\ host.pc = "idle"
  /\ host' = [host EXCEPT !.pc = "doorbell", !.exposed = host.pushed]
  /\ WriteHead(host.cached_head, npu_done, gpu_done)
  /\ UNCHANGED <<ring, direct>>

HostSubmitDoorbell(v, npu_done, gpu_done) ==
  /\ host.pc = "doorbell"
  /\ host' = [host EXCEPT !.pc = "idle"]
  /\ WriteDoorbell(v, npu_done, gpu_done)
  /\ UNCHANGED <<ring, direct>>

(* accel_cmdq_host_sync: rereads HEAD and TAIL.  Descriptors pushed and    *)
(* not submitted are forgotten.                                            *)
HostSync(npu_done, gpu_done) ==
  /\ host.pc = "idle"
  /\ host' = [host EXCEPT !.cached_head = regs.cmdq_head,
                          !.cached_tail = regs.cmdq_tail,
                          !.pushed = host.exposed]
  /\ NoWrite(npu_done, gpu_done)
  /\ UNCHANGED <<ring, direct>>

(* accel_cmdq_host_reset: zeroes the ring, then writes HEAD, TAIL and      *)
(* DOORBELL.  Until the first of these the hardware sees a zeroed ring     *)
(* under the old HEAD.  The memset is one step.                            *)
HostReset(npu_done, gpu_done) ==
  /\ host.pc = "idle" /\ host.resets < MaxResets
  /\ ring' = [s \in Slots |-> EmptySlot]
  /\ host' = [host EXCEPT !.pc = "reset_head", !.cached_head = 0,
                          !.cached_tail = 0, !.resets = @ + 1]
  /\ NoWrite(npu_done, gpu_done)
  /\ UNCHANGED direct

HostResetHead(npu_done, gpu_done) ==
  /\ host.pc = "reset_head"
  /\ host' = [host EXCEPT !.pc = "reset_tail", !.exposed = host.pushed]
  /\ WriteHead(0, npu_done, gpu_done)
  /\ UNCHANGED <<ring, direct>>

HostResetTail(npu_done, gpu_done) ==
  /\ host.pc = "reset_tail"
  /\ host' = [host EXCEPT !.pc = "reset_doorbell"]
  /\ WriteTail(0, npu_done, gpu_done)
  /\ UNCHANGED <<ring, direct>>

HostResetDoorbell(npu_done, gpu_done) ==
  /\ host.pc = "reset_doorbell"
  /\ host' = [host EXCEPT !.pc = "idle"]
  /\ WriteDoorbell(0, npu_done, gpu_done)
  /\ UNCHANGED <<ring, direct>>

(* The TAIL register is documented as the consumer index kept by the       *)
(* command processor, and push relies on it, but only software can write   *)
(* it.  A client that closes the gap reads CMDQ_TAIL_SHADOW and writes it  *)
(* to TAIL; no client in the repository does.                              *)
HostReadShadow(tail_shadow, npu_done, gpu_done) ==
  /\ CopyTail
  /\ host.pc = "idle" /\ regs.cmdq_enable
  /\ host' = [host EXCEPT !.pc = "forward", !.cached_tail = tail_shadow]
  /\ NoWrite(npu_done, gpu_done)
  /\ UNCHANGED <<ring, direct>>

HostForwardTail(npu_done, gpu_done) ==
  /\ host.pc = "forward"
  /\ host' = [host EXCEPT !.pc = "idle"]
  /\ WriteTail(host.cached_tail, npu_done, gpu_done)
  /\ UNCHANGED <<ring, direct>>

(* The client turns the command queue on and off through UMEM_CTRL.        *)
HostEnable(npu_done, gpu_done) ==
  /\ host.pc = "idle" /\ ~regs.cmdq_enable
  /\ WriteCmdqEnable(TRUE, npu_done, gpu_done)
  /\ UNCHANGED <<host, ring, direct>>

HostDisable(npu_done, gpu_done) ==
  /\ host.pc = "idle" /\ regs.cmdq_enable /\ host.disables < MaxDisables
  /\ host' = [host EXCEPT !.disables = @ + 1]
  /\ WriteCmdqEnable(FALSE, npu_done, gpu_done)
  /\ UNCHANGED <<ring, direct>>

HostQuiet(npu_done, gpu_done) ==
  /\ NoWrite(npu_done, gpu_done)
  /\ UNCHANGED <<host, ring, direct>>

-----------------------------------------------------------------------------
(* The direct client, as in accel_mmio_demo.c: start a unit, poll STATUS   *)
(* until the unit is not busy and its sticky bit is set, clear the bit.    *)

DirectGpuCmd(opcode, npu_done, gpu_done) ==
  /\ direct.pc = "idle" /\ direct.starts < MaxDirect
  /\ direct' = [direct EXCEPT !.pc = "gpu_cmd"]
  /\ WriteGpuCmd(opcode, npu_done, gpu_done)
  /\ UNCHANGED <<host, ring>>

DirectStart(unit, npu_done, gpu_done) ==
  /\ direct.pc = IF unit = "gpu" THEN "gpu_cmd" ELSE "idle"
  /\ direct.starts < MaxDirect
  /\ direct' = [pc |-> unit, starts |-> direct.starts + 1]
  /\ WriteControl(unit = "npu", unit = "gpu", npu_done, gpu_done)
  /\ UNCHANGED <<host, ring>>

(* A STATUS read that ends the polling; the others change nothing.         *)
DirectSeen(npu_busy, gpu_busy, npu_done, gpu_done) ==
  /\ \/ /\ direct.pc = "npu" /\ regs.npu_done_sticky /\ ~npu_busy
        /\ direct' = [direct EXCEPT !.pc = "npu_seen"]
     \/ /\ direct.pc = "gpu" /\ regs.gpu_done_sticky /\ ~gpu_busy
        /\ direct' = [direct EXCEPT !.pc = "gpu_seen"]
  /\ NoWrite(npu_done, gpu_done)
  /\ UNCHANGED <<host, ring>>

DirectClear(npu_done, gpu_done) ==
  /\ direct.pc \in {"npu_seen", "gpu_seen"}
  /\ direct' = [direct EXCEPT !.pc = "idle"]
  /\ WriteStatus(direct.pc = "npu_seen", direct.pc = "gpu_seen", npu_done, gpu_done)
  /\ UNCHANGED <<host, ring>>

-----------------------------------------------------------------------------
LibraryStep(npu_done, gpu_done) ==
  \/ HostPush(npu_done, gpu_done)
  \/ HostPushed(npu_done, gpu_done)
  \/ HostSubmitHead(npu_done, gpu_done)
  \/ \E v \in Doorbells : HostSubmitDoorbell(v, npu_done, gpu_done)
  \/ HostSync(npu_done, gpu_done)
  \/ HostReset(npu_done, gpu_done)
  \/ HostResetHead(npu_done, gpu_done)
  \/ HostResetTail(npu_done, gpu_done)
  \/ HostResetDoorbell(npu_done, gpu_done)

ClientStep(tail_shadow, npu_done, gpu_done) ==
  \/ HostReadShadow(tail_shadow, npu_done, gpu_done)
  \/ HostForwardTail(npu_done, gpu_done)
  \/ HostEnable(npu_done, gpu_done)
  \/ HostDisable(npu_done, gpu_done)

DirectStep(npu_busy, gpu_busy, npu_done, gpu_done) ==
  \/ \E opcode \in {"CLEAR", "DRAW_TRI"} : DirectGpuCmd(opcode, npu_done, gpu_done)
  \/ \E unit \in {"npu", "gpu"} : DirectStart(unit, npu_done, gpu_done)
  \/ DirectSeen(npu_busy, gpu_busy, npu_done, gpu_done)
  \/ DirectClear(npu_done, gpu_done)

HostClock(tail_shadow, npu_busy, gpu_busy, npu_done, gpu_done) ==
  \/ HostQuiet(npu_done, gpu_done)
  \/ LibraryStep(npu_done, gpu_done)
  \/ ClientStep(tail_shadow, npu_done, gpu_done)
  \/ DirectStep(npu_busy, gpu_busy, npu_done, gpu_done)
=============================================================================
