---------------------------- MODULE EmuQueueProofs ----------------------------
(***************************************************************************)
(* The emulator and the library implement the bounded queue of JobQueue,   *)
(* for every ring, job, doorbell value and number of calls, a doorbell     *)
(* drains what was submitted, the counters add up, the state keeps its     *)
(* types, queued pictures and results reach the buffers their descriptors  *)
(* name, and a direct inference is of its client's operands.               *)
(***************************************************************************)
EXTENDS EmuProofs

-----------------------------------------------------------------------------
(* Positions on the ring: k slots onward from s, and how many from one to  *)
(* another.                                                                *)
Onward(s, k) == IF s + k < Entries THEN s + k ELSE s + k - Entries
Lag(from, to) == IF to >= from THEN to - from ELSE to - from + Entries

(* The next position, by the remainder the code takes.                     *)
LEMMA SlotArithmetic ==
  ASSUME NEW s \in Slots
  PROVE  s % Entries = s /\ (s + 1) % Entries = Onward(s, 1) /\ NextTail(s, Entries) = Onward(s, 1)
<1>1. /\ Entries \in Nat \ {0} /\ s \in 0..Entries-1
  BY EntriesPositive DEF Slots
<1>2. ASSUME NEW n \in Nat \ {0}, NEW q \in Int, NEW r \in 0..n-1
      PROVE  (n * q + r) % n = r
  OBVIOUS
<1>3. (Entries * 0 + s) % Entries = s
  BY <1>1, <1>2
<1>4. s + 1 < Entries => (Entries * 0 + (s + 1)) % Entries = s + 1
  BY <1>1, <1>2
<1>5. s + 1 = Entries => (Entries * 1 + 0) % Entries = 0
  BY <1>1, <1>2
<1>6. (s + 1) % Entries = Onward(s, 1)
  <2>1. CASE s + 1 < Entries
    <3>1. Entries * 0 + (s + 1) = s + 1
      BY <1>1
    <3>2. QED
      BY <1>4, <2>1, <3>1 DEF Onward
  <2>2. CASE s + 1 = Entries
    <3>1. Entries * 1 + 0 = s + 1 /\ Onward(s, 1) = 0
      BY <1>1, <2>2 DEF Onward
    <3>2. QED
      BY <1>5, <2>2, <3>1
  <2>3. QED
    BY <1>1, <2>1, <2>2
<1>7. Entries * 0 + s = s
  BY <1>1
<1>8. QED
  BY <1>3, <1>6, <1>7 DEF NextTail

-----------------------------------------------------------------------------
(* The invariant.  What the ring holds is determined by the three numbers  *)
(* of the queue: HEAD and cached_head lie ahead of TAIL by the jobs        *)
(* submitted and pushed that are not processed, the slots between hold     *)
(* these jobs in order, and cached_tail lags so far at most that the       *)
(* library never takes a slot in use for a free one.                       *)
Done == Len(jobs.processed)
Submitted == jobs.exposed - Done
Pushed == jobs.pushed - Done

JobsOK ==
  /\ DOMAIN jobs = {"pushed", "exposed", "next", "processed", "nops"}
  /\ jobs.processed \in Seq(Nat) /\ jobs.pushed \in Nat /\ jobs.exposed \in Nat
  /\ 0 <= Submitted /\ Submitted <= Pushed /\ Pushed <= Entries - 1

HeadsOK ==
  /\ DOMAIN host = {"cached_head", "cached_tail"}
  /\ emu.reg["CMDQ_HEAD"] \in Slots /\ emu.reg["CMDQ_TAIL"] \in Slots
  /\ host.cached_head \in Slots /\ host.cached_tail \in Slots
  /\ emu.reg["CMDQ_HEAD"] = Onward(emu.reg["CMDQ_TAIL"], Submitted)
  /\ host.cached_head = Onward(emu.reg["CMDQ_TAIL"], Pushed)
  /\ Lag(host.cached_tail, emu.reg["CMDQ_TAIL"]) + Pushed <= Entries - 1

IdsOK ==
  \A i \in 0..Pushed-1 :
    emu.mem.ring[Onward(emu.reg["CMDQ_TAIL"], i)].id = Done + i + 1

(* The count that guards the loop is more than what is left to process,    *)
(* until the process exits.                                                *)
LoopOK ==
  /\ DOMAIN drain = {"on", "safety", "error"} /\ drain.on \in BOOLEAN
  /\ drain.on /\ ~emu.exited => drain.safety \in Nat /\ drain.safety > Submitted

QueueOK == JobsOK /\ HeadsOK /\ IdsOK /\ LoopOK
QueueInv == EmuOK(emu) /\ QueueOK

(* The queue is empty at the start, and so is the abstract one.            *)
LEMMA QueueInit == Init => QueueInv /\ Q!QInit
<1> SUFFICES ASSUME Init PROVE QueueInv /\ Q!QInit
  OBVIOUS
<1>1. EmuOK(emu)
  BY InitInvariant DEF EInv
<1>2. emu.reg["CMDQ_HEAD"] = 0 /\ emu.reg["CMDQ_TAIL"] = 0
  <2>1. "CMDQ_HEAD" \in Registers /\ "CMDQ_TAIL" \in Registers
    BY DEF Registers, Others
  <2>2. emu.reg = ResetRegisters
    BY DEF emu_init, Init
  <2>3. QED
    BY <2>1, <2>2 DEF ResetRegisters
<1>3. Entries \in Nat \ {0}
  BY EntriesPositive
<1>4. /\ jobs = [pushed |-> 0, exposed |-> 0, next |-> 1, processed |-> <<>>, nops |-> 0]
      /\ host = [cached_head |-> 0, cached_tail |-> 0] /\ drain = NoDrain
  BY DEF Init
<1>5. Done = 0 /\ Submitted = 0 /\ Pushed = 0 /\ JobsOK
  BY <1>3, <1>4 DEF Done, Submitted, Pushed, JobsOK
<1>6. HeadsOK /\ IdsOK /\ LoopOK
  BY <1>2, <1>3, <1>4, <1>5 DEF HeadsOK, IdsOK, LoopOK, Onward, Lag, Slots, NoDrain
<1>7. QED
  BY <1>1, <1>4, <1>5, <1>6 DEF QueueInv, QueueOK, Q!QInit

-----------------------------------------------------------------------------
(* What the calls that are not the queue's leave alone.                    *)
Frame(e, n) ==
  /\ n.mem.ring = e.mem.ring /\ n.reg["CMDQ_HEAD"] = e.reg["CMDQ_HEAD"]
  /\ n.reg["CMDQ_TAIL"] = e.reg["CMDQ_TAIL"]

(* A run of a unit leaves what the queue relies on.                        *)
LEMMA LeavesFrame == ASSUME NEW e, NEW n, Leaves(e, n) PROVE Frame(e, n)
<1>1. {"CMDQ_HEAD", "CMDQ_TAIL"} \subseteq Registers \ Operands
  BY DEF Registers, Others, Operands
<1>2. QED
  BY <1>1 DEF Leaves, Frame

(* So does a write of registers that are not the queue's.                  *)
LEMMA KeepFrame ==
  ASSUME NEW e, EmuOK(e), NEW f, DOMAIN f \subseteq Registers \ {"CMDQ_HEAD", "CMDQ_TAIL"}
  PROVE  Frame(e, Keep(e, f))
<1>1. {"CMDQ_HEAD", "CMDQ_TAIL"} \subseteq Registers
  BY DEF Registers, Others
<1>2. QED
  BY <1>1, Kept DEF Frame, EmuOK

(* So does the clearing of done bits.                                      *)
LEMMA StatusFrame == ASSUME NEW e, EmuOK(e), NEW v PROVE Frame(e, WriteStatus(e, v))
  BY DEF WriteStatus, EmuOK, Whole, Fields, Frame

(* So does a start of either unit.                                         *)
LEMMA ControlFrame ==
  ASSUME NEW e, EmuOK(e), NEW v \in {{"NPU_START"}, {"GPU_START"}}
  PROVE  Frame(e, WriteControl(e, v))
<1> DEFINE f == [r \in {"CONTROL"} |-> v]
           k == Keep(e, f)
<1>1. DOMAIN f \subseteq Registers \ {"CMDQ_HEAD", "CMDQ_TAIL"}
  BY DEF Registers, Others
<1>2. \/ WriteControl(e, v) = k \/ WriteControl(e, v) = emu_run_npu(k)
      \/ WriteControl(e, v) = emu_run_gpu_clear(k) \/ WriteControl(e, v) = emu_run_gpu_draw(k)
  BY DEF WriteControl
<1> HIDE DEF f
<1>3. Frame(e, k) /\ Whole(k)
  BY <1>1, KeepFrame, Kept DEF EmuOK
<1> HIDE DEF k
<1>4. Frame(k, emu_run_npu(k)) /\ Frame(k, emu_run_gpu_clear(k)) /\ Frame(k, emu_run_gpu_draw(k))
  BY <1>3, NpuLeaves, ClearPaints, DrawPaints, LeavesFrame
<1>5. QED
  BY <1>2, <1>3, <1>4 DEF Frame

(* A call within the frame that leaves the queue's other state.            *)
LEMMA FrameKeeps ==
  ASSUME QueueOK, Frame(emu, emu'), UNCHANGED <<host, jobs, drain>>, ~drain.on
  PROVE  QueueOK'
  BY DEF QueueOK, Frame, JobsOK, HeadsOK, IdsOK, LoopOK, Done, Submitted, Pushed, Onward, Lag

(* So does every direct call.                                              *)
LEMMA DirectFrame ==
  ASSUME QueueInv,
         run_npu_sample \/ run_unified_npu \/ write_runtime_model \/ write_umem_operands
           \/ gpu_clear \/ gpu_draw
  PROVE  Frame(emu, emu') /\ UNCHANGED <<host, jobs, drain>> /\ ~drain.on
<1> USE DEF QueueInv
<1>1. UNCHANGED <<host, jobs, drain>> /\ ~drain.on
  BY DEF run_npu_sample, run_unified_npu, write_runtime_model, write_umem_operands,
     gpu_clear, gpu_draw, Direct, Idle
<1>2. ASSUME NEW e, EmuOK(e), NEW f,
             DOMAIN f \subseteq Registers \ {"CMDQ_SIZE", "CMDQ_HEAD", "CMDQ_TAIL"},
             NEW v \in {{"NPU_START"}, {"GPU_START"}}, NEW c, ~e.exited,
             emu' = WriteStatus(WriteControl(Keep(e, f), v), c)
      PROVE  Frame(e, emu')
  <2> DEFINE k == Keep(e, f)
             n == WriteControl(k, v)
  <2>1. Frame(e, k) /\ EmuOK(k)
    BY <1>2, KeepFrame, Written
  <2>2. k.exited = e.exited
    BY <1>2, Kept DEF EmuOK
  <2>3. emu' = WriteStatus(n, c)
    BY <1>2
  <2> HIDE DEF k
  <2>4. Frame(k, n) /\ EmuOK(n)
    BY <1>2, <2>1, <2>2, ControlFrame, NpuStarted, GpuStarted
  <2> HIDE DEF n
  <2>5. Frame(n, emu')
    BY <2>3, <2>4, StatusFrame
  <2>6. QED
    BY <2>1, <2>4, <2>5 DEF Frame
<1>3. CASE run_npu_sample
  <2>1. PICK m \in Models, in \in Inputs :
          LET f == [r \in {"NPU_MODEL", "NPU_SEQ", "NPU_INPUT0", "NPU_INPUT1"} |->
                    CASE r = "NPU_MODEL" -> m
                      [] r = "NPU_SEQ" -> 8
                      [] r = "NPU_INPUT0" -> in[1]
                      [] r = "NPU_INPUT1" -> in[2]]
          IN  emu' = WriteStatus(WriteControl(Keep(emu, f), {"NPU_START"}), {"CLR_NPU_DONE"})
    BY <1>3 DEF run_npu_sample
  <2> DEFINE f == [r \in {"NPU_MODEL", "NPU_SEQ", "NPU_INPUT0", "NPU_INPUT1"} |->
                    CASE r = "NPU_MODEL" -> m
                      [] r = "NPU_SEQ" -> 8
                      [] r = "NPU_INPUT0" -> in[1]
                      [] r = "NPU_INPUT1" -> in[2]]
  <2>2. DOMAIN f \subseteq Registers \ {"CMDQ_SIZE", "CMDQ_HEAD", "CMDQ_TAIL"}
    BY DEF Registers, Saved, Operands
  <2>3. emu' = WriteStatus(WriteControl(Keep(emu, f), {"NPU_START"}), {"CLR_NPU_DONE"})
    BY <2>1
  <2>4. ~emu.exited
    BY <1>3 DEF run_npu_sample, Direct, Idle
  <2> HIDE DEF f
  <2>5. QED
    BY <1>1, <1>2, <2>2, <2>3, <2>4
<1>4. CASE run_unified_npu
  <2> DEFINE f == [r \in {"NPU_MODEL", "NPU_SEQ"} |-> IF r = "NPU_MODEL" THEN RUNTIME ELSE 8]
  <2>1. PICK in \in Inputs, w \in Runtimes :
          LET e == [emu EXCEPT !.mem.in[emu.reg["UMEM_NPU_INPUT"]] = in,
                               !.mem.w[emu.reg["UMEM_NPU_WEIGHT"]] = w]
          IN  emu' = WriteStatus(WriteControl(Keep(e, f), {"NPU_START"}), {"CLR_NPU_DONE"})
    BY <1>4 DEF run_unified_npu
  <2> DEFINE e == [emu EXCEPT !.mem.in[emu.reg["UMEM_NPU_INPUT"]] = in,
                              !.mem.w[emu.reg["UMEM_NPU_WEIGHT"]] = w]
  <2>2. DOMAIN f \subseteq Registers \ {"CMDQ_SIZE", "CMDQ_HEAD", "CMDQ_TAIL"}
    BY DEF Registers, Saved
  <2>3. emu' = WriteStatus(WriteControl(Keep(e, f), {"NPU_START"}), {"CLR_NPU_DONE"})
    BY <2>1
  <2>4. EmuOK(e) /\ Frame(emu, e) /\ e.exited = emu.exited
    BY DEF EmuOK, Whole, Fields, Memories, Frame
  <2>5. ~emu.exited
    BY <1>4 DEF run_unified_npu, Direct, Idle
  <2> HIDE DEF f, e
  <2>6. Frame(e, emu')
    BY <1>2, <2>2, <2>3, <2>4, <2>5
  <2>7. QED
    BY <1>1, <2>4, <2>6 DEF Frame
<1>5. CASE write_runtime_model
  <2>1. PICK w \in Runtimes : emu' = Keep(emu, Set1("NPU_WEIGHTS", w))
    BY <1>5 DEF write_runtime_model
  <2>2. DOMAIN Set1("NPU_WEIGHTS", w) \subseteq Registers \ {"CMDQ_HEAD", "CMDQ_TAIL"}
    BY DEF Set1, Registers, Operands
  <2>3. QED
    BY <1>1, <2>1, <2>2, KeepFrame
<1>6. CASE write_umem_operands
  <2>1. PICK b \in Bufs, in \in Inputs, w \in Runtimes :
          emu' = [emu EXCEPT !.mem.in[b] = in, !.mem.w[b] = w]
    BY <1>6 DEF write_umem_operands
  <2>2. QED
    BY <1>1, <2>1 DEF EmuOK, Whole, Fields, Memories, Frame
<1>7. CASE gpu_clear
  <2> DEFINE f == [r \in {"GPU_CLEAR_VALUE", "GPU_CMD"} |-> IF r = "GPU_CMD" THEN CLEAR ELSE 0]
  <2>1. /\ emu' = WriteStatus(WriteControl(Keep(emu, f), {"GPU_START"}), {"CLR_GPU_DONE"})
        /\ ~emu.exited
    BY <1>7 DEF gpu_clear, Direct, Idle
  <2>2. DOMAIN f \subseteq Registers \ {"CMDQ_SIZE", "CMDQ_HEAD", "CMDQ_TAIL"}
    BY DEF Registers, Saved
  <2> HIDE DEF f
  <2>3. QED
    BY <1>1, <1>2, <2>1, <2>2
<1>8. CASE gpu_draw
  <2> DEFINE V == {"GPU_VERTEX0", "GPU_VERTEX1", "GPU_VERTEX2", "GPU_CMD"}
  <2>1. PICK t \in Triangles :
          LET f == [r \in V |-> CASE r = "GPU_VERTEX0" -> t[1]
                                  [] r = "GPU_VERTEX1" -> t[2]
                                  [] r = "GPU_VERTEX2" -> t[3]
                                  [] r = "GPU_CMD" -> DRAW_TRI]
          IN  emu' = WriteStatus(WriteControl(Keep(emu, f), {"GPU_START"}), {"CLR_GPU_DONE"})
    BY <1>8 DEF gpu_draw
  <2> DEFINE f == [r \in V |-> CASE r = "GPU_VERTEX0" -> t[1]
                                 [] r = "GPU_VERTEX1" -> t[2]
                                 [] r = "GPU_VERTEX2" -> t[3]
                                 [] r = "GPU_CMD" -> DRAW_TRI]
  <2>2. DOMAIN f \subseteq Registers \ {"CMDQ_SIZE", "CMDQ_HEAD", "CMDQ_TAIL"}
    BY DEF Registers, Saved
  <2>3. /\ emu' = WriteStatus(WriteControl(Keep(emu, f), {"GPU_START"}), {"CLR_GPU_DONE"})
        /\ ~emu.exited
    BY <1>8, <2>1 DEF gpu_draw, Direct, Idle
  <2> HIDE DEF f
  <2>4. QED
    BY <1>1, <1>2, <2>2, <2>3
<1>9. QED
  BY <1>3, <1>4, <1>5, <1>6, <1>7, <1>8

-----------------------------------------------------------------------------
(* Each operation keeps the invariant and is a step of the abstract queue. *)

(* A push is the abstract push.                                            *)
LEMMA PushQueued == QueueInv /\ accel_cmdq_host_push => QueueOK' /\ Q!QNext
<1> SUFFICES ASSUME QueueInv, accel_cmdq_host_push PROVE QueueOK' /\ Q!QNext
  OBVIOUS
<1> DEFINE h == host.cached_head
           N == Entries
<1>1. N \in Nat \ {0}
  BY EntriesPositive
<1>2. h \in Slots /\ Onward(h, 1) # host.cached_tail /\ host'.cached_head = Onward(h, 1)
      /\ host'.cached_tail = host.cached_tail /\ DOMAIN host' = DOMAIN host
  <2>1. h \in Slots /\ DOMAIN host = {"cached_head", "cached_tail"}
    BY DEF QueueInv, QueueOK, HeadsOK
  <2>2. (h + 1) % N = Onward(h, 1)
    BY <2>1, SlotArithmetic
  <2>3. QED
    BY <2>1, <2>2 DEF accel_cmdq_host_push, Room
<1>3. PICK d \in Descs :
        emu' = [emu EXCEPT !.mem.ring[h] =
                  [id |-> jobs.pushed + 1, desc |-> d, done |-> FALSE, error |-> FALSE]]
  BY DEF accel_cmdq_host_push
<1>4. /\ emu'.reg = emu.reg
      /\ emu'.mem.ring = [emu.mem.ring EXCEPT ![h] =
                  [id |-> jobs.pushed + 1, desc |-> d, done |-> FALSE, error |-> FALSE]]
  BY <1>3 DEF QueueInv, EmuOK, Whole, Fields, Memories
<1>5. /\ emu'.mem.ring[h].id = jobs.pushed + 1
      /\ \A s \in Slots : s # h => emu'.mem.ring[s] = emu.mem.ring[s]
  BY <1>2, <1>4 DEF QueueInv, EmuOK, RingOK
<1>6. /\ jobs' = [jobs EXCEPT !.pushed = @ + 1, !.next = @ + 1] /\ drain' = drain
  BY DEF accel_cmdq_host_push
<1>7. /\ DOMAIN jobs' = DOMAIN jobs /\ jobs'.pushed = jobs.pushed + 1
      /\ jobs'.exposed = jobs.exposed /\ jobs'.processed = jobs.processed
  BY <1>6 DEF QueueInv, QueueOK, JobsOK
<1>8. /\ Done' = Done /\ Done \in Nat /\ Submitted' = Submitted /\ Pushed' = Pushed + 1
      /\ Submitted \in Nat /\ Pushed \in Nat
  BY <1>7 DEF QueueInv, QueueOK, JobsOK, Done, Submitted, Pushed
<1>9. Pushed + 1 <= N - 1 /\ Lag(host.cached_tail, emu.reg["CMDQ_TAIL"]) + Pushed + 1 <= N - 1
  BY <1>1, <1>2, <1>8 DEF QueueInv, QueueOK, HeadsOK, Onward, Lag, Slots
<1>10. JobsOK'
  BY <1>1, <1>7, <1>8, <1>9 DEF QueueInv, QueueOK, JobsOK
<1>11. HeadsOK'
  BY <1>1, <1>2, <1>4, <1>8, <1>9 DEF QueueInv, QueueOK, HeadsOK, Onward, Lag, Slots
<1>12. IdsOK'
  <2> SUFFICES ASSUME NEW i \in 0..Pushed
               PROVE  emu'.mem.ring[Onward(emu.reg["CMDQ_TAIL"], i)].id = Done + i + 1
    BY <1>4, <1>8 DEF IdsOK, Onward
  <2>1. /\ Onward(emu.reg["CMDQ_TAIL"], i) \in Slots
        /\ i # Pushed => Onward(emu.reg["CMDQ_TAIL"], i) # h
    BY <1>1, <1>8, <1>9 DEF QueueInv, QueueOK, HeadsOK, Onward, Slots
  <2>2. CASE i = Pushed
    <3>1. Onward(emu.reg["CMDQ_TAIL"], i) = h
      BY <2>2 DEF QueueInv, QueueOK, HeadsOK
    <3>2. jobs.pushed + 1 = Done + i + 1
      BY <1>8, <2>2 DEF QueueInv, QueueOK, JobsOK, Pushed
    <3>3. QED
      BY <1>5, <3>1, <3>2
  <2>3. CASE i # Pushed
    <3>1. i \in 0..Pushed-1
      BY <1>8, <2>3
    <3>2. emu.mem.ring[Onward(emu.reg["CMDQ_TAIL"], i)].id = Done + i + 1
      BY <3>1 DEF QueueInv, QueueOK, IdsOK
    <3>3. QED
      BY <1>5, <2>1, <2>3, <3>2
  <2>4. QED
    BY <2>2, <2>3
<1>13. LoopOK'
  BY <1>6 DEF QueueInv, QueueOK, LoopOK, accel_cmdq_host_push, Idle
<1>14. Q!QNext
  <2>1. jobs.pushed - Len(jobs.processed) < N - 1
    BY <1>1, <1>8, <1>9 DEF Pushed, Done
  <2>2. QED
    BY <1>7, <2>1 DEF Q!QNext, Q!Push
<1>15. QED
  BY <1>10, <1>11, <1>12, <1>13, <1>14 DEF QueueOK

(* A submission is the abstract one.                                       *)
LEMMA SubmitQueued == QueueInv /\ accel_cmdq_host_submit => QueueOK' /\ Q!QNext
<1> SUFFICES ASSUME QueueInv, accel_cmdq_host_submit PROVE QueueOK' /\ Q!QNext
  OBVIOUS
<1> DEFINE shown == Write(emu, Set1("CMDQ_HEAD", host.cached_head))
           rung(v) == Keep(shown, Set1("CMDQ_DOORBELL", v))
<1>1. PICK v \in Doorbells :
        \/ /\ emu' = BeginProcess(rung(v))
           /\ drain' = [on |-> TRUE, error |-> FALSE,
                        safety |-> entry_count(emu.reg["CMDQ_SIZE"])]
        \/ emu' = Write(shown, Set1("CMDQ_DOORBELL", v)) /\ drain' = drain
  BY DEF accel_cmdq_host_submit
<1>2. /\ DOMAIN Set1("CMDQ_HEAD", host.cached_head) = {"CMDQ_HEAD"}
      /\ Set1("CMDQ_HEAD", host.cached_head)["CMDQ_HEAD"] = host.cached_head
      /\ DOMAIN Set1("CMDQ_DOORBELL", v) = {"CMDQ_DOORBELL"}
      /\ {"CMDQ_HEAD", "CMDQ_TAIL", "CMDQ_DOORBELL", "CMDQ_SIZE"} \subseteq Registers
  BY DEF Set1, Registers, Others
<1>3. ASSUME NEW e, Whole(e)
      PROVE  /\ BeginProcess(e).reg = e.reg /\ BeginProcess(e).mem = e.mem
             /\ emu_cmdq_refresh_status(e, FALSE).reg = e.reg
             /\ emu_cmdq_refresh_status(e, FALSE).mem = e.mem
             /\ Whole(emu_cmdq_refresh_status(e, FALSE))
  BY <1>3 DEF BeginProcess, emu_cmdq_refresh_status, Whole, Fields
<1>4. /\ Whole(shown) /\ shown.reg["CMDQ_HEAD"] = host.cached_head
      /\ shown.reg["CMDQ_TAIL"] = emu.reg["CMDQ_TAIL"] /\ shown.mem = emu.mem
  <2> DEFINE k == Keep(emu, Set1("CMDQ_HEAD", host.cached_head))
  <2>1. shown = k \/ shown = emu_cmdq_refresh_status(k, FALSE)
    BY DEF Write
  <2>2. /\ Whole(k) /\ k.reg["CMDQ_HEAD"] = host.cached_head
        /\ k.reg["CMDQ_TAIL"] = emu.reg["CMDQ_TAIL"] /\ k.mem = emu.mem
    BY <1>2, Kept DEF QueueInv, EmuOK
  <2> HIDE DEF k
  <2>3. QED
    BY <1>3, <2>1, <2>2
<1> HIDE DEF shown
<1>5. /\ Whole(rung(v)) /\ rung(v).reg["CMDQ_HEAD"] = host.cached_head
      /\ rung(v).reg["CMDQ_TAIL"] = emu.reg["CMDQ_TAIL"] /\ rung(v).mem = emu.mem
  BY <1>2, <1>4, Kept
<1>6. Write(shown, Set1("CMDQ_DOORBELL", v)) = rung(v)
      \/ Write(shown, Set1("CMDQ_DOORBELL", v)) = emu_cmdq_refresh_status(rung(v), FALSE)
  BY DEF Write
<1> HIDE DEF rung
<1>7. /\ emu'.reg["CMDQ_HEAD"] = host.cached_head
      /\ emu'.reg["CMDQ_TAIL"] = emu.reg["CMDQ_TAIL"] /\ emu'.mem = emu.mem
  BY <1>1, <1>3, <1>5, <1>6
<1>8. jobs' = [jobs EXCEPT !.exposed = jobs.pushed] /\ host' = host
  BY DEF accel_cmdq_host_submit
<1>9. /\ DOMAIN jobs' = DOMAIN jobs /\ jobs'.pushed = jobs.pushed
      /\ jobs'.exposed = jobs.pushed /\ jobs'.processed = jobs.processed
  BY <1>8 DEF QueueInv, QueueOK, JobsOK
<1>10. /\ Done' = Done /\ Submitted' = Pushed /\ Pushed' = Pushed /\ Pushed \in Nat
       /\ Entries \in Nat \ {0}
  BY <1>9, EntriesPositive DEF QueueInv, QueueOK, JobsOK, Done, Submitted, Pushed
<1>11. JobsOK' /\ HeadsOK' /\ IdsOK'
  <2>1. JobsOK'
    BY <1>9, <1>10 DEF QueueInv, QueueOK, JobsOK
  <2>2. HeadsOK'
    BY <1>7, <1>8, <1>10 DEF QueueInv, QueueOK, HeadsOK, Onward, Lag
  <2>3. IdsOK'
    BY <1>7, <1>10 DEF QueueInv, QueueOK, IdsOK, Onward
  <2>4. QED
    BY <2>1, <2>2, <2>3
<1>12. LoopOK'
  <2>1. CASE drain' = [on |-> TRUE, error |-> FALSE,
                       safety |-> entry_count(emu.reg["CMDQ_SIZE"])]
    <3>1. entry_count(emu.reg["CMDQ_SIZE"]) = Entries
      BY DEF QueueInv, EmuOK, Entries
    <3>2. Pushed < Entries
      BY <1>10 DEF QueueInv, QueueOK, JobsOK
    <3>3. QED
      BY <1>10, <2>1, <3>1, <3>2 DEF LoopOK
  <2>2. CASE drain' = drain
    <3>1. ~drain.on
      BY DEF accel_cmdq_host_submit, Idle
    <3>2. QED
      BY <2>2, <3>1 DEF QueueInv, QueueOK, LoopOK
  <2>3. QED
    BY <1>1, <2>1, <2>2
<1>13. Q!QNext
  BY <1>9 DEF Q!QNext, Q!Submit
<1>14. QED
  BY <1>11, <1>12, <1>13 DEF QueueOK

(* A client that takes what the device shows for the whole of the queue.   *)
LEMMA ForgetQueued ==
  ASSUME QueueInv, jobs' = [jobs EXCEPT !.pushed = jobs.exposed], ~drain.on, drain' = drain,
         emu'.reg["CMDQ_HEAD"] \in Slots, emu'.reg["CMDQ_TAIL"] \in Slots,
         host' = [cached_head |-> emu'.reg["CMDQ_HEAD"], cached_tail |-> emu'.reg["CMDQ_TAIL"]],
         emu'.reg["CMDQ_HEAD"] = Onward(emu'.reg["CMDQ_TAIL"], Submitted),
         \/ emu'.mem.ring = emu.mem.ring /\ emu'.reg["CMDQ_TAIL"] = emu.reg["CMDQ_TAIL"]
         \/ Submitted = 0
  PROVE  QueueOK' /\ Q!QNext
<1>1. /\ DOMAIN jobs' = DOMAIN jobs /\ jobs'.pushed = jobs.exposed
      /\ jobs'.exposed = jobs.exposed /\ jobs'.processed = jobs.processed
  BY DEF QueueInv, QueueOK, JobsOK
<1>2. /\ Done' = Done /\ Submitted' = Submitted /\ Pushed' = Submitted /\ Submitted \in Nat
      /\ Pushed \in Nat /\ Submitted <= Pushed /\ Entries \in Nat \ {0}
  BY <1>1, EntriesPositive DEF QueueInv, QueueOK, JobsOK, Done, Submitted, Pushed
<1>3. JobsOK'
  BY <1>1, <1>2 DEF QueueInv, QueueOK, JobsOK
<1>4. HeadsOK'
  <2>1. Lag(emu'.reg["CMDQ_TAIL"], emu'.reg["CMDQ_TAIL"]) = 0 /\ Submitted <= Entries - 1
    BY <1>2 DEF Lag, Slots, QueueInv, QueueOK, JobsOK
  <2>2. /\ DOMAIN host' = {"cached_head", "cached_tail"}
        /\ host'.cached_head = emu'.reg["CMDQ_HEAD"] /\ host'.cached_tail = emu'.reg["CMDQ_TAIL"]
    OBVIOUS
  <2>3. QED
    BY <1>2, <2>1, <2>2 DEF HeadsOK, Onward, Lag
<1>5. IdsOK'
  <2>1. CASE Submitted = 0
    BY <1>2, <2>1 DEF IdsOK
  <2>2. CASE emu'.mem.ring = emu.mem.ring /\ emu'.reg["CMDQ_TAIL"] = emu.reg["CMDQ_TAIL"]
    BY <1>2, <2>2 DEF QueueInv, QueueOK, IdsOK, Onward
  <2>3. QED
    BY <2>1, <2>2
<1>6. LoopOK'
  BY DEF QueueInv, QueueOK, LoopOK
<1>7. QED
  BY <1>1, <1>3, <1>4, <1>5, <1>6 DEF QueueOK, Q!QNext, Q!Forget

(* An empty ring has nothing submitted to process.                         *)
LEMMA EmptyRing == QueueInv /\ QueueEmpty => Submitted = 0
<1>1. Entries \in Nat \ {0}
  BY EntriesPositive
<1>2. QED
  BY <1>1 DEF QueueInv, QueueOK, JobsOK, HeadsOK, QueueEmpty, Onward, Slots, Submitted, Pushed, Done

(* A sync forgets what was pushed and not submitted.                       *)
LEMMA SyncQueued == QueueInv /\ accel_cmdq_host_sync => QueueOK' /\ Q!QNext
<1> SUFFICES ASSUME QueueInv, accel_cmdq_host_sync PROVE QueueOK' /\ Q!QNext
  OBVIOUS
<1>1. /\ emu' = emu /\ drain' = drain /\ ~drain.on
      /\ host' = [cached_head |-> emu.reg["CMDQ_HEAD"], cached_tail |-> emu.reg["CMDQ_TAIL"]]
      /\ jobs' = [jobs EXCEPT !.pushed = jobs.exposed]
  BY DEF accel_cmdq_host_sync, Idle
<1>2. /\ emu.reg["CMDQ_HEAD"] \in Slots /\ emu.reg["CMDQ_TAIL"] \in Slots
      /\ emu.reg["CMDQ_HEAD"] = Onward(emu.reg["CMDQ_TAIL"], Submitted)
  BY DEF QueueInv, QueueOK, HeadsOK
<1>3. QED
  BY <1>1, <1>2, ForgetQueued

(* A write of zero to the pointers of an empty ring.                       *)
LEMMA ZeroQueued ==
  ASSUME QueueInv, QueueEmpty, ~drain.on, drain' = drain,
         host' = [cached_head |-> 0, cached_tail |-> 0],
         jobs' = [jobs EXCEPT !.pushed = jobs.exposed],
         NEW e, Whole(e), NEW f, DOMAIN f \subseteq Registers,
         {"CMDQ_HEAD", "CMDQ_TAIL"} \subseteq DOMAIN f,
         f["CMDQ_HEAD"] = 0, f["CMDQ_TAIL"] = 0, emu' = Write(e, f)
  PROVE  QueueOK' /\ Q!QNext
<1> DEFINE k == Keep(e, f)
<1>1. emu' = k \/ emu' = emu_cmdq_refresh_status(k, FALSE)
  BY DEF Write
<1>2. Whole(k) /\ k.reg["CMDQ_HEAD"] = 0 /\ k.reg["CMDQ_TAIL"] = 0
  BY Kept
<1> HIDE DEF k
<1>3. emu'.reg["CMDQ_HEAD"] = 0 /\ emu'.reg["CMDQ_TAIL"] = 0
  BY <1>1, <1>2 DEF emu_cmdq_refresh_status, Whole, Fields
<1>4. Submitted = 0 /\ 0 \in Slots /\ Onward(0, 0) = 0
  BY EmptyRing, EntriesPositive DEF Slots, Onward
<1>5. QED
  BY <1>3, <1>4, ForgetQueued

(* So does a reset of an empty queue.                                      *)
LEMMA ResetQueued == QueueInv /\ accel_cmdq_host_reset => QueueOK' /\ Q!QNext
<1> SUFFICES ASSUME QueueInv, accel_cmdq_host_reset PROVE QueueOK' /\ Q!QNext
  OBVIOUS
<1> DEFINE e == [emu EXCEPT !.mem.ring = [s \in Slots |-> EmptySlot]]
           f == [r \in {"CMDQ_HEAD", "CMDQ_TAIL", "CMDQ_DOORBELL"} |-> 0]
<1>1. /\ emu' = Write(e, f) /\ drain' = drain /\ ~drain.on /\ QueueEmpty
      /\ host' = [cached_head |-> 0, cached_tail |-> 0]
      /\ jobs' = [jobs EXCEPT !.pushed = jobs.exposed]
  BY DEF accel_cmdq_host_reset, Idle
<1>2. Whole(e)
  BY DEF QueueInv, EmuOK, Whole, Fields, Memories
<1>3. /\ DOMAIN f \subseteq Registers /\ {"CMDQ_HEAD", "CMDQ_TAIL"} \subseteq DOMAIN f
      /\ f["CMDQ_HEAD"] = 0 /\ f["CMDQ_TAIL"] = 0
  BY DEF Registers, Others
<1> HIDE DEF e, f
<1>4. QED
  BY <1>1, <1>2, <1>3, ZeroQueued

(* So does a configuration, which empties the ring.                        *)
LEMMA ConfigureQueued == QueueInv /\ configure_unified_memory => QueueOK' /\ Q!QNext
<1> SUFFICES ASSUME QueueInv, configure_unified_memory PROVE QueueOK' /\ Q!QNext
  OBVIOUS
<1> DEFINE R == {"UMEM_CTRL", "CMDQ_SIZE", "CMDQ_HEAD", "CMDQ_TAIL", "CMDQ_DOORBELL",
                 "UMEM_NPU_INPUT", "UMEM_NPU_WEIGHT", "UMEM_NPU_OUTPUT", "UMEM_GPU_FB"}
<1>1. PICK bits : emu' = Write(emu, [r \in R |->
                CASE r = "UMEM_CTRL" -> bits
                  [] r = "CMDQ_SIZE" -> CmdqBytes
                  [] r \in {"CMDQ_HEAD", "CMDQ_TAIL", "CMDQ_DOORBELL"} -> 0
                  [] OTHER -> 1])
  BY DEF configure_unified_memory
<1> DEFINE f == [r \in R |->
                CASE r = "UMEM_CTRL" -> bits
                  [] r = "CMDQ_SIZE" -> CmdqBytes
                  [] r \in {"CMDQ_HEAD", "CMDQ_TAIL", "CMDQ_DOORBELL"} -> 0
                  [] OTHER -> 1]
<1>2. /\ DOMAIN f \subseteq Registers /\ {"CMDQ_HEAD", "CMDQ_TAIL"} \subseteq DOMAIN f
      /\ f["CMDQ_HEAD"] = 0 /\ f["CMDQ_TAIL"] = 0
  BY DEF Registers, Others, Saved
<1>3. emu' = Write(emu, f)
  BY <1>1
<1> HIDE DEF f
<1>4. /\ drain' = drain /\ ~drain.on /\ QueueEmpty
      /\ host' = [cached_head |-> 0, cached_tail |-> 0]
      /\ jobs' = [jobs EXCEPT !.pushed = jobs.exposed]
  BY DEF configure_unified_memory, Idle
<1>5. QED
  BY <1>2, <1>3, <1>4, ZeroQueued DEF QueueInv, EmuOK

(* One turn of the loop consumes the oldest job.                           *)
LEMMA TurnQueued == QueueInv /\ ProcessDescriptor => QueueOK' /\ Q!QNext /\ drain'.on
<1> SUFFICES ASSUME QueueInv, ProcessDescriptor PROVE QueueOK' /\ Q!QNext /\ drain'.on
  OBVIOUS
<1> DEFINE tail == emu.reg["CMDQ_TAIL"]
<1>1. /\ emu' = ProcessOne(emu) /\ drain.on /\ drain.safety # 0 /\ host' = host
      /\ emu.reg["CMDQ_TAIL"] # emu.reg["CMDQ_HEAD"]
  BY DEF ProcessDescriptor, More
<1>2. /\ tail \in Slots /\ tail % Entries = tail /\ NextTail(tail, Entries) = Onward(tail, 1)
      /\ Entries \in Nat \ {0}
  BY SlotArithmetic, EntriesPositive DEF QueueInv, QueueOK, HeadsOK
<1>3. "CMDQ_HEAD" \in Registers \ (Operands \cup {"CMDQ_TAIL"})
  BY DEF Registers, Others, Operands
<1>4. /\ emu'.last.slot = tail /\ emu'.reg["CMDQ_HEAD"] = emu.reg["CMDQ_HEAD"]
      /\ emu'.reg["CMDQ_TAIL"] = IF emu'.exited THEN tail ELSE Onward(tail, 1)
      /\ \A s \in Slots : emu'.mem.ring[s].id = emu.mem.ring[s].id
  BY <1>1, <1>2, <1>3, TurnPaints DEF QueueInv
<1>5. /\ drain'.safety = drain.safety - 1 /\ drain'.on /\ DOMAIN drain' = DOMAIN drain
  BY <1>1 DEF ProcessDescriptor, QueueInv, QueueOK, LoopOK
<1>6. /\ Submitted \in Nat /\ Pushed \in Nat /\ Submitted <= Pushed /\ Pushed < Entries
      /\ Done \in Nat
  BY <1>2 DEF QueueInv, QueueOK, JobsOK, Submitted, Pushed, Done
<1>7. Submitted > 0
  BY <1>1, <1>2, <1>6 DEF QueueInv, QueueOK, HeadsOK, Onward, Slots
<1>8. drain.safety \in Nat /\ drain.safety > Submitted
  BY <1>1 DEF QueueInv, QueueOK, LoopOK, ProcessDescriptor
<1>9. CASE emu'.exited
  <2>1. jobs' = jobs
    BY <1>9 DEF ProcessDescriptor
  <2>2. Done' = Done /\ Submitted' = Submitted /\ Pushed' = Pushed
    BY <2>1 DEF Done, Submitted, Pushed
  <2>3. JobsOK' /\ HeadsOK'
    BY <1>1, <1>4, <1>9, <2>1, <2>2 DEF QueueInv, QueueOK, JobsOK, HeadsOK, Onward, Lag
  <2>4. IdsOK'
    <3>1. \A i \in 0..Pushed-1 : Onward(tail, i) \in Slots
      BY <1>2, <1>6 DEF Onward, Slots
    <3>2. QED
      BY <1>4, <1>9, <2>2, <3>1 DEF QueueInv, QueueOK, IdsOK, Onward
  <2>5. LoopOK'
    BY <1>5, <1>9 DEF QueueInv, QueueOK, LoopOK
  <2>6. QED
    BY <1>5, <2>1, <2>3, <2>4, <2>5 DEF QueueOK, Q!QNext
<1>10. CASE ~emu'.exited
  <2> DEFINE id == emu.mem.ring[tail].id
  <2>1. /\ jobs'.processed = Append(jobs.processed, id) /\ DOMAIN jobs' = DOMAIN jobs
        /\ jobs'.pushed = jobs.pushed /\ jobs'.exposed = jobs.exposed
    BY <1>4, <1>10 DEF ProcessDescriptor, QueueInv, QueueOK, JobsOK
  <2>2. id = Done + 1
    <3>1. 0 \in 0..Pushed-1 /\ Onward(tail, 0) = tail
      BY <1>2, <1>6, <1>7 DEF Onward, Slots
    <3>2. emu.mem.ring[Onward(tail, 0)].id = Done + 0 + 1
      BY <3>1 DEF QueueInv, QueueOK, IdsOK
    <3>3. QED
      BY <1>6, <3>1, <3>2
  <2>3. jobs'.processed \in Seq(Nat) /\ Len(jobs'.processed) = Done + 1
    BY <1>6, <2>1, <2>2 DEF QueueInv, QueueOK, JobsOK, Done
  <2> HIDE DEF id
  <2>4. Done' = Done + 1 /\ Submitted' = Submitted - 1 /\ Pushed' = Pushed - 1
    BY <1>6, <2>1, <2>3 DEF QueueInv, QueueOK, JobsOK, Done, Submitted, Pushed
  <2>5. JobsOK'
    BY <1>2, <1>6, <1>7, <2>1, <2>3, <2>4 DEF QueueInv, QueueOK, JobsOK
  <2>6. HeadsOK'
    <3>1. emu'.reg["CMDQ_TAIL"] = Onward(tail, 1) /\ host' = host
      BY <1>1, <1>4, <1>10
    <3>2. Onward(tail, 1) \in Slots
      BY <1>2, <1>6, <1>7 DEF Onward, Slots
    <3>3. /\ emu.reg["CMDQ_HEAD"] = Onward(Onward(tail, 1), Submitted - 1)
          /\ host.cached_head = Onward(Onward(tail, 1), Pushed - 1)
      BY <1>2, <1>6, <1>7 DEF QueueInv, QueueOK, HeadsOK, Onward, Slots
    <3>4. Lag(host.cached_tail, Onward(tail, 1)) + Pushed - 1 <= Entries - 1
      BY <1>2, <1>6, <1>7 DEF QueueInv, QueueOK, HeadsOK, Onward, Lag, Slots
    <3>5. QED
      BY <1>4, <1>6, <2>4, <3>1, <3>2, <3>3, <3>4 DEF QueueInv, QueueOK, HeadsOK, Onward, Lag, Slots
  <2>7. IdsOK'
    <3> SUFFICES ASSUME NEW i \in 0..Pushed-2
                 PROVE  emu'.mem.ring[Onward(Onward(tail, 1), i)].id = Done + 1 + i + 1
      BY <1>4, <1>6, <1>10, <2>4 DEF IdsOK, Onward
    <3>1. Onward(Onward(tail, 1), i) = Onward(tail, i + 1) /\ Onward(tail, i + 1) \in Slots
      BY <1>2, <1>6, <1>7 DEF Onward, Slots
    <3>2. i + 1 \in 0..Pushed-1
      BY <1>6
    <3>3. emu.mem.ring[Onward(tail, i + 1)].id = Done + (i + 1) + 1
      BY <3>2 DEF QueueInv, QueueOK, IdsOK
    <3>4. QED
      BY <1>4, <1>6, <3>1, <3>3
  <2>8. LoopOK'
    BY <1>5, <1>6, <1>7, <1>8, <2>4 DEF QueueInv, QueueOK, LoopOK
  <2>9. Q!QNext
    <3>1. Len(jobs.processed) < jobs.exposed
      BY <1>6, <1>7 DEF QueueInv, QueueOK, JobsOK, Submitted, Done
    <3>2. QED
      BY <2>1, <2>2, <3>1 DEF Q!QNext, Q!Consume, Done, id
  <2>10. QED
    BY <1>5, <2>5, <2>6, <2>7, <2>8, <2>9 DEF QueueOK
<1>11. QED
  BY <1>9, <1>10

(* The loop ends with an empty ring.                                       *)
LEMMA FinishQueued ==
  QueueInv /\ FinishProcess =>
    /\ QueueOK' /\ Q!QNext
    /\ emu'.status.empty /\ Len(jobs'.processed) = jobs'.exposed
    /\ emu'.status.error <=> drain.error
<1> SUFFICES ASSUME QueueInv, FinishProcess
             PROVE  /\ QueueOK' /\ Q!QNext
                    /\ emu'.status.empty /\ Len(jobs'.processed) = jobs'.exposed
                    /\ emu'.status.error <=> drain.error
  OBVIOUS
<1>1. /\ emu' = EndProcess(emu, drain.error) /\ drain' = [NoDrain EXCEPT !.error = drain.error]
      /\ host' = host /\ jobs' = jobs /\ drain.on /\ ~emu.exited /\ ~More
  BY DEF FinishProcess
<1>2. drain.safety \in Nat /\ drain.safety > Submitted /\ Submitted \in Nat
  BY <1>1 DEF QueueInv, QueueOK, LoopOK, JobsOK, Submitted, Done
<1>3. emu.reg["CMDQ_TAIL"] = emu.reg["CMDQ_HEAD"]
  BY <1>1, <1>2 DEF More
<1>4. Submitted = 0
  BY <1>3, EmptyRing DEF QueueEmpty
<1>5. Frame(emu, emu') /\ emu'.status.empty /\ (emu'.status.error <=> drain.error)
  <2> DEFINE k == [emu EXCEPT !.fetch_status = @]
             left == emu.reg["CMDQ_TAIL"] # emu.reg["CMDQ_HEAD"]
  <2>1. emu' = emu_cmdq_refresh_status(
                 [emu EXCEPT !.fetch_status = IF left THEN ERROR ELSE @], drain.error \/ left)
    BY <1>1 DEF EndProcess
  <2>2. emu' = emu_cmdq_refresh_status(k, drain.error \/ left)
    BY <1>3, <2>1
  <2>3. DOMAIN k = Fields /\ k.reg = emu.reg /\ k.mem = emu.mem
    BY DEF QueueInv, EmuOK, Whole, Fields
  <2> HIDE DEF k
  <2>4. /\ emu'.reg = emu.reg /\ emu'.mem = emu.mem
        /\ emu'.status.empty = (k.reg["CMDQ_HEAD"] = k.reg["CMDQ_TAIL"])
        /\ emu'.status.error = (drain.error \/ left)
    BY <2>2, <2>3 DEF emu_cmdq_refresh_status, Fields
  <2>5. QED
    BY <1>3, <2>3, <2>4 DEF Frame
<1>6. QueueOK'
  <2>1. LoopOK'
    BY <1>1 DEF LoopOK, NoDrain
  <2>2. JobsOK' /\ HeadsOK' /\ IdsOK'
    BY <1>1, <1>5 DEF QueueInv, QueueOK, Frame, JobsOK, HeadsOK, IdsOK, Done, Submitted,
       Pushed, Onward, Lag
  <2>3. QED
    BY <2>1, <2>2 DEF QueueOK
<1>7. Len(jobs'.processed) = jobs'.exposed
  BY <1>1, <1>4 DEF QueueInv, QueueOK, JobsOK, Submitted, Done
<1>8. Q!QNext
  BY <1>1 DEF Q!QNext
<1>9. QED
  BY <1>5, <1>6, <1>7, <1>8

(* Every step is a step of the abstract queue, or none.                    *)
LEMMA NextQueued == QueueInv /\ EInv /\ [Next]_vars => QueueInv' /\ [Q!QNext]_(Q!qvars)
<1> SUFFICES ASSUME QueueInv, EInv, [Next]_vars PROVE QueueInv' /\ [Q!QNext]_(Q!qvars)
  OBVIOUS
<1>1. EmuOK(emu')
  BY NextInvariant DEF EInv
<1>2. QueueOK' /\ [Q!QNext]_(Q!qvars)
  <2>1. CASE run_npu_sample \/ run_unified_npu \/ write_runtime_model \/ write_umem_operands
             \/ gpu_clear \/ gpu_draw
    <3>1. Frame(emu, emu') /\ UNCHANGED <<host, jobs, drain>> /\ ~drain.on
      BY <2>1, DirectFrame
    <3>2. QED
      BY <3>1, FrameKeeps DEF QueueInv, Q!qvars
  <2>2. CASE UNCHANGED vars
    BY <2>2 DEF vars, QueueInv, QueueOK, JobsOK, HeadsOK, IdsOK, LoopOK, Done, Submitted,
       Pushed, Onward, Lag, Q!qvars
  <2>3. QED
    BY <2>1, <2>2, PushQueued, SubmitQueued, SyncQueued, ResetQueued, ConfigureQueued,
       TurnQueued, FinishQueued DEF Next, Library, Process, Client
<1>3. QED
  BY <1>1, <1>2 DEF QueueInv

-----------------------------------------------------------------------------
(* The emulator and the queue library implement the bounded queue: every   *)
(* job submitted is processed whole, once and in order, and at most        *)
(* Entries - 1 wait, through every reset, resynchronisation and new        *)
(* configuration (accel_cmdq_host.c:40-171, accel_mmio_demo.c:519-554).    *)
THEOREM EmulatorImplementsQueue == Spec => ImplementsQueue
<1>1. QED
  BY InitInvariant, NextInvariant, QueueInit, NextQueued, PTL DEF Spec, ImplementsQueue, Q!QSpec

(* A doorbell that starts the loop returns with every descriptor that was  *)
(* submitted processed, and its error bit says whether one was unknown:    *)
(* the count that guards the loop is always enough                         *)
(* (accel_mmio_demo.c:519-554).                                            *)
THEOREM DoorbellsDrain == Spec => DoorbellDrains
<1> DEFINE P == drain.on /\ ~drain'.on =>
                  /\ emu'.status.empty /\ Len(jobs'.processed) = jobs'.exposed
                  /\ emu'.status.error <=> drain.error
<1>1. QueueInv /\ EInv /\ [Next]_vars => [P]_vars
  <2> SUFFICES ASSUME QueueInv, Next, drain.on, ~drain'.on
               PROVE  /\ emu'.status.empty /\ Len(jobs'.processed) = jobs'.exposed
                      /\ emu'.status.error <=> drain.error
    OBVIOUS
  <2>1. Process
    BY DEF Next, Library, Client, Idle, Direct, accel_cmdq_host_push, accel_cmdq_host_submit,
       accel_cmdq_host_sync, accel_cmdq_host_reset, run_npu_sample, run_unified_npu,
       write_runtime_model, write_umem_operands, configure_unified_memory, gpu_clear, gpu_draw
  <2>2. QED
    BY <2>1, TurnQueued, FinishQueued DEF Process
<1>2. QED
  BY <1>1, InitInvariant, NextInvariant, QueueInit, NextQueued, PTL DEF Spec, DoorbellDrains

-----------------------------------------------------------------------------
(* The counters and the status word.                                       *)

(* The command processor's books, which the units do not touch.            *)
SameBooks(e, n) ==
  /\ n.status = e.status /\ n.processed = e.processed /\ n.npu_count = e.npu_count
  /\ n.gpu_count = e.gpu_count /\ n.error_count = e.error_count

(* A plain register write does not touch the books.                        *)
LEMMA KeepBooks == ASSUME NEW e, Whole(e), NEW f PROVE SameBooks(e, Keep(e, f))
  BY DEF Keep, Whole, Fields, SameBooks

(* A run of the NPU.                                                       *)
LEMMA NpuBooks == ASSUME NEW e, Whole(e) PROVE SameBooks(e, emu_run_npu(e))
<1> DEFINE l == LoadOperands(e)
<1>1. Whole(l) /\ SameBooks(e, l)
  <2> DEFINE input == e.mem.in[e.reg["UMEM_NPU_INPUT"]]
             both  == [r \in {"NPU_INPUT0", "NPU_INPUT1"} |->
                        IF r = "NPU_INPUT0" THEN input[1] ELSE input[2]]
             w == [r \in {"NPU_WEIGHTS"} |-> e.mem.w[e.reg["UMEM_NPU_WEIGHT"]]]
             k == Keep(e, both)
  <2>1. DOMAIN both \subseteq Registers /\ DOMAIN w \subseteq Registers
    BY DEF Operands, Registers
  <2>2. l = k \/ l = Keep(k, w)
    BY DEF LoadOperands
  <2> HIDE DEF both, w, l
  <2>3. Whole(k) /\ SameBooks(e, k)
    BY <2>1, Kept, KeepBooks
  <2> HIDE DEF k
  <2>4. Whole(Keep(k, w)) /\ SameBooks(k, Keep(k, w))
    BY <2>1, <2>3, Kept, KeepBooks
  <2> QED
    BY <2>2, <2>3, <2>4 DEF SameBooks
<1>2. \/ emu_run_npu(e) = [e EXCEPT !.result = Result(e), !.npu_done = TRUE]
      \/ emu_run_npu(e) = Exit(e)
      \/ emu_run_npu(e) = [l EXCEPT !.result = Result(l), !.npu_done = TRUE,
                             !.mem.out[l.reg["UMEM_NPU_OUTPUT"]] = Result(l)]
  BY DEF emu_run_npu
<1> HIDE DEF l
<1> QED
  BY <1>1, <1>2 DEF Exit, Whole, Fields, SameBooks

(* The copy of the framebuffer, and a run of the GPU.                      *)
LEMMA SyncBooks == ASSUME NEW e, Whole(e) PROVE SameBooks(e, Sync(e))
  BY DEF Sync, Exit, Whole, Fields, SameBooks

(* Neither does a clear or a draw.                                         *)
LEMMA GpuBooks ==
  ASSUME NEW e, Whole(e)
  PROVE  SameBooks(e, emu_run_gpu_clear(e)) /\ SameBooks(e, emu_run_gpu_draw(e))
<1>1. ASSUME NEW p, NEW g
      PROVE  LET c == [e EXCEPT !.fb = p, !.gpu = g, !.gpu_done = TRUE]
             IN  SameBooks(e, Sync(c))
  <2> DEFINE c == [e EXCEPT !.fb = p, !.gpu = g, !.gpu_done = TRUE]
  <2>1. Whole(c) /\ SameBooks(e, c)
    BY DEF Whole, Fields, SameBooks
  <2> HIDE DEF c
  <2>2. SameBooks(c, Sync(c))
    BY <2>1, SyncBooks
  <2> QED
    BY <2>1, <2>2 DEF SameBooks, c
<1> QED
  BY <1>1 DEF emu_run_gpu_clear, emu_run_gpu_draw

(* A start through CONTROL, a write of STATUS.                             *)
LEMMA ControlBooks ==
  ASSUME NEW e, Whole(e), NEW v \in {{"NPU_START"}, {"GPU_START"}}
  PROVE  SameBooks(e, WriteControl(e, v)) /\ Whole(WriteControl(e, v))
<1> DEFINE f == [r \in {"CONTROL"} |-> v]
           k == Keep(e, f)
<1>1. DOMAIN f \subseteq Registers
  BY DEF Registers, Others
<1>2. \/ WriteControl(e, v) = k \/ WriteControl(e, v) = emu_run_npu(k)
      \/ WriteControl(e, v) = emu_run_gpu_clear(k) \/ WriteControl(e, v) = emu_run_gpu_draw(k)
  BY DEF WriteControl
<1> HIDE DEF f
<1>3. SameBooks(e, k) /\ Whole(k)
  BY <1>1, KeepBooks, Kept
<1> HIDE DEF k
<1>4. /\ SameBooks(k, emu_run_npu(k)) /\ Whole(emu_run_npu(k))
      /\ SameBooks(k, emu_run_gpu_clear(k)) /\ Whole(emu_run_gpu_clear(k))
      /\ SameBooks(k, emu_run_gpu_draw(k)) /\ Whole(emu_run_gpu_draw(k))
  BY <1>3, NpuBooks, GpuBooks, NpuLeaves, ClearPaints, DrawPaints DEF Leaves
<1> QED
  BY <1>2, <1>3, <1>4 DEF SameBooks

(* Neither does a write of STATUS.                                         *)
LEMMA StatusBooks == ASSUME NEW e, Whole(e), NEW v PROVE SameBooks(e, WriteStatus(e, v))
  BY DEF WriteStatus, Whole, Fields, SameBooks

-----------------------------------------------------------------------------
(* A descriptor is counted once, as what it was.                           *)
CountsOf(e) == e.npu_count + e.gpu_count + e.error_count
CountsTyped(e) ==
  e.npu_count \in Nat /\ e.gpu_count \in Nat /\ e.error_count \in Nat /\ e.processed \in Nat

(* A job adds one to one counter, a NOP to none.                           *)
LEMMA ExecutedCounts ==
  ASSUME NEW e, Whole(e), CountsTyped(e), NEW d
  PROVE  LET n == execute_desc(e, d)
         IN  /\ CountsTyped(n) /\ n.processed = e.processed
             /\ CountsOf(n) = CountsOf(e) + (IF d.opcode = NOP THEN 0 ELSE 1)
<1> DEFINE ran == CASE d.opcode = NPU_INFER -> RunNpuJob(e, d)
                    [] d.opcode = GPU_CLEAR -> RunClearJob(e, d)
                    [] d.opcode = GPU_DRAW_TRI -> RunDrawJob(e, d)
                    [] d.opcode = NOP -> e
                    [] OTHER -> [e EXCEPT !.error_count = @ + 1]
           put == Restore(ran, e)
           OneMore(n) == /\ CountsTyped(n) /\ n.processed = e.processed
                         /\ CountsOf(n) = CountsOf(e) + (IF d.opcode = NOP THEN 0 ELSE 1)
<1> USE DEF NOP, NPU_INFER, GPU_CLEAR, GPU_DRAW_TRI
<1>s. ASSUME NEW f, DOMAIN f \subseteq Registers
      PROVE  Whole(Keep(e, f)) /\ SameBooks(e, Keep(e, f))
  BY <1>s, Kept, KeepBooks
<1>1. Whole(ran) /\ OneMore(ran)
  <2>1. CASE d.opcode = NPU_INFER
    <3> DEFINE f == [r \in {"UMEM_CTRL", "UMEM_NPU_INPUT", "UMEM_NPU_WEIGHT",
                            "UMEM_NPU_OUTPUT", "NPU_MODEL", "NPU_SEQ"} |->
               CASE r = "UMEM_CTRL" -> e.reg[r] \cup {"ENABLE", "NPU_USE_BUF"}
                 [] r = "UMEM_NPU_INPUT" -> d.src0
                 [] r = "UMEM_NPU_WEIGHT" -> d.src1
                 [] r = "UMEM_NPU_OUTPUT" -> d.dst0
                 [] r = "NPU_MODEL" -> IF d.model # 0 THEN d.model ELSE e.reg[r]
                 [] r = "NPU_SEQ" -> IF d.arg0 # 0 THEN d.arg0 % 65536 ELSE 8]
               k == Keep(e, f)
               n == emu_run_npu(k)
               x == [count |-> (n.exec.count + 1) % 65536, model |-> k.reg["NPU_MODEL"],
                     input |-> d.src0, output |-> d.dst0]
    <3>1. DOMAIN f \subseteq Registers
      BY DEF Saved, Registers
    <3>a. RunNpuJob(e, d) = [n EXCEPT !.exec = x, !.npu_count = @ + 1]
      BY DEF RunNpuJob
    <3>b. ran = RunNpuJob(e, d)
      BY <2>1
    <3> HIDE DEF f, x, ran
    <3>2. ran = [n EXCEPT !.exec = x, !.npu_count = @ + 1]
      BY <3>a, <3>b
    <3>3. Whole(k) /\ SameBooks(e, k)
      BY <1>s, <3>1
    <3> HIDE DEF k
    <3>4. Whole(n) /\ SameBooks(k, n)
      BY <3>3, NpuLeaves, NpuBooks DEF Leaves
    <3> HIDE DEF n
    <3>5. n.npu_count = e.npu_count /\ n.gpu_count = e.gpu_count
          /\ n.error_count = e.error_count /\ n.processed = e.processed
      BY <3>3, <3>4 DEF SameBooks
    <3>6. /\ Whole(ran) /\ ran.npu_count = n.npu_count + 1 /\ ran.gpu_count = n.gpu_count
          /\ ran.error_count = n.error_count /\ ran.processed = n.processed
      BY <3>2, <3>4 DEF Whole, Fields
    <3> QED
      BY <2>1, <3>5, <3>6 DEF CountsTyped, CountsOf
  <2>2. ASSUME NEW f, DOMAIN f \subseteq Registers, d.opcode \in {GPU_CLEAR, GPU_DRAW_TRI},
               NEW n, n = emu_run_gpu_clear(Keep(e, f)) \/ n = emu_run_gpu_draw(Keep(e, f)),
               ran = [n EXCEPT !.gpu_count = @ + 1]
        PROVE  Whole(ran) /\ OneMore(ran)
    <3> DEFINE k == Keep(e, f)
    <3>3. Whole(k) /\ SameBooks(e, k)
      BY <1>s, <2>2
    <3>a. n = emu_run_gpu_clear(k) \/ n = emu_run_gpu_draw(k)
      BY <2>2
    <3> HIDE DEF k
    <3>4. Whole(n) /\ SameBooks(k, n)
      BY <3>a, <3>3, ClearPaints, DrawPaints, GpuBooks DEF Leaves
    <3>5. n.npu_count = e.npu_count /\ n.gpu_count = e.gpu_count
          /\ n.error_count = e.error_count /\ n.processed = e.processed
      BY <3>3, <3>4 DEF SameBooks
    <3>b. ran = [n EXCEPT !.gpu_count = @ + 1]
      BY <2>2
    <3> HIDE DEF ran
    <3>6. /\ Whole(ran) /\ ran.npu_count = n.npu_count /\ ran.gpu_count = n.gpu_count + 1
          /\ ran.error_count = n.error_count /\ ran.processed = n.processed
      BY <3>b, <3>4 DEF Whole, Fields
    <3> QED
      BY <2>2, <3>5, <3>6 DEF CountsTyped, CountsOf
  <2>3. CASE d.opcode = GPU_CLEAR
    <3> DEFINE f == [r \in {"UMEM_CTRL", "UMEM_GPU_FB", "GPU_CMD", "GPU_CLEAR_VALUE"} |->
                   CASE r = "UMEM_CTRL" -> e.reg[r] \cup {"ENABLE", "GPU_USE_BUF"}
                     [] r = "UMEM_GPU_FB" -> TargetFb(e, d)
                     [] r = "GPU_CMD" -> CLEAR
                     [] r = "GPU_CLEAR_VALUE" -> d.arg0 % 256]
    <3>1. DOMAIN f \subseteq Registers
      BY DEF Saved, Registers
    <3>a. RunClearJob(e, d) = [emu_run_gpu_clear(Keep(e, f)) EXCEPT !.gpu_count = @ + 1]
      BY DEF RunClearJob
    <3>b. ran = RunClearJob(e, d)
      BY <2>3
    <3> HIDE DEF f
    <3>2. ran = [emu_run_gpu_clear(Keep(e, f)) EXCEPT !.gpu_count = @ + 1]
      BY <3>a, <3>b
    <3> QED
      BY <2>2, <2>3, <3>1, <3>2
  <2>4. CASE d.opcode = GPU_DRAW_TRI
    <3> DEFINE f == [r \in {"UMEM_CTRL", "UMEM_GPU_FB", "GPU_CMD", "GPU_VERTEX0",
                        "GPU_VERTEX1", "GPU_VERTEX2"} |->
                   CASE r = "UMEM_CTRL" -> e.reg[r] \cup {"ENABLE", "GPU_USE_BUF"}
                     [] r = "UMEM_GPU_FB" -> TargetFb(e, d)
                     [] r = "GPU_CMD" -> DRAW_TRI
                     [] r = "GPU_VERTEX0" -> d.src0
                     [] r = "GPU_VERTEX1" -> d.src1
                     [] r = "GPU_VERTEX2" -> d.src2]
    <3>1. DOMAIN f \subseteq Registers
      BY DEF Saved, Registers
    <3>a. RunDrawJob(e, d) = [emu_run_gpu_draw(Keep(e, f)) EXCEPT !.gpu_count = @ + 1]
      BY DEF RunDrawJob
    <3>b. ran = RunDrawJob(e, d)
      BY <2>4
    <3> HIDE DEF f
    <3>2. ran = [emu_run_gpu_draw(Keep(e, f)) EXCEPT !.gpu_count = @ + 1]
      BY <3>a, <3>b
    <3> QED
      BY <2>2, <2>4, <3>1, <3>2
  <2>5. CASE d.opcode = NOP
    <3>1. ran = e
      BY <2>5
    <3> QED
      BY <2>5, <3>1 DEF CountsTyped, CountsOf
  <2>6. CASE d.opcode \notin {NOP, NPU_INFER, GPU_CLEAR, GPU_DRAW_TRI}
    <3>1. ran = [e EXCEPT !.error_count = @ + 1]
      BY <2>6
    <3> HIDE DEF ran
    <3>2. /\ Whole(ran) /\ ran.npu_count = e.npu_count /\ ran.gpu_count = e.gpu_count
          /\ ran.error_count = e.error_count + 1 /\ ran.processed = e.processed
      BY <3>1 DEF Whole, Fields
    <3> QED
      BY <2>6, <3>2 DEF CountsTyped, CountsOf
  <2> QED
    BY <2>1, <2>3, <2>4, <2>5, <2>6
<1>2. execute_desc(e, d) = [put EXCEPT !.dispatch_opcode = d.opcode,
         !.dispatch_status = IF IsKnown(d.opcode) THEN IDLE ELSE ERROR]
  BY DEF execute_desc
<1> HIDE DEF ran
<1>3. Whole(put) /\ SameBooks(ran, put)
  <2>1. DOMAIN [r \in Saved |-> e.reg[r]] \subseteq Registers
    BY DEF Registers
  <2> QED
    BY <1>1, <2>1, Kept, KeepBooks DEF Restore
<1> HIDE DEF put
<1> DEFINE n == execute_desc(e, d)
<1>4. SameBooks(ran, n)
  BY <1>2, <1>3 DEF SameBooks, Whole, Fields
<1> HIDE DEF n
<1>5. n.npu_count = ran.npu_count /\ n.gpu_count = ran.gpu_count
      /\ n.error_count = ran.error_count /\ n.processed = ran.processed
  BY <1>4 DEF SameBooks
<1>6. OneMore(n)
  BY <1>1, <1>5 DEF CountsTyped, CountsOf
<1> QED
  BY <1>6 DEF n

-----------------------------------------------------------------------------
(* The shape of the direct calls: operands stored in memory, registers of  *)
(* the units written, a unit started and its done bit cleared.             *)
ClientRegs == {"NPU_MODEL", "NPU_SEQ", "NPU_INPUT0", "NPU_INPUT1", "NPU_WEIGHTS",
               "GPU_CLEAR_VALUE", "GPU_CMD", "GPU_VERTEX0", "GPU_VERTEX1", "GPU_VERTEX2"}
BeyondMem == Fields \ {"mem"}
OperandsStored(e, n) ==
  /\ Whole(n) /\ \A x \in BeyondMem : n[x] = e[x]
  /\ n.mem.out = e.mem.out /\ n.mem.fb = e.mem.fb /\ n.mem.ring = e.mem.ring
Started(e, n) ==
  \E f : /\ DOMAIN f \subseteq ClientRegs
         /\ \E v \in {{"NPU_START"}, {"GPU_START"}} : \E c :
              n = WriteStatus(WriteControl(Keep(e, f), v), c)
DirectCall ==
  run_npu_sample \/ run_unified_npu \/ write_runtime_model \/ write_umem_operands
    \/ gpu_clear \/ gpu_draw

(* What a direct call does, whichever it is.                               *)
LEMMA DirectShape ==
  ASSUME Whole(emu), DirectCall
  PROVE  /\ UNCHANGED <<drain, host, jobs>> /\ ~drain.on /\ ~emu.exited
         /\ \E e : /\ OperandsStored(emu, e)
                   /\ \/ emu' = e
                      \/ \E f : DOMAIN f \subseteq ClientRegs /\ emu' = Keep(e, f)
                      \/ Started(e, emu')
<1> DEFINE Shape(e) == \/ emu' = e
                       \/ \E f : DOMAIN f \subseteq ClientRegs /\ emu' = Keep(e, f)
                       \/ Started(e, emu')
<1>1. UNCHANGED <<drain, host, jobs>> /\ ~drain.on /\ ~emu.exited
  BY DEF DirectCall, run_npu_sample, run_unified_npu, write_runtime_model,
     write_umem_operands, gpu_clear, gpu_draw, Direct, Idle
<1>2. OperandsStored(emu, emu)
  BY DEF OperandsStored
<1>3. CASE run_npu_sample
  <2> DEFINE f(m, in) == [r \in {"NPU_MODEL", "NPU_SEQ", "NPU_INPUT0", "NPU_INPUT1"} |->
                    CASE r = "NPU_MODEL" -> m
                      [] r = "NPU_SEQ" -> 8
                      [] r = "NPU_INPUT0" -> in[1]
                      [] r = "NPU_INPUT1" -> in[2]]
  <2>1. PICK m \in Models, in \in Inputs :
          emu' = WriteStatus(WriteControl(Keep(emu, f(m, in)), {"NPU_START"}), {"CLR_NPU_DONE"})
    BY <1>3 DEF run_npu_sample
  <2>2. DOMAIN f(m, in) \subseteq ClientRegs
    BY DEF ClientRegs
  <2> HIDE DEF f
  <2>3. Started(emu, emu')
    BY <2>1, <2>2 DEF Started
  <2> QED
    BY <1>1, <1>2, <2>3
<1>4. CASE run_unified_npu
  <2> DEFINE f == [r \in {"NPU_MODEL", "NPU_SEQ"} |-> IF r = "NPU_MODEL" THEN RUNTIME ELSE 8]
             e(in, w) == [emu EXCEPT !.mem.in[emu.reg["UMEM_NPU_INPUT"]] = in,
                                     !.mem.w[emu.reg["UMEM_NPU_WEIGHT"]] = w]
  <2>1. PICK in \in Inputs, w \in Runtimes :
          emu' = WriteStatus(WriteControl(Keep(e(in, w), f), {"NPU_START"}), {"CLR_NPU_DONE"})
    BY <1>4 DEF run_unified_npu
  <2>2. DOMAIN f \subseteq ClientRegs
    BY DEF ClientRegs
  <2>3. OperandsStored(emu, e(in, w))
    BY DEF OperandsStored, BeyondMem, Whole, Fields, Memories
  <2> HIDE DEF f, e
  <2>4. Started(e(in, w), emu')
    BY <2>1, <2>2 DEF Started
  <2> QED
    BY <1>1, <2>3, <2>4
<1>5. CASE write_runtime_model
  <2>1. PICK w \in Runtimes : emu' = Keep(emu, Set1("NPU_WEIGHTS", w))
    BY <1>5 DEF write_runtime_model
  <2>2. DOMAIN Set1("NPU_WEIGHTS", w) \subseteq ClientRegs
    BY DEF Set1, ClientRegs
  <2> QED
    BY <1>1, <1>2, <2>1, <2>2
<1>6. CASE write_umem_operands
  <2>1. PICK b \in Bufs, in \in Inputs, w \in Runtimes :
          emu' = [emu EXCEPT !.mem.in[b] = in, !.mem.w[b] = w]
    BY <1>6 DEF write_umem_operands
  <2>2. OperandsStored(emu, emu')
    BY <2>1 DEF OperandsStored, BeyondMem, Whole, Fields, Memories
  <2> QED
    BY <1>1, <2>2
<1>7. CASE gpu_clear
  <2> DEFINE f == [r \in {"GPU_CLEAR_VALUE", "GPU_CMD"} |-> IF r = "GPU_CMD" THEN CLEAR ELSE 0]
  <2>1. emu' = WriteStatus(WriteControl(Keep(emu, f), {"GPU_START"}), {"CLR_GPU_DONE"})
    BY <1>7 DEF gpu_clear
  <2>2. DOMAIN f \subseteq ClientRegs
    BY DEF ClientRegs
  <2> HIDE DEF f
  <2>3. Started(emu, emu')
    BY <2>1, <2>2 DEF Started
  <2> QED
    BY <1>1, <1>2, <2>3
<1>8. CASE gpu_draw
  <2> DEFINE f(t) == [r \in {"GPU_VERTEX0", "GPU_VERTEX1", "GPU_VERTEX2", "GPU_CMD"} |->
                        CASE r = "GPU_VERTEX0" -> t[1]
                          [] r = "GPU_VERTEX1" -> t[2]
                          [] r = "GPU_VERTEX2" -> t[3]
                          [] r = "GPU_CMD" -> DRAW_TRI]
  <2>1. PICK t \in Triangles :
          emu' = WriteStatus(WriteControl(Keep(emu, f(t)), {"GPU_START"}), {"CLR_GPU_DONE"})
    BY <1>8 DEF gpu_draw
  <2>2. DOMAIN f(t) \subseteq ClientRegs
    BY DEF ClientRegs
  <2> HIDE DEF f
  <2>3. Started(emu, emu')
    BY <2>1, <2>2 DEF Started
  <2> QED
    BY <1>1, <1>2, <2>3
<1> QED
  BY <1>3, <1>4, <1>5, <1>6, <1>7, <1>8 DEF DirectCall

(* No direct call touches the books.                                       *)
LEMMA DirectBooks == ASSUME Whole(emu), DirectCall PROVE SameBooks(emu, emu')
<1>1. PICK e : /\ OperandsStored(emu, e)
               /\ \/ emu' = e
                  \/ \E f : DOMAIN f \subseteq ClientRegs /\ emu' = Keep(e, f)
                  \/ Started(e, emu')
  BY DirectShape
<1>2. Whole(e) /\ SameBooks(emu, e)
  BY <1>1 DEF OperandsStored, SameBooks, BeyondMem, Fields
<1>3. ASSUME NEW f, DOMAIN f \subseteq ClientRegs
      PROVE  Whole(Keep(e, f)) /\ SameBooks(e, Keep(e, f))
  <2>1. DOMAIN f \subseteq Registers
    BY <1>3 DEF ClientRegs, Registers, Saved, Operands
  <2> QED
    BY <1>2, <2>1, Kept, KeepBooks
<1>4. CASE Started(e, emu')
  <2>1. PICK f : /\ DOMAIN f \subseteq ClientRegs
                 /\ \E v \in {{"NPU_START"}, {"GPU_START"}} : \E c :
                      emu' = WriteStatus(WriteControl(Keep(e, f), v), c)
    BY <1>4 DEF Started
  <2>2. PICK v \in {{"NPU_START"}, {"GPU_START"}} : \E c :
          emu' = WriteStatus(WriteControl(Keep(e, f), v), c)
    BY <2>1
  <2>3. PICK c : emu' = WriteStatus(WriteControl(Keep(e, f), v), c)
    BY <2>2
  <2> DEFINE k == Keep(e, f)
             n == WriteControl(k, v)
  <2>4. Whole(k) /\ SameBooks(e, k)
    BY <1>3, <2>1
  <2>5. emu' = WriteStatus(n, c)
    BY <2>3
  <2> HIDE DEF k
  <2>6. Whole(n) /\ SameBooks(k, n)
    BY <2>4, ControlBooks
  <2> HIDE DEF n
  <2>7. SameBooks(n, emu')
    BY <2>5, <2>6, StatusBooks
  <2> QED
    BY <1>2, <2>4, <2>6, <2>7 DEF SameBooks
<1> QED
  BY <1>1, <1>2, <1>3, <1>4 DEF SameBooks

(* A turn of the loop counts its descriptor, unless it ends the process.   *)
LEMMA TurnCounts ==
  ASSUME NEW e, EmuOK(e), CountsTyped(e)
  PROVE  LET n == ProcessOne(e)
             d == e.mem.ring[e.reg["CMDQ_TAIL"] % Entries].desc
         IN  /\ CountsTyped(n)
             /\ n.processed = e.processed + (IF n.exited THEN 0 ELSE 1)
             /\ ~n.exited => CountsOf(n) = CountsOf(e) + (IF d.opcode = NOP THEN 0 ELSE 1)
<1> DEFINE slot == e.reg["CMDQ_TAIL"] % Entries
           d == e.mem.ring[slot].desc
           f == [e EXCEPT !.last = [slot |-> slot, sequence |-> e.processed,
                                    beats |-> 8, opcode |-> d.opcode]]
           ran == execute_desc(f, d)
           next == [r \in {"CMDQ_TAIL"} |-> NextTail(e.reg["CMDQ_TAIL"], Entries)]
           k == Keep(ran, next)
           n == [k EXCEPT !.mem.ring[slot] = [@ EXCEPT !.done = TRUE, !.error = ~IsKnown(d.opcode)],
                          !.fetch_status = IF IsKnown(d.opcode) THEN IDLE ELSE ERROR,
                          !.processed = @ + 1]
<1>1. slot \in Slots
  BY EntriesPositive DEF EmuOK, Slots
<1>2. ProcessOne(e) = IF ran.exited THEN ran ELSE n
  BY DEF ProcessOne, EmuOK, Entries
<1>3. d \in Descs \cup {NoDesc}
  BY <1>1 DEF EmuOK, RingOK, SlotOK
<1> HIDE DEF d
<1>4. Whole(f) /\ CountsTyped(f) /\ f.processed = e.processed /\ CountsOf(f) = CountsOf(e)
  BY DEF EmuOK, Whole, Fields, CountsTyped, CountsOf
<1> HIDE DEF f
<1>5. /\ Whole(ran) /\ CountsTyped(ran) /\ ran.processed = e.processed
      /\ CountsOf(ran) = CountsOf(e) + (IF d.opcode = NOP THEN 0 ELSE 1)
  <2>1. Whole(ran)
    BY <1>3, <1>4, Executed DEF Leaves
  <2>2. /\ CountsTyped(ran) /\ ran.processed = f.processed
        /\ CountsOf(ran) = CountsOf(f) + (IF d.opcode = NOP THEN 0 ELSE 1)
    BY <1>4, ExecutedCounts
  <2> QED
    BY <1>4, <2>1, <2>2
<1> HIDE DEF ran
<1>6. DOMAIN next \subseteq Registers
  BY DEF Registers, Others
<1> HIDE DEF next
<1>7. Whole(k) /\ SameBooks(ran, k) /\ k.exited = ran.exited
  BY <1>5, <1>6, Kept, KeepBooks
<1> HIDE DEF k
<1>8. /\ n.npu_count = k.npu_count /\ n.gpu_count = k.gpu_count /\ n.error_count = k.error_count
      /\ n.processed = k.processed + 1 /\ n.exited = k.exited
  BY <1>7 DEF Whole, Fields
<1> HIDE DEF n
<1>9. CountsTyped(n) /\ CountsOf(n) = CountsOf(ran) /\ n.processed = ran.processed + 1
  BY <1>5, <1>7, <1>8 DEF SameBooks, CountsTyped, CountsOf
<1>10. CASE ran.exited
  BY <1>2, <1>5, <1>10 DEF CountsTyped
<1>11. CASE ~ran.exited
  BY <1>2, <1>5, <1>7, <1>8, <1>9, <1>11 DEF d
<1> QED
  BY <1>10, <1>11

-----------------------------------------------------------------------------
(* The parts of CountersTruthful, as predicates of one emulator: what the  *)
(* status word tells and how the counters add up. Low keeps the remainder  *)
(* folded, which the provers reason about only when it is.                 *)
Low(n) == n % 65536
Told(e, d, q) ==
  ~d.on /\ ~e.exited => /\ ~e.status.busy /\ (e.status.empty <=> q)
                        /\ e.status.error => d.error
                        /\ e.status.processed = Low(e.processed)
Tallied(e, j) ==
  /\ e.processed = Len(j.processed)
  /\ ~e.exited => e.npu_count + e.gpu_count + e.error_count + j.nops = e.processed

(* The two parts are the property.                                         *)
LEMMA TruthfulParts == CountersTruthful <=> Told(emu, drain, QueueEmpty) /\ Tallied(emu, jobs)
  BY DEF CountersTruthful, Told, Tallied, Low

(* The invariant: the counters are numbers and what they should be.        *)
CountInv ==
  /\ CountsTyped(emu) /\ jobs.nops \in Nat
  /\ Told(emu, drain, QueueEmpty) /\ Tallied(emu, jobs)

(* The counters are zero and the status word fresh after reset.            *)
LEMMA CountInit == Init => CountInv
<1> SUFFICES ASSUME Init PROVE CountInv
  OBVIOUS
<1>1. /\ emu = emu_init /\ jobs.processed = <<>> /\ jobs.nops = 0 /\ drain = NoDrain
  BY DEF Init
<1>2. emu.reg["CMDQ_HEAD"] = 0 /\ emu.reg["CMDQ_TAIL"] = 0
  <2>1. "CMDQ_HEAD" \in Registers /\ "CMDQ_TAIL" \in Registers
    BY DEF Registers, Others
  <2>2. emu.reg = ResetRegisters
    BY <1>1 DEF emu_init
  <2> QED
    BY <2>1, <2>2 DEF ResetRegisters
<1>3. /\ emu.npu_count = 0 /\ emu.gpu_count = 0 /\ emu.error_count = 0 /\ emu.processed = 0
      /\ emu.status = [busy |-> FALSE, error |-> FALSE, empty |-> TRUE, processed |-> 0]
  BY <1>1 DEF emu_init
<1>4. Low(0) = 0
  BY DEF Low
<1> QED
  BY <1>1, <1>2, <1>3, <1>4 DEF CountInv, CountsTyped, Told, Tallied, QueueEmpty

(* A write of a queue register makes the status word true.                 *)
LEMMA WriteTruthful ==
  ASSUME NEW e, Whole(e), NEW f, DOMAIN f \subseteq Registers,
         DOMAIN f \cap RefreshingRegs # {}
  PROVE  LET n == Write(e, f)
         IN  /\ ~n.status.busy /\ ~n.status.error
             /\ n.status.empty <=> n.reg["CMDQ_HEAD"] = n.reg["CMDQ_TAIL"]
             /\ n.status.processed = Low(n.processed)
             /\ n.processed = e.processed /\ n.npu_count = e.npu_count
             /\ n.gpu_count = e.gpu_count /\ n.error_count = e.error_count
             /\ Whole(n)
<1> DEFINE k == Keep(e, f)
<1>1. Write(e, f) = emu_cmdq_refresh_status(k, FALSE)
  BY DEF Write
<1>2. Whole(k) /\ SameBooks(e, k)
  BY Kept, KeepBooks
<1> HIDE DEF k
<1> DEFINE n == Write(e, f)
<1>3. /\ Whole(n) /\ n.reg = k.reg /\ n.processed = k.processed /\ n.npu_count = k.npu_count
      /\ n.gpu_count = k.gpu_count /\ n.error_count = k.error_count
      /\ n.status = [busy |-> FALSE, error |-> FALSE,
                     empty |-> k.reg["CMDQ_HEAD"] = k.reg["CMDQ_TAIL"],
                     processed |-> Low(k.processed)]
  BY <1>1, <1>2 DEF emu_cmdq_refresh_status, Whole, Fields, Low
<1> HIDE DEF n
<1>4. /\ ~n.status.busy /\ ~n.status.error
      /\ n.status.empty <=> n.reg["CMDQ_HEAD"] = n.reg["CMDQ_TAIL"]
      /\ n.status.processed = Low(n.processed)
  <2>1. n.status.busy = FALSE /\ n.status.error = FALSE
    BY <1>3
  <2>2. n.status.empty = (k.reg["CMDQ_HEAD"] = k.reg["CMDQ_TAIL"])
    BY <1>3
  <2>3. n.status.processed = Low(k.processed)
    BY <1>3
  <2>4. n.status.empty <=> n.reg["CMDQ_HEAD"] = n.reg["CMDQ_TAIL"]
    <3>1. n.reg = k.reg
      BY <1>3
    <3> QED
      BY <2>2, <3>1, Zenon
  <2>5. ~n.status.busy /\ ~n.status.error
    BY <2>1
  <2>6. n.status.processed = Low(n.processed)
    BY <1>3, <2>3
  <2> QED
    BY <2>4, <2>5, <2>6
<1>5. /\ n.processed = e.processed /\ n.npu_count = e.npu_count
      /\ n.gpu_count = e.gpu_count /\ n.error_count = e.error_count
  BY <1>2, <1>3 DEF SameBooks
<1> QED
  BY <1>3, <1>4, <1>5 DEF n

(* A call that leaves the books and the ring's pointers.                   *)
LEMMA BooksKeep ==
  ASSUME CountInv, SameBooks(emu, emu'), ~emu.exited,
         emu'.reg["CMDQ_HEAD"] = emu.reg["CMDQ_HEAD"],
         emu'.reg["CMDQ_TAIL"] = emu.reg["CMDQ_TAIL"],
         jobs'.processed = jobs.processed, jobs'.nops = jobs.nops, drain' = drain
  PROVE  CountInv'
<1>1. CountsTyped(emu')
  BY DEF CountInv, SameBooks, CountsTyped
<1>2. QueueEmpty' <=> QueueEmpty
  BY DEF QueueEmpty
<1>3. Told(emu', drain', QueueEmpty')
  BY <1>2 DEF CountInv, SameBooks, Told
<1>4. Tallied(emu', jobs') /\ jobs'.nops \in Nat
  BY DEF CountInv, SameBooks, Tallied
<1> QED
  BY <1>1, <1>3, <1>4 DEF CountInv

(* A call that ends with a write of a queue register.                      *)
LEMMA TruthfulKeep ==
  ASSUME CountInv, ~emu.exited, NEW e, Whole(e), NEW f, DOMAIN f \subseteq Registers,
         DOMAIN f \cap RefreshingRegs # {}, emu' = Write(e, f),
         e.processed = emu.processed, e.npu_count = emu.npu_count,
         e.gpu_count = emu.gpu_count, e.error_count = emu.error_count,
         jobs'.processed = jobs.processed, jobs'.nops = jobs.nops
  PROVE  CountInv'
<1>1. /\ ~emu'.status.busy /\ ~emu'.status.error
      /\ emu'.status.empty <=> emu'.reg["CMDQ_HEAD"] = emu'.reg["CMDQ_TAIL"]
      /\ emu'.status.processed = Low(emu'.processed)
      /\ emu'.processed = e.processed /\ emu'.npu_count = e.npu_count
      /\ emu'.gpu_count = e.gpu_count /\ emu'.error_count = e.error_count
  BY WriteTruthful
<1>2. emu'.status.empty <=> QueueEmpty'
  BY <1>1 DEF QueueEmpty
<1>3. CountsTyped(emu')
  BY <1>1 DEF CountInv, CountsTyped
<1> QED
  BY <1>1, <1>2, <1>3 DEF CountInv, Told, Tallied

(* A submission counts nothing; a doorbell that does not start the loop    *)
(* refreshes the status word.                                              *)
LEMMA SubmitCounts == QueueInv /\ CountInv /\ accel_cmdq_host_submit => CountInv'
<1> SUFFICES ASSUME QueueInv, CountInv, accel_cmdq_host_submit PROVE CountInv'
  OBVIOUS
<1> DEFINE h == Set1("CMDQ_HEAD", host.cached_head)
           b(v) == Set1("CMDQ_DOORBELL", v)
           shown == Write(emu, h)
           rung(v) == Keep(shown, b(v))
<1>1. PICK v \in Doorbells :
        \/ emu' = BeginProcess(rung(v)) /\ drain'.on
        \/ emu' = Write(shown, b(v)) /\ drain' = drain
  BY DEF accel_cmdq_host_submit
<1>2. /\ ~emu.exited /\ jobs'.processed = jobs.processed /\ jobs'.nops = jobs.nops
      /\ Whole(emu)
  BY DEF accel_cmdq_host_submit, Idle, QueueInv, QueueOK, JobsOK, EmuOK
<1>3. /\ DOMAIN h \subseteq Registers /\ DOMAIN h \cap RefreshingRegs # {}
      /\ DOMAIN b(v) \subseteq Registers /\ DOMAIN b(v) \cap RefreshingRegs # {}
  BY DEF Set1, Registers, Others, RefreshingRegs
<1> HIDE DEF h, b
<1>4. /\ Whole(shown) /\ shown.processed = emu.processed /\ shown.npu_count = emu.npu_count
      /\ shown.gpu_count = emu.gpu_count /\ shown.error_count = emu.error_count
  BY <1>2, <1>3, WriteTruthful
<1> HIDE DEF shown
<1>5. CASE emu' = BeginProcess(rung(v)) /\ drain'.on
  <2>1. Whole(rung(v)) /\ SameBooks(shown, rung(v))
    BY <1>3, <1>4, Kept, KeepBooks
  <2> HIDE DEF rung
  <2>2. /\ emu'.processed = rung(v).processed /\ emu'.npu_count = rung(v).npu_count
        /\ emu'.gpu_count = rung(v).gpu_count /\ emu'.error_count = rung(v).error_count
    BY <1>5, <2>1 DEF BeginProcess, Whole, Fields
  <2>3. /\ emu'.processed = emu.processed /\ emu'.npu_count = emu.npu_count
        /\ emu'.gpu_count = emu.gpu_count /\ emu'.error_count = emu.error_count
    BY <1>4, <2>1, <2>2 DEF SameBooks
  <2> QED
    BY <1>2, <1>5, <2>3 DEF CountInv, Told, Tallied, CountsTyped
<1>6. CASE emu' = Write(shown, b(v))
  BY <1>2, <1>3, <1>4, <1>6, TruthfulKeep
<1> QED
  BY <1>1, <1>5, <1>6

(* A reset or a configuration counts nothing and refreshes it too.         *)
LEMMA ZeroCounts ==
  QueueInv /\ CountInv /\ (accel_cmdq_host_reset \/ configure_unified_memory) => CountInv'
<1> SUFFICES ASSUME QueueInv, CountInv, accel_cmdq_host_reset \/ configure_unified_memory
             PROVE CountInv'
  OBVIOUS
<1>1. /\ ~emu.exited /\ jobs'.processed = jobs.processed /\ jobs'.nops = jobs.nops
      /\ Whole(emu)
  BY DEF accel_cmdq_host_reset, configure_unified_memory, Idle, QueueInv, QueueOK, JobsOK, EmuOK
<1>2. CASE accel_cmdq_host_reset
  <2> DEFINE e == [emu EXCEPT !.mem.ring = [s \in Slots |-> EmptySlot]]
             f == [r \in {"CMDQ_HEAD", "CMDQ_TAIL", "CMDQ_DOORBELL"} |-> 0]
  <2>1. emu' = Write(e, f)
    BY <1>2 DEF accel_cmdq_host_reset
  <2>2. /\ Whole(e) /\ e.processed = emu.processed /\ e.npu_count = emu.npu_count
        /\ e.gpu_count = emu.gpu_count /\ e.error_count = emu.error_count
    BY <1>1 DEF Whole, Fields, Memories
  <2>3. DOMAIN f \subseteq Registers /\ DOMAIN f \cap RefreshingRegs # {}
    BY DEF Registers, Others, RefreshingRegs
  <2> HIDE DEF e, f
  <2> QED
    BY <1>1, <2>1, <2>2, <2>3, TruthfulKeep
<1>3. CASE configure_unified_memory
  <2> DEFINE R == {"UMEM_CTRL", "CMDQ_SIZE", "CMDQ_HEAD", "CMDQ_TAIL", "CMDQ_DOORBELL",
                   "UMEM_NPU_INPUT", "UMEM_NPU_WEIGHT", "UMEM_NPU_OUTPUT", "UMEM_GPU_FB"}
             f(bits) == [r \in R |->
                CASE r = "UMEM_CTRL" -> bits
                  [] r = "CMDQ_SIZE" -> CmdqBytes
                  [] r \in {"CMDQ_HEAD", "CMDQ_TAIL", "CMDQ_DOORBELL"} -> 0
                  [] OTHER -> 1]
  <2>1. PICK bits : emu' = Write(emu, f(bits))
    BY <1>3 DEF configure_unified_memory
  <2>2. DOMAIN f(bits) \subseteq Registers /\ DOMAIN f(bits) \cap RefreshingRegs # {}
    BY DEF Registers, Others, Saved, RefreshingRegs
  <2> HIDE DEF f
  <2> QED
    BY <1>1, <2>1, <2>2, TruthfulKeep
<1> QED
  BY <1>2, <1>3

(* A turn of the loop counts one descriptor.                               *)
LEMMA TurnTruthful == QueueInv /\ CountInv /\ ProcessDescriptor => CountInv'
<1> SUFFICES ASSUME QueueInv, CountInv, ProcessDescriptor PROVE CountInv'
  OBVIOUS
<1> DEFINE tail == emu.reg["CMDQ_TAIL"]
           slot == emu.mem.ring[tail]
<1>1. emu' = ProcessOne(emu) /\ drain.on /\ ~emu.exited /\ tail # emu.reg["CMDQ_HEAD"]
  BY DEF ProcessDescriptor, More
<1>2. tail \in Slots /\ tail % Entries = tail /\ Entries \in Nat \ {0}
  BY SlotArithmetic, EntriesPositive DEF QueueInv, QueueOK, HeadsOK
<1>3. emu'.last.slot = tail
  BY <1>1, <1>2, TurnPaints DEF QueueInv
<1>4. /\ CountsTyped(emu')
      /\ emu'.processed = emu.processed + (IF emu'.exited THEN 0 ELSE 1)
      /\ ~emu'.exited => CountsOf(emu') = CountsOf(emu) + (IF slot.desc.opcode = NOP THEN 0 ELSE 1)
  BY <1>1, <1>2, TurnCounts DEF QueueInv, CountInv
<1>5. drain'.on
  BY TurnQueued
<1>6. CASE emu'.exited
  <2>1. jobs' = jobs
    BY <1>6 DEF ProcessDescriptor
  <2>2. emu'.processed = emu.processed
    BY <1>4, <1>6 DEF CountInv, CountsTyped
  <2> QED
    BY <1>4, <1>5, <1>6, <2>1, <2>2 DEF CountInv, Told, Tallied
<1>7. CASE ~emu'.exited
  <2>1. /\ jobs'.processed = Append(jobs.processed, slot.id)
        /\ jobs'.nops = jobs.nops + (IF slot.desc.opcode = NOP THEN 1 ELSE 0)
    BY <1>3, <1>7 DEF ProcessDescriptor, QueueInv, QueueOK, JobsOK
  <2>2. slot.id \in Nat
    <3>1. /\ Submitted \in Nat /\ Pushed \in Nat /\ Submitted <= Pushed /\ Done \in Nat
      BY DEF QueueInv, QueueOK, JobsOK, Submitted, Pushed, Done
    <3>a. Onward(tail, 0) = tail
      BY <1>2 DEF Onward, Slots
    <3>b. emu.reg["CMDQ_HEAD"] = Onward(tail, Submitted)
      BY DEF QueueInv, QueueOK, HeadsOK
    <3>c. Submitted # 0
      BY <1>1, <3>a, <3>b
    <3>2. 0 \in 0..Pushed-1
      BY <3>1, <3>c
    <3>3. emu.mem.ring[Onward(tail, 0)].id = Done + 0 + 1
      BY <3>2 DEF QueueInv, QueueOK, IdsOK
    <3> QED
      BY <3>1, <3>a, <3>3
  <2> HIDE DEF slot
  <2>3. Len(jobs'.processed) = Len(jobs.processed) + 1
    BY <2>1, <2>2 DEF QueueInv, QueueOK, JobsOK
  <2>4. jobs'.nops \in Nat /\ emu'.processed = Len(jobs'.processed)
    BY <1>4, <1>7, <2>1, <2>3 DEF CountInv, Told, Tallied
  <2>5. emu'.npu_count + emu'.gpu_count + emu'.error_count + jobs'.nops = emu'.processed
    <3>1. emu.npu_count + emu.gpu_count + emu.error_count + jobs.nops = emu.processed
      BY <1>1 DEF CountInv, Told, Tallied
    <3>2. CASE slot.desc.opcode = NOP
      <4>1. jobs'.nops = jobs.nops + 1 /\ CountsOf(emu') = CountsOf(emu) + 0
        BY <1>4, <1>7, <2>1, <3>2 DEF CountInv
      <4>2. emu'.processed = emu.processed + 1
        BY <1>4, <1>7
      <4> QED
        BY <1>4, <3>1, <4>1, <4>2 DEF CountInv, CountsTyped, CountsOf
    <3>3. CASE slot.desc.opcode # NOP
      <4>1. jobs'.nops = jobs.nops /\ CountsOf(emu') = CountsOf(emu) + 1
        BY <1>4, <1>7, <2>1, <3>3 DEF CountInv
      <4>2. emu'.processed = emu.processed + 1
        BY <1>4, <1>7
      <4> QED
        BY <1>4, <3>1, <4>1, <4>2 DEF CountInv, CountsTyped, CountsOf
    <3> QED
      BY <3>2, <3>3
  <2> QED
    BY <1>4, <1>5, <2>4, <2>5 DEF CountInv, Told, Tallied
<1> QED
  BY <1>6, <1>7

(* The end of the loop refreshes the status word.                          *)
LEMMA FinishTruthful == QueueInv /\ CountInv /\ FinishProcess => CountInv'
<1> SUFFICES ASSUME QueueInv, CountInv, FinishProcess PROVE CountInv'
  OBVIOUS
<1>1. /\ emu' = EndProcess(emu, drain.error) /\ drain'.error = drain.error
      /\ jobs' = jobs /\ drain.on /\ ~emu.exited
  BY DEF FinishProcess, NoDrain
<1>2. emu'.status.empty /\ (emu'.status.error <=> drain.error)
  BY FinishQueued
<1> DEFINE left == emu.reg["CMDQ_TAIL"] # emu.reg["CMDQ_HEAD"]
           k == [emu EXCEPT !.fetch_status = IF left THEN ERROR ELSE @]
<1>3. emu' = emu_cmdq_refresh_status(k, drain.error \/ left)
  BY <1>1 DEF EndProcess
<1>4. Whole(k) /\ SameBooks(emu, k) /\ k.reg = emu.reg
  BY DEF QueueInv, EmuOK, Whole, Fields, SameBooks
<1> HIDE DEF k, left
<1>5. /\ emu'.reg = k.reg /\ emu'.processed = k.processed /\ emu'.npu_count = k.npu_count
      /\ emu'.gpu_count = k.gpu_count /\ emu'.error_count = k.error_count
      /\ emu'.status.busy = FALSE /\ emu'.status.processed = Low(k.processed)
      /\ emu'.status.empty = (k.reg["CMDQ_HEAD"] = k.reg["CMDQ_TAIL"])
  BY <1>3, <1>4 DEF emu_cmdq_refresh_status, Whole, Fields, Low
<1>a. emu'.reg["CMDQ_HEAD"] = emu'.reg["CMDQ_TAIL"]
  <2>1. k.reg["CMDQ_HEAD"] = k.reg["CMDQ_TAIL"]
    BY <1>2, <1>5, Zenon
  <2> QED
    BY <1>5, <2>1
<1>6. QueueEmpty'
  BY <1>a DEF QueueEmpty
<1>7. /\ emu'.processed = emu.processed /\ emu'.npu_count = emu.npu_count
      /\ emu'.gpu_count = emu.gpu_count /\ emu'.error_count = emu.error_count
  BY <1>4, <1>5 DEF SameBooks
<1>8. CountsTyped(emu')
  BY <1>7 DEF CountInv, CountsTyped
<1>9. ~emu'.status.busy /\ emu'.status.processed = Low(emu'.processed)
  BY <1>5
<1>b. /\ ~emu'.status.busy /\ (emu'.status.empty <=> QueueEmpty')
      /\ emu'.status.error => drain'.error
      /\ emu'.status.processed = Low(emu'.processed)
  BY <1>1, <1>2, <1>6, <1>9
<1>c. /\ emu'.processed = Len(jobs'.processed) /\ jobs'.nops \in Nat
      /\ emu'.npu_count + emu'.gpu_count + emu'.error_count + jobs'.nops = emu'.processed
  BY <1>1, <1>7 DEF CountInv, Told, Tallied
<1> QED
  BY <1>8, <1>b, <1>c DEF CountInv, Told, Tallied

(* Every step keeps the counters and the status word true.                 *)
LEMMA NextCounts == QueueInv /\ CountInv /\ [Next]_vars => CountInv'
<1> SUFFICES ASSUME QueueInv, CountInv, [Next]_vars PROVE CountInv'
  OBVIOUS
<1>0. Whole(emu)
  BY DEF QueueInv, EmuOK
<1>1. CASE DirectCall
  <2>1. Frame(emu, emu') /\ UNCHANGED <<jobs, drain>> /\ ~emu.exited
    BY <1>0, <1>1, DirectFrame, DirectShape DEF DirectCall
  <2> QED
    BY <1>0, <1>1, <2>1, DirectBooks, BooksKeep DEF Frame
<1>2. CASE accel_cmdq_host_push
  <2>1. PICK d \in Descs :
          emu' = [emu EXCEPT !.mem.ring[host.cached_head] =
                    [id |-> jobs.pushed + 1, desc |-> d, done |-> FALSE, error |-> FALSE]]
    BY <1>2 DEF accel_cmdq_host_push
  <2>2. emu'.reg = emu.reg /\ SameBooks(emu, emu')
    BY <1>0, <2>1 DEF Whole, Fields, SameBooks
  <2>3. /\ drain' = drain /\ ~emu.exited /\ jobs'.processed = jobs.processed
        /\ jobs'.nops = jobs.nops
    BY <1>2 DEF accel_cmdq_host_push, Idle, QueueInv, QueueOK, JobsOK
  <2> QED
    BY <2>2, <2>3, BooksKeep
<1>3. CASE accel_cmdq_host_sync
  <2>1. /\ emu' = emu /\ drain' = drain /\ ~emu.exited /\ jobs'.processed = jobs.processed
        /\ jobs'.nops = jobs.nops
    BY <1>3 DEF accel_cmdq_host_sync, Idle, QueueInv, QueueOK, JobsOK
  <2> QED
    BY <2>1, BooksKeep DEF SameBooks
<1>4. CASE UNCHANGED vars
  BY <1>4 DEF vars, CountInv, QueueEmpty
<1> QED
  BY <1>1, <1>2, <1>3, <1>4, SubmitCounts, ZeroCounts, TurnTruthful, FinishTruthful
  DEF Next, Library, Process, Client, DirectCall

(* Between calls the status word tells the truth about the ring and every  *)
(* processed descriptor is counted once, as what it was, for every ring,   *)
(* set of descriptors and sequence of calls                                *)
(* (accel_mmio_demo.c:171-182, 455-500, 695-762).                          *)
THEOREM CountersAreTruthful == Spec => []CountersTruthful
<1>1. CountInv => CountersTruthful
  BY TruthfulParts DEF CountInv
<1> QED
  BY <1>1, InitInvariant, NextInvariant, QueueInit, NextQueued, CountInit, NextCounts, PTL
  DEF Spec

-----------------------------------------------------------------------------
(* The types.                                                              *)

(* A start through CONTROL and what follows it leave the registers that    *)
(* are not a unit's own.                                                   *)
UnitRegs == ClientRegs \cup {"CONTROL"}

(* A start of a unit writes no register but those of the units.            *)
LEMMA ControlRegs ==
  ASSUME NEW e, Whole(e), NEW v \in {{"NPU_START"}, {"GPU_START"}}, NEW r \in Registers \ UnitRegs
  PROVE  WriteControl(e, v).reg[r] = e.reg[r] /\ Whole(WriteControl(e, v))
<1> DEFINE f == [x \in {"CONTROL"} |-> v]
           k == Keep(e, f)
<1>1. DOMAIN f \subseteq Registers /\ r \notin DOMAIN f /\ r \in Registers \ Operands
  BY DEF Registers, Others, UnitRegs, ClientRegs, Operands
<1>2. \/ WriteControl(e, v) = k \/ WriteControl(e, v) = emu_run_npu(k)
      \/ WriteControl(e, v) = emu_run_gpu_clear(k) \/ WriteControl(e, v) = emu_run_gpu_draw(k)
  BY DEF WriteControl
<1> HIDE DEF f
<1>3. Whole(k) /\ k.reg[r] = e.reg[r]
  BY <1>1, Kept
<1> HIDE DEF k
<1>a. /\ Leaves(k, emu_run_npu(k)) /\ Leaves(k, emu_run_gpu_clear(k))
      /\ Leaves(k, emu_run_gpu_draw(k))
  BY <1>3, NpuLeaves, ClearPaints, DrawPaints
<1>4. /\ Whole(emu_run_npu(k)) /\ emu_run_npu(k).reg[r] = k.reg[r]
      /\ Whole(emu_run_gpu_clear(k)) /\ emu_run_gpu_clear(k).reg[r] = k.reg[r]
      /\ Whole(emu_run_gpu_draw(k)) /\ emu_run_gpu_draw(k).reg[r] = k.reg[r]
  BY <1>1, <1>a DEF Leaves
<1> QED
  BY <1>2, <1>3, <1>4

(* A direct call leaves them too.                                          *)
LEMMA DirectRegs ==
  ASSUME Whole(emu), DirectCall, NEW r \in Registers \ UnitRegs
  PROVE  emu'.reg[r] = emu.reg[r]
<1>1. PICK e : /\ OperandsStored(emu, e)
               /\ \/ emu' = e
                  \/ \E f : DOMAIN f \subseteq ClientRegs /\ emu' = Keep(e, f)
                  \/ Started(e, emu')
  BY DirectShape
<1>2. Whole(e) /\ e.reg = emu.reg
  BY <1>1 DEF OperandsStored, BeyondMem, Fields
<1>3. ASSUME NEW f, DOMAIN f \subseteq ClientRegs
      PROVE  Whole(Keep(e, f)) /\ Keep(e, f).reg[r] = e.reg[r]
  <2>1. DOMAIN f \subseteq Registers /\ r \notin DOMAIN f
    BY <1>3 DEF ClientRegs, Registers, Saved, Operands, UnitRegs
  <2> QED
    BY <1>2, <2>1, Kept
<1>4. CASE Started(e, emu')
  <2>1. PICK f : /\ DOMAIN f \subseteq ClientRegs
                 /\ \E v \in {{"NPU_START"}, {"GPU_START"}} : \E c :
                      emu' = WriteStatus(WriteControl(Keep(e, f), v), c)
    BY <1>4 DEF Started
  <2>2. PICK v \in {{"NPU_START"}, {"GPU_START"}} : \E c :
          emu' = WriteStatus(WriteControl(Keep(e, f), v), c)
    BY <2>1
  <2>3. PICK c : emu' = WriteStatus(WriteControl(Keep(e, f), v), c)
    BY <2>2
  <2> DEFINE k == Keep(e, f)
             n == WriteControl(k, v)
  <2>4. Whole(k) /\ k.reg[r] = e.reg[r]
    BY <1>3, <2>1
  <2>5. emu' = WriteStatus(n, c)
    BY <2>3
  <2> HIDE DEF k
  <2>6. Whole(n) /\ n.reg[r] = k.reg[r]
    BY <2>4, ControlRegs
  <2> HIDE DEF n
  <2>7. emu'.reg = n.reg
    BY <2>5, <2>6 DEF WriteStatus, Whole, Fields
  <2> QED
    BY <1>2, <2>4, <2>6, <2>7
<1> QED
  BY <1>1, <1>2, <1>3, <1>4

(* The parts of the invariant.  The buffers the registers name exist,      *)
(* between jobs and during them.                                           *)
BufferRegs == {"UMEM_NPU_INPUT", "UMEM_NPU_WEIGHT", "UMEM_NPU_OUTPUT", "UMEM_GPU_FB"}
CtrlOK == emu.reg["UMEM_CTRL"] \subseteq Ctrl /\ \A r \in BufferRegs : emu.reg[r] \in Bufs
ScreenOK == emu.fb \subseteq Pixels /\ picture \subseteq Pixels
NumbersOK == jobs.next \in 1..MaxJobs+1 /\ jobs.pushed < jobs.next
TagsOK == \A s \in Slots : emu.mem.ring[s].id \in 0..MaxJobs
LoopTyped == drain \in [on : BOOLEAN, safety : 0..Entries, error : BOOLEAN]
HostTyped == host \in [cached_head : Slots, cached_tail : Slots]
TypeInv == CtrlOK /\ ScreenOK /\ NumbersOK /\ TagsOK /\ LoopTyped /\ HostTyped

(* The types hold after reset.                                             *)
LEMMA TypeInit == Init => TypeInv
<1> SUFFICES ASSUME Init PROVE TypeInv
  OBVIOUS
<1>1. /\ emu = emu_init /\ drain = NoDrain /\ picture = {}
      /\ host = [cached_head |-> 0, cached_tail |-> 0]
      /\ jobs = [pushed |-> 0, exposed |-> 0, next |-> 1, processed |-> <<>>, nops |-> 0]
  BY DEF Init
<1>2. Entries \in Nat \ {0} /\ 0 \in Slots /\ MaxJobs \in Nat /\ 1 \in Bufs
  BY EntriesPositive, ClientAssumption, EmuAssumption DEF Slots, Bufs
<1>3. CtrlOK
  <2>1. BufferRegs \cup {"UMEM_CTRL"} \subseteq Registers
    BY DEF BufferRegs, Registers, Saved
  <2>2. emu.reg = ResetRegisters
    BY <1>1 DEF emu_init
  <2>3. emu.reg["UMEM_CTRL"] = {}
    BY <2>1, <2>2 DEF ResetRegisters
  <2>4. \A r \in BufferRegs : emu.reg[r] = 1
    BY <2>1, <2>2 DEF ResetRegisters, BufferRegs
  <2> QED
    BY <1>2, <2>3, <2>4 DEF CtrlOK
<1>4. ScreenOK
  BY <1>1 DEF ScreenOK, emu_init
<1>5. TagsOK
  BY <1>1, <1>2 DEF TagsOK, emu_init, EmptySlot
<1>6. NumbersOK /\ LoopTyped /\ HostTyped
  BY <1>1, <1>2 DEF NumbersOK, LoopTyped, HostTyped, NoDrain
<1> QED
  BY <1>3, <1>4, <1>5, <1>6 DEF TypeInv

(* A write of registers that are not the control and buffer registers.     *)
LEMMA WriteRegs ==
  ASSUME NEW e, Whole(e), NEW f, DOMAIN f \subseteq Registers
  PROVE  /\ Whole(Write(e, f)) /\ Whole(Keep(e, f))
         /\ Write(e, f).mem = e.mem /\ Keep(e, f).mem = e.mem
         /\ \A r \in DOMAIN f : Write(e, f).reg[r] = f[r]
         /\ \A r \in Registers \ DOMAIN f :
              Write(e, f).reg[r] = e.reg[r] /\ Keep(e, f).reg[r] = e.reg[r]
<1> DEFINE k == Keep(e, f)
<1>1. Write(e, f) = k \/ Write(e, f) = emu_cmdq_refresh_status(k, FALSE)
  BY DEF Write
<1>2. /\ Whole(k) /\ k.mem = e.mem /\ \A r \in DOMAIN f : k.reg[r] = f[r]
      /\ \A r \in Registers \ DOMAIN f : k.reg[r] = e.reg[r]
  BY Kept
<1> HIDE DEF k
<1>3. LET n == emu_cmdq_refresh_status(k, FALSE)
      IN  Whole(n) /\ n.reg = k.reg /\ n.mem = k.mem
  BY <1>2 DEF emu_cmdq_refresh_status, Whole, Fields
<1> QED
  BY <1>1, <1>2, <1>3 DEF k

(* Which registers and slots a submission leaves.                          *)
LEMMA SubmitLeaves ==
  ASSUME EmuOK(emu), accel_cmdq_host_submit
  PROVE  /\ \A r \in Registers \ {"CMDQ_HEAD", "CMDQ_DOORBELL"} : emu'.reg[r] = emu.reg[r]
         /\ emu'.mem = emu.mem
         /\ drain' = drain \/ drain' = [on |-> TRUE, error |-> FALSE, safety |-> Entries]
<1> DEFINE h == Set1("CMDQ_HEAD", host.cached_head)
           b(v) == Set1("CMDQ_DOORBELL", v)
           shown == Write(emu, h)
           k(v) == Keep(shown, b(v))
<1>1. PICK v \in Doorbells :
        /\ emu' = BeginProcess(k(v)) \/ emu' = Write(shown, b(v))
        /\ drain' = drain \/ drain' = [on |-> TRUE, error |-> FALSE,
                                       safety |-> entry_count(emu.reg["CMDQ_SIZE"])]
  BY DEF accel_cmdq_host_submit
<1>2. /\ DOMAIN h = {"CMDQ_HEAD"} /\ DOMAIN b(v) = {"CMDQ_DOORBELL"}
      /\ {"CMDQ_HEAD", "CMDQ_DOORBELL"} \subseteq Registers
  BY DEF Set1, Registers, Others
<1> HIDE DEF h, b
<1>3. /\ Whole(shown) /\ shown.mem = emu.mem
      /\ \A r \in Registers \ {"CMDQ_HEAD"} : shown.reg[r] = emu.reg[r]
  BY <1>2, WriteRegs DEF EmuOK
<1> HIDE DEF shown
<1>4. /\ Whole(k(v)) /\ k(v).mem = emu.mem /\ Write(shown, b(v)).mem = emu.mem
      /\ \A r \in Registers \ {"CMDQ_HEAD", "CMDQ_DOORBELL"} :
           k(v).reg[r] = emu.reg[r] /\ Write(shown, b(v)).reg[r] = emu.reg[r]
  BY <1>2, <1>3, WriteRegs
<1> HIDE DEF k
<1>5. BeginProcess(k(v)).reg = k(v).reg /\ BeginProcess(k(v)).mem = k(v).mem
  BY <1>4 DEF BeginProcess, Whole, Fields
<1>6. entry_count(emu.reg["CMDQ_SIZE"]) = Entries
  BY DEF EmuOK, Entries
<1> QED
  BY <1>1, <1>4, <1>5, <1>6

(* What a reset of the queue leaves.                                       *)
LEMMA ResetLeaves ==
  ASSUME EmuOK(emu), accel_cmdq_host_reset
  PROVE  /\ \A r \in Registers \ {"CMDQ_HEAD", "CMDQ_TAIL", "CMDQ_DOORBELL"} :
              emu'.reg[r] = emu.reg[r]
         /\ emu'.mem = [emu.mem EXCEPT !.ring = [s \in Slots |-> EmptySlot]]
<1> DEFINE e == [emu EXCEPT !.mem.ring = [s \in Slots |-> EmptySlot]]
           f == [r \in {"CMDQ_HEAD", "CMDQ_TAIL", "CMDQ_DOORBELL"} |-> 0]
<1>1. emu' = Write(e, f)
  BY DEF accel_cmdq_host_reset
<1>2. /\ Whole(e) /\ e.reg = emu.reg
      /\ e.mem = [emu.mem EXCEPT !.ring = [s \in Slots |-> EmptySlot]]
  BY DEF EmuOK, Whole, Fields, Memories
<1>3. /\ DOMAIN f = {"CMDQ_HEAD", "CMDQ_TAIL", "CMDQ_DOORBELL"} /\ DOMAIN f \subseteq Registers
  BY DEF Registers, Others
<1> HIDE DEF e, f
<1> QED
  BY <1>1, <1>2, <1>3, WriteRegs

(* What a configuration sets.                                              *)
LEMMA ConfigureSets ==
  ASSUME EmuOK(emu), configure_unified_memory
  PROVE  /\ emu'.reg["UMEM_CTRL"] \subseteq Ctrl /\ \A r \in BufferRegs : emu'.reg[r] = 1
         /\ emu'.mem = emu.mem
         /\ \A r \in Registers \ (BufferRegs \cup {"UMEM_CTRL", "CMDQ_SIZE", "CMDQ_HEAD",
                "CMDQ_TAIL", "CMDQ_DOORBELL"}) : emu'.reg[r] = emu.reg[r]
<1> DEFINE R == {"UMEM_CTRL", "CMDQ_SIZE", "CMDQ_HEAD", "CMDQ_TAIL", "CMDQ_DOORBELL",
                 "UMEM_NPU_INPUT", "UMEM_NPU_WEIGHT", "UMEM_NPU_OUTPUT", "UMEM_GPU_FB"}
           f(bits) == [r \in R |->
                CASE r = "UMEM_CTRL" -> bits
                  [] r = "CMDQ_SIZE" -> CmdqBytes
                  [] r \in {"CMDQ_HEAD", "CMDQ_TAIL", "CMDQ_DOORBELL"} -> 0
                  [] OTHER -> 1]
<1>1. PICK bits \in {{"ENABLE", "NPU_USE_BUF", "GPU_USE_BUF"}, Ctrl,
                     {"ENABLE", "CMDQ_ENABLE"}} : emu' = Write(emu, f(bits))
  BY DEF configure_unified_memory
<1>2. bits \subseteq Ctrl
  BY DEF Ctrl
<1>3. /\ DOMAIN f(bits) = R /\ R \subseteq Registers /\ f(bits)["UMEM_CTRL"] = bits
      /\ \A r \in BufferRegs : r \in R /\ f(bits)[r] = 1
  BY DEF Registers, Others, Saved, BufferRegs
<1>4. R = BufferRegs \cup {"UMEM_CTRL", "CMDQ_SIZE", "CMDQ_HEAD", "CMDQ_TAIL", "CMDQ_DOORBELL"}
  BY DEF BufferRegs
<1> HIDE DEF f
<1>5. /\ \A r \in R : emu'.reg[r] = f(bits)[r]
      /\ \A r \in Registers \ R : emu'.reg[r] = emu.reg[r]
      /\ emu'.mem = emu.mem
  BY <1>1, <1>3, WriteRegs DEF EmuOK
<1>6. "UMEM_CTRL" \in R
  OBVIOUS
<1> QED
  BY <1>2, <1>3, <1>4, <1>5, <1>6

(* What a push changes.                                                    *)
LEMMA PushChanges ==
  ASSUME EmuOK(emu), accel_cmdq_host_push
  PROVE  \E d \in Descs :
           /\ emu'.reg = emu.reg
           /\ emu'.mem = [emu.mem EXCEPT !.ring[host.cached_head] =
                 [id |-> jobs.pushed + 1, desc |-> d, done |-> FALSE, error |-> FALSE]]
<1>1. PICK d \in Descs :
        emu' = [emu EXCEPT !.mem.ring[host.cached_head] =
                  [id |-> jobs.pushed + 1, desc |-> d, done |-> FALSE, error |-> FALSE]]
  BY DEF accel_cmdq_host_push
<1> QED
  BY <1>1 DEF EmuOK, Whole, Fields, Memories

(* The control and buffer registers are the configuration's.               *)
LEMMA CtrlKept == QueueInv /\ CtrlOK /\ [Next]_vars => CtrlOK'
<1> SUFFICES ASSUME QueueInv, CtrlOK, [Next]_vars PROVE CtrlOK'
  OBVIOUS
<1> DEFINE R == BufferRegs \cup {"UMEM_CTRL"}
<1>0. /\ EmuOK(emu) /\ Whole(emu)
      /\ R \subseteq Registers \ UnitRegs /\ R \subseteq Registers \ (Operands \cup {"CMDQ_TAIL"})
      /\ R \cap {"CMDQ_HEAD", "CMDQ_TAIL", "CMDQ_DOORBELL"} = {}
  BY DEF QueueInv, EmuOK, BufferRegs, UnitRegs, ClientRegs, Registers, Saved, Operands
<1>1. ASSUME \A r \in R : emu'.reg[r] = emu.reg[r] PROVE CtrlOK'
  BY <1>1 DEF CtrlOK
<1> HIDE DEF R
<1>2. CASE DirectCall
  BY <1>0, <1>1, <1>2, DirectRegs
<1>3. CASE accel_cmdq_host_push
  BY <1>0, <1>1, <1>3, PushChanges
<1>4. CASE accel_cmdq_host_submit
  BY <1>0, <1>1, <1>4, SubmitLeaves
<1>5. CASE accel_cmdq_host_reset
  BY <1>0, <1>1, <1>5, ResetLeaves
<1>6. CASE configure_unified_memory
  <2>1. 1 \in Bufs
    BY EmuAssumption DEF Bufs
  <2> QED
    BY <1>0, <1>6, <2>1, ConfigureSets DEF CtrlOK
<1>7. CASE ProcessDescriptor
  <2>1. emu' = ProcessOne(emu)
    BY <1>7 DEF ProcessDescriptor
  <2>2. \A r \in Registers \ (Operands \cup {"CMDQ_TAIL"}) : emu'.reg[r] = emu.reg[r]
    BY <1>0, <2>1, TurnPaints
  <2> QED
    BY <1>0, <1>1, <2>2
<1>8. CASE FinishProcess
  <2>1. emu'.reg = emu.reg
    BY <1>0, <1>8 DEF FinishProcess, EndProcess, emu_cmdq_refresh_status, Whole, Fields
  <2> QED
    BY <1>1, <2>1
<1>9. CASE UNCHANGED emu
  BY <1>1, <1>9
<1> QED
  BY <1>2, <1>3, <1>4, <1>5, <1>6, <1>7, <1>8, <1>9
  DEF Next, Library, Process, Client, DirectCall, accel_cmdq_host_sync, vars

(* No pixel is set off the screen.                                         *)
LEMMA ScreenKept == EInv /\ ScreenOK /\ [Next]_vars => ScreenOK'
<1> SUFFICES ASSUME EInv, ScreenOK, [Next]_vars PROVE ScreenOK'
  OBVIOUS
<1>0. /\ emu.fb \subseteq Pixels /\ picture \subseteq Pixels
      /\ \A t : Triangle(t) \subseteq Pixels
  BY DEF ScreenOK, Triangle
<1>1. CASE ProcessDescriptor
  <2> DEFINE d == emu.mem.ring[emu'.last.slot].desc
             b == emu.mem.ring[emu.reg["CMDQ_TAIL"] % Entries].desc
  <2>1. emu' = ProcessOne(emu) /\ (picture' = picture \/ picture' = Paint(d))
    BY <1>1 DEF ProcessDescriptor
  <2>2. emu'.fb = Painted(emu.fb, b)
    BY <2>1, TurnPaints DEF EInv
  <2> HIDE DEF b, d
  <2>3. Painted(emu.fb, b) \subseteq Pixels
    BY <1>0 DEF Painted, GPU_CLEAR, GPU_DRAW_TRI
  <2>4. Paint(d) \subseteq Pixels
    BY <1>0 DEF Paint, GPU_CLEAR, GPU_DRAW_TRI
  <2> QED
    BY <1>0, <2>1, <2>2, <2>3, <2>4 DEF ScreenOK
<1>2. CASE FinishProcess
  <2>1. emu'.fb = emu.fb
    BY <1>2 DEF FinishProcess, EndProcess, emu_cmdq_refresh_status, EInv, EmuOK, Whole, Fields
  <2> QED
    BY <1>0, <1>2, <2>1 DEF ScreenOK, FinishProcess, history
<1>3. CASE UNCHANGED <<emu, picture>>
  BY <1>0, <1>3 DEF ScreenOK
<1>4. ASSUME emu'.fb = picture', picture' \subseteq Pixels PROVE ScreenOK'
  BY <1>4 DEF ScreenOK
<1>5. CASE accel_cmdq_host_push
  BY <1>0, <1>4, <1>5, PushKeeps DEF accel_cmdq_host_push, history
<1>6. CASE accel_cmdq_host_submit
  BY <1>0, <1>4, <1>6, SubmitKeeps DEF accel_cmdq_host_submit, history
<1>7. CASE accel_cmdq_host_reset
  BY <1>0, <1>4, <1>7, ResetKeeps DEF accel_cmdq_host_reset, history
<1>8. CASE run_npu_sample
  BY <1>0, <1>4, <1>8, SampleKeeps DEF run_npu_sample
<1>9. CASE run_unified_npu
  BY <1>0, <1>4, <1>9, UnifiedKeeps DEF run_unified_npu
<1>10. CASE write_runtime_model
  BY <1>0, <1>4, <1>10, ModelKeeps DEF write_runtime_model
<1>11. CASE write_umem_operands
  BY <1>0, <1>4, <1>11, OperandsKeep DEF write_umem_operands, history
<1>12. CASE configure_unified_memory
  BY <1>0, <1>4, <1>12, ConfigureKeeps DEF configure_unified_memory, history
<1>13. CASE gpu_clear
  <2>1. picture' = {}
    BY <1>13 DEF gpu_clear
  <2> QED
    BY <1>4, <1>13, <2>1, ClearKeeps
<1>14. CASE gpu_draw
  <2>1. PICK t \in Triangles : picture' = picture \cup Triangle(t)
    BY <1>14 DEF gpu_draw
  <2> QED
    BY <1>0, <1>4, <1>14, <2>1, DrawKeeps
<1> QED
  BY <1>1, <1>2, <1>3, <1>5, <1>6, <1>7, <1>8, <1>9, <1>10, <1>11, <1>12, <1>13, <1>14
  DEF Next, Library, Process, Client, accel_cmdq_host_sync, history, vars

(* The numbers of jobs stay within the bound.                              *)
LEMMA NumbersKept == QueueInv /\ NumbersOK /\ [Next]_vars => NumbersOK'
<1> SUFFICES ASSUME QueueInv, NumbersOK, [Next]_vars PROVE NumbersOK'
  OBVIOUS
<1>0. /\ DOMAIN jobs = {"pushed", "exposed", "next", "processed", "nops"}
      /\ jobs.pushed \in Nat /\ jobs.exposed \in Nat /\ jobs.exposed <= jobs.pushed
      /\ jobs.next \in 1..MaxJobs+1 /\ jobs.pushed < jobs.next /\ MaxJobs \in Nat
  BY ClientAssumption DEF QueueInv, QueueOK, JobsOK, NumbersOK, Submitted, Pushed, Done
<1>1. CASE accel_cmdq_host_push
  <2>1. /\ jobs'.next = jobs.next + 1 /\ jobs'.pushed = jobs.pushed + 1
        /\ jobs.next <= MaxJobs
    BY <1>0, <1>1 DEF accel_cmdq_host_push
  <2> QED
    BY <1>0, <2>1 DEF NumbersOK
<1>2. CASE accel_cmdq_host_submit
  BY <1>0, <1>2 DEF accel_cmdq_host_submit, NumbersOK
<1>3. ASSUME jobs' = [jobs EXCEPT !.pushed = jobs.exposed] PROVE NumbersOK'
  <2>1. jobs'.next = jobs.next /\ jobs'.pushed = jobs.exposed
    BY <1>0, <1>3
  <2> QED
    BY <1>0, <2>1 DEF NumbersOK
<1>4. CASE ProcessDescriptor
  <2>1. jobs'.next = jobs.next /\ jobs'.pushed = jobs.pushed
    BY <1>0, <1>4 DEF ProcessDescriptor
  <2> QED
    BY <1>0, <2>1 DEF NumbersOK
<1>5. CASE UNCHANGED jobs
  BY <1>0, <1>5 DEF NumbersOK
<1> QED
  BY <1>1, <1>2, <1>3, <1>4, <1>5 DEF Next, Library, Process, Client, FinishProcess,
     accel_cmdq_host_sync, accel_cmdq_host_reset, configure_unified_memory, run_npu_sample,
     run_unified_npu, write_runtime_model, write_umem_operands, gpu_clear, gpu_draw, vars

(* The numbers in the ring are those of jobs.                              *)
LEMMA TagsKept == QueueInv /\ NumbersOK /\ TagsOK /\ [Next]_vars => TagsOK'
<1> SUFFICES ASSUME QueueInv, NumbersOK, TagsOK, [Next]_vars PROVE TagsOK'
  OBVIOUS
<1>0. /\ EmuOK(emu) /\ Whole(emu) /\ DOMAIN emu.mem.ring = Slots /\ MaxJobs \in Nat
  BY ClientAssumption DEF QueueInv, EmuOK, RingOK
<1>1. ASSUME emu'.mem.ring = emu.mem.ring PROVE TagsOK'
  BY <1>1 DEF TagsOK
<1>2. CASE DirectCall
  BY <1>1, <1>2, DirectFrame DEF DirectCall, Frame
<1>3. CASE accel_cmdq_host_push
  <2>1. PICK d \in Descs :
          emu'.mem = [emu.mem EXCEPT !.ring[host.cached_head] =
             [id |-> jobs.pushed + 1, desc |-> d, done |-> FALSE, error |-> FALSE]]
    BY <1>0, <1>3, PushChanges
  <2>2. emu'.mem.ring = [emu.mem.ring EXCEPT ![host.cached_head] =
             [id |-> jobs.pushed + 1, desc |-> d, done |-> FALSE, error |-> FALSE]]
    BY <1>0, <2>1 DEF Whole, Memories
  <2>3. jobs.pushed + 1 \in 0..MaxJobs
    BY <1>0, <1>3 DEF accel_cmdq_host_push, NumbersOK, QueueInv, QueueOK, JobsOK
  <2> QED
    BY <1>0, <2>2, <2>3 DEF TagsOK
<1>4. CASE accel_cmdq_host_submit
  BY <1>0, <1>1, <1>4, SubmitLeaves
<1>5. CASE accel_cmdq_host_reset
  <2>1. emu'.mem.ring = [s \in Slots |-> EmptySlot]
    BY <1>0, <1>5, ResetLeaves DEF Whole, Memories
  <2> QED
    BY <1>0, <2>1 DEF TagsOK, EmptySlot
<1>6. CASE configure_unified_memory
  BY <1>0, <1>1, <1>6, ConfigureSets
<1>7. CASE ProcessDescriptor
  <2>1. emu' = ProcessOne(emu)
    BY <1>7 DEF ProcessDescriptor
  <2>2. \A s \in Slots : emu'.mem.ring[s].id = emu.mem.ring[s].id
    BY <1>0, <2>1, TurnPaints
  <2> QED
    BY <2>2 DEF TagsOK
<1>8. CASE FinishProcess
  <2>1. emu'.mem = emu.mem
    BY <1>0, <1>8 DEF FinishProcess, EndProcess, emu_cmdq_refresh_status, Whole, Fields
  <2> QED
    BY <1>1, <2>1
<1>9. CASE UNCHANGED emu
  BY <1>1, <1>9
<1> QED
  BY <1>2, <1>3, <1>4, <1>5, <1>6, <1>7, <1>8, <1>9
  DEF Next, Library, Process, Client, DirectCall, accel_cmdq_host_sync, vars

(* The count of the loop.                                                  *)
LEMMA LoopKept == QueueInv /\ LoopTyped /\ [Next]_vars => LoopTyped'
<1> SUFFICES ASSUME QueueInv, LoopTyped, [Next]_vars PROVE LoopTyped'
  OBVIOUS
<1>0. Entries \in Nat \ {0} /\ EmuOK(emu)
  BY EntriesPositive DEF QueueInv
<1>a. /\ drain.on \in BOOLEAN /\ drain.safety \in 0..Entries /\ drain.error \in BOOLEAN
      /\ drain = [on |-> drain.on, safety |-> drain.safety, error |-> drain.error]
  BY DEF LoopTyped
<1>1. CASE accel_cmdq_host_submit
  <2>1. drain' = drain \/ drain' = [on |-> TRUE, error |-> FALSE, safety |-> Entries]
    BY <1>0, <1>1, SubmitLeaves
  <2>2. Entries \in 0..Entries
    BY <1>0
  <2>3. [on |-> TRUE, error |-> FALSE, safety |-> Entries]
          \in [on : BOOLEAN, safety : 0..Entries, error : BOOLEAN]
    BY <2>2
  <2> QED
    BY <2>1, <2>3 DEF LoopTyped
<1>2. CASE ProcessDescriptor
  <2> DEFINE b == drain.error \/ ~IsKnown(emu.mem.ring[emu'.last.slot].desc.opcode)
  <2>1. drain' = [drain EXCEPT !.safety = @ - 1, !.error = b]
    BY <1>2, Zenon DEF ProcessDescriptor
  <2>2. b \in BOOLEAN
    OBVIOUS
  <2>3. drain.safety - 1 \in 0..Entries
    BY <1>0, <1>2, <1>a DEF ProcessDescriptor, More
  <2> HIDE DEF b
  <2>4. drain' = [on |-> drain.on, safety |-> drain.safety - 1, error |-> b]
    BY <1>a, <2>1
  <2> QED
    BY <1>a, <2>2, <2>3, <2>4 DEF LoopTyped
<1>3. CASE FinishProcess
  <2>1. drain' = [on |-> FALSE, safety |-> 0, error |-> drain.error]
    BY <1>3 DEF FinishProcess, NoDrain
  <2> QED
    BY <1>0, <1>a, <2>1 DEF LoopTyped
<1>4. CASE UNCHANGED drain
  BY <1>4 DEF LoopTyped
<1> QED
  BY <1>1, <1>2, <1>3, <1>4 DEF Next, Library, Process, Client, Direct, accel_cmdq_host_push,
     accel_cmdq_host_sync, accel_cmdq_host_reset, configure_unified_memory, run_npu_sample,
     run_unified_npu, write_runtime_model, write_umem_operands, gpu_clear, gpu_draw, vars

(* The library's copies of HEAD and TAIL.                                  *)
LEMMA HostKept == QueueInv /\ HostTyped /\ [Next]_vars => HostTyped'
<1> SUFFICES ASSUME QueueInv, HostTyped, [Next]_vars PROVE HostTyped'
  OBVIOUS
<1>0. /\ Entries \in Nat \ {0} /\ 0 \in Slots
      /\ emu.reg["CMDQ_HEAD"] \in Slots /\ emu.reg["CMDQ_TAIL"] \in Slots
  BY EntriesPositive DEF QueueInv, QueueOK, HeadsOK, Slots
<1>1. CASE accel_cmdq_host_push
  <2>1. (host.cached_head + 1) % Entries \in Slots
    BY <1>0 DEF HostTyped, Slots
  <2> QED
    BY <1>1, <2>1 DEF accel_cmdq_host_push, HostTyped
<1>2. CASE accel_cmdq_host_sync
  BY <1>0, <1>2 DEF accel_cmdq_host_sync, HostTyped
<1>3. ASSUME host' = [cached_head |-> 0, cached_tail |-> 0] PROVE HostTyped'
  BY <1>0, <1>3 DEF HostTyped
<1>4. CASE UNCHANGED host
  BY <1>4 DEF HostTyped
<1> QED
  BY <1>1, <1>2, <1>3, <1>4 DEF Next, Library, Process, Client, Direct, ProcessDescriptor,
     FinishProcess, accel_cmdq_host_submit, accel_cmdq_host_reset, configure_unified_memory,
     run_npu_sample, run_unified_npu, write_runtime_model, write_umem_operands, gpu_clear,
     gpu_draw, vars

(* Every step keeps the types.                                             *)
LEMMA NextTyped == QueueInv /\ EInv /\ TypeInv /\ [Next]_vars => TypeInv'
  BY CtrlKept, ScreenKept, NumbersKept, TagsKept, LoopKept, HostKept DEF TypeInv

(* The emulator, the loop and the library's copies are of their types, for *)
(* every ring, descriptor and call: in particular no queued job leaves its *)
(* control bits behind, no pixel is drawn off the screen and HEAD and TAIL *)
(* stay on the ring (accel_mmio_demo.c:184-193, 353-427, 429-554).         *)
THEOREM EmuTyped == Spec => []EmuTypeOK
<1>1. QueueInv /\ CountInv /\ TypeInv => EmuTypeOK
  <2> SUFFICES ASSUME QueueInv, CountInv, TypeInv PROVE EmuTypeOK
    OBVIOUS
  <2>1. /\ DOMAIN emu.reg = Registers /\ emu.reg["CMDQ_SIZE"] = CmdqBytes
        /\ emu.reg["CMDQ_HEAD"] \in Slots /\ emu.reg["CMDQ_TAIL"] \in Slots
        /\ jobs.exposed <= jobs.pushed
    BY DEF QueueInv, QueueOK, EmuOK, Whole, HeadsOK, JobsOK, Submitted, Pushed, Done
  <2>2. emu.processed \in 0..MaxJobs
    <3>1. /\ Done \in Nat /\ jobs.exposed \in Nat /\ jobs.pushed \in Nat
          /\ Done <= jobs.exposed /\ emu.processed = Done
      BY DEF QueueInv, QueueOK, JobsOK, Submitted, Pushed, Done, CountInv, Tallied
    <3>2. jobs.next \in 1..MaxJobs+1 /\ jobs.pushed < jobs.next /\ MaxJobs \in Nat
      BY ClientAssumption DEF TypeInv, NumbersOK
    <3> QED
      BY <2>1, <3>1, <3>2
  <2> QED
    BY <2>1, <2>2 DEF EmuTypeOK, TypeInv, CtrlOK, ScreenOK, TagsOK, LoopTyped, HostTyped
<1> QED
  BY <1>1, InitInvariant, NextInvariant, QueueInit, NextQueued, CountInit, NextCounts,
     TypeInit, NextTyped, PTL DEF Spec
-----------------------------------------------------------------------------
(* The arithmetic.                                                         *)

(* The two readings of a signed byte agree.                                *)
LEMMA SignedByte == ASSUME NEW b \in Bytes PROVE Signed(b) = unpack_i8(b) /\ unpack_i8(b) \in Int
<1>1. CASE b < 128
  <2>1. b + 128 \in 0..255
    BY <1>1 DEF Bytes
  <2>2. (b + 128) % 256 = b + 128
    BY <2>1
  <2> QED
    BY <1>1, <2>2 DEF Signed, unpack_i8, Bytes
<1>2. CASE b >= 128
  <2>1. (b + 128) % 256 = b - 128
    BY <1>2 DEF Bytes
  <2> QED
    BY <1>2, <2>1 DEF Signed, unpack_i8, Bytes
<1> QED
  BY <1>1, <1>2 DEF Bytes

(* A row of the matrix is the two dot products of four lanes.              *)
LEMMA RowIsDots ==
  ASSUME NEW a \in Lanes, NEW b \in Lanes, NEW x \in Lanes, NEW y \in Lanes
  PROVE  Row(a, b, x, y) = dot4_i8(x, a) + dot4_i8(y, b) /\ Row(a, b, x, y) \in Int
<1> DEFINE l(i) == Signed(a[i]) * Signed(x[i])
           r(i) == Signed(b[i]) * Signed(y[i])
           F(g) == [i \in 0..4 |-> IF i = 0 THEN 0 ELSE g[i-1]
                      + Signed(a[i]) * Signed(x[i]) + Signed(b[i]) * Signed(y[i])]
           p == CHOOSE g : g = F(g)
           s1 == l(1) + r(1)
           s2 == s1 + l(2) + r(2)
           s3 == s2 + l(3) + r(3)
           s4 == s3 + l(4) + r(4)
           w == [i \in 0..4 |-> CASE i = 0 -> 0 [] i = 1 -> s1 [] i = 2 -> s2
                                  [] i = 3 -> s3 [] OTHER -> s4]
<1>1. Row(a, b, x, y) = p[4]
  BY DEF Row
<1>2. \A i \in 1..4 : /\ Signed(a[i]) = unpack_i8(a[i]) /\ Signed(b[i]) = unpack_i8(b[i])
                       /\ Signed(x[i]) = unpack_i8(x[i]) /\ Signed(y[i]) = unpack_i8(y[i])
                       /\ unpack_i8(a[i]) \in Int /\ unpack_i8(b[i]) \in Int
                       /\ unpack_i8(x[i]) \in Int /\ unpack_i8(y[i]) \in Int
  BY SignedByte DEF Lanes
<1>3. \A i \in 1..4 : /\ l(i) = unpack_i8(x[i]) * unpack_i8(a[i]) /\ l(i) \in Int
                       /\ r(i) = unpack_i8(y[i]) * unpack_i8(b[i]) /\ r(i) \in Int
  <2>1. ASSUME NEW m \in Int, NEW n \in Int PROVE m * n = n * m /\ m * n \in Int
    OBVIOUS
  <2> QED
    BY <1>2, <2>1
<1>4. \A g : F(g) = [i \in 0..4 |-> IF i = 0 THEN 0 ELSE g[i-1] + l(i) + r(i)]
  OBVIOUS
<1>5. dot4_i8(x, a) = l(1) + l(2) + l(3) + l(4) /\ dot4_i8(y, b) = r(1) + r(2) + r(3) + r(4)
  BY <1>3 DEF dot4_i8
<1> HIDE DEF l, r, F
<1>6. w = F(w)
  <2>1. w[0] = 0 /\ w[1] = s1 /\ w[2] = s2 /\ w[3] = s3 /\ w[4] = s4
    OBVIOUS
  <2>a. /\ w[0] = 0 /\ w[1] = w[0] + l(1) + r(1) /\ w[2] = w[1] + l(2) + r(2)
        /\ w[3] = w[2] + l(3) + r(3) /\ w[4] = w[3] + l(4) + r(4)
    BY <1>3, <2>1
  <2> HIDE DEF w
  <2>2. \A i \in 0..4 : w[i] = IF i = 0 THEN 0 ELSE w[i-1] + l(i) + r(i)
    <3> SUFFICES ASSUME NEW i \in 0..4 PROVE w[i] = IF i = 0 THEN 0 ELSE w[i-1] + l(i) + r(i)
      OBVIOUS
    <3>1. i = 0 \/ i = 1 \/ i = 2 \/ i = 3 \/ i = 4
      OBVIOUS
    <3> QED
      BY <2>a, <3>1
  <2>3. w = [i \in 0..4 |-> IF i = 0 THEN 0 ELSE w[i-1] + l(i) + r(i)]
    BY <2>2 DEF w
  <2> QED
    BY <1>4, <2>3
<1>7. p = F(p)
  BY <1>6
<1>8. p = [i \in 0..4 |-> IF i = 0 THEN 0 ELSE p[i-1] + l(i) + r(i)]
  BY <1>4, <1>7
<1> HIDE DEF p
<1>9. p[4] = 0 + l(1) + r(1) + l(2) + r(2) + l(3) + r(3) + l(4) + r(4)
  <2>1. \A i \in 0..4 : p[i] = IF i = 0 THEN 0 ELSE p[i-1] + l(i) + r(i)
    BY <1>8
  <2>2. p[0] = 0 /\ p[1] = p[0] + l(1) + r(1) /\ p[2] = p[1] + l(2) + r(2)
        /\ p[3] = p[2] + l(3) + r(3) /\ p[4] = p[3] + l(4) + r(4)
    BY <2>1
  <2> QED
    BY <2>2
<1> QED
  BY <1>1, <1>3, <1>5, <1>9

(* The built-in weights.                                                   *)
LEMMA BiasesAreInts == Biases \subseteq Int /\ 0 \in Biases /\ 2 \in Biases /\ -2 \in Biases
<1>1. BiasLimit \in Int /\ BiasLimit > 2
  BY SMT DEF BiasLimit
<1> QED
  BY <1>1 DEF Biases

(* The weights of every model are a set of weights.                        *)
LEMMA BuiltIn == ASSUME NEW m, NEW w, FromRegisters(m) => w \in RuntimeWeights
                 PROVE  select_npu_weights(m, w) \in RuntimeWeights
<1>1. Ones \in Lanes /\ MinusOnes \in Lanes
  BY DEF Ones, MinusOnes, Lanes, Bytes
<1> QED
  BY <1>1, BiasesAreInts DEF select_npu_weights, Weights, RuntimeWeights

(* The emulator computes the inference.                                    *)
LEMMA InferRight ==
  ASSUME NEW m, NEW s, NEW x \in Lanes, NEW y \in Lanes, NEW rt,
         FromRegisters(m) => rt \in RuntimeWeights
  PROVE  IsInference(Infer(m, s, x, y, rt), m, s, x, y, select_npu_weights(m, rt))
<1> DEFINE w == select_npu_weights(m, rt)
           y0 == Row(w.a0, w.b0, x, y) + w.bias0
           y1 == Row(w.a1, w.b1, x, y) + w.bias1
           n == Infer(m, s, x, y, rt)
<1>1. w \in RuntimeWeights
  BY BuiltIn
<1> HIDE DEF w
<1>2. /\ w.a0 \in Lanes /\ w.b0 \in Lanes /\ w.a1 \in Lanes /\ w.b1 \in Lanes
      /\ w.bias0 \in Int /\ w.bias1 \in Int
  BY <1>1, BiasesAreInts DEF RuntimeWeights
<1>3. /\ Row(w.a0, w.b0, x, y) = dot4_i8(x, w.a0) + dot4_i8(y, w.b0)
      /\ Row(w.a1, w.b1, x, y) = dot4_i8(x, w.a1) + dot4_i8(y, w.b1)
      /\ Row(w.a0, w.b0, x, y) \in Int /\ Row(w.a1, w.b1, x, y) \in Int
  BY <1>2, RowIsDots
<1>4. y0 \in Int /\ y1 \in Int
  BY <1>2, <1>3
<1>5. n = LET h0 == IF m = RUNTIME_MLP THEN Relu(y0) ELSE y0
              h1 == IF m = RUNTIME_MLP THEN Relu(y1) ELSE y1
              l0 == IF m = RUNTIME_MLP THEN h0 - h1 ELSE y0
              l1 == IF m = RUNTIME_MLP THEN h1 - h0 ELSE y1
          IN  [model |-> m, seq |-> s % 256, hidden0 |-> h0, hidden1 |-> h1,
               logit0 |-> l0, logit1 |-> l1, class |-> IF l1 > l0 THEN 1 ELSE 0]
  BY <1>3 DEF Infer, w
<1> HIDE DEF y0, y1, n
<1>6. Relu(y0) = (IF y0 < 0 THEN 0 ELSE y0) /\ Relu(y1) = (IF y1 < 0 THEN 0 ELSE y1)
  BY <1>4 DEF Relu
<1>7. /\ n.model = m /\ n.seq = s % 256
      /\ IF m = RUNTIME_MLP
         THEN <<n.hidden0, n.hidden1, n.logit0, n.logit1>>
              = <<Relu(y0), Relu(y1), Relu(y0) - Relu(y1), Relu(y1) - Relu(y0)>>
         ELSE <<n.hidden0, n.hidden1, n.logit0, n.logit1>> = <<y0, y1, y0, y1>>
      /\ n.class = 1 <=> n.logit1 > n.logit0
  BY <1>5
<1> QED
  BY <1>6, <1>7 DEF IsInference, y0, y1, n, w

-----------------------------------------------------------------------------
(* What a queued job leaves in memory.                                     *)

(* The buffers that jobs write stay buffers, and those they read hold      *)
(* operands, which only clients write.                                     *)
OperandsOK(e) ==
  \A b \in Bufs : e.mem.in[b] \in Lanes \X Lanes /\ e.mem.w[b] \in RuntimeWeights
MemOK(e) ==
  /\ DOMAIN e.mem.fb = Bufs /\ DOMAIN e.mem.out = Bufs /\ DOMAIN e.mem.in = Bufs
  /\ DOMAIN e.mem.w = Bufs /\ OperandsOK(e)
SameBuffers(e, n) ==
  /\ n.mem.in = e.mem.in /\ n.mem.w = e.mem.w
  /\ DOMAIN n.mem.fb = DOMAIN e.mem.fb /\ DOMAIN n.mem.out = DOMAIN e.mem.out

(* The copy of the framebuffer, when it does not end the process.          *)
LEMMA SyncStores ==
  ASSUME NEW e, Whole(e), MemOK(e), UsesBuffer(e, "GPU_USE_BUF"), ~Sync(e).exited
  PROVE  /\ Whole(Sync(e)) /\ Sync(e).fb = e.fb
         /\ Sync(e).mem.fb[e.reg["UMEM_GPU_FB"]] = e.fb
<1>1. e.reg["UMEM_GPU_FB"] \in Bufs
  BY DEF Sync, Exit, Whole, Fields
<1>2. Sync(e) = [e EXCEPT !.mem.fb[e.reg["UMEM_GPU_FB"]] = e.fb]
  BY <1>1 DEF Sync
<1> QED
  BY <1>1, <1>2 DEF Whole, Fields, Memories, MemOK

(* A clear and a draw that use the buffer.                                 *)
LEMMA GpuStores ==
  ASSUME NEW e, Whole(e), MemOK(e), UsesBuffer(e, "GPU_USE_BUF"),
         NEW n, n = emu_run_gpu_clear(e) \/ n = emu_run_gpu_draw(e), ~n.exited
  PROVE  n.mem.fb[e.reg["UMEM_GPU_FB"]] = n.fb
<1>1. ASSUME NEW p, NEW g, n = Sync([e EXCEPT !.fb = p, !.gpu = g, !.gpu_done = TRUE])
      PROVE  n.mem.fb[e.reg["UMEM_GPU_FB"]] = n.fb
  <2> DEFINE c == [e EXCEPT !.fb = p, !.gpu = g, !.gpu_done = TRUE]
  <2>1. Whole(c) /\ c.mem = e.mem /\ c.reg = e.reg
    BY DEF Whole, Fields
  <2>2. n = Sync(c)
    BY <1>1
  <2> HIDE DEF c
  <2>3. MemOK(c) /\ UsesBuffer(c, "GPU_USE_BUF")
    BY <2>1 DEF MemOK, OperandsOK, UsesBuffer
  <2> QED
    BY <2>1, <2>2, <2>3, SyncStores
<1> QED
  BY <1>1 DEF emu_run_gpu_clear, emu_run_gpu_draw

(* A queued clear or draw.                                                 *)
LEMMA GpuJobStores ==
  ASSUME NEW e, Whole(e), MemOK(e), NEW d, d.opcode \in {GPU_CLEAR, GPU_DRAW_TRI},
         ~execute_desc(e, d).exited
  PROVE  execute_desc(e, d).mem.fb[TargetFb(e, d)] = execute_desc(e, d).fb
<1> DEFINE ran == CASE d.opcode = NPU_INFER -> RunNpuJob(e, d)
                    [] d.opcode = GPU_CLEAR -> RunClearJob(e, d)
                    [] d.opcode = GPU_DRAW_TRI -> RunDrawJob(e, d)
                    [] d.opcode = NOP -> e
                    [] OTHER -> [e EXCEPT !.error_count = @ + 1]
           put == Restore(ran, e)
           t == TargetFb(e, d)
           Stores(f) == /\ DOMAIN f \subseteq Registers
                        /\ f["UMEM_CTRL"] = e.reg["UMEM_CTRL"] \cup {"ENABLE", "GPU_USE_BUF"}
                        /\ f["UMEM_GPU_FB"] = t
                        /\ {"UMEM_CTRL", "UMEM_GPU_FB"} \subseteq DOMAIN f
<1> USE DEF NOP, NPU_INFER, GPU_CLEAR, GPU_DRAW_TRI
<1>1. ASSUME NEW f, Stores(f), NEW n,
             n = emu_run_gpu_clear(Keep(e, f)) \/ n = emu_run_gpu_draw(Keep(e, f)),
             ran = [n EXCEPT !.gpu_count = @ + 1]
      PROVE  Whole(ran) /\ (~ran.exited => ran.mem.fb[t] = ran.fb)
  <2> DEFINE k == Keep(e, f)
  <2>1. /\ Whole(k) /\ k.mem = e.mem /\ k.reg["UMEM_GPU_FB"] = t
        /\ k.reg["UMEM_CTRL"] = e.reg["UMEM_CTRL"] \cup {"ENABLE", "GPU_USE_BUF"}
    BY <1>1, Kept
  <2>2. n = emu_run_gpu_clear(k) \/ n = emu_run_gpu_draw(k)
    BY <1>1
  <2> HIDE DEF k
  <2>3. MemOK(k) /\ UsesBuffer(k, "GPU_USE_BUF")
    BY <2>1 DEF MemOK, OperandsOK, UsesBuffer
  <2>4. ~n.exited => n.mem.fb[t] = n.fb
    BY <2>1, <2>2, <2>3, GpuStores
  <2>5. Leaves(k, n)
    BY <2>1, <2>2, ClearPaints, DrawPaints
  <2>6. ran = [n EXCEPT !.gpu_count = @ + 1]
    BY <1>1
  <2> HIDE DEF ran
  <2>7. Whole(ran) /\ ran.mem = n.mem /\ ran.fb = n.fb /\ ran.exited = n.exited
    BY <2>5, <2>6 DEF Leaves, Whole, Fields
  <2> QED
    BY <2>4, <2>7
<1>2. Whole(ran) /\ (~ran.exited => ran.mem.fb[t] = ran.fb)
  <2>1. CASE d.opcode = GPU_CLEAR
    <3> DEFINE f == [r \in {"UMEM_CTRL", "UMEM_GPU_FB", "GPU_CMD", "GPU_CLEAR_VALUE"} |->
                   CASE r = "UMEM_CTRL" -> e.reg[r] \cup {"ENABLE", "GPU_USE_BUF"}
                     [] r = "UMEM_GPU_FB" -> TargetFb(e, d)
                     [] r = "GPU_CMD" -> CLEAR
                     [] r = "GPU_CLEAR_VALUE" -> d.arg0 % 256]
    <3>1. Stores(f)
      BY DEF Saved, Registers
    <3>2. RunClearJob(e, d) = [emu_run_gpu_clear(Keep(e, f)) EXCEPT !.gpu_count = @ + 1]
      BY DEF RunClearJob
    <3>3. ran = RunClearJob(e, d)
      BY <2>1
    <3> HIDE DEF f, ran, Stores
    <3>4. ran = [emu_run_gpu_clear(Keep(e, f)) EXCEPT !.gpu_count = @ + 1]
      BY <3>2, <3>3
    <3> QED
      BY <1>1, <3>1, <3>4
  <2>2. CASE d.opcode = GPU_DRAW_TRI
    <3> DEFINE f == [r \in {"UMEM_CTRL", "UMEM_GPU_FB", "GPU_CMD", "GPU_VERTEX0",
                        "GPU_VERTEX1", "GPU_VERTEX2"} |->
                   CASE r = "UMEM_CTRL" -> e.reg[r] \cup {"ENABLE", "GPU_USE_BUF"}
                     [] r = "UMEM_GPU_FB" -> TargetFb(e, d)
                     [] r = "GPU_CMD" -> DRAW_TRI
                     [] r = "GPU_VERTEX0" -> d.src0
                     [] r = "GPU_VERTEX1" -> d.src1
                     [] r = "GPU_VERTEX2" -> d.src2]
    <3>1. Stores(f)
      BY DEF Saved, Registers
    <3>2. RunDrawJob(e, d) = [emu_run_gpu_draw(Keep(e, f)) EXCEPT !.gpu_count = @ + 1]
      BY DEF RunDrawJob
    <3>3. ran = RunDrawJob(e, d)
      BY <2>2
    <3> HIDE DEF f, ran, Stores
    <3>4. ran = [emu_run_gpu_draw(Keep(e, f)) EXCEPT !.gpu_count = @ + 1]
      BY <3>2, <3>3
    <3> QED
      BY <1>1, <3>1, <3>4
  <2> QED
    BY <2>1, <2>2
<1>3. execute_desc(e, d) = [put EXCEPT !.dispatch_opcode = d.opcode,
         !.dispatch_status = IF IsKnown(d.opcode) THEN IDLE ELSE ERROR]
  BY DEF execute_desc
<1> HIDE DEF ran, t
<1>4. Whole(put) /\ put.mem = ran.mem /\ put.fb = ran.fb /\ put.exited = ran.exited
  <2>1. DOMAIN [r \in Saved |-> e.reg[r]] \subseteq Registers
    BY DEF Registers
  <2> QED
    BY <1>2, <2>1, Kept DEF Restore
<1> HIDE DEF put
<1>5. LET n == execute_desc(e, d)
      IN  n.mem = put.mem /\ n.fb = put.fb /\ n.exited = put.exited
  BY <1>3, <1>4 DEF Whole, Fields
<1> QED
  BY <1>2, <1>4, <1>5 DEF t

(* No operation adds or removes a buffer.                                  *)
LEMMA KeepBuffers ==
  ASSUME NEW e, Whole(e), NEW f PROVE SameBuffers(e, Keep(e, f))
  BY DEF Keep, Whole, Fields, SameBuffers

(* An inference writes into a buffer that was there.                      *)
LEMMA NpuBuffers == ASSUME NEW e, Whole(e) PROVE SameBuffers(e, emu_run_npu(e))
<1> DEFINE l == LoadOperands(e)
<1>1. Whole(l) /\ SameBuffers(e, l)
  <2> DEFINE input == e.mem.in[e.reg["UMEM_NPU_INPUT"]]
             both  == [r \in {"NPU_INPUT0", "NPU_INPUT1"} |->
                        IF r = "NPU_INPUT0" THEN input[1] ELSE input[2]]
             w == [r \in {"NPU_WEIGHTS"} |-> e.mem.w[e.reg["UMEM_NPU_WEIGHT"]]]
             k == Keep(e, both)
  <2>1. DOMAIN both \subseteq Registers /\ DOMAIN w \subseteq Registers
    BY DEF Operands, Registers
  <2>2. l = k \/ l = Keep(k, w)
    BY DEF LoadOperands
  <2> HIDE DEF both, w, l
  <2>3. Whole(k) /\ k.mem = e.mem
    BY <2>1, Kept
  <2> HIDE DEF k
  <2>4. Whole(Keep(k, w)) /\ Keep(k, w).mem = k.mem
    BY <2>1, <2>3, Kept
  <2> QED
    BY <2>2, <2>3, <2>4 DEF SameBuffers
<1>2. \/ emu_run_npu(e) = [e EXCEPT !.result = Result(e), !.npu_done = TRUE]
      \/ emu_run_npu(e) = Exit(e)
      \/ emu_run_npu(e) = [l EXCEPT !.result = Result(l), !.npu_done = TRUE,
                             !.mem.out[l.reg["UMEM_NPU_OUTPUT"]] = Result(l)]
  BY DEF emu_run_npu
<1> HIDE DEF l
<1> DEFINE n == emu_run_npu(e)
<1>3. ASSUME NEW c, Whole(c), NEW b, NEW z, n = [c EXCEPT !.result = z, !.npu_done = TRUE,
                                                 !.mem.out[b] = z]
      PROVE  SameBuffers(c, n)
  <2> HIDE DEF n
  <2>1. n.mem = [c.mem EXCEPT !.out[b] = z]
    BY <1>3 DEF Whole, Fields
  <2> QED
    BY <1>3, <2>1 DEF Whole, Memories, SameBuffers
<1>4. n = [e EXCEPT !.result = Result(e), !.npu_done = TRUE] => SameBuffers(e, n)
  BY DEF Whole, Fields, SameBuffers
<1>5. n = Exit(e) => SameBuffers(e, n)
  BY DEF Exit, Whole, Fields, SameBuffers
<1>6. n = [l EXCEPT !.result = Result(l), !.npu_done = TRUE,
                    !.mem.out[l.reg["UMEM_NPU_OUTPUT"]] = Result(l)] => SameBuffers(l, n)
  BY <1>1, <1>3
<1>7. SameBuffers(e, n) \/ SameBuffers(l, n)
  BY <1>2, <1>4, <1>5, <1>6
<1> HIDE DEF n
<1>8. SameBuffers(e, n)
  BY <1>1, <1>7 DEF SameBuffers
<1> QED
  BY <1>8 DEF n

(* The copy of the framebuffer to its buffer.                              *)
LEMMA SyncBuffers == ASSUME NEW e, Whole(e) PROVE SameBuffers(e, Sync(e))
  BY DEF Sync, Exit, Whole, Fields, Memories, SameBuffers

(* A clear and a draw.                                                     *)
LEMMA GpuBuffers ==
  ASSUME NEW e, Whole(e)
  PROVE  SameBuffers(e, emu_run_gpu_clear(e)) /\ SameBuffers(e, emu_run_gpu_draw(e))
<1>1. ASSUME NEW p, NEW g
      PROVE  LET c == [e EXCEPT !.fb = p, !.gpu = g, !.gpu_done = TRUE]
             IN  SameBuffers(e, Sync(c))
  <2> DEFINE c == [e EXCEPT !.fb = p, !.gpu = g, !.gpu_done = TRUE]
  <2>1. Whole(c) /\ c.mem = e.mem
    BY DEF Whole, Fields
  <2> HIDE DEF c
  <2>2. SameBuffers(c, Sync(c))
    BY <2>1, SyncBuffers
  <2> QED
    BY <2>1, <2>2 DEF SameBuffers, c
<1> QED
  BY <1>1 DEF emu_run_gpu_clear, emu_run_gpu_draw

(* A write of CONTROL.                                                     *)
LEMMA ControlBuffers ==
  ASSUME NEW e, Whole(e), NEW v \in {{"NPU_START"}, {"GPU_START"}}
  PROVE  SameBuffers(e, WriteControl(e, v))
<1> DEFINE f == [r \in {"CONTROL"} |-> v]
           k == Keep(e, f)
<1>1. DOMAIN f \subseteq Registers
  BY DEF Registers, Others
<1>2. \/ WriteControl(e, v) = k \/ WriteControl(e, v) = emu_run_npu(k)
      \/ WriteControl(e, v) = emu_run_gpu_clear(k) \/ WriteControl(e, v) = emu_run_gpu_draw(k)
  BY DEF WriteControl
<1> HIDE DEF f
<1>3. SameBuffers(e, k) /\ Whole(k)
  BY <1>1, KeepBuffers, Kept
<1> HIDE DEF k
<1>4. /\ SameBuffers(k, emu_run_npu(k)) /\ SameBuffers(k, emu_run_gpu_clear(k))
      /\ SameBuffers(k, emu_run_gpu_draw(k))
  BY <1>3, NpuBuffers, GpuBuffers
<1> QED
  BY <1>2, <1>3, <1>4 DEF SameBuffers

(* Neither does a job.                                                     *)
LEMMA ExecutedBuffers ==
  ASSUME NEW e, Whole(e), NEW d PROVE SameBuffers(e, execute_desc(e, d))
<1> DEFINE ran == CASE d.opcode = NPU_INFER -> RunNpuJob(e, d)
                    [] d.opcode = GPU_CLEAR -> RunClearJob(e, d)
                    [] d.opcode = GPU_DRAW_TRI -> RunDrawJob(e, d)
                    [] d.opcode = NOP -> e
                    [] OTHER -> [e EXCEPT !.error_count = @ + 1]
           put == Restore(ran, e)
<1> USE DEF NOP, NPU_INFER, GPU_CLEAR, GPU_DRAW_TRI
<1>1. ASSUME NEW f, DOMAIN f \subseteq Registers, NEW n,
             \/ n = emu_run_npu(Keep(e, f)) \/ n = emu_run_gpu_clear(Keep(e, f))
             \/ n = emu_run_gpu_draw(Keep(e, f)),
             NEW x, NEW a, NEW b,
             ran = [n EXCEPT !.exec = x, !.npu_count = a] \/ ran = [n EXCEPT !.gpu_count = b]
      PROVE  Whole(ran) /\ SameBuffers(e, ran)
  <2> DEFINE k == Keep(e, f)
  <2>1. Whole(k) /\ k.mem = e.mem
    BY <1>1, Kept
  <2>2. n = emu_run_npu(k) \/ n = emu_run_gpu_clear(k) \/ n = emu_run_gpu_draw(k)
    BY <1>1
  <2> HIDE DEF k
  <2>3. Leaves(k, n)
    BY <2>1, <2>2, NpuLeaves, ClearPaints, DrawPaints
  <2>4. Whole(n) /\ SameBuffers(k, n)
    BY <2>1, <2>2, <2>3, NpuBuffers, GpuBuffers DEF Leaves
  <2> HIDE DEF ran
  <2>5. Whole(ran) /\ ran.mem = n.mem
    BY <1>1, <2>4 DEF Whole, Fields
  <2> QED
    BY <2>1, <2>4, <2>5 DEF SameBuffers
<1>2. Whole(ran) /\ SameBuffers(e, ran)
  <2>1. CASE d.opcode = NPU_INFER
    <3> DEFINE f == [r \in {"UMEM_CTRL", "UMEM_NPU_INPUT", "UMEM_NPU_WEIGHT",
                            "UMEM_NPU_OUTPUT", "NPU_MODEL", "NPU_SEQ"} |->
               CASE r = "UMEM_CTRL" -> e.reg[r] \cup {"ENABLE", "NPU_USE_BUF"}
                 [] r = "UMEM_NPU_INPUT" -> d.src0
                 [] r = "UMEM_NPU_WEIGHT" -> d.src1
                 [] r = "UMEM_NPU_OUTPUT" -> d.dst0
                 [] r = "NPU_MODEL" -> IF d.model # 0 THEN d.model ELSE e.reg[r]
                 [] r = "NPU_SEQ" -> IF d.arg0 # 0 THEN d.arg0 % 65536 ELSE 8]
               k == Keep(e, f)
               n == emu_run_npu(k)
               x == [count |-> (n.exec.count + 1) % 65536, model |-> k.reg["NPU_MODEL"],
                     input |-> d.src0, output |-> d.dst0]
    <3>1. DOMAIN f \subseteq Registers
      BY DEF Saved, Registers
    <3>2. RunNpuJob(e, d) = [n EXCEPT !.exec = x, !.npu_count = @ + 1]
      BY DEF RunNpuJob
    <3>3. ran = RunNpuJob(e, d)
      BY <2>1
    <3> HIDE DEF f, x, ran
    <3>4. ran = [n EXCEPT !.exec = x, !.npu_count = n.npu_count + 1]
      BY <3>2, <3>3
    <3> QED
      BY <1>1, <3>1, <3>4
  <2>2. CASE d.opcode = GPU_CLEAR
    <3> DEFINE f == [r \in {"UMEM_CTRL", "UMEM_GPU_FB", "GPU_CMD", "GPU_CLEAR_VALUE"} |->
                   CASE r = "UMEM_CTRL" -> e.reg[r] \cup {"ENABLE", "GPU_USE_BUF"}
                     [] r = "UMEM_GPU_FB" -> TargetFb(e, d)
                     [] r = "GPU_CMD" -> CLEAR
                     [] r = "GPU_CLEAR_VALUE" -> d.arg0 % 256]
               n == emu_run_gpu_clear(Keep(e, f))
    <3>1. DOMAIN f \subseteq Registers
      BY DEF Saved, Registers
    <3>2. RunClearJob(e, d) = [n EXCEPT !.gpu_count = n.gpu_count + 1]
      BY DEF RunClearJob
    <3>3. ran = RunClearJob(e, d)
      BY <2>2
    <3> HIDE DEF f, ran
    <3>4. ran = [n EXCEPT !.gpu_count = n.gpu_count + 1]
      BY <3>2, <3>3
    <3> QED
      BY <1>1, <3>1, <3>4
  <2>3. CASE d.opcode = GPU_DRAW_TRI
    <3> DEFINE f == [r \in {"UMEM_CTRL", "UMEM_GPU_FB", "GPU_CMD", "GPU_VERTEX0",
                        "GPU_VERTEX1", "GPU_VERTEX2"} |->
                   CASE r = "UMEM_CTRL" -> e.reg[r] \cup {"ENABLE", "GPU_USE_BUF"}
                     [] r = "UMEM_GPU_FB" -> TargetFb(e, d)
                     [] r = "GPU_CMD" -> DRAW_TRI
                     [] r = "GPU_VERTEX0" -> d.src0
                     [] r = "GPU_VERTEX1" -> d.src1
                     [] r = "GPU_VERTEX2" -> d.src2]
               n == emu_run_gpu_draw(Keep(e, f))
    <3>1. DOMAIN f \subseteq Registers
      BY DEF Saved, Registers
    <3>2. RunDrawJob(e, d) = [n EXCEPT !.gpu_count = n.gpu_count + 1]
      BY DEF RunDrawJob
    <3>3. ran = RunDrawJob(e, d)
      BY <2>3
    <3> HIDE DEF f, ran
    <3>4. ran = [n EXCEPT !.gpu_count = n.gpu_count + 1]
      BY <3>2, <3>3
    <3> QED
      BY <1>1, <3>1, <3>4
  <2>4. CASE d.opcode \notin {NPU_INFER, GPU_CLEAR, GPU_DRAW_TRI}
    <3>1. ran = e \/ ran = [e EXCEPT !.error_count = @ + 1]
      BY <2>4
    <3> HIDE DEF ran
    <3> QED
      BY <3>1 DEF Whole, Fields, SameBuffers
  <2> QED
    BY <2>1, <2>2, <2>3, <2>4
<1>3. execute_desc(e, d) = [put EXCEPT !.dispatch_opcode = d.opcode,
         !.dispatch_status = IF IsKnown(d.opcode) THEN IDLE ELSE ERROR]
  BY DEF execute_desc
<1> HIDE DEF ran
<1>4. Whole(put) /\ put.mem = ran.mem
  <2>1. DOMAIN [r \in Saved |-> e.reg[r]] \subseteq Registers
    BY DEF Registers
  <2> QED
    BY <1>2, <2>1, Kept DEF Restore
<1> HIDE DEF put
<1>5. execute_desc(e, d).mem = put.mem
  BY <1>3, <1>4 DEF Whole, Fields
<1> QED
  BY <1>2, <1>4, <1>5 DEF SameBuffers

(* A turn of the loop is a job, run by the emulator as it is but for its   *)
(* books, and a mark in the ring.                                          *)
RunsJob(e, f, n, d) ==
  LET ran == execute_desc(f, d)
  IN  /\ Whole(f) /\ f.mem = e.mem /\ f.reg = e.reg /\ f.fb = e.fb /\ f.exited = e.exited
      /\ n.exited = ran.exited /\ n.fb = ran.fb
      /\ n.reg["NPU_WEIGHTS"] = ran.reg["NPU_WEIGHTS"]
      /\ \A x \in {"fb", "out", "in", "w"} : n.mem[x] = ran.mem[x]

(* Every turn of the loop runs the job at the tail.                        *)
LEMMA TurnRuns ==
  ASSUME NEW e, EmuOK(e)
  PROVE  \E f : RunsJob(e, f, ProcessOne(e), e.mem.ring[e.reg["CMDQ_TAIL"] % Entries].desc)
<1> DEFINE slot == e.reg["CMDQ_TAIL"] % Entries
           d == e.mem.ring[slot].desc
           f == [e EXCEPT !.last = [slot |-> slot, sequence |-> e.processed,
                                    beats |-> 8, opcode |-> d.opcode]]
           ran == execute_desc(f, d)
           next == [r \in {"CMDQ_TAIL"} |-> NextTail(e.reg["CMDQ_TAIL"], Entries)]
           k == Keep(ran, next)
           n == [k EXCEPT !.mem.ring[slot] = [@ EXCEPT !.done = TRUE, !.error = ~IsKnown(d.opcode)],
                          !.fetch_status = IF IsKnown(d.opcode) THEN IDLE ELSE ERROR,
                          !.processed = @ + 1]
<1>1. slot \in Slots
  BY EntriesPositive DEF EmuOK, Slots
<1>2. ProcessOne(e) = IF ran.exited THEN ran ELSE n
  BY DEF ProcessOne, EmuOK, Entries
<1>3. d \in Descs \cup {NoDesc}
  BY <1>1 DEF EmuOK, RingOK, SlotOK
<1> HIDE DEF d
<1>4. Whole(f) /\ f.mem = e.mem /\ f.reg = e.reg /\ f.fb = e.fb /\ f.exited = e.exited
  BY DEF EmuOK, Whole, Fields
<1> HIDE DEF f
<1>5. Whole(ran)
  BY <1>3, <1>4, Executed DEF Leaves
<1> HIDE DEF ran
<1>6. DOMAIN next \subseteq Registers /\ "NPU_WEIGHTS" \in Registers \ DOMAIN next
  BY DEF Registers, Others, Operands
<1> HIDE DEF next
<1>7. Whole(k) /\ k.mem = ran.mem /\ k.fb = ran.fb /\ k.exited = ran.exited
      /\ k.reg["NPU_WEIGHTS"] = ran.reg["NPU_WEIGHTS"]
  BY <1>5, <1>6, Kept
<1> HIDE DEF k
<1>8. /\ n.exited = k.exited /\ n.fb = k.fb /\ n.reg = k.reg
      /\ \A x \in {"fb", "out", "in", "w"} : n.mem[x] = k.mem[x]
  BY <1>7 DEF Whole, Fields, Memories
<1> HIDE DEF n
<1>9. /\ ProcessOne(e).exited = ran.exited /\ ProcessOne(e).fb = ran.fb
      /\ ProcessOne(e).reg["NPU_WEIGHTS"] = ran.reg["NPU_WEIGHTS"]
      /\ \A x \in {"fb", "out", "in", "w"} : ProcessOne(e).mem[x] = ran.mem[x]
  BY <1>2, <1>7, <1>8
<1>10. RunsJob(e, f, ProcessOne(e), d)
  BY <1>4, <1>9 DEF RunsJob, ran
<1> QED
  BY <1>10 DEF d

(* A step that keeps the buffers keeps the invariant.                      *)
LEMMA BuffersStay == ASSUME NEW e, MemOK(e), NEW n, SameBuffers(e, n) PROVE MemOK(n)
  BY DEF MemOK, OperandsOK, SameBuffers

(* Operands stored by a client.                                            *)
StoredIn(e, a, b, i, v) == [e EXCEPT !.mem.in[a] = i, !.mem.w[b] = v]
(* Storing operands writes no register and ends no process.                *)
LEMMA BuffersStored ==
  ASSUME NEW e, Whole(e), NEW a, NEW b, NEW i, NEW v
  PROVE  /\ Whole(StoredIn(e, a, b, i, v))
         /\ StoredIn(e, a, b, i, v).reg = e.reg
         /\ StoredIn(e, a, b, i, v).exited = e.exited
<1> DEFINE n == StoredIn(e, a, b, i, v)
<1>1. DOMAIN n = Fields /\ DOMAIN n.mem = Memories
  BY DEF Whole, Fields, Memories, StoredIn
<1>2. n.reg = e.reg /\ n.exited = e.exited
  BY DEF Whole, Fields, StoredIn
<1> HIDE DEF n
<1>3. Whole(n)
  BY <1>1, <1>2 DEF Whole
<1> QED
  BY <1>2, <1>3 DEF n

(* Stored operands are read back.                                          *)
LEMMA BuffersRead ==
  ASSUME NEW e, Whole(e), NEW a, NEW b, NEW i, NEW v
  PROVE  /\ a \in DOMAIN e.mem.in => StoredIn(e, a, b, i, v).mem.in[a] = i
         /\ b \in DOMAIN e.mem.w => StoredIn(e, a, b, i, v).mem.w[b] = v
  BY DEF Whole, Fields, Memories, StoredIn

(* The operands a client stores keep the buffers well-formed.              *)
LEMMA OperandsWritten ==
  ASSUME NEW e, Whole(e), MemOK(e), NEW a, NEW b, NEW i \in Inputs, NEW v \in Runtimes
  PROVE  MemOK(StoredIn(e, a, b, i, v))
<1> DEFINE n == StoredIn(e, a, b, i, v)
<1>1. /\ n.mem.out = e.mem.out /\ n.mem.fb = e.mem.fb
      /\ n.mem.in = [e.mem.in EXCEPT ![a] = i] /\ n.mem.w = [e.mem.w EXCEPT ![b] = v]
  BY DEF Whole, Fields, Memories, StoredIn
<1> HIDE DEF n
<1>2. i \in Lanes \X Lanes /\ v \in RuntimeWeights
  BY ClientAssumption
<1>3. OperandsOK(n)
  BY <1>1, <1>2 DEF MemOK, OperandsOK
<1>4. MemOK(n)
  BY <1>1, <1>3 DEF MemOK
<1> QED
  BY <1>4 DEF n

(* A direct call, and every other.                                         *)
LEMMA DirectBuffers == ASSUME Whole(emu), MemOK(emu), DirectCall PROVE MemOK(emu')
<1>0. ASSUME NEW e, Whole(e), MemOK(e), NEW f, DOMAIN f \subseteq ClientRegs,
             NEW v \in {{"NPU_START"}, {"GPU_START"}}, NEW c,
             emu' = WriteStatus(WriteControl(Keep(e, f), v), c)
      PROVE  MemOK(emu')
  <2> DEFINE k == Keep(e, f)
             n == WriteControl(k, v)
  <2>0. DOMAIN f \subseteq Registers
    BY <1>0 DEF ClientRegs, Registers, Saved, Operands
  <2>1. Whole(k) /\ SameBuffers(e, k)
    BY <1>0, <2>0, Kept, KeepBuffers
  <2>2. emu' = WriteStatus(n, c)
    BY <1>0
  <2> HIDE DEF k
  <2>3. SameBuffers(k, n) /\ Whole(n)
    BY <2>1, ControlBuffers, ControlBooks
  <2> HIDE DEF n
  <2>4. emu'.mem = n.mem
    BY <2>2, <2>3 DEF WriteStatus, Whole, Fields
  <2> QED
    BY <1>0, <2>1, <2>3, <2>4, BuffersStay DEF SameBuffers
<1>2. CASE run_npu_sample
  <2> DEFINE f(m, in) == [r \in {"NPU_MODEL", "NPU_SEQ", "NPU_INPUT0", "NPU_INPUT1"} |->
                    CASE r = "NPU_MODEL" -> m
                      [] r = "NPU_SEQ" -> 8
                      [] r = "NPU_INPUT0" -> in[1]
                      [] r = "NPU_INPUT1" -> in[2]]
  <2>1. PICK m \in Models, in \in Inputs :
          emu' = WriteStatus(WriteControl(Keep(emu, f(m, in)), {"NPU_START"}), {"CLR_NPU_DONE"})
    BY <1>2 DEF run_npu_sample
  <2>2. DOMAIN f(m, in) \subseteq ClientRegs
    BY DEF ClientRegs
  <2> HIDE DEF f
  <2> QED
    BY <1>0, <2>1, <2>2
<1>3. CASE run_unified_npu
  <2> DEFINE f == [r \in {"NPU_MODEL", "NPU_SEQ"} |-> IF r = "NPU_MODEL" THEN RUNTIME ELSE 8]
             e(in, w) == StoredIn(emu, emu.reg["UMEM_NPU_INPUT"], emu.reg["UMEM_NPU_WEIGHT"], in, w)
  <2>1. PICK in \in Inputs, w \in Runtimes :
          emu' = WriteStatus(WriteControl(Keep(e(in, w), f), {"NPU_START"}), {"CLR_NPU_DONE"})
    BY <1>3, Zenon DEF run_unified_npu, StoredIn
  <2>2. DOMAIN f \subseteq ClientRegs
    BY DEF ClientRegs
  <2>3. Whole(e(in, w)) /\ MemOK(e(in, w))
    BY BuffersStored, OperandsWritten
  <2> HIDE DEF f, e
  <2> QED
    BY <1>0, <2>1, <2>2, <2>3
<1>4. CASE write_runtime_model
  <2>1. PICK w \in Runtimes : emu' = Keep(emu, Set1("NPU_WEIGHTS", w))
    BY <1>4 DEF write_runtime_model
  <2> QED
    BY <2>1, KeepBuffers, BuffersStay
<1>5. CASE write_umem_operands
  <2>1. PICK b \in Bufs, in \in Inputs, w \in Runtimes :
          emu' = StoredIn(emu, b, b, in, w)
    BY <1>5, Zenon DEF write_umem_operands, StoredIn
  <2> QED
    BY <2>1, OperandsWritten
<1>6. CASE gpu_clear
  <2> DEFINE f == [r \in {"GPU_CLEAR_VALUE", "GPU_CMD"} |-> IF r = "GPU_CMD" THEN CLEAR ELSE 0]
  <2>1. emu' = WriteStatus(WriteControl(Keep(emu, f), {"GPU_START"}), {"CLR_GPU_DONE"})
    BY <1>6 DEF gpu_clear
  <2>2. DOMAIN f \subseteq ClientRegs
    BY DEF ClientRegs
  <2> HIDE DEF f
  <2> QED
    BY <1>0, <2>1, <2>2
<1>7. CASE gpu_draw
  <2> DEFINE f(t) == [r \in {"GPU_VERTEX0", "GPU_VERTEX1", "GPU_VERTEX2", "GPU_CMD"} |->
                        CASE r = "GPU_VERTEX0" -> t[1]
                          [] r = "GPU_VERTEX1" -> t[2]
                          [] r = "GPU_VERTEX2" -> t[3]
                          [] r = "GPU_CMD" -> DRAW_TRI]
  <2>1. PICK t \in Triangles :
          emu' = WriteStatus(WriteControl(Keep(emu, f(t)), {"GPU_START"}), {"CLR_GPU_DONE"})
    BY <1>7 DEF gpu_draw
  <2>2. DOMAIN f(t) \subseteq ClientRegs
    BY DEF ClientRegs
  <2> HIDE DEF f
  <2> QED
    BY <1>0, <2>1, <2>2
<1> QED
  BY <1>2, <1>3, <1>4, <1>5, <1>6, <1>7 DEF DirectCall

(* A turn of the loop.                                                     *)
LEMMA TurnBuffers == ASSUME NEW e, EmuOK(e) PROVE SameBuffers(e, ProcessOne(e))
<1> DEFINE d == e.mem.ring[e.reg["CMDQ_TAIL"] % Entries].desc
<1>1. PICK f : RunsJob(e, f, ProcessOne(e), d)
  BY TurnRuns
<1> HIDE DEF d
<1> QED
  BY <1>1, ExecutedBuffers DEF SameBuffers, RunsJob

(* The buffers hold at the start.                                          *)
LEMMA MemInit == Init => MemOK(emu)
<1>1. ZeroWord \in Lanes /\ ZeroWeights \in RuntimeWeights
  BY BiasesAreInts DEF ZeroWord, ZeroWeights, Weights, RuntimeWeights, Lanes, Bytes
<1> QED
  BY <1>1 DEF Init, emu_init, MemOK, OperandsOK

(* Every step keeps the buffers.                                           *)
LEMMA NextMem == EInv /\ MemOK(emu) /\ [Next]_vars => MemOK(emu')
<1> SUFFICES ASSUME EInv, MemOK(emu), [Next]_vars PROVE MemOK(emu')
  OBVIOUS
<1>0. EmuOK(emu) /\ Whole(emu)
  BY DEF EInv, EmuOK
<1>1. CASE DirectCall
  BY <1>0, <1>1, DirectBuffers
<1>2. CASE accel_cmdq_host_push
  <2>1. PICK d \in Descs :
          emu'.mem = [emu.mem EXCEPT !.ring[host.cached_head] =
             [id |-> jobs.pushed + 1, desc |-> d, done |-> FALSE, error |-> FALSE]]
    BY <1>0, <1>2, PushChanges
  <2> QED
    BY <1>0, <2>1 DEF MemOK, OperandsOK, Whole, Memories
<1>3. CASE accel_cmdq_host_reset
  BY <1>0, <1>3, ResetLeaves DEF MemOK, OperandsOK, Whole, Memories
<1>4. CASE accel_cmdq_host_submit \/ configure_unified_memory
  BY <1>0, <1>4, SubmitLeaves, ConfigureSets DEF MemOK, OperandsOK
<1>5. CASE ProcessDescriptor
  BY <1>0, <1>5, TurnBuffers, BuffersStay DEF ProcessDescriptor
<1>6. CASE FinishProcess
  <2>1. emu'.mem = emu.mem
    BY <1>0, <1>6 DEF FinishProcess, EndProcess, emu_cmdq_refresh_status, Whole, Fields
  <2> QED
    BY <2>1 DEF MemOK, OperandsOK
<1>7. CASE UNCHANGED emu
  BY <1>7
<1> QED
  BY <1>1, <1>2, <1>3, <1>4, <1>5, <1>6, <1>7
  DEF Next, Library, Process, Client, DirectCall, accel_cmdq_host_sync, vars

(* Only the loop runs while it is on.                                      *)
LEMMA OnlyTheLoop == Next /\ drain.on => Process
  BY DEF Next, Library, Client, Idle, Direct, accel_cmdq_host_push, accel_cmdq_host_submit,
     accel_cmdq_host_sync, accel_cmdq_host_reset, run_npu_sample, run_unified_npu,
     write_runtime_model, write_umem_operands, configure_unified_memory, gpu_clear, gpu_draw

(* A queued clear or draw that does not end the process leaves in the      *)
(* buffer its descriptor names, or in the register's when it names none,   *)
(* the whole picture drawn since the last clear, for every screen and      *)
(* whatever bits UMEM_CTRL had (accel_mmio_demo.c:184-193, 475-497).       *)
THEOREM PicturesAreStored == Spec => QueuedPictureStored
<1> DEFINE P == \A d \in Descs :
        /\ drain.on /\ More /\ emu.mem.ring[emu.reg["CMDQ_TAIL"]].desc = d
        /\ d.opcode \in {GPU_CLEAR, GPU_DRAW_TRI} /\ ~emu'.exited
        => emu'.mem.fb[TargetFb(emu, d)] = picture'
<1>1. QueueInv /\ EInv /\ MemOK(emu) /\ [Next]_vars => [P]_vars
  <2> SUFFICES ASSUME QueueInv, EInv, MemOK(emu), Next, NEW d \in Descs,
                      drain.on, More, emu.mem.ring[emu.reg["CMDQ_TAIL"]].desc = d,
                      d.opcode \in {GPU_CLEAR, GPU_DRAW_TRI}, ~emu'.exited
               PROVE  emu'.mem.fb[TargetFb(emu, d)] = picture'
    OBVIOUS
  <2>1. emu' = ProcessOne(emu)
    BY OnlyTheLoop DEF Process, ProcessDescriptor, FinishProcess
  <2>2. emu.reg["CMDQ_TAIL"] % Entries = emu.reg["CMDQ_TAIL"]
    BY SlotArithmetic DEF QueueInv, QueueOK, HeadsOK
  <2> DEFINE b == emu.mem.ring[emu.reg["CMDQ_TAIL"] % Entries].desc
  <2>a. b = d
    BY <2>2
  <2>b. EmuOK(emu)
    BY DEF EInv
  <2>3. PICK f : RunsJob(emu, f, ProcessOne(emu), b)
    BY <2>b, TurnRuns
  <2> HIDE DEF b
  <2>c. /\ Whole(f) /\ f.mem = emu.mem /\ f.reg = emu.reg
        /\ emu'.exited = execute_desc(f, d).exited /\ emu'.fb = execute_desc(f, d).fb
        /\ emu'.mem.fb = execute_desc(f, d).mem.fb
    BY <2>1, <2>a, <2>3 DEF RunsJob
  <2>4. MemOK(f) /\ TargetFb(f, d) = TargetFb(emu, d)
    BY <2>c DEF MemOK, OperandsOK, TargetFb
  <2>5. emu'.mem.fb[TargetFb(emu, d)] = emu'.fb
    BY <2>c, <2>4, GpuJobStores
  <2>6. emu'.fb = picture'
    BY NextInvariant DEF EInv, PictureRight
  <2> QED
    BY <2>5, <2>6
<1>2. MemOK(emu)' <=> MemOK(emu')
  BY DEF MemOK, OperandsOK
<1>3. EInv /\ MemOK(emu) /\ [Next]_vars => MemOK(emu)'
  BY <1>2, NextMem
<1> QED
  BY <1>1, <1>3, InitInvariant, NextInvariant, QueueInit, NextQueued, MemInit, PTL
  DEF Spec, QueuedPictureStored

-----------------------------------------------------------------------------
(* What a run of the NPU computes, and from where.                         *)
FromMemory(e) == UsesBuffer(e, "NPU_USE_BUF")
RunInput(e) ==
  IF FromMemory(e) THEN e.mem.in[e.reg["UMEM_NPU_INPUT"]]
  ELSE <<e.reg["NPU_INPUT0"], e.reg["NPU_INPUT1"]>>
RunWeights(e) ==
  IF FromMemory(e) /\ FromRegisters(e.reg["NPU_MODEL"]) THEN e.mem.w[e.reg["UMEM_NPU_WEIGHT"]]
  ELSE e.reg["NPU_WEIGHTS"]
RunResult(e) ==
  Infer(e.reg["NPU_MODEL"], e.reg["NPU_SEQ"], RunInput(e)[1], RunInput(e)[2], RunWeights(e))

(* The operands of a run from memory.                                      *)
LEMMA OperandsLoaded ==
  ASSUME NEW e, Whole(e), FromMemory(e)
  PROVE  LET l == LoadOperands(e)
         IN  /\ Whole(l) /\ l.mem = e.mem /\ l.exited = e.exited
             /\ \A r \in Registers \ Operands : l.reg[r] = e.reg[r]
             /\ l.reg["NPU_INPUT0"] = RunInput(e)[1] /\ l.reg["NPU_INPUT1"] = RunInput(e)[2]
             /\ l.reg["NPU_WEIGHTS"] = RunWeights(e)
<1> DEFINE input == e.mem.in[e.reg["UMEM_NPU_INPUT"]]
           both  == [r \in {"NPU_INPUT0", "NPU_INPUT1"} |->
                      IF r = "NPU_INPUT0" THEN input[1] ELSE input[2]]
           w == [r \in {"NPU_WEIGHTS"} |-> e.mem.w[e.reg["UMEM_NPU_WEIGHT"]]]
           k == Keep(e, both)
           l == LoadOperands(e)
<1>1. /\ DOMAIN both = {"NPU_INPUT0", "NPU_INPUT1"} /\ DOMAIN w = {"NPU_WEIGHTS"}
      /\ DOMAIN both \subseteq Registers /\ DOMAIN w \subseteq Registers
      /\ "NPU_WEIGHTS" \in Registers /\ "NPU_WEIGHTS" \notin DOMAIN both
      /\ \A r \in Registers \ Operands : r \notin DOMAIN both /\ r \notin DOMAIN w
      /\ \A r \in {"NPU_INPUT0", "NPU_INPUT1"} : r \notin DOMAIN w /\ r \in Registers
  BY DEF Operands, Registers
<1>2. /\ both["NPU_INPUT0"] = RunInput(e)[1] /\ both["NPU_INPUT1"] = RunInput(e)[2]
      /\ w["NPU_WEIGHTS"] = e.mem.w[e.reg["UMEM_NPU_WEIGHT"]]
  BY DEF RunInput
<1>3. l = IF FromRegisters(e.reg["NPU_MODEL"]) THEN Keep(k, w) ELSE k
  BY DEF LoadOperands
<1> HIDE DEF both, w, l
<1>4. /\ Whole(k) /\ k.mem = e.mem /\ k.exited = e.exited
      /\ \A r \in DOMAIN both : k.reg[r] = both[r]
      /\ \A r \in Registers : r \notin DOMAIN both => k.reg[r] = e.reg[r]
  BY <1>1, Kept
<1> HIDE DEF k
<1>5. LET n == Keep(k, w)
      IN  /\ Whole(n) /\ n.mem = k.mem /\ n.exited = k.exited
          /\ \A r \in DOMAIN w : n.reg[r] = w[r]
          /\ \A r \in Registers : r \notin DOMAIN w => n.reg[r] = k.reg[r]
  BY <1>1, <1>4, Kept
<1>6. CASE FromRegisters(e.reg["NPU_MODEL"])
  <2>1. l = Keep(k, w) /\ RunWeights(e) = e.mem.w[e.reg["UMEM_NPU_WEIGHT"]]
    BY <1>3, <1>6 DEF RunWeights
  <2> QED
    BY <1>1, <1>2, <1>4, <1>5, <2>1 DEF l
<1>7. CASE ~FromRegisters(e.reg["NPU_MODEL"])
  <2>1. l = k /\ RunWeights(e) = e.reg["NPU_WEIGHTS"]
    BY <1>3, <1>7 DEF RunWeights
  <2> QED
    BY <1>1, <1>2, <1>4, <2>1 DEF l
<1> QED
  BY <1>6, <1>7

(* A run that does not end the process.                                    *)
LEMMA NpuComputes ==
  ASSUME NEW e, Whole(e), NEW n, n = emu_run_npu(e)
  PROVE  /\ Whole(n) /\ (e.exited => n.exited)
         /\ ~n.exited => /\ n.result = RunResult(e)
                         /\ n.reg["NPU_WEIGHTS"] = RunWeights(e)
                         /\ FromMemory(e) => /\ BuffersInRange(e)
                                             /\ e.reg["UMEM_NPU_OUTPUT"] \in DOMAIN e.mem.out =>
                                                  n.mem.out[e.reg["UMEM_NPU_OUTPUT"]] = RunResult(e)
         /\ n.exited /\ ~e.exited => n.reg["NPU_WEIGHTS"] = e.reg["NPU_WEIGHTS"]
         /\ BuffersInRange(e) \/ ~FromMemory(e) => n.exited = e.exited
<1> DEFINE l == LoadOperands(e)
<1>0. "UMEM_NPU_OUTPUT" \in Registers \ Operands /\ "NPU_MODEL" \in Registers \ Operands
      /\ "NPU_SEQ" \in Registers \ Operands
  BY DEF Registers, Saved, Operands
<1>1. CASE ~FromMemory(e)
  <2>1. n = [e EXCEPT !.result = Result(e), !.npu_done = TRUE]
    BY <1>1 DEF emu_run_npu, FromMemory
  <2>2. Whole(n) /\ n.reg = e.reg /\ n.exited = e.exited /\ n.result = Result(e)
    BY <2>1 DEF Whole, Fields
  <2>3. /\ RunInput(e)[1] = e.reg["NPU_INPUT0"] /\ RunInput(e)[2] = e.reg["NPU_INPUT1"]
        /\ RunWeights(e) = e.reg["NPU_WEIGHTS"]
    BY <1>1 DEF RunInput, RunWeights
  <2>4. Result(e) = RunResult(e)
    BY <2>3 DEF Result, RunResult
  <2> QED
    BY <1>1, <2>2, <2>3, <2>4
<1>2. CASE FromMemory(e) /\ ~BuffersInRange(e)
  <2>1. n = Exit(e)
    BY <1>2 DEF emu_run_npu, FromMemory
  <2>2. Whole(n) /\ n.reg = e.reg /\ n.exited
    BY <2>1 DEF Exit, Whole, Fields
  <2> QED
    BY <1>2, <2>2
<1>3. CASE FromMemory(e) /\ BuffersInRange(e)
  <2>1. n = [l EXCEPT !.result = Result(l), !.npu_done = TRUE,
                      !.mem.out[l.reg["UMEM_NPU_OUTPUT"]] = Result(l)]
    BY <1>3 DEF emu_run_npu, FromMemory
  <2>2. /\ Whole(l) /\ l.mem = e.mem /\ l.exited = e.exited
        /\ \A r \in Registers \ Operands : l.reg[r] = e.reg[r]
        /\ l.reg["NPU_INPUT0"] = RunInput(e)[1] /\ l.reg["NPU_INPUT1"] = RunInput(e)[2]
        /\ l.reg["NPU_WEIGHTS"] = RunWeights(e)
    BY <1>3, OperandsLoaded
  <2>3. Result(l) = RunResult(e)
    BY <1>0, <2>2 DEF Result, RunResult
  <2> HIDE DEF l
  <2>4. /\ Whole(n) /\ n.reg = l.reg /\ n.exited = l.exited /\ n.result = Result(l)
        /\ l.reg["UMEM_NPU_OUTPUT"] \in DOMAIN l.mem.out =>
             n.mem.out[l.reg["UMEM_NPU_OUTPUT"]] = Result(l)
    BY <2>1, <2>2 DEF Whole, Fields, Memories
  <2> QED
    BY <1>0, <1>3, <2>2, <2>3, <2>4
<1> QED
  BY <1>1, <1>2, <1>3

(* The copy of the framebuffer writes no register.                         *)
LEMMA GpuRegs ==
  ASSUME NEW e, Whole(e), NEW n, n = emu_run_gpu_clear(e) \/ n = emu_run_gpu_draw(e)
  PROVE  Whole(n) /\ n.reg = e.reg
<1>1. ASSUME NEW p, NEW g, n = Sync([e EXCEPT !.fb = p, !.gpu = g, !.gpu_done = TRUE])
      PROVE  n.reg = e.reg
  <2> DEFINE c == [e EXCEPT !.fb = p, !.gpu = g, !.gpu_done = TRUE]
  <2>1. Whole(c) /\ c.reg = e.reg
    BY DEF Whole, Fields
  <2>2. n = Sync(c)
    BY <1>1
  <2> HIDE DEF c
  <2>3. Sync(c).reg = c.reg
    BY <2>1 DEF Sync, Exit, Whole, Fields
  <2> QED
    BY <2>1, <2>2, <2>3
<1>2. n.reg = e.reg
  BY <1>1 DEF emu_run_gpu_clear, emu_run_gpu_draw
<1> QED
  BY <1>2, ClearPaints, DrawPaints DEF Leaves

(* The model of a queued inference.                                        *)
ModelOf(e, d) == IF d.model # 0 THEN d.model ELSE e.reg["NPU_MODEL"]

(* What is left when a job's registers are put back.                       *)
JobEnd(ran, e, d) ==
  [Restore(ran, e) EXCEPT !.dispatch_opcode = d.opcode,
     !.dispatch_status = IF IsKnown(d.opcode) THEN IDLE ELSE ERROR]
(* The registers put back are not the weights.                             *)
LEMMA PutBack ==
  ASSUME NEW e, NEW d, NEW ran, Whole(ran), NEW n, n = JobEnd(ran, e, d)
  PROVE  /\ n.mem = ran.mem /\ n.exited = ran.exited /\ n.result = ran.result
         /\ n.reg["NPU_WEIGHTS"] = ran.reg["NPU_WEIGHTS"]
<1> DEFINE put == Restore(ran, e)
           old == [r \in Saved |-> e.reg[r]]
<1>1. DOMAIN old \subseteq Registers /\ "NPU_WEIGHTS" \in Registers \ DOMAIN old
  BY DEF Registers, Saved, Operands
<1>2. put = Keep(ran, old)
  BY DEF Restore
<1> HIDE DEF put, old
<1>3. /\ Whole(put) /\ put.mem = ran.mem /\ put.exited = ran.exited
      /\ put.reg["NPU_WEIGHTS"] = ran.reg["NPU_WEIGHTS"]
  BY <1>1, <1>2, Kept
<1>4. put.result = ran.result
  BY <1>2 DEF Keep, Whole, Fields
<1>5. /\ n.mem = put.mem /\ n.exited = put.exited /\ n.result = put.result /\ n.reg = put.reg
  BY <1>3 DEF Whole, Fields, JobEnd, put
<1> QED
  BY <1>3, <1>4, <1>5

(* A queued inference: registers set, a run from memory.                   *)
LEMMA NpuJobRuns ==
  ASSUME NEW e, Whole(e), DOMAIN e.mem.out = Bufs, NEW d, d.opcode = NPU_INFER
  PROVE  LET n == execute_desc(e, d)
             w == IF FromRegisters(ModelOf(e, d)) THEN e.mem.w[d.src1] ELSE e.reg["NPU_WEIGHTS"]
         IN  /\ ~FromRegisters(ModelOf(e, d)) /\ ~e.exited => n.reg["NPU_WEIGHTS"] = e.reg["NPU_WEIGHTS"]
             /\ ~n.exited =>
                  /\ d.src0 \in Bufs /\ d.dst0 \in Bufs
                  /\ FromRegisters(ModelOf(e, d)) => d.src1 \in Bufs
                  /\ n.mem.out[d.dst0] =
                       Infer(ModelOf(e, d), IF d.arg0 # 0 THEN d.arg0 % 65536 ELSE 8,
                             e.mem.in[d.src0][1], e.mem.in[d.src0][2], w)
<1> DEFINE f == [r \in {"UMEM_CTRL", "UMEM_NPU_INPUT", "UMEM_NPU_WEIGHT",
                        "UMEM_NPU_OUTPUT", "NPU_MODEL", "NPU_SEQ"} |->
               CASE r = "UMEM_CTRL" -> e.reg[r] \cup {"ENABLE", "NPU_USE_BUF"}
                 [] r = "UMEM_NPU_INPUT" -> d.src0
                 [] r = "UMEM_NPU_WEIGHT" -> d.src1
                 [] r = "UMEM_NPU_OUTPUT" -> d.dst0
                 [] r = "NPU_MODEL" -> IF d.model # 0 THEN d.model ELSE e.reg[r]
                 [] r = "NPU_SEQ" -> IF d.arg0 # 0 THEN d.arg0 % 65536 ELSE 8]
           k == Keep(e, f)
           m == emu_run_npu(k)
           x == [count |-> (m.exec.count + 1) % 65536, model |-> k.reg["NPU_MODEL"],
                 input |-> d.src0, output |-> d.dst0]
           ran == [m EXCEPT !.exec = x, !.npu_count = @ + 1]
           n == execute_desc(e, d)
           q == IF d.arg0 # 0 THEN d.arg0 % 65536 ELSE 8
           w == IF FromRegisters(ModelOf(e, d)) THEN e.mem.w[d.src1] ELSE e.reg["NPU_WEIGHTS"]
<1>1. /\ DOMAIN f = {"UMEM_CTRL", "UMEM_NPU_INPUT", "UMEM_NPU_WEIGHT",
                     "UMEM_NPU_OUTPUT", "NPU_MODEL", "NPU_SEQ"}
      /\ DOMAIN f \subseteq Registers /\ "NPU_WEIGHTS" \in Registers \ DOMAIN f
  BY DEF Saved, Registers, Operands
<1>2. /\ f["UMEM_CTRL"] = e.reg["UMEM_CTRL"] \cup {"ENABLE", "NPU_USE_BUF"}
      /\ f["UMEM_NPU_INPUT"] = d.src0 /\ f["UMEM_NPU_WEIGHT"] = d.src1
      /\ f["UMEM_NPU_OUTPUT"] = d.dst0 /\ f["NPU_MODEL"] = ModelOf(e, d) /\ f["NPU_SEQ"] = q
  BY DEF ModelOf
<1>3. n = JobEnd(ran, e, d)
  <2>1. RunNpuJob(e, d) = ran
    BY DEF RunNpuJob
  <2> HIDE DEF ran
  <2> QED
    BY <2>1 DEF execute_desc, JobEnd, NOP, NPU_INFER, GPU_CLEAR, GPU_DRAW_TRI
<1> HIDE DEF f, x, n, q
<1>4. /\ Whole(k) /\ k.mem = e.mem /\ k.exited = e.exited
      /\ \A r \in DOMAIN f : k.reg[r] = f[r]
      /\ k.reg["NPU_WEIGHTS"] = e.reg["NPU_WEIGHTS"]
  BY <1>1, Kept
<1>5. /\ k.reg["UMEM_CTRL"] = e.reg["UMEM_CTRL"] \cup {"ENABLE", "NPU_USE_BUF"}
      /\ k.reg["UMEM_NPU_INPUT"] = d.src0 /\ k.reg["UMEM_NPU_WEIGHT"] = d.src1
      /\ k.reg["UMEM_NPU_OUTPUT"] = d.dst0 /\ k.reg["NPU_MODEL"] = ModelOf(e, d)
      /\ k.reg["NPU_SEQ"] = q
  BY <1>1, <1>2, <1>4
<1> HIDE DEF k
<1>6. /\ FromMemory(k) /\ RunInput(k) = e.mem.in[d.src0] /\ RunWeights(k) = w
      /\ RunResult(k) = Infer(ModelOf(e, d), q, e.mem.in[d.src0][1], e.mem.in[d.src0][2], w)
  <2>1. FromMemory(k)
    BY <1>5 DEF FromMemory, UsesBuffer
  <2>2. RunInput(k) = e.mem.in[d.src0] /\ RunWeights(k) = w
    BY <1>4, <1>5, <2>1 DEF RunInput, RunWeights
  <2> QED
    BY <1>5, <2>1, <2>2 DEF RunResult
<1>7. /\ Whole(m)
      /\ ~m.exited => /\ m.reg["NPU_WEIGHTS"] = w /\ BuffersInRange(k)
                      /\ d.dst0 \in Bufs => m.mem.out[d.dst0] = RunResult(k)
      /\ m.exited /\ ~e.exited => m.reg["NPU_WEIGHTS"] = e.reg["NPU_WEIGHTS"]
  BY <1>4, <1>5, <1>6, NpuComputes
<1> HIDE DEF m
<1>8. Whole(ran) /\ ran.mem = m.mem /\ ran.exited = m.exited /\ ran.reg = m.reg
  BY <1>7 DEF Whole, Fields
<1> HIDE DEF ran
<1>9. n.mem = m.mem /\ n.exited = m.exited /\ n.reg["NPU_WEIGHTS"] = m.reg["NPU_WEIGHTS"]
  BY <1>3, <1>8, PutBack
<1>10. ~m.exited => /\ d.src0 \in Bufs /\ d.dst0 \in Bufs
                    /\ FromRegisters(ModelOf(e, d)) => d.src1 \in Bufs
  BY <1>5, <1>7 DEF BuffersInRange
<1>11. ~FromRegisters(ModelOf(e, d)) => w = e.reg["NPU_WEIGHTS"]
  OBVIOUS
<1> HIDE DEF w
<1> QED
  BY <1>6, <1>7, <1>9, <1>10, <1>11 DEF n, q, w

(* The weight registers, after a job that is no run of a runtime model.    *)
LEMMA JobKeepsWeights ==
  ASSUME NEW e, Whole(e), ~e.exited, DOMAIN e.mem.out = Bufs, NEW d,
         ~(d.opcode = NPU_INFER /\ FromRegisters(ModelOf(e, d)))
  PROVE  execute_desc(e, d).reg["NPU_WEIGHTS"] = e.reg["NPU_WEIGHTS"]
<1> USE DEF NOP, NPU_INFER, GPU_CLEAR, GPU_DRAW_TRI
<1>1. ASSUME NEW f, DOMAIN f \subseteq Saved, NEW n,
             n = emu_run_gpu_clear(Keep(e, f)) \/ n = emu_run_gpu_draw(Keep(e, f)),
             NEW ran, ran = [n EXCEPT !.gpu_count = @ + 1], execute_desc(e, d) = JobEnd(ran, e, d)
      PROVE  execute_desc(e, d).reg["NPU_WEIGHTS"] = e.reg["NPU_WEIGHTS"]
  <2> DEFINE k == Keep(e, f)
  <2>1. DOMAIN f \subseteq Registers /\ "NPU_WEIGHTS" \in Registers \ DOMAIN f
    BY <1>1 DEF Registers, Saved, Operands
  <2>2. Whole(k) /\ k.reg["NPU_WEIGHTS"] = e.reg["NPU_WEIGHTS"]
    BY <2>1, Kept
  <2>3. n = emu_run_gpu_clear(k) \/ n = emu_run_gpu_draw(k)
    BY <1>1
  <2> HIDE DEF k
  <2>4. Whole(n) /\ n.reg = k.reg
    BY <2>2, <2>3, GpuRegs
  <2>5. Whole(ran) /\ ran.reg = n.reg
    BY <1>1, <2>4 DEF Whole, Fields
  <2>6. execute_desc(e, d) = JobEnd(ran, e, d)
    BY <1>1
  <2>7. execute_desc(e, d).reg["NPU_WEIGHTS"] = ran.reg["NPU_WEIGHTS"]
    BY <2>5, <2>6, PutBack
  <2> QED
    BY <2>2, <2>4, <2>5, <2>7
<1>2. CASE d.opcode = NPU_INFER
  BY <1>2, NpuJobRuns
<1>3. CASE d.opcode = GPU_CLEAR
  <2> DEFINE f == [r \in {"UMEM_CTRL", "UMEM_GPU_FB", "GPU_CMD", "GPU_CLEAR_VALUE"} |->
                   CASE r = "UMEM_CTRL" -> e.reg[r] \cup {"ENABLE", "GPU_USE_BUF"}
                     [] r = "UMEM_GPU_FB" -> TargetFb(e, d)
                     [] r = "GPU_CMD" -> CLEAR
                     [] r = "GPU_CLEAR_VALUE" -> d.arg0 % 256]
             n == emu_run_gpu_clear(Keep(e, f))
             ran == [n EXCEPT !.gpu_count = @ + 1]
  <2>1. DOMAIN f \subseteq Saved
    BY DEF Saved
  <2>2. RunClearJob(e, d) = ran
    BY DEF RunClearJob
  <2> HIDE DEF f, ran
  <2>3. execute_desc(e, d) = JobEnd(ran, e, d)
    BY <1>3, <2>2 DEF execute_desc, JobEnd
  <2>4. ran = [n EXCEPT !.gpu_count = @ + 1]
    BY DEF ran
  <2> QED
    BY <1>1, <2>1, <2>3, <2>4
<1>4. CASE d.opcode = GPU_DRAW_TRI
  <2> DEFINE f == [r \in {"UMEM_CTRL", "UMEM_GPU_FB", "GPU_CMD", "GPU_VERTEX0",
                          "GPU_VERTEX1", "GPU_VERTEX2"} |->
                   CASE r = "UMEM_CTRL" -> e.reg[r] \cup {"ENABLE", "GPU_USE_BUF"}
                     [] r = "UMEM_GPU_FB" -> TargetFb(e, d)
                     [] r = "GPU_CMD" -> DRAW_TRI
                     [] r = "GPU_VERTEX0" -> d.src0
                     [] r = "GPU_VERTEX1" -> d.src1
                     [] r = "GPU_VERTEX2" -> d.src2]
             n == emu_run_gpu_draw(Keep(e, f))
             ran == [n EXCEPT !.gpu_count = @ + 1]
  <2>1. DOMAIN f \subseteq Saved
    BY DEF Saved
  <2>2. RunDrawJob(e, d) = ran
    BY DEF RunDrawJob
  <2> HIDE DEF f, ran
  <2>3. execute_desc(e, d) = JobEnd(ran, e, d)
    BY <1>4, <2>2 DEF execute_desc, JobEnd
  <2>4. ran = [n EXCEPT !.gpu_count = @ + 1]
    BY DEF ran
  <2> QED
    BY <1>1, <2>1, <2>3, <2>4
<1>5. CASE d.opcode \notin {NPU_INFER, GPU_CLEAR, GPU_DRAW_TRI}
  <2> DEFINE ran == IF d.opcode = NOP THEN e ELSE [e EXCEPT !.error_count = @ + 1]
  <2>1. Whole(ran) /\ ran.reg = e.reg
    BY DEF Whole, Fields
  <2>2. execute_desc(e, d) = JobEnd(ran, e, d)
    BY <1>5 DEF execute_desc, JobEnd
  <2> HIDE DEF ran
  <2> QED
    BY <2>1, <2>2, PutBack
<1> QED
  BY <1>2, <1>3, <1>4, <1>5

(* The low byte of a low halfword.                                         *)
LEMMA LowByte == ASSUME NEW n \in Nat PROVE (n % 65536) % 256 = n % 256
<1>1. ASSUME NEW k \in Nat, NEW c \in 0..255 PROVE (256 * k + c) % 256 = c
  OBVIOUS
<1>2. ASSUME NEW q \in Nat, NEW p \in Nat, NEW c \in 0..255
      PROVE  (65536 * q + (256 * p + c)) % 256 = (256 * p + c) % 256
  <2>1. 256 * q + p \in Nat /\ 65536 * q + (256 * p + c) = 256 * (256 * q + p) + c
    OBVIOUS
  <2>2. (256 * (256 * q + p) + c) % 256 = c
    BY <1>1, <2>1
  <2> QED
    BY <1>1, <2>1, <2>2
<1>3. ASSUME NEW q \in Nat, NEW r \in Nat PROVE (65536 * q + r) % 256 = r % 256
  <2>1. r = 256 * (r \div 256) + (r % 256) /\ r \div 256 \in Nat /\ r % 256 \in 0..255
    OBVIOUS
  <2> QED
    BY <1>2, <2>1
<1>4. n = 65536 * (n \div 65536) + (n % 65536) /\ n \div 65536 \in Nat /\ n % 65536 \in Nat
  OBVIOUS
<1> QED
  BY <1>3, <1>4

(* The inference is of the sequence length as given.                       *)
LEMMA SameSequence ==
  ASSUME NEW a \in Nat, NEW r, NEW m, NEW x, NEW y, NEW w,
         IsInference(r, m, IF a # 0 THEN a % 65536 ELSE 8, x, y, w)
  PROVE  IsInference(r, m, IF a = 0 THEN 8 ELSE a, x, y, w)
<1>1. (IF a # 0 THEN a % 65536 ELSE 8) % 256 = (IF a = 0 THEN 8 ELSE a) % 256
  BY LowByte
<1> QED
  BY <1>1 DEF IsInference

(* What a queued inference stores.                                         *)
LEMMA NpuJobStores ==
  ASSUME NEW e, Whole(e), MemOK(e), NEW d, d.opcode = NPU_INFER, d.arg0 \in Nat,
         ~execute_desc(e, d).exited
  PROVE  IsInference(execute_desc(e, d).mem.out[d.dst0], ModelOf(e, d),
                     IF d.arg0 = 0 THEN 8 ELSE d.arg0,
                     e.mem.in[d.src0][1], e.mem.in[d.src0][2],
                     IF FromRegisters(ModelOf(e, d)) THEN e.mem.w[d.src1]
                     ELSE select_npu_weights(ModelOf(e, d), ZeroWeights))
<1> DEFINE m == ModelOf(e, d)
           s == IF d.arg0 # 0 THEN d.arg0 % 65536 ELSE 8
           x == e.mem.in[d.src0][1]
           y == e.mem.in[d.src0][2]
           w == IF FromRegisters(m) THEN e.mem.w[d.src1] ELSE e.reg["NPU_WEIGHTS"]
           v == IF FromRegisters(m) THEN e.mem.w[d.src1] ELSE select_npu_weights(m, ZeroWeights)
           r == execute_desc(e, d).mem.out[d.dst0]
<1>1. /\ d.src0 \in Bufs
      /\ FromRegisters(m) => d.src1 \in Bufs
      /\ r = Infer(m, s, x, y, w)
  BY NpuJobRuns DEF MemOK
<1>2. x \in Lanes /\ y \in Lanes /\ (FromRegisters(m) => w \in RuntimeWeights)
  BY <1>1 DEF MemOK, OperandsOK
<1>3. select_npu_weights(m, w) = v
  BY DEF select_npu_weights
<1> HIDE DEF m, s, x, y, w, v, r
<1>4. IsInference(r, m, s, x, y, select_npu_weights(m, w))
  BY <1>1, <1>2, InferRight
<1>5. IsInference(r, m, s, x, y, v)
  BY <1>3, <1>4
<1>6. IsInference(r, m, IF d.arg0 = 0 THEN 8 ELSE d.arg0, x, y, v)
  BY <1>5, SameSequence DEF s
<1> QED
  BY <1>6 DEF m, x, y, v, r

(* A queued inference that does not end the process leaves in its output   *)
(* buffer the product of the weights and inputs its descriptor names, by   *)
(* the model it names or inherits, whatever the registers held before and  *)
(* whoever ran before (accel_mmio_demo.c:296-351, 455-474).                *)
THEOREM QueuedResultsAreOwn == Spec => QueuedResultIsOwn
<1> DEFINE P == \A d \in Descs :
        /\ drain.on /\ More /\ emu.mem.ring[emu.reg["CMDQ_TAIL"]].desc = d
        /\ d.opcode = NPU_INFER /\ d.dst0 \in Bufs /\ ~emu'.exited
        => IsInference(emu'.mem.out[d.dst0], JobModel(d), IF d.arg0 = 0 THEN 8 ELSE d.arg0,
                       emu.mem.in[d.src0][1], emu.mem.in[d.src0][2],
                       IF FromRegisters(JobModel(d)) THEN emu.mem.w[d.src1]
                       ELSE select_npu_weights(JobModel(d), ZeroWeights))
<1>1. QueueInv /\ EInv /\ MemOK(emu) /\ [Next]_vars => [P]_vars
  <2> SUFFICES ASSUME QueueInv, EInv, MemOK(emu), Next, NEW d \in Descs,
                      drain.on, More, emu.mem.ring[emu.reg["CMDQ_TAIL"]].desc = d,
                      d.opcode = NPU_INFER, d.dst0 \in Bufs, ~emu'.exited
               PROVE  IsInference(emu'.mem.out[d.dst0], JobModel(d), IF d.arg0 = 0 THEN 8 ELSE d.arg0,
                       emu.mem.in[d.src0][1], emu.mem.in[d.src0][2],
                       IF FromRegisters(JobModel(d)) THEN emu.mem.w[d.src1]
                       ELSE select_npu_weights(JobModel(d), ZeroWeights))
    BY Zenon
  <2>1. emu' = ProcessOne(emu)
    BY OnlyTheLoop DEF Process, ProcessDescriptor, FinishProcess
  <2>2. emu.reg["CMDQ_TAIL"] % Entries = emu.reg["CMDQ_TAIL"]
    BY SlotArithmetic DEF QueueInv, QueueOK, HeadsOK
  <2> DEFINE b == emu.mem.ring[emu.reg["CMDQ_TAIL"] % Entries].desc
  <2>a. b = d
    BY <2>2
  <2>b. EmuOK(emu)
    BY DEF EInv
  <2>3. PICK f : RunsJob(emu, f, ProcessOne(emu), b)
    BY <2>b, TurnRuns
  <2> HIDE DEF b
  <2>c. /\ Whole(f) /\ f.mem = emu.mem /\ f.reg = emu.reg
        /\ emu'.exited = execute_desc(f, d).exited
        /\ emu'.mem.out = execute_desc(f, d).mem.out
    BY <2>1, <2>a, <2>3 DEF RunsJob
  <2>4. MemOK(f) /\ ModelOf(f, d) = JobModel(d)
    BY <2>c DEF MemOK, OperandsOK, ModelOf, JobModel
  <2>5. d.arg0 \in Nat
    BY ClientAssumption
  <2>6. IsInference(execute_desc(f, d).mem.out[d.dst0], ModelOf(f, d),
                    IF d.arg0 = 0 THEN 8 ELSE d.arg0,
                    f.mem.in[d.src0][1], f.mem.in[d.src0][2],
                    IF FromRegisters(ModelOf(f, d)) THEN f.mem.w[d.src1]
                    ELSE select_npu_weights(ModelOf(f, d), ZeroWeights))
    BY <2>c, <2>4, <2>5, NpuJobStores
  <2> QED
    BY <2>c, <2>4, <2>6
<1>2. MemOK(emu)' <=> MemOK(emu')
  BY DEF MemOK, OperandsOK
<1>3. EInv /\ MemOK(emu) /\ [Next]_vars => MemOK(emu)'
  BY <1>2, NextMem
<1> QED
  BY <1>1, <1>3, InitInvariant, NextInvariant, QueueInit, NextQueued, MemInit, PTL
  DEF Spec, QueuedResultIsOwn

-----------------------------------------------------------------------------
(* The samples.  The weights the client wrote last are in the registers    *)
(* until a job overwrites them.                                            *)
SampleFields == {"weights", "clean", "own", "model", "input", "result"}
SampleInv ==
  /\ DOMAIN sample = SampleFields
  /\ sample.weights \in RuntimeWeights
  /\ sample.clean => emu.reg["NPU_WEIGHTS"] = sample.weights
  /\ SampleIsOwn

(* The samples hold at the start.                                          *)
LEMMA SampleInit == Init => SampleInv
<1> SUFFICES ASSUME Init PROVE SampleInv
  OBVIOUS
<1>1. emu = emu_init /\ sample = NoSample
  BY DEF Init
<1>2. "NPU_WEIGHTS" \in Registers
  BY DEF Registers, Operands
<1>3. emu_init.reg["NPU_WEIGHTS"] = Weights(Ones, MinusOnes, MinusOnes, Ones, 0, 0)
  BY <1>2 DEF emu_init, ResetRegisters
<1>4. emu_init.reg["NPU_WEIGHTS"] \in RuntimeWeights
  <2>1. Ones \in Lanes /\ MinusOnes \in Lanes
    BY DEF Ones, MinusOnes, Lanes, Bytes
  <2> QED
    BY <1>3, <2>1, BiasesAreInts DEF Weights, RuntimeWeights
<1> HIDE DEF emu_init
<1> QED
  BY <1>1, <1>4 DEF SampleInv, SampleFields, SampleIsOwn, NoSample

(* A step that leaves the weight registers and the sample.                 *)
LEMMA SampleStays ==
  ASSUME SampleInv, sample' = sample, emu'.reg["NPU_WEIGHTS"] = emu.reg["NPU_WEIGHTS"]
  PROVE  SampleInv'
  BY DEF SampleInv, SampleIsOwn

(* A start of the NPU by its client.                                       *)
LEMMA NpuControl ==
  ASSUME NEW e, Whole(e)
  PROVE  LET n == WriteControl(e, {"NPU_START"})
         IN  /\ Whole(n)
             /\ ~n.exited => /\ n.result = RunResult(e)
                             /\ n.reg["NPU_WEIGHTS"] = RunWeights(e)
                             /\ FromMemory(e) /\ e.reg["UMEM_NPU_OUTPUT"] \in DOMAIN e.mem.out =>
                                  n.mem.out[e.reg["UMEM_NPU_OUTPUT"]] = RunResult(e)
             /\ \A r \in Registers \ (Operands \cup {"CONTROL"}) : n.reg[r] = e.reg[r]
             /\ BuffersInRange(e) \/ ~FromMemory(e) => n.exited = e.exited
<1> DEFINE f == [r \in {"CONTROL"} |-> {"NPU_START"}]
           k == Keep(e, f)
           n == emu_run_npu(k)
<1>1. WriteControl(e, {"NPU_START"}) = n
  BY DEF WriteControl
<1>2. DOMAIN f = {"CONTROL"} /\ DOMAIN f \subseteq Registers
  BY DEF Registers, Others
<1> HIDE DEF f
<1>3. /\ Whole(k) /\ k.mem = e.mem /\ k.exited = e.exited
      /\ \A r \in Registers \ {"CONTROL"} : k.reg[r] = e.reg[r]
  BY <1>2, Kept
<1> HIDE DEF k
<1>4. \A r \in {"UMEM_CTRL", "UMEM_NPU_INPUT", "UMEM_NPU_WEIGHT", "UMEM_NPU_OUTPUT", "NPU_MODEL",
                "NPU_SEQ", "NPU_INPUT0", "NPU_INPUT1", "NPU_WEIGHTS"} : k.reg[r] = e.reg[r]
  BY <1>3 DEF Registers, Saved, Operands, Others
<1>5. /\ FromMemory(k) <=> FromMemory(e)
      /\ BuffersInRange(k) <=> BuffersInRange(e)
      /\ RunInput(k) = RunInput(e) /\ RunWeights(k) = RunWeights(e)
  BY <1>3, <1>4 DEF FromMemory, UsesBuffer, BuffersInRange, RunInput, RunWeights
<1>6. RunResult(k) = RunResult(e)
  BY <1>4, <1>5 DEF RunResult
<1>7. /\ Whole(n)
      /\ ~n.exited => /\ n.result = RunResult(k)
                      /\ n.reg["NPU_WEIGHTS"] = RunWeights(k)
                      /\ FromMemory(k) => /\ BuffersInRange(k)
                                          /\ k.reg["UMEM_NPU_OUTPUT"] \in DOMAIN k.mem.out =>
                                               n.mem.out[k.reg["UMEM_NPU_OUTPUT"]] = RunResult(k)
      /\ BuffersInRange(k) \/ ~FromMemory(k) => n.exited = k.exited
  BY <1>3, NpuComputes
<1>8. \A r \in Registers \ Operands : n.reg[r] = k.reg[r]
  BY <1>3, NpuLeaves DEF Leaves
<1> HIDE DEF n
<1> QED
  BY <1>1, <1>3, <1>4, <1>5, <1>6, <1>7, <1>8

(* The clearing of a done bit.                                             *)
LEMMA StatusOnly ==
  ASSUME NEW e, Whole(e), NEW v
  PROVE  LET n == WriteStatus(e, v)
         IN  n.reg = e.reg /\ n.mem = e.mem /\ n.result = e.result /\ n.exited = e.exited
  BY DEF WriteStatus, Whole, Fields

(* A start of the GPU by its client.                                       *)
LEMMA GpuControl ==
  ASSUME NEW e, Whole(e)
  PROVE  LET n == WriteControl(e, {"GPU_START"})
         IN  Whole(n) /\ n.reg["NPU_WEIGHTS"] = e.reg["NPU_WEIGHTS"]
<1> DEFINE f == [r \in {"CONTROL"} |-> {"GPU_START"}]
           k == Keep(e, f)
           n == WriteControl(e, {"GPU_START"})
<1>1. n = k \/ n = emu_run_gpu_clear(k) \/ n = emu_run_gpu_draw(k)
  BY DEF WriteControl
<1>2. DOMAIN f \subseteq Registers /\ "NPU_WEIGHTS" \in Registers \ DOMAIN f
  BY DEF Registers, Others, Operands
<1> HIDE DEF f
<1>3. Whole(k) /\ k.reg["NPU_WEIGHTS"] = e.reg["NPU_WEIGHTS"]
  BY <1>2, Kept
<1> HIDE DEF k, n
<1>4. Whole(n) /\ n.reg = k.reg
  BY <1>1, <1>3, GpuRegs
<1> QED
  BY <1>3, <1>4 DEF n

(* A direct inference.                                                     *)
LEMMA RunSampled ==
  ASSUME SampleInv, EmuOK(emu), run_npu_sample
  PROVE  SampleInv'
<1> DEFINE f(m, in) == [r \in {"NPU_MODEL", "NPU_SEQ", "NPU_INPUT0", "NPU_INPUT1"} |->
                    CASE r = "NPU_MODEL" -> m
                      [] r = "NPU_SEQ" -> 8
                      [] r = "NPU_INPUT0" -> in[1]
                      [] r = "NPU_INPUT1" -> in[2]]
           ran(m, in) == WriteControl(Keep(emu, f(m, in)), {"NPU_START"})
<1>1. PICK m \in Models, in \in Inputs :
        \E n \in {ran(m, in)} :
          /\ emu' = WriteStatus(n, {"CLR_NPU_DONE"})
          /\ sample' = [sample EXCEPT !.model = m, !.input = in, !.result = n.result,
                                      !.own = FromRegisters(m) => sample.clean]
  <2>1. \E m \in Models, in \in Inputs :
          \E n \in {ran(m, in)} :
            /\ "NPU_DONE" \in ReadStatus(n)
            /\ emu' = WriteStatus(n, {"CLR_NPU_DONE"})
            /\ sample' = [sample EXCEPT !.model = m, !.input = in, !.result = n.result,
                                        !.own = FromRegisters(m) => sample.clean]
    BY Zenon DEF run_npu_sample
  <2> HIDE DEF ran
  <2> QED
    BY <2>1
<1> DEFINE g == f(m, in)
           k == Keep(emu, g)
           n == WriteControl(k, {"NPU_START"})
<1>2. ~UsesBuffer(emu, "NPU_USE_BUF") /\ ~emu.exited /\ Whole(emu)
  BY DEF run_npu_sample, Direct, Idle, EmuOK
<1>3. /\ DOMAIN g = {"NPU_MODEL", "NPU_SEQ", "NPU_INPUT0", "NPU_INPUT1"}
      /\ DOMAIN g \subseteq Registers
      /\ g["NPU_MODEL"] = m /\ g["NPU_SEQ"] = 8
      /\ g["NPU_INPUT0"] = in[1] /\ g["NPU_INPUT1"] = in[2]
      /\ "UMEM_CTRL" \in Registers \ DOMAIN g /\ "NPU_WEIGHTS" \in Registers \ DOMAIN g
  BY DEF Registers, Saved, Operands
<1>4. n = ran(m, in)
  OBVIOUS
<1> HIDE DEF g, ran, f
<1>a. /\ emu' = WriteStatus(n, {"CLR_NPU_DONE"})
      /\ sample' = [sample EXCEPT !.model = m, !.input = in, !.result = n.result,
                                  !.own = FromRegisters(m) => sample.clean]
  <2> HIDE DEF n
  <2> QED
    BY <1>1, <1>4
<1>5. /\ Whole(k) /\ k.exited = emu.exited
      /\ k.reg["NPU_MODEL"] = m /\ k.reg["NPU_SEQ"] = 8
      /\ k.reg["NPU_INPUT0"] = in[1] /\ k.reg["NPU_INPUT1"] = in[2]
      /\ k.reg["UMEM_CTRL"] = emu.reg["UMEM_CTRL"]
      /\ k.reg["NPU_WEIGHTS"] = emu.reg["NPU_WEIGHTS"]
  BY <1>2, <1>3, Kept
<1> HIDE DEF k
<1>6. ~FromMemory(k)
  BY <1>2, <1>5 DEF FromMemory, UsesBuffer
<1>7. /\ Whole(n) /\ ~n.exited /\ n.result = RunResult(k) /\ n.reg["NPU_WEIGHTS"] = RunWeights(k)
  BY <1>2, <1>5, <1>6, NpuControl
<1>8. /\ RunWeights(k) = emu.reg["NPU_WEIGHTS"]
      /\ RunResult(k) = Infer(m, 8, in[1], in[2], emu.reg["NPU_WEIGHTS"])
  <2>1. RunInput(k)[1] = in[1] /\ RunInput(k)[2] = in[2] /\ RunWeights(k) = emu.reg["NPU_WEIGHTS"]
    BY <1>5, <1>6 DEF RunInput, RunWeights
  <2> QED
    BY <1>5, <2>1 DEF RunResult
<1> HIDE DEF n
<1>9. emu'.reg["NPU_WEIGHTS"] = emu.reg["NPU_WEIGHTS"]
  BY <1>a, <1>7, <1>8, StatusOnly
<1>10. /\ DOMAIN sample' = SampleFields /\ sample'.weights = sample.weights
       /\ sample'.clean = sample.clean /\ sample'.own = (FromRegisters(m) => sample.clean)
       /\ sample'.model = m /\ sample'.input = in /\ sample'.result = n.result
  BY <1>a DEF SampleInv, SampleFields
<1>11. ASSUME sample'.own
       PROVE  IsInference(n.result, m, 8, in[1], in[2], select_npu_weights(m, sample.weights))
  <2>1. in[1] \in Lanes /\ in[2] \in Lanes
    BY ClientAssumption
  <2>2. FromRegisters(m) => emu.reg["NPU_WEIGHTS"] = sample.weights /\ sample.weights \in RuntimeWeights
    BY <1>10, <1>11 DEF SampleInv
  <2>3. IsInference(n.result, m, 8, in[1], in[2], select_npu_weights(m, emu.reg["NPU_WEIGHTS"]))
    BY <1>7, <1>8, <2>1, <2>2, InferRight
  <2>4. select_npu_weights(m, emu.reg["NPU_WEIGHTS"]) = select_npu_weights(m, sample.weights)
    BY <2>2 DEF select_npu_weights
  <2> QED
    BY <2>3, <2>4
<1>12. SampleIsOwn'
  BY <1>10, <1>11 DEF SampleIsOwn
<1> QED
  BY <1>9, <1>10, <1>12 DEF SampleInv

(* An inference of the unified memory demo.                                *)
LEMMA UnifiedSampled ==
  ASSUME SampleInv, EmuOK(emu), MemOK(emu), CtrlOK, run_unified_npu
  PROVE  SampleInv'
<1> DEFINE a == emu.reg["UMEM_NPU_INPUT"]
           b == emu.reg["UMEM_NPU_WEIGHT"]
           c == emu.reg["UMEM_NPU_OUTPUT"]
           f == [r \in {"NPU_MODEL", "NPU_SEQ"} |-> IF r = "NPU_MODEL" THEN RUNTIME ELSE 8]
           ran(in, w) == WriteControl(Keep(StoredIn(emu, a, b, in, w), f), {"NPU_START"})
<1>1. PICK in \in Inputs, w \in Runtimes :
        /\ emu' = WriteStatus(ran(in, w), {"CLR_NPU_DONE"})
        /\ sample' = [weights |-> w, clean |-> TRUE, own |-> TRUE, model |-> RUNTIME,
                      input |-> in, result |-> ran(in, w).mem.out[ran(in, w).reg["UMEM_NPU_OUTPUT"]]]
  BY Zenon DEF run_unified_npu, StoredIn
<1> DEFINE s == StoredIn(emu, a, b, in, w)
           k == Keep(s, f)
           n == WriteControl(k, {"NPU_START"})
<1>2. UsesBuffer(emu, "NPU_USE_BUF") /\ ~emu.exited /\ Whole(emu)
  BY DEF run_unified_npu, Direct, Idle, EmuOK
<1>3. a \in Bufs /\ b \in Bufs /\ c \in Bufs
  BY DEF CtrlOK, BufferRegs
<1>4. /\ DOMAIN f = {"NPU_MODEL", "NPU_SEQ"} /\ DOMAIN f \subseteq Registers
      /\ f["NPU_MODEL"] = RUNTIME /\ f["NPU_SEQ"] = 8
      /\ \A r \in {"UMEM_CTRL", "UMEM_NPU_INPUT", "UMEM_NPU_WEIGHT", "UMEM_NPU_OUTPUT"} :
           r \in Registers \ DOMAIN f
  BY DEF Registers, Saved
<1>5. n = ran(in, w)
  OBVIOUS
<1>6. /\ Whole(s) /\ MemOK(s) /\ s.reg = emu.reg /\ s.exited = emu.exited
      /\ s.mem.in[a] = in /\ s.mem.w[b] = w
  <2> HIDE DEF a, b
  <2>1. Whole(s) /\ s.reg = emu.reg /\ s.exited = emu.exited
    BY <1>2, BuffersStored
  <2>2. MemOK(s)
    BY <1>2, OperandsWritten
  <2>3. a \in DOMAIN emu.mem.in /\ b \in DOMAIN emu.mem.w
    BY <1>3 DEF MemOK, OperandsOK
  <2>4. s.mem.in[a] = in /\ s.mem.w[b] = w
    BY <1>2, <2>3, BuffersRead
  <2> QED
    BY <2>1, <2>2, <2>4
<1> HIDE DEF f, ran, s
<1>7. /\ Whole(k) /\ k.mem = s.mem /\ k.exited = emu.exited
      /\ k.reg["NPU_MODEL"] = RUNTIME /\ k.reg["NPU_SEQ"] = 8
      /\ k.reg["UMEM_CTRL"] = emu.reg["UMEM_CTRL"] /\ k.reg["UMEM_NPU_INPUT"] = a
      /\ k.reg["UMEM_NPU_WEIGHT"] = b /\ k.reg["UMEM_NPU_OUTPUT"] = c
  BY <1>4, <1>6, Kept
<1> HIDE DEF k, a, b, c
<1>8. FromMemory(k) /\ BuffersInRange(k) /\ FromRegisters(RUNTIME)
  BY <1>2, <1>3, <1>7 DEF FromMemory, UsesBuffer, BuffersInRange, FromRegisters
<1>9. /\ RunInput(k) = in /\ RunWeights(k) = w /\ RunResult(k) = Infer(RUNTIME, 8, in[1], in[2], w)
  <2>1. RunInput(k) = in /\ RunWeights(k) = w
    BY <1>6, <1>7, <1>8 DEF RunInput, RunWeights
  <2> QED
    BY <1>7, <2>1 DEF RunResult
<1>10. c \in DOMAIN k.mem.out
  BY <1>3, <1>6, <1>7 DEF MemOK
<1>11. /\ Whole(n) /\ ~n.exited /\ n.reg["NPU_WEIGHTS"] = w
       /\ n.mem.out[c] = RunResult(k) /\ n.reg["UMEM_NPU_OUTPUT"] = c
  <2>1. "UMEM_NPU_OUTPUT" \in Registers \ (Operands \cup {"CONTROL"})
    BY DEF Registers, Saved, Operands
  <2> QED
    BY <1>2, <1>7, <1>8, <1>9, <1>10, <2>1, NpuControl
<1> HIDE DEF n
<1>12. emu'.reg["NPU_WEIGHTS"] = w
  BY <1>1, <1>5, <1>11, StatusOnly
<1>13. /\ DOMAIN sample' = SampleFields /\ sample'.weights = w /\ sample'.model = RUNTIME
       /\ sample'.input = in /\ sample'.result = n.mem.out[c]
  BY <1>1, <1>5, <1>11 DEF SampleFields
<1>14. in[1] \in Lanes /\ in[2] \in Lanes /\ w \in RuntimeWeights
  BY ClientAssumption
<1>15. IsInference(n.mem.out[c], RUNTIME, 8, in[1], in[2], select_npu_weights(RUNTIME, w))
  BY <1>9, <1>11, <1>14, InferRight
<1> QED
  BY <1>12, <1>13, <1>14, <1>15 DEF SampleInv, SampleIsOwn

(* New weights in the registers.                                           *)
LEMMA WeightsSampled ==
  ASSUME SampleInv, EmuOK(emu), write_runtime_model
  PROVE  SampleInv'
<1>1. PICK w \in Runtimes :
        /\ emu' = Keep(emu, Set1("NPU_WEIGHTS", w))
        /\ sample' = [sample EXCEPT !.weights = w, !.clean = TRUE, !.own = FALSE]
  BY DEF write_runtime_model
<1> DEFINE f == Set1("NPU_WEIGHTS", w)
<1>2. DOMAIN f = {"NPU_WEIGHTS"} /\ f["NPU_WEIGHTS"] = w /\ DOMAIN f \subseteq Registers
  BY DEF Set1, Registers, Operands
<1>3. emu' = Keep(emu, f) /\ Whole(emu)
  BY <1>1 DEF EmuOK
<1> HIDE DEF f
<1>4. emu'.reg["NPU_WEIGHTS"] = w
  BY <1>2, <1>3, Kept
<1>5. DOMAIN sample' = SampleFields /\ sample'.weights = w /\ ~sample'.own
  BY <1>1 DEF SampleInv, SampleFields
<1>6. w \in RuntimeWeights
  BY ClientAssumption
<1> QED
  BY <1>4, <1>5, <1>6 DEF SampleInv, SampleIsOwn

(* The calls that write neither the weight registers nor the sample.       *)
LEMMA OperandsSampled ==
  ASSUME SampleInv, EmuOK(emu), write_umem_operands
  PROVE  SampleInv'
<1>1. PICK b \in Bufs, i \in Inputs, v \in Runtimes : emu' = StoredIn(emu, b, b, i, v)
  BY Zenon DEF write_umem_operands, StoredIn
<1>2. emu'.reg = emu.reg
  BY <1>1, BuffersStored DEF EmuOK
<1>3. sample' = sample
  BY DEF write_umem_operands, history
<1> QED
  BY <1>2, <1>3, SampleStays

(* A drawing call.                                                         *)
LEMMA DrawingSampled ==
  ASSUME SampleInv, EmuOK(emu), gpu_clear \/ gpu_draw
  PROVE  SampleInv'
<1>1. ASSUME NEW f, DOMAIN f \subseteq Registers \ Operands,
             emu' = WriteStatus(WriteControl(Keep(emu, f), {"GPU_START"}), {"CLR_GPU_DONE"})
      PROVE  emu'.reg["NPU_WEIGHTS"] = emu.reg["NPU_WEIGHTS"]
  <2> DEFINE k == Keep(emu, f)
             n == WriteControl(k, {"GPU_START"})
  <2>1. DOMAIN f \subseteq Registers /\ "NPU_WEIGHTS" \in Registers \ DOMAIN f /\ Whole(emu)
    BY <1>1 DEF Registers, Operands, EmuOK
  <2>2. Whole(k) /\ k.reg["NPU_WEIGHTS"] = emu.reg["NPU_WEIGHTS"]
    BY <2>1, Kept
  <2>3. emu' = WriteStatus(n, {"CLR_GPU_DONE"})
    BY <1>1
  <2> HIDE DEF k
  <2>4. Whole(n) /\ n.reg["NPU_WEIGHTS"] = k.reg["NPU_WEIGHTS"]
    BY <2>2, GpuControl
  <2> HIDE DEF n
  <2>5. emu'.reg = n.reg
    BY <2>3, <2>4, StatusOnly
  <2> QED
    BY <2>2, <2>4, <2>5
<1>2. CASE gpu_clear
  <2> DEFINE f == [r \in {"GPU_CLEAR_VALUE", "GPU_CMD"} |-> IF r = "GPU_CMD" THEN CLEAR ELSE 0]
  <2>1. /\ emu' = WriteStatus(WriteControl(Keep(emu, f), {"GPU_START"}), {"CLR_GPU_DONE"})
        /\ sample' = sample
    BY <1>2 DEF gpu_clear
  <2>2. DOMAIN f \subseteq Registers \ Operands
    BY DEF Registers, Saved, Operands
  <2> HIDE DEF f
  <2> QED
    BY <1>1, <2>1, <2>2, SampleStays
<1>3. CASE gpu_draw
  <2> DEFINE f(t) == [r \in {"GPU_VERTEX0", "GPU_VERTEX1", "GPU_VERTEX2", "GPU_CMD"} |->
                        CASE r = "GPU_VERTEX0" -> t[1]
                          [] r = "GPU_VERTEX1" -> t[2]
                          [] r = "GPU_VERTEX2" -> t[3]
                          [] r = "GPU_CMD" -> DRAW_TRI]
  <2>1. PICK t \in Triangles :
          emu' = WriteStatus(WriteControl(Keep(emu, f(t)), {"GPU_START"}), {"CLR_GPU_DONE"})
    BY <1>3 DEF gpu_draw
  <2>2. DOMAIN f(t) \subseteq Registers \ Operands
    BY DEF Registers, Saved, Operands
  <2>3. sample' = sample
    BY <1>3 DEF gpu_draw
  <2> HIDE DEF f
  <2> QED
    BY <1>1, <2>1, <2>2, <2>3, SampleStays
<1> QED
  BY <1>2, <1>3

(* A turn of the loop: only a run of a runtime model loads weights over    *)
(* the client's.                                                           *)
LEMMA TurnSampled ==
  ASSUME SampleInv, EmuOK(emu), MemOK(emu), ProcessDescriptor
  PROVE  SampleInv'
<1> DEFINE d == emu.mem.ring[emu.reg["CMDQ_TAIL"] % Entries].desc
<1>1. emu' = ProcessOne(emu) /\ ~emu.exited
  BY DEF ProcessDescriptor
<1>2. emu.mem.ring[emu'.last.slot].desc = d
  BY <1>1, TurnPaints
<1>3. sample' = [sample EXCEPT !.clean = sample.clean /\ ~Overwrites(d)]
  <2>1. sample' = [sample EXCEPT !.clean = sample.clean
                     /\ ~Overwrites(emu.mem.ring[emu'.last.slot].desc)]
    BY DEF ProcessDescriptor
  <2> QED
    BY <1>2, <2>1
<1> HIDE DEF d
<1>4. PICK f : RunsJob(emu, f, ProcessOne(emu), d)
  BY TurnRuns DEF d
<1>5. /\ Whole(f) /\ f.mem = emu.mem /\ f.reg = emu.reg /\ ~f.exited
      /\ emu'.reg["NPU_WEIGHTS"] = execute_desc(f, d).reg["NPU_WEIGHTS"]
  BY <1>1, <1>4 DEF RunsJob
<1>6. DOMAIN f.mem.out = Bufs
  BY <1>5 DEF MemOK
<1>7. ASSUME ~Overwrites(d) PROVE emu'.reg["NPU_WEIGHTS"] = emu.reg["NPU_WEIGHTS"]
  <2>1. ~(d.opcode = NPU_INFER /\ FromRegisters(ModelOf(f, d)))
    BY <1>5, <1>7 DEF Overwrites, ModelOf
  <2> QED
    BY <1>5, <1>6, <2>1, JobKeepsWeights
<1>8. /\ DOMAIN sample' = SampleFields /\ sample'.weights = sample.weights
      /\ sample'.clean <=> sample.clean /\ ~Overwrites(d)
      /\ sample'.own = sample.own /\ sample'.model = sample.model
      /\ sample'.input = sample.input /\ sample'.result = sample.result
  BY <1>3 DEF SampleInv, SampleFields
<1> QED
  BY <1>7, <1>8 DEF SampleInv, SampleIsOwn

(* Every step.                                                             *)
LEMMA NextSample ==
  QueueInv /\ EInv /\ TypeInv /\ MemOK(emu) /\ SampleInv /\ [Next]_vars => SampleInv'
<1> SUFFICES ASSUME EInv, TypeInv, MemOK(emu), SampleInv, [Next]_vars PROVE SampleInv'
  OBVIOUS
<1>0. EmuOK(emu) /\ Whole(emu) /\ CtrlOK /\ "NPU_WEIGHTS" \in Registers
  BY DEF EInv, EmuOK, TypeInv, Registers, Operands
<1>1. CASE run_npu_sample
  BY <1>0, <1>1, RunSampled
<1>2. CASE run_unified_npu
  BY <1>0, <1>2, UnifiedSampled
<1>3. CASE write_runtime_model
  BY <1>0, <1>3, WeightsSampled
<1>4. CASE write_umem_operands
  BY <1>0, <1>4, OperandsSampled
<1>5. CASE gpu_clear \/ gpu_draw
  BY <1>0, <1>5, DrawingSampled
<1>6. CASE ProcessDescriptor
  BY <1>0, <1>6, TurnSampled
<1>7. CASE accel_cmdq_host_push \/ accel_cmdq_host_submit \/ accel_cmdq_host_reset
           \/ configure_unified_memory \/ FinishProcess
  <2>1. sample' = sample
    BY <1>7 DEF accel_cmdq_host_push, accel_cmdq_host_submit, accel_cmdq_host_reset,
       configure_unified_memory, FinishProcess, history
  <2>2. CASE accel_cmdq_host_push
    <3>1. emu'.reg = emu.reg
      BY <1>0, <2>2, PushChanges
    <3> QED
      BY <2>1, <3>1, SampleStays
  <2>3. CASE accel_cmdq_host_submit
    BY <1>0, <2>1, <2>3, SubmitLeaves, SampleStays
  <2>4. CASE accel_cmdq_host_reset
    BY <1>0, <2>1, <2>4, ResetLeaves, SampleStays
  <2>5. CASE configure_unified_memory
    <3>1. "NPU_WEIGHTS" \in Registers \ (BufferRegs \cup {"UMEM_CTRL", "CMDQ_SIZE",
            "CMDQ_HEAD", "CMDQ_TAIL", "CMDQ_DOORBELL"})
      BY <1>0 DEF BufferRegs
    <3> QED
      BY <1>0, <2>1, <2>5, <3>1, ConfigureSets, SampleStays
  <2>6. CASE FinishProcess
    <3>1. emu'.reg = emu.reg
      BY <1>0, <2>6 DEF FinishProcess, EndProcess, emu_cmdq_refresh_status, Whole, Fields
    <3> QED
      BY <2>1, <3>1, SampleStays
  <2> QED
    BY <1>7, <2>2, <2>3, <2>4, <2>5, <2>6
<1>8. CASE UNCHANGED <<emu, sample>>
  BY <1>8, SampleStays
<1> QED
  BY <1>1, <1>2, <1>3, <1>4, <1>5, <1>6, <1>7, <1>8
  DEF Next, Library, Process, Client, accel_cmdq_host_sync, history, vars

(* A direct inference the client reads back is the one it asked for: of    *)
(* its inputs, with the weights it wrote last and no others, whatever was  *)
(* queued in between (accel_mmio_demo.c:304-317, 866-887).                 *)
THEOREM SamplesAreOwn == Spec => []SampleIsOwn
<1>1. MemOK(emu)' <=> MemOK(emu')
  BY DEF MemOK, OperandsOK
<1>2. EInv /\ MemOK(emu) /\ [Next]_vars => MemOK(emu)'
  BY <1>1, NextMem
<1>3. SampleInv => SampleIsOwn
  BY DEF SampleInv
<1> QED
  BY <1>2, <1>3, InitInvariant, NextInvariant, QueueInit, NextQueued, TypeInit, NextTyped,
     MemInit, SampleInit, NextSample, PTL DEF Spec
=============================================================================
