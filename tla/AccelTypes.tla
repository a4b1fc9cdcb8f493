------------------------------ MODULE AccelTypes ------------------------------
(***************************************************************************)
(* Vocabulary shared by the command-queue modules: the 32-bit words that   *)
(* travel from unified memory into the accelerator, the addresses they     *)
(* live at, and the descriptor ABI of linux/include/accel_unified_queue.h. *)
(*                                                                         *)
(* A word is abstracted to its provenance: the buffer it was read from,    *)
(* the job that buffer belongs to and its position in the buffer.  That is *)
(* what the properties tell apart (is this beat the right beat of the      *)
(* right job?); the 32 bits themselves are not.                            *)
(***************************************************************************)
EXTENDS Integers, Sequences

CONSTANTS
  EntryCount,   \* descriptors in the ring: UMEM_CMDQ_SIZE / 32
  CountMod,     \* the event counters count modulo this (2^32 in the RTL)
  Jobs,         \* jobs the client submits are numbered 1 .. Jobs
  OpcodesOf,    \* the opcodes the descriptor of each job may have
  RuntimeJobs   \* the NPU jobs whose model id is 0x80 or 0x81

Opcodes == {"NOP", "NPU_INFER", "GPU_CLEAR", "GPU_DRAW_TRI", "INVALID"}

ASSUME TypesAssumption ==
  /\ EntryCount \in Nat \ {0}
  /\ CountMod \in Nat \ {0, 1}
  /\ Jobs \in Nat \ {0}
  /\ OpcodesOf \in [1..Jobs -> (SUBSET Opcodes) \ {{}}]
  /\ RuntimeJobs \subseteq 1..Jobs

Slots == 0..EntryCount-1
Ids   == 0..Jobs          \* 0 is the all-zero memory of a slot never pushed

(* One more event on a counter register.                                   *)
Inc(n) == (n + 1) % CountMod

-----------------------------------------------------------------------------
(* Words and addresses.                                                    *)

Buffers == {"zero", "junk", "mmio", "desc", "input", "weight"}
Word    == [buf : Buffers, id : Ids, beat : 0..7]

Zero == [buf |-> "zero", id |-> 0, beat |-> 0]   \* a register after reset
Junk == [buf |-> "junk", id |-> 0, beat |-> 0]   \* data of an errored beat

(* The word beat b of job id's descriptor, input or weight buffer holds.   *)
MemWord(buf, id, b) == [buf |-> buf, id |-> id, beat |-> b]

(* The word a software-visible NPU operand register holds.                 *)
MmioWord(b) == MemWord("mmio", 0, b)

(* A burst address: the ring slot of a descriptor, or the buffer that an   *)
(* offset word of a job's descriptor points to.                            *)
Address == [buf : {"desc"}, at : Slots] \cup [buf : {"input", "weight"}, at : Ids]

-----------------------------------------------------------------------------
(* The descriptor: eight words.                                            *)

DescBeats   == 8
Descriptor  == [0..DescBeats-1 -> Word]
ZeroDesc    == [b \in 0..DescBeats-1 |-> Zero]
DescOf(id)  == [b \in 0..DescBeats-1 |-> MemWord("desc", id, b)]

(* The opcodes that the word at the opcode position may stand for.  Zeroed *)
(* memory reads as opcode 0, NOP; an errored beat may carry any bits; a    *)
(* word that is not the opcode word of a descriptor matches no case of the *)
(* dispatcher.                                                             *)
OpcodesIn(w) ==
  CASE w.buf = "zero"                              -> {"NOP"}
    [] w.buf = "junk"                              -> Opcodes
    [] w.buf = "desc" /\ w.beat = 0 /\ w.id = 0    -> {"NOP"}
    [] w.buf = "desc" /\ w.beat = 0 /\ w.id # 0    -> OpcodesOf[w.id]
    [] OTHER                                       -> {"INVALID"}

(* What an NPU_INFER descriptor tells the NPU path.  An errored word taken *)
(* for an offset points to memory of no job, id 0, and one taken for a     *)
(* model id names a built-in model.                                        *)
NpuJob == [model : Word, seq : Word, input : Word, weight : Word, output : Word]

JobIn(d) == [model |-> d[1], seq |-> d[6], input |-> d[2],
             weight |-> d[3], output |-> d[5]]

ZeroJob == [model |-> Zero, seq |-> Zero, input |-> Zero,
            weight |-> Zero, output |-> Zero]
=============================================================================
