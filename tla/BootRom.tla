------------------------------- MODULE BootRom -------------------------------
(***************************************************************************)
(* The boot ROM and its monitor (firmware/bootrom/bootrom.c, platform.h):  *)
(* the SD boot loader, the boot info block at the start of SRAM, and the   *)
(* command loop fed by the UART and the PS/2 keyboard.                     *)
(*                                                                         *)
(* linker.ld places .bss at the start of RAM, which is where bootrom.c     *)
(* also puts the boot info block (SRAM_BASE): the four static variables    *)
(* lie in words 0..3 of the block, in an order the linker chooses.  The    *)
(* language lets the compiler assume they do not overlap and keep them     *)
(* elsewhere.  layout is that choice: the word of info each variable is    *)
(* in, words 8..11 standing for storage apart from the block.              *)
(*                                                                         *)
(* Addresses and sizes are bytes and wrap at AddrMod.  The image's bytes   *)
(* are abstract: held is the set of SRAM words that still hold the image.  *)
(***************************************************************************)
EXTENDS Integers, Sequences

CONSTANTS
  AddrMod,      \* 2^32: addresses and sums of addresses wrap here
  SramBase,     \* SRAM_BASE
  SramBytes,    \* SRAM_SIZE_BYTES
  TestMargin,   \* the 0x200 of RAMTEST_MIN_BASE and RAMTEST_LIMIT
  StackBytes,   \* the monitor's stack, at the end of SRAM
  InfoMagic,    \* BOOT_INFO_MAGIC
  Headers,      \* the headers a card may present
  Payload,      \* the values a word of an image may have
  Layouts,      \* the places of the static variables, see layout
  UartChars,    \* the characters a terminal sends, "?" among them
  Scans,        \* the scan codes of the keys pressed
  MaxChars,     \* bound: characters of any kind; more of them are all "?"
  MaxKeys       \* bound: key presses and releases

Globals == {"boot_loaded", "boot_entry_addr", "ps2_break_prefix",
            "ps2_extended_prefix"}
Header == [magic_ok : BOOLEAN, version_ok : BOOLEAN, load : 0..AddrMod-1,
           size : 0..AddrMod-1, entry : 0..AddrMod-1, sum : 0..AddrMod-1,
           intact : BOOLEAN]

ASSUME BootAssumption ==
  /\ AddrMod \in Nat /\ SramBase \in Nat /\ SramBytes \in Nat
  /\ SramBytes >= 48 /\ SramBase + SramBytes + 32 <= AddrMod
  /\ SramBase % 4 = 0 /\ SramBytes % 4 = 0 /\ AddrMod % 32 = 0
  /\ TestMargin \in Nat /\ TestMargin >= 32 /\ TestMargin % 4 = 0
  /\ 2 * TestMargin + 16 <= SramBytes
  /\ StackBytes \in 1..SramBytes
  /\ InfoMagic \in 1..AddrMod-1
  /\ Headers \subseteq Header /\ Payload \subseteq 0..AddrMod-1
  /\ Layouts \subseteq [Globals -> 0..3 \cup 8..11]
  /\ \A l \in Layouts : \A g, h \in Globals : l[g] = l[h] => g = h
  /\ "?" \in UartChars /\ Scans \subseteq 1..223
  /\ MaxChars \in Nat /\ MaxKeys \in Nat

VARIABLES
  layout,    \* where the linker and the compiler put the static variables
  info,      \* words 0..7 the boot info block, 8..11 see layout
  held,      \* the words of SRAM that hold the image's data
  pc,        \* where the monitor is
  hdr,       \* the header that was accepted last, or NoHeader
  copied,    \* bytes of the image copied
  verified,  \* history: the image's checksum matched since the last attempt
  ch,        \* the character the loop is handling, and where it came from
  led,       \* LED0
  npu,       \* the NPU-lite block: accumulator, row results, done bit
  reply,     \* the line the monitor printed, until it polls again
  uart,      \* the UART's receive buffer, "" when empty
  ps2,       \* the keyboard port
  line,      \* scan codes on their way from the keyboard
  used       \* characters, up to MaxChars, and keys so far

loader == <<hdr, copied, verified, held>>
inputs == <<uart, ps2, line>>
vars == <<layout, info, loader, pc, ch, npu, led, reply, inputs, used>>

OK == 1
BadMagic == 225     \* 0xE1, and so on
BadRange == 226
BadSize == 227
BadEntry == 228
BadChecksum == 229

Wrap(a) == a % AddrMod
(* Mutant: a byte offset is taken for a word's.                            *)
ByteOf(a) == a - SramBase

WordOf(a) == (a - SramBase) \div 4
SramWords == 0 .. SramBytes \div 4 - 1
BlockWords == 0..7
ImageWords(h) == WordOf(h.load) .. WordOf(h.load + h.size - 1)
StackWords == { w \in SramWords : 4 * w >= SramBytes - StackBytes - 3 }
(* Nothing was loaded, or the image is clear of the monitor's stack and of *)
(* the static variables.                                                   *)
Apart == \A g \in Globals : layout[g] >= 8
Clear(h) == h.size = 0 \/ ( /\ Apart \/ h.load >= SramBase + 32
                           /\ h.load + h.size <= SramBase + SramBytes - StackBytes - 4 )

Global(g) == info[layout[g]]
Write(f, g, v) == [f EXCEPT ![layout[g]] = v]
Say(s) == reply' = s
Prompt == pc' = "poll" /\ ch' = [c |-> "", from |-> "none"]

NoHeader == [magic_ok |-> FALSE, version_ok |-> FALSE, load |-> 0,
             size |-> 0, entry |-> 0, sum |-> 0, intact |-> FALSE]

(* The kinds of scan code, a history of the keyboard's own: a press, a     *)
(* prefix, what follows a prefix, and what follows a prefix that was lost. *)
Code(c, k) == [code |-> c, kind |-> k]
BREAK == 240
EXTENDED == 224

IdleNpu == [acc |-> 0, rows |-> <<0, 0, 0>>, done |-> FALSE]

(* main: the banner, then the first boot attempt.                          *)
Init ==
  /\ layout \in Layouts
  /\ info = [w \in 0..11 |-> 0] /\ held = {}
  /\ pc = "boot" /\ ch = [c |-> "", from |-> "none"]
  /\ hdr = NoHeader /\ copied = 0 /\ verified = FALSE
  /\ npu = IdleNpu
  /\ led = TRUE /\ reply = "RV32 PC"
  /\ uart = "" /\ line = <<>>
  /\ ps2 = [rx_data |-> Code(0, "none"), rx_valid |-> FALSE, overflow |-> FALSE]
  /\ used = [chars |-> 0, keys |-> 0]

-----------------------------------------------------------------------------
(* The boot loader.                                                        *)

(* What follows a prefix the monitor will not remember is an orphan.       *)
Orphan(c) == IF c.kind = "after" THEN [c EXCEPT !.kind = "orphan"] ELSE c
OrphanHead(s) == IF s = <<>> THEN s ELSE [s EXCEPT ![1] = Orphan(s[1])]

(* Mutant: an attempt leaves boot_loaded and boot_entry_addr as they were. *)
ClearedInfoOnly == [w \in 0..11 |-> IF w < 8 THEN 0 ELSE info[w]]

ClearedInfo == Write(Write([w \in 0..11 |-> IF w < 8 THEN 0 ELSE info[w]],
                           "boot_loaded", 0), "boot_entry_addr", 0)

(* Every attempt first forgets the last one.  Clearing the block clears a  *)
(* pending prefix that lies in it.                                         *)
BeginBoot ==
  /\ pc = "boot"
  /\ info' = ClearedInfo
  /\ held' = held \ BlockWords
  /\ verified' = FALSE
  /\ LET forgotten == \E g \in {"ps2_break_prefix", "ps2_extended_prefix"} :
                         Global(g) # 0 /\ info'[layout[g]] = 0
     IN  IF forgotten /\ ps2.rx_valid
         THEN ps2' = [ps2 EXCEPT !.rx_data = Orphan(@)] /\ UNCHANGED line
         ELSE /\ line' = (IF forgotten THEN OrphanHead(line) ELSE line)
              /\ UNCHANGED ps2
  /\ pc' = "header"
  /\ UNCHANGED <<layout, hdr, copied, ch, npu, led, reply, uart, used>>

(* Mutant: the size is compared with the whole of SRAM.                    *)
RangeBadWholeSram(h) ==
  LET load_offset == Wrap(h.load - SramBase)
  IN  load_offset > SramBytes \/ h.size > SramBytes

RangeBad(h) ==
  LET load_offset == Wrap(h.load - SramBase)
  IN  load_offset > SramBytes \/ h.size > SramBytes - load_offset

(* The checks of the header, in their order.                               *)
Verdict(h) ==
  CASE ~h.magic_ok \/ ~h.version_ok -> BadMagic
    [] h.magic_ok /\ h.version_ok /\ h.size = 0 -> BadSize
    [] h.magic_ok /\ h.version_ok /\ h.size # 0
       /\ (h.load < SramBase \/ RangeBad(h)) -> BadRange
    [] OTHER -> IF h.entry < h.load \/ h.entry >= Wrap(h.load + h.size)
                THEN BadEntry ELSE OK

RejectHeader ==
  /\ pc = "header"
  /\ \E h \in Headers :
       /\ Verdict(h) # OK
       /\ info' = [info EXCEPT ![5] = Verdict(h)]
  /\ hdr' = NoHeader /\ copied' = 0 /\ held' = {}
  /\ Say("BOOT=ER") /\ Prompt
  /\ UNCHANGED <<layout, verified, npu, led, inputs, used>>

AcceptHeader ==
  /\ pc = "header"
  /\ hdr' \in { h \in Headers : Verdict(h) = OK }
  /\ copied' = 0 /\ held' = {}
  /\ pc' = "copy"
  /\ UNCHANGED <<layout, info, verified, ch, npu, led, reply, inputs, used>>

(* The bytes of one word of SRAM.  A word of the block takes the image's   *)
(* value; a word of the stack may hold what the monitor returns through.   *)
CopyWord ==
  LET addr == hdr.load + copied
      w    == WordOf(addr)
      next == copied + (4 - (addr % 4))
  IN  /\ pc = "copy" /\ copied < hdr.size
      /\ copied' = (IF next < hdr.size THEN next ELSE hdr.size)
      /\ held' = held \cup {w}
      /\ IF w \in BlockWords THEN \E v \in Payload : info' = [info EXCEPT ![w] = v]
                             ELSE UNCHANGED info
      /\ pc' \in {"copy"} \cup (IF w \in StackWords THEN {"wild"} ELSE {})
      /\ UNCHANGED <<layout, hdr, verified, ch, npu, led, reply, inputs, used>>

RejectImage ==
  /\ pc = "copy" /\ copied = hdr.size /\ ~hdr.intact
  /\ info' = [info EXCEPT ![5] = BadChecksum]
  /\ held' = held \ {5}
  /\ Say("BOOT=ER") /\ Prompt
  /\ UNCHANGED <<layout, hdr, copied, verified, npu, led, inputs, used>>

(* write_boot_info, then the two variables, which lie in the block.        *)
BootInfo(h) ==
  [w \in 0..11 |-> IF w < 8 THEN <<InfoMagic, h.load, h.size, h.entry, h.sum,
                                   OK, 0, 0>>[w + 1]
                            ELSE info[w]]

AcceptImage ==
  /\ pc = "copy" /\ copied = hdr.size /\ hdr.intact
  /\ info' = Write(Write(BootInfo(hdr), "boot_entry_addr", hdr.entry),
                   "boot_loaded", 1)
  /\ held' = held \ BlockWords
  /\ verified' = TRUE
  /\ Say("BOOT=OK") /\ Prompt
  /\ UNCHANGED <<layout, hdr, copied, npu, led, inputs, used>>

-----------------------------------------------------------------------------
(* The command loop: the UART first, then the keyboard.                    *)

PollUart ==
  /\ pc = "poll"
  /\ IF uart # "" THEN ch' = [c |-> uart, from |-> "uart"] /\ pc' = "run"
                  ELSE pc' = "status" /\ UNCHANGED ch
  /\ uart' = "" /\ Say("")
  /\ UNCHANGED <<layout, info, loader, npu, led, ps2, line, used>>

(* Mutant: a port that has overflowed is left alone.                       *)
CodeWaitingNoOverflow == ps2.rx_valid /\ ~ps2.overflow

CodeWaiting == ps2.rx_valid

PollStatus ==
  /\ pc = "status"
  /\ pc' = (IF CodeWaiting THEN "data" ELSE "poll")
  /\ UNCHANGED <<layout, info, loader, ch, npu, led, reply, inputs, used>>

(* The scan codes that stand for a character.  The code also stands for    *)
(* the character where the block remembers it, as a value that is not zero.*)
Decoded == [a |-> 28, c |-> 33, x |-> 34, b |-> 50, g |-> 52, h |-> 51, i |-> 67,
            k |-> 66, l |-> 75, m |-> 58, n |-> 49, p |-> 77, r |-> 45, t |-> 44,
            v |-> 42]

decode_ps2_ascii(scan) ==
  IF \E c \in DOMAIN Decoded : Decoded[c] = scan
  THEN CHOOSE c \in DOMAIN Decoded : Decoded[c] = scan ELSE ""

Swallowed == Global("ps2_break_prefix") # 0 \/ Global("ps2_extended_prefix") # 0

(* Mutant: the extended prefix is dropped, not remembered.                 *)
KeyInfoNoExtended(scan) ==
  CASE scan = BREAK -> Write(info, "ps2_break_prefix", 1)
    [] scan = EXTENDED -> info
    [] scan \notin {BREAK, EXTENDED} /\ Swallowed ->
         Write(Write(info, "ps2_break_prefix", 0), "ps2_extended_prefix", 0)
    [] OTHER -> IF decode_ps2_ascii(scan) = "" THEN info
                ELSE [info EXCEPT ![6] = scan, ![7] = Decoded[decode_ps2_ascii(scan)]]

(* What a scan code does to the prefixes and to the key the block          *)
(* remembers.                                                              *)
KeyInfo(scan) ==
  CASE scan = BREAK -> Write(info, "ps2_break_prefix", 1)
    [] scan = EXTENDED -> Write(info, "ps2_extended_prefix", 1)
    [] scan \notin {BREAK, EXTENDED} /\ Swallowed ->
         Write(Write(info, "ps2_break_prefix", 0), "ps2_extended_prefix", 0)
    [] OTHER -> IF decode_ps2_ascii(scan) = "" THEN info
                ELSE [info EXCEPT ![6] = scan, ![7] = Decoded[decode_ps2_ascii(scan)]]

IsCommand(scan) == /\ scan \notin {BREAK, EXTENDED} /\ ~Swallowed
                   /\ decode_ps2_ascii(scan) # ""

(* The read of the data register.  A code that arrives at the edge of the  *)
(* read is lost: the read clears the valid flag the arrival sets.  If      *)
(* nobody will remember the code read, what follows it is an orphan.       *)
ReadData(remembered) ==
  \/ /\ ps2' = [ps2 EXCEPT !.rx_valid = FALSE]
     /\ line' = (IF remembered THEN line ELSE OrphanHead(line))
  \/ /\ line # <<>>
     /\ ps2' = [rx_data |-> Head(line), rx_valid |-> FALSE,
                overflow |-> ps2.overflow \/ ps2.rx_valid]
     /\ line' = (IF Head(line).kind = "prefix"
                 THEN OrphanHead(Tail(line)) ELSE Tail(line))

(* What the loop does with the code it reads.                              *)
PollData ==
  LET scan == ps2.rx_data.code
  IN  /\ pc = "data"
      /\ info' = KeyInfo(scan)
      /\ held' = held \ { w \in BlockWords : info'[w] # info[w] }
      /\ IF IsCommand(scan)
         THEN pc' = "run" /\ ch' = [c |-> decode_ps2_ascii(scan),
                                    from |-> ps2.rx_data.kind]
         ELSE Prompt
      /\ ReadData(TRUE)
      /\ UNCHANGED <<layout, hdr, copied, verified, npu, led, reply, uart, used>>

-----------------------------------------------------------------------------
(* The commands.                                                           *)

Running(c) == pc = "run" /\ ch.c = c
Silent == <<layout, info, loader, npu, led, inputs, used>>

(* 'h', '?', 'c', 't' and what is no command only print.                  *)
RunPrint ==
  /\ pc = "run"
  /\ ch.c \notin {"b", "g", "i", "k", "l", "m", "n", "p", "r", "v", "x"}
  /\ Say("text") /\ Prompt /\ UNCHANGED Silent

RunLed ==
  /\ Running("l") /\ led' = ~led
  /\ Say("LED") /\ Prompt
  /\ UNCHANGED <<layout, info, loader, npu, inputs, used>>

RunBoot ==
  /\ Running("b") /\ pc' = "boot"
  /\ ch' = [c |-> "", from |-> "none"] /\ UNCHANGED reply /\ UNCHANGED Silent

show_ps2_status ==
  /\ Running("k") /\ Say(IF info[6] = 0 THEN "PS2=ER" ELSE "PS2=OK")
  /\ Prompt /\ UNCHANGED Silent

show_boot_info ==
  /\ Running("i")
  /\ Say(IF Global("boot_loaded") # 0 THEN "BOOTLD=1" ELSE "BOOTLD=0")
  /\ Prompt /\ UNCHANGED Silent

(* The word the block says the image starts at: the processor traps on an  *)
(* address that is not a multiple of four, and stops.                      *)
dump_memory_snapshot ==
  /\ Running("m")
  /\ IF info[1] % 4 = 0 THEN Say("BI0") /\ Prompt
                        ELSE pc' = "wild" /\ UNCHANGED <<ch, reply>>
  /\ UNCHANGED Silent

TestMin == SramBase + TestMargin
TestLimit == SramBase + SramBytes - TestMargin
Align32(a) == Wrap(32 * (Wrap(a + 31) \div 32))

(* Mutant: the test takes no account of the image.                         *)
TestBaseFixed == TestMin

TestBase ==
  LET aligned_end == Align32(Wrap(info[1] + info[2]))
  IN  IF Global("boot_loaded") # 0 /\ aligned_end > TestMin THEN aligned_end
                                                           ELSE TestMin

(* Mutant: the limit is compared with where the test starts.               *)
TestFitsStart == TestBase <= TestLimit

TestFits == Wrap(TestBase + 16) <= TestLimit

run_ram_test ==
  /\ Running("r")
  /\ Say(IF TestFits THEN "RAM=OK" ELSE "RAM=ER")
  /\ held' = (IF TestFits THEN held \ (WordOf(TestBase) .. WordOf(TestBase) + 3)
                          ELSE held)
  /\ Prompt
  /\ UNCHANGED <<layout, info, hdr, copied, verified, npu, led, inputs, used>>

(* The NPU-lite block.  The tests write every operand register they use.   *)
Dot4(a, b) == a[1] * b[1] + a[2] * b[2] + a[3] * b[3] + a[4] * b[4]
Start(n, a, b) == [n EXCEPT !.acc = Dot4(a, b), !.done = TRUE]
StartAccum(n, a, b) == [n EXCEPT !.acc = @ + Dot4(a, b), !.done = TRUE]
StartMatvec(n, a, m) ==
  [acc |-> Dot4(a, m[1]), done |-> TRUE,
   rows |-> <<Dot4(a, m[2]), Dot4(a, m[3]), Dot4(a, m[4])>>]
ClearAccumulator(n) == [n EXCEPT !.acc = 0, !.rows = <<0, 0, 0>>, !.done = FALSE]

VecA == << <<1, -2, 3, -4>>, <<5, 6, -7, -8>>, <<-1, 2, -3, 4>>, <<9, -10, 11, -12>> >>
VecB == << <<7, -6, 5, -4>>, <<-3, 2, 1, -1>>, <<4, -5, 6, -7>>, <<-2, 3, -4, 5>> >>

NpuTest(c, n, ok, good, bad) ==
  /\ Running(c) /\ npu' = n
  /\ Say(IF ok THEN good ELSE bad) /\ Prompt
  /\ UNCHANGED <<layout, info, loader, led, inputs, used>>

run_npu_mmio_test ==
  LET n == Start(npu, VecA[1], VecB[1])
  IN  NpuTest("n", n, n.done /\ n.acc = 50, "NPU=OK", "NPU=ER")

run_npu_pcpi_test ==
  NpuTest("p", npu, Dot4(VecA[1], VecB[1]) = 50, "PCPI=OK", "PCPI=ER")

Accumulate(n) ==
  StartAccum(StartAccum(StartAccum(n, VecA[2], VecB[2]), VecA[3], VecB[3]),
             VecA[4], VecB[4])
(* Mutant: the first product is accumulated like the others, on what was   *)
(* there before.                                                           *)
Vec16AllAccum(n) == Accumulate(StartAccum(n, VecA[1], VecB[1]))

Vec16(n) == Accumulate(Start(ClearAccumulator(n), VecA[1], VecB[1]))

run_npu_vec16_test ==
  LET n    == Vec16(npu)
      pcpi == Dot4(VecA[1], VecB[1]) + Dot4(VecA[2], VecB[2])
              + Dot4(VecA[3], VecB[3]) + Dot4(VecA[4], VecB[4])
  IN  NpuTest("v", n, n.done /\ n.acc = -164 /\ pcpi = -164, "V16=OK", "V16=ER")

run_npu_matvec_test ==
  LET n == StartMatvec(npu, VecB[1], VecA)
  IN  NpuTest("x", n, n.done /\ n.acc = 50 /\ n.rows = <<-4, -50, 226>>,
              "MAT=OK", "MAT=ER")

GoTarget == IF Global("boot_loaded") = 0 THEN "poll" ELSE "app"

run_loaded_program ==
  /\ Running("g")
  /\ pc' = GoTarget /\ ch' = [c |-> "", from |-> "none"]
  /\ IF GoTarget = "poll" THEN Say("GO=ER") ELSE UNCHANGED reply
  /\ UNCHANGED Silent

(* The program runs a shell of its own, on the same UART and keyboard.  It *)
(* remembers a prefix in registers that are gone when it returns.          *)
AppUart ==
  /\ pc = "app" /\ uart # "" /\ uart' = ""
  /\ UNCHANGED <<layout, info, loader, pc, ch, npu, led, reply, ps2, line, used>>

AppKey ==
  /\ pc = "app" /\ ps2.rx_valid
  /\ ReadData(ps2.rx_data.kind # "prefix")
  /\ UNCHANGED <<layout, info, loader, pc, ch, npu, led, reply, uart, used>>

(* It returns, having used the NPU, when it is asked to or by itself; it   *)
(* keeps to its own memory.                                                *)
AppReturn ==
  /\ pc = "app" /\ Say("GO=RET") /\ Prompt
  /\ \E d \in BOOLEAN : npu' = [acc |-> 99, rows |-> <<1, 1, 1>>, done |-> d]
  /\ UNCHANGED <<layout, info, loader, led, inputs, used>>

-----------------------------------------------------------------------------
(* The terminal and the keyboard.                                          *)

(* The UART holds one character: the next overwrites it.  A terminal may   *)
(* send for ever; beyond the bound it sends what only prints the help.     *)
UartRx ==
  /\ uart' \in (IF used.chars < MaxChars THEN UartChars ELSE {"?"})
  /\ used' = [used EXCEPT !.chars = IF @ < MaxChars THEN @ + 1 ELSE @]
  /\ UNCHANGED <<layout, info, loader, pc, ch, npu, led, reply, ps2, line>>

(* A key is pressed or released; an extended key sends a prefix more.      *)
Key ==
  /\ used.keys < MaxKeys
  /\ \E s \in Scans, released, extended \in BOOLEAN :
       line' = line \o (IF extended THEN <<Code(EXTENDED, "prefix")>> ELSE <<>>)
                    \o (IF released THEN <<Code(BREAK, "prefix")>> ELSE <<>>)
                    \o <<Code(s, IF released \/ extended THEN "after" ELSE "press")>>
  /\ used' = [used EXCEPT !.keys = @ + 1]
  /\ UNCHANGED <<layout, info, loader, pc, ch, npu, led, reply, uart, ps2>>

(* A code reaches the port; it overwrites one that was not read.           *)
Ps2Rx ==
  LET lost == ps2.rx_valid /\ ps2.rx_data.kind = "prefix"
  IN  /\ line # <<>>
      /\ ps2' = [rx_data |-> IF lost THEN Orphan(Head(line)) ELSE Head(line),
                 rx_valid |-> TRUE, overflow |-> ps2.overflow \/ ps2.rx_valid]
      /\ line' = Tail(line)
      /\ UNCHANGED <<layout, info, loader, pc, ch, npu, led, reply, uart, used>>

Load == BeginBoot \/ RejectHeader \/ AcceptHeader \/ CopyWord \/ RejectImage
        \/ AcceptImage
Poll == PollUart \/ PollStatus \/ PollData
Run == RunPrint \/ RunLed \/ RunBoot \/ show_ps2_status \/ show_boot_info
       \/ dump_memory_snapshot \/ run_ram_test \/ run_npu_mmio_test
       \/ run_npu_pcpi_test \/ run_npu_vec16_test \/ run_npu_matvec_test
       \/ run_loaded_program
Monitor == Load \/ Poll \/ Run
App == AppUart \/ AppKey \/ AppReturn
Next == Monitor \/ App \/ UartRx \/ Key \/ Ps2Rx

(* The processor runs.                                                     *)
Spec == Init /\ [][Next]_vars /\ WF_vars(Monitor)
=============================================================================
