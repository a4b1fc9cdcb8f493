------------------------------ MODULE BootProps ------------------------------
(***************************************************************************)
(* What the boot ROM promises.  Each property names the code it is about.  *)
(***************************************************************************)
EXTENDS BootRom

Words == 0..AddrMod-1
Kinds == {"none", "prefix", "press", "after", "orphan"}
Codes == [code : 0..255, kind : Kinds]

(* The types of the variables.                                             *)
BootTypeOK ==
  /\ layout \in Layouts
  /\ info \in [0..11 -> Nat] /\ held \subseteq SramWords
  /\ pc \in {"boot", "header", "copy", "poll", "status", "data", "run",
             "app", "wild"}
  /\ hdr \in Header /\ copied \in 0..AddrMod-1 /\ verified \in BOOLEAN
  /\ ch \in [c : UartChars \cup DOMAIN Decoded \cup {""}, from : Kinds \cup {"uart"}]
  /\ DOMAIN npu = {"acc", "rows", "done"} /\ npu.done \in BOOLEAN
  /\ led \in BOOLEAN /\ uart \in UartChars \cup {""}
  /\ ps2 \in [rx_data : Codes, rx_valid : BOOLEAN, overflow : BOOLEAN]
  /\ line \in Seq(Codes)
  /\ used \in [chars : 0..MaxChars, keys : 0..MaxKeys]

(* The loader writes the image only inside SRAM, whatever header the card  *)
(* presents: sums of 32-bit values wrap, so a check of load + size would   *)
(* accept an image that ends below where it starts (bootrom.c:369-389).    *)
LoaderInBounds ==
  pc = "copy" /\ copied < hdr.size =>
    hdr.load + copied >= SramBase /\ hdr.load + copied < SramBase + SramBytes

(* Between commands, the status word, boot_loaded and the entry address    *)
(* tell what the last attempt did, for an image that is clear of the       *)
(* variables, wherever they lie, and of the stack (bootrom.c:344-415).     *)
Settled == pc \in {"poll", "status", "data", "run", "app"}
LoadedIsVerified ==
  Settled /\ Clear(hdr) =>
    /\ info[5] = OK <=> verified
    /\ Global("boot_loaded") # 0 <=> verified
    /\ verified => Global("boot_entry_addr") = hdr.entry

(* The RAM test writes only the part of SRAM set apart for it, although it *)
(* computes where to write from words of the block that the variables may  *)
(* share (bootrom.c:200-216).                                              *)
RamTestInBounds ==
  Settled /\ Clear(hdr) /\ TestFits =>
    TestBase >= TestMin /\ TestBase + 16 <= TestLimit

(* The program the monitor enters is the one it verified, entered where    *)
(* its header says, and what the monitor did since the checksum matched    *)
(* has written over none of it but the words that lie in the boot info     *)
(* block, which AcceptImage itself writes over (bootrom.c:412-429).        *)
(* When the variables share the block, the RAM test misjudges where the    *)
(* image ends, and only an image that ends below RAMTEST_MIN_BASE is safe. *)
GoVerified ==
  [][ pc # "app" /\ pc' = "app" /\ Clear(hdr) =>
        /\ verified /\ Global("boot_entry_addr") = hdr.entry
        /\ Apart \/ hdr.load + hdr.size <= TestMin =>
             ImageWords(hdr) \ BlockWords \subseteq held
    ]_vars

(* An image at SRAM_BASE, which docs/BOOT_IMAGE_FORMAT.md:12 names as the  *)
(* usual load_addr, is entered as the card had it: not so, the boot info   *)
(* block is written over its first eight words once its checksum matched   *)
(* (bootrom.c:412).                                                        *)
BaseImageIntact ==
  [][ pc # "app" /\ pc' = "app" /\ hdr.load = SramBase =>
        ImageWords(hdr) \subseteq held ]_vars

(* A command taken from the keyboard is a key that was pressed: the code   *)
(* that follows a break or extended prefix runs nothing, except where the  *)
(* monitor cannot know the prefix: the port lost it, a boot attempt        *)
(* cleared it, or the loaded program read it and returned before it read   *)
(* the code behind it (bootrom.c:132-165).                                 *)
KeyTyped == pc = "run" => ch.from \in {"uart", "press", "orphan"}

(* The self tests pass on a working block whatever the tests and programs  *)
(* before left in it (bootrom.c:229-305).                                  *)
SelfTestsPass == reply \notin {"NPU=ER", "PCPI=ER", "V16=ER", "MAT=ER"}

(* Once the terminal is quiet, the monitor reads what the keyboard port    *)
(* holds, even after an overflow, unless it has given the processor away.  *)
(* A terminal that never stops starves the keyboard, which is polled only  *)
(* when the UART has nothing (bootrom.c:440-444).                          *)
TerminalQuiet == <>[](uart = "")
KeyServed ==
  TerminalQuiet => (ps2.rx_valid ~> (~ps2.rx_valid \/ pc \in {"app", "wild"}))

(* After an attempt that succeeded the block says what was loaded, as      *)
(* docs/BOOT_IMAGE_FORMAT.md:57 has it.                                    *)
BootInfoBlock ==
  pc = "poll" /\ reply = "BOOT=OK" =>
    [w \in 0..5 |-> info[w]] =
    [w \in 0..5 |-> <<InfoMagic, hdr.load, hdr.size, hdr.entry, hdr.sum, OK>>[w + 1]]
=============================================================================
