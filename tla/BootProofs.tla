------------------------------ MODULE BootProofs ------------------------------
(***************************************************************************)
(* The boot loader's and the monitor's safety properties, for every card,  *)
(* every width of address and size of SRAM, every keyboard and terminal,   *)
(* and every place of the static variables.                                *)
(***************************************************************************)
EXTENDS BootProps, TLAPS

(* The numbers among the constants.                                        *)
LEMMA Sizes ==
  /\ AddrMod \in Nat /\ SramBase \in Nat /\ SramBytes \in Nat /\ SramBytes >= 48
  /\ SramBase + SramBytes < AddrMod /\ SramBase % 4 = 0 /\ SramBytes % 4 = 0
  /\ MaxChars \in Nat /\ MaxKeys \in Nat
BY BootAssumption

(* A difference of addresses that does not wrap is the difference.         *)
LEMMA WrapSmall ==
  ASSUME NEW a \in Nat, a < AddrMod
  PROVE  Wrap(a) = a
BY BootAssumption, SMTT(30) DEF Wrap

LEMMA WrapRange ==
  ASSUME NEW a \in Int
  PROVE  AddrMod > 0 => Wrap(a) \in 0..AddrMod-1
BY BootAssumption DEF Wrap

LEMMA HeaderTyped ==
  ASSUME NEW h \in Header
  PROVE  h.load \in Nat /\ h.size \in 0..AddrMod-1 /\ h.size \in Nat /\ h.entry \in Nat
BY DEF Header

LEMMA CodeTyped ==
  ASSUME NEW c \in Codes
  PROVE  c.code \in Nat /\ c.kind \in Kinds
BY DEF Codes

(* A header that passes the checks is of an image inside SRAM.             *)
LEMMA AcceptedFits ==
  ASSUME NEW h \in Header, Verdict(h) = OK
  PROVE  /\ h.load >= SramBase /\ h.size > 0
         /\ h.load + h.size <= SramBase + SramBytes
<1>1. h.load \in 0..AddrMod-1 /\ h.size \in 0..AddrMod-1
  BY DEF Header
<1>2. ~(~h.magic_ok \/ ~h.version_ok)
  BY DEF Verdict, OK, BadMagic
<1>3. h.size # 0
  BY <1>2 DEF Verdict, OK, BadSize
<1>4. ~(h.load < SramBase \/ RangeBad(h))
  BY <1>2, <1>3 DEF Verdict, OK, BadRange
<1>5. h.load - SramBase \in Nat /\ h.load - SramBase < AddrMod
  BY <1>1, <1>4, BootAssumption
<1>6. Wrap(h.load - SramBase) = h.load - SramBase
  BY <1>5, WrapSmall
<1>7. QED
  BY <1>1, <1>3, <1>4, <1>6, BootAssumption DEF RangeBad
-----------------------------------------------------------------------------
(* The static variables: each is a word of info, no two the same, none of  *)
(* them the words 4 to 7 of the block.                                     *)
LEMMA Placed ==
  ASSUME layout \in Layouts, NEW g \in Globals
  PROVE  layout[g] \in 0..3 \cup 8..11
BY BootAssumption

LEMMA PlacedApart ==
  ASSUME layout \in Layouts, NEW g \in Globals, NEW h \in Globals, g # h
  PROVE  layout[g] # layout[h]
BY BootAssumption

LEMMA WriteTyped ==
  ASSUME layout \in Layouts, NEW f \in [0..11 -> Nat], NEW g \in Globals, NEW v \in Nat
  PROVE  /\ Write(f, g, v) \in [0..11 -> Nat]
         /\ Write(f, g, v)[layout[g]] = v
         /\ \A w \in 0..11 : w # layout[g] => Write(f, g, v)[w] = f[w]
BY Placed DEF Write

(* The info block after each of the steps that change it.                  *)
LEMMA ClearedInfoTyped ==
  ASSUME BootTypeOK
  PROVE  /\ ClearedInfo \in [0..11 -> Nat]
         /\ ClearedInfo[layout["boot_loaded"]] = 0
<1> DEFINE f == [w \in 0..11 |-> IF w < 8 THEN 0 ELSE info[w]]
           g == Write(f, "boot_loaded", 0)
<1>1. layout \in Layouts /\ f \in [0..11 -> Nat]
  BY DEF BootTypeOK
<1>2. "boot_loaded" \in Globals /\ "boot_entry_addr" \in Globals
  BY DEF Globals
<1>3. g \in [0..11 -> Nat] /\ g[layout["boot_loaded"]] = 0
  <2> HIDE DEF f
  <2>1. QED
    BY <1>1, <1>2, WriteTyped
<1>4. ClearedInfo = Write(g, "boot_entry_addr", 0)
  BY DEF ClearedInfo
<1>5. layout["boot_loaded"] # layout["boot_entry_addr"]
  BY <1>1, <1>2, PlacedApart
<1>6. layout["boot_loaded"] \in 0..11
  BY <1>1, <1>2, Placed
<1>7. layout["boot_entry_addr"] \in 0..11
  BY <1>1, <1>2, Placed
<1>8. QED
  <2> HIDE DEF f, g
  <2>1. QED
    BY <1>3, <1>4, <1>5, <1>6, <1>7 DEF Write

LEMMA BootInfoTyped ==
  ASSUME BootTypeOK, NEW h \in Header
  PROVE  BootInfo(h) \in [0..11 -> Nat] /\ BootInfo(h)[5] = OK
<1> DEFINE block == <<InfoMagic, h.load, h.size, h.entry, h.sum, OK, 0, 0>>
<1>1. \A w \in 0..7 : block[w + 1] \in Nat
  <2>1. /\ InfoMagic \in Nat /\ h.load \in Nat /\ h.size \in Nat /\ h.entry \in Nat
        /\ h.sum \in Nat /\ OK \in Nat
    BY BootAssumption DEF Header, OK
  <2>2. QED
    BY <2>1
<1>2. info \in [0..11 -> Nat]
  BY DEF BootTypeOK
<1>3. \A w \in 0..11 : w < 8 => w \in 0..7
  OBVIOUS
<1>4. BootInfo(h) = [w \in 0..11 |-> IF w < 8 THEN block[w + 1] ELSE info[w]]
  BY DEF BootInfo
<1>5. block[6] = OK
  OBVIOUS
<1>6. QED
  <2> HIDE DEF block
  <2>1. QED
    BY <1>1, <1>2, <1>3, <1>4, <1>5

(* A character a scan code stands for has a code.                          *)
LEMMA DecodedTyped ==
  ASSUME NEW scan
  PROVE  /\ decode_ps2_ascii(scan) \in DOMAIN Decoded \cup {""}
         /\ decode_ps2_ascii(scan) # "" => Decoded[decode_ps2_ascii(scan)] \in Nat
<1>1. DOMAIN Decoded = {"a", "c", "x", "b", "g", "h", "i", "k", "l", "m", "n",
                         "p", "r", "t", "v"}
  BY DEF Decoded
<1>2. /\ Decoded["a"] = 28 /\ Decoded["c"] = 33 /\ Decoded["x"] = 34
      /\ Decoded["b"] = 50 /\ Decoded["g"] = 52 /\ Decoded["h"] = 51
      /\ Decoded["i"] = 67 /\ Decoded["k"] = 66 /\ Decoded["l"] = 75
      /\ Decoded["m"] = 58 /\ Decoded["n"] = 49 /\ Decoded["p"] = 77
      /\ Decoded["r"] = 45 /\ Decoded["t"] = 44 /\ Decoded["v"] = 42
  BY DEF Decoded
<1>3. \A c \in DOMAIN Decoded : Decoded[c] \in Nat
  BY <1>1, <1>2
<1>4. CASE \E c \in DOMAIN Decoded : Decoded[c] = scan
  <2>1. decode_ps2_ascii(scan) \in DOMAIN Decoded
    BY <1>4 DEF decode_ps2_ascii
  <2>2. QED
    BY <1>3, <2>1
<1>5. CASE ~ \E c \in DOMAIN Decoded : Decoded[c] = scan
  <2>1. decode_ps2_ascii(scan) = ""
    BY <1>5, Zenon DEF decode_ps2_ascii
  <2>2. QED
    BY <2>1, Zenon
<1>6. QED
  BY <1>4, <1>5

(* A scan code changes only the prefixes and the words of the last key.    *)
LEMMA KeyInfoTyped ==
  ASSUME BootTypeOK, NEW scan \in Nat
  PROVE  /\ KeyInfo(scan) \in [0..11 -> Nat]
         /\ \A w \in 0..11 :
              /\ w # layout["ps2_break_prefix"] /\ w # layout["ps2_extended_prefix"]
              /\ w \notin {6, 7}
              => KeyInfo(scan)[w] = info[w]
<1>1. layout \in Layouts /\ info \in [0..11 -> Nat]
  BY DEF BootTypeOK
<1>2. layout["ps2_break_prefix"] \in 0..11 /\ layout["ps2_extended_prefix"] \in 0..11
  BY <1>1, Placed DEF Globals
<1>3. CASE scan = BREAK
  <2>1. KeyInfo(scan) = Write(info, "ps2_break_prefix", 1)
    BY <1>3 DEF KeyInfo, BREAK, EXTENDED
  <2>2. QED
    BY <1>1, <1>2, <2>1 DEF Write
<1>4. CASE scan = EXTENDED
  <2>1. KeyInfo(scan) = Write(info, "ps2_extended_prefix", 1)
    BY <1>4 DEF KeyInfo, BREAK, EXTENDED
  <2>2. QED
    BY <1>1, <1>2, <2>1 DEF Write
<1>5. CASE scan \notin {BREAK, EXTENDED} /\ Swallowed
  <2>1. KeyInfo(scan) = Write(Write(info, "ps2_break_prefix", 0), "ps2_extended_prefix", 0)
    BY <1>5 DEF KeyInfo
  <2>2. QED
    BY <1>1, <1>2, <2>1 DEF Write
<1>6. CASE scan \notin {BREAK, EXTENDED} /\ ~Swallowed
  <2>1. KeyInfo(scan) = IF decode_ps2_ascii(scan) = "" THEN info
                        ELSE [info EXCEPT ![6] = scan,
                                          ![7] = Decoded[decode_ps2_ascii(scan)]]
    BY <1>6 DEF KeyInfo
  <2>2. decode_ps2_ascii(scan) # "" => Decoded[decode_ps2_ascii(scan)] \in Nat
    BY DecodedTyped
  <2>3. QED
    BY <1>1, <2>1, <2>2
<1>7. QED
  BY <1>3, <1>4, <1>5, <1>6

-----------------------------------------------------------------------------
(* What follows an orphan's loss is a scan code still.                     *)
LEMMA OrphanTyped ==
  ASSUME NEW c \in Codes
  PROVE  Orphan(c) \in Codes
BY DEF Orphan, Codes, Kinds

LEMMA OrphanHeadTyped ==
  ASSUME NEW s \in Seq(Codes)
  PROVE  OrphanHead(s) \in Seq(Codes)
<1>1. CASE s = <<>>
  BY <1>1 DEF OrphanHead
<1>2. CASE s # <<>>
  <2>1. 1 \in DOMAIN s /\ s[1] \in Codes
    BY <1>2
  <2>2. OrphanHead(s) = [s EXCEPT ![1] = Orphan(s[1])] /\ Orphan(s[1]) \in Codes
    BY <1>2, <2>1, OrphanTyped DEF OrphanHead
  <2>3. QED
    BY <2>1, <2>2
<1>3. QED
  BY <1>1, <1>2

LEMMA LineTyped ==
  ASSUME NEW s \in Seq(Codes), s # <<>>
  PROVE  Head(s) \in Codes /\ Tail(s) \in Seq(Codes)
OBVIOUS

(* The codes a key sends.                                                  *)
LEMMA KeyTypedCodes ==
  ASSUME NEW s \in Seq(Codes), NEW scan \in Scans, NEW released \in BOOLEAN,
         NEW extended \in BOOLEAN
  PROVE  s \o (IF extended THEN <<Code(EXTENDED, "prefix")>> ELSE <<>>)
           \o (IF released THEN <<Code(BREAK, "prefix")>> ELSE <<>>)
           \o <<Code(scan, IF released \/ extended THEN "after" ELSE "press")>>
         \in Seq(Codes)
<1> DEFINE p == IF extended THEN <<Code(EXTENDED, "prefix")>> ELSE <<>>
           q == IF released THEN <<Code(BREAK, "prefix")>> ELSE <<>>
           r == <<Code(scan, IF released \/ extended THEN "after" ELSE "press")>>
<1>1. Code(EXTENDED, "prefix") \in Codes /\ Code(BREAK, "prefix") \in Codes
  BY DEF Code, Codes, Kinds, EXTENDED, BREAK
<1>2. Code(scan, IF released \/ extended THEN "after" ELSE "press") \in Codes
  <2>1. scan \in 0..255
    BY BootAssumption
  <2>2. QED
    BY <2>1 DEF Code, Codes, Kinds
<1>3. p \in Seq(Codes) /\ q \in Seq(Codes) /\ r \in Seq(Codes)
  BY <1>1, <1>2
<1>4. QED
  <2> HIDE DEF p, q, r
  <2>1. s \o p \in Seq(Codes)
    BY <1>3
  <2>2. s \o p \o q \in Seq(Codes)
    BY <1>3, <2>1
  <2>3. s \o p \o q \o r \in Seq(Codes)
    BY <1>3, <2>2
  <2>4. QED
    BY <2>3 DEF p, q, r
-----------------------------------------------------------------------------
(* The invariant: between a boot attempt's start and its verdict nothing   *)
(* counts as loaded, and only a header that passed the checks is copied.   *)
HeaderChecked == pc = "copy" => Verdict(hdr) = OK
Forgotten ==
  /\ pc \in {"header", "copy"} => ~verified
  /\ pc = "header" \/ (pc = "copy" /\ Clear(hdr)) => Global("boot_loaded") = 0
BInv == BootTypeOK /\ HeaderChecked /\ Forgotten /\ LoadedIsVerified

LEMMA InitTyped == Init => BootTypeOK
<1>a. 0 \in 0..AddrMod-1 /\ 0 \in 0..MaxChars /\ 0 \in 0..MaxKeys
  BY Sizes
<1>b. Code(0, "none") \in Codes
  BY DEF Code, Codes, Kinds
<1>c. <<>> \in Seq(Codes)
  OBVIOUS
<1> SUFFICES ASSUME Init PROVE BootTypeOK
  OBVIOUS
<1> USE DEF Init
<1>1. layout \in Layouts /\ info \in [0..11 -> Nat] /\ held \subseteq SramWords
  OBVIOUS
<1>2. hdr \in Header /\ copied \in 0..AddrMod-1 /\ verified \in BOOLEAN
  BY <1>a DEF NoHeader, Header
<1>3. /\ ch \in [c : UartChars \cup DOMAIN Decoded \cup {""}, from : Kinds \cup {"uart"}]
      /\ pc \in {"boot", "header", "copy", "poll", "status", "data", "run", "app", "wild"}
      /\ led \in BOOLEAN /\ uart \in UartChars \cup {""}
  BY DEF Kinds
<1>4. DOMAIN npu = {"acc", "rows", "done"} /\ npu.done \in BOOLEAN
  BY DEF IdleNpu
<1>5. /\ ps2 \in [rx_data : Codes, rx_valid : BOOLEAN, overflow : BOOLEAN]
      /\ line \in Seq(Codes)
  <2>1. ps2 \in [rx_data : Codes, rx_valid : BOOLEAN, overflow : BOOLEAN]
    BY <1>b
  <2>2. line \in Seq(Codes)
    BY <1>c
  <2>3. QED
    BY <2>1, <2>2
<1>6. used \in [chars : 0..MaxChars, keys : 0..MaxKeys]
  BY <1>a
<1>7. QED
  BY <1>1, <1>2, <1>3, <1>4, <1>5, <1>6 DEF BootTypeOK

-----------------------------------------------------------------------------
(* The sizes the loader works with.                                        *)
LEMMA LoaderNumbers ==
  ASSUME BootTypeOK
  PROVE  /\ hdr \in Header /\ copied \in Nat
         /\ hdr.load \in Nat /\ hdr.size \in 0..AddrMod-1 /\ hdr.size \in Nat
         /\ hdr.entry \in Nat
<1>1. hdr \in Header /\ copied \in 0..AddrMod-1
  BY DEF BootTypeOK
<1>2. copied \in Nat
  BY <1>1, Sizes
<1>3. QED
  BY <1>1, <1>2, HeaderTyped

(* The copy.                                                               *)
LEMMA CopyInBounds ==
  ASSUME BootTypeOK, HeaderChecked
  PROVE  LoaderInBounds
<1> SUFFICES ASSUME pc = "copy", copied < hdr.size
             PROVE  hdr.load + copied >= SramBase /\ hdr.load + copied < SramBase + SramBytes
  BY DEF LoaderInBounds
<1>1. /\ hdr.load >= SramBase /\ hdr.load + hdr.size <= SramBase + SramBytes
  BY AcceptedFits DEF BootTypeOK, HeaderChecked
<1>2. hdr.load \in Nat /\ hdr.size \in Nat /\ copied \in Nat
  BY LoaderNumbers
<1>3. QED
  BY <1>1, <1>2, Sizes

LEMMA WordInSram ==
  ASSUME NEW a \in Nat, a >= SramBase, a < SramBase + SramBytes
  PROVE  WordOf(a) \in SramWords
<1>1. PICK n \in Nat : SramBytes = 4 * n
  BY Sizes
<1>2. a - SramBase \in Nat /\ a - SramBase < 4 * n
  BY <1>1, Sizes
<1>3. (a - SramBase) \div 4 \in Nat /\ (a - SramBase) \div 4 < n
  BY <1>2
<1>4. SramBytes \div 4 = n
  BY <1>1
<1>5. QED
  BY <1>3, <1>4 DEF WordOf, SramWords

(* The copy goes on by one to four bytes and stops at the image's end.     *)
LEMMA CopyAdvances ==
  ASSUME BootTypeOK, HeaderChecked, CopyWord
  PROVE  copied' \in 0..AddrMod-1
<1>1. copied \in Nat /\ hdr.size \in 0..AddrMod-1 /\ hdr.load \in Nat
  BY LoaderNumbers
<1>2. (hdr.load + copied) % 4 \in 0..3
  BY <1>1
<1>3. copied + (4 - ((hdr.load + copied) % 4)) \in Nat
  BY <1>1, <1>2
<1> DEFINE next == copied + (4 - ((hdr.load + copied) % 4))
<1>4. copied' = IF next < hdr.size THEN next ELSE hdr.size
  BY DEF CopyWord
<1>5. QED
  <2> HIDE DEF next
  <2>1. next \in Nat
    BY <1>3 DEF next
  <2>2. QED
    BY <1>1, <1>4, <2>1, Sizes
-----------------------------------------------------------------------------
LEMMA LoadTyped ==
  ASSUME BInv, Load
  PROVE  BootTypeOK'
<1> USE DEF BInv
<1>1. CASE BeginBoot
  <2>1. info' \in [0..11 -> Nat]
    BY <1>1, ClearedInfoTyped DEF BeginBoot
  <2>2. ps2' \in [rx_data : Codes, rx_valid : BOOLEAN, overflow : BOOLEAN]
    <3>1. ps2 \in [rx_data : Codes, rx_valid : BOOLEAN, overflow : BOOLEAN]
      BY DEF BootTypeOK
    <3>2. Orphan(ps2.rx_data) \in Codes
      BY <3>1, OrphanTyped
    <3>3. ps2' = ps2 \/ ps2' = [ps2 EXCEPT !.rx_data = Orphan(@)]
      BY <1>1 DEF BeginBoot
    <3>4. QED
      BY <3>1, <3>2, <3>3
  <2>3. line' \in Seq(Codes)
    <3>1. line \in Seq(Codes)
      BY DEF BootTypeOK
    <3>2. line' = line \/ line' = OrphanHead(line)
      BY <1>1 DEF BeginBoot
    <3>3. QED
      BY <3>1, <3>2, OrphanHeadTyped
  <2>4. QED
    BY <1>1, <2>1, <2>2, <2>3 DEF BeginBoot, BootTypeOK
<1>2. CASE RejectHeader
  <2>1. \A h \in Headers : Verdict(h) \in Nat
    BY DEF Verdict, OK, BadMagic, BadRange, BadSize, BadEntry
  <2>2. info' \in [0..11 -> Nat]
    <3>1. PICK h \in Headers : info' = [info EXCEPT ![5] = Verdict(h)]
      BY <1>2 DEF RejectHeader
    <3>2. info \in [0..11 -> Nat]
      BY DEF BootTypeOK
    <3>3. QED
      BY <2>1, <3>1, <3>2
  <2>3. 0 \in 0..AddrMod-1
    BY Sizes
  <2>4. NoHeader \in Header
    BY <2>3 DEF NoHeader, Header
  <2>5. QED
    BY <1>2, <2>2, <2>3, <2>4 DEF RejectHeader, BootTypeOK, Say, Prompt, inputs, Kinds
<1>3. CASE AcceptHeader
  <2>1. hdr' \in Header
    BY <1>3, BootAssumption DEF AcceptHeader
  <2>2. 0 \in 0..AddrMod-1
    BY Sizes
  <2>3. QED
    BY <1>3, <2>1, <2>2 DEF AcceptHeader, BootTypeOK, inputs
<1>4. CASE CopyWord
  <2>1. WordOf(hdr.load + copied) \in SramWords
    <3>1. pc = "copy" /\ copied < hdr.size
      BY <1>4 DEF CopyWord
    <3>2. hdr.load + copied \in Nat
      BY LoaderNumbers
    <3>3. QED
      BY <3>1, <3>2, CopyInBounds, WordInSram DEF LoaderInBounds
  <2>2. info' \in [0..11 -> Nat]
    <3>1. Payload \subseteq Nat
      BY BootAssumption
    <3>2. QED
      BY <1>4, <3>1 DEF CopyWord, BootTypeOK
  <2>3. copied' \in 0..AddrMod-1
    BY <1>4, CopyAdvances
  <2>4. held' \subseteq SramWords /\ pc' \in {"copy", "wild"}
    BY <1>4, <2>1 DEF CopyWord, BootTypeOK
  <2>5. QED
    BY <1>4, <2>2, <2>3, <2>4 DEF CopyWord, BootTypeOK, inputs
<1>5. CASE RejectImage
  <2>1. info' \in [0..11 -> Nat]
    <3>1. info \in [0..11 -> Nat] /\ info' = [info EXCEPT ![5] = BadChecksum]
      BY <1>5 DEF RejectImage, BootTypeOK
    <3>2. QED
      BY <3>1 DEF BadChecksum
  <2>2. held' \subseteq SramWords /\ pc' = "poll"
    BY <1>5 DEF RejectImage, BootTypeOK, Prompt
  <2>3. QED
    BY <1>5, <2>1, <2>2 DEF RejectImage, BootTypeOK, Prompt, inputs, Kinds
<1>6. CASE AcceptImage
  <2>1. info' \in [0..11 -> Nat]
    <3>1. layout \in Layouts /\ BootInfo(hdr) \in [0..11 -> Nat]
      BY BootInfoTyped DEF BootTypeOK
    <3>2. hdr.entry \in Nat
      BY LoaderNumbers
    <3>3. Write(BootInfo(hdr), "boot_entry_addr", hdr.entry) \in [0..11 -> Nat]
      BY <3>1, <3>2, WriteTyped DEF Globals
    <3>4. QED
      BY <1>6, <3>1, <3>3, WriteTyped DEF AcceptImage, Globals
  <2>2. QED
    BY <1>6, <2>1 DEF AcceptImage, BootTypeOK, Say, Prompt, inputs, Kinds
<1>7. QED
  BY <1>1, <1>2, <1>3, <1>4, <1>5, <1>6 DEF Load

(* A read of the keyboard port.                                            *)
LEMMA ReadTyped ==
  ASSUME BootTypeOK, NEW r \in BOOLEAN, ReadData(r)
  PROVE  /\ ps2' \in [rx_data : Codes, rx_valid : BOOLEAN, overflow : BOOLEAN]
         /\ line' \in Seq(Codes)
<1>1. ps2 \in [rx_data : Codes, rx_valid : BOOLEAN, overflow : BOOLEAN]
      /\ line \in Seq(Codes)
  BY DEF BootTypeOK
<1>2. CASE /\ ps2' = [ps2 EXCEPT !.rx_valid = FALSE]
           /\ line' = (IF r THEN line ELSE OrphanHead(line))
  BY <1>1, <1>2, OrphanHeadTyped
<1>3. CASE /\ line # <<>>
           /\ ps2' = [rx_data |-> Head(line), rx_valid |-> FALSE,
                      overflow |-> ps2.overflow \/ ps2.rx_valid]
           /\ line' = (IF Head(line).kind = "prefix"
                       THEN OrphanHead(Tail(line)) ELSE Tail(line))
  <2>1. Head(line) \in Codes /\ Tail(line) \in Seq(Codes)
    BY <1>1, <1>3, LineTyped
  <2>2. OrphanHead(Tail(line)) \in Seq(Codes)
    BY <2>1, OrphanHeadTyped
  <2>3. (ps2.overflow \/ ps2.rx_valid) \in BOOLEAN
    BY <1>1
  <2> QED
    BY <1>3, <2>1, <2>2, <2>3
<1>4. QED
  BY <1>2, <1>3 DEF ReadData

LEMMA PollTyped ==
  ASSUME BInv, Poll
  PROVE  BootTypeOK'
<1> USE DEF BInv
<1>1. CASE PollUart
  <2>1. /\ ch' \in [c : UartChars \cup DOMAIN Decoded \cup {""},
                    from : Kinds \cup {"uart"}]
        /\ pc' \in {"run", "status"}
    <3>1. /\ ch \in [c : UartChars \cup DOMAIN Decoded \cup {""},
                     from : Kinds \cup {"uart"}]
          /\ uart \in UartChars \cup {""}
      BY DEF BootTypeOK
    <3>2. \/ ch' = [c |-> uart, from |-> "uart"] /\ pc' = "run"
          \/ ch' = ch /\ pc' = "status"
      BY <1>1 DEF PollUart
    <3>3. [c |-> uart, from |-> "uart"] \in [c : UartChars \cup DOMAIN Decoded \cup {""},
                                            from : Kinds \cup {"uart"}]
      BY <3>1
    <3>4. QED
      BY <3>1, <3>2, <3>3
  <2>2. QED
    BY <1>1, <2>1 DEF PollUart, BootTypeOK, loader
<1>2. CASE PollStatus
  BY <1>2 DEF PollStatus, BootTypeOK, loader, inputs
<1>3. CASE PollData
  <2>1. ps2 \in [rx_data : Codes, rx_valid : BOOLEAN, overflow : BOOLEAN]
        /\ line \in Seq(Codes)
    BY DEF BootTypeOK
  <2>2. ps2.rx_data.code \in Nat /\ ps2.rx_data.kind \in Kinds
    BY <2>1, CodeTyped
  <2>3. info' \in [0..11 -> Nat]
    BY <1>3, <2>2, KeyInfoTyped DEF PollData
  <2>4. /\ ps2' \in [rx_data : Codes, rx_valid : BOOLEAN, overflow : BOOLEAN]
        /\ line' \in Seq(Codes)
    BY <1>3, ReadTyped DEF PollData
  <2>5. /\ pc' \in {"run", "poll"}
        /\ ch' \in [c : UartChars \cup DOMAIN Decoded \cup {""},
                    from : Kinds \cup {"uart"}]
    <3>1. decode_ps2_ascii(ps2.rx_data.code) \in DOMAIN Decoded \cup {""}
      BY DecodedTyped
    <3>2. "none" \in Kinds
      BY DEF Kinds
    <3>3. CASE IsCommand(ps2.rx_data.code)
      <4>1. pc' = "run" /\ ch' = [c |-> decode_ps2_ascii(ps2.rx_data.code),
                                  from |-> ps2.rx_data.kind]
        BY <1>3, <3>3 DEF PollData
      <4>2. QED
        BY <2>2, <3>1, <4>1
    <3>4. CASE ~IsCommand(ps2.rx_data.code)
      <4>1. pc' = "poll" /\ ch' = [c |-> "", from |-> "none"]
        BY <1>3, <3>4 DEF PollData, Prompt
      <4>2. QED
        BY <3>2, <4>1
    <3>5. QED
      BY <3>3, <3>4
  <2>6. QED
    BY <1>3, <2>3, <2>4, <2>5 DEF PollData, BootTypeOK
<1>4. QED
  BY <1>1, <1>2, <1>3 DEF Poll

(* A command that prints and goes back to the loop.                        *)
LEMMA Idle == [c |-> "", from |-> "none"]
              \in [c : UartChars \cup DOMAIN Decoded \cup {""}, from : Kinds \cup {"uart"}]
BY DEF Kinds

(* What a step of the NPU-lite block leaves.                               *)
IsNpu(n) == DOMAIN n = {"acc", "rows", "done"} /\ n.done \in BOOLEAN

LEMMA NpuTyped ==
  ASSUME NEW n, IsNpu(n), NEW a, NEW b
  PROVE  /\ IsNpu(Start(n, a, b)) /\ IsNpu(StartAccum(n, a, b))
         /\ IsNpu(StartMatvec(n, a, b)) /\ IsNpu(ClearAccumulator(n))
<1>1. IsNpu(Start(n, a, b))
  BY DEF IsNpu, Start
<1>2. IsNpu(StartAccum(n, a, b))
  BY DEF IsNpu, StartAccum
<1>3. IsNpu(StartMatvec(n, a, b))
  BY DEF IsNpu, StartMatvec
<1>4. IsNpu(ClearAccumulator(n))
  BY DEF IsNpu, ClearAccumulator
<1>5. QED
  BY <1>1, <1>2, <1>3, <1>4

LEMMA Vec16Typed ==
  ASSUME NEW n, IsNpu(n)
  PROVE  IsNpu(Vec16(n))
<1>1. IsNpu(Start(ClearAccumulator(n), VecA[1], VecB[1]))
  BY NpuTyped
<1>2. \A m : IsNpu(m) => IsNpu(Accumulate(m))
  BY NpuTyped DEF Accumulate
<1>3. QED
  BY <1>1, <1>2 DEF Vec16

LEMMA RunTyped ==
  ASSUME BInv, Run
  PROVE  BootTypeOK'
<1>1. /\ BootTypeOK /\ pc = "run"
  BY DEF BInv, Run, RunPrint, RunLed, RunBoot, show_ps2_status, show_boot_info,
         dump_memory_snapshot, run_ram_test, run_npu_mmio_test, run_npu_pcpi_test,
         run_npu_vec16_test, run_npu_matvec_test, run_loaded_program, NpuTest, Running
<1>2. /\ UNCHANGED <<layout, info, hdr, copied, verified, uart, ps2, line, used>>
      /\ held' \subseteq held
      /\ led' = led \/ led' = ~led
      /\ pc' \in {"poll", "boot", "wild", "app"}
      /\ ch' = ch \/ ch' = [c |-> "", from |-> "none"]
  BY <1>1 DEF Run, RunPrint, RunLed, RunBoot, show_ps2_status, show_boot_info,
         dump_memory_snapshot, run_ram_test, run_npu_mmio_test, run_npu_pcpi_test,
         run_npu_vec16_test, run_npu_matvec_test, run_loaded_program, NpuTest,
         Silent, loader, inputs, Prompt, GoTarget
<1>3. IsNpu(npu')
  <2>1. IsNpu(npu)
    BY <1>1 DEF BootTypeOK, IsNpu
  <2>2. \/ npu' = npu \/ npu' = Start(npu, VecA[1], VecB[1])
        \/ npu' = Vec16(npu) \/ npu' = StartMatvec(npu, VecB[1], VecA)
    BY DEF Run, RunPrint, RunLed, RunBoot, show_ps2_status, show_boot_info,
         dump_memory_snapshot, run_ram_test, run_npu_mmio_test, run_npu_pcpi_test,
         run_npu_vec16_test, run_npu_matvec_test, run_loaded_program, NpuTest, Silent
  <2>3. QED
    BY <2>1, <2>2, NpuTyped, Vec16Typed
<1>4. ch' \in [c : UartChars \cup DOMAIN Decoded \cup {""}, from : Kinds \cup {"uart"}]
  BY <1>1, <1>2, Idle DEF BootTypeOK
<1>5. QED
  BY <1>1, <1>2, <1>3, <1>4 DEF BootTypeOK, IsNpu

LEMMA CountTyped ==
  ASSUME NEW u \in [chars : 0..MaxChars, keys : 0..MaxKeys]
  PROVE  /\ u.chars < MaxChars => [u EXCEPT !.chars = @ + 1] \in [chars : 0..MaxChars,
                                                                keys : 0..MaxKeys]
         /\ u.keys < MaxKeys => [u EXCEPT !.keys = @ + 1] \in [chars : 0..MaxChars,
                                                             keys : 0..MaxKeys]
<1>1. u.chars \in 0..MaxChars /\ u.keys \in 0..MaxKeys
  OBVIOUS
<1>2. u.chars < MaxChars => u.chars + 1 \in 0..MaxChars
  BY <1>1, Sizes
<1>3. u.keys < MaxKeys => u.keys + 1 \in 0..MaxKeys
  BY <1>1, Sizes
<1>4. QED
  BY <1>2, <1>3

LEMMA OutsideTyped ==
  ASSUME BInv, App \/ UartRx \/ Key \/ Ps2Rx
  PROVE  BootTypeOK'
<1> USE DEF BInv
<1>1. CASE AppReturn
  <2>1. PICK d \in BOOLEAN : npu' = [acc |-> 99, rows |-> <<1, 1, 1>>, done |-> d]
    BY <1>1 DEF AppReturn
  <2>2. IsNpu(npu')
    BY <2>1 DEF IsNpu
  <2>3. pc' = "poll" /\ ch' = [c |-> "", from |-> "none"]
    BY <1>1 DEF AppReturn, Prompt
  <2>4. ch' \in [c : UartChars \cup DOMAIN Decoded \cup {""}, from : Kinds \cup {"uart"}]
    BY <2>3, Idle
  <2>5. QED
    BY <1>1, <2>2, <2>3, <2>4 DEF AppReturn, BootTypeOK, loader, inputs, IsNpu
<1>2. CASE UartRx
  <2>1. used' \in [chars : 0..MaxChars, keys : 0..MaxKeys]
    <3>1. used \in [chars : 0..MaxChars, keys : 0..MaxKeys]
      BY DEF BootTypeOK
    <3>2. used' = IF used.chars < MaxChars THEN [used EXCEPT !.chars = @ + 1]
                                           ELSE [used EXCEPT !.chars = @]
      BY <1>2 DEF UartRx
    <3>3. QED
      BY <3>1, <3>2, CountTyped
  <2>2. uart' \in UartChars \cup {""}
    BY <1>2, BootAssumption DEF UartRx
  <2>3. QED
    BY <1>2, <2>1, <2>2 DEF UartRx, BootTypeOK, loader
<1>3. CASE Key
  <2>1. used' \in [chars : 0..MaxChars, keys : 0..MaxKeys]
    <3>1. used \in [chars : 0..MaxChars, keys : 0..MaxKeys]
      BY DEF BootTypeOK
    <3>2. used.keys < MaxKeys /\ used' = [used EXCEPT !.keys = @ + 1]
      BY <1>3 DEF Key
    <3>3. QED
      BY <3>1, <3>2, CountTyped
  <2>2. line' \in Seq(Codes)
    <3>1. line \in Seq(Codes)
      BY DEF BootTypeOK
    <3>2. QED
      BY <1>3, <3>1, KeyTypedCodes DEF Key
  <2>3. QED
    <3>1. /\ layout' = layout /\ info' = info /\ hdr' = hdr /\ copied' = copied
          /\ verified' = verified /\ held' = held /\ pc' = pc /\ ch' = ch
          /\ npu' = npu /\ led' = led /\ uart' = uart /\ ps2' = ps2
      BY <1>3 DEF Key, loader
    <3>2. /\ ch' \in [c : UartChars \cup DOMAIN Decoded \cup {""}, from : Kinds \cup {"uart"}]
          /\ DOMAIN npu' = {"acc", "rows", "done"} /\ npu'.done \in BOOLEAN
          /\ uart' \in UartChars \cup {""}
      BY <3>1 DEF BootTypeOK
    <3>3. QED
      BY <2>1, <2>2, <3>1, <3>2 DEF BootTypeOK
<1>4. CASE Ps2Rx
  <2>1. ps2 \in [rx_data : Codes, rx_valid : BOOLEAN, overflow : BOOLEAN]
        /\ line \in Seq(Codes) /\ line # <<>>
    BY <1>4 DEF BootTypeOK, Ps2Rx
  <2>2. Head(line) \in Codes /\ Tail(line) \in Seq(Codes) /\ Orphan(Head(line)) \in Codes
    BY <2>1, LineTyped, OrphanTyped
  <2>3. ps2' \in [rx_data : Codes, rx_valid : BOOLEAN, overflow : BOOLEAN]
    <3>1. (ps2.overflow \/ ps2.rx_valid) \in BOOLEAN
      BY <2>1
    <3>2. QED
      BY <1>4, <2>2, <3>1 DEF Ps2Rx
  <2>4. QED
    BY <1>4, <2>2, <2>3 DEF Ps2Rx, BootTypeOK, loader
<1>5. CASE AppUart
  BY <1>5 DEF AppUart, BootTypeOK, loader
<1>6. CASE AppKey
  <2>1. /\ ps2' \in [rx_data : Codes, rx_valid : BOOLEAN, overflow : BOOLEAN]
        /\ line' \in Seq(Codes)
    BY <1>6, ReadTyped DEF AppKey
  <2> QED
    BY <1>6, <2>1 DEF AppKey, BootTypeOK, loader
<1>7. QED
  BY <1>1, <1>2, <1>3, <1>4, <1>5, <1>6 DEF App

LEMMA NextTyped == BInv /\ [Next]_vars => BootTypeOK'
<1>1. ASSUME BInv, Next PROVE BootTypeOK'
  BY <1>1, LoadTyped, PollTyped, RunTyped, OutsideTyped DEF Next, Monitor
<1>2. ASSUME BInv, UNCHANGED vars PROVE BootTypeOK'
  <2>1. /\ layout' = layout /\ info' = info /\ hdr' = hdr /\ copied' = copied
        /\ verified' = verified /\ held' = held /\ pc' = pc /\ ch' = ch
        /\ npu' = npu /\ led' = led /\ uart' = uart /\ ps2' = ps2 /\ line' = line
        /\ used' = used
    BY <1>2 DEF vars, loader, inputs
  <2>2. BootTypeOK
    BY <1>2 DEF BInv
  <2>3. /\ ch' \in [c : UartChars \cup DOMAIN Decoded \cup {""}, from : Kinds \cup {"uart"}]
        /\ DOMAIN npu' = {"acc", "rows", "done"} /\ npu'.done \in BOOLEAN
        /\ uart' \in UartChars \cup {""}
    BY <2>1, <2>2 DEF BootTypeOK
  <2>4. QED
    BY <2>1, <2>2, <2>3 DEF BootTypeOK
<1>3. QED
  BY <1>1, <1>2

-----------------------------------------------------------------------------
(* Where the two variables are that tell what is loaded: not where the     *)
(* prefixes are, nor in the status word or the words of the last key.      *)
LEMMA LoadedPlaces ==
  ASSUME layout \in Layouts
  PROVE  \A g \in {"boot_loaded", "boot_entry_addr"} :
           /\ layout[g] \in 0..11 /\ layout[g] \notin {5, 6, 7}
           /\ layout[g] # layout["ps2_break_prefix"]
           /\ layout[g] # layout["ps2_extended_prefix"]
<1>1. \A g \in {"boot_loaded", "boot_entry_addr"} : g \in Globals
  BY DEF Globals
<1>2. "ps2_break_prefix" \in Globals /\ "ps2_extended_prefix" \in Globals
  BY DEF Globals
<1>3. QED
  BY <1>1, <1>2, Placed, PlacedApart

(* The copy of an image that is clear of the block leaves the block alone. *)
LEMMA CopyClear ==
  ASSUME BInv, CopyWord, Clear(hdr)
  PROVE  Global("boot_loaded")' = Global("boot_loaded")
<1>1. /\ hdr.load \in Nat /\ hdr.size \in Nat /\ copied \in Nat /\ copied < hdr.size
      /\ layout' = layout /\ layout["boot_loaded"] \in 0..11 /\ info \in [0..11 -> Nat]
  BY LoaderNumbers, LoadedPlaces DEF BInv, BootTypeOK, CopyWord
<1>2. CASE Apart
  <2>1. layout["boot_loaded"] >= 8
    BY <1>2 DEF Apart, Globals
  <2>2. info' = info \/ \E w \in 0..7, v \in Payload : info' = [info EXCEPT ![w] = v]
    BY DEF CopyWord, BlockWords
  <2> QED
    BY <1>1, <2>1, <2>2 DEF Global
<1>3. CASE ~Apart
  <2>1. hdr.load >= SramBase + 32
    BY <1>1, <1>3 DEF Clear
  <2> DEFINE d == (hdr.load + copied) - SramBase
  <2>2. d \in Nat /\ d >= 32
    BY <1>1, <2>1, Sizes
  <2>3. WordOf(hdr.load + copied) = d \div 4
    BY DEF WordOf
  <2>4. WordOf(hdr.load + copied) \notin BlockWords
    <3> HIDE DEF d
    <3>1. d \div 4 \notin 0..7
      BY <2>2
    <3> QED
      BY <2>3, <3>1 DEF BlockWords
  <2>5. info' = info
    BY <2>4 DEF CopyWord
  <2> QED
    BY <1>1, <2>5 DEF Global
<1>4. QED
  BY <1>2, <1>3

(* Steps that leave the loader's state alone.                              *)
LEMMA LoaderIdle ==
  ASSUME HeaderChecked, Forgotten, LoadedIsVerified,
         layout' = layout, info' = info, hdr' = hdr, verified' = verified,
         pc' = pc \/ (pc' \notin {"header", "copy"} /\ Settled) \/ pc' = "wild"
  PROVE  HeaderChecked' /\ Forgotten' /\ LoadedIsVerified'
<1>1. HeaderChecked'
  BY DEF HeaderChecked
<1>2. Forgotten'
  BY DEF Forgotten, Clear, Apart, Global
<1>3. LoadedIsVerified'
  BY DEF LoadedIsVerified, Settled, Clear, Apart, Global
<1>4. QED
  BY <1>1, <1>2, <1>3

LEMMA LoadKept ==
  ASSUME BInv, Load
  PROVE  HeaderChecked' /\ Forgotten' /\ LoadedIsVerified'
<1>1. /\ BootTypeOK /\ layout \in Layouts /\ info \in [0..11 -> Nat]
      /\ verified \in BOOLEAN /\ HeaderChecked /\ Forgotten /\ LoadedIsVerified
  BY DEF BInv, BootTypeOK
<1>2. /\ layout["boot_loaded"] \in 0..11 /\ layout["boot_entry_addr"] \in 0..11
      /\ layout["boot_loaded"] # 5 /\ layout["boot_entry_addr"] # 5
      /\ layout["boot_loaded"] # layout["boot_entry_addr"]
  BY <1>1, LoadedPlaces, PlacedApart DEF Globals
<1>3. CASE BeginBoot
  <2>1. pc' = "header" /\ verified' = FALSE /\ layout' = layout /\ info' = ClearedInfo
    BY <1>3 DEF BeginBoot
  <2>2. info'[layout'["boot_loaded"]] = 0
    BY <1>1, <2>1, ClearedInfoTyped
  <2>3. QED
    BY <2>1, <2>2 DEF HeaderChecked, Forgotten, LoadedIsVerified, Settled, Global
<1>4. CASE RejectHeader
  <2>1. PICK h \in Headers : Verdict(h) # OK /\ info' = [info EXCEPT ![5] = Verdict(h)]
    BY <1>4 DEF RejectHeader
  <2>2. pc = "header" /\ pc' = "poll" /\ UNCHANGED <<layout, verified>>
    BY <1>4 DEF RejectHeader, Prompt
  <2>3. info[layout["boot_loaded"]] = 0 /\ ~verified
    BY <1>1, <2>2 DEF Forgotten, Global
  <2>4. info'[5] # OK /\ info'[layout'["boot_loaded"]] = 0
    BY <1>1, <1>2, <2>1, <2>2, <2>3
  <2>5. QED
    BY <2>2, <2>3, <2>4 DEF HeaderChecked, Forgotten, LoadedIsVerified, Global
<1>5. CASE AcceptHeader
  <2>1. /\ pc = "header" /\ pc' = "copy" /\ Verdict(hdr') = OK
        /\ UNCHANGED <<layout, info, verified>>
    BY <1>5 DEF AcceptHeader
  <2>2. QED
    BY <1>1, <2>1 DEF HeaderChecked, Forgotten, LoadedIsVerified, Settled, Global
<1>6. CASE CopyWord
  <2>1. /\ pc = "copy" /\ pc' \in {"copy", "wild"} /\ UNCHANGED <<layout, hdr, verified>>
    BY <1>6 DEF CopyWord
  <2>2. Clear(hdr) => Global("boot_loaded")' = Global("boot_loaded")
    BY <1>6, CopyClear
  <2>3. HeaderChecked'
    BY <1>1, <2>1 DEF HeaderChecked
  <2>4. Forgotten'
    BY <1>1, <2>1, <2>2 DEF Forgotten, Clear, Apart
  <2>5. QED
    BY <2>1, <2>3, <2>4 DEF LoadedIsVerified, Settled
<1>7. CASE RejectImage
  <2>1. /\ pc = "copy" /\ pc' = "poll" /\ UNCHANGED <<layout, hdr, verified>>
        /\ info' = [info EXCEPT ![5] = BadChecksum]
    BY <1>7 DEF RejectImage, Prompt
  <2>2. ~verified /\ (Clear(hdr) => info[layout["boot_loaded"]] = 0)
    BY <1>1, <2>1 DEF Forgotten, Global
  <2>3. info'[5] # OK /\ info'[layout'["boot_loaded"]] = info[layout["boot_loaded"]]
    BY <1>1, <1>2, <2>1 DEF OK, BadChecksum
  <2>4. QED
    BY <2>1, <2>2, <2>3 DEF HeaderChecked, Forgotten, LoadedIsVerified, Global, Clear, Apart
<1>8. CASE AcceptImage
  <2>1. /\ pc = "copy" /\ pc' = "poll" /\ UNCHANGED <<layout, hdr>> /\ verified' = TRUE
        /\ info' = Write(Write(BootInfo(hdr), "boot_entry_addr", hdr.entry),
                         "boot_loaded", 1)
    BY <1>8 DEF AcceptImage, Prompt
  <2>2. BootInfo(hdr) \in [0..11 -> Nat] /\ BootInfo(hdr)[5] = OK /\ hdr.entry \in Nat
    BY <1>1, BootInfoTyped, LoaderNumbers
  <2>3. /\ info'[5] = OK /\ info'[layout'["boot_loaded"]] = 1
        /\ info'[layout'["boot_entry_addr"]] = hdr'.entry
    <3> DEFINE f == BootInfo(hdr)
    <3>1. info' = [[f EXCEPT ![layout["boot_entry_addr"]] = hdr.entry]
                    EXCEPT ![layout["boot_loaded"]] = 1]
      BY <2>1 DEF Write
    <3>2. QED
      <4> HIDE DEF f
      <4>1. f \in [0..11 -> Nat] /\ f[5] = OK
        BY <2>2 DEF f
      <4>2. QED
        BY <1>2, <2>1, <3>1, <4>1
  <2>4. QED
    BY <2>1, <2>3 DEF HeaderChecked, Forgotten, LoadedIsVerified, Global
<1>9. QED
  BY <1>3, <1>4, <1>5, <1>6, <1>7, <1>8 DEF Load

(* A scan code from the keyboard changes neither the status word nor the   *)
(* two variables.                                                          *)
LEMMA PollKept ==
  ASSUME BInv, Poll
  PROVE  HeaderChecked' /\ Forgotten' /\ LoadedIsVerified'
<1>1. BootTypeOK /\ HeaderChecked /\ Forgotten /\ LoadedIsVerified
  BY DEF BInv
<1>2. CASE PollUart \/ PollStatus
  <2>1. /\ layout' = layout /\ info' = info /\ hdr' = hdr /\ verified' = verified
        /\ pc \in {"poll", "status"} /\ pc' \in {"poll", "status", "data", "run"}
    BY <1>2 DEF PollUart, PollStatus, loader
  <2>2. Settled
    BY <2>1 DEF Settled
  <2>3. QED
    BY <1>1, <2>1, <2>2, LoaderIdle
<1>3. CASE PollData
  <2>1. /\ layout' = layout /\ hdr' = hdr /\ verified' = verified
        /\ pc = "data" /\ pc' \in {"poll", "run"} /\ info' = KeyInfo(ps2.rx_data.code)
    BY <1>3 DEF PollData, Prompt
  <2>2. ps2.rx_data.code \in Nat
    <3>1. ps2.rx_data \in Codes
      BY <1>1 DEF BootTypeOK
    <3>2. QED
      BY <3>1, CodeTyped
  <2>3. layout \in Layouts
    BY <1>1 DEF BootTypeOK
  <2>4. /\ layout["ps2_break_prefix"] # 5 /\ layout["ps2_extended_prefix"] # 5
    BY <2>3, Placed DEF Globals
  <2>5. /\ info'[5] = info[5]
        /\ info'[layout["boot_loaded"]] = info[layout["boot_loaded"]]
        /\ info'[layout["boot_entry_addr"]] = info[layout["boot_entry_addr"]]
    <3>1. \A w \in 0..11 : /\ w # layout["ps2_break_prefix"]
                           /\ w # layout["ps2_extended_prefix"] /\ w \notin {6, 7}
                           => info'[w] = info[w]
      BY <1>1, <2>1, <2>2, KeyInfoTyped
    <3>2. QED
      BY <2>3, <2>4, <3>1, LoadedPlaces
  <2>6. QED
    BY <1>1, <2>1, <2>5 DEF HeaderChecked, Forgotten, LoadedIsVerified, Settled, Global,
                            Clear, Apart
<1>4. QED
  BY <1>2, <1>3 DEF Poll

LEMMA RestKept ==
  ASSUME BInv, Run \/ App \/ UartRx \/ Key \/ Ps2Rx \/ UNCHANGED vars
  PROVE  HeaderChecked' /\ Forgotten' /\ LoadedIsVerified'
<1>1. HeaderChecked /\ Forgotten /\ LoadedIsVerified
  BY DEF BInv
<1>2. layout' = layout /\ info' = info /\ hdr' = hdr /\ verified' = verified
  BY DEF Run, RunPrint, RunLed, RunBoot, show_ps2_status, show_boot_info,
         dump_memory_snapshot, run_ram_test, run_npu_mmio_test, run_npu_pcpi_test,
         run_npu_vec16_test, run_npu_matvec_test, run_loaded_program, NpuTest, Silent,
         App, AppUart, AppKey, AppReturn, UartRx, Key, Ps2Rx, vars, loader
<1>3. \/ pc' = pc
      \/ pc \in {"run", "app"} /\ pc' \notin {"header", "copy"}
  BY DEF Run, RunPrint, RunLed, RunBoot, show_ps2_status, show_boot_info,
         dump_memory_snapshot, run_ram_test, run_npu_mmio_test, run_npu_pcpi_test,
         run_npu_vec16_test, run_npu_matvec_test, run_loaded_program, NpuTest, Running,
         Prompt, GoTarget, App, AppUart, AppKey, AppReturn, UartRx, Key, Ps2Rx, vars
<1>4. pc \in {"run", "app"} => Settled
  BY DEF Settled
<1>5. QED
  BY <1>1, <1>2, <1>3, <1>4, LoaderIdle

LEMMA InitInvariant == Init => BInv
<1>1. ASSUME Init PROVE HeaderChecked /\ Forgotten /\ LoadedIsVerified
  BY <1>1 DEF Init, HeaderChecked, Forgotten, LoadedIsVerified, Settled
<1>2. QED
  BY <1>1, InitTyped DEF BInv

LEMMA NextInvariant == BInv /\ [Next]_vars => BInv'
<1>1. ASSUME BInv, [Next]_vars
      PROVE  HeaderChecked' /\ Forgotten' /\ LoadedIsVerified'
  BY <1>1, LoadKept, PollKept, RestKept DEF Next, Monitor
<1>2. QED
  BY <1>1, NextTyped DEF BInv
-----------------------------------------------------------------------------
(* The variables keep their types, whatever cards, keys and characters     *)
(* come and in whatever order (bootrom.c:431-504).                         *)
THEOREM BootTypes == Spec => []BootTypeOK
<1>1. BInv => BootTypeOK
  BY DEF BInv
<1>2. QED
  BY <1>1, InitInvariant, NextInvariant, PTL DEF Spec

(* Whatever header a card presents, of whatever width, the loader writes   *)
(* no byte outside SRAM (bootrom.c:369-389).                               *)
THEOREM LoadsInsideSram == Spec => []LoaderInBounds
<1>1. BInv => LoaderInBounds
  BY CopyInBounds DEF BInv
<1>2. QED
  BY <1>1, InitInvariant, NextInvariant, PTL DEF Spec

(* Wherever linker.ld and the compiler put the static variables, the       *)
(* status word, boot_loaded and the entry address agree with the verdict   *)
(* of the last attempt, for an image clear of the block and the stack      *)
(* (bootrom.c:344-415).                                                    *)
THEOREM LoadedWasVerified == Spec => []LoadedIsVerified
<1>1. BInv => LoadedIsVerified
  BY DEF BInv
<1>2. QED
  BY <1>1, InitInvariant, NextInvariant, PTL DEF Spec
-----------------------------------------------------------------------------
(* The self tests answer from what they themselves put into the block.     *)
LEMMA TestsAnswer ==
  ASSUME BootTypeOK, SelfTestsPass, [Next]_vars
  PROVE  SelfTestsPass'
<1>1. DOMAIN npu = {"acc", "rows", "done"}
  BY DEF BootTypeOK
<1>2. CASE run_npu_mmio_test
  <2> DEFINE n == Start(npu, VecA[1], VecB[1])
  <2>1. n.done /\ n.acc = 50
    BY <1>1 DEF Start, Dot4, VecA, VecB
  <2>2. reply' = IF n.done /\ n.acc = 50 THEN "NPU=OK" ELSE "NPU=ER"
    BY <1>2 DEF run_npu_mmio_test, NpuTest, Say
  <2> QED
    BY <2>1, <2>2 DEF SelfTestsPass
<1>3. CASE run_npu_pcpi_test
  <2>1. Dot4(VecA[1], VecB[1]) = 50
    BY DEF Dot4, VecA, VecB
  <2> QED
    BY <1>3, <2>1 DEF run_npu_pcpi_test, NpuTest, Say, SelfTestsPass
<1>4. CASE run_npu_vec16_test
  <2> DEFINE n == Vec16(npu)
             pcpi == Dot4(VecA[1], VecB[1]) + Dot4(VecA[2], VecB[2])
                     + Dot4(VecA[3], VecB[3]) + Dot4(VecA[4], VecB[4])
  <2>1. /\ Dot4(VecA[1], VecB[1]) = 50 /\ Dot4(VecA[2], VecB[2]) = -2
        /\ Dot4(VecA[3], VecB[3]) = -60 /\ Dot4(VecA[4], VecB[4]) = -152
    BY DEF Dot4, VecA, VecB
  <2>2. n.done /\ n.acc = -164
    BY <1>1, <2>1 DEF Vec16, Accumulate, StartAccum, Start, ClearAccumulator
  <2>3. reply' = IF n.done /\ n.acc = -164 /\ pcpi = -164 THEN "V16=OK" ELSE "V16=ER"
    BY <1>4 DEF run_npu_vec16_test, NpuTest, Say
  <2> QED
    BY <2>1, <2>2, <2>3 DEF SelfTestsPass
<1>5. CASE run_npu_matvec_test
  <2> DEFINE n == StartMatvec(npu, VecB[1], VecA)
  <2>1. /\ Dot4(VecB[1], VecA[1]) = 50 /\ Dot4(VecB[1], VecA[2]) = -4
        /\ Dot4(VecB[1], VecA[3]) = -50 /\ Dot4(VecB[1], VecA[4]) = 226
    BY DEF Dot4, VecA, VecB
  <2>2. n.done /\ n.acc = 50 /\ n.rows = <<-4, -50, 226>>
    BY <2>1 DEF StartMatvec
  <2>3. reply' = IF n.done /\ n.acc = 50 /\ n.rows = <<-4, -50, 226>>
                 THEN "MAT=OK" ELSE "MAT=ER"
    BY <1>5 DEF run_npu_matvec_test, NpuTest, Say
  <2> QED
    BY <2>2, <2>3 DEF SelfTestsPass
<1>6. CASE Run /\ ~run_npu_mmio_test /\ ~run_npu_pcpi_test /\ ~run_npu_vec16_test
           /\ ~run_npu_matvec_test
  BY <1>6 DEF Run, RunPrint, RunLed, RunBoot, show_ps2_status, show_boot_info,
              dump_memory_snapshot, run_ram_test, run_loaded_program, Say, SelfTestsPass
<1>7. CASE Load \/ Poll
  BY <1>7 DEF Load, BeginBoot, RejectHeader, AcceptHeader, CopyWord, RejectImage,
              AcceptImage, Poll, PollUart, PollStatus, PollData, Say, SelfTestsPass
<1>8. CASE App \/ UartRx \/ Key \/ Ps2Rx \/ UNCHANGED vars
  BY <1>8 DEF App, AppUart, AppKey, AppReturn, UartRx, Key, Ps2Rx, vars, Say, SelfTestsPass
<1>9. QED
  BY <1>2, <1>3, <1>4, <1>5, <1>6, <1>7, <1>8 DEF Next, Monitor, Run

(* The self tests pass on a working block, whatever an earlier test or a   *)
(* program left in the accumulator, the row results and the done bit       *)
(* (bootrom.c:229-305).                                                    *)
THEOREM TestsPass == Spec => []SelfTestsPass
<1>1. Init => SelfTestsPass
  BY DEF Init, SelfTestsPass
<1>2. BInv /\ SelfTestsPass /\ [Next]_vars => SelfTestsPass'
  BY TestsAnswer DEF BInv
<1>3. QED
  BY <1>1, <1>2, InitInvariant, NextInvariant, PTL DEF Spec

-----------------------------------------------------------------------------
(* Addresses rounded up to 32 bytes.                                       *)
LEMMA AlignedUp ==
  ASSUME NEW a \in Nat
  PROVE  /\ Align32(a) \in Nat /\ Align32(a) % 4 = 0 /\ Align32(a) + 32 <= AddrMod
         /\ a + 31 < AddrMod => a <= Align32(a)
<1>0. AddrMod \in Nat /\ AddrMod % 32 = 0 /\ AddrMod > 0
  BY BootAssumption
<1>1. PICK n \in Nat : AddrMod = 32 * n /\ n > 0
  <2>1. /\ AddrMod \div 32 \in Nat /\ AddrMod = 32 * (AddrMod \div 32)
        /\ AddrMod \div 32 > 0
    BY <1>0
  <2> QED
    BY <2>1
<1>2. Wrap(a + 31) \in 0..AddrMod-1
  BY <1>1, WrapRange
<1> DEFINE b == Wrap(a + 31)
           q == b \div 32
<1>3. q \in 0..n-1 /\ b - 31 <= 32 * q
  <2> HIDE DEF b
  <2> QED
    BY <1>1, <1>2 DEF b
<1>4. 32 * q \in Nat /\ 32 * q + 32 <= AddrMod
  <2> HIDE DEF q
  <2> QED
    BY <1>1, <1>3
<1>5. Align32(a) = 32 * q
  <2>1. Wrap(32 * q) = 32 * q
    <3> HIDE DEF q
    <3>1. 32 * q < AddrMod
      BY <1>0, <1>4
    <3> QED
      BY <1>4, <3>1, WrapSmall
  <2> QED
    BY <2>1 DEF Align32
<1>6. a + 31 < AddrMod => b = a + 31
  BY WrapSmall
<1>7. (32 * q) % 4 = 0
  <2> HIDE DEF q
  <2>1. 32 * q = 4 * (8 * q) /\ 8 * q \in Nat
    BY <1>3
  <2>2. \A m \in Nat : (4 * m) % 4 = 0
    OBVIOUS
  <2> QED
    BY <2>1, <2>2
<1> HIDE DEF b, q
<1>8. QED
  BY <1>3, <1>4, <1>5, <1>6, <1>7

LEMMA WrapNat == ASSUME NEW a \in Nat PROVE Wrap(a) \in Nat
<1>1. AddrMod > 0
  BY Sizes
<1>2. Wrap(a) \in 0..AddrMod-1
  BY <1>1, WrapRange
<1>3. QED
  BY <1>2, Sizes

(* Where the RAM test writes.                                              *)
LEMMA TestPlace ==
  ASSUME BootTypeOK
  PROVE  /\ TestBase \in Nat /\ TestBase % 4 = 0 /\ TestBase >= TestMin
         /\ TestBase + 16 < AddrMod
<1>0. info \in [0..11 -> Nat]
  BY DEF BootTypeOK
<1>1. info[1] \in Nat /\ info[2] \in Nat
  BY <1>0
<1>2. Wrap(info[1] + info[2]) \in Nat
  BY <1>1, WrapNat
<1> DEFINE e == Align32(Wrap(info[1] + info[2]))
<1>3. e \in Nat /\ e % 4 = 0 /\ e + 32 <= AddrMod
  BY <1>2, AlignedUp
<1>4. TestMin \in Nat /\ TestMin % 4 = 0 /\ TestMin + 16 < AddrMod
  BY BootAssumption DEF TestMin
<1>5. (TestBase = e /\ e > TestMin) \/ TestBase = TestMin
  BY DEF TestBase
<1> HIDE DEF e
<1>6. QED
  BY <1>3, <1>4, <1>5, Sizes

(* Wherever the variables lie, and whatever an image or a key put into the *)
(* words it reads, the RAM test writes between RAMTEST_MIN_BASE and        *)
(* RAMTEST_LIMIT or not at all (bootrom.c:200-216).                        *)
THEOREM RamTestStaysInside == Spec => []RamTestInBounds
<1>1. BInv => RamTestInBounds
  <2> SUFFICES ASSUME BInv, TestFits
               PROVE  TestBase >= TestMin /\ TestBase + 16 <= TestLimit
    BY DEF RamTestInBounds
  <2>1. TestBase \in Nat /\ TestBase >= TestMin /\ TestBase + 16 < AddrMod
    BY TestPlace DEF BInv
  <2>2. Wrap(TestBase + 16) = TestBase + 16
    BY <2>1, WrapSmall
  <2> QED
    BY <2>1, <2>2 DEF TestFits
<1>2. QED
  BY <1>1, InitInvariant, NextInvariant, PTL DEF Spec

-----------------------------------------------------------------------------
(* What follows a prefix is on its way behind the prefix, or is the next   *)
(* code and the monitor remembers that the prefix came: in a variable that *)
(* the attempt to boot under way, if there is one, will not overwrite.     *)
Prefixes == {"ps2_break_prefix", "ps2_extended_prefix"}
Remembered == \E g \in Prefixes :
  Global(g) # 0 /\ (pc \in {"header", "copy"} => layout[g] >= 8)
(* The codes a keyboard sends.                                             *)
Sent(c) == /\ c.kind # "none"
           /\ c.kind = "prefix" <=> c.code \in {BREAK, EXTENDED}
Paired(s) == \A i \in 1..Len(s) - 1 : s[i + 1].kind = "after" => s[i].kind = "prefix"
PortOK ==
  /\ pc = "data" => ps2.rx_valid
  /\ ps2.rx_valid => Sent(ps2.rx_data)
  /\ ps2.rx_valid /\ ps2.rx_data.kind = "after" => Remembered
LineOK ==
  /\ \A i \in 1..Len(line) : Sent(line[i])
  /\ Paired(line)
  /\ line # <<>> /\ line[1].kind = "after" =>
       IF ps2.rx_valid THEN ps2.rx_data.kind = "prefix" ELSE Remembered
KeysOK == PortOK /\ LineOK /\ KeyTyped

(* A code that is an orphan follows no prefix.                             *)
LEMMA OrphanKind ==
  ASSUME NEW c \in Codes
  PROVE  /\ Orphan(c).kind # "after" /\ Orphan(c).code = c.code
         /\ Orphan(c).kind = "prefix" <=> c.kind = "prefix"
         /\ Sent(c) => Sent(Orphan(c))
BY DEF Orphan, Codes, Sent

LEMMA OrphanHeadKinds ==
  ASSUME NEW s \in Seq(Codes), \A i \in 1..Len(s) : Sent(s[i]), Paired(s)
  PROVE  /\ OrphanHead(s) \in Seq(Codes) /\ \A i \in 1..Len(OrphanHead(s)) : Sent(OrphanHead(s)[i])
         /\ Paired(OrphanHead(s))
         /\ OrphanHead(s) # <<>> => OrphanHead(s)[1].kind # "after"
<1>1. CASE s = <<>>
  BY <1>1 DEF OrphanHead, Paired
<1>2. CASE s # <<>>
  <2> DEFINE t == OrphanHead(s)
  <2>1. /\ t \in Seq(Codes) /\ Len(t) = Len(s) /\ s[1] \in Codes
        /\ t[1] = Orphan(s[1]) /\ \A i \in 2..Len(s) : t[i] = s[i]
    BY <1>2, OrphanHeadTyped DEF OrphanHead
  <2> HIDE DEF t
  <2>2. \A i \in 1..Len(s) : Sent(t[i])
    BY <2>1, <1>2, OrphanKind
  <2>3. ASSUME NEW i \in 1..Len(t) - 1, t[i + 1].kind = "after"
        PROVE  t[i].kind = "prefix"
    <3>1. s[i + 1].kind = "after" /\ i \in 1..Len(s) - 1
      BY <2>1, <2>3
    <3>2. s[i].kind = "prefix"
      BY <3>1 DEF Paired
    <3> QED
      BY <2>1, <2>3, <3>2, OrphanKind
  <2>4. t[1].kind # "after"
    BY <2>1, OrphanKind
  <2>5. t \in Seq(Codes) /\ (\A i \in 1..Len(t) : Sent(t[i])) /\ Paired(t) /\ t[1].kind # "after"
    BY <2>1, <2>2, <2>3, <2>4 DEF Paired
  <2> QED
    BY <2>5 DEF t
<1>3. QED
  BY <1>1, <1>2

(* The rest of the line.                                                   *)
LEMMA TailKinds ==
  ASSUME NEW s \in Seq(Codes), s # <<>>, \A i \in 1..Len(s) : Sent(s[i]), Paired(s)
  PROVE  /\ Head(s) = s[1] /\ Head(s) \in Codes /\ Sent(Head(s)) /\ Tail(s) \in Seq(Codes)
         /\ \A i \in 1..Len(Tail(s)) : Sent(Tail(s)[i])
         /\ Paired(Tail(s))
         /\ Tail(s) # <<>> /\ Tail(s)[1].kind = "after" => Head(s).kind = "prefix"
<1> DEFINE t == Tail(s)
<1>1. /\ t \in Seq(Codes) /\ Len(t) = Len(s) - 1 /\ \A i \in 1..Len(t) : t[i] = s[i + 1]
      /\ Head(s) = s[1] /\ s[1] \in Codes /\ Len(s) >= 1
  OBVIOUS
<1>2. t # <<>> => 1 \in 1..Len(t)
  BY <1>1
<1> HIDE DEF t
<1>3. \A i \in 1..Len(t) : Sent(t[i])
  BY <1>1
<1>4. Paired(t)
  BY <1>1 DEF Paired
<1>5. t # <<>> /\ t[1].kind = "after" => s[1].kind = "prefix"
  BY <1>1, <1>2 DEF Paired
<1>6. Sent(s[1])
  BY <1>1
<1>7. QED
  BY <1>1, <1>3, <1>4, <1>5, <1>6 DEF t

(* Steps that leave the keyboard alone, and what it is remembered by.      *)
LEMMA KeysIdle ==
  ASSUME KeysOK, ps2' = ps2, line' = line, Remembered => Remembered',
         pc' = "data" => ps2.rx_valid, KeyTyped'
  PROVE  KeysOK'
BY DEF KeysOK, PortOK, LineOK

LEMMA PrefixPlaces ==
  ASSUME layout \in Layouts
  PROVE  \A g \in Prefixes :
           /\ layout[g] \in 0..11 /\ layout[g] \notin 4..7
           /\ layout[g] # layout["boot_loaded"] /\ layout[g] # layout["boot_entry_addr"]
<1>1. \A g \in Prefixes : g \in Globals /\ g # "boot_loaded" /\ g # "boot_entry_addr"
  BY DEF Globals, Prefixes
<1>2. "boot_loaded" \in Globals /\ "boot_entry_addr" \in Globals
  BY DEF Globals
<1>3. QED
  BY <1>1, <1>2, Placed, PlacedApart

(* The start of an attempt forgets the prefixes in the block, and what     *)
(* they were for becomes an orphan.                                        *)
LEMMA BeginKeys ==
  ASSUME BootTypeOK, KeysOK, BeginBoot
  PROVE  KeysOK'
<1>1. /\ layout \in Layouts /\ info \in [0..11 -> Nat] /\ line \in Seq(Codes)
      /\ ps2 \in [rx_data : Codes, rx_valid : BOOLEAN, overflow : BOOLEAN]
  BY DEF BootTypeOK
<1>2. pc = "boot" /\ pc' = "header" /\ layout' = layout /\ info' = ClearedInfo
  BY DEF BeginBoot
<1>3. KeyTyped'
  BY <1>2 DEF KeyTyped
<1> DEFINE forgotten == \E g \in Prefixes : Global(g) # 0 /\ info'[layout[g]] = 0
<1>4. IF forgotten /\ ps2.rx_valid
      THEN ps2' = [ps2 EXCEPT !.rx_data = Orphan(@)] /\ line' = line
      ELSE ps2' = ps2 /\ line' = (IF forgotten THEN OrphanHead(line) ELSE line)
  BY DEF BeginBoot, Prefixes
<1>5. CASE forgotten /\ ps2.rx_valid
  <2>1. /\ ps2'.rx_data = Orphan(ps2.rx_data) /\ ps2'.rx_valid /\ line' = line
        /\ ps2.rx_data \in Codes
    BY <1>1, <1>4, <1>5
  <2>2. Sent(ps2.rx_data)
    BY <1>5 DEF KeysOK, PortOK
  <2>3. PortOK'
    BY <1>2, <2>1, <2>2, OrphanKind DEF PortOK
  <2>4. LineOK'
    BY <1>5, <2>1, OrphanKind DEF KeysOK, LineOK
  <2> QED
    BY <1>3, <2>3, <2>4 DEF KeysOK
<1>6. CASE forgotten /\ ~ps2.rx_valid
  <2>1. ps2' = ps2 /\ line' = OrphanHead(line)
    BY <1>4, <1>6
  <2>2. PortOK'
    BY <1>2, <1>6, <2>1 DEF PortOK
  <2>3. LineOK'
    BY <1>1, <2>1, OrphanHeadKinds DEF KeysOK, LineOK
  <2> QED
    BY <1>3, <2>2, <2>3 DEF KeysOK
<1>7. CASE ~forgotten
  <2>1. ps2' = ps2 /\ line' = line
    BY <1>4, <1>7
  <2>2. Remembered => Remembered'
    <3> SUFFICES ASSUME NEW g \in Prefixes, Global(g) # 0
                 PROVE  Remembered'
      BY DEF Remembered
    <3>1. info'[layout[g]] # 0
      BY <1>7
    <3>2. layout[g] \in 0..11
      BY <1>1, PrefixPlaces
    <3>3. layout[g] >= 8
      <4> DEFINE f == [w \in 0..11 |-> IF w < 8 THEN 0 ELSE info[w]]
      <4>1. info' = [[f EXCEPT ![layout["boot_loaded"]] = 0]
                        EXCEPT ![layout["boot_entry_addr"]] = 0]
        BY <1>2 DEF ClearedInfo, Write
      <4>2. layout[g] < 8 => f[layout[g]] = 0
        BY <3>2
      <4>3. DOMAIN f = 0..11
        OBVIOUS
      <4> HIDE DEF f
      <4> QED
        BY <3>1, <3>2, <4>1, <4>2, <4>3
    <3> QED
      BY <1>2, <3>1, <3>3 DEF Remembered, Global
  <2> QED
    BY <1>2, <1>3, <2>1, <2>2, KeysIdle
<1>8. QED
  BY <1>5, <1>6, <1>7

(* The rest of an attempt writes the block and the loader's own variables. *)
LEMMA LoadKeys ==
  ASSUME BootTypeOK, KeysOK, Load
  PROVE  KeysOK'
<1>1. /\ layout \in Layouts /\ info \in [0..11 -> Nat]
  BY DEF BootTypeOK
<1>2. ASSUME pc \in {"header", "copy"}, pc' \notin {"data", "run"},
             layout' = layout, ps2' = ps2, line' = line,
             \A g \in Prefixes : layout[g] >= 8 => info'[layout[g]] = info[layout[g]]
      PROVE  KeysOK'
  <2>1. KeyTyped'
    BY <1>2 DEF KeyTyped
  <2>2. Remembered => Remembered'
    BY <1>2 DEF Remembered, Global
  <2> QED
    BY <1>2, <2>1, <2>2, KeysIdle
<1>3. \A g \in Prefixes : layout[g] \in 0..11
  BY <1>1, PrefixPlaces
<1>4. CASE RejectHeader \/ RejectImage
  <2>1. PICK v : info' = [info EXCEPT ![5] = v]
    BY <1>4 DEF RejectHeader, RejectImage
  <2>2. /\ pc \in {"header", "copy"} /\ pc' = "poll" /\ layout' = layout
        /\ ps2' = ps2 /\ line' = line
    BY <1>4 DEF RejectHeader, RejectImage, Prompt, inputs
  <2> QED
    BY <1>1, <1>2, <1>3, <2>1, <2>2
<1>5. CASE AcceptHeader
  BY <1>2, <1>5 DEF AcceptHeader, inputs
<1>6. CASE CopyWord
  <2>1. \/ info' = info
        \/ \E w \in 0..7 : \E v : info' = [info EXCEPT ![w] = v]
    BY <1>6 DEF CopyWord, BlockWords
  <2>2. /\ pc = "copy" /\ pc' \in {"copy", "wild"} /\ layout' = layout
        /\ ps2' = ps2 /\ line' = line
    BY <1>6 DEF CopyWord, inputs
  <2> QED
    BY <1>1, <1>2, <1>3, <2>1, <2>2
<1>7. CASE AcceptImage
  <2>1. info' = [[BootInfo(hdr) EXCEPT ![layout["boot_entry_addr"]] = hdr.entry]
                   EXCEPT ![layout["boot_loaded"]] = 1]
    BY <1>7 DEF AcceptImage, Write
  <2>2. \A w \in 8..11 : BootInfo(hdr)[w] = info[w]
    BY DEF BootInfo
  <2>3. DOMAIN BootInfo(hdr) = 0..11
    BY DEF BootInfo
  <2>4. \A g \in Prefixes : layout[g] >= 8 => info'[layout[g]] = info[layout[g]]
    <3> TAKE g \in Prefixes
    <3>1. layout[g] # layout["boot_loaded"] /\ layout[g] # layout["boot_entry_addr"]
      BY <1>1, PrefixPlaces
    <3>2. info'[layout[g]] = BootInfo(hdr)[layout[g]]
      BY <1>3, <2>1, <2>3, <3>1
    <3> QED
      BY <1>3, <2>2, <3>2
  <2>5. pc = "copy" /\ pc' = "poll" /\ layout' = layout /\ ps2' = ps2 /\ line' = line
    BY <1>7 DEF AcceptImage, Prompt, inputs
  <2> QED
    BY <1>2, <2>4, <2>5
<1>8. QED
  BY <1>4, <1>5, <1>6, <1>7, BeginKeys DEF Load

(* A read of the port by one who will remember a prefix, or after which    *)
(* what follows is an orphan.                                              *)
LEMMA ReadKeys ==
  ASSUME BootTypeOK, KeysOK, NEW r \in BOOLEAN, ReadData(r), ps2.rx_valid, pc' # "data",
         r /\ ps2.rx_data.kind = "prefix" => Remembered'
  PROVE  PortOK' /\ LineOK'
<1>1. line \in Seq(Codes) /\ LineOK
  BY DEF BootTypeOK, KeysOK
<1>2. CASE /\ ps2' = [ps2 EXCEPT !.rx_valid = FALSE]
           /\ line' = (IF r THEN line ELSE OrphanHead(line))
  <2>1. ~ps2'.rx_valid
    BY <1>2 DEF BootTypeOK
  <2>2. PortOK'
    BY <2>1 DEF PortOK
  <2>3. CASE r
    <3>1. line # <<>> /\ line[1].kind = "after" => Remembered'
      BY <1>1, <2>3 DEF LineOK
    <3> QED
      BY <1>1, <1>2, <2>1, <2>2, <2>3, <3>1 DEF LineOK
  <2>4. CASE ~r
    <3>1. line' = OrphanHead(line)
      BY <1>2, <2>4
    <3>2. (\A i \in 1..Len(line) : Sent(line[i])) /\ Paired(line)
      BY <1>1 DEF LineOK
    <3>3. /\ \A i \in 1..Len(line') : Sent(line'[i])
          /\ Paired(line') /\ (line' # <<>> => line'[1].kind # "after")
      BY <1>1, <3>1, <3>2, OrphanHeadKinds
    <3> QED
      BY <2>2, <3>3 DEF LineOK
  <2> QED
    BY <2>3, <2>4
<1>3. CASE /\ line # <<>>
           /\ ps2' = [rx_data |-> Head(line), rx_valid |-> FALSE,
                      overflow |-> ps2.overflow \/ ps2.rx_valid]
           /\ line' = (IF Head(line).kind = "prefix" THEN OrphanHead(Tail(line))
                                                     ELSE Tail(line))
  <2>1. ~ps2'.rx_valid
    BY <1>3
  <2>2. PortOK'
    BY <2>1 DEF PortOK
  <2> DEFINE t == Tail(line)
  <2>3. /\ t \in Seq(Codes) /\ (\A i \in 1..Len(t) : Sent(t[i])) /\ Paired(t)
        /\ t # <<>> /\ t[1].kind = "after" => Head(line).kind = "prefix"
    BY <1>1, <1>3, TailKinds DEF LineOK
  <2>4. line' = IF Head(line).kind = "prefix" THEN OrphanHead(t) ELSE t
    BY <1>3
  <2> HIDE DEF t
  <2>5. /\ \A i \in 1..Len(line') : Sent(line'[i])
        /\ Paired(line') /\ (line' # <<>> => line'[1].kind # "after")
    BY <2>3, <2>4, OrphanHeadKinds
  <2> QED
    BY <2>2, <2>5 DEF LineOK
<1>4. QED
  BY <1>2, <1>3 DEF ReadData

(* A prefix that is read is remembered; a command is no prefix and follows *)
(* none.                                                                   *)
LEMMA DataKeys ==
  ASSUME BootTypeOK, KeysOK, PollData
  PROVE  KeysOK'
<1> DEFINE c == ps2.rx_data
<1>1. /\ layout \in Layouts /\ info \in [0..11 -> Nat] /\ line \in Seq(Codes)
      /\ c \in Codes
  BY DEF BootTypeOK
<1>2. ps2.rx_valid /\ Sent(c) /\ (c.kind = "after" => Remembered)
  BY DEF PollData, KeysOK, PortOK
<1>3. /\ pc = "data" /\ pc' \in {"poll", "run"} /\ layout' = layout
      /\ info' = KeyInfo(c.code)
      /\ pc' = "run" => IsCommand(c.code) /\ ch'.from = c.kind
  <2>1. /\ pc = "data" /\ layout' = layout /\ info' = KeyInfo(c.code)
        /\ IF IsCommand(c.code)
           THEN pc' = "run" /\ ch' = [c |-> decode_ps2_ascii(c.code), from |-> c.kind]
           ELSE pc' = "poll"
    BY DEF PollData, Prompt
  <2> QED
    BY <2>1
<1>4. ASSUME c.kind = "prefix" PROVE Remembered'
  <2>1. PICK g \in Prefixes : KeyInfo(c.code) = [info EXCEPT ![layout[g]] = 1]
    <3>1. c.code \in {BREAK, EXTENDED}
      BY <1>2, <1>4 DEF Sent
    <3>2. \/ KeyInfo(c.code) = Write(info, "ps2_break_prefix", 1)
          \/ KeyInfo(c.code) = Write(info, "ps2_extended_prefix", 1)
      <4>1. CASE c.code = BREAK
        BY <4>1 DEF KeyInfo, BREAK, EXTENDED
      <4>2. CASE c.code = EXTENDED
        BY <4>2 DEF KeyInfo, BREAK, EXTENDED
      <4> QED
        BY <3>1, <4>1, <4>2
    <3> QED
      BY <3>2 DEF Write, Prefixes
  <2>2. layout[g] \in 0..11
    BY <1>1, PrefixPlaces
  <2>3. info'[layout'[g]] = 1
    BY <1>1, <1>3, <2>1, <2>2
  <2> QED
    BY <1>3, <2>3 DEF Remembered, Global
<1>5. KeyTyped'
  <2>1. Remembered => Swallowed
    BY DEF Remembered, Swallowed, Prefixes
  <2>2. IsCommand(c.code) => c.kind # "prefix" /\ c.kind # "after" /\ c.kind # "none"
    BY <1>2, <2>1 DEF IsCommand, Sent
  <2>3. c.kind \in Kinds
    BY <1>1 DEF Codes
  <2> QED
    BY <1>3, <2>2, <2>3 DEF KeyTyped, Kinds
<1>6. PortOK' /\ LineOK'
  BY <1>2, <1>3, <1>4, ReadKeys DEF PollData
<1>7. QED
  BY <1>5, <1>6 DEF KeysOK

(* The program reads a code, and will not tell the monitor.                *)
LEMMA AppKeys ==
  ASSUME BootTypeOK, KeysOK, AppKey
  PROVE  KeysOK'
<1>1. /\ pc = "app" /\ pc' = pc /\ ch' = ch /\ ps2.rx_valid
      /\ ReadData(ps2.rx_data.kind # "prefix")
  BY DEF AppKey
<1>2. KeyTyped'
  BY <1>1 DEF KeyTyped
<1>3. PortOK' /\ LineOK'
  <2>1. (ps2.rx_data.kind # "prefix") \in BOOLEAN
    OBVIOUS
  <2> QED
    BY <1>1, <2>1, ReadKeys
<1>4. QED
  BY <1>2, <1>3 DEF KeysOK

(* A code reaches the port.  If it overwrites a prefix, it is an orphan.   *)
LEMMA PortKeys ==
  ASSUME BootTypeOK, KeysOK, Ps2Rx
  PROVE  KeysOK'
<1> DEFINE c == ps2.rx_data
           lost == ps2.rx_valid /\ c.kind = "prefix"
           t == Tail(line)
<1>1. line \in Seq(Codes) /\ line # <<>> /\ LineOK
  BY DEF BootTypeOK, Ps2Rx, KeysOK
<1>2. /\ Head(line) = line[1] /\ Head(line) \in Codes /\ Sent(Head(line)) /\ t \in Seq(Codes)
      /\ (\A i \in 1..Len(t) : Sent(t[i])) /\ Paired(t)
      /\ t # <<>> /\ t[1].kind = "after" => Head(line).kind = "prefix"
  BY <1>1, TailKinds DEF LineOK
<1>3. /\ ps2' = [rx_data |-> IF lost THEN Orphan(Head(line)) ELSE Head(line),
                 rx_valid |-> TRUE, overflow |-> ps2.overflow \/ ps2.rx_valid]
      /\ line' = t
  BY DEF Ps2Rx
<1>4. /\ pc' = pc /\ ch' = ch /\ layout' = layout /\ info' = info
  BY DEF Ps2Rx
<1>5. Remembered' <=> Remembered
  BY <1>4 DEF Remembered, Global
<1>6. KeyTyped'
  BY <1>4 DEF KeyTyped, KeysOK
<1> HIDE DEF t
<1>7. /\ ps2'.rx_valid /\ Sent(ps2'.rx_data)
      /\ ps2'.rx_data.kind = "prefix" <=> Head(line).kind = "prefix"
      /\ ps2'.rx_data.kind = "after" => ~lost /\ Head(line).kind = "after"
  <2>1. ps2'.rx_valid /\ ps2'.rx_data = IF lost THEN Orphan(Head(line)) ELSE Head(line)
    BY <1>3
  <2> HIDE DEF lost
  <2> QED
    BY <1>2, <2>1, OrphanKind
<1>8. PortOK'
  <2>1. Head(line).kind = "after" /\ ~lost => Remembered
    BY <1>1, <1>2 DEF LineOK
  <2> QED
    BY <1>5, <1>7, <2>1 DEF PortOK
<1>9. LineOK'
  BY <1>2, <1>3, <1>7 DEF LineOK
<1>10. QED
  BY <1>6, <1>8, <1>9 DEF KeysOK

(* A key sends what follows a prefix right behind the prefix.              *)
LEMMA KeyKeys ==
  ASSUME BootTypeOK, KeysOK, Key
  PROVE  KeysOK'
<1>1. line \in Seq(Codes) /\ LineOK /\ PortOK
  BY DEF BootTypeOK, KeysOK
<1>2. /\ pc' = pc /\ ch' = ch /\ layout' = layout /\ info' = info /\ ps2' = ps2
  BY DEF Key
<1>3. (Remembered' <=> Remembered) /\ PortOK' /\ KeyTyped'
  BY <1>1, <1>2 DEF Remembered, Global, PortOK, KeyTyped, KeysOK
<1> DEFINE Longer(s) ==
      /\ s \in Seq(Codes) /\ Len(s) > Len(line)
      /\ \A i \in 1..Len(line) : s[i] = line[i]
      /\ \A i \in Len(line) + 1..Len(s) :
           Sent(s[i]) /\ (s[i].kind = "after" => i > Len(line) + 1 /\ s[i - 1].kind = "prefix")
<1>4. ASSUME NEW e \in Codes, Sent(e), e.kind # "after" PROVE Longer(line \o <<e>>)
  <2> DEFINE s == line \o <<e>>
  <2>1. /\ s \in Seq(Codes) /\ Len(s) = Len(line) + 1 /\ s[Len(line) + 1] = e
        /\ \A i \in 1..Len(line) : s[i] = line[i]
    BY <1>1
  <2> HIDE DEF s
  <2>2. Longer(s)
    BY <1>1, <1>4, <2>1
  <2> QED
    BY <2>2 DEF s
<1>5. ASSUME NEW s, Longer(s), NEW e \in Codes, Sent(e), e.kind = "after" => s[Len(s)].kind = "prefix"
      PROVE  Longer(s \o <<e>>) /\ (s \o <<e>>)[Len(s \o <<e>>)] = e
  <2> DEFINE r == s \o <<e>>
  <2>1. /\ r \in Seq(Codes) /\ Len(r) = Len(s) + 1 /\ r[Len(s) + 1] = e
        /\ \A i \in 1..Len(s) : r[i] = s[i]
    BY <1>5
  <2> HIDE DEF r
  <2>2. Len(s) \in Nat /\ Len(line) \in Nat /\ Len(s) > Len(line)
    BY <1>1, <1>5
  <2>3. \A i \in 1..Len(line) : r[i] = line[i]
    BY <1>5, <2>1, <2>2
  <2>4. ASSUME NEW i \in Len(line) + 1..Len(r)
        PROVE  Sent(r[i]) /\ (r[i].kind = "after" => i > Len(line) + 1 /\ r[i - 1].kind = "prefix")
    <3>1. CASE i \in Len(line) + 1..Len(s)
      <4>1. r[i] = s[i] /\ (i > Len(line) + 1 => r[i - 1] = s[i - 1])
        BY <2>1, <2>2, <3>1
      <4> QED
        BY <1>5, <3>1, <4>1
    <3>2. CASE i = Len(s) + 1
      <4>1. r[i] = e /\ r[i - 1] = s[Len(s)] /\ i > Len(line) + 1
        BY <2>1, <2>2, <3>2
      <4> QED
        BY <1>5, <4>1
    <3> QED
      BY <2>1, <2>2, <3>1, <3>2
  <2>5. Longer(r)
    BY <2>1, <2>2, <2>3, <2>4
  <2> QED
    BY <2>1, <2>5 DEF r
<1>6. PICK scan \in Scans, released \in BOOLEAN, extended \in BOOLEAN :
        line' = line \o (IF extended THEN <<Code(EXTENDED, "prefix")>> ELSE <<>>)
                     \o (IF released THEN <<Code(BREAK, "prefix")>> ELSE <<>>)
                     \o <<Code(scan, IF released \/ extended THEN "after" ELSE "press")>>
  BY DEF Key
<1>7. Longer(line')
  <2> DEFINE x == Code(EXTENDED, "prefix")
             b == Code(BREAK, "prefix")
             a == Code(scan, "after")
             p == Code(scan, "press")
  <2>1. /\ x \in Codes /\ b \in Codes /\ Sent(x) /\ Sent(b) /\ x.kind = "prefix"
        /\ b.kind = "prefix"
    BY DEF Code, Codes, Kinds, EXTENDED, BREAK, Sent
  <2>2. a \in Codes /\ Sent(a) /\ p \in Codes /\ Sent(p) /\ p.kind = "press" /\ a.kind = "after"
    <3>1. scan \in 0..255 /\ scan \notin {EXTENDED, BREAK}
      BY BootAssumption DEF EXTENDED, BREAK
    <3> QED
      BY <3>1 DEF Code, Codes, Kinds, Sent
  <2>3. \A s \in Seq(Codes) : s \o <<>> = s
    OBVIOUS
  <2>a. (line \o <<x>>)[Len(line \o <<x>>)] = x /\ (line \o <<b>>)[Len(line \o <<b>>)] = b
    BY <1>1
  <2>4. CASE extended /\ released
    <3>1. line' = line \o <<x>> \o <<b>> \o <<a>>
      BY <1>6, <2>4
    <3> HIDE DEF x, b, a, Longer
    <3>2. Longer(line \o <<x>>)
      BY <1>4, <2>1
    <3>3. /\ Longer(line \o <<x>> \o <<b>>)
          /\ (line \o <<x>> \o <<b>>)[Len(line \o <<x>> \o <<b>>)] = b
      BY <1>5, <2>1, <3>2
    <3> QED
      BY <1>5, <2>1, <2>2, <3>1, <3>3
  <2>5. CASE extended /\ ~released
    <3>1. line' = line \o <<x>> \o <<a>>
      BY <1>1, <1>6, <2>1, <2>3, <2>5
    <3> HIDE DEF x, b, a, Longer
    <3>2. Longer(line \o <<x>>)
      BY <1>4, <2>1
    <3> QED
      BY <1>5, <2>1, <2>2, <2>a, <3>1, <3>2
  <2>6. CASE ~extended /\ released
    <3>1. line' = line \o <<b>> \o <<a>>
      BY <1>1, <1>6, <2>1, <2>3, <2>6
    <3> HIDE DEF x, b, a, Longer
    <3>2. Longer(line \o <<b>>)
      BY <1>4, <2>1
    <3> QED
      BY <1>5, <2>1, <2>2, <2>a, <3>1, <3>2
  <2>7. CASE ~extended /\ ~released
    <3>1. line' = line \o <<p>>
      BY <1>1, <1>6, <2>3, <2>7
    <3> HIDE DEF p, Longer
    <3> QED
      BY <1>4, <2>2, <3>1
  <2> QED
    BY <2>4, <2>5, <2>6, <2>7
<1>8. LineOK'
  <2>1. \A i \in 1..Len(line') : Sent(line'[i])
    BY <1>1, <1>7 DEF LineOK
  <2>2. Paired(line')
    <3> SUFFICES ASSUME NEW i \in 1..Len(line') - 1, line'[i + 1].kind = "after"
                 PROVE  line'[i].kind = "prefix"
      BY DEF Paired
    <3>1. CASE i + 1 <= Len(line)
      BY <1>1, <1>7, <3>1 DEF LineOK, Paired
    <3>2. CASE i + 1 > Len(line)
      BY <1>1, <1>7, <3>2
    <3> QED
      BY <1>1, <3>1, <3>2
  <2>3. line'[1].kind = "after" => line # <<>> /\ line[1].kind = "after"
    BY <1>1, <1>7
  <2> QED
    BY <1>1, <1>2, <1>3, <2>1, <2>2, <2>3 DEF LineOK
<1>9. QED
  BY <1>3, <1>8 DEF KeysOK

(* Every other step.                                                       *)
LEMMA OtherKeys ==
  ASSUME BootTypeOK, KeysOK,
         PollUart \/ PollStatus \/ Run \/ AppUart \/ AppReturn \/ UartRx \/ UNCHANGED vars
  PROVE  KeysOK'
<1>1. layout' = layout /\ info' = info /\ ps2' = ps2 /\ line' = line
  BY DEF PollUart, PollStatus, Run, RunPrint, RunLed, RunBoot, show_ps2_status,
         show_boot_info, dump_memory_snapshot, run_ram_test, run_npu_mmio_test,
         run_npu_pcpi_test, run_npu_vec16_test, run_npu_matvec_test, run_loaded_program,
         NpuTest, Silent, AppUart, AppReturn, UartRx, vars, inputs
<1>2. \/ pc' = pc /\ ch' = ch
      \/ pc \in {"poll", "status", "run", "app"} /\ pc' \in {"boot", "poll", "status", "app", "wild"}
      \/ pc = "poll" /\ pc' = "run" /\ ch'.from = "uart"
      \/ pc = "status" /\ pc' = "data" /\ ps2.rx_valid
  <2>1. CASE PollUart
    <3>1. /\ pc = "poll"
          /\ \/ ch' = [c |-> uart, from |-> "uart"] /\ pc' = "run"
             \/ pc' = "status"
      BY <2>1, Zenon DEF PollUart
    <3> QED
      BY <3>1
  <2>2. CASE PollStatus
    BY <2>2 DEF PollStatus, CodeWaiting
  <2>3. CASE Run \/ AppUart \/ AppReturn
    <3>1. pc \in {"run", "app"}
      BY <2>3 DEF Run, RunPrint, RunLed, RunBoot, show_ps2_status,
         show_boot_info, dump_memory_snapshot, run_ram_test, run_npu_mmio_test,
         run_npu_pcpi_test, run_npu_vec16_test, run_npu_matvec_test, run_loaded_program,
         NpuTest, AppUart, AppReturn, Running
    <3>2. pc' \in {"boot", "poll", "app", "wild"}
      BY <2>3 DEF Run, RunPrint, RunLed, RunBoot, show_ps2_status,
         show_boot_info, dump_memory_snapshot, run_ram_test, run_npu_mmio_test,
         run_npu_pcpi_test, run_npu_vec16_test, run_npu_matvec_test, run_loaded_program,
         NpuTest, Prompt, AppUart, AppReturn, GoTarget
    <3> QED
      BY <3>1, <3>2
  <2>4. CASE UartRx \/ UNCHANGED vars
    BY <2>4 DEF UartRx, vars
  <2> QED
    BY <2>1, <2>2, <2>3, <2>4
<1>3. Remembered => Remembered'
  BY <1>1, <1>2 DEF Remembered, Global
<1>4. KeyTyped'
  BY <1>2 DEF KeyTyped, KeysOK
<1>5. pc' = "data" => ps2.rx_valid
  BY <1>2 DEF KeysOK, PortOK
<1>6. QED
  BY <1>1, <1>3, <1>4, <1>5, KeysIdle

(* The code that follows a break or an extended prefix runs no command: it *)
(* finds the prefix remembered, unless the port lost the prefix, a boot    *)
(* attempt cleared it, or the loaded program read it and returned before   *)
(* it read the code (bootrom.c:132-165).                                   *)
THEOREM CommandsAreTyped == Spec => []KeyTyped
<1>1. Init => KeysOK
  <2> SUFFICES ASSUME Init PROVE KeysOK
    OBVIOUS
  <2>1. pc = "boot" /\ ~ps2.rx_valid /\ line = <<>>
    BY DEF Init
  <2>2. Len(line) = 0
    BY <2>1
  <2> QED
    BY <2>1, <2>2 DEF KeysOK, PortOK, LineOK, KeyTyped, Paired
<1>2. BInv /\ KeysOK /\ [Next]_vars => KeysOK'
  BY LoadKeys, DataKeys, AppKeys, KeyKeys, PortKeys, OtherKeys DEF BInv, Next, Monitor,
     Poll, App
<1>3. KeysOK => KeyTyped
  BY DEF KeysOK
<1>4. QED
  BY <1>1, <1>2, <1>3, InitInvariant, NextInvariant, PTL DEF Spec

-----------------------------------------------------------------------------
(* Every word of the image below what is copied is held, and stays so      *)
(* until the next attempt unless the variables share the block and the     *)
(* image reaches where the RAM test may be.                                *)
Spared(h) == Apart \/ h.load + h.size <= TestMin
CopyHolds ==
  pc = "copy" /\ copied > 0 =>
    \A w \in ImageWords(hdr) : SramBase + 4 * w < hdr.load + copied => w \in held
ImageHeld == Settled /\ verified /\ Clear(hdr) /\ Spared(hdr) =>
               ImageWords(hdr) \ BlockWords \subseteq held
BlockSays == Settled /\ verified /\ Clear(hdr) /\ Apart => info[1] = hdr.load /\ info[2] = hdr.size
Loaded == Settled /\ verified => Verdict(hdr) = OK
GoInv == CopyHolds /\ ImageHeld /\ BlockSays /\ Loaded

(* The word an address is in.                                              *)
LEMMA WordBounds ==
  ASSUME NEW a \in Nat, a >= SramBase
  PROVE  /\ WordOf(a) \in Nat /\ SramBase + 4 * WordOf(a) <= a
         /\ a < SramBase + 4 * WordOf(a) + 4
         /\ a % 4 = 0 => SramBase + 4 * WordOf(a) = a
<1>1. SramBase \in Nat /\ SramBase % 4 = 0
  BY Sizes
<1> DEFINE d == a - SramBase
           w == d \div 4
<1>2. d \in Nat
  BY <1>1
<1>3. w \in Nat /\ 4 * w <= d /\ d < 4 * w + 4
  <2> HIDE DEF d
  <2> QED
    BY <1>2
<1>4. a % 4 = 0 => d % 4 = 0
  BY <1>1
<1>5. d % 4 = 0 => 4 * w = d
  <2> HIDE DEF d
  <2> QED
    BY <1>2
<1>6. WordOf(a) = w
  BY DEF WordOf
<1> HIDE DEF w
<1>7. QED
  BY <1>1, <1>3, <1>4, <1>5, <1>6

(* The words of an image that was accepted.                                *)
LEMMA ImageBounds ==
  ASSUME NEW h \in Header, Verdict(h) = OK, NEW w \in ImageWords(h)
  PROVE  /\ w \in Nat /\ h.load < SramBase + 4 * w + 4
         /\ SramBase + 4 * w < h.load + h.size
<1>1. /\ h.load \in Nat /\ h.size \in Nat /\ h.load >= SramBase /\ h.size > 0
      /\ SramBase \in Nat
  BY HeaderTyped, AcceptedFits, Sizes
<1>2. /\ WordOf(h.load) \in Nat /\ h.load < SramBase + 4 * WordOf(h.load) + 4
      /\ WordOf(h.load + h.size - 1) \in Nat
      /\ SramBase + 4 * WordOf(h.load + h.size - 1) <= h.load + h.size - 1
  <2>1. h.load + h.size - 1 \in Nat /\ h.load + h.size - 1 >= SramBase
    BY <1>1
  <2> QED
    BY <1>1, <2>1, WordBounds
<1>3. w \in Int /\ w >= WordOf(h.load) /\ w <= WordOf(h.load + h.size - 1)
  BY <1>2 DEF ImageWords
<1>4. QED
  BY <1>1, <1>2, <1>3

(* The copy holds what it has copied.                                      *)
LEMMA CopyGo ==
  ASSUME BInv, GoInv, CopyWord
  PROVE  GoInv'
<1> DEFINE addr == hdr.load + copied
           v == WordOf(addr)
           next == copied + (4 - (addr % 4))
<1>1. /\ pc = "copy" /\ copied < hdr.size /\ hdr' = hdr /\ layout' = layout
      /\ copied' = (IF next < hdr.size THEN next ELSE hdr.size)
      /\ held' = held \cup {v} /\ pc' \in {"copy", "wild"}
  BY DEF CopyWord
<1>2. /\ hdr \in Header /\ Verdict(hdr) = OK /\ hdr.load \in Nat /\ hdr.size \in Nat
      /\ copied \in Nat /\ hdr.load >= SramBase /\ SramBase \in Nat
  BY <1>1, LoaderNumbers, AcceptedFits, Sizes DEF BInv, HeaderChecked
<1>3. addr \in Nat /\ addr >= SramBase
  BY <1>2
<1>4. v \in Nat /\ SramBase + 4 * v <= addr /\ addr < SramBase + 4 * v + 4
  BY <1>3, WordBounds
<1>5. hdr.load + copied' <= SramBase + 4 * v + 4
  <2>1. addr - (addr % 4) = SramBase + 4 * v
    <3>1. SramBase % 4 = 0
      BY Sizes
    <3> HIDE DEF addr, v
    <3>2. PICK s \in Nat : SramBase = 4 * s
      <4>1. SramBase \div 4 \in Nat /\ SramBase = 4 * (SramBase \div 4)
        BY <1>2, <3>1
      <4> QED
        BY <4>1
    <3> QED
      BY <1>2, <1>3, <1>4, <3>2
  <2>2. addr % 4 \in 0..3
    <3> HIDE DEF addr
    <3> QED
      BY <1>3
  <2>3. hdr.load + next = addr + (4 - (addr % 4))
    BY <1>2, <2>2
  <2>4. copied' <= next
    BY <1>1, <1>2, <2>2
  <2> HIDE DEF addr, next, v
  <2>5. copied' \in Int /\ next \in Int
    BY <1>1, <1>2, <2>2 DEF next
  <2>6. hdr.load + copied' <= hdr.load + next
    BY <1>2, <2>4, <2>5
  <2>7. addr + (4 - (addr % 4)) = SramBase + 4 * v + 4
    BY <1>2, <1>3, <1>4, <2>1, <2>2
  <2> QED
    BY <2>3, <2>6, <2>7
<1>6. ASSUME NEW w \in ImageWords(hdr), SramBase + 4 * w < hdr.load + copied'
      PROVE  w \in held'
  <2>1. w \in Nat /\ hdr.load < SramBase + 4 * w + 4
    BY <1>2, ImageBounds
  <2>2. w <= v
    BY <1>2, <1>4, <1>5, <1>6, <2>1, <1>1
  <2>3. CASE w < v
    <3>1. copied > 0 /\ SramBase + 4 * w < hdr.load + copied
      BY <1>2, <1>4, <2>1, <2>3
    <3> QED
      BY <1>1, <3>1 DEF GoInv, CopyHolds
  <2>4. CASE w = v
    BY <1>1, <2>4
  <2> QED
    BY <1>4, <2>1, <2>2, <2>3, <2>4
<1>7. CopyHolds'
  BY <1>1, <1>6 DEF CopyHolds, ImageWords
<1>8. QED
  BY <1>1, <1>7 DEF GoInv, ImageHeld, BlockSays, Loaded, Settled

(* The rest of an attempt.                                                 *)
LEMMA LoadGo ==
  ASSUME BInv, GoInv, Load
  PROVE  GoInv'
<1>1. CASE BeginBoot
  BY <1>1 DEF BeginBoot, GoInv, CopyHolds, ImageHeld, BlockSays, Loaded, Settled
<1>2. CASE RejectHeader \/ RejectImage
  <2>1. /\ pc' = "poll" /\ verified' = verified /\ pc \in {"header", "copy"}
    BY <1>2 DEF RejectHeader, RejectImage, Prompt
  <2>2. ~verified
    BY <2>1 DEF BInv, Forgotten
  <2> QED
    BY <2>1, <2>2 DEF GoInv, CopyHolds, ImageHeld, BlockSays, Loaded
<1>3. CASE AcceptHeader
  BY <1>3 DEF AcceptHeader, GoInv, CopyHolds, ImageHeld, BlockSays, Loaded, Settled
<1>4. CASE CopyWord
  BY <1>4, CopyGo
<1>5. CASE AcceptImage
  <2>1. /\ pc = "copy" /\ copied = hdr.size /\ pc' = "poll" /\ hdr' = hdr /\ layout' = layout
        /\ held' = held \ BlockWords
        /\ info' = [[BootInfo(hdr) EXCEPT ![layout["boot_entry_addr"]] = hdr.entry]
                      EXCEPT ![layout["boot_loaded"]] = 1]
    BY <1>5 DEF AcceptImage, Prompt, Write
  <2>2. hdr \in Header /\ Verdict(hdr) = OK /\ hdr.size > 0
    BY <2>1, LoaderNumbers, AcceptedFits DEF BInv, HeaderChecked
  <2>3. ImageWords(hdr) \ BlockWords \subseteq held'
    <3> SUFFICES ASSUME NEW w \in ImageWords(hdr), w \notin BlockWords PROVE w \in held'
      OBVIOUS
    <3>1. SramBase + 4 * w < hdr.load + hdr.size
      BY <2>2, ImageBounds
    <3> QED
      BY <2>1, <2>2, <3>1 DEF GoInv, CopyHolds
  <2>4. Apart => info'[1] = hdr.load /\ info'[2] = hdr.size
    <3>1. BootInfo(hdr)[1] = hdr.load /\ BootInfo(hdr)[2] = hdr.size /\ DOMAIN BootInfo(hdr) = 0..11
      BY DEF BootInfo
    <3>2. Apart => layout["boot_loaded"] >= 8 /\ layout["boot_entry_addr"] >= 8
      BY DEF Apart, Globals
    <3>3. layout["boot_loaded"] \in 0..11 /\ layout["boot_entry_addr"] \in 0..11
      BY LoadedPlaces DEF BInv, BootTypeOK
    <3> QED
      BY <2>1, <3>1, <3>2, <3>3
  <2>5. Apart' => Apart
    BY <2>1 DEF Apart
  <2>6. CopyHolds' /\ Loaded'
    BY <2>1, <2>2 DEF CopyHolds, Loaded
  <2>7. ImageHeld'
    BY <2>1, <2>3 DEF ImageHeld, ImageWords
  <2>8. BlockSays'
    BY <2>1, <2>4, <2>5 DEF BlockSays
  <2> QED
    BY <2>6, <2>7, <2>8 DEF GoInv
<1>6. QED
  BY <1>1, <1>2, <1>3, <1>4, <1>5 DEF Load

(* A scan code takes nothing from the image outside the block.             *)
LEMMA DataGo ==
  ASSUME BInv, GoInv, PollData
  PROVE  GoInv'
<1>1. /\ pc = "data" /\ pc' \in {"poll", "run"} /\ layout' = layout /\ hdr' = hdr
      /\ verified' = verified /\ info' = KeyInfo(ps2.rx_data.code)
      /\ held' = held \ {w \in BlockWords : info'[w] # info[w]}
  BY DEF PollData, Prompt
<1>2. BootTypeOK /\ hdr \in Header /\ layout \in Layouts /\ Settled
  BY <1>1 DEF BInv, BootTypeOK, Settled
<1>4. ImageHeld'
  BY <1>1, <1>2 DEF GoInv, ImageHeld, Spared, Apart, Clear, ImageWords
<1>5. Apart => info'[1] = info[1] /\ info'[2] = info[2]
  <2>1. ps2.rx_data \in Codes
    BY <1>2 DEF BootTypeOK
  <2>2. ps2.rx_data.code \in Nat
    BY <2>1, CodeTyped
  <2>3. Apart => layout["ps2_break_prefix"] >= 8 /\ layout["ps2_extended_prefix"] >= 8
    BY DEF Apart, Globals
  <2>4. \A w \in {1, 2} : Apart => w # layout["ps2_break_prefix"] /\ w # layout["ps2_extended_prefix"]
    BY <2>3
  <2>5. \A w \in {1, 2} : Apart => KeyInfo(ps2.rx_data.code)[w] = info[w]
    <3>1. \A w \in 0..11 : /\ w # layout["ps2_break_prefix"]
                           /\ w # layout["ps2_extended_prefix"] /\ w \notin {6, 7}
                           => KeyInfo(ps2.rx_data.code)[w] = info[w]
      BY <1>2, <2>2, KeyInfoTyped
    <3>2. \A w \in {1, 2} : w \in 0..11 /\ w \notin {6, 7}
      OBVIOUS
    <3> QED
      BY <2>4, <3>1, <3>2
  <2> QED
    BY <1>1, <2>5
<1>6. BlockSays'
  BY <1>1, <1>2, <1>5 DEF GoInv, BlockSays, Apart, Clear
<1>7. CopyHolds' /\ Loaded'
  BY <1>1, <1>2 DEF GoInv, CopyHolds, Loaded
<1>8. QED
  BY <1>4, <1>6, <1>7 DEF GoInv

(* The RAM test writes above an image that it can find the end of.         *)
LEMMA TestSpares ==
  ASSUME BInv, GoInv, Settled, verified, Clear(hdr), Spared(hdr), NEW w \in ImageWords(hdr)
  PROVE  w < WordOf(TestBase)
<1>1. hdr \in Header /\ Verdict(hdr) = OK /\ BootTypeOK /\ LoadedIsVerified
  BY DEF BInv, BootTypeOK, GoInv, Loaded
<1>2. /\ hdr.load \in Nat /\ hdr.size \in Nat /\ hdr.load >= SramBase /\ hdr.size > 0
      /\ hdr.load + hdr.size <= SramBase + SramBytes
  BY <1>1, LoaderNumbers, AcceptedFits
<1>3. /\ TestBase \in Nat /\ TestBase % 4 = 0 /\ TestBase >= TestMin
      /\ TestMin \in Nat /\ TestMin >= SramBase
  BY <1>1, TestPlace, BootAssumption DEF TestMin
<1>4. hdr.load + hdr.size <= TestBase
  <2>1. CASE hdr.load + hdr.size <= TestMin
    BY <1>2, <1>3, <2>1
  <2>2. CASE Apart
    <3> DEFINE n == hdr.load + hdr.size
               e == Align32(Wrap(info[1] + info[2]))
    <3>1. info[1] = hdr.load /\ info[2] = hdr.size
      BY <2>2 DEF GoInv, BlockSays
    <3>2. n \in Nat /\ n < AddrMod /\ n + 31 < AddrMod
      BY <1>2, BootAssumption
    <3>3. Wrap(n) = n
      BY <3>2, WrapSmall
    <3>4. e = Align32(n)
      BY <3>1, <3>3
    <3> HIDE DEF n, e
    <3>5. e \in Nat /\ n <= e
      BY <3>2, <3>4, AlignedUp
    <3>6. Global("boot_loaded") # 0
      BY <1>1 DEF LoadedIsVerified
    <3>7. TestBase = IF e > TestMin THEN e ELSE TestMin
      BY <3>6 DEF TestBase, e
    <3>8. n <= TestBase
      BY <1>3, <3>2, <3>5, <3>7
    <3> QED
      BY <3>8 DEF n
  <2> QED
    BY <2>1, <2>2 DEF Spared
<1>5. SramBase \in Nat /\ TestBase >= SramBase
  BY <1>3, Sizes
<1>6. WordOf(TestBase) \in Nat /\ SramBase + 4 * WordOf(TestBase) = TestBase
  BY <1>3, <1>5, WordBounds
<1>7. w \in Nat /\ SramBase + 4 * w < hdr.load + hdr.size
  BY <1>1, ImageBounds
<1>8. QED
  BY <1>2, <1>3, <1>4, <1>5, <1>6, <1>7

LEMMA TestGo ==
  ASSUME BInv, GoInv, run_ram_test
  PROVE  GoInv'
<1>1. /\ pc = "run" /\ pc' = "poll" /\ layout' = layout /\ hdr' = hdr /\ info' = info
      /\ verified' = verified
      /\ held' = held \/ held' = held \ (WordOf(TestBase) .. WordOf(TestBase) + 3)
  BY DEF run_ram_test, Running, Prompt
<1>2. Settled
  BY <1>1 DEF Settled
<1>3. CopyHolds' /\ Loaded' /\ BlockSays'
  BY <1>1, <1>2 DEF GoInv, CopyHolds, Loaded, BlockSays, Apart, Clear
<1>4. ASSUME verified, Clear(hdr), Spared(hdr), NEW w \in ImageWords(hdr), w \notin BlockWords
      PROVE  w \in held'
  <2>1. w \in held
    BY <1>2, <1>4 DEF GoInv, ImageHeld
  <2>2. w < WordOf(TestBase)
    BY <1>2, <1>4, TestSpares
  <2>3. w \in Nat
    <3>1. hdr \in Header /\ Verdict(hdr) = OK
      BY <1>2, <1>4 DEF BInv, BootTypeOK, GoInv, Loaded
    <3> QED
      BY <1>4, <3>1, ImageBounds
  <2>4. WordOf(TestBase) \in Nat
    <3>1. TestBase \in Nat /\ TestBase >= TestMin /\ TestMin >= SramBase /\ TestMin \in Nat
          /\ SramBase \in Nat
      BY TestPlace, BootAssumption DEF BInv, TestMin
    <3> QED
      BY <3>1, WordBounds
  <2> QED
    BY <1>1, <2>1, <2>2, <2>3, <2>4
<1>5. ImageHeld'
  BY <1>1, <1>4 DEF ImageHeld, Spared, Apart, Clear, ImageWords
<1>6. QED
  BY <1>3, <1>5 DEF GoInv

(* Every other step leaves the image, the block and the variables alone.   *)
LEMMA OtherGo ==
  ASSUME BInv, GoInv,
         PollUart \/ PollStatus \/ (Run /\ ~run_ram_test) \/ App \/ UartRx \/ Key \/ Ps2Rx
         \/ UNCHANGED vars
  PROVE  GoInv'
<1>1. /\ layout' = layout /\ info' = info /\ hdr' = hdr /\ verified' = verified
      /\ held' = held /\ copied' = copied
  BY DEF PollUart, PollStatus, Run, RunPrint, RunLed, RunBoot, show_ps2_status,
         show_boot_info, dump_memory_snapshot, run_npu_mmio_test,
         run_npu_pcpi_test, run_npu_vec16_test, run_npu_matvec_test, run_loaded_program,
         NpuTest, Silent, App, AppUart, AppKey, AppReturn, UartRx, Key, Ps2Rx, vars, loader
<1>2. pc' = pc \/ (Settled /\ pc' # "copy")
  <2>1. CASE PollUart \/ PollStatus
    <3>1. pc \in {"poll", "status"} /\ pc' # "copy"
      BY <2>1 DEF PollUart, PollStatus
    <3> QED
      BY <3>1 DEF Settled
  <2>2. CASE (Run /\ ~run_ram_test) \/ App
    <3>1. pc \in {"run", "app"}
      BY <2>2 DEF Run, RunPrint, RunLed, RunBoot, show_ps2_status,
         show_boot_info, dump_memory_snapshot, run_npu_mmio_test,
         run_npu_pcpi_test, run_npu_vec16_test, run_npu_matvec_test, run_loaded_program,
         NpuTest, App, AppUart, AppKey, AppReturn, Running
    <3>2. pc' \in {"boot", "poll", "app", "wild"}
      BY <2>2 DEF Run, RunPrint, RunLed, RunBoot, show_ps2_status,
         show_boot_info, dump_memory_snapshot, run_npu_mmio_test,
         run_npu_pcpi_test, run_npu_vec16_test, run_npu_matvec_test, run_loaded_program,
         NpuTest, Prompt, App, AppUart, AppKey, AppReturn, GoTarget
    <3> QED
      BY <3>1, <3>2 DEF Settled
  <2>3. CASE UartRx \/ Key \/ Ps2Rx \/ UNCHANGED vars
    BY <2>3 DEF UartRx, Key, Ps2Rx, vars
  <2> QED
    BY <2>1, <2>2, <2>3
<1>3. Settled' => Settled
  BY <1>2 DEF Settled
<1>4. CopyHolds'
  BY <1>1, <1>2 DEF GoInv, CopyHolds, ImageWords
<1>5. ImageHeld' /\ BlockSays' /\ Loaded'
  BY <1>1, <1>3 DEF GoInv, ImageHeld, BlockSays, Loaded, Spared, Apart, Clear, ImageWords
<1>6. QED
  BY <1>4, <1>5 DEF GoInv

LEMMA NextGo == BInv /\ GoInv /\ [Next]_vars => GoInv'
BY LoadGo, DataGo, TestGo, OtherGo DEF Next, Monitor, Poll, Run

(* The monitor enters only a program it has verified, at the address its   *)
(* header gives, and with every word of it outside the boot info block as  *)
(* the card had it: the RAM test finds the end of the image unless the     *)
(* variables share the block (bootrom.c:200-227, 412-429).                 *)
THEOREM GoesToVerified == Spec => GoVerified
<1>1. Init => GoInv
  BY DEF Init, GoInv, CopyHolds, ImageHeld, BlockSays, Loaded, Settled
<1> DEFINE P == pc # "app" /\ pc' = "app" /\ Clear(hdr) =>
        /\ verified /\ Global("boot_entry_addr") = hdr.entry
        /\ Apart \/ hdr.load + hdr.size <= TestMin =>
             ImageWords(hdr) \ BlockWords \subseteq held
<1>2. BInv /\ GoInv /\ [Next]_vars => [P]_vars
  <2> SUFFICES ASSUME BInv, GoInv, Next, pc # "app", pc' = "app", Clear(hdr)
               PROVE  /\ verified /\ Global("boot_entry_addr") = hdr.entry
                      /\ Spared(hdr) => ImageWords(hdr) \ BlockWords \subseteq held
    BY DEF Spared
  <2>1. run_loaded_program
    BY DEF Next, Monitor, Load, BeginBoot, RejectHeader, AcceptHeader, CopyWord,
           RejectImage, AcceptImage, Poll, PollUart, PollStatus, PollData, Run, RunPrint,
           RunLed, RunBoot, show_ps2_status, show_boot_info, dump_memory_snapshot,
           run_ram_test, run_npu_mmio_test, run_npu_pcpi_test, run_npu_vec16_test,
           run_npu_matvec_test, NpuTest, Prompt, App, AppUart, AppKey, AppReturn, UartRx, Key, Ps2Rx
  <2>2. Global("boot_loaded") # 0 /\ pc = "run"
    BY <2>1 DEF run_loaded_program, GoTarget, Running
  <2>3. Settled
    BY <2>2 DEF Settled
  <2>4. verified /\ Global("boot_entry_addr") = hdr.entry
    BY <2>2, <2>3 DEF BInv, LoadedIsVerified
  <2> QED
    BY <2>3, <2>4 DEF GoInv, ImageHeld
<1>3. QED
  BY <1>1, <1>2, NextGo, InitInvariant, NextInvariant, PTL DEF Spec, GoVerified
=============================================================================
