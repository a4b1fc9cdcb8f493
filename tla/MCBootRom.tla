------------------------------ MODULE MCBootRom ------------------------------
(* The boot ROM on an SRAM of 48 words at 256 with addresses of ten bits.  *)
EXTENDS BootProps

Hdr(load, size, entry, intact) ==
  [magic_ok |-> TRUE, version_ok |-> TRUE, load |-> load, size |-> size,
   entry |-> entry, sum |-> 5, intact |-> intact]

(* Images: a small one, intact and not, one at SRAM_BASE, intact and not,  *)
(* one that begins in the block and ends beyond it, two that end past      *)
(* RAMTEST_MIN_BASE, one that ends among the stack's words, one that ends  *)
(* with SRAM; then two that leave SRAM, one below it, one with no size,    *)
(* one with its entry outside, and one whose magic and one whose version   *)
(* is wrong.                                                               *)
MCHeaders ==
  { Hdr(288, 6, 290, TRUE), Hdr(288, 6, 290, FALSE), Hdr(256, 8, 260, FALSE),
    Hdr(256, 8, 260, TRUE), Hdr(280, 16, 288, TRUE),
    Hdr(320, 8, 320, TRUE), Hdr(372, 8, 372, TRUE), Hdr(440, 8, 440, TRUE),
    Hdr(444, 8, 444, TRUE), Hdr(288, 1000, 288, TRUE), Hdr(200, 8, 200, TRUE),
    Hdr(288, 0, 288, TRUE), Hdr(288, 8, 296, TRUE),
    [Hdr(288, 8, 288, TRUE) EXCEPT !.magic_ok = FALSE],
    [Hdr(288, 8, 288, TRUE) EXCEPT !.version_ok = FALSE] }

Names == <<"boot_loaded", "boot_entry_addr", "ps2_break_prefix",
           "ps2_extended_prefix">>
Place(p) == [g \in Globals |-> p[CHOOSE i \in 1..4 : Names[i] = g]]
(* In the block, in the order of the source, and apart.                    *)
MCLayouts == { Place(<<0, 1, 2, 3>>), Place(<<8, 9, 10, 11>>) }
InSource == { Place(<<0, 1, 2, 3>>) }
Separate == { Place(<<8, 9, 10, 11>>) }

(* An image the generator makes with --load-addr 0x10000000.               *)
BaseHeaders == { Hdr(256, 40, 256, TRUE) }
BasePayload == {300}

MCPayload == {0, 300}
MCChars == {"b", "g", "?", "i", "k", "l", "m", "n", "p", "r", "v", "x"}
MCScans == {52}
=============================================================================
