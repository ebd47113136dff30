------------------------------- MODULE MCAhci -------------------------------
(***************************************************************************)
(* Instances of Ahci for TLC: what is at the ports, and what is asked.     *)
(***************************************************************************)
EXTENDS Ahci, TLC

TwoPorts == {(0 :> "ata") @@ (1 :> "atapi"), (0 :> "ata") @@ (1 :> "other")}
OneDisk == {(0 :> "ata")}

Ask(op, disk, lba, count) == [op |-> op, disk |-> disk, lba |-> lba, count |-> count]

\* With a nibble of 2 values, an LBA of "28 bits" in base 4 is below 128.  The last
\* of 16 sectors from 112 is the last one of 28 bits, but lba + count makes the
\* command a 48-bit one.  200 has the digits of a 28-bit LBA but not its nibble,
\* 2989 has six digits.  An int is below 4096: the product of 17 sectors wraps to
\* one, that of 16 to none, and that of -15, which the parser reads as the LBA
\* too, to one.
Edges == {Ask("write", 1, 2989, 3), Ask("read", 0, 112, 16), Ask("read", 0, 200, 17),
          Ask("read", 0, -15, -15), Ask("read", -1, 0, 1)}
Plain == {Ask("read", 0, 0, 1)}

=============================================================================
