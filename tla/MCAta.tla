------------------------------- MODULE MCAta --------------------------------
(***************************************************************************)
(* Instances of Ata for TLC: what is plugged in the channel, and the LBAs. *)
(***************************************************************************)
EXTENDS Ata, TLC

Disk28 == [kind |-> "ata", sectors |-> 64, lba48 |-> FALSE]
Disk48 == [kind |-> "ata", sectors |-> 64, lba48 |-> TRUE]
Blank == [kind |-> "ata", sectors |-> 0, lba48 |-> FALSE]
CdRom == [kind |-> "atapi", sectors |-> 0, lba48 |-> FALSE]
Empty == [kind |-> "none", sectors |-> 0, lba48 |-> FALSE]

Pair(m, s) == (0 :> m) @@ (1 :> s)

Wired == {Pair(Disk28, Disk48), Pair(CdRom, Disk28), Pair(Blank, Empty)}

\* In base 4 the digits of 77 are 1,3,0,1,0,0, those of 1628 are 0,3,1,1,2,1: the
\* first is an LBA of 28 bits, the second one of 48 bits that has a name there.
MixedLbas == {77, 1628}

\* After a wait has given up on a unit at work, the properties about transfers
\* say nothing: the request is followed to its return, and no second one.
FirstAfterOverrun == overrun => served < 2

=============================================================================
