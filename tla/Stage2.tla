------------------------------- MODULE Stage2 -------------------------------
(***************************************************************************)
(* The real-mode part of the second boot stage (boot/stage2.asm): it asks  *)
(* the BIOS for the geometry of the boot drive, checks the processor and   *)
(* loads the kernel at 1 MiB, with one LBA read or, when that fails, in    *)
(* chunks addressed by cylinder, head and sector.                          *)
(*                                                                         *)
(* Memory above 1 MiB is a row of places of one sector each, and a place   *)
(* holds the number (LBA) of the sector that was read there.  The BIOS     *)
(* may fail any call.                                                      *)
(***************************************************************************)
EXTENDS Integers

CONSTANTS
    KernelSizes,    \* bound: KERNEL_SECTORS, a constant of each build
    Geometries      \* bound: [heads, secs] of the drives

KERNEL_LBA_START == 18
KERNEL_SEG == 65535
KERNEL_OFF == 16
MAX_CHS_READ == 16
SECTOR == 512
SEGMENT == 65536
Word == 0..(SEGMENT - 1)
MiB == 1048576

ASSUME Stage2Assumption ==
    /\ KernelSizes \subseteq 1..(SEGMENT - 1)
    /\ Geometries \subseteq [heads : 1..255, secs : 1..63]

Nothing == -1
Torn == -2          \* a part of the sector went elsewhere
Places == 0..255    \* more than the segment at 0xFFFF reaches

VARIABLES
    pc,
    kernel,                     \* KERNEL_SECTORS
    machine,                    \* the processor, the BIOS and the drive
    heads, secs_trk,            \* the geometry that lba2chs uses
    chs_lba, chs_left, chs_seg, chs_off,
    mem                         \* what each place holds

build == <<kernel, machine>>
geometry == <<heads, secs_trk>>
chs == <<chs_lba, chs_left, chs_seg, chs_off>>
stage2Vars == <<pc, build, geometry, chs, mem>>

\* "drive": does a drive have the number that stage 1 left at 0x7BFF?
\* "ext" is what the BIOS knows of the LBA calls: nothing, something without
\* the packet calls, or all; "wraps": does a transfer wrap in its segment?
Machines ==
    {[cpu64 |-> c, drive |-> d, heads |-> g.heads, secs |-> g.secs,
      ext |-> e, wraps |-> w] :
        c \in BOOLEAN, d \in BOOLEAN, g \in Geometries,
        e \in {"none", "other", "packet"}, w \in BOOLEAN}

Init ==
    /\ pc = "params"
    /\ kernel \in KernelSizes /\ machine \in Machines
    /\ heads = 255 /\ secs_trk = 63
    /\ chs_lba = 0 /\ chs_left = 0 /\ chs_seg = 0 /\ chs_off = 0
    /\ mem = [p \in Places |-> Nothing]

-----------------------------------------------------------------------------
(* The BIOS.                                                               *)

\* Where the j-th sector of a transfer to an offset goes
Offset(off, j) ==
    IF machine.wraps THEN (off + SECTOR * j) % SEGMENT ELSE off + SECTOR * j

\* The places from 1 MiB on after count sectors from lba went to seg:off
Loaded(seg, off, lba, count) ==
    [p \in Places |->
        LET At(j) == seg * 16 + Offset(off, j) = MiB + SECTOR * p
            here == {j \in 0..(count - 1) : At(j)}
        IN  IF here = {} THEN mem[p]
            ELSE LET j == CHOOSE i \in here : \A k \in here : k <= i
                 IN  IF machine.wraps /\ Offset(off, j) > SEGMENT - SECTOR
                     THEN Torn ELSE lba + j]

\* The sector that the drive has at an address, if it has that address
Addressable(cyl, hd, sec) == hd < machine.heads /\ sec \in 1..machine.secs
SectorAt(cyl, hd, sec) == (cyl * machine.heads + hd) * machine.secs + sec - 1

-----------------------------------------------------------------------------
(* Stage 2.                                                                *)

\* The geometry of the drive, or of a floppy disk when the BIOS fails
get_drive_params ==
    /\ pc = "params" /\ pc' = "cpu"
    /\ \/ machine.drive /\ heads' = machine.heads /\ secs_trk' = machine.secs
       \/ heads' = 2 /\ secs_trk' = 18
    /\ UNCHANGED <<build, chs, mem>>

check_cpu64 ==
    /\ pc = "cpu"
    /\ pc' = IF machine.cpu64 THEN "lba" ELSE "die"
    /\ UNCHANGED <<build, geometry, chs, mem>>

\* Without a carry the signature and the bits of CX are not looked at.
CheckLba ==
    /\ pc = "lba"
    /\ pc' = IF machine.drive /\ machine.ext # "none" THEN "packet" ELSE "fallback"
    /\ UNCHANGED <<build, geometry, chs, mem>>

\* One call for the whole kernel.  A call that fails may have read a part.
ReadLba ==
    /\ pc = "packet"
    /\ \/ /\ machine.ext = "packet"
          /\ mem' = Loaded(KERNEL_SEG, KERNEL_OFF, KERNEL_LBA_START, kernel)
          /\ pc' = "loaded"
       \/ /\ \E n \in {0, kernel \div 2} :
                mem' = Loaded(KERNEL_SEG, KERNEL_OFF, KERNEL_LBA_START, n)
          /\ pc' = "fallback"
    /\ UNCHANGED <<build, geometry, chs>>

StartChs ==
    /\ pc = "fallback" /\ pc' = "loop"
    /\ chs_lba' = KERNEL_LBA_START /\ chs_left' = kernel
    /\ chs_seg' = KERNEL_SEG /\ chs_off' = KERNEL_OFF
    /\ UNCHANGED <<build, geometry, mem>>

\* Mutant of chs_cnt: chunks of twice the size.
LongChunks == 2 * MAX_CHS_READ

\* The size of a chunk.  "cmp ax, cx" does not compare chs_left: dbg_putc has
\* left 0x0E49 in AX, so the last chunk is as long as the others.
chs_cnt == MAX_CHS_READ

\* Mutant of lba2chs: quotient and remainder of the second division swapped.
Lba2chsSwapped ==
    LET track == chs_lba \div secs_trk
    IN  [sec |-> (chs_lba % secs_trk) + 1, hd |-> track \div heads,
         cyl |-> track % heads]

lba2chs ==
    LET track == chs_lba \div secs_trk
    IN  [sec |-> (chs_lba % secs_trk) + 1, hd |-> track % heads,
         cyl |-> (track \div heads) % 256]

\* The offset and, with its carry, the segment of the next chunk
Advance ==
    LET off == chs_off + chs_cnt * SECTOR
    IN  /\ chs_off' = off % SEGMENT
        /\ chs_seg' = IF off < SEGMENT THEN chs_seg
                      ELSE (chs_seg + 4096) % SEGMENT

\* Mutant of ReadFailed: a chunk that fails is tried again.
ReadRetried ==
    /\ pc = "loop" /\ chs_left # 0
    /\ UNCHANGED stage2Vars

ReadFailed ==
    /\ pc = "loop" /\ chs_left # 0
    /\ pc' = "die"
    /\ UNCHANGED <<build, geometry, chs, mem>>

\* A chunk is read.  One that goes to 0x10000 replaces stage 2 itself.
ReadChunk ==
    /\ pc = "loop" /\ chs_left # 0 /\ machine.drive
    /\ LET c == lba2chs
       IN  /\ Addressable(c.cyl, c.hd, c.sec)
           /\ mem' = Loaded(chs_seg, chs_off, SectorAt(c.cyl, c.hd, c.sec), chs_cnt)
    /\ chs_lba' = chs_lba + chs_cnt
    /\ chs_left' = (chs_left - chs_cnt) % SEGMENT
    /\ Advance
    /\ pc' = IF chs_seg * 16 + chs_off = SEGMENT THEN "lost" ELSE "loop"
    /\ UNCHANGED <<build, geometry>>

ChsDone ==
    /\ pc = "loop" /\ chs_left = 0
    /\ pc' = "loaded"
    /\ UNCHANGED <<build, geometry, chs, mem>>

read_chs == ReadChunk \/ ReadFailed \/ ChsDone

Next ==
    \/ get_drive_params \/ check_cpu64 \/ CheckLba \/ ReadLba
    \/ StartChs \/ read_chs

\* The processor runs on.
Spec == Init /\ [][Next]_stage2Vars
FairSpec == Spec /\ WF_stage2Vars(Next)

-----------------------------------------------------------------------------
(* Properties                                                              *)

\* A transfer stays below the end of the segment at 0xFFFF.
InSegment == KERNEL_OFF + kernel * SECTOR <= SEGMENT

\* Did the CHS read use the geometry of the drive?
Geometric ==
    chs_lba # 0 => heads = machine.heads /\ secs_trk = machine.secs

\* Stage 2 goes on to the kernel only with every sector of it in its place,
\* also after an LBA read that failed half way: for a kernel within the segment
\* and, with the fallback, if the BIOS has told the geometry.  The processor is
\* a 64-bit one and there is a boot drive.
KernelWhole ==
    pc = "loaded" =>
        /\ machine.cpu64 /\ machine.drive
        /\ (InSegment /\ Geometric) =>
               \A p \in 0..(kernel - 1) : mem[p] = KERNEL_LBA_START + p

\* With a kernel of whole chunks that reaches no further than the carry of the
\* offset, the fallback ends before a chunk comes down on stage 2.
Stage2Survives ==
    (kernel % MAX_CHS_READ = 0 /\ kernel <= 128) => pc # "lost"

\* The loading ends, and well or with "Disk error" for such a kernel, whatever
\* the BIOS refuses.
LoadEnds ==
    <>(\/ pc \in {"loaded", "die"}
       \/ kernel % MAX_CHS_READ # 0 /\ pc = "lost"
       \/ kernel > 128 /\ pc = "lost")

=============================================================================
